----------------------------- MODULE LoadsProofs -----------------------------
(***************************************************************************)
(* Proofs about Loads, for inputs of any length: the calls under way have  *)
(* items to wait for, and cbor.py counts the bytes that it reads.           *)
(***************************************************************************)
EXTENDS Loads, TLAPS, SequenceTheorems

-----------------------------------------------------------------------------
(* The stack *)

Frame(kind, left, items, key, n) ==
  [kind |-> kind, left |-> left, items |-> items, key |-> key, count |-> n]

Waits == {"array", "map", "tag", "bigtag"}

FrameOK(f) ==
  /\ f = Frame(f.kind, f.left, f.items, f.key, f.count)
  /\ f.kind \in Open \cup Waits /\ f.left \in Nat /\ f.count \in Nat
  /\ f.kind \in Open \/ f.left > 0
  /\ f.kind = "map" => f.left % 2 = 1 - (IF f.key = << >> THEN 1 ELSE 0)
  /\ f.kind \notin {"map", "map*"} => f.key = << >>

LEMMA FrameExcept ==
  ASSUME NEW f, f = Frame(f.kind, f.left, f.items, f.key, f.count), NEW x
  PROVE  /\ [f EXCEPT !.items = x] = Frame(f.kind, f.left, x, f.key, f.count)
         /\ [f EXCEPT !.key = x] = Frame(f.kind, f.left, f.items, x, f.count)
         /\ [f EXCEPT !.count = x] = Frame(f.kind, f.left, f.items, f.key, x)
         /\ [f EXCEPT !.left = x] = Frame(f.kind, x, f.items, f.key, f.count)
<1>1. ASSUME NEW a, NEW b, NEW c, NEW d, NEW e
      PROVE  LET g == Frame(a, b, c, d, e) IN
               /\ [g EXCEPT !.items = x] = Frame(a, b, x, d, e)
               /\ [g EXCEPT !.key = x] = Frame(a, b, c, x, e)
               /\ [g EXCEPT !.count = x] = Frame(a, b, c, d, x)
               /\ [g EXCEPT !.left = x] = Frame(a, x, c, d, e)
  BY DEF Frame
<1>2. LET g == Frame(f.kind, f.left, f.items, f.key, f.count) IN
        /\ [g EXCEPT !.items = x] = Frame(f.kind, f.left, x, f.key, f.count)
        /\ [g EXCEPT !.key = x] = Frame(f.kind, f.left, f.items, x, f.count)
        /\ [g EXCEPT !.count = x] = Frame(f.kind, f.left, f.items, f.key, x)
        /\ [g EXCEPT !.left = x] = Frame(f.kind, x, f.items, f.key, f.count)
  BY <1>1
<1> QED
  BY <1>2

LEMMA FrameFields ==
  ASSUME NEW kind, NEW left, NEW items, NEW key, NEW n
  PROVE  LET f == Frame(kind, left, items, key, n) IN
           /\ f.kind = kind /\ f.left = left /\ f.items = items
           /\ f.key = key /\ f.count = n
           /\ f = Frame(f.kind, f.left, f.items, f.key, f.count)
BY DEF Frame

(* What the decoders change of a call that takes what it waited for.       *)
LEMMA FrameTakes ==
  ASSUME NEW f, f = Frame(f.kind, f.left, f.items, f.key, f.count)
  PROVE  \A x, n :
           /\ [f EXCEPT !.items = x, !.count = n] = Frame(f.kind, f.left, x, f.key, n)
           /\ [f EXCEPT !.key = x, !.count = n] = Frame(f.kind, f.left, f.items, x, n)
<1> TAKE x, n
<1>1. ASSUME NEW g, g = [f EXCEPT !.items = x]
      PROVE  [g EXCEPT !.count = n] = Frame(f.kind, f.left, x, f.key, n)
  <2>1. g = Frame(f.kind, f.left, x, f.key, f.count)
    BY <1>1, FrameExcept
  <2>2. /\ g.kind = f.kind /\ g.left = f.left /\ g.items = x /\ g.key = f.key
        /\ g = Frame(g.kind, g.left, g.items, g.key, g.count)
    BY <2>1, FrameFields
  <2>3. [g EXCEPT !.count = n] = Frame(g.kind, g.left, g.items, g.key, n)
    BY <2>2, FrameExcept, Zenon
  <2> QED
    BY <2>2, <2>3
<1>2. ASSUME NEW g, g = [f EXCEPT !.key = x]
      PROVE  [g EXCEPT !.count = n] = Frame(f.kind, f.left, f.items, x, n)
  <2>1. g = Frame(f.kind, f.left, f.items, x, f.count)
    BY <1>2, FrameExcept
  <2>2. /\ g.kind = f.kind /\ g.left = f.left /\ g.items = f.items /\ g.key = x
        /\ g = Frame(g.kind, g.left, g.items, g.key, g.count)
    BY <2>1, FrameFields
  <2>3. [g EXCEPT !.count = n] = Frame(g.kind, g.left, g.items, g.key, n)
    BY <2>2, FrameExcept, Zenon
  <2> QED
    BY <2>2, <2>3
<1> QED
  BY <1>1, <1>2

IsList(s) == \E S : s \in Seq(S)

Frames(s) == IsList(s) /\ \A i \in DOMAIN s : FrameOK(s[i])

(* Each call is one for a token that was read. *)
Opened(s, r) == \A i \in DOMAIN s : \E j \in DOMAIN r : r[j].kind = s[i].kind

(* The bytes counted by the calls of s add up to n. *)
AddsUp(s, n) ==
  \E sum \in [0 .. Len(s) -> Nat] :
    /\ sum[0] = 0 /\ sum[Len(s)] = n
    /\ \A i \in 1 .. Len(s) : sum[i] = sum[i - 1] + s[i].count

LEMMA ListFacts ==
  ASSUME NEW s, IsList(s), NEW x
  PROVE  /\ Len(s) \in Nat /\ DOMAIN s = 1 .. Len(s)
         /\ IsList(Append(s, x)) /\ Len(Append(s, x)) = Len(s) + 1
         /\ Append(s, x)[Len(s) + 1] = x
         /\ \A i \in 1 .. Len(s) : Append(s, x)[i] = s[i]
         /\ DOMAIN Append(s, x) = 1 .. Len(s) + 1
<1>1. PICK S : s \in Seq(S)
  BY DEF IsList
<1>2. s \in Seq(S \cup {x}) /\ x \in S \cup {x}
  BY <1>1
<1> DEFINE T == S \cup {x}
<1> HIDE DEF T
<1>3. Append(s, x) \in Seq(T)
  BY <1>2 DEF T
<1> QED
  BY <1>1, <1>2, <1>3 DEF T, IsList

(* The stack but for its top, and a new top instead of it. *)
LEMMA TopFacts ==
  ASSUME NEW s, IsList(s), s # << >>
  PROVE  /\ Len(s) \in Nat /\ Len(s) >= 1 /\ Last(s) = s[Len(s)]
         /\ Len(s) \in DOMAIN s
         /\ IsList(Front(s)) /\ Len(Front(s)) = Len(s) - 1
         /\ \A i \in 1 .. Len(s) - 1 : Front(s)[i] = s[i]
         /\ DOMAIN Front(s) = 1 .. Len(s) - 1
         /\ \A f : [s EXCEPT ![Len(s)] = f] = Append(Front(s), f)
<1>1. PICK S : s \in Seq(S)
  BY DEF IsList
<1>2. Len(s) \in Nat /\ Len(s) >= 1 /\ Last(s) = s[Len(s)] /\ DOMAIN s = 1 .. Len(s)
  BY <1>1 DEF Last
<1>3. /\ Front(s) \in Seq(S) /\ Len(Front(s)) = Len(s) - 1
      /\ \A i \in 1 .. Len(s) - 1 : Front(s)[i] = s[i]
  BY <1>1, <1>2 DEF Front
<1>4. IsList(Front(s)) /\ DOMAIN Front(s) = 1 .. Len(s) - 1
  BY <1>3 DEF IsList
<1>5. PICK n \in Nat : n = Len(s)
  BY <1>2
<1>6. n >= 1 /\ DOMAIN s = 1 .. n
  BY <1>2, <1>5
<1> DEFINE t == Front(s)
<1>7. IsList(t) /\ Len(t) = n - 1 /\ \A i \in 1 .. n - 1 : t[i] = s[i]
  BY <1>3, <1>4, <1>5
<1> HIDE DEF t
<1>8. ASSUME NEW f PROVE [s EXCEPT ![n] = f] = Append(t, f)
  <2> DEFINE a == [s EXCEPT ![n] = f]
             b == Append(t, f)
  <2>1. a = [i \in 1 .. n |-> a[i]] /\ a[n] = f /\ \A i \in 1 .. n - 1 : a[i] = s[i]
    <3>1. DOMAIN a = 1 .. n /\ a[n] = f /\ \A i \in DOMAIN s : i # n => a[i] = s[i]
      BY <1>6
    <3>2. a = [i \in DOMAIN a |-> a[i]]
      OBVIOUS
    <3> HIDE DEF a
    <3>3. \A i \in 1 .. n - 1 : i \in 1 .. n /\ i # n
      OBVIOUS
    <3> QED
      BY <1>6, <3>1, <3>2, <3>3
  <2>2. /\ IsList(b) /\ Len(b) = Len(t) + 1 /\ DOMAIN b = 1 .. Len(t) + 1
        /\ b[Len(t) + 1] = f /\ \A i \in 1 .. Len(t) : b[i] = t[i]
    BY <1>7, ListFacts
  <2>3. Len(t) + 1 = n
    BY <1>7
  <2> HIDE DEF a, b
  <2>4. b = [i \in 1 .. n |-> b[i]]
    <3>1. PICK T : b \in Seq(T)
      BY <2>2 DEF IsList
    <3> QED
      BY <2>2, <2>3, <3>1
  <2>5. ASSUME NEW i \in 1 .. n PROVE a[i] = b[i]
    <3>1. CASE i = n
      BY <2>1, <2>2, <2>3, <3>1
    <3>2. CASE i # n
      <4>1. i \in 1 .. n - 1
        BY <3>2
      <4> QED
        BY <1>7, <2>1, <2>2, <4>1
    <3> QED
      BY <3>1, <3>2
  <2>6. a = b
    BY <2>1, <2>4, <2>5
  <2> QED
    BY <2>6 DEF a, b
<1>9. \A f : [s EXCEPT ![Len(s)] = f] = Append(Front(s), f)
  BY <1>8, <1>5 DEF t
<1>10. Len(s) \in DOMAIN s
  BY <1>2
<1> QED
  BY <1>2, <1>3, <1>4, <1>9, <1>10, Zenon

LEMMA AddsUpPush ==
  ASSUME NEW s, IsList(s), NEW n \in Nat, AddsUp(s, n), NEW f, f.count \in Nat
  PROVE  AddsUp(Append(s, f), n + f.count)
<1> DEFINE t == Append(s, f)
<1>1. PICK sum \in [0 .. Len(s) -> Nat] :
        /\ sum[0] = 0 /\ sum[Len(s)] = n
        /\ \A i \in 1 .. Len(s) : sum[i] = sum[i - 1] + s[i].count
  BY DEF AddsUp
<1>2. /\ Len(s) \in Nat /\ Len(t) = Len(s) + 1 /\ t[Len(s) + 1] = f
      /\ \A i \in 1 .. Len(s) : t[i] = s[i]
  BY ListFacts
<1> HIDE DEF t
<1> DEFINE more == [i \in 0 .. Len(t) |-> IF i = Len(t) THEN n + f.count ELSE sum[i]]
<1>3. more \in [0 .. Len(t) -> Nat]
  BY <1>1, <1>2
<1>4. more[0] = 0 /\ more[Len(t)] = n + f.count
  BY <1>1, <1>2
<1>5. ASSUME NEW i \in 1 .. Len(t) PROVE more[i] = more[i - 1] + t[i].count
  <2>1. CASE i = Len(t)
    <3>1. more[i] = n + f.count /\ t[i] = f
      BY <1>2, <2>1
    <3>2. i - 1 = Len(s) /\ i - 1 \in 0 .. Len(t) /\ i - 1 # Len(t)
      BY <1>2, <2>1
    <3>3. more[i - 1] = n
      BY <1>1, <3>2
    <3> QED
      BY <3>1, <3>3
  <2>2. CASE i # Len(t)
    <3>1. i \in 1 .. Len(s) /\ i - 1 \in 0 .. Len(t) /\ i - 1 # Len(t)
      BY <1>2, <2>2
    <3> QED
      BY <1>1, <1>2, <2>2, <3>1
  <2> QED
    BY <2>1, <2>2
<1> HIDE DEF more
<1>6. AddsUp(t, n + f.count)
  BY <1>3, <1>4, <1>5 DEF AddsUp
<1> QED
  BY <1>6 DEF t

LEMMA AddsUpPop ==
  ASSUME NEW s, IsList(s), s # << >>, NEW n, AddsUp(s, n), Last(s).count \in Nat
  PROVE  n - Last(s).count \in Nat /\ AddsUp(Front(s), n - Last(s).count)
<1> DEFINE t == Front(s)
           m == Len(s) - 1
<1>1. PICK sum \in [0 .. Len(s) -> Nat] :
        /\ sum[0] = 0 /\ sum[Len(s)] = n
        /\ \A i \in 1 .. Len(s) : sum[i] = sum[i - 1] + s[i].count
  BY DEF AddsUp
<1>2. /\ Len(s) \in Nat /\ Len(s) >= 1 /\ Last(s) = s[Len(s)] /\ Len(t) = m
      /\ \A i \in 1 .. m : t[i] = s[i]
  BY TopFacts
<1>3. m \in 0 .. Len(s) /\ Len(s) \in 1 .. Len(s) /\ m \in Nat
  BY <1>2
<1>4. n = sum[m] + Last(s).count /\ sum[m] \in Nat
  BY <1>1, <1>2, <1>3
<1>5. n - Last(s).count = sum[m]
  BY <1>4
<1> HIDE DEF t
<1> DEFINE less == [i \in 0 .. m |-> sum[i]]
<1>6. less \in [0 .. m -> Nat] /\ less[0] = 0 /\ less[m] = sum[m]
  BY <1>1, <1>3
<1>7. ASSUME NEW i \in 1 .. m PROVE less[i] = less[i - 1] + t[i].count
  BY <1>1, <1>2, <1>3
<1> HIDE DEF less
<1>8. AddsUp(t, sum[m])
  BY <1>2, <1>6, <1>7 DEF AddsUp
<1> QED
  BY <1>4, <1>5, <1>8 DEF t

LEMMA AddsUpToNothing ==
  /\ AddsUp(<< >>, 0)
  /\ \A n : AddsUp(<< >>, n) => n = 0
<1>1. Len(<< >>) = 0
  OBVIOUS
<1> DEFINE sum == [i \in 0 .. 0 |-> 0]
<1>2. sum \in [0 .. 0 -> Nat] /\ sum[0] = 0 /\ 1 .. 0 = {}
  OBVIOUS
<1>3. AddsUp(<< >>, 0)
  BY <1>1, <1>2 DEF AddsUp
<1> QED
  BY <1>1, <1>3 DEF AddsUp

-----------------------------------------------------------------------------
(* The invariant *)

(* The calls under way: each has items to wait for, and a token it is for. *)
StackInv == Frames(stack) /\ IsList(read) /\ Opened(stack, read)

(* No element was counted twice, nor anything that was not there. *)
Exact == ~InC /\ ~ended /\ ~Has({"array*", "map*"})

(* What is counted so far is what was read. *)
CountInv ==
  Exact =>
    /\ status = "item" => AddsUp(stack, at)
    /\ status = "return" => at - count \in Nat /\ AddsUp(stack, at - count)
    /\ status = "done" => count = at

Types ==
  /\ status \in {"item", "return", "done", "failed"}
  /\ error \in {"none", "eof", "value", "other"}
  /\ error # "none" <=> status = "failed"
  /\ count \in Nat /\ at \in Nat /\ pending \in BOOLEAN /\ ended \in BOOLEAN

LInv == Types /\ StackInv /\ CountInv

LEMMA TokenFacts ==
  ASSUME NEW t \in Tokens
  PROVE  /\ t.n \in Nat /\ t.size \in Nat /\ t.size >= 1 /\ Needs(t) \in Nat
         /\ t.kind = "map" => Needs(t) % 2 = 0
         /\ t.kind \in {"tag", "bigtag"} => Needs(t) = 1
         /\ t.kind = "break" => t.size = 1
<1>1. /\ t.n \in {0, 1, 2, 24} /\ t.size \in {1, 2, 26}
      /\ t.kind = "break" => t.size = 1
  BY DEF Tokens, Token, Odd
<1>2. t.n \in Nat /\ t.size \in Nat /\ t.size >= 1
  BY <1>1
<1>3. Needs(t) \in Nat /\ (t.kind = "map" => Needs(t) % 2 = 0)
      /\ (t.kind \in {"tag", "bigtag"} => Needs(t) = 1)
  BY <1>1, <1>2 DEF Needs
<1> QED
  BY <1>1, <1>2, <1>3

LEMMA FramesPush ==
  ASSUME NEW s, Frames(s), NEW f, FrameOK(f)
  PROVE  Frames(Append(s, f))
<1>1. /\ Len(s) \in Nat /\ DOMAIN s = 1 .. Len(s) /\ IsList(Append(s, f))
      /\ Append(s, f)[Len(s) + 1] = f
      /\ \A i \in 1 .. Len(s) : Append(s, f)[i] = s[i]
      /\ DOMAIN Append(s, f) = 1 .. Len(s) + 1
  BY ListFacts DEF Frames
<1> DEFINE u == Append(s, f)
<1>2. ASSUME NEW i \in DOMAIN u PROVE FrameOK(u[i])
  <2>1. i = Len(s) + 1 \/ i \in 1 .. Len(s)
    BY <1>1
  <2> QED
    BY <1>1, <2>1 DEF Frames
<1> QED
  BY <1>1, <1>2 DEF Frames

LEMMA FramesPop ==
  ASSUME NEW s, Frames(s), s # << >>
  PROVE  Frames(Front(s)) /\ FrameOK(Last(s))
<1>1. /\ Len(s) \in Nat /\ Len(s) >= 1 /\ Last(s) = s[Len(s)] /\ Len(s) \in DOMAIN s
      /\ IsList(Front(s)) /\ \A i \in 1 .. Len(s) - 1 : Front(s)[i] = s[i]
      /\ DOMAIN Front(s) = 1 .. Len(s) - 1 /\ DOMAIN s = 1 .. Len(s)
  BY TopFacts, ListFacts DEF Frames
<1>2. ASSUME NEW i \in DOMAIN Front(s) PROVE FrameOK(Front(s)[i])
  <2>1. i \in DOMAIN s /\ Front(s)[i] = s[i]
    BY <1>1
  <2> QED
    BY <2>1 DEF Frames
<1> QED
  BY <1>1, <1>2 DEF Frames

(* The stack is of tokens that were read, as more are read ... *)
LEMMA OpenedRead ==
  ASSUME NEW s, NEW r, IsList(r), Opened(s, r), NEW t
  PROVE  /\ Opened(s, Append(r, t)) /\ IsList(Append(r, t))
         /\ \E j \in DOMAIN Append(r, t) : Append(r, t)[j] = t
         /\ \A j \in DOMAIN r : j \in DOMAIN Append(r, t) /\ Append(r, t)[j] = r[j]
<1>1. /\ Len(r) \in Nat /\ DOMAIN r = 1 .. Len(r) /\ IsList(Append(r, t))
      /\ Append(r, t)[Len(r) + 1] = t
      /\ \A i \in 1 .. Len(r) : Append(r, t)[i] = r[i]
      /\ DOMAIN Append(r, t) = 1 .. Len(r) + 1
  BY ListFacts
<1>2. \A j \in DOMAIN r : j \in DOMAIN Append(r, t) /\ Append(r, t)[j] = r[j]
  BY <1>1
<1>3. Len(r) + 1 \in DOMAIN Append(r, t)
  BY <1>1
<1> QED
  BY <1>1, <1>2, <1>3 DEF Opened

(* ... and as calls are made and return. *)
LEMMA OpenedPush ==
  ASSUME NEW s, IsList(s), NEW r, Opened(s, r), NEW f,
         \E j \in DOMAIN r : r[j].kind = f.kind
  PROVE  Opened(Append(s, f), r)
<1>1. /\ Len(s) \in Nat /\ DOMAIN s = 1 .. Len(s)
      /\ Append(s, f)[Len(s) + 1] = f
      /\ \A i \in 1 .. Len(s) : Append(s, f)[i] = s[i]
      /\ DOMAIN Append(s, f) = 1 .. Len(s) + 1
  BY ListFacts
<1> DEFINE u == Append(s, f)
<1>2. ASSUME NEW i \in DOMAIN u PROVE \E j \in DOMAIN r : r[j].kind = u[i].kind
  <2>1. i = Len(s) + 1 \/ i \in 1 .. Len(s)
    BY <1>1
  <2> QED
    BY <1>1, <2>1 DEF Opened
<1> QED
  BY <1>2 DEF Opened

LEMMA OpenedPop ==
  ASSUME NEW s, IsList(s), s # << >>, NEW r, Opened(s, r)
  PROVE  Opened(Front(s), r) /\ \E j \in DOMAIN r : r[j].kind = Last(s).kind
<1>1. /\ Len(s) \in Nat /\ Last(s) = s[Len(s)] /\ Len(s) \in DOMAIN s
      /\ \A i \in 1 .. Len(s) - 1 : Front(s)[i] = s[i]
      /\ DOMAIN Front(s) = 1 .. Len(s) - 1 /\ DOMAIN s = 1 .. Len(s)
  BY TopFacts, ListFacts
<1>2. \A i \in DOMAIN Front(s) : i \in DOMAIN s /\ Front(s)[i] = s[i]
  BY <1>1
<1> QED
  BY <1>1, <1>2 DEF Opened

(* A call raises an exception, whatever was read before. *)
LEMMA FailKeeps ==
  ASSUME LInv, NEW why \in {"value", "other"}, Fail(why),
         at' \in Nat, pending' \in BOOLEAN, ended' \in BOOLEAN,
         IsList(read'), Opened(stack, read')
  PROVE  LInv'
<1>1. status' = "failed" /\ error' = why /\ UNCHANGED <<stack, ret, count>>
  BY DEF Fail
<1>2. Types'
  BY <1>1 DEF LInv, Types
<1>3. StackInv'
  BY <1>1 DEF LInv, StackInv
<1>4. CountInv'
  BY <1>1 DEF CountInv
<1> QED
  BY <1>2, <1>3, <1>4 DEF LInv

(* A token more. *)
LEMMA TakeFacts ==
  ASSUME LInv, NEW t \in Tokens, Take(t)
  PROVE  /\ at' = at + t.size /\ at' \in Nat
         /\ pending' \in BOOLEAN /\ ended' \in BOOLEAN
         /\ IsList(read') /\ Opened(stack, read')
         /\ \E j \in DOMAIN read' : read'[j].kind = t.kind
         /\ Exact' => Exact /\ AddsUp(stack, at)
         /\ Exact' => t.kind \notin {"array*", "map*"}
         /\ InC' <=> InC
<1>1. /\ status = "item" /\ read' = Append(read, t) /\ at' = at + t.size
      /\ UNCHANGED <<decoder, pending, ended>>
  BY DEF Take
<1>2. t.size \in Nat /\ at \in Nat /\ pending \in BOOLEAN /\ ended \in BOOLEAN
  BY TokenFacts DEF LInv, Types
<1>3. /\ IsList(read') /\ Opened(stack, read')
      /\ \E j \in DOMAIN read' : read'[j] = t
      /\ \A j \in DOMAIN read : j \in DOMAIN read' /\ read'[j] = read[j]
  BY <1>1, OpenedRead DEF LInv, StackInv
<1>4. InC' <=> InC
  BY <1>1 DEF InC
<1>5. Exact' => Exact /\ t.kind \notin {"array*", "map*"}
  BY <1>1, <1>3, <1>4 DEF Exact, Has
<1>6. Exact => AddsUp(stack, at)
  BY <1>1 DEF LInv, CountInv
<1> QED
  BY <1>1, <1>2, <1>3, <1>4, <1>5, <1>6

(* Each way to read a token.                                               *)
LEMMA ScalarKeeps ==
  ASSUME LInv, NEW t \in Tokens, Take(t), NEW v, Return(v, t.size), stack' = stack
  PROVE  LInv'
<1>1. status' = "return" /\ count' = t.size /\ error' = error /\ status = "item"
  BY DEF Return, Take
<1>2. t.size \in Nat /\ at \in Nat
  BY TokenFacts DEF LInv, Types
<1>3. Types'
  BY <1>1, <1>2, TakeFacts DEF LInv, Types
<1>4. StackInv'
  BY TakeFacts DEF LInv, StackInv
<1>5. at' - count' = at
  BY <1>1, <1>2, TakeFacts
<1>6. Exact' => AddsUp(stack', at' - count') /\ at' - count' \in Nat
  BY <1>2, <1>5, TakeFacts
<1>7. CountInv'
  BY <1>1, <1>6 DEF CountInv
<1> QED
  BY <1>3, <1>4, <1>7 DEF LInv

LEMMA CallKeeps ==
  ASSUME LInv, NEW t \in Tokens, Take(t), t.kind \in Open \cup Waits,
         ~(t.kind \in {"array", "map"} /\ Needs(t) = 0),
         Await(Append(stack, Call(t)))
  PROVE  LInv'
<1> DEFINE f == Frame(t.kind, Needs(t), << >>, << >>, t.size)
<1>1. Await(Append(stack, f))
  BY DEF Call, Frame
<1>2. /\ t.size \in Nat /\ Needs(t) \in Nat
      /\ t.kind = "map" => Needs(t) % 2 = 0
      /\ t.kind \in {"tag", "bigtag"} => Needs(t) = 1
  BY TokenFacts
<1>3. f.kind = t.kind /\ f.count = t.size /\ f.left = Needs(t) /\ f.key = << >>
      /\ f = Frame(f.kind, f.left, f.items, f.key, f.count)
  BY DEF Frame
<1> HIDE DEF f
<1>4. FrameOK(f)
  <2>1. f.kind \in Open \/ f.left > 0
    BY <1>2, <1>3 DEF Waits
  <2>2. f.kind = "map" => f.left % 2 = 1 - (IF f.key = << >> THEN 1 ELSE 0)
    BY <1>2, <1>3
  <2> QED
    BY <1>2, <1>3, <2>1, <2>2 DEF FrameOK
<1>5. status' = "item" /\ stack' = Append(stack, f) /\ UNCHANGED <<ret, count, error>>
      /\ status = "item"
  BY <1>1 DEF Await, Take
<1>6. Types'
  BY <1>5, TakeFacts DEF LInv, Types
<1>7. Frames(stack') /\ Opened(stack', read')
  BY <1>3, <1>4, <1>5, FramesPush, OpenedPush, TakeFacts
    DEF LInv, StackInv, Frames
<1>8. StackInv'
  BY <1>7, TakeFacts DEF StackInv
<1>9. Exact' => AddsUp(stack', at')
  <2>1. at \in Nat /\ IsList(stack) /\ f.count \in Nat /\ at' = at + f.count
    BY <1>2, <1>3, TakeFacts DEF LInv, Types, StackInv, Frames
  <2> QED
    BY <1>5, <2>1, TakeFacts, AddsUpPush
<1>10. CountInv'
  BY <1>5, <1>9 DEF CountInv, LInv, Types
<1> QED
  BY <1>6, <1>8, <1>10 DEF LInv

LEMMA OpenKeeps ==
  ASSUME LInv, NEW t \in Tokens, ReadOpen(t)
  PROVE  LInv'
<1>1. Take(t) /\ t.kind \in Open \cup Waits
  BY DEF ReadOpen, Waits
<1>2. CASE t.kind \in {"array", "map"} /\ Needs(t) = 0
  <2>1. Return(Value(t.kind, << >>, << >>), t.size) /\ stack' = stack
    BY <1>2 DEF ReadOpen
  <2> QED
    BY <1>1, <2>1, ScalarKeeps
<1>3. CASE ~(t.kind \in {"array", "map"} /\ Needs(t) = 0)
  BY <1>1, <1>3, CallKeeps DEF ReadOpen
<1> QED
  BY <1>2, <1>3

LEMMA OddKeeps ==
  ASSUME LInv, NEW t \in Tokens, ReadOdd(t)
  PROVE  LInv'
<1>1. Take(t) /\ t.form # "proper"
  BY DEF ReadOdd, Known
<1>2. CASE t.kind = "tag" /\ Await(Append(stack, Call(t)))
  BY <1>1, <1>2, CallKeeps DEF Waits
<1>3. CASE t.form = "open" /\ t.kind = "int" /\ Return(NoValue, 1) /\ stack' = stack
  <2>1. t.size = 1
    BY <1>3 DEF Tokens, Token, Odd
  <2> QED
    BY <1>1, <1>3, <2>1, ScalarKeeps
<1>4. CASE \E why \in {"value", "other"} : Fail(why)
  BY <1>1, <1>4, TakeFacts, FailKeeps
<1> QED
  BY <1>2, <1>3, <1>4 DEF ReadOdd

LEMMA BignumKeeps ==
  ASSUME LInv, NEW t \in Tokens, ReadBignum(t)
  PROVE  LInv'
<1>1. Take(t) /\ InC /\ stack # << >> /\ InC'
  BY TakeFacts DEF ReadBignum, InBignum, In
<1>2. CASE t.kind = "bytes" /\ t.form = "proper" /\ t.n < 24
  <2>1. status' = "return" /\ count' = 0 /\ error' = error /\ stack' = Front(stack)
        /\ status = "item"
    BY <1>1, <1>2 DEF ReadBignum, Return, Take
  <2>2. Types'
    BY <1>1, <2>1, TakeFacts DEF LInv, Types
  <2>3. StackInv'
    BY <1>1, <2>1, TakeFacts, FramesPop, OpenedPop DEF LInv, StackInv, Frames
  <2>4. CountInv'
    BY <1>1, <2>1 DEF CountInv, Exact, LInv, Types
  <2> QED
    BY <2>2, <2>3, <2>4 DEF LInv
<1>3. CASE ~(t.kind = "bytes" /\ t.form = "proper" /\ t.n < 24)
  <2>1. Fail("other")
    BY <1>3 DEF ReadBignum
  <2> QED
    BY <1>1, <2>1, TakeFacts, FailKeeps
<1> QED
  BY <1>2, <1>3

(* The call at the top of the stack goes on, as g. *)
LEMMA TopReplaced ==
  ASSUME LInv, stack # << >>, NEW g, FrameOK(g), g.kind = Last(stack).kind,
         stack' = [stack EXCEPT ![Len(stack)] = g],
         IsList(read'), Opened(stack, read')
  PROVE  /\ StackInv'
         /\ \A n : AddsUp(stack, n) =>
              /\ n - Last(stack).count \in Nat
              /\ AddsUp(stack', n - Last(stack).count + g.count)
<1>1. stack' = Append(Front(stack), g)
  BY TopFacts DEF LInv, StackInv, Frames
<1>2. Frames(stack') /\ IsList(Front(stack)) /\ FrameOK(Last(stack))
  <2>1. Frames(Front(stack)) /\ FrameOK(Last(stack))
    BY FramesPop DEF LInv, StackInv
  <2>2. Frames(Append(Front(stack), g))
    BY <2>1, FramesPush
  <2> QED
    BY <1>1, <2>1, <2>2 DEF Frames
<1>3. Opened(stack', read')
  <2>1. IsList(stack)
    BY DEF LInv, StackInv, Frames
  <2>2. /\ Opened(Front(stack), read')
        /\ \E j \in DOMAIN read' : read'[j].kind = Last(stack).kind
    BY <2>1, OpenedPop
  <2>3. Opened(Append(Front(stack), g), read')
    BY <1>2, <2>2, OpenedPush
  <2> QED
    BY <1>1, <2>3
<1>4. ASSUME NEW n, AddsUp(stack, n)
      PROVE  /\ n - Last(stack).count \in Nat
             /\ AddsUp(stack', n - Last(stack).count + g.count)
  <2>1. n - Last(stack).count \in Nat /\ AddsUp(Front(stack), n - Last(stack).count)
    BY <1>2, <1>4, AddsUpPop DEF LInv, StackInv, Frames, FrameOK
  <2>2. g.count \in Nat
    BY DEF FrameOK
  <2> QED
    BY <1>1, <1>2, <2>1, <2>2, AddsUpPush
<1> QED
  BY <1>2, <1>3, <1>4 DEF StackInv

LEMMA ChunkKeeps ==
  ASSUME LInv, NEW t \in Tokens, ReadChunk(t)
  PROVE  LInv'
<1> DEFINE f == Last(stack)
           v == Value(t.kind, t.data, << >>)
           g == [f EXCEPT !.items = Append(f.items, v), !.count = f.count + t.size]
<1>1. Take(t) /\ stack # << >> /\ f.kind \in {"bytes*", "text*"}
  BY DEF ReadChunk, Chunked, In
<1>2. \/ Await([stack EXCEPT ![Len(stack)] = g])
      \/ Fail("other")
  BY DEF ReadChunk
<1>3. CASE Fail("other")
  BY <1>1, <1>3, TakeFacts, FailKeeps
<1>4. CASE Await([stack EXCEPT ![Len(stack)] = g])
  <2>1. status' = "item" /\ stack' = [stack EXCEPT ![Len(stack)] = g]
        /\ UNCHANGED <<ret, count, error>> /\ status = "item"
    BY <1>1, <1>4 DEF Await, Take
  <2>2. FrameOK(f)
    BY <1>1, FramesPop DEF LInv, StackInv
  <2>3. t.size \in Nat /\ f.count \in Nat
    BY <2>2, TokenFacts DEF FrameOK
  <2> HIDE DEF f, v
  <2>4. g = Frame(f.kind, f.left, Append(f.items, v), f.key, f.count + t.size)
    <3>1. f = Frame(f.kind, f.left, f.items, f.key, f.count)
      BY <2>2 DEF FrameOK
    <3>2. \A x, n :
            /\ [f EXCEPT !.items = x, !.count = n] = Frame(f.kind, f.left, x, f.key, n)
            /\ [f EXCEPT !.key = x, !.count = n] = Frame(f.kind, f.left, f.items, x, n)
      BY <3>1, FrameTakes, Zenon
    <3> QED
      BY <3>2, Zenon
  <2>5. g.kind = f.kind /\ g.count = f.count + t.size /\ FrameOK(g)
    BY <2>2, <2>3, <2>4 DEF FrameOK, Frame
  <2> HIDE DEF g
  <2>6. Types'
    BY <1>1, <2>1, TakeFacts DEF LInv, Types
  <2>7. StackInv' /\ \A n : AddsUp(stack, n) =>
          n - f.count \in Nat /\ AddsUp(stack', n - f.count + g.count)
    BY <1>1, <2>1, <2>5, TakeFacts, TopReplaced DEF f
  <2>8. Exact' => AddsUp(stack', at')
    <3>1. at - f.count + g.count = at' /\ at \in Nat
      BY <1>1, <2>3, <2>5, TakeFacts DEF LInv, Types
    <3> QED
      BY <1>1, <2>7, <3>1, TakeFacts
  <2>9. CountInv'
    BY <2>1, <2>8 DEF CountInv, LInv, Types
  <2> QED
    BY <2>6, <2>7, <2>9 DEF LInv
<1> QED
  BY <1>2, <1>3, <1>4

(* The call at the top of the stack ends, as f, and n bytes are counted.   *)
LEMMA EndKeeps ==
  ASSUME LInv, stack # << >>, NEW f, NEW n \in Nat, End(f, n),
         status \in {"item", "return"},
         at' \in Nat, pending' \in BOOLEAN, ended' \in BOOLEAN,
         IsList(read'), Opened(stack, read'), NEW m,
         Exact' => AddsUp(stack, m) /\ at' - n = m - Last(stack).count
  PROVE  LInv'
<1>1. \/ Fail("other")
      \/ Return(ValueOf(f), n) /\ stack' = Front(stack)
  BY DEF End
<1>2. CASE Fail("other")
  BY <1>2, FailKeeps
<1>3. CASE Return(ValueOf(f), n) /\ stack' = Front(stack)
  <2>1. /\ status' = "return" /\ count' = n /\ error' = error
        /\ stack' = Front(stack)
    BY <1>3 DEF Return
  <2>2. Types'
    BY <2>1 DEF LInv, Types
  <2>3. Frames(stack') /\ FrameOK(Last(stack)) /\ IsList(stack)
    BY <2>1, FramesPop DEF LInv, StackInv, Frames
  <2>4. Opened(stack', read')
    BY <2>1, <2>3, OpenedPop
  <2>5. StackInv'
    BY <2>3, <2>4 DEF StackInv
  <2>6. Exact' => at' - n \in Nat /\ AddsUp(stack', at' - n)
    BY <2>1, <2>3, AddsUpPop DEF FrameOK
  <2>7. CountInv'
    BY <2>1, <2>6 DEF CountInv, LInv, Types
  <2> QED
    BY <2>2, <2>5, <2>7 DEF LInv
<1> QED
  BY <1>1, <1>2, <1>3

LEMMA BreakKeeps ==
  ASSUME LInv, NEW t \in Tokens, ReadBreak(t)
  PROVE  LInv'
<1>1. Take(t) /\ t.kind = "break" /\ status = "item"
  BY DEF ReadBreak, Take
<1>2. CASE BreakFits
  <2> DEFINE n == Last(stack).count
  <2>1. stack # << >> /\ End(Last(stack), n + 1)
    BY <1>2 DEF ReadBreak, BreakFits, In
  <2>2. n \in Nat /\ at \in Nat /\ t.size = 1
    BY <1>1, <2>1, FramesPop, TokenFacts DEF LInv, Types, StackInv, FrameOK
  <2> HIDE DEF n
  <2>3. n + 1 \in Nat /\ at' - (n + 1) = at - n
    BY <1>1, <2>2, TakeFacts
  <2>4. Exact' => AddsUp(stack, at) /\ at' - (n + 1) = at - Last(stack).count
    BY <1>1, <2>3, TakeFacts DEF n
  <2> QED
    BY <1>1, <2>1, <2>3, <2>4, TakeFacts, EndKeeps
<1>3. CASE ~BreakFits
  <2>1. Fail("value")
    BY <1>3 DEF ReadBreak
  <2> QED
    BY <1>1, <2>1, TakeFacts, FailKeeps
<1> QED
  BY <1>2, <1>3

LEMMA TokenKeeps ==
  ASSUME LInv, NEW t \in Tokens, ReadToken(t)
  PROVE  LInv'
<1>1. CASE ReadScalar(t)
  BY <1>1, ScalarKeeps DEF ReadScalar
<1>2. CASE ReadOdd(t)
  BY <1>2, OddKeeps
<1>3. CASE ReadSimple(t)
  BY <1>3, TakeFacts, FailKeeps DEF ReadSimple
<1>4. CASE ReadOpen(t) \/ ReadBignum(t) \/ ReadChunk(t) \/ ReadBreak(t)
  BY <1>4, OpenKeeps, BignumKeeps, ChunkKeeps, BreakKeeps
<1> QED
  BY <1>1, <1>2, <1>3, <1>4 DEF ReadToken

(* The call at the top of the stack takes what was returned, and is then g. *)
LEMMA ContinueKeeps ==
  ASSUME LInv, status = "return", stack # << >>, NEW g, Continue(g),
         g = Frame(g.kind, g.left, g.items, g.key, g.count),
         g.kind = Last(stack).kind, g.count = Counted(Last(stack)),
         g.kind \in Open => FrameOK(g),
         g.kind \notin Open /\ g.left # 1 =>
           FrameOK(Frame(g.kind, g.left - 1, g.items, g.key, g.count)),
         UNCHANGED <<decoder, read, at, ended>>, pending' \in BOOLEAN
  PROVE  LInv'
<1> DEFINE f == Last(stack)
<1>1. FrameOK(f) /\ f.count \in Nat /\ count \in Nat /\ at \in Nat /\ ended \in BOOLEAN
  BY FramesPop DEF LInv, Types, StackInv, FrameOK
<1>2. Exact' <=> Exact
  BY DEF Exact, Has, InC
<1>3. g.count \in Nat /\ (Exact => g.count = f.count + count)
  <2>1. \E j \in DOMAIN read : read[j].kind = f.kind
    BY OpenedPop DEF LInv, StackInv, Frames
  <2>2. Exact => f.kind \notin {"array*", "map*"}
    BY <2>1 DEF Exact, Has
  <2> HIDE DEF f
  <2>3. Counted(f) \in Nat /\ (f.kind \notin {"array*", "map*"} =>
                                Counted(f) = f.count + count)
    BY <1>1 DEF Counted
  <2> QED
    BY <2>2, <2>3 DEF f
<1>4. Exact => AddsUp(stack, at - count) /\ at - count \in Nat
  BY DEF LInv, CountInv
<1>5. IsList(read') /\ Opened(stack, read')
  BY DEF LInv, StackInv
<1>6. CASE g.kind \notin Open /\ Full(g)
  <2>1. End(g, g.count)
    BY <1>6 DEF Continue
  <2>2. Exact' => AddsUp(stack, at - count) /\ at' - g.count = (at - count) - f.count
    <3> HIDE DEF f
    <3> QED
      BY <1>1, <1>2, <1>3, <1>4
  <2> QED
    BY <1>1, <1>3, <1>5, <2>1, <2>2, EndKeeps
<1>7. CASE ~(g.kind \notin Open /\ Full(g))
  <2>1. PICK h : /\ FrameOK(h) /\ h.kind = f.kind /\ h.count = g.count
                 /\ Await([stack EXCEPT ![Len(stack)] = h])
    <3>1. CASE g.kind \in Open
      BY <3>1 DEF Continue
    <3>2. CASE g.kind \notin Open
      <4> DEFINE h == Frame(g.kind, g.left - 1, g.items, g.key, g.count)
      <4>1. [g EXCEPT !.left = g.left - 1] = h
        BY FrameExcept
      <4>2. Await([stack EXCEPT ![Len(stack)] = h])
        BY <1>7, <3>2, <4>1 DEF Continue
      <4>3. FrameOK(h) /\ h.kind = g.kind /\ h.count = g.count
        BY <1>7, <3>2, FrameFields DEF Full
      <4> HIDE DEF h
      <4> QED
        BY <4>2, <4>3
    <3> QED
      BY <3>1, <3>2
  <2>2. /\ status' = "item" /\ stack' = [stack EXCEPT ![Len(stack)] = h]
        /\ UNCHANGED <<ret, count, error>>
    BY <2>1 DEF Await
  <2>3. Types'
    BY <1>1, <2>2 DEF LInv, Types
  <2>4. StackInv' /\ \A n : AddsUp(stack, n) =>
          n - f.count \in Nat /\ AddsUp(stack', n - f.count + h.count)
    BY <1>5, <2>1, <2>2, TopReplaced
  <2> HIDE DEF f
  <2>5. Exact' => AddsUp(stack', at')
    <3>1. Exact => (at - count) - f.count + h.count = at'
      BY <1>1, <1>3, <2>1
    <3> QED
      BY <1>2, <1>4, <2>4, <3>1
  <2>6. CountInv'
    BY <2>2, <2>5 DEF CountInv, LInv, Types
  <2> QED
    BY <2>3, <2>4, <2>6 DEF LInv
<1> QED
  BY <1>6, <1>7

LEMMA ElementKeeps == LInv /\ DeliverElement => LInv'
<1> SUFFICES ASSUME LInv, DeliverElement PROVE LInv'
  OBVIOUS
<1> DEFINE f == Last(stack)
           g == [f EXCEPT !.items = Append(f.items, ret), !.count = Counted(f)]
<1>1. /\ status = "return" /\ stack # << >> /\ Continue(g)
      /\ f.kind \in {"array", "array*", "text*", "tag", "bigtag"}
      /\ UNCHANGED <<decoder, pending, read, at, ended>>
  BY DEF DeliverElement, In
<1>2. FrameOK(f) /\ pending' \in BOOLEAN /\ count \in Nat
  BY <1>1, FramesPop DEF LInv, Types, StackInv
<1>3. Counted(f) \in Nat
  BY <1>2 DEF Counted, FrameOK
<1> HIDE DEF f
<1>4. g = Frame(f.kind, f.left, Append(f.items, ret), f.key, Counted(f))
  <2>1. f = Frame(f.kind, f.left, f.items, f.key, f.count)
    BY <1>2 DEF FrameOK
  <2>2. \A x, n :
          /\ [f EXCEPT !.items = x, !.count = n] = Frame(f.kind, f.left, x, f.key, n)
          /\ [f EXCEPT !.key = x, !.count = n] = Frame(f.kind, f.left, f.items, x, n)
    BY <2>1, FrameTakes, Zenon
  <2> QED
    BY <2>2, Zenon
<1> HIDE DEF g
<1>5. /\ g = Frame(g.kind, g.left, g.items, g.key, g.count)
      /\ g.kind = f.kind /\ g.left = f.left /\ g.key = f.key /\ g.count = Counted(f)
  BY <1>4, FrameFields
<1>6. g.kind \in Open => FrameOK(g)
  BY <1>1, <1>2, <1>3, <1>5 DEF FrameOK, Open
<1>7. g.kind \notin Open /\ g.left # 1 =>
        FrameOK(Frame(g.kind, g.left - 1, g.items, g.key, g.count))
  <2> DEFINE h == Frame(g.kind, g.left - 1, g.items, g.key, g.count)
  <2>1. /\ h = Frame(h.kind, h.left, h.items, h.key, h.count)
        /\ h.kind = g.kind /\ h.left = g.left - 1 /\ h.key = g.key /\ h.count = g.count
    BY FrameFields
  <2> HIDE DEF h
  <2>2. g.kind \notin Open /\ g.left # 1 => FrameOK(h)
    BY <1>1, <1>2, <1>3, <1>5, <2>1 DEF FrameOK
  <2> QED
    BY <2>2 DEF h
<1> QED
  BY <1>1, <1>2, <1>5, <1>6, <1>7, ContinueKeeps DEF f

LEMMA KeyKeeps == LInv /\ DeliverKey => LInv'
<1> SUFFICES ASSUME LInv, DeliverKey PROVE LInv'
  OBVIOUS
<1> DEFINE f == Last(stack)
           g == [f EXCEPT !.key = <<ret>>, !.count = Counted(f)]
<1>1. /\ status = "return" /\ stack # << >> /\ Continue(g)
      /\ f.kind \in {"map", "map*"} /\ f.key = << >>
      /\ UNCHANGED <<decoder, pending, read, at, ended>>
  BY DEF DeliverKey, In
<1>2. FrameOK(f) /\ pending' \in BOOLEAN /\ count \in Nat
  BY <1>1, FramesPop DEF LInv, Types, StackInv
<1>3. Counted(f) \in Nat
  BY <1>2 DEF Counted, FrameOK
<1> HIDE DEF f
<1>4. g = Frame(f.kind, f.left, f.items, <<ret>>, Counted(f))
  <2>1. f = Frame(f.kind, f.left, f.items, f.key, f.count)
    BY <1>2 DEF FrameOK
  <2>2. \A x, n :
          /\ [f EXCEPT !.items = x, !.count = n] = Frame(f.kind, f.left, x, f.key, n)
          /\ [f EXCEPT !.key = x, !.count = n] = Frame(f.kind, f.left, f.items, x, n)
    BY <2>1, FrameTakes, Zenon
  <2> QED
    BY <2>2, Zenon
<1> HIDE DEF g
<1>5. /\ g = Frame(g.kind, g.left, g.items, g.key, g.count)
      /\ g.kind = f.kind /\ g.left = f.left /\ g.key = <<ret>> /\ g.count = Counted(f)
  BY <1>4, FrameFields
<1>6. g.kind \in Open => FrameOK(g)
  BY <1>1, <1>2, <1>3, <1>5 DEF FrameOK, Open
<1>7. g.kind \notin Open /\ g.left # 1 =>
        FrameOK(Frame(g.kind, g.left - 1, g.items, g.key, g.count))
  <2> DEFINE h == Frame(g.kind, g.left - 1, g.items, g.key, g.count)
  <2>1. /\ h = Frame(h.kind, h.left, h.items, h.key, h.count)
        /\ h.kind = g.kind /\ h.left = g.left - 1 /\ h.key = g.key /\ h.count = g.count
    BY FrameFields
  <2> HIDE DEF h
  <2> SUFFICES ASSUME g.kind \notin Open, g.left # 1 PROVE FrameOK(h)
    BY DEF h
  <2>2. h.kind = "map" /\ f.kind = "map"
    BY <1>1, <1>5, <2>1 DEF Open
  <2>3. f.left \in Nat /\ f.left > 0 /\ f.left % 2 = 0
    BY <1>1, <1>2, <2>2 DEF FrameOK, Open
  <2>4. h.left \in Nat /\ h.left > 0 /\ h.left % 2 = 1
    BY <1>5, <2>1, <2>3
  <2>5. h.key # << >>
    BY <1>5, <2>1
  <2> QED
    BY <1>3, <1>5, <2>1, <2>2, <2>4, <2>5 DEF FrameOK, Waits
<1> QED
  BY <1>1, <1>2, <1>5, <1>6, <1>7, ContinueKeeps DEF f

LEMMA ValueKeeps == LInv /\ DeliverValue => LInv'
<1> SUFFICES ASSUME LInv, DeliverValue PROVE LInv'
  OBVIOUS
<1> DEFINE f == Last(stack)
           e == [f EXCEPT !.key = << >>, !.count = Counted(f)]
<1>1. /\ status = "return" /\ stack # << >>
      /\ f.kind \in {"map", "map*"} /\ f.key # << >>
      /\ UNCHANGED <<decoder, read, at, ended>>
  BY DEF DeliverValue, In
<1>2. FrameOK(f) /\ count \in Nat /\ at \in Nat /\ ended \in BOOLEAN
  BY <1>1, FramesPop DEF LInv, Types, StackInv
<1>3. pending' \in BOOLEAN
  BY DEF DeliverValue, LInv, Types, InC
<1>4. Counted(f) \in Nat
  BY <1>2 DEF Counted, FrameOK
<1>5. PICK x : Fail("other") \/ Continue(e) \/ Continue([e EXCEPT !.items = x])
  BY DEF DeliverValue
<1> HIDE DEF f
<1>6. e = Frame(f.kind, f.left, f.items, << >>, Counted(f))
  <2>1. f = Frame(f.kind, f.left, f.items, f.key, f.count)
    BY <1>2 DEF FrameOK
  <2>2. \A y, n :
          /\ [f EXCEPT !.items = y, !.count = n] = Frame(f.kind, f.left, y, f.key, n)
          /\ [f EXCEPT !.key = y, !.count = n] = Frame(f.kind, f.left, f.items, y, n)
    BY <2>1, FrameTakes, Zenon
  <2> QED
    BY <2>2, Zenon
<1> HIDE DEF e
<1>7. /\ e = Frame(e.kind, e.left, e.items, e.key, e.count)
      /\ e.kind = f.kind /\ e.left = f.left /\ e.key = << >> /\ e.count = Counted(f)
  BY <1>6, FrameFields
<1>8. ASSUME NEW g, Continue(g), NEW y,
             g = Frame(f.kind, f.left, y, << >>, Counted(f))
      PROVE  LInv'
  <2>1. /\ g = Frame(g.kind, g.left, g.items, g.key, g.count)
        /\ g.kind = f.kind /\ g.left = f.left /\ g.key = << >> /\ g.count = Counted(f)
    BY <1>8, FrameFields
  <2>2. g.kind \in Open => FrameOK(g)
    BY <1>1, <1>2, <1>4, <2>1 DEF FrameOK, Open
  <2>3. g.kind \notin Open /\ g.left # 1 =>
          FrameOK(Frame(g.kind, g.left - 1, g.items, g.key, g.count))
    <3> DEFINE h == Frame(g.kind, g.left - 1, g.items, g.key, g.count)
    <3>1. /\ h = Frame(h.kind, h.left, h.items, h.key, h.count)
          /\ h.kind = g.kind /\ h.left = g.left - 1 /\ h.key = g.key
          /\ h.count = g.count
      BY FrameFields
    <3> HIDE DEF h
    <3> SUFFICES ASSUME g.kind \notin Open, g.left # 1 PROVE FrameOK(h)
      BY DEF h
    <3>2. h.kind = "map" /\ f.kind = "map"
      BY <1>1, <2>1, <3>1 DEF Open
    <3>3. f.left \in Nat /\ f.left > 0 /\ f.left % 2 = 1
      BY <1>1, <1>2, <3>2 DEF FrameOK, Open
    <3>4. h.left \in Nat /\ h.left > 0 /\ h.left % 2 = 0
      BY <2>1, <3>1, <3>3
    <3> QED
      BY <1>4, <2>1, <3>1, <3>2, <3>4 DEF FrameOK, Waits
  <2> QED
    BY <1>1, <1>3, <1>8, <2>1, <2>2, <2>3, ContinueKeeps DEF f
<1>9. CASE Fail("other")
  <2>1. at' \in Nat /\ ended' \in BOOLEAN /\ IsList(read') /\ Opened(stack, read')
    BY <1>1, <1>2 DEF LInv, StackInv
  <2> QED
    BY <1>3, <1>9, <2>1, FailKeeps
<1>10. CASE Continue(e)
  BY <1>6, <1>8, <1>10
<1>11. CASE Continue([e EXCEPT !.items = x])
  <2>1. [e EXCEPT !.items = x] = Frame(e.kind, e.left, x, e.key, e.count)
    BY <1>7, FrameExcept, Zenon
  <2>2. [e EXCEPT !.items = x] = Frame(f.kind, f.left, x, << >>, Counted(f))
    BY <1>7, <2>1
  <2> QED
    BY <1>8, <1>11, <2>2
<1> QED
  BY <1>5, <1>9, <1>10, <1>11

LEMMA DoneKeeps == LInv /\ Done => LInv'
<1> SUFFICES ASSUME LInv, Done PROVE LInv'
  OBVIOUS
<1>1. /\ status = "return" /\ stack = << >>
      /\ UNCHANGED <<decoder, stack, ret, count, pending, read, at, ended>>
      /\ \/ status' = "failed" /\ error' = "other"
         \/ status' = "done" /\ error' = error
  BY DEF Done
<1>2. Types' /\ StackInv'
  BY <1>1 DEF LInv, Types, StackInv
<1>3. Exact => count = at
  <2>1. Exact => at - count = 0
    BY <1>1, AddsUpToNothing DEF LInv, CountInv
  <2> QED
    BY <2>1 DEF LInv, Types
<1>4. CountInv'
  BY <1>1, <1>3 DEF CountInv, Exact, Has, InC
<1> QED
  BY <1>2, <1>4 DEF LInv

LEMMA EndOfInputKeeps == LInv /\ decoder \in Decoders /\ EndOfInput => LInv'
<1> SUFFICES ASSUME LInv, decoder \in Decoders, EndOfInput PROVE LInv'
  OBVIOUS
<1>1. decoder \in {"c load", "c loads", "py"}
  BY LoadsAssumption
<1>2. PICK why \in {"eof", "value", "other"} :
        Fail(why)
  <2>1. CASE decoder = "c load"
    BY <2>1 DEF EndOfInput
  <2>2. CASE decoder = "c loads"
    BY <2>2 DEF EndOfInput
  <2>3. CASE decoder = "py"
    BY <2>3 DEF EndOfInput, InC
  <2> QED
    BY <1>1, <2>1, <2>2, <2>3
<1>3. /\ ended' = TRUE /\ UNCHANGED <<decoder, pending, read, at>>
      /\ status' = "failed" /\ error' = why /\ UNCHANGED <<stack, ret, count>>
  BY <1>2 DEF EndOfInput, Fail
<1>4. Types' /\ StackInv'
  BY <1>3 DEF LInv, Types, StackInv
<1>5. CountInv'
  BY <1>2, <1>3 DEF CountInv, InC
<1> QED
  BY <1>4, <1>5 DEF LInv

LEMMA EndInTokenKeeps ==
  ASSUME LInv, NEW t \in Tokens, EndInToken(t)
  PROVE  LInv'
<1> DEFINE c == [t EXCEPT !.kind = "cut"]
<1>1. /\ read' = Append(read, c) /\ at' = at + t.size - 1 /\ ended' = TRUE
      /\ status = "item" /\ UNCHANGED <<decoder, pending>>
  BY DEF EndInToken
<1>2. at' \in Nat /\ pending' \in BOOLEAN /\ t.size \in Nat
  BY <1>1, TokenFacts DEF LInv, Types
<1>3. IsList(read') /\ Opened(stack, read')
  BY <1>1, OpenedRead DEF LInv, StackInv
<1>4. CASE Fail("other")
  BY <1>1, <1>2, <1>3, <1>4, FailKeeps
<1>5. CASE Return(Value(t.kind, <<"cut">>, << >>), t.size) /\ stack' = stack
  <2>1. status' = "return" /\ count' = t.size /\ error' = error /\ stack' = stack
    BY <1>5 DEF Return
  <2>2. Types'
    BY <1>1, <1>2, <2>1 DEF LInv, Types
  <2>3. StackInv'
    BY <1>3, <2>1 DEF LInv, StackInv
  <2>4. CountInv'
    BY <1>1, <2>1 DEF CountInv, Exact, LInv, Types
  <2> QED
    BY <2>2, <2>3, <2>4 DEF LInv
<1> QED
  BY <1>4, <1>5 DEF EndInToken

-----------------------------------------------------------------------------
(* The theorems *)

LEMMA LoadsStep == LInv /\ decoder \in Decoders /\ [Next]_vars => LInv'
<1> SUFFICES ASSUME LInv, decoder \in Decoders, [Next]_vars PROVE LInv'
  OBVIOUS
<1>1. ASSUME NEW t \in Tokens, ReadToken(t) \/ EndInToken(t) PROVE LInv'
  BY <1>1, TokenKeeps, EndInTokenKeeps
<1>2. CASE Deliver
  BY <1>2, ElementKeeps, KeyKeeps, ValueKeeps, DoneKeeps DEF Deliver
<1>3. CASE EndOfInput
  BY <1>3, EndOfInputKeeps
<1>4. CASE UNCHANGED vars
  BY <1>4 DEF vars, LInv, Types, StackInv, CountInv, Exact, Has, InC
<1> QED
  BY <1>1, <1>2, <1>3, <1>4 DEF Next

LEMMA LoadsInvariant == Spec => []LInv
<1>1. Init => LInv /\ decoder \in Decoders
  <2> SUFFICES ASSUME Init PROVE LInv /\ decoder \in Decoders
    OBVIOUS
  <2>1. /\ decoder \in Decoders /\ status = "item" /\ stack = << >> /\ count = 0
        /\ pending = FALSE /\ error = "none" /\ read = << >> /\ at = 0
        /\ ended = FALSE
    BY DEF Init
  <2>2. IsList(<< >>) /\ DOMAIN << >> = {}
    <3>1. << >> \in Seq({})
      OBVIOUS
    <3> QED
      BY <3>1 DEF IsList
  <2>3. StackInv
    BY <2>1, <2>2 DEF StackInv, Frames, Opened
  <2>4. Types
    BY <2>1 DEF Types
  <2>5. CountInv
    BY <2>1, AddsUpToNothing DEF CountInv
  <2> QED
    BY <2>1, <2>3, <2>4, <2>5 DEF LInv
<1>2. decoder \in Decoders /\ [Next]_vars => (decoder \in Decoders)'
  <2> SUFFICES ASSUME decoder \in Decoders, [Next]_vars PROVE decoder' = decoder
    OBVIOUS
  <2>1. ASSUME NEW t \in Tokens, ReadToken(t) \/ EndInToken(t)
        PROVE  decoder' = decoder
    BY <2>1 DEF ReadToken, EndInToken, ReadScalar, ReadOdd, ReadSimple,
      ReadOpen, ReadBignum, ReadChunk, ReadBreak, Take
  <2>2. CASE Deliver
    BY <2>2 DEF Deliver, DeliverElement, DeliverKey, DeliverValue, Done
  <2>3. CASE EndOfInput \/ UNCHANGED vars
    BY <2>3 DEF EndOfInput, vars
  <2> QED
    BY <2>1, <2>2, <2>3 DEF Next
<1> QED
  BY <1>1, <1>2, LoadsStep, PTL DEF Spec

(* A call of inner_loads_c() or _loads_tb() that waits for the items of a  *)
(* container has some to wait for, however the containers are nested: the  *)
(* number of items left never falls to 0 or below, and within a map keys   *)
(* and values take turns.                                                  *)
THEOREM LoadsTypes == Spec => []TypeOK
<1>1. LInv => TypeOK
  <2> SUFFICES ASSUME LInv PROVE TypeOK
    OBVIOUS
  <2>1. ASSUME NEW i \in DOMAIN stack PROVE FrameOK(stack[i])
    BY DEF LInv, StackInv, Frames
  <2>2. (error # "none") = (status = "failed")
    BY DEF LInv, Types
  <2> QED
    BY <2>1, <2>2 DEF LInv, Types, TypeOK, FrameOK, Waits
<1> QED
  BY <1>1, LoadsInvariant, PTL

(* The second result of _loads_tb() is the number of bytes that were read, *)
(* if there was no container of unknown length among them.                 *)
THEOREM LoadsCounts == Spec => []CountsBytes
<1>1. LInv => CountsBytes
  BY DEF LInv, CountInv, Exact, CountsBytes
<1> QED
  BY <1>1, LoadsInvariant, PTL
=============================================================================
