---------------------------- MODULE PyDumpsProofs ----------------------------
(***************************************************************************)
(* Proofs about PyDumps: the encoders in C and in Python write the same    *)
(* bytes, for any objects of which none is inside itself.                  *)
(***************************************************************************)
EXTENDS PyDumps, DumpsProofs

-----------------------------------------------------------------------------
(* Induction over numbers *)

(* A non-empty set of numbers has a least element. *)
LEMMA LeastNumber ==
  ASSUME NEW T \in SUBSET Nat, T # {}
  PROVE  \E x \in T : \A y \in T : x <= y
<1>1. \E x \in T : \A y \in T : <<y, x>> \notin OpToRel(<, Nat)
  BY NatLessThanWellFounded, WFMin
<1>2. \A x, y \in Nat : x < y => <<x, y>> \in OpToRel(<, Nat)
  BY DEF OpToRel
<1>3. \E x \in T : \A y \in T : ~(y < x)
  BY <1>1, <1>2, Zenon
<1> QED
  BY <1>3

(* Induction, for a set of numbers. *)
LEMMA NumbersFromZero ==
  ASSUME NEW T, 0 \in T, \A n \in Nat : n \in T => n + 1 \in T
  PROVE  \A n \in Nat : n \in T
<1> SUFFICES ASSUME Nat \ T # {} PROVE FALSE
  OBVIOUS
<1>1. PICK x \in Nat \ T : \A y \in Nat \ T : x <= y
  BY LeastNumber
<1>2. x \in Nat /\ x # 0 /\ x - 1 \in Nat
  BY <1>1
<1>3. x - 1 \in T
  BY <1>1, <1>2
<1>4. (x - 1) + 1 \in T
  BY <1>2, <1>3
<1> QED
  BY <1>1, <1>2, <1>4

-----------------------------------------------------------------------------
(* Sequences that are joined *)

Output == Seq(Int)  \* bytes, and Raises

(* What FlattenSeq() has joined after each of the sequences. *)
Joined(s, f) ==
  f = [i \in 1 .. Len(s) |-> IF i = 1 THEN s[i] ELSE f[i - 1] \o s[i]]

LEMMA JoinedExists ==
  ASSUME NEW s \in Seq(Output)
  PROVE  \E f \in [1 .. Len(s) -> Output] : Joined(s, f)
<1> DEFINE Upto(n, f) ==
             /\ f \in [1 .. n -> Output]
             /\ \A i \in 1 .. n : f[i] = IF i = 1 THEN s[i] ELSE f[i - 1] \o s[i]
           T == {n \in Nat : n <= Len(s) => \E f : Upto(n, f)}
<1>0. Len(s) \in Nat /\ \A i \in 1 .. Len(s) : s[i] \in Output
  OBVIOUS
<1>1. 0 \in T
  <2>1. Upto(0, [i \in 1 .. 0 |-> << >>])
    OBVIOUS
  <2> QED
    BY <2>1
<1>2. ASSUME NEW n \in Nat, n \in T
      PROVE  n + 1 \in T
  <2> SUFFICES ASSUME n + 1 <= Len(s) PROVE \E f : Upto(n + 1, f)
    OBVIOUS
  <2>1. PICK f : Upto(n, f)
    BY <1>0, <1>2
  <2> DEFINE v == IF n = 0 THEN s[n + 1] ELSE f[n] \o s[n + 1]
             g == [i \in 1 .. n + 1 |-> IF i = n + 1 THEN v ELSE f[i]]
  <2>2. v \in Output
    <3>1. n + 1 \in 1 .. Len(s)
      BY <1>0
    <3>2. s[n + 1] \in Output
      BY <1>0, <3>1
    <3>3. CASE n = 0
      BY <3>2, <3>3
    <3>4. CASE n # 0
      <4>1. f[n] \in Output
        BY <2>1, <3>4
      <4>2. f[n] \o s[n + 1] \in Output
        BY <3>2, <4>1 DEF Output
      <4> QED
        BY <3>4, <4>2
    <3> QED
      BY <3>3, <3>4
  <2>3. /\ g[n + 1] = v
        /\ \A i \in 1 .. n : i \in 1 .. n + 1 /\ i # n + 1 /\ g[i] = f[i]
    <3>1. n + 1 \in 1 .. n + 1 /\ \A i \in 1 .. n : i \in 1 .. n + 1 /\ i # n + 1
      OBVIOUS
    <3> HIDE DEF v
    <3> QED
      BY <3>1
  <2>4. g \in [1 .. n + 1 -> Output]
    <3>1. \A i \in 1 .. n + 1 : i # n + 1 => i \in 1 .. n
      OBVIOUS
    <3>2. \A i \in 1 .. n : f[i] \in Output
      BY <2>1
    <3> QED
      BY <2>2, <3>1, <3>2
  <2> HIDE DEF g
  <2>5. \A i \in 1 .. n + 1 : g[i] = IF i = 1 THEN s[i] ELSE g[i - 1] \o s[i]
    <3> TAKE i \in 1 .. n + 1
    <3>1. CASE i = n + 1
      <4>1. CASE n = 0
        BY <2>3, <3>1, <4>1
      <4>2. CASE n # 0
        <5>1. g[n] = f[n] /\ i - 1 = n /\ i # 1
          BY <2>3, <3>1, <4>2
        <5> QED
          BY <2>3, <3>1, <4>2, <5>1
      <4> QED
        BY <4>1, <4>2
    <3>2. CASE i # n + 1
      <4>1. i \in 1 .. n /\ (i # 1 => i - 1 \in 1 .. n)
        BY <3>2
      <4> QED
        BY <2>1, <2>3, <4>1
    <3> QED
      BY <3>1, <3>2
  <2> QED
    BY <2>4, <2>5
<1>3. Len(s) \in T
  <2> HIDE DEF T
  <2> QED
    BY <1>0, <1>1, <1>2, NumbersFromZero
<1>4. PICK f : Upto(Len(s), f)
  BY <1>0, <1>3
<1> QED
  BY <1>4 DEF Joined

(* There is only one such function. *)
LEMMA JoinedUnique ==
  ASSUME NEW s \in Seq(Output), NEW t \in Seq(Output), NEW f, NEW g,
         Joined(s, f), Joined(t, g),
         Len(s) <= Len(t), \A i \in 1 .. Len(s) : t[i] = s[i]
  PROVE  \A i \in 1 .. Len(s) : g[i] = f[i]
<1> DEFINE T == {n \in Nat : n + 1 <= Len(s) => g[n + 1] = f[n + 1]}
<1>0. Len(s) \in Nat /\ Len(t) \in Nat
  OBVIOUS
<1>1. /\ \A i \in 1 .. Len(s) : f[i] = IF i = 1 THEN s[i] ELSE f[i - 1] \o s[i]
      /\ \A i \in 1 .. Len(t) : g[i] = IF i = 1 THEN t[i] ELSE g[i - 1] \o t[i]
  BY DEF Joined
<1>2. 0 \in T
  BY <1>0, <1>1
<1>3. ASSUME NEW n \in Nat, n \in T
      PROVE  n + 1 \in T
  <2> SUFFICES ASSUME n + 1 + 1 <= Len(s) PROVE g[n + 1 + 1] = f[n + 1 + 1]
    OBVIOUS
  <2>1. /\ n + 1 + 1 \in 1 .. Len(s) /\ n + 1 + 1 \in 1 .. Len(t)
        /\ n + 1 + 1 # 1 /\ n + 1 + 1 - 1 = n + 1 /\ n + 1 <= Len(s)
    BY <1>0
  <2>2. g[n + 1] = f[n + 1]
    BY <1>3, <2>1
  <2> QED
    BY <1>1, <2>1, <2>2
<1>4. \A n \in Nat : n \in T
  <2> HIDE DEF T
  <2> QED
    BY <1>2, <1>3, NumbersFromZero
<1> TAKE i \in 1 .. Len(s)
<1>5. i - 1 \in Nat /\ (i - 1) + 1 = i /\ i <= Len(s)
  BY <1>0
<1>6. i - 1 \in T
  BY <1>4, <1>5
<1> QED
  BY <1>5, <1>6

LEMMA FlattenEmpty == FlattenSeq(<< >>) = << >>
BY DEF FlattenSeq

LEMMA FlattenJoined ==
  ASSUME NEW s \in Seq(Output), s # << >>
  PROVE  \E f \in [1 .. Len(s) -> Output] : Joined(s, f) /\ FlattenSeq(s) = f[Len(s)]
<1> DEFINE F == CHOOSE f : f = [i \in 1 .. Len(s) |->
                                 IF i = 1 THEN s[i] ELSE f[i - 1] \o s[i]]
<1>1. Len(s) \in Nat /\ Len(s) # 0
  OBVIOUS
<1>2. FlattenSeq(s) = F[Len(s)]
  BY <1>1 DEF FlattenSeq
<1>3. PICK f \in [1 .. Len(s) -> Output] : Joined(s, f)
  BY JoinedExists
<1>4. Joined(s, F)
  <2>1. f = [i \in 1 .. Len(s) |-> IF i = 1 THEN s[i] ELSE f[i - 1] \o s[i]]
    BY <1>3 DEF Joined
  <2>2. F = [i \in 1 .. Len(s) |-> IF i = 1 THEN s[i] ELSE F[i - 1] \o s[i]]
    BY <2>1, Zenon
  <2> HIDE DEF F
  <2> QED
    BY <2>2 DEF Joined
<1> HIDE DEF F
<1>5. \A i \in 1 .. Len(s) : s[i] = s[i]
  OBVIOUS
<1>6. \A i \in 1 .. Len(s) : F[i] = f[i]
  BY <1>1, <1>3, <1>4, JoinedUnique
<1> QED
  BY <1>1, <1>2, <1>3, <1>6

LEMMA FlattenAppend ==
  ASSUME NEW s \in Seq(Output), NEW e \in Output
  PROVE  /\ FlattenSeq(s) \in Output
         /\ FlattenSeq(Append(s, e)) = FlattenSeq(s) \o e
<1> DEFINE t == Append(s, e)
<1>1. /\ t \in Seq(Output) /\ t # << >> /\ Len(t) = Len(s) + 1 /\ Len(s) \in Nat
      /\ t[Len(s) + 1] = e /\ \A i \in 1 .. Len(s) : t[i] = s[i]
  OBVIOUS
<1> HIDE DEF t
<1>2. PICK g \in [1 .. Len(t) -> Output] : Joined(t, g) /\ FlattenSeq(t) = g[Len(t)]
  BY <1>1, FlattenJoined
<1>3. \A i \in 1 .. Len(t) : g[i] = IF i = 1 THEN t[i] ELSE g[i - 1] \o t[i]
  BY <1>2 DEF Joined
<1>4. g[Len(s) + 1] = IF Len(s) = 0 THEN e ELSE g[Len(s)] \o e
  <2>1. Len(s) + 1 \in 1 .. Len(t) /\ Len(s) + 1 - 1 = Len(s) /\ (Len(s) + 1 = 1 <=> Len(s) = 0)
    BY <1>1
  <2>2. PICK j \in 1 .. Len(t) : j = Len(s) + 1
    BY <2>1
  <2>3. j - 1 = Len(s) /\ (j = 1 <=> Len(s) = 0) /\ t[j] = e
    BY <1>1, <2>1, <2>2
  <2>4. g[j] = IF j = 1 THEN t[j] ELSE g[j - 1] \o t[j]
    BY <1>3
  <2>5. j = 1 => g[j] = e
    BY <2>3, <2>4
  <2>6. j # 1 => g[j] = g[Len(s)] \o e
    BY <2>3, <2>4
  <2> QED
    BY <2>2, <2>3, <2>5, <2>6, Zenon
<1>5. CASE s = << >>
  <2>1. Len(s) = 0 /\ FlattenSeq(s) = << >>
    BY <1>5, FlattenEmpty
  <2>2. << >> \in Output /\ << >> \o e = e
    BY DEF Output
  <2>3. FlattenSeq(t) = e
    BY <1>1, <1>2, <1>4, <2>1
  <2> QED
    BY <2>1, <2>2, <2>3 DEF t
<1>6. CASE s # << >>
  <2>1. PICK f \in [1 .. Len(s) -> Output] : Joined(s, f) /\ FlattenSeq(s) = f[Len(s)]
    BY <1>6, FlattenJoined
  <2>2. Len(s) \in 1 .. Len(s) /\ Len(s) <= Len(t) /\ Len(s) # 0
    BY <1>1, <1>6
  <2>3. \A i \in 1 .. Len(s) : g[i] = f[i]
    BY <1>1, <1>2, <2>1, <2>2, JoinedUnique
  <2>4. FlattenSeq(t) = FlattenSeq(s) \o e
    BY <1>1, <1>2, <1>4, <2>1, <2>2, <2>3
  <2>5. FlattenSeq(s) \in Output
    BY <2>1, <2>2
  <2> QED
    BY <2>4, <2>5 DEF t
<1> QED
  BY <1>5, <1>6

LEMMA OutputConcat ==
  \A a, b, c \in Output : a \o b \in Output /\ (a \o b) \o c = a \o (b \o c)
<1> TAKE a, b, c \in Output
<1>1. a \in Seq(Int) /\ b \in Seq(Int) /\ c \in Seq(Int)
  BY DEF Output
<1>2. a \o b \in Seq(Int)
  BY <1>1
<1>3. (a \o b) \o c = a \o (b \o c)
  BY <1>1, ConcatAssociative
<1> QED
  BY <1>2, <1>3 DEF Output

LEMMA FlattenConcat ==
  ASSUME NEW s \in Seq(Output), NEW t \in Seq(Output)
  PROVE  FlattenSeq(s \o t) = FlattenSeq(s) \o FlattenSeq(t)
<1> DEFINE Holds(u) == FlattenSeq(s \o u) = FlattenSeq(s) \o FlattenSeq(u)
           T == {n \in Nat : \A u \in Seq(Output) : Len(u) = n => Holds(u)}
<1>0. FlattenSeq(s) \in Output /\ << >> \in Output
  BY FlattenAppend DEF Output
<1>1. 0 \in T
  <2>1. ASSUME NEW u \in Seq(Output), Len(u) = 0 PROVE Holds(u)
    <3>1. u = << >> /\ s \o u = s
      BY <2>1
    <3>2. FlattenSeq(s) \o << >> = FlattenSeq(s)
      BY <1>0 DEF Output
    <3> QED
      BY <3>1, <3>2, FlattenEmpty
  <2> QED
    BY <2>1
<1>2. ASSUME NEW n \in Nat, n \in T
      PROVE  n + 1 \in T
  <2> SUFFICES ASSUME NEW u \in Seq(Output), Len(u) = n + 1 PROVE Holds(u)
    OBVIOUS
  <2>1. u # << >>
    OBVIOUS
  <2>2. PICK v \in Seq(Output), e \in Output : u = Append(v, e)
    BY <2>1, SequenceEmptyOrAppend
  <2>3. Len(v) = n
    BY <2>2
  <2>4. Holds(v)
    BY <1>2, <2>3
  <2>5. s \o u = Append(s \o v, e) /\ s \o v \in Seq(Output)
    BY <2>2
  <2>6. /\ FlattenSeq(Append(s \o v, e)) = FlattenSeq(s \o v) \o e
        /\ FlattenSeq(Append(v, e)) = FlattenSeq(v) \o e
        /\ FlattenSeq(v) \in Output
    BY <2>5, FlattenAppend
  <2>7. (FlattenSeq(s) \o FlattenSeq(v)) \o e = FlattenSeq(s) \o (FlattenSeq(v) \o e)
    <3> DEFINE a == FlattenSeq(s)
               b == FlattenSeq(v)
    <3>1. a \in Output /\ b \in Output
      BY <1>0, <2>6
    <3> HIDE DEF a, b
    <3>2. (a \o b) \o e = a \o (b \o e)
      BY <3>1, OutputConcat
    <3> QED
      BY <3>2 DEF a, b
  <2> QED
    BY <2>2, <2>4, <2>5, <2>6, <2>7, Zenon
<1>3. Len(t) \in Nat /\ Len(t) \in T
  <2> HIDE DEF T
  <2> QED
    BY <1>1, <1>2, NumbersFromZero
<1> QED
  BY <1>3

(* The outputs of the members of a list, joined. *)
Outputs(f, list) == FlattenSeq([i \in DOMAIN list |-> f[list[i]]])

LEMMA OutputsOfConcat ==
  ASSUME NEW T, NEW f \in [T -> Output], NEW a \in Seq(T), NEW b \in Seq(T)
  PROVE  /\ Outputs(f, a) \in Output
         /\ Outputs(f, a \o b) = Outputs(f, a) \o Outputs(f, b)
<1> DEFINE Each(list) == [i \in DOMAIN list |-> f[list[i]]]
<1>1. ASSUME NEW list \in Seq(T)
      PROVE  /\ Each(list) \in Seq(Output) /\ Len(Each(list)) = Len(list)
             /\ \A i \in 1 .. Len(list) : Each(list)[i] = f[list[i]]
  <2>1. DOMAIN list = 1 .. Len(list) /\ Len(list) \in Nat
        /\ \A i \in 1 .. Len(list) : list[i] \in T
    OBVIOUS
  <2>2. \A i \in 1 .. Len(list) : f[list[i]] \in Output
    BY <2>1
  <2>3. Each(list) \in [1 .. Len(list) -> Output]
    BY <2>1, <2>2
  <2> QED
    BY <2>1, <2>3
<1>2. a \o b \in Seq(T) /\ Len(a \o b) = Len(a) + Len(b)
      /\ Len(a) \in Nat /\ Len(b) \in Nat
      /\ \A i \in 1 .. Len(a) + Len(b) :
           (a \o b)[i] = IF i <= Len(a) THEN a[i] ELSE b[i - Len(a)]
  BY ConcatProperties
<1> DEFINE A == Each(a)
           B == Each(b)
           C == Each(a \o b)
<1>3. /\ A \in Seq(Output) /\ Len(A) = Len(a) /\ \A i \in 1 .. Len(a) : A[i] = f[a[i]]
      /\ B \in Seq(Output) /\ Len(B) = Len(b) /\ \A i \in 1 .. Len(b) : B[i] = f[b[i]]
      /\ C \in Seq(Output) /\ Len(C) = Len(a \o b)
      /\ \A i \in 1 .. Len(a \o b) : C[i] = f[(a \o b)[i]]
  <2> HIDE DEF Each
  <2> QED
    BY <1>1, <1>2
<1>4. Outputs(f, a) = FlattenSeq(A) /\ Outputs(f, b) = FlattenSeq(B)
      /\ Outputs(f, a \o b) = FlattenSeq(C)
  BY DEF Outputs
<1> HIDE DEF Each, A, B, C
<1>5. A \o B \in Seq(Output) /\ Len(A \o B) = Len(a) + Len(b)
      /\ \A i \in 1 .. Len(a) + Len(b) :
           (A \o B)[i] = IF i <= Len(a) THEN A[i] ELSE B[i - Len(a)]
  <2>1. A \in Seq(Output) /\ B \in Seq(Output)
    BY <1>3
  <2>2. /\ A \o B \in Seq(Output) /\ Len(A \o B) = Len(A) + Len(B)
        /\ \A i \in 1 .. Len(A) + Len(B) :
             (A \o B)[i] = IF i <= Len(A) THEN A[i] ELSE B[i - Len(A)]
    BY <2>1, ConcatProperties
  <2> QED
    BY <1>3, <2>2
<1>6. \A i \in 1 .. Len(a) + Len(b) : C[i] = (A \o B)[i]
  <2> TAKE i \in 1 .. Len(a) + Len(b)
  <2>1. CASE i <= Len(a)
    <3>1. i \in 1 .. Len(a) /\ i \in 1 .. Len(a \o b)
      BY <1>2, <2>1
    <3> QED
      BY <1>2, <1>3, <1>5, <2>1, <3>1
  <2>2. CASE ~(i <= Len(a))
    <3>1. PICK j \in 1 .. Len(b) : j = i - Len(a)
      BY <1>2, <2>2
    <3>2. i \in 1 .. Len(a \o b)
      BY <1>2
    <3>3. (a \o b)[i] = b[j] /\ (A \o B)[i] = B[j]
      BY <1>2, <1>5, <2>2, <3>1
    <3> QED
      BY <1>3, <3>2, <3>3
  <2> QED
    BY <2>1, <2>2
<1>7. C = A \o B
  BY <1>2, <1>3, <1>5, <1>6, SeqEqual
<1>8. FlattenSeq(A \o B) = FlattenSeq(A) \o FlattenSeq(B)
  BY <1>3, FlattenConcat
<1>9. FlattenSeq(A) \in Output
  <2>1. << >> \in Output
    BY DEF Output
  <2> QED
    BY <1>3, <2>1, FlattenAppend
<1> QED
  BY <1>4, <1>7, <1>8, <1>9

LEMMA OutputsOfFew ==
  ASSUME NEW T, NEW f \in [T -> Output], NEW x \in T
  PROVE  Outputs(f, << >>) = << >> /\ Outputs(f, <<x>>) = f[x]
<1>1. [i \in DOMAIN << >> |-> f[<< >>[i]]] = << >>
  OBVIOUS
<1>2. [i \in DOMAIN <<x>> |-> f[<<x>>[i]]] = <<f[x]>>
  OBVIOUS
<1>3. <<f[x]>> = Append(<< >>, f[x]) /\ << >> \in Seq(Output) /\ f[x] \in Output
  OBVIOUS
<1>4. FlattenSeq(Append(<< >>, f[x])) = FlattenSeq(<< >>) \o f[x]
  BY <1>3, FlattenAppend
<1>5. << >> \o f[x] = f[x]
  BY <1>3 DEF Output
<1> QED
  BY <1>1, <1>2, <1>3, <1>4, <1>5, FlattenEmpty DEF Outputs

(* Two functions that agree on a list. *)
LEMMA OutputsAgree ==
  ASSUME NEW f, NEW g, NEW list, \A i \in DOMAIN list : f[list[i]] = g[list[i]]
  PROVE  Outputs(f, list) = Outputs(g, list)
<1>1. [i \in DOMAIN list |-> f[list[i]]] = [i \in DOMAIN list |-> g[list[i]]]
  OBVIOUS
<1> QED
  BY <1>1 DEF Outputs

-----------------------------------------------------------------------------
(* Recursion that goes downwards *)

(* What is joined from a head and from what is inside is defined if all    *)
(* that is inside an object has a lower rank.                              *)
LEMMA RecursionOnRanks ==
  ASSUME NEW head \in [Objects -> Output], NEW inside \in [Objects -> Seq(Objects)],
         NEW rank \in [Objects -> Nat],
         \A x \in Objects : \A i \in DOMAIN inside[x] : rank[inside[x][i]] < rank[x]
  PROVE  \E f \in [Objects -> Output] :
           \A x \in Objects : f[x] = head[x] \o Outputs(f, inside[x])
<1> DEFINE Below(n, g) ==
             /\ g \in [Objects -> Output]
             /\ \A x \in Objects : rank[x] < n => g[x] = head[x] \o Outputs(g, inside[x])
           T == {n \in Nat : \E g : Below(n, g)}
<1>0. ASSUME NEW x \in Objects, NEW i \in DOMAIN inside[x]
      PROVE  inside[x][i] \in Objects /\ rank[inside[x][i]] \in Nat
             /\ rank[inside[x][i]] < rank[x]
  <2>1. inside[x][i] \in Objects
    OBVIOUS
  <2> QED
    BY <2>1
<1>1. 0 \in T
  <2>1. [x \in Objects |-> << >>] \in [Objects -> Output]
    BY DEF Output
  <2>2. \A x \in Objects : ~(rank[x] < 0)
    OBVIOUS
  <2> QED
    BY <2>1, <2>2
<1>2. ASSUME NEW n \in Nat, n \in T
      PROVE  n + 1 \in T
  <2>1. PICK g : Below(n, g)
    BY <1>2
  <2> DEFINE h == [x \in Objects |-> head[x] \o Outputs(g, inside[x])]
  <2>2. \A x \in Objects : h[x] = head[x] \o Outputs(g, inside[x])
    OBVIOUS
  <2>3. h \in [Objects -> Output]
    <3> SUFFICES ASSUME NEW x \in Objects PROVE head[x] \o Outputs(g, inside[x]) \in Output
      OBVIOUS
    <3>1. g \in [Objects -> Output] /\ inside[x] \in Seq(Objects) /\ head[x] \in Output
      BY <2>1
    <3>2. Outputs(g, inside[x]) \in Output
      BY <3>1, OutputsOfConcat
    <3> QED
      BY <3>1, <3>2, OutputConcat
  <2> HIDE DEF h
  <2>4. ASSUME NEW x \in Objects, rank[x] < n + 1
        PROVE  h[x] = head[x] \o Outputs(h, inside[x])
    <3>1. ASSUME NEW i \in DOMAIN inside[x]
          PROVE  g[inside[x][i]] = h[inside[x][i]]
      <4> DEFINE y == inside[x][i]
      <4>1. y \in Objects /\ rank[y] \in Nat /\ rank[y] < rank[x]
        BY <1>0
      <4> HIDE DEF y
      <4>2. rank[y] < n
        BY <2>4, <4>1
      <4>3. g[y] = h[y]
        BY <2>1, <2>2, <4>1, <4>2
      <4> QED
        BY <4>3 DEF y
    <3>2. Outputs(g, inside[x]) = Outputs(h, inside[x])
      BY <3>1, OutputsAgree
    <3> QED
      BY <2>2, <3>2
  <2>5. Below(n + 1, h)
    BY <2>3, <2>4
  <2> HIDE DEF Below
  <2> QED
    BY <2>5
<1>3. \A n \in Nat : \E g : Below(n, g)
  <2>1. \A n \in Nat : n \in T
    <3> HIDE DEF T
    <3> QED
      BY <1>1, <1>2, NumbersFromZero
  <2> QED
    BY <2>1
<1>4. ASSUME NEW m \in Nat, NEW n \in Nat, NEW g, NEW h, Below(m, g), Below(n, h)
      PROVE  \A x \in Objects : rank[x] < m /\ rank[x] < n => g[x] = h[x]
  <2> DEFINE Bad == {k \in Nat : \E x \in Objects : /\ rank[x] = k /\ k < m /\ k < n
                                            /\ g[x] # h[x]}
  <2>1. Bad = {}
    <3> SUFFICES ASSUME Bad # {} PROVE FALSE
      OBVIOUS
    <3>1. PICK k \in Bad : \A l \in Bad : k <= l
      BY LeastNumber
    <3>2. PICK x \in Objects : rank[x] = k /\ k < m /\ k < n /\ g[x] # h[x]
      BY <3>1
    <3>3. ASSUME NEW i \in DOMAIN inside[x]
          PROVE  g[inside[x][i]] = h[inside[x][i]]
      <4> DEFINE y == inside[x][i]
      <4>1. y \in Objects /\ rank[y] \in Nat /\ rank[y] < rank[x]
        BY <1>0
      <4> HIDE DEF y
      <4>2. rank[y] < m /\ rank[y] < n /\ ~(k <= rank[y])
        BY <3>2, <4>1
      <4>3. rank[y] \notin Bad
        BY <3>1, <4>2
      <4>4. g[y] = h[y]
        BY <4>1, <4>2, <4>3
      <4> QED
        BY <4>4 DEF y
    <3>4. Outputs(g, inside[x]) = Outputs(h, inside[x])
      BY <3>3, OutputsAgree
    <3>5. g[x] = head[x] \o Outputs(g, inside[x]) /\ h[x] = head[x] \o Outputs(h, inside[x])
      BY <1>4, <3>2
    <3> QED
      BY <3>2, <3>4, <3>5
  <2>2. ASSUME NEW x \in Objects, rank[x] < m, rank[x] < n
        PROVE  g[x] = h[x]
    <3>1. rank[x] \notin Bad /\ rank[x] \in Nat
      BY <2>1
    <3> QED
      BY <2>2, <3>1
  <2> QED
    BY <2>2
<1> DEFINE G(n) == CHOOSE g : Below(n, g)
           f == [x \in Objects |-> G(rank[x] + 1)[x]]
<1>5. ASSUME NEW n \in Nat
      PROVE  Below(n, G(n))
  <2> HIDE DEF Below
  <2> QED
    BY <1>3, Zenon
<1>6. ASSUME NEW x \in Objects
      PROVE  /\ Below(rank[x] + 1, G(rank[x] + 1))
             /\ f[x] = G(rank[x] + 1)[x] /\ f[x] \in Output
  <2>1. rank[x] + 1 \in Nat
    OBVIOUS
  <2>2. Below(rank[x] + 1, G(rank[x] + 1))
    <3> HIDE DEF Below, G
    <3> QED
      BY <1>5, <2>1
  <2>3. f[x] = G(rank[x] + 1)[x]
    <3> HIDE DEF G
    <3> QED
      OBVIOUS
  <2>4. G(rank[x] + 1)[x] \in Output
    <3> HIDE DEF G
    <3> QED
      BY <2>2
  <2> HIDE DEF Below, G, f
  <2> QED
    BY <2>2, <2>3, <2>4
<1>7. f \in [Objects -> Output]
  <2>1. \A x \in Objects : f[x] \in Output
    <3> HIDE DEF f, Below
    <3> QED
      BY <1>6
  <2>2. f = [x \in Objects |-> f[x]]
    <3> HIDE DEF G
    <3> QED
      OBVIOUS
  <2> HIDE DEF f
  <2> QED
    BY <2>1, <2>2
<1>8. ASSUME NEW x \in Objects
      PROVE  f[x] = head[x] \o Outputs(f, inside[x])
  <2> DEFINE n == rank[x] + 1
             g == G(n)
  <2>1. Below(n, g) /\ f[x] = g[x] /\ n \in Nat /\ rank[x] < n
    <3>1. n \in Nat /\ rank[x] < n
      OBVIOUS
    <3> HIDE DEF Below, f, G
    <3> QED
      BY <1>6, <3>1
  <2> HIDE DEF g, n, f, G
  <2>2. ASSUME NEW i \in DOMAIN inside[x]
        PROVE  g[inside[x][i]] = f[inside[x][i]]
    <3> DEFINE y == inside[x][i]
    <3>1. y \in Objects /\ rank[y] \in Nat /\ rank[y] < rank[x]
      BY <1>0
    <3> HIDE DEF y
    <3>2. rank[y] < n /\ rank[y] < rank[y] + 1 /\ rank[y] + 1 \in Nat
      BY <2>1, <3>1 DEF n
    <3>3. Below(rank[y] + 1, G(rank[y] + 1)) /\ f[y] = G(rank[y] + 1)[y]
      <4> HIDE DEF Below
      <4> QED
        BY <1>6, <3>1
    <3>4. g[y] = G(rank[y] + 1)[y]
      <4> HIDE DEF Below
      <4> QED
        BY <1>4, <2>1, <3>1, <3>2, <3>3
    <3> QED
      BY <3>3, <3>4 DEF y
  <2>3. Outputs(g, inside[x]) = Outputs(f, inside[x])
    <3> HIDE DEF Below
    <3> QED
      BY <2>2, OutputsAgree
  <2>4. g[x] = head[x] \o Outputs(g, inside[x])
    BY <2>1
  <2> QED
    BY <2>1, <2>3, <2>4
<1> HIDE DEF f
<1> QED
  BY <1>7, <1>8

-----------------------------------------------------------------------------
(* What Python writes is defined *)

LEMMA OutputTypes ==
  /\ Numeral \subseteq Output /\ <<Raises>> \in Output /\ << >> \in Output
  /\ \A t \in Nat : \A n \in Numeral : EncodeTypeNum(t, n) \in Output
<1>1. Numeral \subseteq Output /\ <<Raises>> \in Output /\ << >> \in Output
  BY DEF Numeral, Output, Raises
<1>2. ASSUME NEW t \in Nat, NEW n \in Numeral
      PROVE  EncodeTypeNum(t, n) \in Output
  <2>1. TagAuxOut(t, n) \in Numeral
    BY TagAuxLength
  <2> QED
    BY <1>1, <2>1 DEF EncodeTypeNum
<1> QED
  BY <1>1, <1>2

LEMMA PyHeadType ==
  ASSUME NEW x \in Objects, NEW sorting \in BOOLEAN
  PROVE  PyHead(x, sorting) \in Output
<1> USE Constants, OutputTypes, ObjectType
<1>0. x.kind \in {"none", "true", "false", "int", "float", "bytes", "text",
                 "list", "tuple", "dict", "tag", "other"}
      /\ (x.kind = "int" => x.sign \in {"+", "-"})
  BY ObjectsAssumption
<1>1. CASE x.kind \in {"none", "true", "false"}
  <2>1. \A b \in Nat : <<b>> \in Output
    BY DEF Output
  <2> QED
    BY <1>1, <2>1 DEF PyHead
<1>2. CASE x.kind = "int"
  <2>1. PyHead(x, sorting) = DumpsInt(x)
    BY <1>2 DEF PyHead
  <2>2. \A t \in Nat : TagAuxOut(t, x.number) \in Output
    BY TagAuxLength
  <2>3. \A t \in Nat : PyBignum(t, x.number) \in Output
    <3> TAKE t \in Nat
    <3> DEFINE a == <<CBOR_TAG + t>>
               b == EncodeTypeNum(CBOR_BYTES, Digits(Len(x.number)))
    <3>1. CBOR_TAG + t \in Nat
      OBVIOUS
    <3>2. a \in Output
      BY <3>1 DEF Output
    <3>3. Len(x.number) \in Nat
      BY DEF Numeral
    <3>4. b \in Output
      BY <3>3, DigitsType
    <3>5. PyBignum(t, x.number) = (a \o b) \o x.number
      BY DEF PyBignum
    <3> HIDE DEF a, b
    <3>6. x.number \in Output
      OBVIOUS
    <3>7. (a \o b) \o x.number \in Output
      BY <3>2, <3>4, <3>6, OutputConcat
    <3> QED
      BY <3>5, <3>7
  <2>4. Len(x.number) \in Nat
    BY DEF Numeral
  <2>5. \/ DumpsInt(x) = TagAuxOut(CBOR_UINT, x.number)
        \/ DumpsInt(x) = TagAuxOut(CBOR_NEGINT, x.number)
        \/ DumpsInt(x) = PyBignum(CBOR_TAG_BIGNUM, x.number)
        \/ DumpsInt(x) = PyBignum(CBOR_TAG_NEGBIGNUM, x.number)
    <3>1. CASE x.sign = "+"
      BY <2>4, <3>1 DEF DumpsInt
    <3>2. CASE x.sign = "-"
      BY <3>2 DEF DumpsInt
    <3> QED
      BY <1>0, <1>2, <3>1, <3>2
  <2> QED
    BY <2>1, <2>2, <2>3, <2>5
<1>3. CASE x.kind = "float"
  <2> DEFINE a == <<CBOR_7 + CBOR_UINT64_FOLLOWS>>
  <2>1. a \in Output
    BY DEF Output
  <2>2. PyHead(x, sorting) = a \o x.data
    BY <1>3 DEF PyHead
  <2> HIDE DEF a
  <2>3. a \o x.data \in Output
    BY <2>1, OutputConcat
  <2> QED
    BY <2>2, <2>3
<1>4. CASE x.kind \in {"bytes", "text"}
  <2>1. PICK t \in Nat : PyHead(x, sorting) = DumpsString(t, x)
    BY <1>4 DEF PyHead
  <2> DEFINE a == EncodeTypeNum(t, Digits(Len(x.data)))
  <2>2. a \in Output
    OBVIOUS
  <2>3. PyHead(x, sorting) = a \o x.data
    BY <2>1 DEF DumpsString
  <2> HIDE DEF a
  <2>4. a \o x.data \in Output
    BY <2>2, OutputConcat
  <2> QED
    BY <2>3, <2>4
<1>5. CASE x.kind \in {"list", "tuple"}
  BY <1>5 DEF PyHead
<1>6. CASE x.kind = "dict"
  <2>1. PyHead(x, sorting) = EncodeTypeNum(CBOR_MAP, NumberOf(x)) \/ PyHead(x, sorting) = <<Raises>>
    BY <1>6, Zenon DEF PyHead
  <2> QED
    BY <2>1
<1>7. CASE x.kind = "tag"
  <2>1. PyHead(x, sorting) = EncodeTypeNum(CBOR_TAG, x.number) \/ PyHead(x, sorting) = <<Raises>>
    BY <1>7 DEF PyHead
  <2> QED
    BY <2>1
<1>8. CASE x.kind = "other"
  BY <1>8 DEF PyHead
<1> QED
  BY <1>0, <1>1, <1>2, <1>3, <1>4, <1>5, <1>6, <1>7, <1>8

(* What is inside is nested less deep. *)
LEMMA PyInsideType ==
  ASSUME NEW x \in Objects, NEW sorting \in BOOLEAN
  PROVE  /\ PyInside(x, sorting) \in Seq(Objects)
         /\ \A i \in DOMAIN PyInside(x, sorting) :
              Depth(PyInside(x, sorting)[i]) < Depth(x)
<1>1. /\ x.items \in Seq(Objects) /\ (x.kind = "dict" => Sorted(x) \in Seq(Objects))
      /\ << >> \in Seq(Objects) /\ DOMAIN << >> = {}
  BY ObjectType
<1>2. \A i \in DOMAIN x.items : Depth(x.items[i]) < Depth(x)
  BY DepthAssumption
<1>3. x.kind = "dict" => \A i \in DOMAIN Sorted(x) :
        \E j \in DOMAIN x.items : Sorted(x)[i] = x.items[j]
  BY ObjectsAssumption
<1>4. x.kind = "dict" => \A i \in DOMAIN Sorted(x) : Depth(Sorted(x)[i]) < Depth(x)
  BY <1>2, <1>3
<1>5. \/ PyInside(x, sorting) = x.items
      \/ PyInside(x, sorting) = << >>
      \/ x.kind = "dict" /\ PyInside(x, sorting) = Sorted(x)
  <2>1. CASE x.kind = "dict" /\ (sorting => Sortable(x))
    BY <2>1, Zenon DEF PyInside
  <2>2. CASE ~(x.kind = "dict" /\ (sorting => Sortable(x)))
    BY <2>2, Zenon DEF PyInside
  <2> QED
    BY <2>1, <2>2
<1> QED
  BY <1>1, <1>2, <1>4, <1>5

(* The bytes of an object are its head and the bytes of what is inside.    *)
LEMMA PyBytesOf ==
  ASSUME NEW sorting \in BOOLEAN
  PROVE  /\ PyBytes(sorting) \in [Objects -> Output]
         /\ \A x \in Objects :
              PyBytes(sorting)[x] =
                PyHead(x, sorting) \o Outputs(PyBytes(sorting), PyInside(x, sorting))
<1> DEFINE head == [x \in Objects |-> PyHead(x, sorting)]
           inside == [x \in Objects |-> PyInside(x, sorting)]
           rank == [x \in Objects |-> Depth(x)]
           Equation(f) ==
             f = [x \in Objects |->
                   PyHead(x, sorting)
                     \o FlattenSeq([i \in DOMAIN PyInside(x, sorting) |->
                                      f[PyInside(x, sorting)[i]]])]
           F == CHOOSE f : Equation(f)
<1>1. head \in [Objects -> Output] /\ inside \in [Objects -> Seq(Objects)]
      /\ rank \in [Objects -> Nat]
  BY PyHeadType, PyInsideType, DepthAssumption
<1>2. \A x \in Objects : /\ head[x] = PyHead(x, sorting)
                         /\ inside[x] = PyInside(x, sorting)
                         /\ rank[x] = Depth(x)
  OBVIOUS
<1>3. \A x \in Objects : \A i \in DOMAIN inside[x] : rank[inside[x][i]] < rank[x]
  <2> TAKE x \in Objects
  <2>1. inside[x] = PyInside(x, sorting)
    BY <1>2
  <2> HIDE DEF inside
  <2>2. ASSUME NEW i \in DOMAIN PyInside(x, sorting)
        PROVE  rank[PyInside(x, sorting)[i]] < rank[x]
    <3> DEFINE y == PyInside(x, sorting)[i]
    <3>1. y \in Objects /\ Depth(y) < Depth(x)
      BY PyInsideType
    <3> HIDE DEF y, rank
    <3>2. rank[y] < rank[x]
      BY <1>2, <3>1
    <3> QED
      BY <3>2 DEF y
  <2> QED
    BY <2>1, <2>2
<1> HIDE DEF head, inside, rank
<1>4. PICK f \in [Objects -> Output] :
        \A x \in Objects : f[x] = head[x] \o Outputs(f, inside[x])
  <2>1. head \in [Objects -> Output]
    BY <1>1
  <2>2. inside \in [Objects -> Seq(Objects)]
    BY <1>1
  <2>3. rank \in [Objects -> Nat]
    BY <1>1
  <2> QED
    BY <1>3, <2>1, <2>2, <2>3, RecursionOnRanks, Zenon
<1>5. Equation(f)
  <2>1. f = [x \in Objects |-> f[x]]
    OBVIOUS
  <2>2. \A x \in Objects :
          f[x] = PyHead(x, sorting) \o Outputs(f, PyInside(x, sorting))
    BY <1>2, <1>4
  <2>3. \A x \in Objects :
          f[x] = PyHead(x, sorting)
                   \o FlattenSeq([i \in DOMAIN PyInside(x, sorting) |->
                                    f[PyInside(x, sorting)[i]]])
    BY <2>2, Zenon DEF Outputs
  <2> QED
    BY <2>1, <2>3
<1>6. Equation(F)
  <2> HIDE DEF Equation
  <2> QED
    BY <1>5, Zenon
<1>7. PyBytes(sorting) = F
  BY DEF PyBytes
<1> HIDE DEF F
<1>8. \A x \in Objects :
        F[x] = PyHead(x, sorting) \o Outputs(F, PyInside(x, sorting))
  <2>1. \A x \in Objects :
          F[x] = PyHead(x, sorting)
                   \o FlattenSeq([i \in DOMAIN PyInside(x, sorting) |->
                                    F[PyInside(x, sorting)[i]]])
    BY <1>6
  <2> HIDE DEF Equation
  <2> QED
    BY <2>1, Zenon DEF Outputs
<1>9. \A x \in Objects :
        f[x] = PyHead(x, sorting) \o Outputs(f, PyInside(x, sorting))
  BY <1>2, <1>4
<1>10. F \in [Objects -> Output]
  <2> DEFINE Bad == {k \in Nat : \E x \in Objects : Depth(x) = k /\ F[x] # f[x]}
  <2>1. Bad = {}
    <3> SUFFICES ASSUME Bad # {} PROVE FALSE
      OBVIOUS
    <3>1. PICK k \in Bad : \A l \in Bad : k <= l
      BY LeastNumber
    <3>2. PICK x \in Objects : Depth(x) = k /\ F[x] # f[x]
      BY <3>1
    <3> DEFINE list == PyInside(x, sorting)
    <3>3. ASSUME NEW i \in DOMAIN list
          PROVE  F[list[i]] = f[list[i]]
      <4> DEFINE y == list[i]
      <4>1. y \in Objects /\ Depth(y) < Depth(x) /\ Depth(y) \in Nat /\ k \in Nat
        BY PyInsideType, DepthAssumption
      <4> HIDE DEF y
      <4>2. ~(k <= Depth(y))
        BY <3>2, <4>1
      <4>3. Depth(y) \notin Bad
        BY <3>1, <4>2
      <4>4. F[y] = f[y]
        BY <4>1, <4>3
      <4> QED
        BY <4>4 DEF y
    <3>4. F[x] = PyHead(x, sorting) \o Outputs(F, list)
          /\ f[x] = PyHead(x, sorting) \o Outputs(f, list)
      BY <1>8, <1>9
    <3> HIDE DEF list
    <3>5. Outputs(F, list) = Outputs(f, list)
      BY <3>3, OutputsAgree
    <3> QED
      BY <3>2, <3>4, <3>5
  <2>2. \A x \in Objects : F[x] = f[x]
    <3> TAKE x \in Objects
    <3>1. Depth(x) \in Nat /\ Depth(x) \notin Bad
      BY <2>1, DepthAssumption
    <3> QED
      BY <3>1
  <2>3. F = [x \in Objects |-> F[x]]
    BY <1>6
  <2>4. \A x \in Objects : F[x] \in Output
    BY <2>2
  <2> HIDE DEF Equation
  <2> QED
    BY <2>3, <2>4
<1> HIDE DEF Equation
<1> QED
  BY <1>7, <1>8, <1>10

-----------------------------------------------------------------------------
(* One object *)

(* The length of a bignum is one byte. *)
LEMMA BignumLength ==
  ASSUME NEW k \in 1 .. 23
  PROVE  EncodeTypeNum(CBOR_BYTES, Digits(k)) = <<CBOR_BYTES + k>>
<1>1. Digits(k) = <<k>>
  BY DigitOfInfo
<1>2. Tiny(<<k>>) /\ Literal(<<k>>) = k /\ Len(<<k>>) = 1
  BY DEF Tiny, Literal
<1>3. InfoBits(<<k>>) = k
  BY <1>2 DEF InfoBits
<1>4. Following(k) = 0
  BY DEF Following, CBOR_UINT8_FOLLOWS, CBOR_UINT16_FOLLOWS, CBOR_UINT32_FOLLOWS,
    CBOR_UINT64_FOLLOWS
<1>5. Padded(<<k>>, 0) = << >>
  BY DEF Padded
<1>6. EncodeTypeNum(CBOR_BYTES, <<k>>) = <<CBOR_BYTES + k>> \o << >>
  <2> DEFINE n == <<k>>
  <2>1. Len(n) <= 8 /\ InfoBits(n) = k /\ Padded(n, 0) = << >>
    BY <1>2, <1>3, <1>5
  <2> HIDE DEF n
  <2>2. EncodeTypeNum(CBOR_BYTES, n) = TagAuxOut(CBOR_BYTES, n)
    BY <2>1 DEF EncodeTypeNum
  <2>3. TagAuxOut(CBOR_BYTES, n) = <<CBOR_BYTES + k>> \o Padded(n, Following(k))
    BY <2>1, Zenon DEF TagAuxOut
  <2> QED
    BY <1>4, <2>1, <2>2, <2>3, Zenon DEF n
<1>7. CBOR_BYTES + k \in Nat
  BY Constants
<1>8. <<CBOR_BYTES + k>> \o << >> = <<CBOR_BYTES + k>>
  BY <1>7
<1> QED
  BY <1>1, <1>6, <1>8

(* An int in which C and Python do not differ. *)
LEMMA SameInt ==
  ASSUME NEW x \in Objects, x.kind = "int", ~Differs(x)
  PROVE  DumpsInt(x) = BytesOf(x)
<1>1. x.sign \in {"+", "-"} /\ x.number \in Number
  BY ObjectsAssumption
<1>2. Len(x.number) \in Nat /\ x.number \in Numeral
      /\ (Len(x.number) >= 1 => x.number[1] \in Nat)
  BY <1>1, NumberFacts
<1>3. CASE ~IsBignum(x)
  <2>1. Len(x.number) <= 8 /\ ~Overflows(x.number)
    BY <1>2, <1>3 DEF IsBignum, Overflows
  <2>2. x.sign = "+" => DumpsInt(x) = TagAuxOut(CBOR_UINT, x.number)
    BY <1>2, <2>1 DEF DumpsInt
  <2>3. x.sign = "-" => DumpsInt(x) = TagAuxOut(CBOR_NEGINT, x.number)
    BY <2>1 DEF DumpsInt
  <2>4. BytesOf(x) = TagAuxOut(IF x.sign = "+" THEN CBOR_UINT ELSE CBOR_NEGINT, x.number)
    BY <1>3 DEF BytesOf
  <2> QED
    BY <1>1, <2>2, <2>3, <2>4
<1>4. CASE IsBignum(x)
  <2>1. Overflows(x.number) /\ Len(x.number) <= 23 /\ Len(x.number) >= 8
        /\ (x.sign = "+" => Len(x.number) > 8)
    <3>1. Overflows(x.number)
      BY <1>4, Zenon DEF IsBignum
    <3>2. PICK k \in Nat : k = Len(x.number)
      BY <1>2
    <3>3. k > 8 \/ k = 8
      BY <3>1, <3>2, Zenon DEF Overflows
    <3>4. ~(k > 23) /\ ~(x.sign = "+" /\ k = 8)
      BY <1>4, <3>2, Zenon DEF Differs, BigBytes
    <3>5. k <= 23 /\ k >= 8 /\ (x.sign = "+" => k > 8)
      BY <3>3, <3>4
    <3> QED
      BY <3>1, <3>2, <3>5, Zenon
  <2> DEFINE n == x.number
             t == IF x.sign = "+" THEN CBOR_TAG_BIGNUM ELSE CBOR_TAG_NEGBIGNUM
             a == <<CBOR_TAG + t>>
             b == <<CBOR_BYTES + Len(n)>>
  <2>2. DumpsInt(x) = PyBignum(t, n)
    <3>1. CASE x.sign = "+"
      BY <1>2, <2>1, <3>1 DEF DumpsInt
    <3>2. CASE x.sign = "-"
      BY <2>1, <3>2 DEF DumpsInt
    <3> QED
      BY <1>1, <3>1, <3>2
  <2>3. EncodeTypeNum(CBOR_BYTES, Digits(Len(n))) = b
    <3>1. PICK k \in Nat : k = Len(x.number)
      BY <1>2
    <3>2. k \in 1 .. 23
      <4>1. k <= 23 /\ k >= 8
        BY <2>1, <3>1, Zenon
      <4> QED
        BY <4>1
    <3>3. EncodeTypeNum(CBOR_BYTES, Digits(k)) = <<CBOR_BYTES + k>>
      BY <3>2, BignumLength
    <3> QED
      BY <3>1, <3>3, Zenon
  <2>4. PyBignum(t, n) = (a \o b) \o n
    BY <2>3 DEF PyBignum
  <2>5. LowBytes(n) = n
    BY <2>1 DEF LowBytes, BigBytes
  <2>6. BytesOf(x) = <<CBOR_TAG + t, CBOR_BYTES + Len(n)>> \o n
    BY <1>4, <2>5 DEF BytesOf, IsBignum
  <2>7. a \o b = <<CBOR_TAG + t, CBOR_BYTES + Len(n)>>
    <3>1. ASSUME NEW u \in Nat, NEW v \in Nat PROVE <<u>> \o <<v>> = <<u, v>>
      <4>1. <<u>> \in Seq(Nat) /\ <<u, v>> = Append(<<u>>, v)
        OBVIOUS
      <4> QED
        BY <4>1, AppendIsConcat
    <3>2. CBOR_TAG + t \in Nat /\ CBOR_BYTES + Len(n) \in Nat
      BY <1>2, Constants
    <3> HIDE DEF t, n
    <3> QED
      BY <3>1, <3>2, Zenon
  <2> QED
    BY <2>2, <2>4, <2>6, <2>7
<1> QED
  BY <1>3, <1>4

(* A dict that Python, too, can put in order. *)
Ordered(x) == x.kind = "dict" /\ sort_keys => Sortable(x)

LEMMA SameHead ==
  ASSUME NEW x \in Objects, ~Differs(x), ~Rejected(x), Ordered(x)
  PROVE  PyHead(x, sort_keys) = BytesOf(x)
<1>0. x.kind \in {"none", "true", "false", "int", "float", "bytes", "text",
                 "list", "tuple", "dict", "tag", "other"}
      /\ x.number \in Number /\ x.sign \in {"+", "-", "?"}
      /\ Len(x.data) \in Lengths /\ Len(x.items) \in Lengths
      /\ (x.kind = "dict" => Len(x.items) % 2 = 0)
  BY ObjectsAssumption
<1>1. \A k \in Lengths : \A t : EncodeTypeNum(t, Digits(k)) = TagAuxOut(t, Digits(k))
  <2> TAKE k \in Lengths
  <2>1. Len(Digits(k)) <= 3 /\ Digits(k) \in Number
    BY DigitsOfLength
  <2>2. Len(Digits(k)) \in Nat
    BY <2>1, NumberFacts
  <2>3. Len(Digits(k)) <= 8
    BY <2>1, <2>2
  <2> QED
    BY <2>3 DEF EncodeTypeNum
<1>2. CASE x.kind \in {"none", "true", "false", "float"}
  BY <1>2 DEF PyHead, BytesOf, IsBignum
<1>3. CASE x.kind = "int"
  <2>1. PyHead(x, sort_keys) = DumpsInt(x)
    BY <1>3 DEF PyHead
  <2> QED
    BY <1>3, <2>1, SameInt
<1>4. CASE x.kind \in {"bytes", "text"}
  BY <1>0, <1>1, <1>4 DEF PyHead, BytesOf, IsBignum, DumpsString
<1>5. CASE x.kind \in {"list", "tuple"}
  BY <1>0, <1>1, <1>5 DEF PyHead, BytesOf, IsBignum
<1>6. CASE x.kind = "dict"
  <2>1. sort_keys => Sortable(x)
    BY <1>6 DEF Ordered
  <2>2. PyHead(x, sort_keys) = EncodeTypeNum(CBOR_MAP, NumberOf(x))
    BY <1>6, <2>1, Zenon DEF PyHead
  <2>3. BytesOf(x) = TagAuxOut(CBOR_MAP, NumberOf(x))
    BY <1>6 DEF BytesOf, IsBignum
  <2>4. Len(x.items) \div 2 \in Lengths
    BY <1>0, <1>6, HalfLength
  <2> QED
    BY <1>1, <2>2, <2>3, <2>4 DEF NumberOf
<1>7. CASE x.kind = "tag"
  <2>1. x.sign = "+" /\ ~Overflows(x.number)
    BY <1>0, <1>7 DEF Rejected, Differs, Skipped
  <2>2. Len(x.number) <= 8
    <3>1. Len(x.number) \in Nat
      BY <1>0, NumberFacts
    <3> QED
      BY <2>1, <3>1 DEF Overflows
  <2> QED
    BY <1>7, <2>1, <2>2 DEF PyHead, BytesOf, IsBignum, EncodeTypeNum
<1>8. x.kind # "other"
  BY DEF Rejected
<1> QED
  BY <1>0, <1>2, <1>3, <1>4, <1>5, <1>6, <1>7, <1>8

LEMMA SameInside ==
  ASSUME NEW x \in Objects, sort_keys \in BOOLEAN, ~Differs(x), ~Rejected(x), Ordered(x)
  PROVE  Inside(x) = IF x.kind = "dict" /\ sort_keys
                     THEN PyInside(x, sort_keys) \o <<EndOfKeys>>
                     ELSE PyInside(x, sort_keys)
<1>0. x.kind \in {"none", "true", "false", "int", "float", "bytes", "text",
                 "list", "tuple", "dict", "tag", "other"}
      /\ x.sign \in {"+", "-", "?"}
  BY ObjectsAssumption
<1>1. CASE x.kind = "dict"
  <2>1. sort_keys => Sortable(x)
    BY <1>1 DEF Ordered
  <2>2. PyInside(x, sort_keys) = IF sort_keys THEN Sorted(x) ELSE x.items
    BY <1>1, <2>1, Zenon DEF PyInside
  <2>3. InOrder(x) = PyInside(x, sort_keys)
    BY <2>1, <2>2 DEF InOrder
  <2>4. Inside(x) = IF sort_keys THEN Append(InOrder(x), EndOfKeys) ELSE InOrder(x)
    BY <1>1 DEF Inside, KeyList
  <2>5. PyInside(x, sort_keys) \in Seq(Elements) /\ EndOfKeys \in Elements
    BY PyInsideType DEF Elements
  <2>6. Append(PyInside(x, sort_keys), EndOfKeys) = PyInside(x, sort_keys) \o <<EndOfKeys>>
    BY <2>5, AppendIsConcat
  <2> QED
    BY <1>1, <2>3, <2>4, <2>6
<1>2. CASE x.kind = "tag"
  <2>1. x.sign = "+" /\ ~Skipped(x)
    BY <1>0, <1>2 DEF Rejected, Differs, Skipped
  <2> QED
    BY <1>2, <2>1 DEF Inside, PyInside
<1>3. CASE x.kind \notin {"dict", "tag"}
  BY <1>3 DEF Inside, PyInside
<1> QED
  BY <1>1, <1>2, <1>3

(* An object that C refuses, or whose keys cannot be sorted: Python raises. *)
LEMMA SameRefusal ==
  ASSUME NEW x \in Objects, ~Differs(x), Rejected(x) \/ ~Ordered(x)
  PROVE  PyHead(x, sort_keys) = <<Raises>>
<1>1. CASE x.kind = "other"
  BY <1>1 DEF PyHead
<1>2. CASE x.kind = "tag"
  <2>1. x.sign # "+"
    BY <1>2 DEF Rejected, Differs, Ordered
  <2> QED
    BY <1>2, <2>1 DEF PyHead
<1>3. CASE x.kind = "dict"
  <2>1. ~(sort_keys => Sortable(x))
    BY <1>3 DEF Rejected, Ordered
  <2> QED
    BY <1>3, <2>1, Zenon DEF PyHead
<1>4. x.kind \in {"other", "tag", "dict"}
  BY DEF Rejected, Ordered
<1> QED
  BY <1>1, <1>2, <1>3, <1>4

-----------------------------------------------------------------------------
(* The invariant *)

(* What Python writes for each element, and for all that a list holds. *)
Wanted ==
  [x \in Elements |-> IF x = EndOfKeys THEN << >> ELSE PyBytes(sort_keys)[x]]

Rest(list) == Outputs(Wanted, list)

(* What inner_dumps() has written is the beginning of what Python writes,  *)
(* and what is still to be written is the rest of it.                      *)
SameInv ==
  fp # "file" /\ ~SomeDiffers =>
    LET py == PyBytes(sort_keys)[ob] IN
      /\ pending => PyFails(py)
      /\ pass = "count" /\ ~pending =>
           \E before \in Output : before \o Rest(todo) = py
      /\ pass = "write" /\ ~pending => out \o Rest(todo) = py
      /\ pass = "done" => ~pending /\ out = py
      /\ pass = "failed" /\ todo # << >> => PyFails(py)

(* The object whose turn it is, is on the trail. *)
LEMMA TurnIsOnTheTrail ==
  ASSUME DInv, Walking, ~SomeDiffers
  PROVE  ~Differs(Head(todo))
<1>1. todo # << >> /\ pass \in {"count", "write"}
  BY DEF Walking
<1>2. \E k \in DOMAIN trail : trail[k] = Walk
  <2>0. trail \in Seq(Walks) /\ Len(trail) >= 1 /\ Len(trail) \in Nat
    BY DEF DInv, Types, TrailInv
  <2>1. DOMAIN trail = 1 .. Len(trail) /\ Len(trail) \in DOMAIN trail
    BY <2>0
  <2>2. CASE pass = "count"
    BY <2>1, <2>2 DEF DInv, CountInv, LastWalk
  <2>3. CASE pass = "write"
    BY <2>1, <2>3 DEF DInv, WriteInv
  <2> QED
    BY <1>1, <2>2, <2>3
<1>3. PICK k \in DOMAIN trail : trail[k] = Walk
  BY <1>2
<1>4. trail[k].todo = todo
  BY <1>3 DEF Walk
<1> QED
  BY <1>1, <1>4 DEF SomeDiffers

LEMMA WantedOf ==
  ASSUME sort_keys \in BOOLEAN
  PROVE  /\ Wanted \in [Elements -> Output]
         /\ EndOfKeys \in Elements /\ Wanted[EndOfKeys] = << >>
         /\ \A x \in Objects :
              /\ x \in Elements /\ Wanted[x] = PyBytes(sort_keys)[x]
              /\ PyInside(x, sort_keys) \in Seq(Elements)
              /\ Wanted[x] = PyHead(x, sort_keys) \o Rest(PyInside(x, sort_keys))
<1> DEFINE py == PyBytes(sort_keys)
<1>1. py \in [Objects -> Output] /\ << >> \in Output
      /\ \A x \in Objects :
           py[x] = PyHead(x, sort_keys) \o Outputs(py, PyInside(x, sort_keys))
  BY PyBytesOf, OutputTypes
<1>2. Wanted = [x \in Elements |-> IF x = EndOfKeys THEN << >> ELSE py[x]]
  BY DEF Wanted
<1> HIDE DEF py
<1>3. EndOfKeys \in Elements /\ \A x \in Objects : x \in Elements /\ x # EndOfKeys
  BY ObjectType DEF Elements
<1>4. Wanted \in [Elements -> Output]
  BY <1>1, <1>2 DEF Elements
<1>5. Wanted[EndOfKeys] = << >> /\ \A x \in Objects : Wanted[x] = py[x]
  BY <1>2, <1>3
<1>6. ASSUME NEW x \in Objects
      PROVE  /\ PyInside(x, sort_keys) \in Seq(Elements)
             /\ Outputs(py, PyInside(x, sort_keys)) = Rest(PyInside(x, sort_keys))
  <2> DEFINE inner == PyInside(x, sort_keys)
  <2>1. inner \in Seq(Objects)
    BY PyInsideType
  <2> HIDE DEF inner
  <2>2. \A i \in DOMAIN inner : inner[i] \in Objects
    BY <2>1
  <2>3. \A i \in DOMAIN inner : py[inner[i]] = Wanted[inner[i]]
    BY <1>5, <2>2
  <2>4. Outputs(py, inner) = Rest(inner)
    BY <2>3, OutputsAgree DEF Rest
  <2>5. inner \in Seq(Elements)
    BY <2>1 DEF Elements
  <2> QED
    BY <2>4, <2>5 DEF inner
<1> QED
  BY <1>1, <1>3, <1>4, <1>5, <1>6 DEF py

(* The first of the list, and then the others. *)
LEMMA RestOfTurn ==
  ASSUME DInv, todo # << >>
  PROVE  /\ Head(todo) \in Elements /\ Tail(todo) \in Seq(Elements)
         /\ Rest(Tail(todo)) \in Output
         /\ Rest(todo) = Wanted[Head(todo)] \o Rest(Tail(todo))
<1>1. todo \in Seq(Elements) /\ sort_keys \in BOOLEAN
  BY DEF DInv, Types
<1>2. /\ Head(todo) \in Elements /\ Tail(todo) \in Seq(Elements)
      /\ <<Head(todo)>> \in Seq(Elements) /\ todo = <<Head(todo)>> \o Tail(todo)
  BY <1>1
<1>3. Wanted \in [Elements -> Output]
  BY <1>1, WantedOf
<1>4. Outputs(Wanted, <<Head(todo)>> \o Tail(todo)) =
        Outputs(Wanted, <<Head(todo)>>) \o Outputs(Wanted, Tail(todo))
  BY <1>2, <1>3, OutputsOfConcat
<1>5. Outputs(Wanted, <<Head(todo)>>) = Wanted[Head(todo)]
  BY <1>2, <1>3, OutputsOfFew
<1>6. Outputs(Wanted, Tail(todo)) \in Output
  BY <1>2, <1>3, OutputsOfConcat
<1> QED
  BY <1>2, <1>4, <1>5, <1>6, Zenon DEF Rest

(* What Python writes for the list, one object further. *)
LEMMA RestStep ==
  ASSUME DInv, Walking, ~SomeDiffers, ~Rejected(Head(todo)), Ordered(Head(todo))
  PROVE  /\ Rest(Inside(Head(todo)) \o Tail(todo)) \in Output
         /\ BytesOf(Head(todo)) \in Output
         /\ Rest(todo) =
              BytesOf(Head(todo)) \o Rest(Inside(Head(todo)) \o Tail(todo))
<1> DEFINE x == Head(todo)
<1>1. todo # << >> /\ sort_keys \in BOOLEAN
  BY DEF Walking, DInv, Types
<1>2. x \in Elements /\ Tail(todo) \in Seq(Elements) /\ BytesOf(x) \in Output
      /\ Inside(x) \in Seq(Elements)
  BY <1>1, RestOfTurn, SizeOfElement, InsideType, OutputTypes
<1>3. ~Differs(x)
  BY TurnIsOnTheTrail
<1>4. Wanted \in [Elements -> Output]
  BY <1>1, WantedOf
<1>5. Wanted[x] = BytesOf(x) \o Rest(Inside(x))
  <2>1. CASE x = EndOfKeys
    <3>1. x.kind = "end"
      BY <2>1 DEF EndOfKeys, Object
    <3>2. BytesOf(x) = << >> /\ Inside(x) = << >>
      BY <3>1 DEF BytesOf, Inside, IsBignum
    <3>3. Rest(<< >>) = << >>
      BY <1>1, <1>4, WantedOf, OutputsOfFew DEF Rest
    <3>4. << >> \o << >> = << >>
      OBVIOUS
    <3>5. Wanted[x] = << >>
      BY <1>1, <2>1, WantedOf
    <3> QED
      BY <3>2, <3>3, <3>4, <3>5, Zenon
  <2>2. CASE x \in Objects
    <3> DEFINE inner == PyInside(x, sort_keys)
    <3>1. PyHead(x, sort_keys) = BytesOf(x)
      BY <1>3, <2>2, SameHead
    <3>2. Inside(x) = IF x.kind = "dict" /\ sort_keys THEN inner \o <<EndOfKeys>> ELSE inner
      BY <1>1, <1>3, <2>2, SameInside
    <3>3. inner \in Seq(Elements) /\ Wanted[x] = BytesOf(x) \o Rest(inner)
      BY <1>1, <2>2, <3>1, WantedOf
    <3>4. EndOfKeys \in Elements /\ Wanted[EndOfKeys] = << >>
      BY <1>1, WantedOf
    <3> HIDE DEF x, inner
    <3>5. <<EndOfKeys>> \in Seq(Elements)
      BY <3>4
    <3>6. Outputs(Wanted, inner) \in Output
          /\ Outputs(Wanted, inner \o <<EndOfKeys>>) =
               Outputs(Wanted, inner) \o Outputs(Wanted, <<EndOfKeys>>)
      BY <1>4, <3>3, <3>5, OutputsOfConcat
    <3>7. Outputs(Wanted, <<EndOfKeys>>) = << >>
      BY <1>4, <3>4, OutputsOfFew
    <3>8. Outputs(Wanted, inner) \o << >> = Outputs(Wanted, inner)
      BY <3>6 DEF Output
    <3> QED
      BY <3>2, <3>3, <3>6, <3>7, <3>8, Zenon DEF Rest
  <2> QED
    BY <1>2, <2>1, <2>2 DEF Elements
<1>6. Rest(todo) = Wanted[x] \o Rest(Tail(todo)) /\ Rest(Tail(todo)) \in Output
  BY <1>1, RestOfTurn
<1>7. /\ Rest(Inside(x)) \in Output
      /\ Rest(Inside(x) \o Tail(todo)) = Rest(Inside(x)) \o Rest(Tail(todo))
  BY <1>2, <1>4, OutputsOfConcat DEF Rest
<1>8. /\ Rest(Inside(x) \o Tail(todo)) \in Output
      /\ (BytesOf(x) \o Rest(Inside(x))) \o Rest(Tail(todo)) =
           BytesOf(x) \o (Rest(Inside(x)) \o Rest(Tail(todo)))
  <2> DEFINE a == BytesOf(x)
             b == Rest(Inside(x))
             c == Rest(Tail(todo))
  <2>1. a \in Output /\ b \in Output /\ c \in Output
    BY <1>2, <1>6, <1>7
  <2>2. Rest(Inside(x) \o Tail(todo)) = b \o c
    BY <1>7
  <2> HIDE DEF a, b, c
  <2>3. b \o c \in Output /\ (a \o b) \o c = a \o (b \o c)
    BY <2>1, OutputConcat
  <2> QED
    BY <2>2, <2>3 DEF a, b, c
<1> QED
  BY <1>2, <1>5, <1>6, <1>7, <1>8, Zenon

(* Python raises if C refuses an object or cannot sort its keys. *)
LEMMA RestFails ==
  ASSUME DInv, Walking, ~SomeDiffers, Rejected(Head(todo)) \/ ~Ordered(Head(todo)),
         NEW before \in Output
  PROVE  PyFails(before \o Rest(todo))
<1> DEFINE x == Head(todo)
<1>1. todo # << >> /\ sort_keys \in BOOLEAN
  BY DEF Walking, DInv, Types
<1>2. x \in Objects
  <2>1. x \in Elements
    BY <1>1, RestOfTurn
  <2>2. x.kind # "end"
    BY DEF Rejected, Ordered
  <2> QED
    BY <2>1, <2>2 DEF Elements, EndOfKeys, Object
<1>3. ~Differs(x)
  BY TurnIsOnTheTrail
<1>4. PyHead(x, sort_keys) = <<Raises>>
  BY <1>2, <1>3, SameRefusal
<1> DEFINE u == Rest(PyInside(x, sort_keys))
           v == Rest(Tail(todo))
           h == <<Raises>>
<1>5. Wanted[x] = h \o u /\ u \in Output
  <2>1. Wanted[x] = PyHead(x, sort_keys) \o u /\ PyInside(x, sort_keys) \in Seq(Elements)
        /\ Wanted \in [Elements -> Output]
    BY <1>1, <1>2, WantedOf
  <2>2. u \in Output
    BY <2>1, OutputsOfConcat DEF Rest
  <2> QED
    BY <1>4, <2>1, <2>2
<1>6. Rest(todo) = (h \o u) \o v /\ v \in Output
  BY <1>1, <1>5, RestOfTurn
<1>7. h \in Output /\ Len(h) = 1 /\ h[1] = Raises
  BY OutputTypes
<1> HIDE DEF h, u, v
<1>8. (h \o u) \o v = h \o (u \o v) /\ u \o v \in Output
  BY <1>5, <1>6, <1>7, OutputConcat
<1> DEFINE w == u \o v
           s == before \o (h \o w)
           k == Len(before) + 1
<1>9. w \in Seq(Int) /\ h \in Seq(Int) /\ before \in Seq(Int)
  BY <1>7, <1>8 DEF Output
<1> HIDE DEF w
<1>10. h \o w \in Seq(Int) /\ Len(h \o w) >= 1 /\ (h \o w)[1] = Raises
  <2>1. /\ h \o w \in Seq(Int) /\ Len(h \o w) = Len(h) + Len(w)
        /\ \A i \in 1 .. Len(h) + Len(w) :
             (h \o w)[i] = IF i <= Len(h) THEN h[i] ELSE w[i - Len(h)]
    BY <1>9, ConcatProperties
  <2>2. Len(w) \in Nat /\ 1 \in 1 .. Len(h) + Len(w) /\ 1 <= Len(h)
    BY <1>7, <1>9
  <2>3. Len(h \o w) >= 1
    BY <1>7, <2>1, <2>2
  <2> QED
    BY <1>7, <2>1, <2>2, <2>3
<1>11. k \in DOMAIN s /\ s[k] = Raises
  BY <1>9, <1>10
<1> QED
  BY <1>6, <1>8, <1>11 DEF PyFails, w

(* What Python writes for the whole object, which no step changes.         *)
Python == PyBytes(sort_keys)[ob]

LEMMA ArgumentsKept ==
  ASSUME UNCHANGED argVars
  PROVE  Python' = Python /\ Wanted' = Wanted /\ fp' = fp
<1>1. ob' = ob /\ sort_keys' = sort_keys /\ fp' = fp
  BY DEF argVars
<1> QED
  BY <1>1 DEF Wanted, Python

(* Nor does a step forget in what C and Python differ. *)
LEMMA DiffersKept ==
  ASSUME DInv, trail' = trail \/ \E e : trail' = Append(trail, e), SomeDiffers
  PROVE  SomeDiffers'
<1>1. PICK i \in DOMAIN trail : trail[i].todo # << >> /\ Differs(Head(trail[i].todo))
  BY DEF SomeDiffers
<1>2. \A x : Differs(x)' <=> Differs(x)
  BY DEF Differs, IsBignum, Skipped
<1>3. i \in DOMAIN trail' /\ trail'[i] = trail[i]
  BY <1>1 DEF DInv, Types
<1> QED
  BY <1>1, <1>2, <1>3 DEF SomeDiffers

(* One object further, in either pass. *)
LEMMA EmitSame ==
  ASSUME DInv, SameInv, Walking, ~Rejected(Head(todo)), Emit(Head(todo)),
         pending \in BOOLEAN,
         pending' = (pending \/ (fp # "file" /\ ~Ordered(Head(todo))))
  PROVE  SameInv'
<1> DEFINE x == Head(todo)
           list == Inside(x) \o Tail(todo)
<1>0. /\ UNCHANGED argVars /\ pass' = pass /\ todo' = list
      /\ out' = IF pass = "write" THEN out \o BytesOf(x) ELSE out
      /\ trail' = trail \/ \E e : trail' = Append(trail, e)
      /\ pass \in {"count", "write"} /\ todo # << >>
  BY DEF Emit, Walking
<1> SUFFICES ASSUME fp' # "file", ~SomeDiffers'
             PROVE  /\ pending' => PyFails(Python)
                    /\ pass = "count" /\ ~pending' =>
                         \E before \in Output : before \o Rest(list) = Python
                    /\ pass = "write" /\ ~pending' =>
                         (out \o BytesOf(x)) \o Rest(list) = Python
  <2>1. Rest(todo)' = Rest(list)
    BY <1>0, ArgumentsKept DEF Rest
  <2>2. Python' = Python
    BY <1>0, ArgumentsKept
  <2>3. SameInv' <=>
          (fp' # "file" /\ ~SomeDiffers' =>
             /\ pending' => PyFails(Python')
             /\ pass' = "count" /\ ~pending' =>
                  \E before \in Output : before \o Rest(todo)' = Python'
             /\ pass' = "write" /\ ~pending' => out' \o Rest(todo)' = Python'
             /\ pass' = "done" => ~pending' /\ out' = Python'
             /\ pass' = "failed" /\ todo' # << >> => PyFails(Python'))
    BY DEF SameInv, Python, PyFails
  <2>4. pass' # "done" /\ pass' # "failed"
    BY <1>0
  <2>5. pass = "write" => out' = out \o BytesOf(x)
    BY <1>0
  <2> QED
    BY <1>0, <2>1, <2>2, <2>3, <2>4, <2>5, Zenon
<1>1. fp # "file" /\ ~SomeDiffers
  BY <1>0, ArgumentsKept, DiffersKept
<1>2. /\ pending => PyFails(Python)
      /\ pass = "count" /\ ~pending =>
           \E before \in Output : before \o Rest(todo) = Python
      /\ pass = "write" /\ ~pending => out \o Rest(todo) = Python
  BY <1>1, Zenon DEF SameInv, Python
<1>3. out \in Output
  BY OutputTypes DEF DInv, Types
<1>4. ASSUME pending' PROVE PyFails(Python)
  <2>1. CASE pending
    BY <1>2, <2>1
  <2>2. CASE ~pending
    <3>1. ~Ordered(x)
      BY <1>4, <2>2
    <3>2. \A before \in Output : PyFails(before \o Rest(todo))
      BY <1>1, <3>1, RestFails
    <3> QED
      BY <1>0, <1>2, <1>3, <2>2, <3>2
  <2> QED
    BY <2>1, <2>2
<1>5. ASSUME ~pending'
      PROVE  /\ pass = "count" => \E before \in Output : before \o Rest(list) = Python
             /\ pass = "write" => (out \o BytesOf(x)) \o Rest(list) = Python
  <2>1. ~pending /\ Ordered(x)
    BY <1>1, <1>5
  <2>2. Rest(list) \in Output /\ BytesOf(x) \in Output
        /\ Rest(todo) = BytesOf(x) \o Rest(list)
    BY <1>1, <2>1, RestStep
  <2>3. \A before \in Output :
          /\ before \o BytesOf(x) \in Output
          /\ (before \o BytesOf(x)) \o Rest(list) = before \o Rest(todo)
    <3> DEFINE b == BytesOf(x)
               c == Rest(list)
    <3>1. b \in Output /\ c \in Output /\ Rest(todo) = b \o c
      BY <2>2
    <3> HIDE DEF b, c
    <3>2. \A a \in Output : a \o b \in Output /\ (a \o b) \o c = a \o Rest(todo)
      <4> TAKE a \in Output
      <4>1. a \o b \in Output /\ (a \o b) \o c = a \o (b \o c)
        BY <3>1, OutputConcat
      <4> QED
        BY <3>1, <4>1, Zenon
    <3> QED
      BY <3>2 DEF b, c
  <2>4. CASE pass = "count"
    <3>1. PICK before \in Output : before \o Rest(todo) = Python
      BY <1>2, <2>1, <2>4
    <3> HIDE DEF list
    <3> QED
      BY <2>3, <2>4, <3>1
  <2>5. CASE pass = "write"
    <3> HIDE DEF list
    <3> QED
      BY <1>2, <1>3, <2>1, <2>3, <2>5
  <2> QED
    BY <1>0, <2>4, <2>5
<1> QED
  BY <1>4, <1>5

LEMMA SameInitial == DumpsInit => SameInv
<1> SUFFICES ASSUME DumpsInit PROVE SameInv
  OBVIOUS
<1>1. ob \in Objects /\ sort_keys \in BOOLEAN /\ pass = "count" /\ todo = <<ob>>
      /\ pending = FALSE
  BY DEF DumpsInit
<1>2. Wanted \in [Elements -> Output] /\ ob \in Elements /\ Wanted[ob] = Python
  BY <1>1, WantedOf DEF Python
<1>3. Rest(todo) = Python /\ Python \in Output
  BY <1>1, <1>2, OutputsOfFew DEF Rest
<1>4. << >> \in Output /\ << >> \o Rest(todo) = Python
  BY <1>3, OutputTypes DEF Output
<1> QED
  BY <1>1, <1>4 DEF SameInv, Python

LEMMA SameStep == DInv /\ KeysInv /\ SameInv /\ [DumpsNext]_dumpsVars => SameInv'
<1> SUFFICES ASSUME DInv, KeysInv, SameInv, [DumpsNext]_dumpsVars PROVE SameInv'
  OBVIOUS
<1>0. pending \in BOOLEAN
  BY DEF KeysInv
<1>1. CASE DumpsOne
  <2>1. Walking /\ ~Rejected(Head(todo)) /\ Emit(Head(todo)) /\ pending' = pending
        /\ Head(todo).kind # "dict"
    BY <1>1 DEF DumpsOne
  <2>2. Ordered(Head(todo))
    BY <2>1 DEF Ordered
  <2>3. pending' = (pending \/ (fp # "file" /\ ~Ordered(Head(todo))))
    BY <1>0, <2>1, <2>2
  <2> QED
    BY <1>0, <2>1, <2>3, EmitSame
<1>2. CASE DumpsDict
  <2>1. Walking /\ Emit(Head(todo)) /\ Head(todo).kind = "dict"
        /\ pending' = (pending \/ (sort_keys /\ fp # "file" /\ ~Sortable(Head(todo))))
    BY <1>2 DEF DumpsDict
  <2>2. ~Rejected(Head(todo))
    BY <2>1 DEF Rejected
  <2>3. ~Ordered(Head(todo)) <=> sort_keys /\ ~Sortable(Head(todo))
    BY <2>1, Zenon DEF Ordered
  <2>4. pending' = (pending \/ (fp # "file" /\ ~Ordered(Head(todo))))
    <3> DEFINE A == Ordered(Head(todo))
               B == Sortable(Head(todo))
    <3>1. ~A <=> sort_keys /\ ~B
      BY <2>3
    <3>2. pending' = (pending \/ (sort_keys /\ fp # "file" /\ ~B))
      BY <2>1
    <3> HIDE DEF A, B
    <3>3. (sort_keys /\ fp # "file" /\ ~B) <=> (fp # "file" /\ ~A)
      BY <3>1
    <3>4. pending' = (pending \/ (fp # "file" /\ ~A))
      BY <3>2, <3>3
    <3> QED
      BY <3>4 DEF A
  <2> QED
    BY <1>0, <2>1, <2>2, <2>4, EmitSame
<1>3. CASE ReleaseKeys
  <2>1. Walking /\ Emit(Head(todo)) /\ pending' = pending /\ Head(todo).kind = "end"
    BY <1>3 DEF ReleaseKeys
  <2>2. ~Rejected(Head(todo)) /\ Ordered(Head(todo))
    BY <2>1 DEF Rejected, Ordered
  <2>3. pending' = (pending \/ (fp # "file" /\ ~Ordered(Head(todo))))
    BY <1>0, <2>1, <2>2
  <2> QED
    BY <1>0, <2>1, <2>2, <2>3, EmitSame
<1>4. ASSUME UNCHANGED <<argVars, trail, out, pending>>
      PROVE  /\ Python' = Python /\ fp' = fp /\ (SomeDiffers' <=> SomeDiffers)
             /\ out' = out /\ pending' = pending
             /\ \A list : Outputs(Wanted, list)' = Outputs(Wanted, list)
  <2>1. Python' = Python /\ Wanted' = Wanted /\ fp' = fp
    BY <1>4, ArgumentsKept
  <2>2. SomeDiffers' <=> SomeDiffers
    BY <1>4 DEF SomeDiffers, Differs, IsBignum, Skipped
  <2> QED
    BY <1>4, <2>1, <2>2
<1>5. CASE Reject
  <2>1. /\ UNCHANGED <<argVars, trail, out, pending>> /\ pass' = "failed"
        /\ todo' = todo /\ Walking /\ Rejected(Head(todo)) /\ pass \in {"count", "write"}
    BY <1>5 DEF Reject, walkVars, Walking
  <2>2. ASSUME fp # "file", ~SomeDiffers PROVE PyFails(Python)
    <3>1. \A before \in Output : PyFails(before \o Rest(todo))
      BY <2>1, <2>2, RestFails
    <3>2. out \in Output
      BY OutputTypes DEF DInv, Types
    <3> QED
      BY <2>1, <2>2, <3>1, <3>2, Zenon DEF SameInv, Python
  <2> QED
    BY <1>4, <2>1, <2>2 DEF SameInv, Python
<1>6. CASE SecondPass
  <2>1. /\ UNCHANGED <<argVars, trail, out, pending>> /\ pass = "count"
        /\ pass' = "write" /\ todo' = <<ob>>
    BY <1>6 DEF SecondPass
  <2>2. ob \in Objects /\ sort_keys \in BOOLEAN /\ out = << >>
    BY <2>1 DEF DInv, Types, CountInv
  <2>3. Wanted \in [Elements -> Output] /\ ob \in Elements /\ Wanted[ob] = Python
    BY <2>2, WantedOf DEF Python
  <2>4. Rest(<<ob>>) = Python /\ Python \in Output
    BY <2>3, OutputsOfFew DEF Rest
  <2>5. << >> \o Rest(<<ob>>) = Python
    BY <2>4 DEF Output
  <2>6. Rest(todo)' = Rest(<<ob>>)
    BY <2>1, ArgumentsKept DEF Rest
  <2>7. out' \o Rest(todo)' = Python
    BY <2>1, <2>2, <2>5, <2>6
  <2> QED
    BY <1>4, <2>1, <2>7 DEF SameInv, Python
<1>7. CASE NoMemory
  <2>1. /\ UNCHANGED <<argVars, trail, out, pending>> /\ pass = "count"
        /\ pass' = "failed" /\ todo' = << >>
    BY <1>7 DEF NoMemory, walkVars
  <2> QED
    BY <1>4, <2>1 DEF SameInv, Python
<1>8. CASE Finish
  <2>1. /\ UNCHANGED <<argVars, trail, out, pending>> /\ pass = "write"
        /\ todo = << >> /\ todo' = << >> /\ pass' \in {"done", "failed", "raised"}
        /\ (pass' = "done" => ~pending)
    BY <1>8, Zenon DEF Finish, walkVars, Outcome
  <2>2. Rest(todo) = << >> /\ out \o << >> = out
    <3>1. Wanted \in [Elements -> Output] /\ EndOfKeys \in Elements
      BY WantedOf DEF DInv, Types
    <3>2. Outputs(Wanted, << >>) = << >>
      BY <3>1, OutputsOfFew
    <3>3. out \in Seq(Nat)
      BY DEF DInv, Types, Numeral
    <3>4. out \o << >> = out
      BY <3>3
    <3> QED
      BY <2>1, <3>2, <3>4, Zenon DEF Rest
  <2> QED
    BY <1>4, <2>1, <2>2 DEF SameInv, Python
<1>9. CASE UNCHANGED dumpsVars
  <2>1. UNCHANGED <<argVars, trail, out, pending, pass, todo>>
    BY <1>9 DEF dumpsVars, walkVars
  <2>2. Rest(todo)' = Rest(todo)
    BY <2>1, ArgumentsKept DEF Rest
  <2> QED
    BY <1>4, <2>1, <2>2 DEF SameInv, Python
<1> QED
  BY <1>1, <1>2, <1>3, <1>5, <1>6, <1>7, <1>8, <1>9 DEF DumpsNext

(* dumps() of c/cbormodule.c and dumps() of cbor/cbor.py: given the same   *)
(* object, the two write the same bytes or both fail, whatever is in it    *)
(* and however it is nested, save for what SomeDiffers names.              *)
THEOREM DumpsSameAsPython == DumpsSpec => []SameAsPython
<1>1. SameInv => SameAsPython
  BY DEF SameInv, SameAsPython
<1> QED
  BY <1>1, SameInitial, SameStep, DumpsInvariant, KeysInvariant, PTL DEF DumpsSpec
=============================================================================
