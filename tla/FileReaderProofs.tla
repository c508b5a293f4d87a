-------------------------- MODULE FileReaderProofs --------------------------
(***************************************************************************)
(* Proofs about FileReader, for files and reads of any size and for any    *)
(* way in which fread() cuts them.                                         *)
(***************************************************************************)
EXTENDS FileReader, SequenceTheorems, TLAPS

-----------------------------------------------------------------------------
(* The inductive invariant *)

(* There is one block, or none and no size for it. *)
Shape ==
  /\ blocks = Block
  /\ text \in [1 .. dst_size -> 0 .. StreamLen]
  /\ dst = "NULL" => dst_size = 0
  /\ pc = "closed" => dst = "NULL"

(* The bytes read so far are those before the position of the file.  The   *)
(* loop goes on only after fread() has given less than half of them.       *)
Gathered ==
  pc \in {"read", "held"} =>
    /\ read_count > 0 /\ rtotal + len = want /\ want <= dst_size
    /\ rtotal <= pos /\ \A i \in 1 .. rtotal : text[i] = pos - rtotal + i

Cut ==
  /\ pc = "read" => (~cut => rtotal = 0)
  /\ pc = "held" => rtotal >= len /\ rtotal > 0 /\ (~cut => len = 0)

(* read_count counts the bytes that the file has given in this load, and   *)
(* a load that got none fails because of that.                             *)
Counted ==
  /\ pos = start + read_count /\ (feof => pos = StreamLen)
  /\ pc = "failed" => error = "value" /\ (read_count > 0 \/ feof \/ cut)
  /\ pc \notin {"failed", "closed"} => error = "none"

Over ==
  pc = "closed" /\ loads > 0 =>
    /\ error = "none" => read_count > 0
    /\ error = "value" => read_count > 0 \/ (cut /\ ~feof)
    /\ error = "eof" => read_count = 0 /\ feof

IInv == TypeOK /\ Shape /\ Gathered /\ Cut /\ Counted /\ Over

-----------------------------------------------------------------------------
(* Every step keeps it *)

LEMMA InitHolds == Init => IInv
<1> SUFFICES ASSUME Init PROVE IInv
  OBVIOUS
<1>1. text \in Seq(0 .. StreamLen) /\ text \in [1 .. 0 -> 0 .. StreamLen]
  BY DEF Init
<1>2. pos \in 0 .. StreamLen /\ start \in 0 .. pos /\ loads \in 0 .. MaxLoads
  BY FileReaderAssumption DEF Init
<1>3. dst_size \in 0 .. MaxLen /\ {len, rtotal, want} \subseteq 0 .. MaxLen
  BY FileReaderAssumption DEF Init
<1>4. TypeOK
  BY <1>1, <1>2, <1>3 DEF Init, TypeOK
<1> QED
  BY <1>1, <1>4 DEF Init, IInv, Shape, Block, Gathered, Cut, Counted, Over

LEMMA NewFileReaderStep == IInv /\ NewFileReader => IInv'
<1> SUFFICES ASSUME IInv, NewFileReader PROVE IInv'
  OBVIOUS
<1>1. text' = << >> /\ dst_size' = 0
  BY DEF NewFileReader
<1>2. text' \in Seq(0 .. StreamLen) /\ text' \in [1 .. 0 -> 0 .. StreamLen]
  BY <1>1
<1>3. TypeOK'
  <2>1. start' \in 0 .. pos' /\ loads' \in 0 .. MaxLoads /\ dst_size' \in 0 .. MaxLen
    BY FileReaderAssumption DEF IInv, TypeOK, NewFileReader
  <2> QED
    BY <1>2, <2>1 DEF IInv, TypeOK, NewFileReader, localVars
<1>4. Shape'
  BY <1>1, <1>2 DEF IInv, Shape, Block, NewFileReader
<1>5. (Gathered /\ Cut /\ Counted /\ Over)'
  BY DEF IInv, TypeOK, Gathered, Cut, Counted, Over, NewFileReader
<1> QED  BY <1>3, <1>4, <1>5 DEF IInv

(* The block that a read begins with. *)
LEMMA ResizeFits ==
  ASSUME IInv, NEW n \in 0 .. MaxLen, Resize(n)
  PROVE  /\ n <= dst_size' /\ dst_size' \in 0 .. MaxLen
         /\ dst' \in {"NULL", "block"} /\ (dst' = "NULL" => dst_size' = 0)
         /\ blocks' = (IF dst' = "NULL" THEN 0 ELSE 1)
         /\ text' \in [1 .. dst_size' -> 0 .. StreamLen]
<1>1. /\ dst_size \in 0 .. MaxLen /\ MaxLen \in Nat /\ StreamLen \in Nat
      /\ dst \in {"NULL", "block"} /\ (dst = "NULL" => dst_size = 0)
      /\ blocks = Block /\ text \in [1 .. dst_size -> 0 .. StreamLen]
  BY FileReaderAssumption DEF IInv, TypeOK, Shape
<1>2. CASE TooSmall(n) \/ TooBig(n)
  <2> DEFINE old == IF TooSmall(n) THEN text ELSE << >>
  <2>1. dst' = "block" /\ dst_size' = n /\ blocks' = blocks + 1 - Block
        /\ text' = Places(n, old)
    BY <1>2 DEF Resize
  <2>2. \A i \in 1 .. n : i <= Len(old) => old[i] \in 0 .. StreamLen
    BY <1>1
  <2> HIDE DEF old
  <2>3. Places(n, old) \in [1 .. n -> 0 .. StreamLen]
    BY <1>1, <2>2 DEF Places
  <2> QED
    BY <1>1, <2>1, <2>3 DEF Block
<1>3. CASE ~(TooSmall(n) \/ TooBig(n))
  BY <1>1, <1>3 DEF Resize, TooSmall, dstVars, Block
<1> QED
  BY <1>2, <1>3

LEMMA ReadStep ==
  ASSUME NEW n \in 0 .. MaxLen PROVE IInv /\ Read(n) => IInv'
<1> SUFFICES ASSUME IInv, Read(n) PROVE IInv'
  OBVIOUS
<1>1. /\ n <= dst_size' /\ dst_size' \in 0 .. MaxLen
      /\ dst' \in {"NULL", "block"} /\ (dst' = "NULL" => dst_size' = 0)
      /\ blocks' = Block' /\ text' \in [1 .. dst_size' -> 0 .. StreamLen]
  BY ResizeFits DEF Read, Block
<1>2. /\ pc = "ready" /\ read_count > 0 /\ pc' = "read" /\ len' = n /\ want' = n
      /\ rtotal' = 0 /\ error' = error /\ cut' = cut
      /\ UNCHANGED <<pos, feof, read_count, loads, start>>
  BY DEF Read, NoTotal, fileVars, loadVars
<1>3. TypeOK'
  <2>1. dst_size' \in Nat
    BY <1>1, FileReaderAssumption
  <2>2. text' \in Seq(0 .. StreamLen)
    <3>1. ASSUME NEW k \in Nat, NEW f \in [1 .. k -> 0 .. StreamLen]
          PROVE  f \in Seq(0 .. StreamLen)
      <4>1. [i \in 1 .. k |-> f[i]] \in Seq(0 .. StreamLen)
        OBVIOUS
      <4>2. f = [i \in 1 .. k |-> f[i]]
        OBVIOUS
      <4> QED
        BY <4>1, <4>2, Zenon
    <3>2. text' \in [1 .. dst_size' -> 0 .. StreamLen]
      BY <1>1
    <3> QED
      BY <2>1, <3>1, <3>2, Zenon
  <2>3. blocks' \in Nat
    BY <1>1 DEF Block
  <2>4. {len', rtotal', want'} \subseteq 0 .. MaxLen
    BY <1>2, FileReaderAssumption
  <2> QED
    BY <1>1, <1>2, <2>2, <2>3, <2>4 DEF IInv, TypeOK
<1>4. (Shape /\ Gathered /\ Cut /\ Counted /\ Over)'
  BY <1>1, <1>2 DEF IInv, TypeOK, Shape, Gathered, Cut, Counted, Over
<1> QED  BY <1>3, <1>4 DEF IInv

(* What fread() does to the file and to the count. *)
LEMMA FreadCounts ==
  ASSUME IInv, NEW m \in Nat, NEW n \in Nat, Fread(m, n)
  PROVE  /\ pos' = pos + m /\ pos' \in 0 .. StreamLen /\ start \in 0 .. pos'
         /\ read_count' = read_count + m /\ read_count' \in Nat
         /\ pos' = start + read_count' /\ (feof' => pos' = StreamLen)
         /\ feof' \in BOOLEAN /\ cut' \in BOOLEAN
         /\ ~cut' => m = n \/ (m = 0 /\ pos = StreamLen)
         /\ m = 0 /\ n > 0 => feof' \/ cut'
         /\ ~cut' => ~cut
<1>1. /\ pos \in Nat /\ pos <= StreamLen /\ start \in Nat /\ start <= pos
      /\ read_count \in Nat /\ StreamLen \in Nat /\ pos = start + read_count
      /\ feof => pos = StreamLen
  BY FileReaderAssumption DEF IInv, TypeOK, Counted
<1>2. /\ m <= n /\ pos + m <= StreamLen /\ pos' = pos + m
      /\ feof' = (feof \/ (m < n /\ pos + m = StreamLen))
      /\ read_count' = read_count + m
      /\ cut' = (cut \/ (m < n /\ (m > 0 \/ pos < StreamLen)))
  BY DEF Fread
<1>3. /\ pos' \in 0 .. StreamLen /\ start \in 0 .. pos' /\ read_count' \in Nat
      /\ pos' = start + read_count'
  <2>1. pos' = pos + m /\ read_count' = read_count + m /\ pos + m <= StreamLen
    BY <1>2
  <2> QED  BY <1>1, <2>1
<1>4. feof' \in BOOLEAN /\ cut' \in BOOLEAN
  BY <1>2 DEF IInv, TypeOK
<1>5. feof' => pos' = StreamLen
  <2> SUFFICES ASSUME feof' PROVE pos' = StreamLen
    OBVIOUS
  <2>1. feof \/ (m < n /\ pos + m = StreamLen)
    BY <1>2, Zenon
  <2>2. pos' = pos + m /\ pos + m <= StreamLen
    BY <1>2
  <2> QED  BY <1>1, <2>1, <2>2
<1>6. ~cut' => ~cut /\ (m = n \/ (m = 0 /\ pos = StreamLen))
  <2> SUFFICES ASSUME ~cut' PROVE ~cut /\ (m = n \/ (m = 0 /\ pos = StreamLen))
    OBVIOUS
  <2>1. ~cut /\ ~(m < n /\ (m > 0 \/ pos < StreamLen))
    BY <1>2, Zenon
  <2>2. m <= n
    BY <1>2
  <2>3. m = n \/ (m = 0 /\ pos = StreamLen)
    BY <1>1, <2>1, <2>2
  <2> QED  BY <2>1, <2>3
<1>7. m = 0 /\ n > 0 => feof' \/ cut'
  <2> SUFFICES ASSUME m = 0, n > 0 PROVE feof' \/ cut'
    OBVIOUS
  <2>1. CASE pos = StreamLen
    <3>1. m < n /\ pos + m = StreamLen
      BY <1>1, <2>1
    <3> QED  BY <1>2, <3>1, Zenon
  <2>2. CASE pos # StreamLen
    <3>1. m < n /\ pos < StreamLen
      BY <1>1, <2>2
    <3> QED  BY <1>2, <3>1, Zenon
  <2> QED  BY <2>1, <2>2
<1> QED
  BY <1>2, <1>3, <1>4, <1>5, <1>6, <1>7

(* fread() has given something: it is behind what was read before. *)
LEMMA ReadSomeStep ==
  ASSUME NEW m \in 1 .. MaxLen PROVE IInv /\ ReadSome(m) => IInv'
<1> SUFFICES ASSUME IInv, ReadSome(m) PROVE IInv'
  OBVIOUS
<1>1. /\ m \in Nat /\ m > 0 /\ m <= len /\ pc = "read" /\ len \in Nat
      /\ rtotal \in Nat /\ want \in 0 .. MaxLen /\ MaxLen \in Nat
      /\ rtotal + len = want /\ want <= dst_size /\ dst_size \in 0 .. MaxLen
      /\ rtotal <= pos /\ pos \in Nat /\ StreamLen \in Nat /\ read_count > 0
      /\ \A i \in 1 .. rtotal : text[i] = pos - rtotal + i
      /\ text \in [1 .. dst_size -> 0 .. StreamLen] /\ Len(text) = dst_size
  <2>1. pc = "read" /\ m > 0 /\ m <= len
    BY DEF ReadSome, Fread
  <2>2. m \in Nat /\ MaxLen \in Nat /\ StreamLen \in Nat
    BY FileReaderAssumption
  <2>3. /\ {len, rtotal, want} \subseteq 0 .. MaxLen
        /\ dst_size \in 0 .. MaxLen /\ pos \in 0 .. StreamLen
    BY DEF IInv, TypeOK
  <2>4. len \in Nat /\ rtotal \in Nat /\ want \in 0 .. MaxLen /\ pos \in Nat
    BY <2>2, <2>3
  <2>5. text \in [1 .. dst_size -> 0 .. StreamLen]
    BY DEF IInv, Shape
  <2>6. Len(text) = dst_size
    BY <2>2, <2>3, <2>5 DEF IInv, TypeOK
  <2>7. /\ rtotal + len = want /\ want <= dst_size
        /\ rtotal <= pos /\ read_count > 0
        /\ \A i \in 1 .. rtotal : text[i] = pos - rtotal + i
    BY <2>1 DEF IInv, Gathered
  <2> QED
    BY <2>1, <2>2, <2>3, <2>4, <2>5, <2>6, <2>7
<1>2. /\ pos' = pos + m /\ pos' \in 0 .. StreamLen /\ start \in 0 .. pos'
      /\ read_count' = read_count + m /\ read_count' \in Nat
      /\ pos' = start + read_count' /\ (feof' => pos' = StreamLen)
      /\ feof' \in BOOLEAN /\ cut' \in BOOLEAN /\ (~cut' => m = len) /\ (~cut' => ~cut)
  BY <1>1, FreadCounts DEF ReadSome
<1>3. /\ text' = [i \in 1 .. dst_size |-> IF i \in rtotal + 1 .. rtotal + m
                                         THEN pos + i - rtotal ELSE text[i]]
      /\ rtotal' = rtotal + m /\ len' = len - m
      /\ pc' = (IF rtotal' >= len' THEN "held" ELSE "read")
      /\ UNCHANGED <<dst, dst_size, blocks, want, loads, start, error>>
  BY <1>1 DEF ReadSome, Enough, loadVars
<1>4. \A i \in 1 .. dst_size : text'[i] \in 0 .. StreamLen
  <2> SUFFICES ASSUME NEW i \in 1 .. dst_size PROVE text'[i] \in 0 .. StreamLen
    OBVIOUS
  <2>1. CASE i \in rtotal + 1 .. rtotal + m
    <3>1. text'[i] = pos + i - rtotal
      BY <1>3, <2>1
    <3>2. pos + i - rtotal <= pos' /\ pos + i - rtotal >= 0
      BY <1>1, <1>2, <2>1
    <3> QED  BY <1>1, <1>2, <2>1, <3>1, <3>2
  <2>2. CASE i \notin rtotal + 1 .. rtotal + m
    <3>1. text'[i] = text[i]
      BY <1>3, <2>2
    <3> QED  BY <1>1, <3>1
  <2> QED  BY <2>1, <2>2
<1>5. text' \in [1 .. dst_size' -> 0 .. StreamLen]
  BY <1>3, <1>4
<1>6. TypeOK'
  <2>1. text' \in Seq(0 .. StreamLen)
    BY <1>1, <1>3, <1>5
  <2>2. {len', rtotal', want'} \subseteq 0 .. MaxLen
    BY <1>1, <1>3
  <2>3. pc' \in {"read", "held"}
    BY <1>3
  <2> QED
    BY <1>2, <1>3, <2>1, <2>2, <2>3 DEF IInv, TypeOK
<1>7. Shape'
  BY <1>1, <1>3, <1>5 DEF IInv, Shape, Block
<1>8. Gathered'
  <2>1. \A i \in 1 .. rtotal' : text'[i] = pos' - rtotal' + i
    <3> SUFFICES ASSUME NEW i \in 1 .. rtotal' PROVE text'[i] = pos' - rtotal' + i
      OBVIOUS
    <3>1. i \in 1 .. dst_size /\ pos' - rtotal' = pos - rtotal
      BY <1>1, <1>2, <1>3
    <3>2. CASE i \in rtotal + 1 .. rtotal + m
      BY <1>1, <1>3, <3>1, <3>2
    <3>3. CASE i \notin rtotal + 1 .. rtotal + m
      <4>1. i \in 1 .. rtotal
        BY <1>1, <1>3, <3>3
      <4> QED  BY <1>1, <1>3, <3>1, <3>3, <4>1
    <3> QED  BY <3>2, <3>3
  <2>2. rtotal' + len' = want' /\ want' <= dst_size' /\ rtotal' <= pos'
        /\ read_count' > 0
    BY <1>1, <1>2, <1>3 DEF IInv, TypeOK
  <2> QED  BY <2>1, <2>2 DEF Gathered
<1>9. Cut'
  <2>1. pc' = "read" => len' > 0
    BY <1>1, <1>3
  <2>2. ~cut' => len' = 0
    BY <1>1, <1>2, <1>3
  <2>3. rtotal' > 0
    BY <1>1, <1>3
  <2>4. pc' = "held" => rtotal' >= len'
    BY <1>3
  <2> QED  BY <2>1, <2>2, <2>3, <2>4 DEF Cut
<1>10. (Counted /\ Over)'
  BY <1>1, <1>2, <1>3 DEF IInv, Counted, Over
<1> QED  BY <1>6, <1>7, <1>8, <1>9, <1>10 DEF IInv

(* A read or a read1 has failed, and the buffer has been freed or left. *)
LEMMA FailStep ==
  ASSUME IInv, Fail, pc # "closed", TypeOK',
         blocks' = Block', text' \in [1 .. dst_size' -> 0 .. StreamLen],
         dst' = "NULL" => dst_size' = 0,
         pos' = start + read_count', feof' => pos' = StreamLen,
         read_count' > 0 \/ feof' \/ cut'
  PROVE  IInv'
BY DEF Fail, localVars, loadVars, IInv, Shape, Gathered, Cut, Counted, Over

LEMMA ReadNothingStep == IInv /\ ReadNothing => IInv'
<1> SUFFICES ASSUME IInv, ReadNothing PROVE IInv'
  OBVIOUS
<1>0. len \in Nat /\ pc = "read" /\ Fread(0, len) /\ Fail /\ read_count > 0
      /\ read_count \in Nat /\ blocks = Block /\ dst' = "NULL" /\ dst_size' = 0
      /\ text' = << >> /\ blocks' = blocks - Block /\ MaxLen \in Nat
  BY FileReaderAssumption
  DEF IInv, TypeOK, Shape, Gathered, ReadNothing, NoSize
<1>1. /\ pos' \in 0 .. StreamLen /\ start \in 0 .. pos' /\ read_count' \in Nat
      /\ read_count' = read_count + 0
      /\ pos' = start + read_count' /\ (feof' => pos' = StreamLen)
      /\ feof' \in BOOLEAN /\ cut' \in BOOLEAN
  BY <1>0, FreadCounts
<1>2. text' \in Seq(0 .. StreamLen) /\ text' \in [1 .. 0 -> 0 .. StreamLen]
  BY <1>0
<1>3. blocks' = 0 /\ Block' = 0
  BY <1>0 DEF Block
<1>4. TypeOK'
  BY <1>0, <1>1, <1>2, <1>3 DEF IInv, TypeOK, Fail, localVars, loadVars
<1>5. read_count' > 0
  BY <1>0, <1>1
<1> QED  BY <1>0, <1>1, <1>2, <1>3, <1>4, <1>5, FailStep

LEMMA Read1Step == IInv /\ Read1 => IInv'
BY DEF Read1, IInv, TypeOK, Shape, Block, Gathered, Cut, Counted, Over,
  dstVars, localVars, fileVars, loadVars

LEMMA Read1ByteStep == IInv /\ Read1Byte => IInv'
<1> SUFFICES ASSUME IInv, Read1Byte PROVE IInv'
  OBVIOUS
<1>1. /\ pos' \in 0 .. StreamLen /\ start \in 0 .. pos' /\ read_count' \in Nat
      /\ read_count' = read_count + 1
      /\ pos' = start + read_count' /\ (feof' => pos' = StreamLen)
      /\ feof' \in BOOLEAN /\ cut' \in BOOLEAN
  BY FreadCounts DEF Read1Byte
<1>2. pc = "read1" /\ pc' = "ready"
      /\ UNCHANGED <<dst, dst_size, text, blocks, len, rtotal, want, loads, start, error>>
  BY DEF Read1Byte, dstVars, localVars, loadVars
<1>3. TypeOK'
  BY <1>1, <1>2 DEF IInv, TypeOK
<1> QED
  BY <1>1, <1>2, <1>3 DEF IInv, Shape, Block, Gathered, Cut, Counted, Over

LEMMA Read1NothingStep == IInv /\ Read1Nothing => IInv'
<1> SUFFICES ASSUME IInv, Read1Nothing PROVE IInv'
  OBVIOUS
<1>1. /\ pos' \in 0 .. StreamLen /\ start \in 0 .. pos' /\ read_count' \in Nat
      /\ pos' = start + read_count' /\ (feof' => pos' = StreamLen)
      /\ feof' \in BOOLEAN /\ cut' \in BOOLEAN /\ (feof' \/ cut')
  BY FreadCounts DEF Read1Nothing
<1>2. pc = "read1" /\ Fail /\ UNCHANGED <<dst, dst_size, text, blocks>>
  BY DEF Read1Nothing, dstVars
<1>3. TypeOK'
  BY <1>1, <1>2 DEF IInv, TypeOK, Fail, localVars, loadVars
<1>4. blocks' = Block' /\ text' \in [1 .. dst_size' -> 0 .. StreamLen]
      /\ (dst' = "NULL" => dst_size' = 0)
  BY <1>2 DEF IInv, Shape, Block
<1> QED  BY <1>1, <1>2, <1>3, <1>4, FailStep

LEMMA ReturnBufferStep == IInv /\ ReturnBuffer => IInv'
BY DEF ReturnBuffer, IInv, TypeOK, Shape, Block, Gathered, Cut, Counted, Over,
  dstVars, localVars, fileVars, loadVars

LEMMA DecodeFailsStep == IInv /\ DecodeFails => IInv'
BY DEF DecodeFails, Fail, IInv, TypeOK, Shape, Block, Gathered, Cut, Counted,
  Over, dstVars, localVars, fileVars, loadVars

(* FileReader_delete leaves nothing. *)
LEMMA DeleteStep ==
  ASSUME IInv, Delete, pc' = "closed", error' \in {"none", "value", "eof"},
         UNCHANGED <<localVars, fileVars, loadVars, cut>>, Over'
  PROVE  IInv'
<1>1. text' \in Seq(0 .. StreamLen) /\ text' \in [1 .. 0 -> 0 .. StreamLen]
      /\ dst_size' = 0 /\ dst' = "NULL"
  BY DEF Delete
<1>2. blocks' = 0 /\ Block' = 0
  BY DEF Delete, IInv, Shape, Block
<1>3. TypeOK'
  BY <1>1, <1>2, FileReaderAssumption
  DEF IInv, TypeOK, localVars, fileVars, loadVars
<1>4. (Gathered /\ Cut /\ Counted)'
  BY DEF IInv, Gathered, Cut, Counted, localVars, fileVars, loadVars
<1> QED  BY <1>1, <1>2, <1>3, <1>4 DEF IInv, Shape

LEMMA LoadReturnsStep == IInv /\ LoadReturns => IInv'
<1> SUFFICES ASSUME IInv, LoadReturns PROVE IInv'
  OBVIOUS
<1>1. Over' /\ error' = "none"
  BY DEF LoadReturns, Over, IInv, Counted, fileVars
<1> QED  BY <1>1, DeleteStep DEF LoadReturns

LEMMA LoadRaisesStep == IInv /\ LoadRaises => IInv'
<1> SUFFICES ASSUME IInv, LoadRaises PROVE IInv'
  OBVIOUS
<1>1. read_count \in Nat /\ feof \in BOOLEAN /\ cut \in BOOLEAN
      /\ error = "value" /\ (read_count > 0 \/ feof \/ cut)
      /\ UNCHANGED <<read_count, feof, cut>>
      /\ error' = (IF read_count = 0 /\ feof THEN "eof" ELSE error)
  BY DEF IInv, TypeOK, Counted, LoadRaises, fileVars, StartedAtEnd
<1>2. Over' /\ error' \in {"value", "eof"}
  BY <1>1 DEF Over
<1> QED  BY <1>2, DeleteStep DEF LoadRaises

LEMMA StutterHolds == IInv /\ UNCHANGED vars => IInv'
BY DEF vars, IInv, TypeOK, Shape, Block, Gathered, Cut, Counted, Over,
  dstVars, localVars, fileVars, loadVars

LEMMA NextHolds == IInv /\ [Next]_vars => IInv'
<1> SUFFICES ASSUME IInv, [Next]_vars PROVE IInv'
  OBVIOUS
<1>1. CASE Reading
  BY <1>1, ReadNothingStep, ReadSomeStep DEF Reading
<1>2. CASE Read1 \/ Read1Byte \/ Read1Nothing
  BY <1>2, Read1Step, Read1ByteStep, Read1NothingStep
<1>3. CASE \E n \in 0 .. MaxLen : Read(n)
  BY <1>3, ReadStep
<1>4. CASE NewFileReader \/ ReturnBuffer \/ DecodeFails
  BY <1>4, NewFileReaderStep, ReturnBufferStep, DecodeFailsStep
<1>5. CASE LoadReturns \/ LoadRaises
  BY <1>5, LoadReturnsStep, LoadRaisesStep
<1>6. CASE UNCHANGED vars
  BY <1>6, StutterHolds
<1> QED  BY <1>1, <1>2, <1>3, <1>4, <1>5, <1>6 DEF Next

LEMMA Invariance == Spec => []IInv
<1> QED  BY InitHolds, NextHolds, PTL DEF Spec

-----------------------------------------------------------------------------
(* Theorems *)

(* No variable of the reader leaves its range; dst is never freed twice.   *)
THEOREM FileReaderTypeCorrect == Spec => []TypeOK
<1>1. IInv => TypeOK
  BY DEF IInv
<1> QED  BY <1>1, Invariance, PTL

(* Whatever the lengths of the reads, and wherever the two limits for      *)
(* keeping a buffer lie, fread() never writes past the block it is given,  *)
(* and a buffer that is handed over is never NULL (FileReader_read).       *)
THEOREM NeverPastTheBlock == Spec => []FitsTheBlock
<1>1. IInv => FitsTheBlock
  <2> SUFFICES ASSUME IInv PROVE FitsTheBlock
    OBVIOUS
  <2>1. dst_size \in Nat /\ text \in [1 .. dst_size -> 0 .. StreamLen]
        /\ text \in Seq(0 .. StreamLen)
    BY DEF IInv, TypeOK, Shape
  <2>2. Len(text) = dst_size
    BY <2>1
  <2>3. pc = "read" => rtotal + len = want /\ want <= dst_size
    BY DEF IInv, Gathered
  <2>4. pc = "held" => dst = "block"
    BY DEF IInv, TypeOK, Shape, Gathered, Cut
  <2> QED  BY <2>2, <2>3, <2>4 DEF FitsTheBlock
<1> QED  BY <1>1, Invariance, PTL

(* However fread() cuts a read, what is handed over goes on where the last *)
(* request ended; it is all that was asked for if fread() gave all it was  *)
(* asked for, and at least half of it otherwise (FileReader_read).         *)
THEOREM GoesOnInOrder == Spec => []GoesOn
<1>1. IInv => GoesOn
  <2> SUFFICES ASSUME IInv, pc = "held"
               PROVE  /\ SubSeq(text, 1, rtotal) = Bytes(rtotal)
                      /\ 2 * rtotal >= want
                      /\ ~cut => rtotal = want
    BY DEF GoesOn
  <2>1. /\ rtotal \in Nat /\ len \in Nat /\ want \in Nat /\ dst_size \in Nat
        /\ rtotal + len = want /\ rtotal >= len /\ want <= dst_size
        /\ (~cut => len = 0)
        /\ \A i \in 1 .. rtotal : text[i] = pos - rtotal + i
        /\ text \in [1 .. dst_size -> 0 .. StreamLen]
        /\ text \in Seq(0 .. StreamLen) /\ pos \in Nat
    BY DEF IInv, TypeOK, Shape, Gathered, Cut
  <2>2. rtotal <= Len(text)
    BY <2>1
  <2>3. SubSeq(text, 1, rtotal) = [i \in 1 .. rtotal |-> text[i]]
    BY <2>1, <2>2
  <2>4. SubSeq(text, 1, rtotal) = Bytes(rtotal)
    BY <2>1, <2>3 DEF Bytes
  <2> QED  BY <2>1, <2>4
<1> QED  BY <1>1, Invariance, PTL

(* cbor_load() raises EOFError when the file was at its end and nothing    *)
(* has been read, and, unless reading itself failed, whenever it was.      *)
THEOREM EOFErrorMeansTheEnd == Spec => []EOFErrorAtTheEnd
<1>1. IInv => EOFErrorAtTheEnd
  <2> SUFFICES ASSUME IInv, pc = "closed", loads > 0
               PROVE  /\ error = "eof" => pos = start /\ pos = StreamLen
                      /\ start = StreamLen /\ ~cut => error = "eof"
    BY DEF EOFErrorAtTheEnd
  <2>1. /\ pos \in 0 .. StreamLen /\ start \in 0 .. pos /\ read_count \in Nat
        /\ StreamLen \in Nat /\ pos = start + read_count /\ (feof => pos = StreamLen)
        /\ error \in {"none", "value", "eof"}
    BY FileReaderAssumption DEF IInv, TypeOK, Counted
  <2>2. start = StreamLen => read_count = 0
    BY <2>1
  <2>3. error = "eof" => read_count = 0 /\ feof
    BY DEF IInv, Over
  <2>4. read_count = 0 /\ ~cut => error = "eof"
    BY <2>1 DEF IInv, Over
  <2> QED  BY <2>1, <2>2, <2>3, <2>4
<1> QED  BY <1>1, Invariance, PTL

(* The block of a FileReader is the only one there is, and it is given     *)
(* back however a load ends.                                               *)
THEOREM OneBlockAtMost == Spec => []OneBlock
<1>1. IInv => OneBlock
  BY DEF IInv, Shape, OneBlock, Block
<1> QED  BY <1>1, Invariance, PTL

-----------------------------------------------------------------------------
(* FileReader implements Reader as long as fread() gives all it is asked   *)
(* for.                                                                    *)

LEMMA InitContract == Init => Contract!Init
BY DEF Init, Contract!Init

LEMMA ReadSomeContract ==
  ASSUME NEW m \in 1 .. MaxLen, IInv, ReadSome(m), ~cut'
  PROVE  Contract!Next
<1>1. /\ m \in Nat /\ m > 0 /\ len \in Nat /\ rtotal \in Nat /\ want \in Nat
      /\ pos \in Nat /\ pc = "read" /\ rtotal + len = want
      /\ Fread(m, len) /\ rtotal' = rtotal + m /\ len' = len - m /\ want' = want
      /\ pc' = (IF rtotal' >= len' THEN "held" ELSE "read")
      /\ (~cut => rtotal = 0)
  BY DEF IInv, TypeOK, Gathered, Cut, ReadSome, Enough
<1>2. pos' = pos + m /\ m = len /\ ~cut
  BY <1>1, FreadCounts
<1>3. rtotal = 0 /\ want = len /\ pc' = "held"
  BY <1>1, <1>2
<1>4. Contract!Give
  BY <1>1, <1>2, <1>3 DEF Contract!Give, Contract!Step
<1> QED  BY <1>4 DEF Contract!Next

(* A step in which the reader or the decoder gives up. *)
LEMMA FailContract ==
  ASSUME IInv, pc \in {"ready", "read", "read1"}, Fail, pos' \in Nat, pos <= pos'
  PROVE  Contract!Next
<1> DEFINE taken == IF pc = "read" THEN pos - rtotal ELSE pos
<1>1. pos \in Nat /\ rtotal \in Nat
  BY DEF IInv, TypeOK
<1>2. taken <= pos'
  BY <1>1
<1>3. Contract!Fail
  BY <1>2 DEF Fail, localVars, Contract!Fail, Contract!Step
<1> QED  BY <1>3 DEF Contract!Next

LEMMA GiveUpContract ==
  IInv /\ (ReadNothing \/ Read1Nothing \/ DecodeFails) => Contract!Next
<1> SUFFICES ASSUME IInv, ReadNothing \/ Read1Nothing \/ DecodeFails
             PROVE  Contract!Next
  OBVIOUS
<1>1. pos \in Nat
  BY DEF IInv, TypeOK
<1>2. pos' = pos + 0 \/ pos' = pos
  BY DEF ReadNothing, Read1Nothing, DecodeFails, Fread, fileVars
<1>3. pc \in {"ready", "read", "read1"} /\ Fail
  BY DEF ReadNothing, Read1Nothing, DecodeFails
<1> QED  BY <1>1, <1>2, <1>3, FailContract

LEMMA AskContract ==
  ASSUME NEW n \in 0 .. MaxLen, IInv, Read(n) PROVE Contract!Next
<1>1. pos - 0 = pos
  BY DEF IInv, TypeOK
<1>2. Contract!Ask(n)
  BY <1>1 DEF Read, NoTotal, fileVars, Contract!Ask, Contract!Step
<1> QED  BY <1>2 DEF Contract!Next

LEMMA OtherContract ==
  NewFileReader \/ Read1 \/ Read1Byte \/ ReturnBuffer \/ LoadReturns \/ LoadRaises
    => Contract!Next
BY DEF NewFileReader, Read1, Read1Byte, ReturnBuffer, LoadReturns, LoadRaises,
  Fread, localVars, fileVars, Contract!Next, Contract!Open, Contract!Ask1,
  Contract!Give1, Contract!Return, Contract!Close, Contract!Step

LEMMA NextContract ==
  IInv /\ [Next]_vars => [~cut' => [Contract!Next]_(Contract!vars)]_vars
<1> SUFFICES ASSUME IInv, [Next]_vars, ~cut'
             PROVE  Contract!Next \/ UNCHANGED Contract!vars
  OBVIOUS
<1>1. CASE \E m \in 1 .. MaxLen : ReadSome(m)
  BY <1>1, ReadSomeContract
<1>2. CASE \E n \in 0 .. MaxLen : Read(n)
  BY <1>2, AskContract
<1>3. CASE ReadNothing \/ Read1Nothing \/ DecodeFails
  BY <1>3, GiveUpContract
<1>4. CASE NewFileReader \/ Read1 \/ Read1Byte \/ ReturnBuffer \/ LoadReturns
           \/ LoadRaises
  BY <1>4, OtherContract
<1>5. CASE UNCHANGED vars
  BY <1>5 DEF vars, localVars, fileVars, Contract!vars
<1> QED  BY <1>1, <1>2, <1>3, <1>4, <1>5 DEF Next, Reading

(* A decoder on top of FileReader sees what Reader promises, in every load *)
(* in which fread() gives what it is asked for.                            *)
THEOREM FileReaderKeepsContract == Spec => KeepsContract
<1> QED  BY Invariance, InitContract, NextContract, PTL
         DEF Spec, KeepsContract
=============================================================================
