------------------------- MODULE ObjectReaderProofs -------------------------
(***************************************************************************)
(* Proofs about ObjectReader, for streams, reads and heaps of any size.    *)
(***************************************************************************)
EXTENDS ObjectReader, SequenceTheorems, TLAPS

-----------------------------------------------------------------------------
(* The inductive invariant *)

(* What thiz points at: nothing outside read(), at most an allocation in   *)
(* its loop and after a failure, and one thing or the other when it has    *)
(* returned.  The allocation is made by the first short read.              *)
Pointers ==
  /\ pc \in {"closed", "ready", "read1"} =>
       retval = NULL /\ bytes = NULL /\ dst = NULL
  /\ pc \in {"read", "failed"} =>
       retval = NULL /\ bytes = NULL /\ (dst = NULL \/ dst \in owned)
  /\ HeldIsOwned

(* How far the loop has come, and the bytes it has copied so far. *)
Progressed ==
  pc = "read" =>
    /\ opos = rtotal /\ rtotal <= pos
    /\ rtotal < len \/ len = 0
    /\ dst = NULL => rtotal = 0
    /\ dst # NULL => /\ text \in [1 .. len -> 0 .. StreamLen]
                     /\ \A i \in 1 .. rtotal : text[i] = pos - rtotal + i

(* read_count counts the bytes that ob has given out in this load, while   *)
(* it returns bytes and does not raise.                                    *)
Counting ==
  /\ pc # "closed" =>
       /\ error # "eof"
       /\ ~refused /\ ~exception_is_external => pos = start + read_count
       /\ pc # "failed" => ~refused /\ ~exception_is_external
  /\ EOFErrorTakesNothing

(* Nothing but what thiz points at has to be given back. *)
Accounting ==
  /\ ~odd => owned = {retval, dst} \ {NULL}
  /\ pc = "read" /\ dst # NULL /\ rtotal = 0 => odd

IInv ==
  /\ TypeOK /\ Pointers /\ Progressed /\ ExactBytes /\ Counting /\ Accounting

-----------------------------------------------------------------------------
(* Every step keeps it *)

LEMMA FreshIsNew ==
  ASSUME owned \subseteq Addresses, owned # Addresses
  PROVE  Fresh \in Addresses /\ Fresh \notin owned /\ Fresh # NULL
<1>1. \E a \in Addresses : a \notin owned
  OBVIOUS
<1>2. Fresh \in Addresses /\ Fresh \notin owned
  BY <1>1 DEF Fresh
<1> QED  BY <1>2 DEF Addresses, NULL

LEMMA InitHolds == Init => IInv
<1> SUFFICES ASSUME Init PROVE IInv
  OBVIOUS
<1>1. TypeOK
  <2>1. text \in Seq(0 .. StreamLen)
    BY DEF Init
  <2>2. /\ pos \in 0 .. StreamLen /\ start \in 0 .. pos /\ loads \in 0 .. MaxLoads
        /\ len \in 0 .. MaxLen /\ rtotal \in 0 .. len /\ opos \in 0 .. len
    BY ObjectReaderAssumption DEF Init
  <2>3. /\ {retval, bytes, dst, buffer} \subseteq Addresses \cup {NULL}
        /\ owned \subseteq Addresses
    BY DEF Init
  <2> QED  BY <2>1, <2>2, <2>3 DEF Init, TypeOK
<1>2. Pointers /\ Progressed /\ ExactBytes /\ Counting /\ Accounting
  BY DEF Init, Pointers, HeldIsOwned, Progressed, ExactBytes, Counting,
     EOFErrorTakesNothing, Accounting, NULL
<1> QED  BY <1>1, <1>2 DEF IInv

LEMMA NewObjectReaderStep == IInv /\ NewObjectReader => IInv'
<1> SUFFICES ASSUME IInv, NewObjectReader PROVE IInv'
  OBVIOUS
<1>1. TypeOK'
  <2>1. pos \in 0 .. StreamLen /\ loads \in 0 .. MaxLoads
    BY DEF IInv, TypeOK
  <2>2. start' \in 0 .. pos' /\ loads' \in 0 .. MaxLoads
    BY <2>1, ObjectReaderAssumption DEF NewObjectReader
  <2> QED
    BY <2>1, <2>2 DEF NewObjectReader, IInv, TypeOK, NULL, localVars, bufferVars
<1>2. (Pointers /\ Progressed /\ ExactBytes /\ Accounting)'
  BY DEF NewObjectReader, IInv, Pointers, HeldIsOwned, Progressed, ExactBytes,
     Accounting, NULL
<1>3. Counting'
  BY DEF NewObjectReader, IInv, TypeOK, Counting, EOFErrorTakesNothing
<1> QED  BY <1>1, <1>2, <1>3 DEF IInv

LEMMA ReadStep ==
  ASSUME NEW n \in 0 .. MaxLen PROVE IInv /\ Read(n) => IInv'
BY ObjectReaderAssumption DEF Read, IInv, TypeOK, Pointers, HeldIsOwned,
   Progressed, ExactBytes, Counting, EOFErrorTakesNothing, Accounting, NULL,
   thizVars, loadVars

LEMMA Read1Step == IInv /\ Read1 => IInv'
BY ObjectReaderAssumption DEF Read1, IInv, TypeOK, Pointers, HeldIsOwned,
   Progressed, ExactBytes, Counting, EOFErrorTakesNothing, Accounting, NULL,
   thizVars, localVars, bufferVars, loadVars

LEMMA ReadRaisesStep == IInv /\ ReadRaises => IInv'
BY ObjectReaderAssumption DEF ReadRaises, Lose, GiveUp, IInv, TypeOK, Pointers,
   HeldIsOwned, Progressed, ExactBytes, Counting, EOFErrorTakesNothing,
   Accounting, NULL, thizVars, localVars, bufferVars, loadVars, Missing

LEMMA ReadNotBytesStep == IInv /\ ReadNotBytes => IInv'
BY ObjectReaderAssumption DEF ReadNotBytes, Lose, GiveUp, IInv, TypeOK, Pointers,
   HeldIsOwned, Progressed, ExactBytes, Counting, EOFErrorTakesNothing,
   Accounting, NULL, thizVars, localVars, bufferVars, loadVars, Missing

LEMMA ReadTooMuchStep == IInv /\ ReadTooMuch => IInv'
BY ObjectReaderAssumption DEF ReadTooMuch, GiveUp, Take, IInv,
   TypeOK, Pointers, HeldIsOwned, Progressed, ExactBytes, Counting,
   EOFErrorTakesNothing, Accounting, NULL, thizVars, localVars, bufferVars,
   loadVars, Missing

LEMMA ReadZeroStep == IInv /\ ReadZero => IInv'
BY ObjectReaderAssumption DEF ReadZero, GiveUp, IInv, TypeOK, Pointers,
   HeldIsOwned, Progressed, ExactBytes, Counting, EOFErrorTakesNothing,
   Accounting, NULL, thizVars, localVars, bufferVars, loadVars, Missing

LEMMA Read1ByteStep == IInv /\ Read1Byte => IInv'
BY ObjectReaderAssumption DEF Read1Byte, Take, IInv, TypeOK,
   Pointers, HeldIsOwned, Progressed, ExactBytes, Counting,
   EOFErrorTakesNothing, Accounting, NULL, thizVars, localVars, bufferVars,
   loadVars

LEMMA Read1RaisesStep == IInv /\ Read1Raises => IInv'
BY ObjectReaderAssumption DEF Read1Raises, Lose, GiveUp, IInv, TypeOK, Pointers,
   HeldIsOwned, Progressed, ExactBytes, Counting, EOFErrorTakesNothing,
   Accounting, NULL, thizVars, localVars, bufferVars, loadVars

LEMMA ReturnBufferStep == IInv /\ ReturnBuffer => IInv'
BY ObjectReaderAssumption DEF ReturnBuffer, IInv, TypeOK, Pointers,
   HeldIsOwned, Progressed, ExactBytes, Counting, EOFErrorTakesNothing,
   Accounting, NULL, thizVars, localVars, bufferVars, loadVars

LEMMA DecodeFailsStep == IInv /\ DecodeFails => IInv'
BY ObjectReaderAssumption DEF DecodeFails, GiveUp, IInv, TypeOK, Pointers,
   HeldIsOwned, Progressed, ExactBytes, Counting, EOFErrorTakesNothing,
   Accounting, NULL, thizVars, localVars, bufferVars, loadVars

LEMMA LoadReturnsStep == IInv /\ LoadReturns => IInv'
BY ObjectReaderAssumption DEF LoadReturns, Delete, IInv, TypeOK, Pointers,
   HeldIsOwned, Progressed, ExactBytes, Counting, EOFErrorTakesNothing,
   Accounting, NULL, thizVars, localVars, bufferVars, loadVars

LEMMA LoadRaisesStep == IInv /\ LoadRaises => IInv'
BY ObjectReaderAssumption DEF LoadRaises, NeverGotAnything, Delete, IInv, TypeOK, Pointers,
   HeldIsOwned, Progressed, ExactBytes, Counting, EOFErrorTakesNothing,
   Accounting, NULL, thizVars, localVars, bufferVars, loadVars

LEMMA Read1FailsStep == IInv /\ (Read1NotBytes \/ Read1WrongSize) => IInv'
<1> SUFFICES ASSUME IInv, Read1NotBytes \/ Read1WrongSize PROVE IInv'
  OBVIOUS
<1>1. Fresh \in Addresses
  BY FreshIsNew DEF IInv, TypeOK, Read1NotBytes, Read1WrongSize, Leak
<1>2. PICK m \in 0 .. 2 :
        \/ Take(m) /\ UNCHANGED refused
        \/ Lose(m) /\ refused'
  BY DEF Read1NotBytes, Read1WrongSize
<1>3. /\ pos' \in 0 .. StreamLen /\ read_count' \in Nat /\ pos <= pos'
      /\ refused' \/ (pos' = pos + m /\ read_count' = read_count + m)
      /\ refused' \in BOOLEAN
  <2>1. CASE Take(m) /\ UNCHANGED refused
    BY <2>1, ObjectReaderAssumption DEF Take, IInv, TypeOK
  <2>2. CASE Lose(m) /\ refused'
    BY <2>2, ObjectReaderAssumption
    DEF Lose, IInv, TypeOK, Read1NotBytes, Read1WrongSize
  <2> QED  BY <1>2, <2>1, <2>2
<1>4. /\ error' = "value"
      /\ UNCHANGED <<retval, bytes, dst, localVars, bufferVars, loadVars>>
      /\ pc' = "failed" /\ odd' = TRUE /\ UNCHANGED exception_is_external
      /\ pc = "read1" /\ owned' = owned \cup {Fresh}
  BY DEF Read1NotBytes, Read1WrongSize, Leak, GiveUp
<1>5. TypeOK'
  BY <1>1, <1>3, <1>4 DEF IInv, TypeOK, localVars, bufferVars, loadVars
<1>6. (Pointers /\ Progressed /\ ExactBytes /\ Accounting)'
  BY <1>4 DEF IInv, Pointers, HeldIsOwned, Progressed, ExactBytes, Accounting
<1>7. Counting'
  <2>1. /\ pos = start + read_count
        /\ pos \in Int /\ start \in Int /\ read_count \in Int
    BY <1>4 DEF IInv, TypeOK, Counting
  <2>2. pos' \in Int /\ read_count' \in Int
    BY <1>3
  <2>3. refused' \/ pos' = start + read_count'
    <3>1. ASSUME pos' = pos + m, read_count' = read_count + m
          PROVE  pos' = start + read_count'
      BY <2>1, <2>2, <3>1
    <3> QED  BY <1>3, <3>1
  <2> QED
    BY <1>4, <2>3 DEF Counting, EOFErrorTakesNothing, loadVars
<1> QED  BY <1>5, <1>6, <1>7 DEF IInv

(* Everything was read at once. *)
LEMMA ReadAllStep == IInv /\ ReadAll => IInv'
<1> SUFFICES ASSUME IInv, ReadAll PROVE IInv'
  OBVIOUS
<1>1. Fresh \in Addresses /\ Fresh \notin owned /\ Fresh # NULL
  BY FreshIsNew DEF IInv, TypeOK, ReadAll
<1>2. /\ pos \in Nat /\ read_count \in Nat /\ start \in Nat /\ len \in Nat
      /\ len \in 0 .. MaxLen /\ pos = start + read_count /\ start <= pos
  BY ObjectReaderAssumption DEF IInv, TypeOK, Counting, ReadAll
<1>3. /\ pos' = pos + len /\ pos' \in 0 .. StreamLen
      /\ read_count' = read_count + len
  BY <1>2, ObjectReaderAssumption DEF ReadAll, Take
<1>4. /\ text' = [i \in 1 .. len |-> pos + i] /\ pc' = "held"
      /\ retval' = Fresh /\ bytes' = Fresh /\ dst' = NULL /\ buffer' = Fresh
      /\ owned' = owned \cup {Fresh} /\ opos' = 0
      /\ UNCHANGED <<exception_is_external, len, rtotal, loads, start, error>>
      /\ UNCHANGED <<odd, refused>>
  BY DEF ReadAll, Keep, loadVars
<1>5. TypeOK'
  <2>1. text' \in Seq(0 .. StreamLen)
    <3>1. ASSUME NEW i \in 1 .. len PROVE pos + i \in 0 .. StreamLen
      <4>1. pos + len <= StreamLen /\ StreamLen \in Nat
        BY ObjectReaderAssumption DEF ReadAll, Take
      <4> QED  BY <1>2, <4>1
    <3> QED  BY <1>2, <1>4, <3>1
  <2>2. start' \in 0 .. pos' /\ read_count' \in Nat
    BY <1>2, <1>3, <1>4
  <2>3. len' \in 0 .. MaxLen /\ rtotal' \in 0 .. len' /\ opos' \in 0 .. len'
    BY <1>2, <1>4 DEF IInv, TypeOK
  <2> QED
    BY <1>1, <1>3, <1>4, <2>1, <2>2, <2>3 DEF IInv, TypeOK
<1>6. (Pointers /\ Progressed)'
  BY <1>1, <1>4 DEF Pointers, HeldIsOwned, Progressed
<1>7. ExactBytes'
  BY <1>2, <1>3, <1>4 DEF ExactBytes
<1>8. Counting'
  BY <1>2, <1>3, <1>4 DEF IInv, Counting, EOFErrorTakesNothing, ReadAll
<1>9. Accounting'
  <2>1. ~odd => dst = NULL /\ owned = {}
    BY DEF IInv, Accounting, Pointers, ReadAll
  <2> QED  BY <1>1, <1>4, <2>1 DEF Accounting
<1> QED  BY <1>5, <1>6, <1>7, <1>8, <1>9 DEF IInv

(* A part was read and copied. *)
LEMMA ReadSomeStep == ASSUME NEW m \in 0 .. MaxLen PROVE IInv /\ ReadSome(m) => IInv'
<1> SUFFICES ASSUME IInv, ReadSome(m) PROVE IInv'
  OBVIOUS
<1> DEFINE old == IF dst = NULL THEN [i \in 1 .. len |-> 0] ELSE text
<1>1. /\ pos \in Nat /\ read_count \in Nat /\ start \in Nat /\ len \in Nat
      /\ rtotal \in Nat /\ m \in Nat /\ StreamLen \in Nat
      /\ len \in 0 .. MaxLen /\ pos = start + read_count /\ start <= pos
      /\ opos = rtotal /\ rtotal <= pos /\ rtotal <= len
      /\ rtotal < len \/ len = 0
  BY ObjectReaderAssumption
  DEF IInv, TypeOK, Counting, Progressed, ReadSome
<1>2. /\ pc = "read" /\ m <= len - rtotal /\ m # len
      /\ pos' = pos + m /\ pos' <= StreamLen /\ read_count' = read_count + m
      /\ opos' = opos + m /\ rtotal' = rtotal + m /\ odd' = (odd \/ m = 0)
      /\ UNCHANGED <<retval, bytes, exception_is_external, len, loads, start, error>>
      /\ UNCHANGED refused
  BY DEF ReadSome, Missing, Take, Advance, Total, loadVars
<1>3. len > 0 /\ rtotal < len /\ rtotal' <= len
  BY <1>1, <1>2
<1>4. /\ dst' \in Addresses /\ dst' # NULL /\ dst' \in owned'
      /\ dst = NULL => dst' \notin owned /\ owned' = owned \cup {dst'}
      /\ dst # NULL => dst' = dst /\ owned' = owned
      /\ owned' \subseteq Addresses
  <2>1. CASE dst = NULL
    <3>1. owned # Addresses /\ dst' = Fresh /\ owned' = owned \cup {Fresh}
      BY <2>1 DEF ReadSome
    <3> QED  BY <2>1, <3>1, FreshIsNew DEF IInv, TypeOK
  <2>2. CASE dst # NULL
    BY <1>2, <2>2 DEF ReadSome, IInv, TypeOK, Pointers
  <2> QED  BY <2>1, <2>2
<1>5. text' = [i \in 1 .. len |-> IF i \in opos + 1 .. opos + m
                                  THEN pos + i - opos ELSE old[i]]
  BY DEF ReadSome
<1>6. old \in [1 .. len -> 0 .. StreamLen]
  BY <1>1, <1>2 DEF IInv, Progressed
<1>7. text' \in [1 .. len -> 0 .. StreamLen]
  <2>1. ASSUME NEW i \in 1 .. len, i \in opos + 1 .. opos + m
        PROVE  pos + i - opos \in 0 .. StreamLen
    BY <1>1, <1>2, <2>1
  <2> QED  BY <1>5, <1>6, <2>1
<1>8. \A i \in 1 .. rtotal' : text'[i] = pos' - rtotal' + i
  <2> SUFFICES ASSUME NEW i \in 1 .. rtotal' PROVE text'[i] = pos' - rtotal' + i
    OBVIOUS
  <2>1. i \in 1 .. len /\ pos' - rtotal' = pos - rtotal
    BY <1>1, <1>2, <1>3
  <2>2. CASE i \in opos + 1 .. opos + m
    BY <1>1, <1>5, <2>1, <2>2
  <2>3. CASE i \notin opos + 1 .. opos + m
    <3>1. i \in 1 .. rtotal
      BY <1>1, <1>2, <2>3
    <3>2. dst # NULL /\ text[i] = pos - rtotal + i
      BY <1>1, <1>2, <3>1 DEF IInv, Progressed
    <3>3. text'[i] = text[i]
      BY <1>5, <2>1, <2>3, <3>2
    <3> QED  BY <2>1, <3>2, <3>3
  <2> QED  BY <2>2, <2>3
<1> HIDE DEF old
<1>9. /\ rtotal' < len => pc' = "read" /\ UNCHANGED buffer
      /\ ~(rtotal' < len) => pc' = "held" /\ buffer' = dst'
  BY DEF ReadSome
<1>10. TypeOK'
  <2>1. text' \in Seq(0 .. StreamLen)
    BY <1>1, <1>7
  <2>2. /\ start' \in 0 .. pos' /\ read_count' \in Nat /\ pos' \in 0 .. StreamLen
        /\ len' \in 0 .. MaxLen /\ rtotal' \in 0 .. len' /\ opos' \in 0 .. len'
    BY <1>1, <1>2, <1>3
  <2>3. buffer' \in Addresses \cup {NULL} /\ pc' \in {"read", "held"}
    BY <1>4, <1>9 DEF IInv, TypeOK
  <2>4. odd' \in BOOLEAN
    BY <1>2 DEF IInv, TypeOK
  <2> QED
    BY <1>2, <1>4, <2>1, <2>2, <2>3, <2>4 DEF IInv, TypeOK
<1>11. Pointers'
  BY <1>2, <1>4, <1>9 DEF IInv, Pointers, HeldIsOwned
<1>12. Progressed'
  BY <1>1, <1>2, <1>3, <1>4, <1>7, <1>8, <1>9 DEF Progressed
<1>13. ExactBytes'
  <2> SUFFICES ASSUME pc' = "held" PROVE text' = [i \in 1 .. len |-> pos' - len + i]
    BY <1>2 DEF ExactBytes
  <2>1. rtotal' = len
    BY <1>1, <1>2, <1>3, <1>9
  <2> QED  BY <1>7, <1>8, <2>1
<1>14. Counting'
  BY <1>1, <1>2, <1>9 DEF IInv, Counting, EOFErrorTakesNothing
<1>15. Accounting'
  <2>1. ASSUME ~odd' PROVE owned' = {retval', dst'} \ {NULL}
    <3>1. retval = NULL /\ owned = {NULL, dst} \ {NULL}
      BY <1>2, <2>1 DEF IInv, Accounting, Pointers
    <3>2. CASE dst = NULL
      BY <1>2, <1>4, <3>1, <3>2
    <3>3. CASE dst # NULL
      BY <1>2, <1>4, <3>1, <3>3
    <3> QED  BY <3>2, <3>3
  <2>2. ASSUME rtotal' = 0 PROVE odd'
    <3>1. m = 0
      BY <1>1, <1>2, <2>2
    <3> QED  BY <1>2, <3>1, Zenon
  <2> QED  BY <2>1, <2>2 DEF Accounting
<1> QED  BY <1>10, <1>11, <1>12, <1>13, <1>14, <1>15 DEF IInv

LEMMA StutterHolds == IInv /\ UNCHANGED vars => IInv'
BY DEF vars, thizVars, localVars, bufferVars, loadVars, IInv, TypeOK, Pointers,
   HeldIsOwned, Progressed, ExactBytes, Counting, EOFErrorTakesNothing,
   Accounting

LEMMA NextHolds == IInv /\ [Next]_vars => IInv'
<1> SUFFICES ASSUME IInv, [Next]_vars PROVE IInv'
  OBVIOUS
<1>1. CASE Reading
  <2>1. CASE \E m \in 0 .. MaxLen : ReadSome(m)
    BY <2>1, ReadSomeStep
  <2>2. CASE ReadRaises \/ ReadNotBytes \/ ReadTooMuch \/ ReadZero \/ ReadAll
    BY <2>2, ReadRaisesStep, ReadNotBytesStep, ReadTooMuchStep, ReadZeroStep,
       ReadAllStep
  <2>3. CASE Read1Byte \/ Read1Raises \/ Read1NotBytes \/ Read1WrongSize
    BY <2>3, Read1ByteStep, Read1RaisesStep, Read1FailsStep
  <2> QED  BY <1>1, <2>1, <2>2, <2>3 DEF Reading
<1>2. CASE Decoding
  <2>1. CASE \E n \in 0 .. MaxLen : Read(n)
    BY <2>1, ReadStep
  <2>2. CASE NewObjectReader \/ Read1 \/ ReturnBuffer
    BY <2>2, NewObjectReaderStep, Read1Step, ReturnBufferStep
  <2>3. CASE DecodeFails \/ LoadReturns \/ LoadRaises
    BY <2>3, DecodeFailsStep, LoadReturnsStep, LoadRaisesStep
  <2> QED  BY <1>2, <2>1, <2>2, <2>3 DEF Decoding
<1>3. CASE UNCHANGED vars
  BY <1>3, StutterHolds
<1> QED  BY <1>1, <1>2, <1>3 DEF Next

LEMMA Invariance == Spec => []IInv
<1> QED  BY InitHolds, NextHolds, PTL DEF Spec

-----------------------------------------------------------------------------
(* Theorems *)

(* Every variable of the reader keeps its type: no count leaves its range, *)
(* and only addresses of the heap are stored and released.                 *)
THEOREM ReaderTypeCorrect == Spec => []TypeOK
<1>1. IInv => TypeOK
  BY DEF IInv
<1> QED  BY <1>1, Invariance, PTL

(* Whatever the pieces in which ob.read() delivers a read of len bytes,    *)
(* ObjectReader_read returns exactly the next len bytes of the stream.     *)
THEOREM ExactlyTheNextBytes == Spec => []ExactBytes
<1>1. IInv => ExactBytes
  BY DEF IInv
<1> QED  BY <1>1, Invariance, PTL

(* The buffer that the decoder works on is in use, and it is released as   *)
(* what it is: the bytes of an object or an allocation.                    *)
THEOREM OneBufferAtATime == Spec => []HeldIsOwned
<1>1. IInv => HeldIsOwned
  BY DEF IInv, Pointers
<1> QED  BY <1>1, Invariance, PTL

(* The asserts of ObjectReader_read hold: no buffer of an earlier request  *)
(* is left when ObjectReader_read or ObjectReader_read1 starts.            *)
THEOREM NoBufferLeft == Spec => []NothingHeld
<1>1. IInv => NothingHeld
  BY DEF IInv, Pointers, NothingHeld
<1> QED  BY <1>1, Invariance, PTL

(* When cbor_load() replaces the exception by an EOFError, nothing has     *)
(* been taken from the stream in this load, though other bytes may have    *)
(* been lost to a read that raised, unless ob returned something that is   *)
(* not of bytes.                                                           *)
THEOREM EOFErrorIsClean == Spec => []EOFErrorTakesNothing
<1>1. IInv => EOFErrorTakesNothing
  BY DEF IInv, Counting
<1> QED  BY <1>1, Invariance, PTL

(* After ObjectReader_delete nothing that the reader has made is left,     *)
(* unless a read of ob was empty or a read1 failed.                        *)
THEOREM ReleasedAtTheEnd == Spec => []Released
<1>1. IInv => Released
  BY DEF IInv, Accounting, Pointers, Released
<1> QED  BY <1>1, Invariance, PTL

-----------------------------------------------------------------------------
(* ObjectReader implements Reader *)

LEMMA InitContract == Init => Contract!Init
BY DEF Init, Contract!Init

LEMMA OpenContract == IInv /\ NewObjectReader => Contract!Next
BY DEF NewObjectReader, localVars, Contract!Next, Contract!Open, Contract!Step

LEMMA AskContract ==
  ASSUME NEW n \in 0 .. MaxLen, IInv, Read(n) PROVE Contract!Next
<1>1. pos - 0 = pos
  BY DEF IInv, TypeOK
<1>2. Contract!Ask(n)
  BY <1>1 DEF Read, Contract!Ask, Contract!Step
<1> QED  BY <1>2 DEF Contract!Next

LEMMA Ask1Contract == Read1 => Contract!Next
BY DEF Read1, localVars, Contract!Next, Contract!Ask1, Contract!Step

LEMMA ReturnContract == ReturnBuffer => Contract!Next
BY DEF ReturnBuffer, localVars, Contract!Next, Contract!Return, Contract!Step

LEMMA CloseContract == IInv /\ (LoadReturns \/ LoadRaises) => Contract!Next
BY DEF LoadReturns, LoadRaises, localVars, Contract!Next, Contract!Close,
   Contract!Step

LEMMA Give1Contract == Read1Byte => Contract!Next
BY DEF Read1Byte, Take, localVars, Contract!Next, Contract!Give1, Contract!Step

(* A step in which the reader or the decoder gives up. *)
LEMMA FailContract ==
  ASSUME IInv, pc \in {"ready", "read", "read1"}, pc' = "failed",
         pos' \in Nat, pos <= pos', len' = len
  PROVE  Contract!Next
<1> DEFINE taken == IF pc = "read" THEN pos - rtotal ELSE pos
<1>1. pos \in Nat /\ rtotal \in Nat
  BY DEF IInv, TypeOK
<1>2. taken <= pos'
  BY <1>1
<1>3. Contract!Fail
  BY <1>2 DEF Contract!Fail, Contract!Step
<1> QED  BY <1>3 DEF Contract!Next

LEMMA GiveUpContract ==
  ASSUME IInv,
         \/ ReadRaises \/ ReadNotBytes \/ ReadTooMuch \/ ReadZero
         \/ Read1Raises \/ Read1NotBytes \/ Read1WrongSize \/ DecodeFails
  PROVE  Contract!Next
<1>1. pos \in Nat /\ Missing \in Int
  BY DEF IInv, TypeOK, Missing
<1>2. \/ pos' = pos \/ (pos' = pos + (Missing + 1) /\ Missing > 0)
      \/ \E m \in Nat : pos' = pos + m
  <2>1. CASE ReadRaises \/ ReadNotBytes \/ Read1Raises \/ Read1NotBytes
    BY <2>1 DEF ReadRaises, ReadNotBytes, Read1Raises, Read1NotBytes, Lose
  <2>2. CASE Read1WrongSize
    BY <2>2 DEF Read1WrongSize, Take
  <2>3. CASE ReadTooMuch \/ ReadZero \/ DecodeFails
    BY <2>3 DEF ReadTooMuch, ReadZero, DecodeFails, Take
  <2> QED  BY <2>1, <2>2, <2>3
<1>3. pos' \in Nat /\ pos <= pos'
  BY <1>1, <1>2
<1>4. pc \in {"ready", "read", "read1"} /\ pc' = "failed" /\ len' = len
  BY DEF ReadRaises, ReadNotBytes, ReadTooMuch, ReadZero, Read1Raises,
         Read1NotBytes, Read1WrongSize, DecodeFails, GiveUp, localVars
<1> QED  BY <1>3, <1>4, FailContract

(* The whole read is handed over at once, and not a byte before. *)
LEMMA ReadAllContract == IInv /\ ReadAll => Contract!Next
<1> SUFFICES ASSUME IInv, ReadAll PROVE Contract!Give
  BY DEF Contract!Next
<1>1. pos \in Nat /\ len \in Nat
  BY DEF IInv, TypeOK
<1> QED  BY <1>1 DEF ReadAll, Take, Contract!Give, Contract!Step

LEMMA ReadSomeContract ==
  ASSUME NEW m \in 0 .. MaxLen, IInv, ReadSome(m)
  PROVE  Contract!Next \/ UNCHANGED Contract!vars
<1>1. /\ pos \in Nat /\ rtotal \in Nat /\ len \in Nat /\ m \in Nat
      /\ rtotal <= len
  BY ObjectReaderAssumption DEF IInv, TypeOK
<1>2. /\ pc = "read" /\ m <= len - rtotal /\ len' = len
      /\ pos' = pos + m /\ rtotal' = rtotal + m
  BY DEF ReadSome, Missing, Take, Total
<1>3. CASE rtotal' < len
  <2>1. pc' = "read"
    BY <1>3 DEF ReadSome
  <2>2. pos' - rtotal' = pos - rtotal
    BY <1>1, <1>2
  <2> QED  BY <1>2, <2>1, <2>2 DEF Contract!vars
<1>4. CASE ~(rtotal' < len)
  <2>1. pc' = "held"
    BY <1>4 DEF ReadSome
  <2>2. pos' = (pos - rtotal) + len
    BY <1>1, <1>2, <1>4
  <2>3. Contract!Give
    BY <1>2, <2>1, <2>2 DEF Contract!Give, Contract!Step
  <2> QED  BY <2>3 DEF Contract!Next
<1> QED  BY <1>3, <1>4

LEMMA NextContract == IInv /\ [Next]_vars => [Contract!Next]_(Contract!vars)
<1> SUFFICES ASSUME IInv, [Next]_vars
             PROVE  Contract!Next \/ UNCHANGED Contract!vars
  OBVIOUS
<1>1. CASE \E m \in 0 .. MaxLen : ReadSome(m)
  BY <1>1, ReadSomeContract
<1>2. CASE \E n \in 0 .. MaxLen : Read(n)
  BY <1>2, AskContract
<1>3. CASE ReadAll \/ Read1Byte \/ NewObjectReader \/ Read1 \/ ReturnBuffer
           \/ LoadReturns \/ LoadRaises
  BY <1>3, ReadAllContract, Give1Contract, OpenContract, Ask1Contract,
     ReturnContract, CloseContract
<1>4. CASE \/ ReadRaises \/ ReadNotBytes \/ ReadTooMuch \/ ReadZero
           \/ Read1Raises \/ Read1NotBytes \/ Read1WrongSize \/ DecodeFails
  BY <1>4, GiveUpContract
<1>5. CASE UNCHANGED vars
  BY <1>5 DEF vars, localVars, Contract!vars
<1> QED  BY <1>1, <1>2, <1>3, <1>4, <1>5 DEF Next, Reading, Decoding

(* A decoder on top of ObjectReader sees what Reader promises: buffers of  *)
(* exactly the length asked for, one at a time, and not a byte of the      *)
(* stream taken beyond them unless the load fails.                         *)
THEOREM ObjectReaderKeepsContract == Spec => KeepsContract
<1> QED  BY Invariance, InitContract, NextContract, PTL
         DEF Spec, KeepsContract, Contract!Spec
=============================================================================
