---------------------------- MODULE ObjectReader ----------------------------
(***************************************************************************)
(* The ObjectReader of c/cbormodule.c, with which cbor.load() reads from   *)
(* any Python object that has a read(n), and the end of cbor_load().       *)
(*                                                                         *)
(* The decoder that uses the reader makes any requests it likes: a first   *)
(* read1(), then any number of read(n), read1() and return_buffer().  The  *)
(* bytes of the stream are told apart by their position, counted from 1.   *)
(* An address stands for a reference or an allocation that the module has  *)
(* to give back.  The module is built with NDEBUG, as Python builds its    *)
(* extensions: an assert() does nothing.                                   *)
(***************************************************************************)
EXTENDS Integers, Sequences

CONSTANTS
  StreamLen,  \* bytes in the stream
  MaxLen,     \* bound: the longest read(n)
  MaxLoads,   \* bound: calls of cbor.load()
  HeapSize    \* bound: addresses

ASSUME ObjectReaderAssumption ==
  /\ StreamLen \in Nat /\ MaxLen \in Nat /\ MaxLoads \in Nat
  /\ HeapSize \in Nat

VARIABLES
  retval, bytes, dst, read_count, exception_is_external, \* of ObjectReader
  len, rtotal, opos,   \* locals of ObjectReader_read
  pc,                  \* the function that runs; "ready" in the decoder
  buffer,              \* what read() returned
  text,                \* the positions of the bytes stored there, 0: none
  error,               \* the exception of this load
  pos,                 \* how far ob has read its stream
  owned,               \* the addresses in use
  loads, start, odd, refused  \* history

thizVars   == <<retval, bytes, dst, read_count, exception_is_external>>
localVars  == <<len, rtotal, opos>>
bufferVars == <<buffer, text>>
loadVars   == <<loads, start>>
vars == <<thizVars, localVars, bufferVars, loadVars, pc, error, pos, owned, odd,
          refused>>

NULL == 0
Addresses == 1 .. HeapSize

TypeOK ==
  /\ {retval, bytes, dst, buffer} \subseteq Addresses \cup {NULL}
  /\ owned \subseteq Addresses
  /\ read_count \in Nat /\ pos \in 0 .. StreamLen /\ start \in 0 .. pos
  /\ len \in 0 .. MaxLen /\ rtotal \in 0 .. len /\ opos \in 0 .. len
  /\ pc \in {"closed", "ready", "read", "read1", "held", "failed"}
  /\ text \in Seq(0 .. StreamLen)
  /\ error \in {"none", "unset", "value", "external", "eof"}
  /\ loads \in 0 .. MaxLoads
  /\ {exception_is_external, odd, refused} \subseteq BOOLEAN

Init ==
  /\ retval = NULL /\ bytes = NULL /\ dst = NULL
  /\ read_count = 0 /\ exception_is_external = FALSE
  /\ len = 0 /\ rtotal = 0 /\ opos = 0
  /\ buffer = NULL /\ text = << >>
  /\ pc = "closed" /\ error = "none" /\ pos = 0 /\ owned = {}
  /\ loads = 0 /\ start = 0 /\ odd = FALSE /\ refused = FALSE

Fresh == CHOOSE a \in Addresses : a \notin owned

(* cbor_load makes a reader; whatever ob has read before is gone. *)
NewObjectReader ==
  /\ pc = "closed" /\ loads < MaxLoads
  /\ pc' = "ready"
  /\ retval' = NULL /\ bytes' = NULL /\ dst' = NULL
  /\ read_count' = 0 /\ exception_is_external' = FALSE
  /\ error' = "none" /\ loads' = loads + 1 /\ start' = pos /\ refused' = FALSE
  /\ UNCHANGED <<localVars, bufferVars, pos, owned, odd>>

-----------------------------------------------------------------------------
(* ObjectReader_read *)

Read(n) ==
  /\ pc = "ready" /\ read_count > 0
  /\ pc' = "read" /\ len' = n /\ rtotal' = 0 /\ opos' = 0
  /\ text' = << >>
  /\ UNCHANGED <<thizVars, buffer, loadVars, error, pos, owned, odd, refused>>

Overrun == len  \* mutant of Missing

Missing == len - rtotal

(* ob.read() returns m more bytes of its stream. *)
Take(m) ==
  /\ pos + m <= StreamLen
  /\ pos' = pos + m
  /\ read_count' = read_count + m

(* ob.read() raises, or returns something that is not of bytes: whatever   *)
(* it has taken from the stream by then is not counted.                    *)
Lose(m) ==
  /\ pos + m <= StreamLen
  /\ pos' = pos + m
  /\ UNCHANGED read_count

GiveUp(why) ==
  /\ pc' = "failed" /\ error' = why
  /\ UNCHANGED <<retval, bytes, dst, localVars, bufferVars, loadVars>>

ReadRaises ==
  /\ pc = "read" /\ Missing > 0
  /\ \E m \in 0 .. Missing : Lose(m)
  /\ exception_is_external' = TRUE
  /\ GiveUp("external")
  /\ UNCHANGED <<owned, odd, refused>>

ReadNotBytes ==
  /\ pc = "read" /\ Missing > 0
  /\ \E m \in 0 .. Missing : Lose(m)
  /\ GiveUp("value")
  /\ refused' = TRUE
  /\ UNCHANGED <<exception_is_external, owned, odd>>

ReadTooMuch ==
  /\ pc = "read" /\ Missing > 0
  /\ Take(Missing + 1)
  /\ GiveUp("value")
  /\ UNCHANGED <<exception_is_external, owned, odd, refused>>

ReleaseAtOnce(a) == UNCHANGED owned  \* mutant of Keep

(* A reference to the object is kept until return_buffer(). *)
Keep(a) == owned' = owned \cup {a}

(* All in one call to read(): its bytes object serves as the buffer. *)
ReadAll ==
  /\ pc = "read" /\ Missing > 0 /\ rtotal = 0 /\ owned # Addresses
  /\ Take(len)
  /\ Keep(Fresh)
  /\ retval' = Fresh /\ bytes' = Fresh /\ dst' = NULL
  /\ opos' = 0
  /\ buffer' = Fresh /\ text' = [i \in 1 .. len |-> pos + i]
  /\ pc' = "held"
  /\ UNCHANGED <<exception_is_external, len, rtotal, loadVars, error, odd,
                 refused>>

AlwaysAtFront(m) == opos' = 0  \* mutant of Advance

Advance(m) == opos' = opos + m

LastPiece(m) == rtotal' = m  \* mutant of Total

Total(m) == rtotal' = rtotal + m

(* A part of it, maybe nothing: copied to a buffer made at the first one.  *)
(* When the loop ends that buffer is returned.                             *)
ReadSome(m) ==
  /\ pc = "read" /\ m <= Missing /\ m # len
  /\ Take(m)
  /\ IF dst = NULL
     THEN owned # Addresses /\ dst' = Fresh /\ owned' = owned \cup {Fresh}
     ELSE UNCHANGED <<dst, owned>>
  /\ LET old == IF dst = NULL THEN [i \in 1 .. len |-> 0] ELSE text IN
       text' = [i \in 1 .. len |-> IF i \in opos + 1 .. opos + m
                                   THEN pos + i - opos ELSE old[i]]
  /\ Advance(m)
  /\ Total(m)
  /\ IF rtotal' < len
     THEN pc' = "read" /\ UNCHANGED buffer
     ELSE pc' = "held" /\ buffer' = dst'
  /\ odd' = (odd \/ m = 0)
  /\ UNCHANGED <<retval, bytes, exception_is_external, len, loadVars, error,
                 refused>>

(* read(0), for an empty chunk of a byte string: the loop does not run and *)
(* dst, which is NULL, is returned; no exception is set.                   *)
ReadZero ==
  /\ pc = "read" /\ Missing = 0
  /\ GiveUp("unset")
  /\ UNCHANGED <<read_count, exception_is_external, pos, owned, odd,
                 refused>>

-----------------------------------------------------------------------------
(* ObjectReader_read1 *)

Read1 ==
  /\ pc = "ready"
  /\ pc' = "read1"
  /\ UNCHANGED <<thizVars, localVars, bufferVars, loadVars, error, pos, owned,
                 odd, refused>>

Read1Byte ==
  /\ pc = "read1"
  /\ Take(1)
  /\ pc' = "ready"
  /\ UNCHANGED <<retval, bytes, dst, exception_is_external, localVars,
                 bufferVars, loadVars, error, owned, odd, refused>>

Read1Raises ==
  /\ pc = "read1"
  /\ \E m \in 0 .. 1 : Lose(m)
  /\ exception_is_external' = TRUE
  /\ GiveUp("external")
  /\ UNCHANGED <<owned, odd, refused>>

(* An object that is refused is never released. *)
Leak ==
  /\ owned # Addresses
  /\ owned' = owned \cup {Fresh}
  /\ odd' = TRUE

Read1NotBytes ==
  /\ pc = "read1"
  /\ \E m \in 0 .. 1 : Lose(m)
  /\ GiveUp("value")
  /\ Leak
  /\ refused' = TRUE
  /\ UNCHANGED exception_is_external

(* The object has no byte, or more than one. *)
Read1WrongSize ==
  /\ pc = "read1"
  /\ \E m \in {0, 2} : Take(m)
  /\ GiveUp("value")
  /\ Leak
  /\ UNCHANGED <<exception_is_external, refused>>

-----------------------------------------------------------------------------
(* The decoder and cbor_load *)

(* Mutant of ReturnBuffer: the pointer into the object stays. *)
ReturnKeepsPointer ==
  /\ pc = "held"
  /\ pc' = "ready"
  /\ owned' = owned \ {buffer}
  /\ retval' = IF buffer = retval THEN NULL ELSE retval
  /\ dst' = IF buffer = dst THEN NULL ELSE dst
  /\ UNCHANGED <<bytes, read_count, exception_is_external, localVars,
                 bufferVars, loadVars, error, pos, odd, refused>>

(* ObjectReader_return_buffer *)
ReturnBuffer ==
  /\ pc = "held"
  /\ pc' = "ready"
  /\ CASE buffer = bytes ->
            /\ owned' = owned \ {retval}
            /\ retval' = NULL /\ bytes' = NULL
            /\ UNCHANGED dst
       [] buffer # bytes /\ buffer = dst ->
            /\ owned' = owned \ {dst}
            /\ dst' = NULL
            /\ UNCHANGED <<retval, bytes>>
       [] OTHER -> UNCHANGED <<retval, bytes, dst, owned>>
  /\ UNCHANGED <<read_count, exception_is_external, localVars, bufferVars,
                 loadVars, error, pos, odd, refused>>

(* The decoder refuses what it has read. *)
DecodeFails ==
  /\ pc = "ready" /\ read_count > 0
  /\ GiveUp("value")
  /\ UNCHANGED <<read_count, exception_is_external, pos, owned, odd,
                 refused>>

DeleteForgets == UNCHANGED <<retval, bytes, dst, owned>>  \* mutant of Delete

(* ObjectReader_delete *)
Delete ==
  /\ owned' = owned \ {retval, dst}
  /\ retval' = NULL /\ bytes' = NULL /\ dst' = NULL

LoadReturns ==
  /\ pc = "ready" /\ read_count > 0
  /\ Delete
  /\ pc' = "closed"
  /\ UNCHANGED <<read_count, exception_is_external, localVars, bufferVars,
                 loadVars, error, pos, odd, refused>>

NothingCounted == read_count = 0  \* mutant of NeverGotAnything

(* "never got anything, assume EOF" *)
NeverGotAnything == read_count = 0 /\ ~exception_is_external

LoadRaises ==
  /\ pc = "failed"
  /\ error' = IF NeverGotAnything THEN "eof" ELSE error
  /\ Delete
  /\ pc' = "closed"
  /\ UNCHANGED <<read_count, exception_is_external, localVars, bufferVars,
                 loadVars, pos, odd, refused>>

-----------------------------------------------------------------------------

Reading ==
  \/ ReadRaises \/ ReadNotBytes \/ ReadTooMuch \/ ReadAll \/ ReadZero
  \/ \E m \in 0 .. MaxLen : ReadSome(m)
  \/ Read1Byte \/ Read1Raises \/ Read1NotBytes \/ Read1WrongSize

Decoding ==
  \/ NewObjectReader \/ Read1 \/ \E n \in 0 .. MaxLen : Read(n)
  \/ ReturnBuffer \/ DecodeFails \/ LoadReturns \/ LoadRaises

Next == Reading \/ Decoding

Spec == Init /\ [][Next]_vars

(* A read() of a stream that is not at its end gives something sooner or   *)
(* later: it may give nothing any number of times, but not for ever.       *)
Progress == ReadZero \/ ReadAll \/ \E m \in 1 .. MaxLen : ReadSome(m)

FairSpec == Spec /\ WF_vars(Progress)

-----------------------------------------------------------------------------
(* Properties *)

(* However a read was cut into pieces, the buffer that ObjectReader_read   *)
(* returns holds the len bytes that follow what was handed over before, in *)
(* order and without a gap, and no byte after them is gone from the stream.*)
ExactBytes == pc = "held" => text = [i \in 1 .. len |-> pos - len + i]

(* The buffer the decoder works on has not been released under it, and it  *)
(* is released in one way only: as an object or as an allocation           *)
(* (ObjectReader_read, ObjectReader_return_buffer).                        *)
HeldIsOwned ==
  pc = "held" => /\ buffer \in owned
                 /\ \/ retval = buffer /\ bytes = buffer /\ dst = NULL
                    \/ retval = NULL /\ bytes = NULL /\ dst = buffer

(* The two asserts ObjectReader_read starts with: no request finds a       *)
(* buffer of an earlier one still there.                                   *)
NothingHeld == pc \in {"ready", "read1"} => bytes = NULL /\ dst = NULL

(* EOFError tells the caller of load() that nothing was lost: not a byte   *)
(* of the stream has been taken, counted or not, unless ob returned        *)
(* something that is not of bytes (cbor_load, read_count and               *)
(* exception_is_external).                                                 *)
EOFErrorTakesNothing == error = "eof" /\ ~refused => pos = start

(* A load that is over, however it went, has given back every reference    *)
(* and allocation, as long as no read was empty and no read1 failed.  (An  *)
(* empty read followed by a full one loses the block made for the first.)  *)
Released == pc = "closed" /\ ~odd => owned = {}

(* ObjectReader keeps the contract of Reader. *)
Contract ==
  INSTANCE Reader WITH
    phase <- pc,
    want  <- len,
    taken <- IF pc = "read" THEN pos - rtotal ELSE pos

KeepsContract == Contract!Spec

(* A read(n) for bytes that the stream has comes to an end. *)
ReadEnds == (pc = "read" /\ pos + Missing <= StreamLen) ~> pc # "read"

(* "read len bytes and return in buffer, or NULL on error": a NULL comes   *)
(* with an exception.                                                      *)
NullIsError == error # "unset"
=============================================================================
