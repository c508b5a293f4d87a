----------------------------- MODULE FileReader ------------------------------
(***************************************************************************)
(* The FileReader of c/cbormodule.c, with which cbor.load() reads from a   *)
(* built-in file of Python 2, and the end of cbor_load() for it.           *)
(*                                                                         *)
(* As in ObjectReader the decoder makes any requests it likes, and bytes   *)
(* are told apart by their position in the file, counted from 1.           *)
(***************************************************************************)
EXTENDS Integers, Sequences

CONSTANTS
  StreamLen,  \* bytes in the file
  MaxLen,     \* bound: the longest read(n)
  MaxLoads,   \* bound: calls of cbor.load()
  Big, Little \* 128 * 1024 and 4096: when a buffer is too big to be kept

ASSUME FileReaderAssumption ==
  /\ StreamLen \in Nat /\ MaxLen \in Nat /\ MaxLoads \in Nat
  /\ Big \in Nat /\ Little \in Nat

VARIABLES
  dst, dst_size, read_count,  \* of FileReader
  text,                       \* the positions of the bytes at dst, 0: none
  blocks,                     \* blocks of memory in use
  len, rtotal,                \* locals of FileReader_read
  want,                       \* the len it was called with
  pc,                         \* the function that runs; "ready" in the decoder
  error,                      \* the exception of this load
  pos, feof,                  \* of the FILE: its position, its flag
  loads, start, cut           \* history

dstVars   == <<dst, dst_size, text, blocks>>
localVars == <<len, rtotal, want>>
fileVars  == <<pos, feof, read_count>>
loadVars  == <<loads, start>>
vars == <<dstVars, localVars, fileVars, loadVars, pc, error, cut>>

Init ==
  /\ dst = "NULL" /\ dst_size = 0 /\ text = << >> /\ blocks = 0
  /\ len = 0 /\ rtotal = 0 /\ want = 0
  /\ pc = "closed" /\ error = "none"
  /\ pos = 0 /\ feof = FALSE /\ read_count = 0
  /\ loads = 0 /\ start = 0 /\ cut = FALSE

NewFileReader ==
  /\ pc = "closed" /\ loads < MaxLoads
  /\ pc' = "ready"
  /\ dst' = "NULL" /\ dst_size' = 0 /\ text' = << >> /\ read_count' = 0
  /\ error' = "none" /\ loads' = loads + 1 /\ start' = pos /\ cut' = FALSE
  /\ UNCHANGED <<blocks, localVars, pos, feof>>

-----------------------------------------------------------------------------
(* FileReader_read *)

AnyBlock == 1  \* mutant of Block

Block == IF dst = "NULL" THEN 0 ELSE 1  \* what PyMem_Free(dst) frees

(* n places, of which the first have the contents of text. *)
Places(n, old) == [i \in 1 .. n |-> IF i <= Len(old) THEN old[i] ELSE 0]

GrowsOnce(n) == n > dst_size /\ dst = "NULL"  \* mutant of TooSmall

TooSmall(n) == n > dst_size

TooBig(n) == dst_size > Big /\ n < Little

(* The block is reallocated if it is too small, and made anew if it is     *)
(* far too big.                                                            *)
Resize(n) ==
  IF TooSmall(n) \/ TooBig(n)
  THEN /\ dst' = "block" /\ dst_size' = n
       /\ blocks' = blocks + 1 - Block
       /\ text' = Places(n, IF TooSmall(n) THEN text ELSE << >>)
  ELSE UNCHANGED dstVars

KeepsTotal == rtotal' = rtotal  \* mutant of NoTotal

NoTotal == rtotal' = 0

Read(n) ==
  /\ pc = "ready" /\ read_count > 0
  /\ pc' = "read" /\ len' = n /\ want' = n /\ NoTotal
  /\ Resize(n)
  /\ UNCHANGED <<fileVars, loadVars, error, cut>>

(* fread(): m bytes of the file.  Fewer than n are all it has, or reading  *)
(* failed after them.                                                      *)
Fread(m, n) ==
  /\ m <= n /\ pos + m <= StreamLen
  /\ pos' = pos + m
  /\ feof' = (feof \/ (m < n /\ pos + m = StreamLen))
  /\ read_count' = read_count + m
  /\ cut' = (cut \/ (m < n /\ (m > 0 \/ pos < StreamLen)))

Anything(total, missing) == TRUE  \* mutant of Enough

(* rtotal >= len, where len is what is still missing. *)
Enough(total, missing) == total >= missing

ReadSome(m) ==
  /\ pc = "read" /\ m > 0
  /\ Fread(m, len)
  /\ text' = [i \in 1 .. Len(text) |-> IF i \in rtotal + 1 .. rtotal + m
                                      THEN pos + i - rtotal ELSE text[i]]
  /\ rtotal' = rtotal + m /\ len' = len - m
  /\ pc' = IF Enough(rtotal + m, len - m) THEN "held" ELSE "read"
  /\ UNCHANGED <<dst, dst_size, blocks, want, loadVars, error>>

Fail ==
  /\ pc' = "failed" /\ error' = "value"
  /\ UNCHANGED <<localVars, loadVars>>

ForgetsSize == dst_size' = dst_size  \* mutant of NoSize

NoSize == dst_size' = 0

(* Mutant of ReadNothing: it is tried again. *)
ReadsAgain ==
  /\ pc = "read"
  /\ Fread(0, len)
  /\ UNCHANGED <<dstVars, localVars, loadVars, pc, error>>

(* fread() gives nothing, which it always does when asked for nothing.     *)
ReadNothing ==
  /\ pc = "read"
  /\ Fread(0, len)
  /\ dst' = "NULL" /\ text' = << >> /\ blocks' = blocks - Block
  /\ NoSize
  /\ Fail

-----------------------------------------------------------------------------
(* FileReader_read1 *)

Read1 ==
  /\ pc = "ready"
  /\ pc' = "read1"
  /\ UNCHANGED <<dstVars, localVars, fileVars, loadVars, error, cut>>

Read1Byte ==
  /\ pc = "read1"
  /\ Fread(1, 1)
  /\ pc' = "ready"
  /\ UNCHANGED <<dstVars, localVars, loadVars, error>>

Read1Nothing ==
  /\ pc = "read1"
  /\ Fread(0, 1)
  /\ Fail
  /\ UNCHANGED dstVars

-----------------------------------------------------------------------------
(* The decoder and cbor_load *)

(* FileReader_return_buffer: the block is kept for the next read. *)
ReturnBuffer ==
  /\ pc = "held"
  /\ pc' = "ready"
  /\ UNCHANGED <<dstVars, localVars, fileVars, loadVars, error, cut>>

(* The decoder refuses what it has read. *)
DecodeFails ==
  /\ pc = "ready" /\ read_count > 0
  /\ Fail
  /\ UNCHANGED <<dstVars, fileVars, cut>>

NotFreed == UNCHANGED dstVars  \* mutant of Delete

(* FileReader_delete *)
Delete ==
  /\ blocks' = blocks - Block
  /\ dst' = "NULL" /\ dst_size' = 0 /\ text' = << >>

LoadReturns ==
  /\ pc = "ready" /\ read_count > 0
  /\ Delete
  /\ pc' = "closed"
  /\ UNCHANGED <<localVars, fileVars, loadVars, error, cut>>

AtEnd == feof  \* mutant of StartedAtEnd

(* "never got anything, started at EOF" *)
StartedAtEnd == read_count = 0 /\ feof

LoadRaises ==
  /\ pc = "failed"
  /\ error' = IF StartedAtEnd THEN "eof" ELSE error
  /\ Delete
  /\ pc' = "closed"
  /\ UNCHANGED <<localVars, fileVars, loadVars, cut>>

-----------------------------------------------------------------------------

Reading == ReadNothing \/ \E m \in 1 .. MaxLen : ReadSome(m)

Next ==
  \/ Reading \/ Read1Byte \/ Read1Nothing
  \/ NewFileReader \/ Read1 \/ \E n \in 0 .. MaxLen : Read(n)
  \/ ReturnBuffer \/ DecodeFails \/ LoadReturns \/ LoadRaises

Spec == Init /\ [][Next]_vars

(* fread() returns. *)
FairSpec == Spec /\ WF_vars(Reading)

-----------------------------------------------------------------------------
(* Properties *)

(* The variables have their types, and nothing is freed twice. *)
TypeOK ==
  /\ dst \in {"NULL", "block"} /\ blocks \in Nat /\ dst_size \in 0 .. MaxLen
  /\ text \in Seq(0 .. StreamLen)
  /\ {len, rtotal, want} \subseteq 0 .. MaxLen
  /\ pc \in {"closed", "ready", "read", "read1", "held", "failed"}
  /\ error \in {"none", "value", "eof"}
  /\ pos \in 0 .. StreamLen /\ start \in 0 .. pos /\ read_count \in Nat
  /\ loads \in 0 .. MaxLoads /\ feof \in BOOLEAN /\ cut \in BOOLEAN

(* FileReader_read never writes past its block, which it resizes from one  *)
(* request to the next: what is read and what is missing are what was      *)
(* asked for, and fit the size that the block has.  The "known error", a   *)
(* buffer that is NULL, cannot be met.                                     *)
FitsTheBlock ==
  /\ Len(text) = dst_size
  /\ pc = "read" => rtotal + len = want /\ want <= dst_size
  /\ pc = "held" => dst = "block"

Bytes(n) == [i \in 1 .. n |-> pos - n + i]

(* A buffer that is handed to the decoder holds the bytes of the file from *)
(* where the last request ended, and all of them unless fread() gave less  *)
(* than it was asked for; then at least half of them, and the rest is what *)
(* earlier requests have left there.                                       *)
GoesOn ==
  pc = "held" => /\ SubSeq(text, 1, rtotal) = Bytes(rtotal)
                 /\ 2 * rtotal >= want
                 /\ ~cut => rtotal = want

(* EOFError tells the caller of load() that the file ended between two     *)
(* items: it was at its end and not a byte has been taken; and it is told  *)
(* so whenever that is the case (cbor_load).                               *)
EOFErrorAtTheEnd ==
  pc = "closed" /\ loads > 0 =>
    /\ error = "eof" => pos = start /\ pos = StreamLen
    /\ start = StreamLen /\ ~cut => error = "eof"

(* At most one block is in use, and none when a load is over, although the *)
(* block is replaced, freed by a failing read, and freed by delete.        *)
OneBlock == blocks = Block /\ (pc = "closed" => blocks = 0)

(* As long as fread() gives what it is asked for, FileReader keeps the     *)
(* contract of Reader.                                                     *)
Contract ==
  INSTANCE Reader WITH
    phase <- pc,
    taken <- IF pc = "read" THEN pos - rtotal ELSE pos

KeepsContract == Contract!Init /\ [][~cut' => [Contract!Next]_(Contract!vars)]_vars

(* A read comes to an end, whatever the file gives: every turn of the loop *)
(* gets something or ends it.                                              *)
ReadEnds == pc = "read" ~> pc # "read"

(* "read len bytes and return in buffer, or NULL on error": a file that    *)
(* ends in the middle of an item makes the read fail.                      *)
ExactBytes == pc = "held" /\ feof => SubSeq(text, 1, want) = Bytes(want)
=============================================================================
