------------------------------- MODULE Reader -------------------------------
(***************************************************************************)
(* What the READER_FUNCTIONS of c/cbormodule.c promise a decoder: read     *)
(* hands over a buffer with the next len bytes of the stream and read1 the *)
(* next byte, or the load fails; a buffer is returned before the next      *)
(* request; and a load takes no byte of the stream that it does not hand   *)
(* over, unless it fails.                                                  *)
(***************************************************************************)
EXTENDS Integers

CONSTANT MaxLen  \* the longest read

VARIABLES
  phase,  \* "closed", "ready", "read", "read1", "held" or "failed"
  want,   \* bytes asked for by the last read
  taken   \* bytes of the stream that are gone

vars == <<phase, want, taken>>

Init == phase = "closed" /\ want = 0 /\ taken = 0

Step(from, to) == phase = from /\ phase' = to

Open   == Step("closed", "ready") /\ UNCHANGED <<want, taken>>
Ask(n) == Step("ready", "read") /\ want' = n /\ UNCHANGED taken
Ask1   == Step("ready", "read1") /\ UNCHANGED <<want, taken>>
Give   == Step("read", "held") /\ taken' = taken + want /\ UNCHANGED want
Give1  == Step("read1", "ready") /\ taken' = taken + 1 /\ UNCHANGED want
Return == Step("held", "ready") /\ UNCHANGED <<want, taken>>

Fail ==
  /\ \E from \in {"ready", "read", "read1"} : Step(from, "failed")
  /\ taken' \in Nat /\ taken' >= taken
  /\ UNCHANGED want

Close ==
  /\ \E from \in {"ready", "failed"} : Step(from, "closed")
  /\ UNCHANGED <<want, taken>>

Next ==
  \/ Open \/ Ask1 \/ Give \/ Give1 \/ Return \/ Fail \/ Close
  \/ \E n \in 0 .. MaxLen : Ask(n)

Spec == Init /\ [][Next]_vars
=============================================================================
