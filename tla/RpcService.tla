----------------------------- MODULE RpcService -----------------------------
(***************************************************************************)
(* What CborRpcClient promises its caller: one call at a time, each of     *)
(* which ends in an answer or an exception.  The server may run a call     *)
(* once for each of the Retries + 1 times the client tries it, also after  *)
(* the call has ended, but an answer is given only to a call that did run, *)
(* unless an earlier call, that was raised or took a part of its answer    *)
(* only, left something in the connection.                                 *)
(***************************************************************************)
EXTENDS Integers

CONSTANTS Retries, MaxCalls

VARIABLES
  calls,   \* calls made so far; the last of them is the current one
  runs,    \* the tries of each call that the server has executed
  outcome, \* of the current call
  left,    \* it runs on a connection with something left in it
  cut      \* it took a part of its answer only

vars == <<calls, runs, outcome, left, cut>>

Ids   == 1 .. MaxCalls
Tries == 0 .. Retries

Init ==
  /\ calls = 0 /\ runs = [i \in Ids |-> {}] /\ outcome = "none"
  /\ left = FALSE /\ cut = FALSE

(* The last call may have left something in the connection. *)
MayLeave == outcome \in {"failed", "interrupted"} \/ left \/ cut

Start ==
  /\ outcome # "pending" /\ calls < MaxCalls
  /\ calls' = calls + 1
  /\ outcome' \in {"pending", "unencodable"}
  /\ left' \in BOOLEAN /\ (left' => MayLeave)
  /\ cut' = FALSE
  /\ UNCHANGED runs

Run(i, t) ==
  /\ i <= calls /\ t \notin runs[i]
  /\ runs' = [runs EXCEPT ![i] = @ \cup {t}]
  /\ UNCHANGED <<calls, outcome, left, cut>>

(* The call goes on with a connection of its own. *)
Reconnect ==
  /\ outcome = "pending"
  /\ left' = FALSE
  /\ UNCHANGED <<calls, runs, outcome, cut>>

Answer ==
  /\ outcome = "pending" /\ (runs[calls] # {} \/ left)
  /\ outcome' \in {"result", "error"}
  /\ cut' \in BOOLEAN
  /\ UNCHANGED <<calls, runs, left>>

Raise ==
  /\ outcome = "pending"
  /\ outcome' \in {"failed", "interrupted"}
  /\ UNCHANGED <<calls, runs, left, cut>>

Next ==
  \/ Start \/ Reconnect \/ Answer \/ Raise
  \/ \E i \in Ids, t \in Tries : Run(i, t)

Spec == Init /\ [][Next]_vars
=============================================================================
