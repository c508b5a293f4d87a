------------------------------ MODULE RpcClient ------------------------------
(***************************************************************************)
(* CborRpcClient and SocketReader of cbor/cbor_rpc_client.py, together     *)
(* with the two things they talk to: a stream connection and a server.     *)
(*                                                                         *)
(* A reply is one head byte, which stands for everything cbor.load() reads *)
(* with read(1) and carries the id, followed by TailLen bytes, which stand *)
(* for one payload that cbor.load() asks for with a single read(TailLen).  *)
(* recv() hands over one byte at a time: a longer recv() is several of     *)
(* these steps with nothing in between.                                    *)
(*                                                                         *)
(* Each request is tagged with the try that sent it.  The tag is not on    *)
(* the wire, two tries of a call send the same bytes; no guard of the      *)
(* client reads it.                                                        *)
(***************************************************************************)
EXTENDS Integers, Sequences

CONSTANTS
  Retries,    \* config 'retries'
  BaseDelay,  \* config 'base_retry_seconds', in any unit of time
  TailLen,    \* bytes of a reply's payload
  Decoder,    \* the load() that cbor/__init__.py imported, "c" or "py"
  MaxCalls,   \* bound: calls of _rpc
  MaxConns    \* bound: connections made

ASSUME RpcAssumption ==
  /\ Retries \in Nat /\ MaxCalls \in Nat /\ MaxConns \in Nat
  /\ BaseDelay \in Nat \ {0} /\ TailLen \in Nat \ {0}
  /\ Decoder \in {"c", "py"}

VARIABLES
  socket, rfile, message_count,         \* fields of CborRpcClient
  pc, tryn, delay, response, got,       \* locals of _rpc and of load()
  conns, peer, up, down,                \* the connections, the server's end
  executed, outcome, slept, faulty, stale  \* history

clientVars  == <<socket, rfile, message_count>>
rpcVars     == <<pc, tryn, delay, response, got>>
networkVars == <<conns, peer, up, down>>
historyVars == <<executed, outcome, slept, faulty, stale>>
vars == <<clientVars, rpcVars, networkVars, historyVars>>

None  == 0
Ids   == 1 .. MaxCalls
Tries == 0 .. Retries
Conns == 1 .. MaxConns

Request == [id : Ids, try : Tries, whole : BOOLEAN]
\* at: the next byte to arrive, 1 being the head; last: where the reply ends
Bytes   == 1 .. TailLen + 1
Reply   == {r \in [id : Ids, try : Tries, kind : {"result", "error"},
                   at : Bytes, last : Bytes] : r.at <= r.last}

\* The answer of no try: a map that happened to stand inside a payload.
NoTry   == -1
Unread  == [id |-> None, try |-> NoTry, kind |-> "none"]

TypeOK ==
  /\ socket \in 0 .. conns /\ rfile \in 0 .. conns
  /\ message_count \in 0 .. MaxCalls
  /\ pc \in {"idle", "conn", "send", "head", "tail", "check", "except"}
  /\ tryn \in Tries /\ delay \in Nat /\ slept \in Nat
  /\ response \in [id : 0 .. MaxCalls, try : Tries \cup {NoTry},
                   kind : {"none", "result", "error"}]
  /\ got \in 0 .. TailLen
  /\ conns \in 0 .. MaxConns
  /\ peer \in [Conns -> {"new", "open", "fin", "rst", "shut"}]
  /\ up   \in [Conns -> Seq(Request)]
  /\ down \in [Conns -> Seq(Reply)]
  /\ executed \in [Ids \X Tries -> Nat]
  /\ outcome \in {"none", "pending", "result", "error", "failed",
                  "unencodable", "interrupted"}
  /\ faulty \in BOOLEAN /\ stale \in BOOLEAN

Init ==
  /\ socket = None /\ rfile = None /\ message_count = 0
  /\ pc = "idle" /\ tryn = 0 /\ delay = 0 /\ response = Unread /\ got = 0
  /\ conns = 0 /\ peer = [c \in Conns |-> "new"]
  /\ up = [c \in Conns |-> << >>] /\ down = [c \in Conns |-> << >>]
  /\ executed = [x \in Ids \X Tries |-> 0]
  /\ outcome = "none" /\ slept = 0 /\ faulty = FALSE
  /\ stale = FALSE

-----------------------------------------------------------------------------
(* The caller *)

(* Nothing is under way on the connection that the client holds. *)
Drained == socket # None => up[socket] = << >> /\ down[socket] = << >>

NextMessage ==
  /\ pc = "idle" /\ message_count < MaxCalls
  /\ message_count' = message_count + 1
  /\ stale' = ~Drained

(* _rpc up to its loop. *)
Call ==
  /\ NextMessage
  /\ pc' = "conn" /\ tryn' = 0 /\ delay' = BaseDelay
  /\ response' = Unread /\ got' = 0
  /\ outcome' = "pending" /\ slept' = 0 /\ faulty' = FALSE
  /\ UNCHANGED <<socket, rfile, networkVars, executed>>

(* cbor.dumps(message) raises; it is not inside the try. *)
CallUnencodable ==
  /\ NextMessage
  /\ outcome' = "unencodable" /\ slept' = 0 /\ faulty' = FALSE
  /\ UNCHANGED <<socket, rfile, rpcVars, networkVars, executed>>

(* KeyboardInterrupt and the other exceptions `except Exception` lets by. *)
Interrupt ==
  /\ pc # "idle"
  /\ pc' = "idle" /\ outcome' = "interrupted"
  /\ UNCHANGED <<clientVars, tryn, delay, response, got, networkVars,
                 executed, slept, faulty, stale>>

(* Mutants of CloseSocket: the reader survives; nothing is closed. *)
CloseKeepsReader ==
  IF socket = None
  THEN UNCHANGED <<socket, rfile, peer, down>>
  ELSE /\ socket' = None
       /\ peer' = [peer EXCEPT ![socket] = "shut"]
       /\ down' = [down EXCEPT ![socket] = << >>]
       /\ UNCHANGED rfile

CloseNothing == UNCHANGED <<socket, rfile, peer, down>>

(* close().  shutdown() raises on a connection that was reset, and the     *)
(* close() that follows it in the same try is then skipped: the connection *)
(* is as gone as it was, the descriptor waits for the garbage collector.   *)
CloseSocket ==
  IF socket = None
  THEN UNCHANGED <<socket, rfile, peer, down>>
  ELSE /\ socket' = None /\ rfile' = None
       /\ peer' = [peer EXCEPT ![socket] = "shut"]
       /\ down' = [down EXCEPT ![socket] = << >>]

Close ==
  /\ pc = "idle" /\ socket # None
  /\ CloseSocket
  /\ UNCHANGED <<message_count, rpcVars, conns, up, historyVars>>

-----------------------------------------------------------------------------
(* One try: _conn, send, load *)

(* _conn opens a socket lazily.  getsockname() may raise once _socket is   *)
(* already assigned.                                                       *)
Connect ==
  /\ pc = "conn"
  /\ \/ /\ socket # None
        /\ pc' = "send"
        /\ UNCHANGED <<socket, conns, peer, faulty>>
     \/ /\ socket = None /\ conns < MaxConns
        /\ conns' = conns + 1 /\ socket' = conns + 1
        /\ peer' = [peer EXCEPT ![conns + 1] = "open"]
        /\ \/ pc' = "send" /\ UNCHANGED faulty
           \/ pc' = "except" /\ faulty' = TRUE
  /\ UNCHANGED <<rfile, message_count, tryn, delay, response, got, up, down,
                 executed, outcome, slept, stale>>

ConnectRefused ==
  /\ pc = "conn" /\ socket = None
  /\ pc' = "except" /\ faulty' = TRUE
  /\ UNCHANGED <<clientVars, tryn, delay, response, got, networkVars,
                 executed, outcome, slept, stale>>

(* The rfile property makes a reader if there is none. *)
Reader == IF rfile = None THEN socket ELSE rfile

(* conn.send(buf), whose return value is dropped: only a part of buf may   *)
(* have gone out.  What is sent after the server's FIN is lost.            *)
Send ==
  /\ pc = "send" /\ peer[socket] # "rst"
  /\ \E whole \in BOOLEAN :
       /\ faulty' = (faulty \/ ~whole)
       /\ up' = IF peer[socket] = "open"
                THEN [up EXCEPT ![socket] = Append(@,
                        [id |-> message_count, try |-> tryn, whole |-> whole])]
                ELSE up
  /\ rfile' = Reader
  /\ pc' = "head"
  /\ UNCHANGED <<socket, message_count, tryn, delay, response, got, conns,
                 peer, down, executed, outcome, slept, stale>>

(* What is left of a stream of replies after its next byte. *)
Rest(s) ==
  LET b == Head(s) IN
    IF b.at = b.last THEN Tail(s)
    ELSE [s EXCEPT ![1] = [b EXCEPT !.at = b.at + 1]]

(* recv() returns the next byte. *)
Arrive ==
  /\ down[rfile] # << >>
  /\ down' = [down EXCEPT ![rfile] = Rest(down[rfile])]

(* Maps in the payload of an older reply that carry the current id.  One   *)
(* with any other id is refused as Unread is.                              *)
Nested ==
  [id : {message_count}, try : {NoTry}, kind : {"result", "error"}]

(* load() reads the head.  A byte that is not one is taken for the start   *)
(* of an item all the same: that is an exception at once, or an item with  *)
(* or without a payload to read, and the item may be a map with an id.     *)
ReadHead ==
  /\ pc = "head"
  /\ Arrive
  /\ got' = 0
  /\ LET b == Head(down[rfile]) IN
       \/ /\ b.at = 1
          /\ response' = [id |-> b.id, try |-> b.try, kind |-> b.kind]
          /\ pc' = "tail"
       \/ /\ b.at # 1
          /\ response' \in {Unread} \cup Nested
          /\ pc' \in {"tail", "check", "except"}
  /\ UNCHANGED <<clientVars, tryn, delay, conns, peer, up, historyVars>>

(* The loop of ObjectReader_read, or of SocketReader.read, has all it needs. *)
Enough(n) == n = TailLen

ReadTail ==
  /\ pc = "tail"
  /\ Arrive
  /\ got' = got + 1
  /\ pc' = IF Enough(got + 1) THEN "check" ELSE "tail"
  /\ UNCHANGED <<clientVars, tryn, delay, response, conns, peer, up,
                 historyVars>>

AtEnd == peer[rfile] = "fin" /\ down[rfile] = << >>

(* SocketReader.read looks at the clock only after a recv() that left it   *)
(* short: for read(1) that is a recv() at the end of the stream.  The      *)
(* short data it then returns is an error to both decoders.                *)
HeadNeverTimesOut == FALSE  \* mutant of HeadDeadline

HeadDeadline ==
  /\ pc = "head" /\ AtEnd
  /\ pc' = "except"
  /\ UNCHANGED <<clientVars, tryn, delay, response, got, networkVars,
                 historyVars>>

(* A short payload.  cbor.py takes the bytes of a short string as they     *)
(* are; a short number makes struct.unpack_from raise.  The C reader only  *)
(* asks again for what is missing, which changes nothing here.             *)
TailDeadline ==
  /\ pc = "tail" /\ (AtEnd \/ got > 0)
  /\ Decoder = "py"
  /\ pc' \in {"check", "except"}
  /\ faulty' = TRUE
  /\ UNCHANGED <<clientVars, tryn, delay, response, got, networkVars,
                 executed, outcome, slept, stale>>

(* send() or recv() on a connection that was reset raises. *)
SocketError ==
  /\ \/ pc = "send" /\ peer[socket] = "rst"
     \/ pc \in {"head", "tail"} /\ peer[rfile] = "rst"
  /\ pc' = "except"
  /\ UNCHANGED <<clientVars, tryn, delay, response, got, networkVars,
                 historyVars>>

-----------------------------------------------------------------------------
(* The answer, or the exception *)

Finish(how) ==
  /\ pc' = "idle" /\ outcome' = how
  /\ UNCHANGED <<clientVars, tryn, delay, response, got, networkVars,
                 executed, slept, faulty, stale>>

IdUnchecked == pc = "check" /\ Finish(response.kind)  \* mutant of Accept

(* A result is returned; any other reply is raised, and not retried. *)
Accept ==
  /\ pc = "check" /\ response.id = message_count
  /\ Finish(response.kind)

(* assert response['id'] == message['id'] *)
Mismatch ==
  /\ pc = "check" /\ response.id # message_count
  /\ pc' = "except"
  /\ UNCHANGED <<clientVars, tryn, delay, response, got, networkVars,
                 historyVars>>

(* Mutants of MayRetry: a try too few, a try too many. *)
TryTooFew  == tryn + 1 < Retries
TryTooMany == tryn <= Retries

MayRetry == tryn < Retries

(* Mutants of Backoff: doubled before the sleep; the try is not counted. *)
DoubleFirst ==
  tryn' = tryn + 1 /\ delay' = delay * 2 /\ slept' = slept + delay'
Uncounted ==
  UNCHANGED tryn /\ slept' = slept + delay /\ delay' = delay * 2

Backoff ==
  tryn' = tryn + 1 /\ slept' = slept + delay /\ delay' = delay * 2

Retry ==
  /\ pc = "except" /\ MayRetry
  /\ CloseSocket
  /\ Backoff
  /\ pc' = "conn" /\ stale' = FALSE
  /\ UNCHANGED <<message_count, response, got, conns, up, executed, outcome,
                 faulty>>

(* The last exception is raised to the caller; the socket stays as it is. *)
GiveUp ==
  /\ pc = "except" /\ ~MayRetry
  /\ Finish("failed")

-----------------------------------------------------------------------------
(* The server and the network, seen from the client *)

Fault(c) == faulty' = (faulty \/ (pc # "idle" /\ c = socket))

Execute(c) ==
  /\ peer[c] \in {"open", "shut"}
  /\ up[c] # << >> /\ Head(up[c]).whole
  /\ LET r == Head(up[c]) IN
       executed' = [executed EXCEPT ![<<r.id, r.try>>] = @ + 1]

Answer(c, kind, last) ==
  LET r == Head(up[c]) IN
  down' = [down EXCEPT ![c] = Append(@, [id |-> r.id, try |-> r.try,
                                        kind |-> kind, at |-> 1, last |-> last])]

(* The server executes the oldest request and replies.  The reply of a     *)
(* request whose connection the client has closed goes nowhere.            *)
Serve(c) ==
  /\ Execute(c)
  /\ up' = [up EXCEPT ![c] = Tail(@)]
  /\ IF peer[c] = "open"
     THEN \E kind \in {"result", "error"} : Answer(c, kind, TailLen + 1)
     ELSE UNCHANGED down
  /\ UNCHANGED <<clientVars, rpcVars, conns, peer, outcome, slept, faulty, stale>>

(* It executes the request and goes away after a proper part of the reply. *)
ServeAndDie(c) ==
  /\ Execute(c)
  /\ peer[c] = "open"
  /\ \/ UNCHANGED down
     \/ \E kind \in {"result", "error"}, n \in 1 .. TailLen : Answer(c, kind, n)
  /\ peer' = [peer EXCEPT ![c] = "fin"]
  /\ up' = [up EXCEPT ![c] = << >>]
  /\ Fault(c)
  /\ UNCHANGED <<clientVars, rpcVars, conns, outcome, slept, stale>>

ServerClose(c) ==
  /\ peer[c] = "open"
  /\ peer' = [peer EXCEPT ![c] = "fin"]
  /\ up' = [up EXCEPT ![c] = << >>]
  /\ Fault(c)
  /\ UNCHANGED <<clientVars, rpcVars, conns, down, executed, outcome, slept,
                 stale>>

Reset(c) ==
  /\ peer[c] \in {"open", "fin"}
  /\ peer' = [peer EXCEPT ![c] = "rst"]
  /\ up' = [up EXCEPT ![c] = << >>] /\ down' = [down EXCEPT ![c] = << >>]
  /\ Fault(c)
  /\ UNCHANGED <<clientVars, rpcVars, conns, executed, outcome, slept, stale>>

-----------------------------------------------------------------------------

Client ==
  \/ Connect \/ ConnectRefused \/ Send \/ SocketError
  \/ ReadHead \/ HeadDeadline \/ ReadTail \/ TailDeadline
  \/ Accept \/ Mismatch \/ Retry \/ GiveUp

Caller == Call \/ CallUnencodable \/ Interrupt \/ Close

Server(c) == Serve(c) \/ ServeAndDie(c) \/ ServerClose(c)

Next == Client \/ Caller \/ \E c \in Conns : Server(c) \/ Reset(c)

Spec == Init /\ [][Next]_vars

(* The interpreter keeps running _rpc, time passes, and the server does    *)
(* not stay silent for ever on a connection it holds: it reads, replies or *)
(* closes.  Nothing need ever be reset.                                    *)
Fairness ==
  /\ WF_vars(Client)
  /\ \A c \in Conns : WF_vars(Server(c))

FairSpec == Spec /\ Fairness
-----------------------------------------------------------------------------
(* Properties *)

(* SocketReader is cached in _rfile across calls and across reconnects:    *)
(* it never outlives the socket it reads from, so no read goes to a        *)
(* connection that close() has given up (close, rfile).                    *)
ReaderOnCurrentSocket ==
  rfile # None => rfile = socket /\ peer[socket] # "shut"

(* A result or error handed to the caller of _rpc is the server's reply to *)
(* the request that this very try of this call sent, and the server had    *)
(* executed it, with one exception: a first try on a connection where an   *)
(* earlier call left something behind may take a map in the old payload    *)
(* for its answer.  A retry never does: two tries carry the same id, so it *)
(* takes the close() between them, not the id check alone (_rpc, close).   *)
AnswerFromThisTry ==
  outcome \in {"result", "error"} =>
    /\ response.id = message_count /\ response.kind = outcome
    /\ \/ response.try = tryn /\ executed[<<message_count, tryn>>] > 0
       \/ response.try = NoTry /\ stale /\ tryn = 0

(* The docstring of _rpc: what it returns is the result of that call, which *)
(* the server must then have run.                                          *)
ResultOfThisCall ==
  outcome = "result" => \E t \in Tries : executed[<<message_count, t>>] > 0

(* A retried call may run on the server once per try and no more, however  *)
(* late the requests of given-up connections are executed, and none of a   *)
(* try that was not made: a call runs at most Retries + 1 times (_rpc).    *)
AtMostOncePerTry ==
  \A i \in Ids, t \in Tries :
    /\ executed[<<i, t>>] <= 1
    /\ executed[<<i, t>>] = 1 => \/ i < message_count
                                 \/ i = message_count /\ t <= tryn

(* A call during which nothing went wrong with its connection does not     *)
(* fail: what an interrupted or failed call left behind in the stream      *)
(* costs one retry, after which client and server agree again (_rpc, which *)
(* therefore needs the configuration to allow one).                        *)
NoSpuriousFailure == outcome = "failed" => faulty

\* 2 ** n, by its equations: the provers know nothing of ^
TwoTo[n \in Nat] == IF n = 0 THEN 1 ELSE 2 * TwoTo[n - 1]

(* The class docstring: the wait doubles on each retry and all of it stays *)
(* below base_retry_seconds * 2 ** retries.                                *)
TotalWait ==
  /\ pc # "idle" => /\ delay = BaseDelay * TwoTo[tryn]
                    /\ slept = delay - BaseDelay
  /\ slept < BaseDelay * TwoTo[Retries]

(* The result that _rpc returns is all of what the server sent.            *)
ResultWhole == outcome = "result" => got = TailLen

(* The client keeps the promise of RpcService: the server's executions of  *)
(* a call are told apart by the try that caused them.                      *)
Service ==
  INSTANCE RpcService WITH
    calls <- message_count,
    left  <- stale,
    cut   <- outcome \in {"result", "error"} /\ got < TailLen,
    runs  <- [i \in Ids |-> {t \in Tries : executed[<<i, t>>] > 0}]

KeepsService == Service!Spec

(* Every call of _rpc ends, in an answer or in an exception. *)
CallTerminates == pc # "idle" ~> pc = "idle"
=============================================================================
