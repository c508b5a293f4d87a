--------------------------- MODULE RpcClientProofs ---------------------------
(***************************************************************************)
(* Theorems about RpcClient, for every value of its constants.             *)
(***************************************************************************)
EXTENDS RpcClient, SequenceTheorems, WellFoundedInduction, TLAPS

-----------------------------------------------------------------------------
(* Type correctness *)

(* What the control state says about the data that the next step uses: a   *)
(* call has an id, a send a socket, a read a reader, and a reader belongs  *)
(* to the socket in use, whose peer has not been told goodbye.             *)
Shape ==
  /\ pc # "idle" => message_count # 0
  /\ pc = "send" => socket # None
  /\ pc \in {"head", "tail"} => rfile # None
  /\ rfile # None => rfile = socket
  /\ socket # None => peer[socket] \in {"open", "fin", "rst"}
  /\ pc = "tail" => got < TailLen
  /\ response.id # None => response.kind # "none"
  /\ \A c \in Conns : c > conns => /\ peer[c] = "new"
                                   /\ up[c] = << >> /\ down[c] = << >>

TypeInv == TypeOK /\ Shape

(* Taking a byte from a stream of replies leaves a stream of replies, in    *)
(* which nothing is new but the place of the first.                        *)
LEMMA RestType ==
  ASSUME NEW s \in Seq(Reply), s # << >>
  PROVE  /\ Rest(s) \in Seq(Reply)
         /\ \A k \in DOMAIN Rest(s) : \E l \in DOMAIN s :
              /\ Rest(s)[k].id = s[l].id /\ Rest(s)[k].try = s[l].try
              /\ Rest(s)[k].kind = s[l].kind
<1> DEFINE b == Head(s)
<1>1. b \in Reply /\ s[1] = b /\ 1 \in DOMAIN s /\ Len(s) \in Nat
  BY HeadTailProperties
<1>2. CASE b.at = b.last
  <2>1. Rest(s) = Tail(s)
    BY <1>2 DEF Rest
  <2>2. Tail(s) \in Seq(Reply) /\ Len(Tail(s)) = Len(s) - 1
    BY HeadTailProperties
  <2>3. \A k \in DOMAIN Tail(s) : k + 1 \in DOMAIN s /\ Tail(s)[k] = s[k + 1]
    BY <2>2, HeadTailProperties, LenProperties
  <2> QED  BY <2>1, <2>2, <2>3
<1>3. CASE b.at # b.last
  <2> DEFINE r == [b EXCEPT !.at = b.at + 1]
  <2>1. Rest(s) = [s EXCEPT ![1] = r]
    BY <1>3 DEF Rest
  <2>2. /\ r \in Reply
        /\ r.id = b.id /\ r.try = b.try /\ r.kind = b.kind
    <3> DEFINE n == b.at + 1
    <3>1. n \in Bytes /\ n <= b.last
      BY <1>1, <1>3, RpcAssumption DEF Reply, Bytes
    <3>2. b \in [id : Ids, try : Tries, kind : {"result", "error"},
                 at : Bytes, last : Bytes]
      BY <1>1 DEF Reply
    <3> HIDE DEF n
    <3>3. /\ [b EXCEPT !.at = n]
               \in [id : Ids, try : Tries, kind : {"result", "error"},
                    at : Bytes, last : Bytes]
          /\ [b EXCEPT !.at = n].id = b.id
          /\ [b EXCEPT !.at = n].try = b.try
          /\ [b EXCEPT !.at = n].kind = b.kind
          /\ [b EXCEPT !.at = n].at = n
          /\ [b EXCEPT !.at = n].last = b.last
      BY <3>1, <3>2
    <3> QED  BY <3>1, <3>3 DEF n, Reply
  <2>3. [s EXCEPT ![1] = r] \in Seq(Reply)
    BY <1>1, <2>2, ExceptSeq
  <2>4. \A k \in DOMAIN Rest(s) :
           /\ k \in DOMAIN s
           /\ Rest(s)[k] = IF k = 1 THEN r ELSE s[k]
    BY <2>1, <1>1
  <2> QED  BY <1>1, <2>1, <2>2, <2>3, <2>4
<1> QED  BY <1>2, <1>3

LEMMA InitType == Init => TypeInv
<1> SUFFICES ASSUME Init PROVE TypeInv
  OBVIOUS
<1> USE DEF Init, Conns
<1>1. up \in [Conns -> Seq(Request)] /\ down \in [Conns -> Seq(Reply)]
  BY EmptySeq
<1>2. executed \in [Ids \X Tries -> Nat]
  OBVIOUS
<1>3. response \in [id : 0 .. MaxCalls, try : Tries \cup {NoTry},
                   kind : {"none", "result", "error"}]
  BY RpcAssumption DEF Unread, None, Tries
<1>4. peer \in [Conns -> {"new", "open", "fin", "rst", "shut"}]
  OBVIOUS
<1>5. /\ socket \in 0 .. conns /\ rfile \in 0 .. conns
      /\ message_count \in 0 .. MaxCalls
      /\ tryn \in Tries /\ delay \in Nat /\ slept \in Nat
      /\ got \in 0 .. TailLen /\ conns \in 0 .. MaxConns
  BY RpcAssumption DEF Tries, None
<1>6. faulty \in BOOLEAN /\ stale \in BOOLEAN
  OBVIOUS
<1>7. TypeOK
  BY <1>1, <1>2, <1>3, <1>4, <1>5, <1>6 DEF TypeOK
<1>8. Shape
  BY DEF Shape, None, Unread
<1> QED  BY <1>7, <1>8 DEF TypeInv

(* The oldest request of a connection is a request. *)
LEMMA HeadRequest ==
  ASSUME TypeInv, NEW c \in Conns, up[c] # << >>
  PROVE  /\ up[c] \in Seq(Request) /\ 1 \in DOMAIN up[c]
         /\ Head(up[c]) = up[c][1] /\ Head(up[c]) \in Request
         /\ Head(up[c]).id \in Ids /\ Head(up[c]).try \in Tries
<1>1. up[c] \in Seq(Request)
  BY DEF TypeInv, TypeOK
<1>2. Head(up[c]) \in Request /\ 1 \in DOMAIN up[c] /\ Head(up[c]) = up[c][1]
  BY <1>1, HeadTailProperties
<1> QED  BY <1>1, <1>2 DEF Request

(* The requests on the wire stay requests. *)
LEMMA UpType ==
  ASSUME TypeInv, [Next]_vars
  PROVE  up' \in [Conns -> Seq(Request)]
<1>0. up \in [Conns -> Seq(Request)]
  BY DEF TypeInv, TypeOK
<1>1. CASE Send
  <2>1. socket \in Conns
    BY <1>1, RpcAssumption DEF Send, TypeInv, TypeOK, Shape, Conns, None
  <2>2. message_count \in Ids /\ tryn \in Tries
    BY <1>1, RpcAssumption DEF Send, TypeInv, TypeOK, Shape, Ids
  <2>3. PICK whole \in BOOLEAN :
          up' = IF peer[socket] = "open"
                THEN [up EXCEPT ![socket] = Append(up[socket],
                        [id |-> message_count, try |-> tryn, whole |-> whole])]
                ELSE up
    BY <1>1 DEF Send
  <2>4. [id |-> message_count, try |-> tryn, whole |-> whole] \in Request
    BY <2>2 DEF Request
  <2>5. Append(up[socket], [id |-> message_count, try |-> tryn, whole |-> whole])
          \in Seq(Request)
    BY <1>0, <2>1, <2>4, AppendProperties
  <2> QED  BY <1>0, <2>1, <2>3, <2>5
<1>2. CASE \E c \in Conns : Serve(c)
  <2>1. PICK c \in Conns : up[c] # << >> /\ up' = [up EXCEPT ![c] = Tail(up[c])]
    BY <1>2 DEF Serve, Execute
  <2>2. Tail(up[c]) \in Seq(Request)
    BY <1>0, <2>1, HeadTailProperties
  <2> QED  BY <1>0, <2>1, <2>2
<1>3. CASE \E c \in Conns : ServeAndDie(c) \/ ServerClose(c) \/ Reset(c)
  <2>1. PICK c \in Conns : up' = [up EXCEPT ![c] = << >>]
    BY <1>3 DEF ServeAndDie, ServerClose, Reset
  <2> QED  BY <1>0, <2>1, EmptySeq
<1>4. CASE UNCHANGED up
  BY <1>0, <1>4
<1> QED
  BY <1>1, <1>2, <1>3, <1>4 DEF Next, Client, Caller, Server, vars, networkVars,
     Call, CallUnencodable, Interrupt, Close, Connect, ConnectRefused,
     SocketError, ReadHead, ReadTail, HeadDeadline, TailDeadline, Accept,
     Mismatch, Finish, Retry, GiveUp

(* The replies on the wire stay replies. *)
LEMMA DownType ==
  ASSUME TypeInv, [Next]_vars
  PROVE  down' \in [Conns -> Seq(Reply)]
<1>0. down \in [Conns -> Seq(Reply)]
  BY DEF TypeInv, TypeOK
<1>1. CASE ReadHead \/ ReadTail
  <2>1. rfile \in Conns
    BY <1>1, RpcAssumption
    DEF ReadHead, ReadTail, TypeInv, TypeOK, Shape, Conns, None
  <2>2. down[rfile] # << >> /\ down' = [down EXCEPT ![rfile] = Rest(down[rfile])]
    BY <1>1 DEF ReadHead, ReadTail, Arrive
  <2>3. Rest(down[rfile]) \in Seq(Reply)
    BY <1>0, <2>1, <2>2, RestType
  <2> QED  BY <1>0, <2>1, <2>2, <2>3
<1>2. ASSUME NEW c \in Conns, Serve(c) \/ ServeAndDie(c)
      PROVE  down' \in [Conns -> Seq(Reply)]
  <2> DEFINE r == Head(up[c])
             a(kind, last) == [id |-> r.id, try |-> r.try, kind |-> kind,
                               at |-> 1, last |-> last]
  <2>1. r \in Request
    <3>1. up[c] # << >>
      BY <1>2 DEF Serve, ServeAndDie, Execute
    <3> QED  BY <3>1, HeadRequest
  <2>2. ASSUME NEW kind \in {"result", "error"}, NEW last \in Bytes,
               Answer(c, kind, last)
        PROVE  down' \in [Conns -> Seq(Reply)]
    <3>1. 1 \in Bytes /\ 1 <= last
      BY <2>2, RpcAssumption DEF Bytes
    <3>2. a(kind, last) \in Reply
      BY <2>1, <2>2, <3>1 DEF Reply, Request
    <3>3. Append(down[c], a(kind, last)) \in Seq(Reply)
      BY <1>0, <3>2, AppendProperties
    <3> QED  BY <1>0, <2>2, <3>3 DEF Answer
  <2>3. TailLen + 1 \in Bytes /\ 1 .. TailLen \subseteq Bytes
    BY RpcAssumption DEF Bytes
  <2>4. \/ \E kind \in {"result", "error"}, last \in Bytes : Answer(c, kind, last)
        \/ UNCHANGED down
    BY <1>2, <2>3 DEF Serve, ServeAndDie
  <2> QED  BY <1>0, <2>2, <2>4
<1>3. ASSUME NEW c \in Conns, Reset(c)
      PROVE  down' \in [Conns -> Seq(Reply)]
  BY <1>0, <1>3, EmptySeq DEF Reset
<1>4. CASE CloseSocket
  BY <1>0, <1>4, EmptySeq DEF CloseSocket
<1>5. CASE UNCHANGED down
  BY <1>0, <1>5
<1> QED
  BY <1>1, <1>2, <1>3, <1>4, <1>5 DEF Next, Client, Caller, Server, vars,
     networkVars, Call, CallUnencodable, Interrupt, Close, Connect,
     ConnectRefused, Send, SocketError, HeadDeadline, TailDeadline, Accept,
     Mismatch, Finish, Retry, GiveUp, ServerClose

LEMMA PeerType ==
  ASSUME TypeInv, [Next]_vars
  PROVE  peer' \in [Conns -> {"new", "open", "fin", "rst", "shut"}]
<1>0. peer \in [Conns -> {"new", "open", "fin", "rst", "shut"}]
  BY DEF TypeInv, TypeOK
<1>1. CASE CloseSocket
  BY <1>0, <1>1 DEF CloseSocket
<1>2. CASE Connect
  BY <1>0, <1>2 DEF Connect
<1>3. ASSUME NEW c \in Conns, Server(c) \/ Reset(c)
      PROVE  peer' \in [Conns -> {"new", "open", "fin", "rst", "shut"}]
  BY <1>0, <1>3 DEF Server, Serve, ServeAndDie, ServerClose, Reset
<1>4. CASE UNCHANGED peer
  BY <1>0, <1>4
<1> QED
  BY <1>1, <1>2, <1>3, <1>4 DEF Next, Client, Caller, vars, networkVars, Call,
     CallUnencodable, Interrupt, Close, ConnectRefused, Send, SocketError,
     ReadHead, ReadTail, HeadDeadline, TailDeadline, Accept, Mismatch, Finish,
     Retry, GiveUp

LEMMA ExecutedType ==
  ASSUME TypeInv, [Next]_vars
  PROVE  executed' \in [Ids \X Tries -> Nat]
<1>0. executed \in [Ids \X Tries -> Nat]
  BY DEF TypeInv, TypeOK
<1>1. ASSUME NEW c \in Conns, Execute(c)
      PROVE  executed' \in [Ids \X Tries -> Nat]
  <2>1. <<Head(up[c]).id, Head(up[c]).try>> \in Ids \X Tries
    BY <1>1, HeadRequest DEF Execute
  <2> QED  BY <1>0, <1>1, <2>1 DEF Execute
<1>2. CASE UNCHANGED executed
  BY <1>0, <1>2
<1> QED
  BY <1>1, <1>2 DEF Next, Client, Caller, Server, vars, historyVars, Call,
     CallUnencodable, Interrupt, Close, Connect, ConnectRefused, Send,
     SocketError, ReadHead, ReadTail, HeadDeadline, TailDeadline, Accept,
     Mismatch, Finish, Retry, GiveUp, Serve, ServeAndDie, ServerClose, Reset

LEMMA ResponseType ==
  ASSUME TypeInv, [Next]_vars
  PROVE  response' \in [id : 0 .. MaxCalls, try : Tries \cup {NoTry},
                        kind : {"none", "result", "error"}]
<1> DEFINE R == [id : 0 .. MaxCalls, try : Tries \cup {NoTry},
                 kind : {"none", "result", "error"}]
<1>0. response \in R
  BY DEF TypeInv, TypeOK
<1>1. Unread \in R
  BY RpcAssumption DEF Unread, None, Tries
<1>2. CASE ReadHead
  <2> DEFINE b == Head(down[rfile])
  <2>1. rfile \in Conns /\ down[rfile] # << >>
    BY <1>2, RpcAssumption
    DEF ReadHead, Arrive, TypeInv, TypeOK, Shape, Conns, None
  <2>2. b \in Reply
    BY <2>1, HeadTailProperties DEF TypeInv, TypeOK
  <2>3. [id |-> b.id, try |-> b.try, kind |-> b.kind] \in R
    BY <2>2, RpcAssumption DEF Reply, Ids
  <2>4. \/ response' \in {Unread, [id |-> b.id, try |-> b.try, kind |-> b.kind]}
        \/ response' \in Nested
    BY <1>2 DEF ReadHead
  <2>5. \A x \in Nested : x \in R
    BY DEF Nested, TypeInv, TypeOK
  <2> QED  BY <1>1, <2>3, <2>4, <2>5
<1>3. CASE Call
  BY <1>1, <1>3 DEF Call
<1>4. CASE UNCHANGED response
  BY <1>0, <1>4
<1> QED
  BY <1>2, <1>3, <1>4 DEF Next, Client, Caller, Server, vars, rpcVars,
     CallUnencodable, Interrupt, Close, Connect, ConnectRefused, Send,
     SocketError, ReadTail, HeadDeadline, TailDeadline, Accept, Mismatch,
     Finish, Retry, GiveUp, Serve, ServeAndDie, ServerClose, Reset

(* The fields of the client and the locals of _rpc. *)
LEMMA ScalarType ==
  ASSUME TypeInv, [Next]_vars
  PROVE  /\ socket' \in 0 .. conns' /\ rfile' \in 0 .. conns'
         /\ conns' \in 0 .. MaxConns
         /\ message_count' \in 0 .. MaxCalls
         /\ tryn' \in Tries /\ delay' \in Nat /\ slept' \in Nat
         /\ got' \in 0 .. TailLen
<1>0. /\ socket \in 0 .. conns /\ rfile \in 0 .. conns
      /\ conns \in 0 .. MaxConns
      /\ message_count \in 0 .. MaxCalls
      /\ tryn \in 0 .. Retries /\ delay \in Nat /\ slept \in Nat
      /\ got \in 0 .. TailLen
      /\ pc = "tail" => got < TailLen
  BY DEF TypeInv, TypeOK, Shape, Tries
<1> USE RpcAssumption DEF Tries
<1>1. CASE Connect
  <2>1. \/ UNCHANGED <<socket, conns>>
        \/ /\ conns < MaxConns /\ conns' = conns + 1 /\ socket' = conns + 1
    BY <1>1 DEF Connect
  <2>2. UNCHANGED <<rfile, message_count, tryn, delay, slept, got>>
    BY <1>1 DEF Connect
  <2>3. /\ socket' \in 0 .. conns' /\ rfile' \in 0 .. conns'
        /\ conns' \in 0 .. MaxConns
    BY <1>0, <2>1, <2>2
  <2> QED  BY <1>0, <2>2, <2>3
<1>2. CASE Close \/ Retry
  <2>1. socket' \in 0 .. conns /\ rfile' \in 0 .. conns
    BY <1>0, <1>2 DEF Close, Retry, CloseSocket, None
  <2> QED  BY <1>0, <1>2, <2>1 DEF Close, Retry, Backoff, MayRetry, rpcVars,
              historyVars
<1>3. CASE Call \/ CallUnencodable
  BY <1>0, <1>3 DEF Call, CallUnencodable, NextMessage, networkVars, rpcVars
<1>4. CASE ReadHead \/ ReadTail
  BY <1>0, <1>4 DEF ReadHead, ReadTail, clientVars, historyVars
<1>5. CASE Send
  BY <1>0, <1>5 DEF Send, Reader
<1>6. CASE UNCHANGED <<socket, rfile, conns, message_count, tryn, delay, slept,
                       got>>
  BY <1>0, <1>6
<1> QED
  BY <1>1, <1>2, <1>3, <1>4, <1>5, <1>6 DEF Next, Client, Caller, Server, vars,
     clientVars, rpcVars, networkVars, historyVars, Interrupt, ConnectRefused,
     SocketError, HeadDeadline, TailDeadline, Accept, Mismatch, Finish, GiveUp,
     Serve, ServeAndDie, ServerClose, Reset

(* The control state. *)
LEMMA ControlType ==
  ASSUME TypeInv, [Next]_vars
  PROVE  /\ pc' \in {"idle", "conn", "send", "head", "tail", "check", "except"}
         /\ outcome' \in {"none", "pending", "result", "error", "failed",
                          "unencodable", "interrupted"}
         /\ faulty' \in BOOLEAN /\ stale' \in BOOLEAN
<1>0. /\ pc \in {"idle", "conn", "send", "head", "tail", "check", "except"}
      /\ outcome \in {"none", "pending", "result", "error", "failed",
                      "unencodable", "interrupted"}
      /\ faulty \in BOOLEAN /\ stale \in BOOLEAN
  BY DEF TypeInv, TypeOK
<1>1. CASE Accept
  <2>1. response.id # None
    BY <1>1, RpcAssumption DEF Accept, TypeInv, TypeOK, Shape, None
  <2>2. response.kind \in {"result", "error"}
    BY <2>1 DEF TypeInv, TypeOK, Shape
  <2> QED  BY <1>0, <1>1, <2>2 DEF Accept, Finish
<1>2. CASE UNCHANGED <<pc, outcome, faulty, stale>>
  BY <1>0, <1>2
<1>3. CASE Call \/ CallUnencodable \/ Interrupt \/ Connect \/ ConnectRefused
             \/ Send
  BY <1>0, <1>3 DEF Call, CallUnencodable, NextMessage, Interrupt, Connect,
     ConnectRefused, Send, rpcVars
<1>4. CASE ReadHead \/ ReadTail \/ HeadDeadline \/ TailDeadline \/ SocketError
             \/ Mismatch \/ Retry \/ GiveUp
  BY <1>0, <1>4 DEF ReadHead, ReadTail, HeadDeadline, TailDeadline,
     SocketError, Mismatch, Retry, GiveUp, Finish, historyVars
<1>5. ASSUME NEW c \in Conns, ServeAndDie(c) \/ ServerClose(c) \/ Reset(c)
      PROVE  UNCHANGED <<pc, outcome, stale>> /\ faulty' \in BOOLEAN
  BY <1>0, <1>5 DEF ServeAndDie, ServerClose, Reset, Fault, rpcVars
<1> QED
  BY <1>0, <1>1, <1>2, <1>3, <1>4, <1>5 DEF Next, Client, Caller, Server, vars,
     rpcVars, historyVars, Close, Serve

LEMMA ShapeStep ==
  ASSUME TypeInv, [Next]_vars
  PROVE  Shape'
<1>0. /\ socket \in 0 .. conns /\ rfile \in 0 .. conns /\ conns \in 0 .. MaxConns
      /\ message_count \in 0 .. MaxCalls /\ Shape
      /\ peer \in [Conns -> {"new", "open", "fin", "rst", "shut"}]
      /\ up \in [Conns -> Seq(Request)] /\ down \in [Conns -> Seq(Reply)]
  BY DEF TypeInv, TypeOK
<1>1. (pc # "idle" => message_count # 0)'
  <2>1. CASE Call
    BY <1>0, <2>1 DEF Call, NextMessage
  <2>2. CASE pc # "idle" /\ UNCHANGED message_count
    BY <1>0, <2>2 DEF Shape
  <2>3. CASE pc' = pc /\ (UNCHANGED message_count \/ CallUnencodable)
    BY <1>0, <2>3 DEF Shape, CallUnencodable, NextMessage
  <2> QED
    BY <2>1, <2>2, <2>3 DEF Next, Client, Caller, Server, vars, clientVars,
       rpcVars, CallUnencodable, Interrupt, Close, Connect, ConnectRefused,
       Send, SocketError, ReadHead, ReadTail, HeadDeadline, TailDeadline,
       Accept, Mismatch, Finish, Retry, GiveUp, Serve, ServeAndDie,
       ServerClose, Reset
<1>2. (/\ pc = "send" => socket # None
       /\ pc \in {"head", "tail"} => rfile # None
       /\ rfile # None => rfile = socket)'
  <2>1. CASE Connect
    BY <1>0, <2>1 DEF Connect, Shape, None
  <2>2. CASE Send
    BY <1>0, <2>2 DEF Send, Reader, Shape, None
  <2>3. CASE CloseSocket /\ pc' \in {"idle", "conn"}
    BY <1>0, <2>3 DEF CloseSocket, Shape, None
  <2>4. CASE /\ UNCHANGED <<socket, rfile>>
             /\ pc' \in {"send", "head", "tail"}
                  => \/ pc \in {"head", "tail"} /\ pc' # "send"
                     \/ pc' = pc
    BY <1>0, <2>4 DEF Shape
  <2> QED
    BY <2>1, <2>2, <2>3, <2>4 DEF Next, Client, Caller, Server, vars,
       clientVars, rpcVars, Call, CallUnencodable, Interrupt, Close,
       ConnectRefused, SocketError, ReadHead, ReadTail, HeadDeadline,
       TailDeadline, Accept, Mismatch, Finish, Retry, GiveUp, Serve,
       ServeAndDie, ServerClose, Reset
<1>3. (socket # None => peer[socket] \in {"open", "fin", "rst"})'
  <2>0. socket # None => socket \in Conns
    BY <1>0, RpcAssumption DEF Conns, None
  <2>1. CASE Connect
    <3>1. \/ socket # None /\ UNCHANGED <<socket, peer>>
          \/ /\ conns < MaxConns /\ socket' = conns + 1
             /\ peer' = [peer EXCEPT ![conns + 1] = "open"]
      BY <2>1 DEF Connect
    <3>2. conns < MaxConns => conns + 1 \in Conns
      BY <1>0, RpcAssumption DEF Conns
    <3> QED  BY <1>0, <3>1, <3>2 DEF Shape
  <2>2. CASE CloseSocket
    BY <1>0, <2>2 DEF CloseSocket, Shape
  <2>3. ASSUME NEW c \in Conns, UNCHANGED socket,
               \/ UNCHANGED peer
               \/ peer' = [peer EXCEPT ![c] = "fin"]
               \/ peer' = [peer EXCEPT ![c] = "rst"]
        PROVE  (socket # None => peer[socket] \in {"open", "fin", "rst"})'
    BY <1>0, <2>0, <2>3 DEF Shape
  <2>4. CASE UNCHANGED <<socket, peer>>
    BY <1>0, <2>4 DEF Shape
  <2> QED
    BY <2>1, <2>2, <2>3, <2>4 DEF Next, Client, Caller, Server, vars,
       clientVars, networkVars, Call, CallUnencodable, Interrupt, Close,
       ConnectRefused, Send, SocketError, ReadHead, ReadTail, HeadDeadline,
       TailDeadline, Accept, Mismatch, Finish, Retry, GiveUp, Serve,
       ServeAndDie, ServerClose, Reset
<1>4. (pc = "tail" => got < TailLen)'
  <2>1. CASE ReadHead \/ ReadTail
    BY <1>0, <2>1, RpcAssumption
    DEF ReadHead, ReadTail, Enough, Shape, TypeInv, TypeOK
  <2>2. CASE pc' # "tail" \/ UNCHANGED <<pc, got>>
    BY <1>0, <2>2 DEF Shape
  <2> QED
    BY <2>1, <2>2 DEF Next, Client, Caller, Server, vars, rpcVars, Call,
       CallUnencodable, Interrupt, Close, Connect, ConnectRefused, Send,
       SocketError, HeadDeadline, TailDeadline, Accept, Mismatch, Finish,
       Retry, GiveUp, Serve, ServeAndDie, ServerClose, Reset
<1>5. (response.id # None => response.kind # "none")'
  <2>1. CASE ReadHead
    <3> DEFINE b == Head(down[rfile])
    <3>1. rfile \in Conns /\ down[rfile] # << >>
      BY <1>0, <2>1, RpcAssumption DEF ReadHead, Arrive, Shape, Conns, None
    <3>2. b \in Reply
      BY <1>0, <3>1, HeadTailProperties
    <3>3. b.kind \in {"result", "error"}
      BY <3>2 DEF Reply
    <3>4. \A x \in Nested : x.kind # "none"
      BY DEF Nested
    <3> QED  BY <2>1, <3>3, <3>4 DEF ReadHead, Unread, None
  <2>2. CASE Call
    BY <2>2 DEF Call, Unread, None
  <2>3. CASE UNCHANGED response
    BY <1>0, <2>3 DEF Shape
  <2> QED
    BY <2>1, <2>2, <2>3 DEF Next, Client, Caller, Server, vars, rpcVars,
       CallUnencodable, Interrupt, Close, Connect, ConnectRefused, Send,
       SocketError, ReadTail, HeadDeadline, TailDeadline, Accept, Mismatch,
       Finish, Retry, GiveUp, Serve, ServeAndDie, ServerClose, Reset
<1>6. ASSUME NEW c \in Conns, c > conns'
      PROVE  peer'[c] = "new" /\ up'[c] = << >> /\ down'[c] = << >>
  <2>1. c > conns /\ peer[c] = "new" /\ up[c] = << >> /\ down[c] = << >>
    <3>1. conns' \in {conns, conns + 1}
      BY DEF Next, Client, Caller, Server, vars, networkVars, Call,
         CallUnencodable, Interrupt, Close, Connect, ConnectRefused, Send,
         SocketError, ReadHead, ReadTail, HeadDeadline, TailDeadline, Accept,
         Mismatch, Finish, Retry, GiveUp, Serve, ServeAndDie, ServerClose,
         Reset
    <3>2. c > conns
      BY <1>0, <1>6, <3>1 DEF Conns
    <3> QED  BY <1>0, <3>2 DEF Shape
  <2>2. c # socket /\ c # rfile
    BY <1>0, <2>1 DEF Conns
  <2>3. CASE Connect
    <3>1. /\ UNCHANGED <<up, down>>
          /\ \/ UNCHANGED peer
             \/ /\ conns' = conns + 1
                /\ peer' = [peer EXCEPT ![conns + 1] = "open"]
      BY <2>3 DEF Connect
    <3>2. conns' = conns + 1 => c # conns + 1
      BY <1>0, <1>6 DEF Conns
    <3> QED  BY <1>0, <2>1, <3>1, <3>2
  <2>4. CASE CloseSocket /\ UNCHANGED up
    <3>1. /\ UNCHANGED peer \/ peer' = [peer EXCEPT ![socket] = "shut"]
          /\ UNCHANGED down \/ down' = [down EXCEPT ![socket] = << >>]
      BY <2>4 DEF CloseSocket
    <3> QED  BY <1>0, <2>1, <2>2, <2>4, <3>1
  <2>5. CASE Send \/ ReadHead \/ ReadTail
    BY <1>0, <2>1, <2>2, <2>5 DEF Send, ReadHead, ReadTail, Arrive
  <2>6. ASSUME NEW d \in Conns, Server(d) \/ Reset(d)
        PROVE  peer'[c] = "new" /\ up'[c] = << >> /\ down'[c] = << >>
    <3>1. peer[d] # "new" /\ d # c
      BY <2>1, <2>6
      DEF Server, Serve, ServeAndDie, ServerClose, Reset, Execute
    <3>2. UNCHANGED <<peer[c], up[c], down[c]>>
      BY <1>0, <2>6, <3>1
      DEF Server, Serve, ServeAndDie, ServerClose, Reset, Execute, Answer
    <3> QED  BY <2>1, <3>2
  <2>7. CASE UNCHANGED networkVars
    BY <2>1, <2>7 DEF networkVars
  <2> QED
    BY <2>3, <2>4, <2>5, <2>6, <2>7 DEF Next, Client, Caller, vars,
       networkVars, Call, CallUnencodable, Interrupt, Close, ConnectRefused,
       SocketError, HeadDeadline, TailDeadline, Accept, Mismatch, Finish,
       Retry, GiveUp
<1> QED  BY <1>1, <1>2, <1>3, <1>4, <1>5, <1>6 DEF Shape

LEMMA NextType == TypeInv /\ [Next]_vars => TypeInv'
<1> SUFFICES ASSUME TypeInv, [Next]_vars PROVE TypeInv'
  OBVIOUS
<1>1. TypeOK'
  BY UpType, DownType, PeerType, ExecutedType, ResponseType, ScalarType,
     ControlType DEF TypeOK
<1> QED  BY <1>1, ShapeStep DEF TypeInv

LEMMA Typing == Spec => []TypeInv
  BY InitType, NextType, PTL DEF Spec

(* Every variable of the client, of the connections and of the history     *)
(* stays in its type, whatever the number of retries, calls, connections   *)
(* and bytes.                                                              *)
THEOREM TypeCorrect == Spec => []TypeOK
<1>1. TypeInv => TypeOK
  BY DEF TypeInv
<1> QED  BY <1>1, Typing, PTL

(* The cached reader never outlives its socket.                            *)
THEOREM ReaderCurrent == Spec => []ReaderOnCurrentSocket
<1>1. TypeInv => ReaderOnCurrentSocket
  BY DEF TypeInv, TypeOK, Shape, ReaderOnCurrentSocket
<1> QED  BY <1>1, Typing, PTL

-----------------------------------------------------------------------------
(* Which requests the server executes, and whose reply is whose *)

(* Try t of call i may have reached the server. *)
Sent(i, t) ==
  \/ i < message_count
  \/ i = message_count /\ t < tryn
  \/ i = message_count /\ t = tryn /\ pc \notin {"conn", "send"}

(* The k-th request waiting on connection c is try t of call i. *)
OnWire(c, k, i, t) ==
  k \in DOMAIN up[c] /\ up[c][k].id = i /\ up[c][k].try = t

(* A request on the wire was sent, is there once, and was not executed.    *)
UpFresh ==
  \A c \in Conns, k \in Nat, i \in Ids, t \in Tries :
    OnWire(c, k, i, t) => Sent(i, t) /\ executed[<<i, t>>] = 0

UpDistinct ==
  \A c, d \in Conns, k, l \in Nat, i \in Ids, t \in Tries :
    OnWire(c, k, i, t) /\ OnWire(d, l, i, t) => c = d /\ k = l

ExecutedOnce ==
  \A i \in Ids, t \in Tries :
    executed[<<i, t>>] <= 1 /\ (executed[<<i, t>>] > 0 => Sent(i, t))

HistoryInv == UpFresh /\ UpDistinct /\ ExecutedOnce

(* What was sent stays sent. *)
LEMMA SentStays ==
  ASSUME TypeInv, [Next]_vars, NEW i \in Ids, NEW t \in Tries, Sent(i, t)
  PROVE  Sent(i, t)'
<1>0. message_count \in Nat /\ i \in Nat /\ t \in Nat /\ tryn \in Nat
  BY RpcAssumption DEF TypeInv, TypeOK, Ids, Tries
<1>1. CASE Call \/ CallUnencodable
  BY <1>0, <1>1 DEF Call, CallUnencodable, NextMessage, Sent
<1>2. CASE Retry
  BY <1>0, <1>2 DEF Retry, Backoff, Sent
<1>3. CASE /\ UNCHANGED <<message_count, tryn>>
           /\ pc' \in {"conn", "send"} => pc \in {"conn", "send"}
  BY <1>3 DEF Sent
<1> QED
  BY <1>1, <1>2, <1>3 DEF Next, Client, Caller, Server, vars, clientVars,
     rpcVars, Interrupt, Close, Connect, ConnectRefused, Send, SocketError,
     ReadHead, ReadTail, HeadDeadline, TailDeadline, Accept, Mismatch, Finish,
     GiveUp, Serve, ServeAndDie, ServerClose, Reset

(* The ways to touch the requests: the client appends one, the server      *)
(* takes one, or all of a connection are lost.                             *)
LEMMA WireAppend ==
  ASSUME TypeInv, NEW c \in Conns, NEW r,
         up' = [up EXCEPT ![c] = Append(up[c], r)],
         NEW d \in Conns, NEW k \in Nat, NEW i, NEW t, OnWire(d, k, i, t)'
  PROVE  \/ OnWire(d, k, i, t)
         \/ d = c /\ k = Len(up[c]) + 1 /\ i = r.id /\ t = r.try
<1>1. up \in [Conns -> Seq(Request)]
  BY DEF TypeInv, TypeOK
<1>2. CASE d # c
  BY <1>1, <1>2 DEF OnWire
<1>3. CASE d = c
  <2>1. up'[c] = Append(up[c], r)
    BY <1>1
  <2> QED  BY <1>1, <1>3, <2>1 DEF OnWire
<1> QED  BY <1>2, <1>3

LEMMA WireTake ==
  ASSUME TypeInv, NEW c \in Conns, up[c] # << >>,
         \/ up' = [up EXCEPT ![c] = Tail(up[c])]
         \/ up' = [up EXCEPT ![c] = << >>],
         NEW d \in Conns, NEW k \in Nat, NEW i, NEW t, OnWire(d, k, i, t)'
  PROVE  IF d = c THEN k >= 1 /\ OnWire(c, k + 1, i, t) ELSE OnWire(d, k, i, t)
<1>1. up \in [Conns -> Seq(Request)]
  BY DEF TypeInv, TypeOK
<1>2. CASE d # c
  BY <1>1, <1>2 DEF OnWire
<1>3. CASE d = c
  <2>1. up'[c] \in {Tail(up[c]), << >>}
    BY <1>1
  <2>2. up'[c] = Tail(up[c])
    <3>1. k \in DOMAIN up'[c]
      BY <1>3 DEF OnWire
    <3>2. DOMAIN << >> = {}
      OBVIOUS
    <3> QED  BY <2>1, <3>1, <3>2
  <2>3. k \in 1 .. Len(up[c]) - 1 /\ Tail(up[c])[k] = up[c][k + 1]
    BY <1>1, <1>3, <2>2, HeadTailProperties DEF OnWire
  <2> QED  BY <1>1, <1>3, <2>2, <2>3 DEF OnWire
<1> QED  BY <1>2, <1>3

LEMMA WireLose ==
  ASSUME TypeInv, NEW c \in Conns, up' = [up EXCEPT ![c] = << >>],
         NEW d \in Conns, NEW k \in Nat, NEW i, NEW t, OnWire(d, k, i, t)'
  PROVE  OnWire(d, k, i, t)
<1>1. up \in [Conns -> Seq(Request)]
  BY DEF TypeInv, TypeOK
<1> QED  BY <1>1 DEF OnWire

(* What the server executes is the first request of a connection. *)
LEMMA ExecuteOnWire ==
  ASSUME TypeInv, NEW c \in Conns, Execute(c)
  PROVE  \E i \in Ids, t \in Tries :
           /\ OnWire(c, 1, i, t)
           /\ executed' = [executed EXCEPT ![<<i, t>>] = executed[<<i, t>>] + 1]
<1>1. up[c] # << >>
  BY DEF Execute
<1>2. executed' = [executed EXCEPT ![<<Head(up[c]).id, Head(up[c]).try>>] =
                     executed[<<Head(up[c]).id, Head(up[c]).try>>] + 1]
  BY DEF Execute
<1>3. /\ Head(up[c]).id \in Ids /\ Head(up[c]).try \in Tries
      /\ OnWire(c, 1, Head(up[c]).id, Head(up[c]).try)
  BY <1>1, HeadRequest DEF OnWire
<1> QED  BY <1>2, <1>3

(* No step touches the requests and their executions in another way. *)
LEMMA HistorySteps ==
  ASSUME TypeInv, [Next]_vars
  PROVE  \/ UNCHANGED <<up, executed>>
         \/ /\ pc = "send" /\ pc' = "head"
            /\ UNCHANGED <<executed, message_count, tryn>>
            /\ \E c \in Conns, i \in Ids, t \in Tries, w \in BOOLEAN :
                 /\ c = socket /\ i = message_count /\ t = tryn
                 /\ up' = [up EXCEPT ![c] =
                             Append(up[c], [id |-> i, try |-> t, whole |-> w])]
         \/ \E c \in Conns :
              /\ Execute(c)
              /\ \/ up' = [up EXCEPT ![c] = Tail(up[c])]
                 \/ up' = [up EXCEPT ![c] = << >>]
         \/ \E c \in Conns : /\ up' = [up EXCEPT ![c] = << >>]
                             /\ UNCHANGED executed
<1>1. CASE Send
  <2>1. socket \in Conns
    BY <1>1, RpcAssumption DEF Send, TypeInv, TypeOK, Shape, Conns, None
  <2>2. message_count \in Ids /\ tryn \in Tries
    BY <1>1, RpcAssumption DEF Send, TypeInv, TypeOK, Shape, Ids
  <2> QED  BY <1>1, <2>1, <2>2 DEF Send
<1> QED
  BY <1>1 DEF Next, Client, Caller, Server, vars, networkVars, historyVars,
     Call, CallUnencodable, Interrupt, Close, Connect, ConnectRefused,
     SocketError, ReadHead, ReadTail, HeadDeadline, TailDeadline, Accept,
     Mismatch, Finish, Retry, GiveUp, Serve, ServeAndDie, ServerClose, Reset

LEMMA HistoryInit == Init => HistoryInv
  BY EmptySeq DEF Init, HistoryInv, UpFresh, UpDistinct, ExecutedOnce, OnWire

LEMMA HistoryStep ==
  ASSUME TypeInv, HistoryInv, [Next]_vars
  PROVE  HistoryInv'
<1>0. /\ executed \in [Ids \X Tries -> Nat]
      /\ UpFresh /\ UpDistinct /\ ExecutedOnce
  BY DEF TypeInv, TypeOK, HistoryInv
<1> HIDE DEF HistoryInv
<1>1. CASE UNCHANGED <<up, executed>>
  <2>1. UpFresh'
    BY <1>0, <1>1, SentStays DEF UpFresh, OnWire
  <2>2. UpDistinct'
    BY <1>0, <1>1 DEF UpDistinct, OnWire
  <2>3. ExecutedOnce'
    BY <1>0, <1>1, SentStays DEF ExecutedOnce
  <2> QED  BY <2>1, <2>2, <2>3 DEF HistoryInv
<1>2. ASSUME pc = "send", pc' = "head",
             UNCHANGED <<executed, message_count, tryn>>,
             NEW c \in Conns, NEW i0 \in Ids, NEW t0 \in Tries,
             NEW w \in BOOLEAN, i0 = message_count, t0 = tryn,
             up' = [up EXCEPT ![c] =
                     Append(up[c], [id |-> i0, try |-> t0, whole |-> w])]
      PROVE  HistoryInv'
  <2>0. ~Sent(i0, t0) /\ Sent(i0, t0)'
    <3>1. message_count \in Nat /\ tryn \in Nat
      BY RpcAssumption DEF TypeInv, TypeOK, Tries
    <3>2. message_count' = message_count /\ tryn' = tryn
      BY <1>2
    <3> QED  BY <1>2, <3>1, <3>2 DEF Sent
  <2>1. \A d \in Conns, k \in Nat, i \in Ids, t \in Tries :
          OnWire(d, k, i, t)' =>
            \/ OnWire(d, k, i, t)
            \/ d = c /\ k = Len(up[c]) + 1 /\ i = i0 /\ t = t0
    <3> DEFINE r == [id |-> i0, try |-> t0, whole |-> w]
    <3>1. r.id = i0 /\ r.try = t0
      OBVIOUS
    <3>2. up' = [up EXCEPT ![c] = Append(up[c], r)]
      BY <1>2
    <3> HIDE DEF r
    <3> QED  BY <3>1, <3>2, WireAppend
  <2>2. executed[<<i0, t0>>] = 0
    BY <1>0, <2>0 DEF ExecutedOnce
  <2>3. UpFresh'
    BY <1>0, <1>2, <2>0, <2>1, <2>2, SentStays DEF UpFresh
  <2>4. UpDistinct'
    <3> SUFFICES ASSUME NEW d \in Conns, NEW e \in Conns,
                        NEW k \in Nat, NEW l \in Nat,
                        NEW i \in Ids, NEW t \in Tries,
                        OnWire(d, k, i, t)', OnWire(e, l, i, t)'
                 PROVE  d = e /\ k = l
      BY DEF UpDistinct
    <3>1. CASE i = i0 /\ t = t0
      <4>1. ~OnWire(d, k, i, t) /\ ~OnWire(e, l, i, t)
        BY <1>0, <2>0, <3>1 DEF UpFresh
      <4> QED  BY <2>1, <4>1
    <3>2. CASE ~(i = i0 /\ t = t0)
      <4>1. OnWire(d, k, i, t) /\ OnWire(e, l, i, t)
        BY <2>1, <3>2
      <4> QED  BY <1>0, <4>1 DEF UpDistinct
    <3> QED  BY <3>1, <3>2
  <2>5. ExecutedOnce'
    BY <1>0, <1>2, SentStays DEF ExecutedOnce
  <2> QED  BY <2>3, <2>4, <2>5 DEF HistoryInv
<1>3. ASSUME NEW c \in Conns, Execute(c),
             \/ up' = [up EXCEPT ![c] = Tail(up[c])]
             \/ up' = [up EXCEPT ![c] = << >>]
      PROVE  HistoryInv'
  <2>0. up[c] # << >>
    BY <1>3 DEF Execute
  <2>1. PICK i0 \in Ids, t0 \in Tries :
          /\ OnWire(c, 1, i0, t0)
          /\ executed' = [executed EXCEPT ![<<i0, t0>>] = executed[<<i0, t0>>] + 1]
    BY <1>3, ExecuteOnWire
  <2>2. \A d \in Conns, k \in Nat, i \in Ids, t \in Tries :
          OnWire(d, k, i, t)' =>
            IF d = c THEN k >= 1 /\ OnWire(c, k + 1, i, t) ELSE OnWire(d, k, i, t)
    BY <1>3, <2>0, WireTake
  <2>3. executed[<<i0, t0>>] = 0 /\ Sent(i0, t0)
    BY <1>0, <2>1 DEF UpFresh
  <2>4. \A i \in Ids, t \in Tries :
          executed'[<<i, t>>] = IF i = i0 /\ t = t0 THEN 1 ELSE executed[<<i, t>>]
    BY <1>0, <2>1, <2>3
  <2>5. UpFresh'
    <3> SUFFICES ASSUME NEW d \in Conns, NEW k \in Nat, NEW i \in Ids,
                        NEW t \in Tries, OnWire(d, k, i, t)'
                 PROVE  Sent(i, t)' /\ executed'[<<i, t>>] = 0
      BY DEF UpFresh
    <3>1. PICK l \in Nat : OnWire(d, l, i, t) /\ (d = c => l # 1)
      BY <2>2
    <3>2. ~(i = i0 /\ t = t0)
      BY <1>0, <2>1, <3>1 DEF UpDistinct
    <3>3. Sent(i, t) /\ executed[<<i, t>>] = 0
      BY <1>0, <3>1 DEF UpFresh
    <3> QED  BY <2>4, <3>2, <3>3, SentStays
  <2>6. UpDistinct'
    <3> SUFFICES ASSUME NEW d \in Conns, NEW e \in Conns,
                        NEW k \in Nat, NEW l \in Nat,
                        NEW i \in Ids, NEW t \in Tries,
                        OnWire(d, k, i, t)', OnWire(e, l, i, t)'
                 PROVE  d = e /\ k = l
      BY DEF UpDistinct
    <3> DEFINE K == IF d = c THEN k + 1 ELSE k
               L == IF e = c THEN l + 1 ELSE l
    <3>1. K \in Nat /\ L \in Nat /\ OnWire(d, K, i, t) /\ OnWire(e, L, i, t)
      BY <2>2
    <3>2. d = e /\ K = L
      BY <1>0, <3>1 DEF UpDistinct
    <3> QED  BY <3>2
  <2>7. ExecutedOnce'
    <3>1. \A i \in Ids, t \in Tries : Sent(i, t) => Sent(i, t)'
      BY SentStays
    <3>2. Sent(i0, t0)'
      BY <2>3, <3>1
    <3> SUFFICES ASSUME NEW i \in Ids, NEW t \in Tries
                 PROVE  /\ executed'[<<i, t>>] <= 1
                        /\ executed'[<<i, t>>] > 0 => Sent(i, t)'
      BY DEF ExecutedOnce
    <3>3. CASE i = i0 /\ t = t0
      BY <2>4, <3>2, <3>3
    <3>4. CASE ~(i = i0 /\ t = t0)
      BY <1>0, <2>4, <3>1, <3>4 DEF ExecutedOnce
    <3> QED  BY <3>3, <3>4
  <2> QED  BY <2>5, <2>6, <2>7 DEF HistoryInv
<1>4. ASSUME NEW c \in Conns, up' = [up EXCEPT ![c] = << >>],
             UNCHANGED executed
      PROVE  HistoryInv'
  <2>1. \A d \in Conns, k \in Nat, i \in Ids, t \in Tries :
          OnWire(d, k, i, t)' => OnWire(d, k, i, t)
    BY <1>4, WireLose
  <2>2. UpFresh'
    BY <1>0, <1>4, <2>1, SentStays DEF UpFresh
  <2>3. UpDistinct'
    BY <1>0, <2>1 DEF UpDistinct
  <2>4. ExecutedOnce'
    BY <1>0, <1>4, SentStays DEF ExecutedOnce
  <2> QED  BY <2>2, <2>3, <2>4 DEF HistoryInv
<1> QED  BY <1>1, <1>2, <1>3, <1>4, HistorySteps

LEMMA History == Spec => [](TypeInv /\ HistoryInv)
<1>1. Init => TypeInv /\ HistoryInv
  BY InitType, HistoryInit
<1>2. TypeInv /\ HistoryInv /\ [Next]_vars => (TypeInv /\ HistoryInv)'
  BY NextType, HistoryStep
<1> QED  BY <1>1, <1>2, PTL DEF Spec

(* However requests are delayed, lost or executed after they were given    *)
(* up, the server runs each try once at most, and only tries that were     *)
(* made.                                                                   *)
THEOREM OncePerTry == Spec => []AtMostOncePerTry
<1>1. TypeInv /\ HistoryInv => AtMostOncePerTry
  <2> SUFFICES ASSUME TypeInv, HistoryInv PROVE AtMostOncePerTry
    OBVIOUS
  <2>1. message_count \in Nat /\ tryn \in Nat
    BY RpcAssumption DEF TypeInv, TypeOK, Tries
  <2>2. \A i \in Ids, t \in Tries :
          Sent(i, t) => \/ i < message_count
                        \/ i = message_count /\ t <= tryn
    BY <2>1, RpcAssumption DEF Sent, Ids, Tries
  <2>3. \A i \in Ids, t \in Tries :
          executed[<<i, t>>] <= 1 /\ (executed[<<i, t>>] = 1 => Sent(i, t))
    <3> SUFFICES ASSUME NEW i \in Ids, NEW t \in Tries
                 PROVE  /\ executed[<<i, t>>] <= 1
                        /\ executed[<<i, t>>] = 1 => Sent(i, t)
      OBVIOUS
    <3>1. executed[<<i, t>>] <= 1 /\ (executed[<<i, t>>] > 0 => Sent(i, t))
      BY DEF HistoryInv, ExecutedOnce
    <3>2. executed[<<i, t>>] = 1 => executed[<<i, t>>] > 0
      OBVIOUS
    <3> QED  BY <3>1, <3>2
  <2> QED  BY <2>2, <2>3 DEF AtMostOncePerTry
<1> QED  BY <1>1, History, PTL

-----------------------------------------------------------------------------
(* The answer *)

(* The k-th reply waiting on connection c answers try t of call i. *)
InReply(c, k, i, t) ==
  k \in DOMAIN down[c] /\ down[c][k].id = i /\ down[c][k].try = t

RepliesExecuted ==
  \A c \in Conns, k \in Nat, i \in Ids, t \in Tries :
    InReply(c, k, i, t) => executed[<<i, t>>] > 0

(* The connection in use holds, of this call, nothing but this try. *)
OnlyThisTry ==
  \A c \in Conns, k \in Nat, i \in Ids, t \in Tries :
    /\ c = socket /\ i = message_count
    /\ OnWire(c, k, i, t) \/ InReply(c, k, i, t)
    => t = tryn

(* A reply that was read with the right id answers this try. *)
ReadThisTry ==
  /\ pc \in {"tail", "check"} \/ outcome \in {"result", "error"}
  /\ response.id = message_count /\ response.try # NoTry
  => /\ response.try = tryn
     /\ \A i \in Ids, t \in Tries :
          i = message_count /\ t = tryn => executed[<<i, t>>] > 0

Outcome ==
  /\ pc = "idle" <=> outcome # "pending"
  /\ outcome \in {"result", "error"} => /\ message_count # None
                                        /\ response.id = message_count
                                        /\ response.kind = outcome

AnswerInv == RepliesExecuted /\ OnlyThisTry /\ ReadThisTry /\ Outcome

LEMMA ExecutedGrows ==
  ASSUME TypeInv, [Next]_vars, NEW i \in Ids, NEW t \in Tries,
         executed[<<i, t>>] > 0
  PROVE  executed'[<<i, t>>] > 0
<1>0. executed \in [Ids \X Tries -> Nat]
  BY DEF TypeInv, TypeOK
<1>1. ASSUME NEW c \in Conns, Execute(c)
      PROVE  executed'[<<i, t>>] > 0
  <2>1. PICK i0 \in Ids, t0 \in Tries :
          executed' = [executed EXCEPT ![<<i0, t0>>] = executed[<<i0, t0>>] + 1]
    BY <1>1, ExecuteOnWire
  <2>2. executed[<<i0, t0>>] \in Nat
    BY <1>0
  <2> QED  BY <1>0, <2>1, <2>2
<1> QED  BY <1>1, HistorySteps

LEMMA WireSteps ==
  ASSUME TypeInv, [Next]_vars, NEW d \in Conns, NEW k \in Nat,
         NEW i \in Ids, NEW t \in Tries, OnWire(d, k, i, t)'
  PROVE  \/ \E l \in Nat : OnWire(d, l, i, t)
         \/ d = socket /\ i = message_count /\ t = tryn
<1>1. CASE UNCHANGED up
  BY <1>1 DEF OnWire
<1>2. ASSUME NEW c \in Conns, NEW i0 \in Ids, NEW t0 \in Tries,
             NEW w \in BOOLEAN,
             c = socket, i0 = message_count, t0 = tryn,
             up' = [up EXCEPT ![c] =
                     Append(up[c], [id |-> i0, try |-> t0, whole |-> w])]
      PROVE  \/ \E l \in Nat : OnWire(d, l, i, t)
             \/ d = socket /\ i = message_count /\ t = tryn
  <2> DEFINE r == [id |-> i0, try |-> t0, whole |-> w]
  <2>1. r.id = i0 /\ r.try = t0
    OBVIOUS
  <2>2. up' = [up EXCEPT ![c] = Append(up[c], r)]
    BY <1>2
  <2> HIDE DEF r
  <2>3. OnWire(d, k, i, t) \/ (d = c /\ i = i0 /\ t = t0)
    BY <2>1, <2>2, WireAppend
  <2> QED  BY <1>2, <2>3
<1>3. ASSUME NEW c \in Conns, Execute(c),
             \/ up' = [up EXCEPT ![c] = Tail(up[c])]
             \/ up' = [up EXCEPT ![c] = << >>]
      PROVE  \E l \in Nat : OnWire(d, l, i, t)
  <2>1. up[c] # << >>
    BY <1>3 DEF Execute
  <2>2. IF d = c THEN k >= 1 /\ OnWire(c, k + 1, i, t) ELSE OnWire(d, k, i, t)
    BY <1>3, <2>1, WireTake
  <2> QED  BY <2>2
<1>4. ASSUME NEW c \in Conns, up' = [up EXCEPT ![c] = << >>]
      PROVE  \E l \in Nat : OnWire(d, l, i, t)
  BY <1>4, WireLose
<1> QED  BY <1>1, <1>2, <1>3, <1>4, HistorySteps

(* A reply that was not there answers a request that was, and that was     *)
(* executed in between.                                                    *)
LEMMA ReplySteps ==
  ASSUME TypeInv, [Next]_vars, NEW d \in Conns, NEW k \in Nat,
         NEW i \in Ids, NEW t \in Tries, InReply(d, k, i, t)'
  PROVE  \/ \E l \in Nat : InReply(d, l, i, t)
         \/ OnWire(d, 1, i, t) /\ executed'[<<i, t>>] > 0
<1>0. /\ down \in [Conns -> Seq(Reply)] /\ up \in [Conns -> Seq(Request)]
      /\ executed \in [Ids \X Tries -> Nat]
  BY DEF TypeInv, TypeOK
<1>1. CASE ReadHead \/ ReadTail
  <2>1. rfile \in Conns
    BY <1>1, RpcAssumption
    DEF ReadHead, ReadTail, TypeInv, TypeOK, Shape, Conns, None
  <2>2. down[rfile] # << >> /\ down' = [down EXCEPT ![rfile] = Rest(down[rfile])]
    BY <1>1 DEF ReadHead, ReadTail, Arrive
  <2>3. CASE d = rfile
    <3>1. down[rfile] \in Seq(Reply)
      BY <1>0, <2>1
    <3>2. down'[d] = Rest(down[rfile])
      BY <1>0, <2>1, <2>2, <2>3
    <3>3. PICK l \in DOMAIN down[rfile] :
            /\ Rest(down[rfile])[k].id = down[rfile][l].id
            /\ Rest(down[rfile])[k].try = down[rfile][l].try
      <4>1. k \in DOMAIN Rest(down[rfile])
        BY <3>2 DEF InReply
      <4>2. down[rfile] # << >>
        BY <2>2
      <4> QED  BY <3>1, <4>1, <4>2, RestType
    <3>4. l \in Nat
      BY <3>1
    <3> QED  BY <2>3, <3>2, <3>3, <3>4 DEF InReply
  <2>4. CASE d # rfile
    BY <1>0, <2>1, <2>2, <2>4 DEF InReply
  <2> QED  BY <2>3, <2>4
<1>2. ASSUME NEW c \in Conns, Serve(c) \/ ServeAndDie(c)
      PROVE  \/ \E l \in Nat : InReply(d, l, i, t)
             \/ OnWire(d, 1, i, t) /\ executed'[<<i, t>>] > 0
  <2> DEFINE r == Head(up[c])
             a(kind, last) == [id |-> r.id, try |-> r.try, kind |-> kind,
                               at |-> 1, last |-> last]
  <2>1. up[c] # << >> /\ Execute(c)
    BY <1>2 DEF Serve, ServeAndDie, Execute
  <2>2. \/ UNCHANGED down
        \/ \E kind, last : Answer(c, kind, last)
    BY <1>2 DEF Serve, ServeAndDie
  <2>3. CASE UNCHANGED down
    BY <2>3 DEF InReply
  <2>4. ASSUME NEW kind, NEW last, Answer(c, kind, last)
        PROVE  \/ \E l \in Nat : InReply(d, l, i, t)
               \/ OnWire(d, 1, i, t) /\ executed'[<<i, t>>] > 0
    <3> DEFINE e == a(kind, last)
    <3>1. e.id = r.id /\ e.try = r.try
      OBVIOUS
    <3>2. down' = [down EXCEPT ![c] = Append(down[c], e)]
      BY <2>4 DEF Answer
    <3> HIDE DEF e
    <3>3. CASE d # c
      BY <1>0, <3>2, <3>3 DEF InReply
    <3>4. CASE d = c /\ k # Len(down[c]) + 1
      BY <1>0, <3>2, <3>4 DEF InReply
    <3>5. CASE d = c /\ k = Len(down[c]) + 1
      <4>1. down'[d][k] = e
        BY <1>0, <3>2, <3>5
      <4>2. i = r.id /\ t = r.try
        BY <3>1, <4>1 DEF InReply
      <4>3. OnWire(d, 1, i, t)
        BY <2>1, <3>5, <4>2, HeadRequest DEF OnWire
      <4>4. executed' = [executed EXCEPT ![<<i, t>>] = executed[<<i, t>>] + 1]
        BY <2>1, <4>2 DEF Execute
      <4> QED  BY <1>0, <4>3, <4>4
    <3> QED  BY <3>3, <3>4, <3>5
  <2> QED  BY <2>2, <2>3, <2>4
<1>3. ASSUME NEW c, down' = [down EXCEPT ![c] = << >>]
      PROVE  InReply(d, k, i, t)
  BY <1>0, <1>3 DEF InReply
<1>4. CASE UNCHANGED down
  BY <1>4 DEF InReply
<1> QED
  BY <1>1, <1>2, <1>3, <1>4 DEF Next, Client, Caller, Server, vars,
     networkVars, Call, CallUnencodable, Interrupt, CloseSocket, Close,
     Connect, ConnectRefused, Send, SocketError, HeadDeadline, TailDeadline,
     Accept, Mismatch, Finish, Retry, GiveUp, ServerClose, Reset

LEMMA AnswerInit == Init => AnswerInv
  BY EmptySeq DEF Init, AnswerInv, RepliesExecuted, OnlyThisTry, ReadThisTry,
     Outcome, InReply, OnWire, Conns, None

LEMMA AnswerStep ==
  ASSUME TypeInv, HistoryInv, AnswerInv, [Next]_vars
  PROVE  AnswerInv'
<1>0. /\ socket \in 0 .. conns /\ rfile \in 0 .. conns /\ conns \in 0 .. MaxConns
      /\ message_count \in Nat /\ tryn \in Tries
      /\ up \in [Conns -> Seq(Request)] /\ down \in [Conns -> Seq(Reply)]
      /\ Shape /\ HistoryInv
      /\ RepliesExecuted /\ OnlyThisTry /\ ReadThisTry /\ Outcome
  BY RpcAssumption DEF TypeInv, TypeOK, AnswerInv
<1>1. RepliesExecuted'
  <2> SUFFICES ASSUME NEW c \in Conns, NEW k \in Nat, NEW i \in Ids,
                      NEW t \in Tries, InReply(c, k, i, t)'
               PROVE  executed'[<<i, t>>] > 0
    BY DEF RepliesExecuted
  <2>1. CASE \E l \in Nat : InReply(c, l, i, t)
    BY <1>0, <2>1, ExecutedGrows DEF RepliesExecuted
  <2> QED  BY <2>1, ReplySteps
(* What is in a stream was sent. *)
<1>2. ASSUME NEW c \in Conns, NEW k \in Nat, NEW i \in Ids, NEW t \in Tries,
             OnWire(c, k, i, t) \/ InReply(c, k, i, t)
      PROVE  i <= message_count
  <2>1. Sent(i, t)
    BY <1>0, <1>2 DEF HistoryInv, UpFresh, ExecutedOnce, RepliesExecuted
  <2> QED  BY <1>0, <2>1 DEF Sent, Ids
<1>3. ASSUME NEW c \in Conns, NEW k \in Nat, NEW i \in Ids, NEW t \in Tries,
             OnWire(c, k, i, t)' \/ InReply(c, k, i, t)'
      PROVE  \/ \E l \in Nat : OnWire(c, l, i, t) \/ InReply(c, l, i, t)
             \/ c = socket /\ i = message_count /\ t = tryn
  BY <1>3, WireSteps, ReplySteps
<1>4. OnlyThisTry'
  <2> SUFFICES ASSUME NEW c \in Conns, NEW k \in Nat, NEW i \in Ids,
                      NEW t \in Tries, c = socket', i = message_count',
                      OnWire(c, k, i, t)' \/ InReply(c, k, i, t)'
               PROVE  t = tryn'
    BY DEF OnlyThisTry
  <2>1. CASE UNCHANGED <<socket, message_count, tryn>>
    <3>1. c = socket /\ i = message_count /\ tryn' = tryn
      BY <2>1
    <3>2. CASE \E l \in Nat : OnWire(c, l, i, t) \/ InReply(c, l, i, t)
      BY <1>0, <3>1, <3>2 DEF OnlyThisTry
    <3> QED  BY <1>3, <3>1, <3>2
  <2>2. CASE Call \/ CallUnencodable
    <3>1. i = message_count + 1 /\ UNCHANGED <<up, down>>
      BY <2>2 DEF Call, CallUnencodable, NextMessage, networkVars
    <3>2. OnWire(c, k, i, t) \/ InReply(c, k, i, t)
      BY <3>1 DEF OnWire, InReply
    <3> QED  BY <1>0, <1>2, <3>1, <3>2
  <2>3. CASE Connect
    <3>1. UNCHANGED <<message_count, tryn, up, down>>
      BY <2>3 DEF Connect
    <3>2. CASE UNCHANGED socket
      BY <2>1, <3>1, <3>2
    <3>3. CASE c = conns + 1
      <4>1. up[c] = << >> /\ down[c] = << >>
        BY <1>0, <3>3 DEF Shape
      <4> QED  BY <3>1, <4>1 DEF OnWire, InReply
    <3> QED  BY <2>3, <3>2, <3>3 DEF Connect
  <2>4. CASE CloseSocket
    BY <1>0, <2>4 DEF CloseSocket, None, Conns
  <2> QED
    BY <2>1, <2>2, <2>3, <2>4 DEF Next, Client, Caller, Server, vars,
       clientVars, rpcVars, Interrupt, Close, ConnectRefused, Send,
       SocketError, ReadHead, ReadTail, HeadDeadline, TailDeadline, Accept,
       Mismatch, Finish, Retry, GiveUp, Serve, ServeAndDie, ServerClose, Reset
<1>5. ReadThisTry'
  <2>1. CASE ReadHead
    <3> DEFINE b == Head(down[rfile])
    <3>1. rfile \in Conns /\ rfile = socket /\ down[rfile] # << >>
      BY <1>0, <2>1, RpcAssumption DEF ReadHead, Arrive, Shape, Conns, None
    <3>2. /\ UNCHANGED <<message_count, tryn, executed, outcome>>
          /\ pc # "idle"
          /\ \/ response' \in {Unread, [id |-> b.id, try |-> b.try,
                                        kind |-> b.kind]}
             \/ response' \in Nested
      BY <2>1 DEF ReadHead, clientVars, historyVars
    <3>3. message_count # 0
      BY <1>0, <3>2 DEF Shape
    <3>4. down[rfile] \in Seq(Reply)
      BY <1>0, <3>1
    <3>5. b \in Reply /\ 1 \in DOMAIN down[rfile] /\ b = down[rfile][1]
      BY <3>1, <3>4, HeadTailProperties
    <3>6. PICK i \in Ids, t \in Tries : i = b.id /\ t = b.try
      BY <3>5 DEF Reply
    <3>7. PICK c \in Conns : c = rfile
      BY <3>1
    <3>8. InReply(c, 1, i, t)
      BY <3>5, <3>6, <3>7 DEF InReply
    <3>9. i = message_count => t = tryn /\ executed[<<i, t>>] > 0
      BY <1>0, <3>1, <3>7, <3>8 DEF OnlyThisTry, RepliesExecuted
    <3>10. \A x \in Nested \cup {Unread} : x.try = NoTry
      BY DEF Nested, Unread
    <3> QED  BY <3>2, <3>6, <3>9, <3>10 DEF ReadThisTry
  <2>2. CASE /\ pc' \in {"tail", "check"} => pc \in {"tail", "check"}
             /\ outcome' \in {"result", "error"} =>
                  \/ outcome \in {"result", "error"}
                  \/ pc \in {"tail", "check"}
             /\ UNCHANGED <<response, message_count, tryn>>
    BY <1>0, <2>2, ExecutedGrows DEF ReadThisTry
  <2>3. CASE /\ pc' \notin {"tail", "check"}
             /\ outcome' \notin {"result", "error"}
    BY <2>3 DEF ReadThisTry
  <2>4. CASE Retry
    BY <1>0, <2>4 DEF Retry, ReadThisTry, Outcome
  <2> QED
    BY <1>0, <2>1, <2>2, <2>3, <2>4 DEF Outcome, Next, Client, Caller, Server,
       vars, clientVars, rpcVars, historyVars, Call, CallUnencodable,
       NextMessage, Interrupt, Close, Connect, ConnectRefused, Send,
       SocketError, ReadTail, HeadDeadline, TailDeadline, Accept, Mismatch,
       Finish, GiveUp, Serve, ServeAndDie, ServerClose, Reset
<1>6. Outcome'
  <2>1. CASE Accept
    <3>1. message_count # None /\ response.id # None
      BY <1>0, <2>1 DEF Accept, Shape, None
    <3>2. response.kind \in {"result", "error"}
      BY <3>1 DEF Shape, TypeInv, TypeOK
    <3> QED  BY <2>1, <3>1, <3>2 DEF Accept, Finish, Outcome, clientVars
  <2>2. CASE pc' = "idle" /\ outcome' \in {"failed", "interrupted", "unencodable"}
    BY <2>2 DEF Outcome
  <2>3. CASE pc' # "idle" /\ outcome' = "pending"
    BY <2>3 DEF Outcome
  <2>4. CASE pc' = pc /\ UNCHANGED <<outcome, message_count, response>>
    BY <1>0, <2>4 DEF Outcome
  <2> QED
    BY <1>0, <2>1, <2>2, <2>3, <2>4 DEF Outcome, Next, Client, Caller, Server,
       vars, clientVars, rpcVars, historyVars, Call, CallUnencodable,
       NextMessage, Interrupt, Close, Connect, ConnectRefused, Send,
       SocketError, ReadHead, ReadTail, HeadDeadline, TailDeadline, Mismatch,
       Finish, Retry, GiveUp, Serve, ServeAndDie, ServerClose, Reset
<1> QED  BY <1>1, <1>4, <1>5, <1>6 DEF AnswerInv

RpcInv == TypeInv /\ HistoryInv /\ AnswerInv

LEMMA Invariance == Spec => []RpcInv
<1>1. Init => RpcInv
  BY InitType, HistoryInit, AnswerInit DEF RpcInv
<1>2. RpcInv /\ [Next]_vars => RpcInv'
  BY NextType, HistoryStep, AnswerStep DEF RpcInv
<1> QED  BY <1>1, <1>2, PTL DEF Spec

-----------------------------------------------------------------------------
(* A connection without remains of an earlier call *)

\* The one request of this try, the one reply to it from the byte `at' on.
OneRequest == down[socket] = << >> /\ Len(up[socket]) = 1
OneReply(at) ==
  /\ up[socket] = << >>
  /\ Len(down[socket]) = 1 /\ Head(down[socket]).at = at

(* The current call has ended, and it may leave something behind. *)
MayLeave ==
  \/ outcome \in {"failed", "interrupted"}
  \/ outcome \in {"result", "error"} /\ got < TailLen

(* What is on the connection of a call that began with nothing on it: what *)
(* it asked for itself.                                                    *)
Clean ==
  /\ pc \in {"conn", "send"} => Drained
  /\ pc = "head" => Drained \/ OneRequest \/ OneReply(1)
  /\ pc = "tail" => Drained \/ OneReply(got + 2)
  /\ pc = "check" /\ got = TailLen => Drained
  /\ pc = "idle" /\ ~MayLeave => Drained
  /\ pc \in {"tail", "check"} \/ outcome \in {"result", "error"}
       => response.try # NoTry

CleanInv ==
  /\ ~stale => Clean
  /\ stale /\ outcome # "unencodable" => tryn = 0

LEMMA CleanInit == Init => CleanInv
  BY DEF Init, CleanInv, Clean, Drained

(* A sequence with one element is its head. *)
LEMMA OneElement ==
  ASSUME NEW S, NEW s \in Seq(S), Len(s) = 1
  PROVE  s # << >> /\ Head(s) = s[1] /\ Tail(s) = << >> /\ 1 \in DOMAIN s
<1>1. s # << >> /\ 1 \in DOMAIN s
  OBVIOUS
<1>2. Len(Tail(s)) = 0 /\ Tail(s) \in Seq(S)
  BY <1>1, HeadTailProperties
<1>3. Tail(s) = << >>
  BY <1>2, EmptySeq
<1>4. Head(s) = s[1]
  BY <1>1
<1> QED  BY <1>1, <1>3, <1>4

(* A step on another connection changes nothing on this one. *)
LEMMA OtherConnection ==
  ASSUME TypeInv, NEW c \in Conns, NEW d \in Conns, c # d,
         Server(c) \/ Reset(c)
  PROVE  up'[d] = up[d] /\ down'[d] = down[d] /\ peer'[d] = peer[d]
<1>0. /\ up \in [Conns -> Seq(Request)] /\ down \in [Conns -> Seq(Reply)]
      /\ peer \in [Conns -> {"new", "open", "fin", "rst", "shut"}]
  BY DEF TypeInv, TypeOK
<1>1. up'[d] = up[d]
  BY <1>0 DEF Server, Serve, ServeAndDie, ServerClose, Reset
<1>2. down'[d] = down[d]
  <2>1. \/ UNCHANGED down
        \/ down' = [down EXCEPT ![c] = << >>]
        \/ \E kind, last : Answer(c, kind, last)
    BY DEF Server, Serve, ServeAndDie, ServerClose, Reset
  <2> QED  BY <1>0, <2>1 DEF Answer
<1>3. peer'[d] = peer[d]
  BY <1>0 DEF Server, Serve, ServeAndDie, ServerClose, Reset
<1> QED  BY <1>1, <1>2, <1>3

(* What a server or the network does to the streams of a connection. *)
LEMMA StreamSteps ==
  ASSUME TypeInv, NEW c \in Conns, Server(c) \/ Reset(c)
  PROVE  \/ /\ up[c] # << >> /\ up'[c] \in {Tail(up[c]), << >>}
            /\ \/ down'[c] = down[c]
               \/ \E r : r.at = 1 /\ down'[c] = Append(down[c], r)
         \/ up'[c] = << >> /\ down'[c] \in {down[c], << >>}
<1>0. up \in [Conns -> Seq(Request)] /\ down \in [Conns -> Seq(Reply)]
  BY DEF TypeInv, TypeOK
<1>1. CASE Serve(c) \/ ServeAndDie(c)
  <2>1. up[c] # << >> /\ up'[c] \in {Tail(up[c]), << >>}
    BY <1>0, <1>1 DEF Serve, ServeAndDie, Execute
  <2>2. UNCHANGED down \/ \E kind, last : Answer(c, kind, last)
    BY <1>1 DEF Serve, ServeAndDie
  <2>3. ASSUME NEW kind, NEW last, Answer(c, kind, last)
        PROVE  \E r : r.at = 1 /\ down'[c] = Append(down[c], r)
    <3> DEFINE e == [id |-> Head(up[c]).id, try |-> Head(up[c]).try,
                     kind |-> kind, at |-> 1, last |-> last]
    <3>1. e.at = 1
      OBVIOUS
    <3>2. down' = [down EXCEPT ![c] = Append(down[c], e)]
      BY <2>3 DEF Answer
    <3> HIDE DEF e
    <3>3. down'[c] = Append(down[c], e)
      BY <1>0, <3>2
    <3> QED  BY <3>1, <3>3
  <2> QED  BY <2>1, <2>2, <2>3
<1>2. CASE ServerClose(c) \/ Reset(c)
  BY <1>0, <1>2 DEF ServerClose, Reset
<1> QED  BY <1>1, <1>2 DEF Server

(* The next byte of the only reply: the rest of it is what is left. *)
LEMMA OneReplyRest ==
  ASSUME NEW s \in Seq(Reply), Len(s) = 1
  PROVE  \/ Rest(s) = << >>
         \/ /\ Len(Rest(s)) = 1 /\ Head(Rest(s)).at = Head(s).at + 1
            /\ Head(s).at <= TailLen
<1> DEFINE b == Head(s)
<1>1. b = s[1] /\ b \in Reply /\ Tail(s) = << >> /\ 1 \in DOMAIN s
  BY OneElement, HeadTailProperties
<1>2. CASE b.at = b.last
  BY <1>1, <1>2 DEF Rest
<1>3. CASE b.at # b.last
  <2> DEFINE e == [b EXCEPT !.at = b.at + 1]
  <2>1. Rest(s) = [s EXCEPT ![1] = e]
    BY <1>3 DEF Rest
  <2>2. e.at = b.at + 1
    BY <1>1 DEF Reply
  <2>3. b.at <= TailLen
    BY <1>1, <1>3, RpcAssumption DEF Reply, Bytes
  <2> HIDE DEF e
  <2>4. Len(Rest(s)) = 1 /\ Rest(s)[1] = e
    BY <1>1, <2>1
  <2>5. Head(Rest(s)) = Rest(s)[1]
    OBVIOUS
  <2> QED  BY <2>2, <2>3, <2>4, <2>5
<1> QED  BY <1>2, <1>3

LEMMA CleanStep ==
  ASSUME TypeInv, AnswerInv, CleanInv, [Next]_vars
  PROVE  CleanInv'
<1>0. /\ socket \in 0 .. conns /\ conns \in 0 .. MaxConns
      /\ got \in 0 .. TailLen /\ MaxConns \in Nat /\ TailLen \in Nat \ {0}
      /\ up \in [Conns -> Seq(Request)] /\ down \in [Conns -> Seq(Reply)]
      /\ Shape /\ Outcome /\ stale \in BOOLEAN
  BY RpcAssumption DEF TypeInv, TypeOK, AnswerInv
<1>1. socket # None => socket \in Conns
  BY <1>0 DEF Conns, None
<1>2. pc \in {"head", "tail"} => rfile = socket /\ socket # None
  BY <1>0 DEF Shape
<1>3. (stale /\ outcome # "unencodable" => tryn = 0)'
  <2>1. CASE Call \/ CallUnencodable \/ Retry
    BY <2>1 DEF Call, CallUnencodable, Retry
  <2>2. CASE UNCHANGED <<tryn, stale>> /\ (UNCHANGED outcome \/ pc # "idle")
    BY <1>0, <2>2 DEF CleanInv, Outcome
  <2> QED
    BY <2>1, <2>2 DEF Next, Client, Caller, Server, vars, rpcVars,
       historyVars, Interrupt, Close, Connect, ConnectRefused, Send,
       SocketError, ReadHead, ReadTail, HeadDeadline, TailDeadline, Accept,
       Mismatch, Finish, GiveUp, Serve, ServeAndDie, ServerClose, Reset
<1> SUFFICES ASSUME ~stale' PROVE Clean'
  BY <1>3 DEF CleanInv
<1>4. CASE Call \/ CallUnencodable
  <2>1. Drained /\ UNCHANGED <<socket, up, down>>
    BY <1>4 DEF Call, CallUnencodable, NextMessage, networkVars
  <2>2. Drained'
    BY <2>1 DEF Drained
  <2>3. \/ pc' = "conn" /\ outcome' = "pending"
        \/ pc' = "idle" /\ outcome' = "unencodable"
    BY <1>4 DEF Call, CallUnencodable, NextMessage, rpcVars
  <2> QED  BY <2>2, <2>3 DEF Clean
<1>5. CASE Retry
  <2>1. pc' = "conn" /\ UNCHANGED outcome /\ socket' = None
    BY <1>5 DEF Retry, CloseSocket
  <2>2. outcome = "pending"
    BY <1>0, <1>5 DEF Retry, Outcome
  <2> QED  BY <2>1, <2>2 DEF Clean, Drained
<1>6. ASSUME UNCHANGED stale, ~Call, ~CallUnencodable, ~Retry
      PROVE  Clean'
  <2>0. Clean
    BY <1>6 DEF CleanInv
  <2>1. CASE Close
    <3>1. socket' = None /\ UNCHANGED <<pc, got, outcome, response>>
      BY <2>1 DEF Close, CloseSocket, rpcVars, historyVars
    <3> QED  BY <2>0, <2>1, <3>1 DEF Clean, Close, Drained, MayLeave
  <2>2. CASE Interrupt \/ GiveUp
    BY <2>2 DEF Interrupt, GiveUp, Finish, Clean, MayLeave
  <2>3. CASE Connect
    <3>1. UNCHANGED <<up, down, outcome>> /\ pc' \in {"send", "except"}
      BY <2>3 DEF Connect
    <3>2. outcome = "pending"
      BY <1>0, <2>3 DEF Connect, Outcome
    <3>3. CASE UNCHANGED socket
      <4>1. Drained'
        BY <2>0, <2>3, <3>1, <3>3 DEF Clean, Drained, Connect
      <4> QED  BY <3>1, <3>2, <4>1 DEF Clean
    <3>4. CASE conns < MaxConns /\ socket' = conns + 1
      <4> DEFINE n == conns + 1
      <4>1. n \in Conns /\ n > conns
        BY <1>0, <3>4 DEF Conns
      <4>2. up[n] = << >> /\ down[n] = << >>
        BY <1>0, <4>1 DEF Shape
      <4>3. Drained'
        BY <3>1, <3>4, <4>2 DEF Drained
      <4> QED  BY <3>1, <3>2, <4>3 DEF Clean
    <3> QED  BY <2>3, <3>3, <3>4 DEF Connect
  <2>4. CASE Send
    <3> DEFINE r(w) == [id |-> message_count, try |-> tryn, whole |-> w]
    <3>1. /\ pc = "send" /\ pc' = "head" /\ socket # None /\ Drained
          /\ UNCHANGED <<socket, down, outcome>>
      BY <1>0, <2>0, <2>4 DEF Send, Clean, Shape
    <3>2. UNCHANGED up
            \/ \E w \in BOOLEAN :
                 up' = [up EXCEPT ![socket] = Append(up[socket], r(w))]
      BY <2>4 DEF Send
    <3>3. CASE UNCHANGED up
      <4>1. Drained'
        BY <3>1, <3>3 DEF Drained
      <4> QED  BY <1>0, <3>1, <4>1 DEF Clean, Outcome
    <3>4. ASSUME NEW w \in BOOLEAN,
                 up' = [up EXCEPT ![socket] = Append(up[socket], r(w))]
          PROVE  Clean'
      <4> DEFINE e == r(w)
      <4>1. up' = [up EXCEPT ![socket] = Append(up[socket], e)]
        BY <3>4
      <4> HIDE DEF e
      <4>2. up'[socket] = Append(<< >>, e)
        BY <1>0, <1>1, <3>1, <4>1 DEF Drained
      <4>3. Len(up'[socket]) = 1
        BY <4>2
      <4>4. OneRequest'
        BY <3>1, <4>3 DEF OneRequest, Drained
      <4> QED  BY <1>0, <3>1, <4>4 DEF Clean, Outcome
    <3> QED  BY <3>2, <3>3, <3>4
  <2>5. CASE ReadHead \/ ReadTail
    <3>1. /\ pc \in {"head", "tail"} /\ down[socket] # << >>
          /\ down' = [down EXCEPT ![socket] = Rest(down[socket])]
          /\ UNCHANGED <<socket, up, outcome>>
      BY <1>2, <2>5 DEF ReadHead, ReadTail, Arrive, clientVars, historyVars
    <3>2. outcome = "pending" /\ socket # None /\ ~Drained /\ ~OneRequest
      BY <1>0, <1>2, <3>1 DEF Outcome, Drained, OneRequest
    <3> DEFINE b == Head(down[socket])
    <3>3. /\ up[socket] = << >> /\ Len(down[socket]) = 1
          /\ pc = "head" => b.at = 1
          /\ pc = "tail" => b.at = got + 2
      BY <2>0, <3>1, <3>2 DEF Clean, OneReply
    <3>4. \/ Rest(down[socket]) = << >>
          \/ /\ Len(Rest(down[socket])) = 1
             /\ Head(Rest(down[socket])).at = b.at + 1 /\ b.at <= TailLen
      BY <1>0, <1>1, <3>2, <3>3, OneReplyRest
    <3>5. down'[socket'] = Rest(down[socket]) /\ up'[socket'] = << >>
      BY <1>0, <1>1, <3>1, <3>2, <3>3
    <3>6. PICK n : n = b.at + 1
      OBVIOUS
    <3>7. Drained' \/ (OneReply(n)' /\ b.at <= TailLen)
      BY <3>4, <3>5, <3>6 DEF Drained, OneReply
    <3>8. CASE ReadHead
      <4>1. b.at = 1 /\ pc = "head"
        BY <3>3, <3>8 DEF ReadHead
      <4>2. /\ pc' = "tail" /\ got' = 0
            /\ response' = [id |-> b.id, try |-> b.try, kind |-> b.kind]
        BY <1>2, <3>8, <4>1 DEF ReadHead
      <4>3. b \in Reply
        BY <1>0, <1>1, <3>1, <3>2, HeadTailProperties
      <4>4. response'.try # NoTry
        BY <4>2, <4>3, RpcAssumption DEF Reply, NoTry, Tries
      <4>5. n = got' + 2
        BY <3>6, <4>1, <4>2
      <4>6. Drained' \/ OneReply(got + 2)'
        BY <3>7, <4>5 DEF OneReply
      <4> QED  BY <3>1, <3>2, <4>2, <4>4, <4>6 DEF Clean
    <3>9. CASE ReadTail
      <4>1. /\ b.at = got + 2 /\ pc = "tail" /\ got' = got + 1
            /\ pc' = IF got + 1 = TailLen THEN "check" ELSE "tail"
            /\ UNCHANGED response
        BY <3>3, <3>9 DEF ReadTail, Enough
      <4>2. response.try # NoTry
        BY <2>0, <4>1 DEF Clean
      <4>3. CASE got + 1 = TailLen
        <5>1. Drained'
          BY <1>0, <3>7, <4>1, <4>3
        <5> QED  BY <3>1, <3>2, <4>1, <4>2, <4>3, <5>1 DEF Clean
      <4>4. CASE got + 1 # TailLen
        <5>1. n = got' + 2
          BY <1>0, <3>6, <4>1
        <5>2. Drained' \/ OneReply(got + 2)'
          BY <3>7, <5>1 DEF OneReply
        <5> QED  BY <3>1, <3>2, <4>1, <4>2, <4>4, <5>2 DEF Clean
      <4> QED  BY <4>3, <4>4
    <3> QED  BY <2>5, <3>8, <3>9
  <2>6. CASE TailDeadline
    <3>1. /\ pc = "tail" /\ pc' \in {"check", "except"} /\ got < TailLen
          /\ UNCHANGED <<got, response, outcome>> /\ outcome = "pending"
      BY <1>0, <2>6 DEF TailDeadline, Shape, Outcome
    <3> QED  BY <1>0, <2>0, <3>1 DEF Clean
  <2>7. CASE Accept
    <3>1. /\ pc = "check" /\ pc' = "idle" /\ UNCHANGED <<got, response>>
          /\ UNCHANGED <<socket, up, down>> /\ outcome' = response.kind
      BY <2>7 DEF Accept, Finish, clientVars, networkVars
    <3>2. outcome' \in {"result", "error"}
      <4>1. response.id # None
        BY <1>0, <2>7 DEF Accept, Shape, None
      <4> QED  BY <1>0, <3>1, <4>1 DEF Shape, TypeInv, TypeOK
    <3>3. response.try # NoTry /\ (got = TailLen => Drained)
      BY <2>0, <3>1 DEF Clean
    <3>4. ~MayLeave' => Drained'
      BY <1>0, <3>1, <3>2, <3>3 DEF MayLeave, Drained
    <3> QED  BY <3>1, <3>3, <3>4 DEF Clean
  <2>8. CASE /\ pc # "idle" /\ pc' = "except" /\ UNCHANGED outcome
    BY <1>0, <2>8 DEF Clean, Outcome
  <2>9. ASSUME UNCHANGED <<socket, pc, got, response, outcome>>,
               socket \in Conns =>
                 up'[socket] = up[socket] /\ down'[socket] = down[socket]
        PROVE  Clean'
    <3>1. UNCHANGED <<Drained, MayLeave>>
      BY <1>1, <2>9 DEF Drained, MayLeave
    <3>2. pc \in {"head", "tail"} =>
            up'[socket'] = up[socket] /\ down'[socket'] = down[socket]
      BY <1>1, <1>2, <2>9
    <3>3. pc = "head" => (Drained \/ OneRequest \/ OneReply(1))'
      BY <2>0, <3>1, <3>2 DEF Clean, OneRequest, OneReply
    <3>4. pc = "tail" => (Drained \/ OneReply(got + 2))'
      BY <2>0, <2>9, <3>1, <3>2 DEF Clean, OneReply
    <3> QED  BY <2>0, <2>9, <3>1, <3>3, <3>4 DEF Clean
  <2>10. ASSUME NEW c \in Conns, Server(c) \/ Reset(c)
         PROVE  Clean'
    <3>1. UNCHANGED <<socket, pc, got, response, outcome>>
      BY <2>10 DEF Server, Serve, ServeAndDie, ServerClose, Reset, clientVars,
         rpcVars
    <3>2. CASE c # socket
      <4>1. socket \in Conns =>
              up'[socket] = up[socket] /\ down'[socket] = down[socket]
        BY <2>10, <3>2, OtherConnection
      <4> QED  BY <2>9, <3>1, <4>1
    <3>3. CASE c = socket
      <4>1. c # None
        BY <3>3 DEF Conns, None
      <4>2. /\ Drained <=> up[c] = << >> /\ down[c] = << >>
            /\ Drained' <=> up'[c] = << >> /\ down'[c] = << >>
        BY <3>1, <3>3, <4>1 DEF Drained
      <4>3. UNCHANGED MayLeave
        BY <3>1 DEF MayLeave
      <4>4. CASE Drained
        <5>1. Drained'
          BY <2>10, <4>2, <4>4, StreamSteps
        <5> QED  BY <2>0, <3>1, <4>3, <5>1 DEF Clean
      <4>5. CASE pc = "head" /\ OneRequest
        <5>1. Drained' \/ OneRequest' \/ OneReply(1)'
          <6>1. up[c] \in Seq(Request) /\ Len(up[c]) = 1 /\ down[c] = << >>
            BY <1>0, <3>3, <4>5 DEF OneRequest
          <6>2. Tail(up[c]) = << >>
            BY <6>1, OneElement
          <6>3. CASE down'[c] = << >> /\ up'[c] = << >>
            BY <4>2, <6>3
          <6>4. ASSUME NEW e, e.at = 1, down'[c] = Append(<< >>, e),
                       up'[c] = << >>
                PROVE  OneReply(1)'
            <7>1. Len(down'[c]) = 1 /\ Head(down'[c]) = e
              BY <6>4
            <7> QED  BY <3>1, <3>3, <6>4, <7>1 DEF OneReply
          <6> QED  BY <2>10, <6>1, <6>2, <6>3, <6>4, StreamSteps
        <5> QED  BY <2>0, <3>1, <4>5, <5>1 DEF Clean, Outcome, AnswerInv
      <4>6. ASSUME NEW at, OneReply(at)
            PROVE  Drained' \/ OneReply(at)'
        <5>1. up[c] = << >>
          BY <3>3, <4>6 DEF OneReply
        <5>2. up'[c] = << >> /\ down'[c] \in {down[c], << >>}
          BY <2>10, <5>1, StreamSteps
        <5>3. CASE down'[c] = << >>
          BY <4>2, <5>2, <5>3
        <5>4. CASE down'[c] = down[c]
          BY <3>1, <3>3, <4>6, <5>2, <5>4 DEF OneReply
        <5> QED  BY <5>2, <5>3, <5>4
      <4>7. CASE ~Drained /\ ~(pc = "head" /\ OneRequest)
        <5>1. pc = "head" => (Drained \/ OneReply(1))'
          BY <2>0, <4>6, <4>7 DEF Clean
        <5>2. pc = "tail" => (Drained' \/ OneReply(got + 2)')
          <6>1. PICK n : n = got + 2
            OBVIOUS
          <6>2. pc = "tail" => Drained' \/ OneReply(n)'
            BY <2>0, <4>6, <4>7, <6>1 DEF Clean
          <6> QED  BY <3>1, <6>1, <6>2 DEF OneReply
        <5> QED  BY <2>0, <3>1, <4>3, <4>7, <5>1, <5>2 DEF Clean
      <4> QED  BY <4>4, <4>5, <4>7
    <3> QED  BY <3>2, <3>3
  <2>11. CASE UNCHANGED vars
    BY <2>9, <2>11 DEF vars, clientVars, rpcVars, networkVars, historyVars
  <2> QED
    BY <1>6, <2>1, <2>2, <2>3, <2>4, <2>5, <2>6, <2>7, <2>8, <2>10, <2>11
    DEF Next, Client, Caller, ConnectRefused, SocketError, HeadDeadline,
        Mismatch, historyVars
<1> QED
  BY <1>4, <1>5, <1>6 DEF Next, Client, Caller, Server, vars, historyVars,
     Interrupt, Close, Connect, ConnectRefused, Send, SocketError, ReadHead,
     ReadTail, HeadDeadline, TailDeadline, Accept, Mismatch, Finish, GiveUp,
     Serve, ServeAndDie, ServerClose, Reset

LEMMA Cleanliness == Spec => []CleanInv
<1>1. RpcInv /\ CleanInv /\ [Next]_vars => CleanInv'
  BY CleanStep DEF RpcInv
<1> QED  BY <1>1, CleanInit, Invariance, PTL DEF Spec

(* No reply of another call or of an earlier try is ever taken for the     *)
(* answer, whatever is left in the connections, and a piece of one is only *)
(* by a first try that began on a connection with remains in it.           *)
THEOREM AnswerBelongs == Spec => []AnswerFromThisTry
<1>1. RpcInv /\ CleanInv => AnswerFromThisTry
  <2> SUFFICES ASSUME RpcInv, CleanInv, outcome \in {"result", "error"}
               PROVE  /\ response.id = message_count
                      /\ response.kind = outcome
                      /\ \/ /\ response.try = tryn
                            /\ executed[<<message_count, tryn>>] > 0
                         \/ response.try = NoTry /\ stale /\ tryn = 0
    BY DEF AnswerFromThisTry
  <2>1. response.id = message_count /\ response.kind = outcome
    BY DEF RpcInv, AnswerInv, Outcome
  <2>2. message_count \in Ids /\ tryn \in Tries
    BY RpcAssumption
    DEF RpcInv, AnswerInv, Outcome, TypeInv, TypeOK, Ids, None
  <2>3. CASE response.try # NoTry
    BY <2>1, <2>2, <2>3 DEF RpcInv, AnswerInv, ReadThisTry
  <2>4. CASE response.try = NoTry
    <3>1. stale
      BY <2>4 DEF CleanInv, Clean
    <3>2. tryn = 0
      BY <3>1 DEF CleanInv
    <3> QED  BY <2>1, <2>4, <3>1, <3>2
  <2> QED  BY <2>1, <2>3, <2>4
<1> QED  BY <1>1, Invariance, Cleanliness, PTL

-----------------------------------------------------------------------------
(* A call whose connection was never disturbed does not fail *)

(* The request of this try is all that is on the connection. *)
Asked ==
  /\ down[socket] = << >>
  /\ Len(up[socket]) = 1
  /\ Head(up[socket]).id = message_count /\ Head(up[socket]).whole

(* The reply to it is, from the byte `at' to its end. *)
Answered(at) ==
  /\ up[socket] = << >>
  /\ Len(down[socket]) = 1
  /\ LET b == Head(down[socket]) IN
       b.id = message_count /\ b.at = at /\ b.last = TailLen + 1

(* Client and server agree on where in the stream they are. *)
InStep ==
  /\ pc # "except"
  /\ pc = "conn" => socket = None
  /\ pc \in {"send", "head", "tail"} => peer[socket] = "open"
  /\ pc = "send" => up[socket] = << >> /\ down[socket] = << >>
  /\ pc = "head" => Asked \/ Answered(1)
  /\ pc = "tail" => Answered(got + 2)
  /\ pc \in {"tail", "check"} => response.id = message_count

(* The first try may meet what an interrupted call left behind; a later    *)
(* one has a connection of its own.                                        *)
FreshInv == tryn > 0 /\ ~faulty => pc = "idle" \/ InStep

(* The steps by which a try goes on undisturbed, and the rest. *)
LEMMA TrySteps ==
  ASSUME TypeInv, [Next]_vars, tryn' > 0, ~faulty', pc' # "idle"
  PROVE  \/ Retry
         \/ /\ pc # "idle" /\ ~faulty /\ tryn' = tryn
            /\ UNCHANGED message_count
            /\ \/ Connect \/ Send \/ ReadHead \/ HeadDeadline \/ ReadTail
               \/ Mismatch \/ SocketError
               \/ \E c \in Conns : c # socket /\ (Server(c) \/ Reset(c))
               \/ \E c \in Conns : Serve(c)
               \/ UNCHANGED vars
<1>0. faulty \in BOOLEAN /\ tryn \in Nat
  BY RpcAssumption DEF TypeInv, TypeOK, Tries
<1>1. CASE Caller
  BY <1>1 DEF Caller, Call, CallUnencodable, NextMessage, Interrupt, Close,
     rpcVars
<1>2. CASE ConnectRefused \/ TailDeadline \/ Accept \/ GiveUp
  BY <1>2 DEF ConnectRefused, TailDeadline, Accept, GiveUp, Finish
<1>3. CASE Connect \/ Send
  BY <1>0, <1>3 DEF Connect, Send
<1>4. CASE ReadHead \/ HeadDeadline \/ ReadTail \/ Mismatch \/ SocketError
  BY <1>4 DEF ReadHead, HeadDeadline, ReadTail, Mismatch, SocketError,
     clientVars, historyVars
<1>5. ASSUME NEW c \in Conns, Server(c) \/ Reset(c)
      PROVE  /\ pc # "idle" /\ ~faulty /\ tryn' = tryn
             /\ UNCHANGED message_count
             /\ Serve(c) \/ c # socket
  BY <1>0, <1>5 DEF Server, Serve, ServeAndDie, ServerClose, Reset, Fault,
     rpcVars, clientVars
<1>6. CASE UNCHANGED vars
  BY <1>6 DEF vars, clientVars, rpcVars, historyVars
<1> QED  BY <1>1, <1>2, <1>3, <1>4, <1>5, <1>6 DEF Next, Client

(* The server takes the request and its whole reply is on the way. *)
LEMMA ServedInStep ==
  ASSUME TypeInv, NEW c \in Conns, c = socket, peer[c] = "open", Asked, Serve(c)
  PROVE  Answered(1)'
<1> DEFINE r == Head(up[c])
           a(kind) == [id |-> r.id, try |-> r.try, kind |-> kind,
                       at |-> 1, last |-> TailLen + 1]
<1>0. up \in [Conns -> Seq(Request)] /\ down \in [Conns -> Seq(Reply)]
  BY DEF TypeInv, TypeOK
<1>1. /\ up' = [up EXCEPT ![c] = Tail(up[c])]
      /\ UNCHANGED <<socket, message_count>>
  BY DEF Serve, clientVars
<1>2. PICK kind \in {"result", "error"} :
        down' = [down EXCEPT ![c] = Append(down[c], a(kind))]
  BY DEF Serve, Answer
<1>3. Tail(up[c]) = << >> /\ r.id = message_count
  BY <1>0, OneElement DEF Asked
<1> DEFINE e == a(kind)
<1>4. e.id = message_count /\ e.at = 1 /\ e.last = TailLen + 1
  BY <1>3
<1>5. down'[c] = Append(down[c], e) /\ down[c] = << >>
  BY <1>0, <1>2 DEF Asked
<1> HIDE DEF e
<1>6. Len(down'[c]) = 1 /\ Head(down'[c]) = e
  BY <1>5
<1>7. up'[c] = << >>
  BY <1>0, <1>1, <1>3
<1>8. down'[socket'] = down'[c] /\ up'[socket'] = up'[c]
  BY <1>1
<1> QED  BY <1>1, <1>4, <1>6, <1>7, <1>8 DEF Answered

(* The client reads the next byte of it. *)
LEMMA ArrivedInStep ==
  ASSUME TypeInv, NEW c \in Conns, c = socket, c = rfile,
         NEW at \in 1 .. TailLen, Answered(at), Arrive,
         UNCHANGED <<socket, message_count, up>>
  PROVE  Answered(at + 1)'
<1>0. down \in [Conns -> Seq(Reply)] /\ TailLen \in Nat
  BY RpcAssumption DEF TypeInv, TypeOK
<1> DEFINE b == Head(down[c])
           r == [b EXCEPT !.at = b.at + 1]
<1>1. /\ up[c] = << >> /\ Len(down[c]) = 1
      /\ b.id = message_count /\ b.at = at /\ b.last = TailLen + 1
  BY DEF Answered
<1>2. b \in Reply /\ 1 \in DOMAIN down[c]
  BY <1>0, <1>1, OneElement, HeadTailProperties
<1>3. Rest(down[c]) = [down[c] EXCEPT ![1] = r]
  <2>1. b.at # b.last
    BY <1>0, <1>1
  <2> QED  BY <2>1 DEF Rest
<1>4. r.id = message_count /\ r.at = at + 1 /\ r.last = TailLen + 1
  BY <1>1, <1>2 DEF Reply
<1>5. down'[c] = Rest(down[c])
  BY <1>0 DEF Arrive
<1> HIDE DEF r
<1>6. down'[c][1] = r /\ Len(down'[c]) = 1
  BY <1>0, <1>1, <1>2, <1>3, <1>5
<1>7. Head(down'[c]) = down'[c][1]
  OBVIOUS
<1> QED  BY <1>1, <1>4, <1>6, <1>7 DEF Answered

LEMMA FreshStep ==
  ASSUME TypeInv, FreshInv, [Next]_vars
  PROVE  FreshInv'
<1> SUFFICES ASSUME tryn' > 0, ~faulty', pc' # "idle"
             PROVE  InStep'
  BY DEF FreshInv
<1>0. /\ socket \in 0 .. conns /\ conns \in 0 .. MaxConns
      /\ got \in 0 .. TailLen /\ MaxConns \in Nat /\ TailLen \in Nat \ {0}
      /\ up \in [Conns -> Seq(Request)] /\ down \in [Conns -> Seq(Reply)]
      /\ peer \in [Conns -> {"new", "open", "fin", "rst", "shut"}]
      /\ Shape
  BY RpcAssumption DEF TypeInv, TypeOK
<1>1. CASE Retry
  <2>1. pc' = "conn" /\ socket' = None
    BY <1>1 DEF Retry, CloseSocket
  <2> QED  BY <2>1 DEF InStep
<1>2. ASSUME pc # "idle", ~faulty, tryn' = tryn, UNCHANGED message_count,
             \/ Connect \/ Send \/ ReadHead \/ HeadDeadline \/ ReadTail
             \/ Mismatch \/ SocketError
             \/ \E c \in Conns : c # socket /\ (Server(c) \/ Reset(c))
             \/ \E c \in Conns : Serve(c)
             \/ UNCHANGED vars
      PROVE  InStep'
  <2>0. InStep
    BY <1>2 DEF FreshInv
  <2>1. socket # None => socket \in Conns
    BY <1>0 DEF Conns, None
  <2>2. pc \in {"send", "head", "tail"} => socket \in Conns
    BY <1>0, <2>1 DEF Shape
  <2>3. pc \in {"head", "tail"} => rfile = socket
    BY <1>0 DEF Shape
  <2>4. CASE Connect
    <3>1. /\ pc' = "send" /\ UNCHANGED <<up, down>>
          /\ conns < MaxConns /\ socket' = conns + 1
          /\ peer' = [peer EXCEPT ![conns + 1] = "open"]
      BY <2>0, <2>4 DEF Connect, InStep
    <3> DEFINE n == conns + 1
    <3>2. n \in Conns /\ n > conns
      BY <1>0, <3>1 DEF Conns
    <3>3. up[n] = << >> /\ down[n] = << >>
      BY <1>0, <3>2 DEF Shape
    <3>4. socket' = n /\ peer'[n] = "open" /\ up'[n] = << >> /\ down'[n] = << >>
      BY <1>0, <3>1, <3>2, <3>3
    <3> HIDE DEF n
    <3> QED  BY <3>1, <3>4 DEF InStep
  <2>5. CASE Send
    <3> DEFINE r == [id |-> message_count, try |-> tryn, whole |-> TRUE]
    <3>1. /\ pc = "send" /\ pc' = "head"
          /\ UNCHANGED <<socket, peer, down>>
          /\ peer[socket] = "open" /\ up[socket] = << >> /\ down[socket] = << >>
      BY <2>0, <2>5 DEF Send, InStep
    <3>2. up' = [up EXCEPT ![socket] = Append(up[socket], r)]
      BY <2>5, <3>1 DEF Send
    <3>3. r.id = message_count /\ r.whole
      OBVIOUS
    <3> HIDE DEF r
    <3>4. up'[socket] = Append(<< >>, r)
      BY <1>0, <2>2, <3>1, <3>2
    <3>5. Len(up'[socket]) = 1 /\ Head(up'[socket]) = r
      BY <3>4
    <3>6. Asked'
      BY <1>2, <3>1, <3>3, <3>5 DEF Asked
    <3> QED  BY <3>1, <3>6 DEF InStep
  <2>6. CASE ReadHead
    <3>1. /\ pc = "head" /\ Arrive /\ got' = 0
          /\ UNCHANGED <<socket, rfile, peer, up>>
      BY <2>6 DEF ReadHead, clientVars
    <3>2. Answered(1) /\ peer[socket] = "open"
      BY <2>0, <2>3, <3>1 DEF InStep, Asked, Arrive
    <3>3. Answered(1 + 1)'
      <4>1. 1 \in 1 .. TailLen
        BY <1>0
      <4> QED  BY <1>2, <2>2, <2>3, <3>1, <3>2, <4>1, ArrivedInStep
    <3>4. Head(down[rfile]).at = 1 /\ Head(down[rfile]).id = message_count
      BY <2>3, <3>1, <3>2 DEF Answered
    <3>5. pc' = "tail" /\ response'.id = message_count
      BY <2>6, <3>4 DEF ReadHead
    <3>6. Answered(got + 2)'
      BY <3>1, <3>3 DEF Answered
    <3> QED  BY <1>2, <3>1, <3>2, <3>5, <3>6 DEF InStep
  <2>7. CASE ReadTail
    <3>1. /\ pc = "tail" /\ Arrive /\ got' = got + 1
          /\ pc' = IF got + 1 = TailLen THEN "check" ELSE "tail"
          /\ UNCHANGED <<socket, rfile, peer, up, response>>
      BY <2>7 DEF ReadTail, clientVars, Enough
    <3>2. /\ Answered(got + 2) /\ peer[socket] = "open"
          /\ response.id = message_count
      BY <2>0, <3>1 DEF InStep
    <3>3. CASE pc' = "check"
      BY <1>2, <3>1, <3>2, <3>3 DEF InStep
    <3>4. CASE pc' = "tail"
      <4>1. PICK n \in 1 .. TailLen : n = got + 2
        <5>1. got < TailLen /\ got + 1 # TailLen
          BY <1>0, <3>1, <3>4 DEF Shape
        <5> QED  BY <1>0, <5>1
      <4>2. Answered(n)
        BY <3>2, <4>1
      <4>3. Answered(n + 1)'
        <5>1. PICK c \in Conns : c = socket /\ c = rfile
          BY <2>2, <2>3, <3>1
        <5>2. UNCHANGED <<socket, message_count, up>>
          BY <1>2, <3>1
        <5> QED  BY <3>1, <4>2, <5>1, <5>2, ArrivedInStep
      <4>4. n + 1 = got' + 2
        BY <1>0, <3>1, <4>1
      <4>5. Answered(got + 2)'
        BY <4>3, <4>4 DEF Answered
      <4> QED  BY <1>2, <3>1, <3>2, <3>4, <4>5 DEF InStep
    <3> QED  BY <3>1, <3>3, <3>4
  <2>8. CASE HeadDeadline \/ Mismatch \/ SocketError
    <3>1. ~HeadDeadline
      BY <2>0, <2>3 DEF HeadDeadline, AtEnd, InStep
    <3>2. ~Mismatch
      BY <2>0 DEF Mismatch, InStep
    <3>3. ~SocketError
      BY <2>0, <2>3 DEF SocketError, InStep
    <3> QED  BY <2>8, <3>1, <3>2, <3>3
  <2>9. ASSUME UNCHANGED <<clientVars, rpcVars>>,
               socket \in Conns =>
                 /\ up'[socket] = up[socket] /\ down'[socket] = down[socket]
                 /\ peer'[socket] = peer[socket]
        PROVE  InStep'
    BY <2>0, <2>2, <2>9 DEF InStep, Asked, Answered, clientVars, rpcVars
  <2>10. ASSUME NEW c \in Conns, c # socket, Server(c) \/ Reset(c)
         PROVE  InStep'
    <3>1. UNCHANGED <<clientVars, rpcVars>>
      BY <2>10 DEF Server, Serve, ServeAndDie, ServerClose, Reset
    <3> QED  BY <2>9, <2>10, <3>1, OtherConnection
  <2>11. ASSUME NEW c \in Conns, c = socket, Serve(c)
         PROVE  InStep'
    <3>1. UNCHANGED <<clientVars, rpcVars, peer>> /\ up[socket] # << >>
      BY <2>11 DEF Serve, Execute
    <3>2. CASE pc = "head"
      <4>1. Asked /\ peer[c] = "open"
        BY <2>0, <2>11, <3>1, <3>2 DEF InStep, Answered
      <4>2. Answered(1)'
        BY <2>11, <4>1, ServedInStep
      <4> QED  BY <2>11, <3>1, <3>2, <4>1, <4>2 DEF InStep, clientVars, rpcVars
    <3>3. CASE pc # "head"
      <4>1. pc \notin {"send", "tail"}
        BY <2>0, <3>1 DEF InStep, Answered
      <4> QED  BY <2>0, <3>1, <3>3, <4>1 DEF InStep, clientVars, rpcVars
    <3> QED  BY <3>2, <3>3
  <2>12. CASE UNCHANGED vars
    BY <2>9, <2>12 DEF vars, networkVars
  <2> QED
    BY <1>2, <2>4, <2>5, <2>6, <2>7, <2>8, <2>10, <2>11, <2>12 DEF Server
<1> QED  BY <1>1, <1>2, TrySteps

LEMMA FailedStep ==
  ASSUME Retries > 0, TypeInv, AnswerInv, FreshInv, NoSpuriousFailure,
         [Next]_vars
  PROVE  NoSpuriousFailure'
<1>0. Outcome /\ faulty \in BOOLEAN /\ tryn \in Nat /\ Retries \in Nat
  BY RpcAssumption DEF AnswerInv, TypeInv, TypeOK, Tries
<1>1. CASE GiveUp
  <2>1. tryn > 0 /\ pc = "except" /\ UNCHANGED faulty
    BY <1>0, <1>1 DEF GiveUp, MayRetry, Finish
  <2> QED  BY <2>1 DEF FreshInv, InStep, NoSpuriousFailure
<1>2. CASE outcome' # "failed"
  BY <1>2 DEF NoSpuriousFailure
<1>3. CASE UNCHANGED outcome /\ (faulty => faulty')
  BY <1>3 DEF NoSpuriousFailure
<1>4. CASE Call \/ CallUnencodable \/ Interrupt
  BY <1>4 DEF Call, CallUnencodable, Interrupt, NoSpuriousFailure
<1>5. CASE Accept
  <2>1. outcome' \in {"result", "error"}
    <3>1. message_count # 0 /\ response.id = message_count
      BY <1>5 DEF Accept, TypeInv, Shape
    <3> QED  BY <1>5, <3>1 DEF Accept, Finish, TypeInv, TypeOK, Shape, None
  <2> QED  BY <2>1 DEF NoSpuriousFailure
<1>6. CASE Close \/ Connect \/ ConnectRefused \/ Send
  BY <1>0, <1>3, <1>6 DEF Close, Connect, ConnectRefused, Send, historyVars
<1>7. CASE SocketError \/ ReadHead \/ ReadTail \/ HeadDeadline \/ TailDeadline
             \/ Mismatch \/ Retry \/ UNCHANGED vars
  BY <1>3, <1>7 DEF SocketError, ReadHead, ReadTail, HeadDeadline,
     TailDeadline, Mismatch, Retry, vars, historyVars
<1>8. ASSUME NEW c \in Conns, Server(c) \/ Reset(c)
      PROVE  NoSpuriousFailure'
  BY <1>0, <1>3, <1>8 DEF Server, Serve, ServeAndDie, ServerClose, Reset, Fault
<1> QED
  BY <1>1, <1>4, <1>5, <1>6, <1>7, <1>8 DEF Next, Client, Caller

(* With at least one retry, a call during which nothing happened to its    *)
(* connection does not fail, whatever earlier calls left in it: the first  *)
(* try may lose the stream, the second has one of its own, on which it and *)
(* the server keep in step.                                                *)
THEOREM FailsOnlyWhenDisturbed ==
  Retries > 0 => (Spec => []NoSpuriousFailure)
<1> SUFFICES ASSUME Retries > 0 PROVE Spec => []NoSpuriousFailure
  OBVIOUS
<1>1. Init => FreshInv /\ NoSpuriousFailure
  BY DEF Init, FreshInv, NoSpuriousFailure
<1>2. RpcInv /\ FreshInv /\ NoSpuriousFailure /\ [Next]_vars
        => (FreshInv /\ NoSpuriousFailure)'
  BY FreshStep, FailedStep DEF RpcInv
<1> QED  BY <1>1, <1>2, Invariance, PTL DEF Spec

-----------------------------------------------------------------------------
(* The wait *)

(* A non-empty set of numbers has a least element. *)
LEMMA LeastNumber ==
  ASSUME NEW T \in SUBSET Nat, T # {}
  PROVE  \E x \in T : \A y \in T : x <= y
<1>1. \E x \in T : \A y \in T : <<y, x>> \notin OpToRel(<, Nat)
  BY NatLessThanWellFounded, WFMin
<1>2. \A x, y \in Nat : x < y => <<x, y>> \in OpToRel(<, Nat)
  BY DEF OpToRel
<1>3. \E x \in T : \A y \in T : ~(y < x)
  BY <1>1, <1>2, Zenon
<1> QED  BY <1>3

(* Induction, for a set of numbers. *)
LEMMA NumbersFromZero ==
  ASSUME NEW T, 0 \in T, \A n \in Nat : n \in T => n + 1 \in T
  PROVE  \A n \in Nat : n \in T
<1> SUFFICES ASSUME Nat \ T # {} PROVE FALSE
  OBVIOUS
<1>1. PICK x \in Nat \ T : \A y \in Nat \ T : x <= y
  BY LeastNumber
<1>2. x \in Nat /\ x # 0 /\ x - 1 \in Nat
  BY <1>1
<1>3. x - 1 \in T
  BY <1>1, <1>2
<1>4. (x - 1) + 1 \in T
  BY <1>2, <1>3
<1> QED  BY <1>1, <1>2, <1>4

(* A value and a step define a function on the numbers. *)
LEMMA RecursionOnNumbers ==
  ASSUME NEW S, NEW a \in S, NEW step \in [S -> S]
  PROVE  \E f \in [Nat -> S] :
           f[0] = a /\ \A n \in Nat : f[n + 1] = step[f[n]]
<1> DEFINE Upto(n, g) == /\ g \in [0 .. n -> S] /\ g[0] = a
                         /\ \A k \in 0 .. n - 1 : g[k + 1] = step[g[k]]
           Defined == {n \in Nat : \E g : Upto(n, g)}
<1>1. \A n \in Nat : n \in Defined
  <2>1. 0 \in Defined
    <3>1. Upto(0, [k \in 0 .. 0 |-> a])
      OBVIOUS
    <3> QED  BY <3>1
  <2>2. ASSUME NEW n \in Nat, n \in Defined
        PROVE  n + 1 \in Defined
    <3>1. PICK g : Upto(n, g)
      BY <2>2
    <3> DEFINE h == [k \in 0 .. n + 1 |-> IF k = n + 1 THEN step[g[n]] ELSE g[k]]
    <3>2. /\ h[n + 1] = step[g[n]]
          /\ \A k \in 0 .. n : k \in Nat /\ k # n + 1 /\ h[k] = g[k]
      OBVIOUS
    <3>3. g[n] \in S /\ \A k \in 0 .. n : g[k] \in S
      BY <3>1
    <3>4. h \in [0 .. n + 1 -> S]
      BY <3>3
    <3> HIDE DEF h
    <3>5. \A k \in 0 .. n + 1 - 1 : h[k + 1] = step[h[k]]
      <4> TAKE k \in 0 .. n + 1 - 1
      <4>1. CASE k = n
        BY <3>2, <4>1
      <4>2. CASE k \in 0 .. n - 1
        <5>1. k + 1 \in 0 .. n /\ k \in 0 .. n
          BY <4>2
        <5> QED  BY <3>1, <3>2, <4>2, <5>1
      <4> QED  BY <4>1, <4>2
    <3>6. h[0] = a
      BY <3>1, <3>2
    <3> QED  BY <3>4, <3>5, <3>6
  <2> HIDE DEF Defined
  <2> QED  BY <2>1, <2>2, NumbersFromZero
<1>2. ASSUME NEW m \in Nat, NEW n \in Nat, NEW g, NEW h,
             Upto(m, g), Upto(n, h)
      PROVE  \A k \in Nat : k <= m /\ k <= n => g[k] = h[k]
  <2> DEFINE Same == {k \in Nat : k <= m /\ k <= n => g[k] = h[k]}
  <2>1. 0 \in Same
    BY <1>2
  <2>2. \A k \in Nat : k \in Same => k + 1 \in Same
    BY <1>2
  <2>3. \A k \in Nat : k \in Same
    <3> HIDE DEF Same
    <3> QED  BY <2>1, <2>2, NumbersFromZero
  <2> QED  BY <2>3
<1> DEFINE G(n) == CHOOSE g : Upto(n, g)
           f == [n \in Nat |-> G(n)[n]]
<1>3. ASSUME NEW n \in Nat
      PROVE  Upto(n, G(n))
  <2>1. \E g : Upto(n, g)
    BY <1>1
  <2> HIDE DEF Upto
  <2> QED  BY <2>1, Zenon
<1>4. f \in [Nat -> S] /\ f[0] = a
  <2>1. \A n \in Nat : G(n)[n] \in S
    <3> TAKE n \in Nat
    <3>1. Upto(n, G(n))
      BY <1>3
    <3> HIDE DEF G
    <3> QED  BY <3>1
  <2>2. G(0)[0] = a
    <3>1. Upto(0, G(0))
      BY <1>3
    <3> HIDE DEF G
    <3> QED  BY <3>1
  <2> HIDE DEF G
  <2> QED  BY <2>1, <2>2
<1>5. ASSUME NEW n \in Nat
      PROVE  f[n + 1] = step[f[n]]
  <2>1. Upto(n, G(n)) /\ Upto(n + 1, G(n + 1))
    <3> HIDE DEF Upto, G
    <3> QED  BY <1>3
  <2>2. G(n + 1)[n] = G(n)[n]
    <3> HIDE DEF G
    <3> QED  BY <1>2, <2>1
  <2>3. G(n + 1)[n + 1] = step[G(n + 1)[n]]
    <3> HIDE DEF G
    <3> QED  BY <2>1
  <2> HIDE DEF G
  <2> QED  BY <2>2, <2>3
<1> QED  BY <1>4, <1>5

(* The equations of TwoTo define it. *)
LEMMA TwoToStep ==
  /\ TwoTo \in [Nat -> Nat]
  /\ TwoTo[0] = 1 /\ \A n \in Nat : TwoTo[n + 1] = 2 * TwoTo[n]
<1>1. PICK f \in [Nat -> Nat] : f[0] = 1 /\ \A n \in Nat : f[n + 1] = 2 * f[n]
  <2> DEFINE double == [k \in Nat |-> 2 * k]
  <2>1. double \in [Nat -> Nat] /\ \A k \in Nat : double[k] = 2 * k
    OBVIOUS
  <2> HIDE DEF double
  <2>2. PICK f \in [Nat -> Nat] :
          f[0] = 1 /\ \A n \in Nat : f[n + 1] = double[f[n]]
    <3>1. \A a \in Nat, step \in [Nat -> Nat] : \E f \in [Nat -> Nat] :
            f[0] = a /\ \A n \in Nat : f[n + 1] = step[f[n]]
      <4> DEFINE S == Nat
      <4>1. ASSUME NEW a \in S, NEW step \in [S -> S]
            PROVE  \E f \in [Nat -> S] : f[0] = a /\ \A n \in Nat : f[n + 1] = step[f[n]]
        <5> HIDE DEF S
        <5> QED  BY <4>1, RecursionOnNumbers
      <4> QED  BY <4>1
    <3>2. 1 \in Nat
      OBVIOUS
    <3> QED  BY <2>1, <3>1, <3>2, Zenon
  <2> QED  BY <2>1, <2>2
<1> DEFINE Doubles(g) == g = [n \in Nat |-> IF n = 0 THEN 1 ELSE 2 * g[n - 1]]
<1>2. Doubles(f)
  <2>1. \A n \in Nat : f[n] = IF n = 0 THEN 1 ELSE 2 * f[n - 1]
    <3> TAKE n \in Nat
    <3>1. CASE n # 0
      <4>1. n - 1 \in Nat /\ (n - 1) + 1 = n
        BY <3>1
      <4> QED  BY <1>1, <3>1, <4>1
    <3> QED  BY <1>1, <3>1
  <2> QED  BY <1>1, <2>1
<1>3. Doubles(TwoTo)
  <2>1. TwoTo = CHOOSE g : Doubles(g)
    BY DEF TwoTo
  <2> HIDE DEF Doubles
  <2> QED  BY <1>2, <2>1
<1>4. TwoTo[0] = 1 /\ \A n \in Nat : TwoTo[n + 1] = 2 * TwoTo[n]
  <2> HIDE DEF TwoTo
  <2>1. \A n \in Nat : TwoTo[n] = IF n = 0 THEN 1 ELSE 2 * TwoTo[n - 1]
    BY <1>3
  <2>2. ASSUME NEW n \in Nat PROVE TwoTo[n + 1] = 2 * TwoTo[n]
    <3>1. n + 1 \in Nat /\ n + 1 # 0 /\ (n + 1) - 1 = n
      OBVIOUS
    <3> QED  BY <2>1, <3>1
  <2> QED  BY <2>1, <2>2
<1> DEFINE Numbers == {n \in Nat : TwoTo[n] \in Nat}
<1>5. \A n \in Nat : n \in Numbers
  <2>1. 0 \in Numbers /\ \A n \in Nat : n \in Numbers => n + 1 \in Numbers
    BY <1>4
  <2> HIDE DEF Numbers
  <2> QED  BY <2>1, NumbersFromZero
<1>6. TwoTo \in [Nat -> Nat]
  <2> HIDE DEF TwoTo
  <2>1. TwoTo = [n \in Nat |-> IF n = 0 THEN 1 ELSE 2 * TwoTo[n - 1]]
    BY <1>3
  <2>2. DOMAIN TwoTo = Nat /\ TwoTo = [n \in Nat |-> TwoTo[n]]
    BY <2>1
  <2> QED  BY <1>5, <2>2
<1> QED  BY <1>4, <1>6

(* A greater power is no smaller. *)
LEMMA TwoToGrows ==
  ASSUME NEW m \in Nat, NEW n \in Nat, m <= n
  PROVE  1 <= TwoTo[m] /\ TwoTo[m] <= TwoTo[n]
<1> DEFINE T == {k \in Nat : 1 <= TwoTo[m] /\ TwoTo[m] <= TwoTo[m + k]}
           P == {k \in Nat : 1 <= TwoTo[k]}
<1>1. \A k \in Nat : k \in P
  <2>1. 0 \in P /\ \A k \in Nat : k \in P => k + 1 \in P
    BY TwoToStep
  <2> HIDE DEF P
  <2> QED  BY <2>1, NumbersFromZero
<1>2. \A k \in Nat : k \in T
  <2>1. 0 \in T
    BY <1>1, TwoToStep
  <2>2. ASSUME NEW k \in Nat, k \in T PROVE k + 1 \in T
    <3>1. m + k \in Nat /\ m + (k + 1) = (m + k) + 1 /\ k + 1 \in Nat
      OBVIOUS
    <3>2. TwoTo[m] \in Nat /\ TwoTo[m + k] \in Nat
      BY <3>1, TwoToStep
    <3>3. TwoTo[m + k] \in Nat /\ TwoTo[m + (k + 1)] = 2 * TwoTo[m + k]
      BY <3>1, TwoToStep
    <3> QED  BY <2>2, <3>1, <3>2, <3>3
  <2> HIDE DEF T
  <2> QED  BY <2>1, <2>2, NumbersFromZero
<1>3. n - m \in Nat /\ m + (n - m) = n
  OBVIOUS
<1> QED  BY <1>2, <1>3

(* Two facts about products. *)
LEMMA TimesGrows ==
  ASSUME NEW b \in Nat, NEW x \in Nat, NEW y \in Nat, x <= y
  PROVE  b * x <= b * y /\ b * x \in Nat /\ b * y \in Nat
  OBVIOUS

LEMMA TimesAssoc ==
  ASSUME NEW b \in Nat, NEW x \in Nat
  PROVE  b * (2 * x) = 2 * (b * x)
  OBVIOUS

(* TotalWait is inductive. *)
LEMMA WaitStep ==
  ASSUME TypeInv, TotalWait, [Next]_vars
  PROVE  TotalWait'
<1>0. /\ tryn \in Nat /\ tryn <= Retries /\ delay \in Nat /\ slept \in Nat
      /\ Retries \in Nat /\ BaseDelay \in Nat /\ BaseDelay > 0
  BY RpcAssumption DEF TypeInv, TypeOK, Tries
<1> DEFINE limit == BaseDelay * TwoTo[Retries]
<1>1. BaseDelay * TwoTo[0] = BaseDelay
  BY <1>0, TwoToStep
<1>2. /\ TwoTo[0] \in Nat /\ TwoTo[Retries] \in Nat
      /\ TwoTo[0] <= TwoTo[Retries]
  BY <1>0, TwoToStep, TwoToGrows
<1>3. limit \in Nat /\ BaseDelay <= limit
  <2>1. BaseDelay * TwoTo[0] <= limit /\ limit \in Nat
    BY <1>0, <1>2, TimesGrows
  <2> QED  BY <1>1, <2>1
<1>4. CASE Call
  <2>1. tryn' = 0 /\ delay' = BaseDelay /\ slept' = 0
    BY <1>4 DEF Call
  <2>2. slept' < limit
    BY <1>0, <1>3, <2>1
  <2>3. delay' = BaseDelay * TwoTo[tryn'] /\ slept' = delay' - BaseDelay
    BY <1>0, <1>1, <2>1
  <2> QED  BY <2>2, <2>3 DEF TotalWait
<1>5. CASE CallUnencodable
  <2>1. pc' = "idle" /\ slept' = 0
    BY <1>5 DEF CallUnencodable, NextMessage, rpcVars
  <2>2. slept' < limit
    BY <1>0, <1>3, <2>1
  <2> QED  BY <2>1, <2>2 DEF TotalWait
<1>6. CASE Retry
  <2>1. /\ tryn < Retries /\ tryn' = tryn + 1
        /\ slept' = slept + delay /\ delay' = delay * 2
        /\ delay = BaseDelay * TwoTo[tryn] /\ slept = delay - BaseDelay
    BY <1>6 DEF Retry, MayRetry, Backoff, TotalWait
  <2>2. TwoTo[tryn] \in Nat /\ TwoTo[tryn + 1] = 2 * TwoTo[tryn]
    BY <1>0, TwoToStep
  <2>3. delay' = BaseDelay * TwoTo[tryn']
    <3>1. BaseDelay * TwoTo[tryn + 1] = 2 * (BaseDelay * TwoTo[tryn])
      BY <1>0, <2>2, TimesAssoc
    <3> QED  BY <1>0, <2>1, <3>1
  <2>4. slept' = delay' - BaseDelay
    BY <1>0, <2>1
  <2>5. delay' <= limit
    <3>1. tryn + 1 \in Nat /\ tryn + 1 <= Retries
      BY <1>0, <2>1
    <3>2. TwoTo[tryn + 1] \in Nat /\ TwoTo[tryn + 1] <= TwoTo[Retries]
      BY <1>0, <3>1, TwoToStep, TwoToGrows
    <3>3. BaseDelay * TwoTo[tryn + 1] <= limit
      BY <1>0, <1>2, <3>2, TimesGrows
    <3> QED  BY <2>1, <2>3, <3>3
  <2>6. slept' < limit
    <3>1. delay' \in Nat
      BY <1>0, <2>1
    <3> QED  BY <1>0, <1>3, <2>4, <2>5, <3>1
  <2> QED  BY <2>3, <2>4, <2>6 DEF TotalWait
<1>7. CASE UNCHANGED <<tryn, delay, slept>> /\ (pc' # "idle" => pc # "idle")
  BY <1>7 DEF TotalWait
<1>8. CASE Client /\ ~Retry
  BY <1>7, <1>8 DEF Client, Connect, ConnectRefused, Send, SocketError,
     ReadHead, ReadTail, HeadDeadline, TailDeadline, Accept, Mismatch, Finish,
     GiveUp, historyVars
<1>9. CASE Interrupt \/ Close \/ UNCHANGED vars
  BY <1>7, <1>9 DEF Interrupt, Close, rpcVars, vars, historyVars
<1>10. ASSUME NEW c \in Conns, Server(c) \/ Reset(c)
       PROVE  TotalWait'
  BY <1>7, <1>10 DEF Server, Serve, ServeAndDie, ServerClose, Reset, rpcVars
<1> QED
  BY <1>4, <1>5, <1>6, <1>8, <1>9, <1>10 DEF Next, Caller

(* What the class docstring says of the wait, for every base_retry_seconds *)
(* and every number of retries: before a try it has doubled once for each  *)
(* try made, and all the sleeps of a call stay below                       *)
(* base_retry_seconds * 2 ** retries.                                      *)
THEOREM WaitBounded == Spec => []TotalWait
<1>1. Init => TotalWait
  <2> SUFFICES ASSUME Init PROVE TotalWait
    OBVIOUS
  <2>1. BaseDelay \in Nat /\ BaseDelay > 0 /\ Retries \in Nat
    BY RpcAssumption
  <2>2. 1 <= TwoTo[Retries] /\ TwoTo[Retries] \in Nat
    BY <2>1, TwoToStep, TwoToGrows
  <2>3. BaseDelay * 1 <= BaseDelay * TwoTo[Retries]
    BY <2>1, <2>2, TimesGrows
  <2>4. BaseDelay * TwoTo[Retries] \in Nat
    BY <2>1, <2>2, TimesGrows
  <2>5. 0 < BaseDelay * TwoTo[Retries]
    BY <2>1, <2>3, <2>4
  <2> QED  BY <2>5 DEF Init, TotalWait
<1>2. TypeInv /\ TotalWait /\ [Next]_vars => TotalWait'
  BY WaitStep
<1> QED  BY <1>1, <1>2, Typing, PTL DEF Spec

-----------------------------------------------------------------------------
(* The client implements RpcService *)

Runs == [i \in Ids |-> {t \in Tries : executed[<<i, t>>] > 0}]

LEMMA ServiceInit == Init => Service!Init
  BY DEF Init, Service!Init, Service!Ids, Ids, Tries, Service!Tries

(* An execution is a run of the service, of a try it has not run before.   *)
LEMMA ServiceRun ==
  ASSUME RpcInv, [Next]_vars, NEW c \in Conns, Execute(c)
  PROVE  \E i \in Ids, t \in Tries :
           /\ i <= message_count /\ t \notin Runs[i]
           /\ Runs' = [Runs EXCEPT ![i] = Runs[i] \cup {t}]
<1>0. /\ executed \in [Ids \X Tries -> Nat]
      /\ message_count \in Nat
      /\ UpFresh
  BY RpcAssumption DEF RpcInv, TypeInv, TypeOK, HistoryInv
<1>1. PICK i \in Ids, t \in Tries :
        /\ OnWire(c, 1, i, t)
        /\ executed' = [executed EXCEPT ![<<i, t>>] = executed[<<i, t>>] + 1]
  BY ExecuteOnWire DEF RpcInv
<1>2. Sent(i, t) /\ executed[<<i, t>>] = 0
  BY <1>0, <1>1 DEF UpFresh
<1>3. i <= message_count
  BY <1>0, <1>2 DEF Sent, Ids
<1>4. \A j \in Ids, u \in Tries :
        executed'[<<j, u>>] = IF j = i /\ u = t THEN 1 ELSE executed[<<j, u>>]
  BY <1>0, <1>1, <1>2
<1>5. t \notin Runs[i]
  BY <1>2 DEF Runs
<1>6. \A j \in Ids : Runs'[j] = IF j = i THEN Runs[i] \cup {t} ELSE Runs[j]
  <2> SUFFICES ASSUME NEW j \in Ids
               PROVE  Runs'[j] = IF j = i THEN Runs[i] \cup {t} ELSE Runs[j]
    OBVIOUS
  <2>1. Runs'[j] = {u \in Tries : executed'[<<j, u>>] > 0}
    BY DEF Runs
  <2>2. Runs[j] = {u \in Tries : executed[<<j, u>>] > 0}
    BY DEF Runs
  <2>3. CASE j = i
    BY <1>4, <2>1, <2>2, <2>3
  <2>4. CASE j # i
    BY <1>4, <2>1, <2>2, <2>4
  <2> QED  BY <2>3, <2>4
<1>7. Runs' = [Runs EXCEPT ![i] = Runs[i] \cup {t}]
  BY <1>6 DEF Runs
<1> QED  BY <1>3, <1>5, <1>7

(* An answered call that took a part of its answer only. *)
Cut == outcome \in {"result", "error"} /\ got < TailLen

LEMMA ServiceStep ==
  ASSUME RpcInv, CleanInv, [Next]_vars
  PROVE  [Service!Next]_(Service!vars)
<1>0. /\ message_count \in 0 .. MaxCalls /\ tryn \in Tries
      /\ Shape /\ Outcome /\ ReadThisTry /\ stale \in BOOLEAN
  BY DEF RpcInv, TypeInv, TypeOK, AnswerInv
<1>1. CASE Call \/ CallUnencodable
  <2>1. stale' => Service!MayLeave
    <3>1. pc = "idle" /\ stale' = ~Drained
      BY <1>1 DEF Call, CallUnencodable, NextMessage
    <3>2. ~stale /\ ~MayLeave => Drained
      BY <3>1 DEF CleanInv, Clean
    <3> QED  BY <3>1, <3>2 DEF MayLeave, Service!MayLeave
  <2>2. /\ outcome # "pending" /\ message_count < MaxCalls
        /\ message_count' = message_count + 1
        /\ outcome' \in {"pending", "unencodable"}
        /\ stale' \in BOOLEAN /\ UNCHANGED executed
    BY <1>0, <1>1 DEF Call, CallUnencodable, NextMessage, Outcome
  <2>3. Service!Start
    BY <2>1, <2>2 DEF Service!Start
  <2> QED  BY <2>3 DEF Service!Next
<1>2. CASE Accept
  <2>1. response.kind \in {"result", "error"}
    <3>1. response.id # None
      BY <1>0, <1>2 DEF Accept, Shape, None
    <3> QED  BY <1>0, <3>1 DEF Shape, RpcInv, TypeInv, TypeOK
  <2>2. message_count \in Ids
    BY <1>0, <1>2, RpcAssumption DEF Accept, Shape, Ids
  <2>3. Runs[message_count] # {} \/ stale
    <3>1. CASE response.try # NoTry
      <4>1. executed[<<message_count, tryn>>] > 0
        BY <1>0, <1>2, <2>2, <3>1 DEF Accept, ReadThisTry
      <4> QED  BY <1>0, <2>2, <4>1 DEF Runs
    <3>2. CASE response.try = NoTry
      BY <1>2, <3>2 DEF Accept, CleanInv, Clean
    <3> QED  BY <3>1, <3>2
  <2>4. Service!Answer
    BY <1>0, <1>2, <2>1, <2>3
    DEF Service!Answer, Accept, Finish, Outcome, Runs, clientVars
  <2> QED  BY <2>4 DEF Service!Next
<1>3. CASE Interrupt \/ GiveUp
  <2>1. Service!Raise
    BY <1>0, <1>3
    DEF Service!Raise, Interrupt, GiveUp, Finish, Outcome, clientVars
  <2> QED  BY <2>1 DEF Service!Next
<1>4. ASSUME NEW c \in Conns, Execute(c),
             UNCHANGED <<message_count, outcome, stale, got>>
      PROVE  Service!Next
  <2>1. PICK i \in Ids, t \in Tries :
          /\ i <= message_count /\ t \notin Runs[i]
          /\ Runs' = [Runs EXCEPT ![i] = Runs[i] \cup {t}]
    BY <1>4, ServiceRun
  <2>2. Service!Run(i, t)
    BY <1>4, <2>1 DEF Service!Run, Runs
  <2> QED  BY <2>2 DEF Service!Next, Service!Ids, Service!Tries, Ids, Tries
<1>5. CASE Retry
  <2>1. Service!Reconnect
    BY <1>0, <1>5 DEF Service!Reconnect, Retry, Outcome
  <2> QED  BY <2>1 DEF Service!Next
<1>6. ASSUME UNCHANGED <<message_count, executed, outcome, stale>>,
             pc # "idle" \/ UNCHANGED got
      PROVE  UNCHANGED Service!vars
  <2>1. UNCHANGED Cut
    BY <1>0, <1>6 DEF Cut, Outcome
  <2> QED  BY <1>6, <2>1 DEF Service!vars, Cut
<1> QED
  BY <1>1, <1>2, <1>3, <1>4, <1>5, <1>6 DEF Next, Client, Caller, Server, vars,
     clientVars, rpcVars, historyVars, Close, Connect, ConnectRefused, Send,
     SocketError, ReadHead, ReadTail, HeadDeadline, TailDeadline, Mismatch,
     Serve, ServeAndDie, ServerClose, Reset

(* CborRpcClient, with its sockets, its cached reader, its retries and     *)
(* everything a server and a network may do to it, keeps the promise of    *)
(* RpcService.                                                             *)
THEOREM ImplementsService == Spec => KeepsService
<1>1. RpcInv /\ CleanInv /\ [Next]_vars => [Service!Next]_(Service!vars)
  BY ServiceStep
<1> QED
  BY <1>1, ServiceInit, Invariance, Cleanliness, PTL
  DEF Spec, KeepsService, Service!Spec
=============================================================================
