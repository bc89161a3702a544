---------------------------- MODULE UploadProofs ----------------------------
(***************************************************************************)
(* Proofs about Upload, for every set of connections, every limit, every   *)
(* first capacity and every size of bodies and pieces: what the loop that  *)
(* doubles a capacity ends with, then the state of the connections.        *)
(***************************************************************************)
EXTENDS Upload, Minima

-----------------------------------------------------------------------------
(* while (capacity < required) capacity *= 2                               *)

\* f maps each capacity to the one that the loop leaves.
Doubles(f, required) == f = [n \in Nat |-> IF n < required THEN f[2 * n] ELSE n]

\* There is such a function: take the one that fits from the least capacity on,
\* which is 0 or 1, as otherwise it could be extended to the capacity below.
LEMMA DoublesExists ==
  ASSUME NEW required \in Nat
  PROVE  \E f : Doubles(f, required)
<1> DEFINE Above(f, m) ==
             \A n \in Nat : n >= m => f[n] = IF n < required THEN f[2 * n] ELSE n
           T == {m \in Nat : \E f \in [Nat -> Nat] : Above(f, m)}
<1>1. required \in T
  <2>1. [n \in Nat |-> n] \in [Nat -> Nat] /\ Above([n \in Nat |-> n], required)
    OBVIOUS
  <2> QED BY <2>1
<1>2. PICK m \in T : \A y \in T : m <= y
  <2>1. T \in SUBSET Nat /\ T # {}
    BY <1>1
  <2> HIDE DEF T
  <2> QED BY <2>1, LeastNat
<1>3. PICK f \in [Nat -> Nat] : Above(f, m)
  BY <1>2
<1>4. m <= 1
  <2> SUFFICES ASSUME m > 1 PROVE FALSE
    BY <1>2
  <2> DEFINE k == m - 1
             g == [f EXCEPT ![k] = IF k < required THEN f[2 * k] ELSE k]
  <2>1. m \in Nat /\ k \in Nat /\ k > 0 /\ 2 * k >= m /\ 2 * k # k /\ ~(m <= k)
    BY <1>2
  <2>2. g \in [Nat -> Nat]
    BY <2>1
  <2>3. ASSUME NEW n \in Nat, n >= k PROVE g[n] = IF n < required THEN g[2 * n] ELSE n
    <3>1. CASE n = k
      BY <2>1, <3>1
    <3>2. CASE n # k
      <4>1. n >= m /\ 2 * n # k /\ 2 * n \in Nat
        BY <2>1, <2>3, <3>2
      <4>2. f[n] = IF n < required THEN f[2 * n] ELSE n
        BY <4>1, <1>3
      <4> QED BY <4>1, <4>2, <3>2, <2>1
    <3> QED BY <3>1, <3>2
  <2>4. k \in T
    <3> HIDE DEF g
    <3> QED BY <2>1, <2>2, <2>3
  <2> QED BY <2>4, <2>1, <1>2
<1> DEFINE h == [f EXCEPT ![0] = 0]
<1>5. ASSUME NEW n \in Nat PROVE h[n] = IF n < required THEN h[2 * n] ELSE n
  <2>1. CASE n = 0
    BY <2>1
  <2>2. CASE n # 0
    <3>1. f[n] = IF n < required THEN f[2 * n] ELSE n
      BY <1>3, <1>4, <1>2, <2>2
    <3> QED BY <3>1, <2>2
  <2> QED BY <2>1, <2>2
<1>6. h = [n \in Nat |-> h[n]]
  OBVIOUS
<1>7. Doubles(h, required)
  <2> HIDE DEF h
  <2> QED BY <1>5, <1>6 DEF Doubles
<1> QED BY <1>7

\* From a capacity that is not 0 the loop reaches one that is enough, and less
\* than twice what is required unless it had nothing to do.  A capacity that
\* makes it fail would, if it is the largest, be half of one that does not.
LEMMA DoubledBounds ==
  ASSUME NEW required \in Nat, NEW from \in Nat \ {0}
  PROVE  LET to == Doubled(from, required) IN
         /\ to \in Nat /\ to >= required
         /\ to = from \/ to < 2 * required
<1> DEFINE d == CHOOSE f : Doubles(f, required)
<1>1. Doubled(from, required) = d[from]
  BY DEF Doubled, Doubles
<1>2. Doubles(d, required)
  BY DoublesExists
<1> HIDE DEF d
<1>3. ASSUME NEW n \in Nat PROVE d[n] = IF n < required THEN d[2 * n] ELSE n
  BY <1>2 DEF Doubles
<1> DEFINE Good(n) == /\ d[n] \in Nat /\ d[n] >= required
                      /\ d[n] = n \/ d[n] < 2 * required
           T == {required - n : n \in {k \in 1..required : ~Good(k)}}
<1>4. T = {}
  <2> SUFFICES ASSUME T # {} PROVE FALSE
    OBVIOUS
  <2>1. T \in SUBSET Nat
    OBVIOUS
  <2>2. PICK x \in T : \A y \in T : x <= y
    <3> HIDE DEF T
    <3> QED BY <2>1, LeastNat
  <2>3. PICK n \in 1..required : ~Good(n) /\ x = required - n
    BY <2>2
  <2>4. n < required /\ d[n] = d[2 * n]
    BY <1>3, <2>3
  <2>5. Good(2 * n)
    <3>1. CASE 2 * n \in 1..required
      <4> SUFFICES ASSUME ~Good(2 * n) PROVE FALSE
        OBVIOUS
      <4>1. required - 2 * n \in T
        BY <3>1
      <4> HIDE DEF T
      <4> QED BY <4>1, <2>2, <2>3
    <3>2. CASE ~(2 * n \in 1..required)
      <4>1. d[2 * n] = 2 * n
        BY <1>3, <3>2, <2>3
      <4> QED BY <4>1, <3>2, <2>3, <2>4
    <3> QED BY <3>1, <3>2
  <2>6. Good(n)
    BY <2>4, <2>5
  <2> QED BY <2>6, <2>3
<1>5. Good(from)
  <2>1. CASE from <= required
    BY <2>1, <1>4
  <2>2. CASE from > required
    BY <2>2, <1>3
  <2> QED BY <2>1, <2>2
<1> QED BY <1>1, <1>5

-----------------------------------------------------------------------------
(* The connections.                                                        *)

\* The state of the connections: while a body comes in there is one.
Connections ==
  /\ UploadTypeOK
  /\ \A c \in Conn : phase[c] = "body" => body[c] \in Body

\* What is kept fits in the buffer with its terminator; the buffer is the first
\* one, none, or less than twice as large as the limit needs.
Fitting(b) ==
  /\ b.length = 0 \/ b.length < b.capacity
  /\ b.capacity = FirstCapacity \/ b.capacity < 2 * (MaxBody + 1)

Buffers == \A c \in Conn : body[c] # NoBody => Fitting(body[c])

\* While a body comes in and nothing is answered, what has been read is what
\* is kept, and it is within the limit.
Received ==
  \A c \in Conn :
    /\ phase[c] = "body" /\ ~body[c].response_queued =>
         /\ body[c].length + left[c] = size[c] /\ body[c].length <= MaxBody
    /\ phase[c] = "headers" => left[c] = size[c]
    /\ phase[c] \in {"headers", "body"} => status[c] # 200

\* Nothing has been answered until response_queued says so, or a reply begins.
Unanswered ==
  \A c \in Conn :
    phase[c] = "headers" \/ (phase[c] = "body" /\ ~body[c].response_queued)
      => answers[c] = 0

Inductive ==
  Connections /\ Received /\ Unanswered /\ Buffers /\ WholeBody /\ OneAnswer

\* Connections are open and carry nothing at first.
LEMMA InductiveInit == Init => Inductive
BY DEF Init, Inductive, Connections, UploadTypeOK, Received, Unanswered, Buffers,
       WholeBody, OneAnswer

\* A piece that fits leaves a body, longer by the piece, that fits its buffer.
LEMMA BodyAppended ==
  ASSUME NEW b \in Body, Fitting(b), ~b.response_queued, b.length <= MaxBody,
         NEW k \in Nat, Fits(b, k), k > 0
  PROVE  LET d == Appended(b, k) IN
         /\ d \in Body /\ Fitting(d)
         /\ d.length = b.length + k /\ ~d.response_queued
<1> USE UploadAssumption
<1> DEFINE required == b.length + k + 1
           from == IF b.capacity = 0 THEN FirstCapacity ELSE b.capacity
           d == Appended(b, k)
<1>1. /\ b.length \in Nat /\ b.capacity \in Nat /\ required \in Nat /\ from \in Nat \ {0}
      /\ required <= MaxBody + 1
  BY DEF Body, Fits
<1>2. /\ Capacity(b, k) \in Nat /\ Capacity(b, k) >= required
      /\ Capacity(b, k) = FirstCapacity \/ Capacity(b, k) < 2 * (MaxBody + 1)
  <2>1. CASE required > b.capacity
    <3> DEFINE to == Doubled(from, required)
    <3>1. to \in Nat /\ to >= required /\ (to = from \/ to < 2 * required)
      BY <1>1, DoubledBounds
    <3>2. Capacity(b, k) = to
      BY <2>1 DEF Capacity, Required
    <3>3. from = FirstCapacity \/ from < 2 * (MaxBody + 1)
      BY DEF Fitting
    <3> HIDE DEF to, from, required
    <3>4. 2 * required <= 2 * (MaxBody + 1)
      BY <1>1
    <3> QED
      BY <3>1, <3>2, <3>3, <3>4, <1>1
  <2>2. CASE ~(required > b.capacity)
    BY <1>1, <2>2 DEF Capacity, Required, Fitting
  <2> QED
    BY <2>1, <2>2
<1>3. d = [length |-> b.length + k, capacity |-> Capacity(b, k),
           response_queued |-> b.response_queued]
  <2>1. ASSUME NEW n \in Nat, NEW m, NEW e, e = [b EXCEPT !.length = n, !.capacity = m]
        PROVE  e = [length |-> n, capacity |-> m, response_queued |-> b.response_queued]
    BY <2>1 DEF Body
  <2>2. b.length + k \in Nat
    BY <1>1
  <2> QED
    BY <2>1, <2>2, Zenon DEF Appended
<1> HIDE DEF d
<1>4. d \in Body
  BY <1>1, <1>2, <1>3 DEF Body
<1>5. d.length = b.length + k /\ d.capacity = Capacity(b, k) /\ ~d.response_queued
  BY <1>3
<1> QED
  BY <1>1, <1>2, <1>4, <1>5 DEF Fitting, d

\* An answer leaves the body as it is.
LEMMA BodyAnswered ==
  ASSUME NEW b \in Body, Fitting(b), NEW d, d = [b EXCEPT !.response_queued = TRUE]
  PROVE  d \in Body /\ Fitting(d) /\ d.length = b.length /\ d.response_queued
BY DEF Body, Fitting

\* Each call of libmicrohttpd, and each turn of a connection, keeps the invariant.
LEMMA InductiveNext == Inductive /\ [Next]_vars => Inductive'
<1> SUFFICES ASSUME Inductive, [Next]_vars
             PROVE  Inductive'
  OBVIOUS
<1> USE UploadAssumption
<1> USE DEF Inductive, Connections, UploadTypeOK, Received, Unanswered, Buffers, WholeBody,
            OneAnswer, Enter
<1>1. ASSUME NEW c \in Conn, NEW n \in 0..MaxSize, Request(c, n)
      PROVE  Inductive'
  BY <1>1 DEF Request
<1>2. ASSUME NEW c \in Conn, FirstCall(c)
      PROVE  Inductive'
  <2>1. CASE /\ body' = [body EXCEPT ![c] = NewBody] /\ Enter(c, "body")
    <3>1. NewBody \in Body /\ Fitting(NewBody) /\ NewBody.length = 0 /\ ~NewBody.response_queued
      BY DEF Body, Fitting, NewBody
    <3>2. size[c] \in Nat /\ left[c] = size[c]
      BY <1>2 DEF FirstCall
    <3> QED
      BY <1>2, <2>1, <3>1, <3>2 DEF FirstCall
  <2>2. CASE Enter(c, "close") /\ UNCHANGED body
    BY <1>2, <2>2 DEF FirstCall
  <2> QED
    BY <1>2, <2>1, <2>2 DEF FirstCall
<1>3. ASSUME NEW c \in Conn, NEW k \in 1..MaxPiece, Discard(c, k)
      PROVE  Inductive'
  BY <1>3 DEF Discard, Deliver
<1>4. ASSUME NEW c \in Conn, NEW k \in 1..MaxPiece, Append(c, k)
      PROVE  Inductive'
  <2> DEFINE b == body[c]
             d == Appended(b, k)
  <2>1. /\ k \in Nat /\ k > 0 /\ b \in Body /\ b # NoBody /\ Fitting(b) /\ ~b.response_queued
        /\ k <= MaxBody - b.length /\ Fits(b, k) /\ b.length <= MaxBody
        /\ b.length + left[c] = size[c] /\ k <= left[c] /\ b.length \in Nat
    BY <1>4 DEF Append, Deliver, Fits, Body
  <2>2. d \in Body /\ Fitting(d) /\ d.length = b.length + k /\ ~d.response_queued
    BY <2>1, BodyAppended
  <2>3. /\ body' = [body EXCEPT ![c] = d] /\ left' = [left EXCEPT ![c] = @ - k]
        /\ UNCHANGED <<phase, size, status, answers>> /\ phase[c] = "body"
    BY <1>4 DEF Append, Deliver
  <2> HIDE DEF d
  <2> QED
    BY <2>1, <2>2, <2>3
<1>5. ASSUME NEW c \in Conn, NEW k \in 1..MaxPiece, Reject(c, k)
      PROVE  Inductive'
  <2> DEFINE b == body[c]
             d == [b EXCEPT !.response_queued = TRUE]
  <2>1. /\ k \in Nat /\ b \in Body /\ Fitting(b) /\ ~b.response_queued /\ k <= left[c]
        /\ phase[c] = "body" /\ answers[c] = 0
    BY <1>5 DEF Reject, Deliver
  <2>2. d \in Body /\ Fitting(d) /\ d.length = b.length /\ d.response_queued
    BY <2>1, BodyAnswered
  <2>3. /\ body' = [body EXCEPT ![c] = d] /\ left' = [left EXCEPT ![c] = @ - k]
        /\ UNCHANGED size
    BY <1>5 DEF Reject, Deliver
  <2> HIDE DEF d
  <2>4. CASE Queue(c, 413) /\ UNCHANGED phase
    BY <2>1, <2>2, <2>3, <2>4 DEF Queue
  <2>5. CASE Enter(c, "close") /\ UNCHANGED <<status, answers>>
    BY <2>1, <2>2, <2>3, <2>5
  <2> QED
    BY <1>5, <2>4, <2>5 DEF Reject
<1>6. ASSUME NEW c \in Conn, LastCall(c)
      PROVE  Inductive'
  <2>1. phase[c] = "body" /\ left[c] = 0
    BY <1>6 DEF LastCall
  <2>2. CASE Queue(c, 200) /\ Enter(c, "reply") /\ ~body[c].response_queued
    BY <1>6, <2>1, <2>2 DEF LastCall, Queue, Body
  <2>3. CASE Enter(c, "close") /\ UNCHANGED <<status, answers>>
    BY <1>6, <2>1, <2>3 DEF LastCall
  <2>4. CASE Enter(c, "reply") /\ UNCHANGED <<status, answers>>
    BY <1>6, <2>1, <2>4 DEF LastCall
  <2> QED
    BY <1>6, <2>2, <2>3, <2>4 DEF LastCall
<1>7. ASSUME NEW c \in Conn, ReplyEarly(c)
      PROVE  Inductive'
  BY <1>7 DEF ReplyEarly
<1>8. ASSUME NEW c \in Conn, Abort(c)
      PROVE  Inductive'
  BY <1>8 DEF Abort
<1>9. ASSUME NEW c \in Conn, Completed(c)
      PROVE  Inductive'
  BY <1>9 DEF Completed
<1>10. CASE UNCHANGED vars
  BY <1>10 DEF vars
<1> QED
  BY <1>1, <1>2, <1>3, <1>4, <1>5, <1>6, <1>7, <1>8, <1>9, <1>10 DEF Next, Call

\* The invariant holds of every behaviour.
THEOREM UploadInvariant == Spec => []Inductive
BY InductiveInit, InductiveNext, PTL DEF Spec

\* Connections, bodies and answers keep their types; nothing is allocated for
\* a connection between two requests.
THEOREM UploadTypeCorrect == Spec => []UploadTypeOK
BY UploadInvariant, PTL DEF Inductive, Connections

\* A handler that is run gets the whole body of its request, within the limit.
THEOREM BodyCorrect == Spec => []WholeBody
BY UploadInvariant, PTL DEF Inductive

\* A request is answered once.
THEOREM AnswerCorrect == Spec => []OneAnswer
BY UploadInvariant, PTL DEF Inductive

\* What append() writes fits in the buffer, and the buffer does not grow without
\* bound: the memory a connection can hold is known.
THEOREM BufferCorrect == Spec => []BufferFits
<1>1. Inductive => BufferFits
  BY DEF Inductive, Connections, UploadTypeOK, Body, Buffers, Fitting, BufferFits
<1> QED
  BY <1>1, UploadInvariant, PTL

\* 413 answers a body over the limit, or a piece that needed a larger buffer.
THEOREM RejectionCorrect == Spec => OnlyTooLarge
<1> DEFINE Justified ==
             \A c \in Conn : status[c] = 0 /\ status'[c] = 413 =>
               size[c] > MaxBody \/ size[c] - left'[c] >= body[c].capacity
<1>1. Inductive /\ [Next]_vars => [Justified]_vars
  <2> SUFFICES ASSUME Inductive, Next, NEW c \in Conn, status[c] = 0, status'[c] = 413
               PROVE  size[c] > MaxBody \/ size[c] - left'[c] >= body[c].capacity
    OBVIOUS
  <2> USE DEF Inductive, Connections, UploadTypeOK, Received
  <2>1. PICK k \in 1..MaxPiece : Reject(c, k)
    BY DEF Next, Call, Request, FirstCall, LastCall, Discard, Append, Reject, Deliver,
           Queue, ReplyEarly, Abort, Completed
  <2>2. /\ k \in Nat /\ body[c] \in Body /\ left[c] \in Nat /\ size[c] \in Nat /\ k <= left[c]
        /\ body[c].length + left[c] = size[c] /\ left'[c] = left[c] - k
        /\ body[c].length \in Nat /\ body[c].capacity \in Nat
    BY <2>1, UploadAssumption DEF Reject, Deliver, Body
  <2>3. CASE ~(k <= MaxBody - body[c].length)
    BY <2>2, <2>3, UploadAssumption
  <2>4. CASE body[c].length + k + 1 > body[c].capacity
    BY <2>2, <2>4
  <2> QED
    BY <2>1, <2>3, <2>4 DEF Reject, MayFail, Fits, Required
<1> QED
  BY <1>1, UploadInvariant, PTL DEF Spec, OnlyTooLarge

=============================================================================
