------------------------------- MODULE Upload -------------------------------
(***************************************************************************)
(* The body of a request: http_access_handler(), http_request_completed()  *)
(* and PortalHttpRequestBody, as libmicrohttpd calls them for each         *)
(* connection, which may carry several requests one after the other.       *)
(*                                                                         *)
(* libmicrohttpd calls the handler once when the headers are in, once for  *)
(* every piece of the body, and once more when it is whole; it may accept  *)
(* or refuse an answer queued while the body is still coming in; whatever  *)
(* happens it calls http_request_completed() in the end.  Memory may run   *)
(* out at each allocation.                                                 *)
(***************************************************************************)
EXTENDS Naturals

CONSTANTS
  Conn,
  MaxBody,           \* PORTAL_HTTP_MAX_BODY_SIZE
  FirstCapacity,     \* 4096 in the code
  MaxSize,           \* bound: the largest body a client sends
  MaxPiece,          \* bound: the largest piece libmicrohttpd delivers
  NoBody

VARIABLES
  phase,             \* what libmicrohttpd does with the connection
  size,              \* bytes in the body the client sends
  left,              \* bytes of it not yet delivered to the handler
  body,              \* *con_cls: the PortalHttpRequestBody, or NoBody (NULL)
  status,            \* the answer queued: 0, 413, or 200 for a dispatch
  answers            \* answers queued for this request

vars == <<phase, size, left, body, status, answers>>

Body == [length : Nat, capacity : Nat, response_queued : BOOLEAN]

ASSUME UploadAssumption ==
  /\ MaxBody \in Nat /\ FirstCapacity \in Nat \ {0}
  /\ MaxSize \in Nat /\ MaxPiece \in Nat
  /\ NoBody \notin Body

\* Between two requests nothing is allocated for a connection.
UploadTypeOK ==
  /\ phase \in [Conn -> {"open", "headers", "body", "reply", "close"}]
  /\ size \in [Conn -> Nat] /\ left \in [Conn -> Nat]
  /\ body \in [Conn -> Body \cup {NoBody}]
  /\ status \in [Conn -> {0, 200, 413}]
  /\ answers \in [Conn -> Nat]
  /\ \A c \in Conn : phase[c] \in {"open", "headers"} => body[c] = NoBody

Init ==
  /\ phase = [c \in Conn |-> "open"]
  /\ size = [c \in Conn |-> 0] /\ left = [c \in Conn |-> 0]
  /\ body = [c \in Conn |-> NoBody]
  /\ status = [c \in Conn |-> 0]
  /\ answers = [c \in Conn |-> 0]

Enter(c, p) == phase' = [phase EXCEPT ![c] = p]

-----------------------------------------------------------------------------
(* portal_http_request_body_append()                                       *)

\* while (capacity < required) capacity *= 2
Doubled(from, required) ==
  LET d[n \in Nat] == IF n < required THEN d[2 * n] ELSE n IN d[from]

\* Faulty variants: no room for the terminator; the limit compared before the
\* piece is counted; the limit itself refused.
RequiredWithoutTerminator(b, k) == b.length + k
FitsBefore(b, k) == b.length <= MaxBody
FitsStrictly(b, k) == k < MaxBody - b.length

Required(b, k) == b.length + k + 1
Fits(b, k) == k <= MaxBody - b.length

Capacity(b, k) ==
  IF Required(b, k) > b.capacity
  THEN Doubled(IF b.capacity = 0 THEN FirstCapacity ELSE b.capacity, Required(b, k))
  ELSE b.capacity

Appended(b, k) ==
  [b EXCEPT !.length = @ + k, !.capacity = Capacity(b, k)]

\* What is left of the buffer when the append fails is what was there.
MayFail(b, k) == ~Fits(b, k) \/ Required(b, k) > b.capacity

-----------------------------------------------------------------------------
(* The calls of http_access_handler().                                     *)

\* An answer is queued, and libmicrohttpd accepts it or not.
Queue(c, s) ==
  /\ status' = [status EXCEPT ![c] = s]
  /\ answers' = [answers EXCEPT ![c] = @ + 1]

\* A request comes on an idle connection: its headers are read.
Request(c, n) ==
  /\ phase[c] = "open"
  /\ Enter(c, "headers")
  /\ size' = [size EXCEPT ![c] = n] /\ left' = [left EXCEPT ![c] = n]
  /\ status' = [status EXCEPT ![c] = 0]
  /\ answers' = [answers EXCEPT ![c] = 0]
  /\ UNCHANGED body

NewBody == [length |-> 0, capacity |-> 0, response_queued |-> FALSE]

\* The first call allocates the body, or makes libmicrohttpd close.
FirstCall(c) ==
  /\ phase[c] = "headers" /\ body[c] = NoBody
  /\ \/ /\ body' = [body EXCEPT ![c] = NewBody]
        /\ Enter(c, "body")
     \/ Enter(c, "close") /\ UNCHANGED body
  /\ UNCHANGED <<size, left, status, answers>>

Deliver(c, k) ==
  /\ phase[c] = "body"
  /\ k \in 1..left[c]
  /\ left' = [left EXCEPT ![c] = @ - k]

\* Faulty variant: *upload_data_size is not cleared, so the piece comes again.
DiscardUnread(c, k) ==
  /\ phase[c] = "body" /\ k \in 1..left[c]
  /\ body[c].response_queued
  /\ UNCHANGED vars

\* A piece after the answer was queued: counted as read, and dropped.
Discard(c, k) ==
  /\ Deliver(c, k)
  /\ body[c].response_queued
  /\ UNCHANGED <<phase, size, body, status, answers>>

Append(c, k) ==
  /\ Deliver(c, k)
  /\ ~body[c].response_queued
  /\ Fits(body[c], k)
  /\ body' = [body EXCEPT ![c] = Appended(@, k)]
  /\ UNCHANGED <<phase, size, status, answers>>

\* 413; if libmicrohttpd refuses it here the connection is closed instead.
Reject(c, k) ==
  /\ Deliver(c, k)
  /\ ~body[c].response_queued
  /\ MayFail(body[c], k)
  /\ body' = [body EXCEPT ![c].response_queued = TRUE]
  /\ \/ Queue(c, 413) /\ UNCHANGED phase
     \/ Enter(c, "close") /\ UNCHANGED <<status, answers>>
  /\ UNCHANGED size

\* Faulty variant: response_queued is not looked at on the last call.
LastCallAgain(c) ==
  /\ phase[c] = "body" /\ body[c] # NoBody /\ left[c] = 0
  /\ Queue(c, 200) /\ Enter(c, "reply")
  /\ UNCHANGED <<size, left, body>>

\* A call without data when there is a body: the code takes it for the last.
\* http_dispatch() queues an answer or makes the connection close (MHD_NO),
\* unless an answer is queued already.
LastCall(c) ==
  /\ body[c] # NoBody
  /\ phase[c] = "headers" \/ (phase[c] = "body" /\ left[c] = 0)
  /\ \/ /\ body[c].response_queued
        /\ Enter(c, "reply") /\ UNCHANGED <<status, answers>>
     \/ /\ ~body[c].response_queued
        /\ \/ Queue(c, 200) /\ Enter(c, "reply")
           \/ Enter(c, "close") /\ UNCHANGED <<status, answers>>
  /\ UNCHANGED <<size, left, body>>

\* libmicrohttpd may send a queued answer without reading the rest.
ReplyEarly(c) ==
  /\ phase[c] = "body"
  /\ status[c] # 0
  /\ Enter(c, "reply")
  /\ UNCHANGED <<size, left, body, status, answers>>

\* The client, or libmicrohttpd, gives the connection up.
Abort(c) ==
  /\ phase[c] \in {"headers", "body", "reply"}
  /\ Enter(c, "close")
  /\ UNCHANGED <<size, left, body, status, answers>>

\* Faulty variant: the body stays in *con_cls for the connection's next request.
CompletedKeeping(c) ==
  /\ phase[c] \in {"reply", "close"}
  /\ Enter(c, "open")
  /\ UNCHANGED <<size, left, body, status, answers>>

\* http_request_completed(): the body is freed; the connection, or a new one
\* in its place, is ready for a request.
Completed(c) ==
  /\ phase[c] \in {"reply", "close"}
  /\ Enter(c, "open")
  /\ body' = [body EXCEPT ![c] = NoBody]
  /\ UNCHANGED <<size, left, status, answers>>

Call(c) ==
  \/ FirstCall(c) \/ LastCall(c)
  \/ \E k \in 1..MaxPiece : Discard(c, k) \/ Append(c, k) \/ Reject(c, k)

Next ==
  \E c \in Conn :
    \/ \E n \in 0..MaxSize : Request(c, n)
    \/ Call(c)
    \/ ReplyEarly(c) \/ Abort(c) \/ Completed(c)

Spec == Init /\ [][Next]_vars

\* The polling thread goes round the connections, and a client that does not
\* give up goes on sending (the code sets no timeout on it).
FairSpec ==
  Spec /\ \A c \in Conn : WF_vars(Call(c)) /\ WF_vars(Completed(c))

-----------------------------------------------------------------------------
(* Properties.                                                             *)

\* A handler that is run gets the whole body the client sent, nothing of an
\* earlier request on the connection, and never more than the limit.
WholeBody ==
  \A c \in Conn : status[c] = 200 /\ body[c] # NoBody =>
    body[c].length = size[c] /\ size[c] <= MaxBody

\* One answer per request: a body that was refused is not dispatched as well.
OneAnswer == \A c \in Conn : answers[c] <= 1

\* The bytes received and the terminator that append() writes after them fit
\* in the buffer, which is never twice as large as the limit needs, unless it is
\* the first.
BufferFits ==
  \A c \in Conn : body[c] # NoBody /\ body[c].length > 0 =>
    /\ body[c].length < body[c].capacity
    /\ body[c].capacity = FirstCapacity \/ body[c].capacity < 2 * (MaxBody + 1)

\* 413 is for the bodies over the limit, however they are cut into pieces, and
\* for those whose next piece needed a larger buffer than there was memory for.
OnlyTooLarge ==
  [][\A c \in Conn : status[c] = 0 /\ status'[c] = 413 =>
       size[c] > MaxBody \/ size[c] - left'[c] >= body[c].capacity]_vars

\* A request that began comes to its end, and its memory to its release.
EveryRequestCompletes == \A c \in Conn : phase[c] # "open" ~> phase[c] = "open"

=============================================================================
