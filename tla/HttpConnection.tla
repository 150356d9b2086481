--------------------------- MODULE HttpConnection ---------------------------
(***************************************************************************)
(* Services/Http/HttpClientInfo.cpp with the HttpContext it owns: one HTTP *)
(* connection, whose events several worker threads may handle at once,     *)
(* each inside MessageReceivableCB or MessageSendableCB under              *)
(* context->mut.  The functions of a handler call one another in tail      *)
(* position; pc names the one that runs.                                   *)
(*                                                                         *)
(* The stream is cut into pieces: a request is `head' pieces of header,    *)
(* two pieces of header end (\r\n\r\n), and its body.  A response is       *)
(* ResponseLength pieces, and has a status and a body; the body a handler  *)
(* makes says which request and which body it saw.                         *)
(***************************************************************************)
EXTENDS Integers, Sequences, Functions

CONSTANTS
  Requests,       \* the requests the client may make
  MaxRequests,    \* bound: how many it makes
  MaxTroubled,    \* bound: how many of them if a client is too slow or a
                  \* handler throws; 0: neither happens
  Workers,        \* the threads of the pool
  MaxHeader,      \* MAX_HEADER_LENGTH
  MaxBody,        \* MAX_BODY_LENGTH
  Step,           \* INPUT_BUFFER_STEP_SIZE
  ResponseLength, \* the pieces of a response
  ReceiveBuffer,  \* what the kernel keeps of the client's data
  SendBuffer,     \* what it keeps of ours
  Pipelining      \* does the client send ahead of the responses?

VARIABLES
  asked,     \* the requests the client has begun to send
  unsent,    \* what it has yet to send of the last
  inbox,     \* the kernel's receive queue
  unread,    \* pieces of responses the client has not read
  edge,      \* is an event of the socket waiting to be fetched?
  nospace,   \* the kernel reports when the client has read something
  isOpen,    \* context->sender
  delivered, \* auxiliary: all that was sent so far
  inputBuffer, outputBuffer, \* context->InputBuffer, context->OutputBuffer
  status,    \* context->Status
  request,   \* context->request
  keepAlive, \* context->response.KeepAlive
  response,  \* the status and the body of context->response
  pc,        \* where each worker is
  looping,   \* is the mutex's holder in the loop of MessageReceivableCB?
  left,      \* the iterations of that loop that are left
  arg,       \* the argument of the function that runs
  calm,      \* auxiliary: no request came too slowly and no handler threw
  again      \* auxiliary: the request whose answer, while it was to be sent,
             \* a timeout had written once more; 0: none

Promise == INSTANCE HttpConversation WITH over <- ~isOpen

network == <<inbox, unread, edge, nospace, isOpen, delivered>>
context == <<inputBuffer, outputBuffer, status, request, keepAlive, response>>
call == <<looping, left, arg>>
vars == <<asked, unsent, network, context, pc, call, calm, again>>

ASSUME HttpConnectionAssumption ==
  /\ Requests \subseteq Promise!RequestType
  /\ {MaxRequests, MaxHeader, MaxBody} \subseteq Nat
  /\ MaxTroubled \in 0..MaxRequests
  /\ {Step, ResponseLength, ReceiveBuffer, SendBuffer} \subseteq Nat \ {0}
  /\ Pipelining \in BOOLEAN

RecvLimit == (MaxHeader + MaxBody) \div Step

-----------------------------------------------------------------------------
(* Pieces *)

Piece(n, part) == [of |-> n, is |-> part]

(* All that the client sends of its request n. *)
Stream(n, r) ==
  [i \in 1..r.head |-> Piece(n, "head")]
    \o <<Piece(n, "end1"), Piece(n, "end2")>>
    \o [i \in 1..r.length |-> Piece(n, "body")]

GetResponseText(answer) ==
  [i \in 1..ResponseLength |-> Promise!Piece(answer, i)]

Take(s, k) == SubSeq(s, 1, k)
Drop(s, k) == SubSeq(s, k + 1, Len(s))

(* InputBuffer.FindDoubleNewLine: the places of a header end, from start. *)
HeaderEnds(start) ==
  {i \in start..Len(inputBuffer) - 2 : /\ inputBuffer[i + 1].is = "end1"
                                       /\ inputBuffer[i + 2].is = "end2"}

(* Mutant of SearchFrom: the search does not reach back. *)
SearchFromNew(bytes) == Len(inputBuffer) - bytes

(***************************************************************************)
(* The last bytes of the previous chunk are searched again, as many as a   *)
(* header end has: two pieces.                                             *)
(***************************************************************************)
SearchFrom(bytes) ==
  LET startPos == Len(inputBuffer) - bytes
  IN  IF startPos > 2 THEN startPos - 2 ELSE 0

Room == SendBuffer - unread

(* request after construction; Clean leaves `type' (contentType) alone. *)
NoRequest == [number |-> 0, method |-> "UNKNOWN", length |-> -1,
              type |-> "none", params |-> <<>>]

Clean == [NoRequest EXCEPT !.type = request.type]

-----------------------------------------------------------------------------
(* context->response *)

(* After Clean: no status is set, and there is no body. *)
NoAnswer == [to |-> 0, got |-> <<>>, status |-> "none"]

(* SetStatusCode: an error replaces a success, and nothing else is replaced. *)
Accepts(stat) ==
  \/ response.status = "none"
  \/ response.status = "OK" /\ stat # "OK"

(* Whatever the status is, the body stays. *)
SetOther(stat) ==
  IF Accepts(stat) THEN [response EXCEPT !.status = stat] ELSE response

(* All that a handler does here is to say what it sees of the request. *)
SetWithBody ==
  LET stat == Promise!HandlerStatus(asked[request.number].found)
  IN  IF Accepts(stat)
      THEN [to |-> request.number, got |-> request.params, status |-> stat]
      ELSE response

-----------------------------------------------------------------------------
(* context->mut and the calls *)

MutexFree == \A w \in Workers : pc[w] \in {"idle", "in", "out"}

Goto(w, from, to) == pc[w] = from /\ pc' = [pc EXCEPT ![w] = to]

(* The running function returns, and with it its callers. *)
Return(w, from) == Goto(w, from, IF looping THEN "recv" ELSE "idle")

(* The answer is ready and SwitchToSend is called. *)
SwitchToSend(w, from, answer) ==
  /\ Goto(w, from, "send")
  /\ response' = answer
  /\ outputBuffer' = GetResponseText(answer)
  /\ status' = "SEND"

(* As above, with an error that costs the connection. *)
Refuse(w, from, stat) ==
  SwitchToSend(w, from, SetOther(stat)) /\ keepAlive' = FALSE

-----------------------------------------------------------------------------
(* Something has gone wrong that HttpConversation knows nothing of. *)
Troubled == Len(asked) <= MaxTroubled /\ calm' = FALSE

-----------------------------------------------------------------------------
(* The client *)

(* It has read the responses to all its requests. *)
Answered == Len(delivered) = Len(asked) * ResponseLength /\ unread = 0

Ask(r) ==
  /\ isOpen
  /\ unsent = <<>>
  /\ Len(asked) < IF calm THEN MaxRequests ELSE MaxTroubled
  /\ Pipelining \/ Answered
  /\ asked' = Append(asked, r)
  /\ unsent' = Stream(Len(asked) + 1, r)
  /\ UNCHANGED <<network, context, pc, call, calm, again>>

ClientSends ==
  /\ isOpen
  /\ unsent # <<>>
  /\ Len(inbox) < ReceiveBuffer
  /\ inbox' = Append(inbox, Head(unsent))
  /\ unsent' = Tail(unsent)
  /\ edge' = TRUE
  /\ UNCHANGED <<asked, unread, nospace, isOpen, delivered, context, pc, call,
                 calm, again>>

ClientReads ==
  /\ unread > 0
  /\ unread' = unread - 1
  /\ edge' = (edge \/ (nospace /\ isOpen))
  /\ nospace' = FALSE
  /\ UNCHANGED <<asked, unsent, inbox, isOpen, delivered, context, pc, call,
                 calm, again>>

-----------------------------------------------------------------------------
(***************************************************************************)
(* A worker fetches the event.  It says all that the socket is ready for;  *)
(* if it is ready for reading, only MessageReceivableCB is called.         *)
(***************************************************************************)
Fetch(w, next) == isOpen /\ edge /\ Goto(w, "idle", next) /\ edge' = FALSE

PollReceivable(w) ==
  /\ inbox # <<>>
  /\ Fetch(w, "in")
  /\ nospace' = (nospace \/ Room = 0)
  /\ UNCHANGED <<asked, unsent, inbox, unread, isOpen, delivered, context, call>>

(* Mutant of PollSendable: the event is not handled. *)
PollIgnored(w) ==
  /\ inbox = <<>>
  /\ Room > 0
  /\ Fetch(w, "idle")
  /\ UNCHANGED <<asked, unsent, inbox, unread, nospace, isOpen, delivered,
                 context, call>>

PollSendable(w) ==
  /\ inbox = <<>>
  /\ Room > 0
  /\ Fetch(w, "out")
  /\ UNCHANGED <<asked, unsent, inbox, unread, nospace, isOpen, delivered,
                 context, call>>

(* Both conditions have passed: epoll_wait drops the event. *)
PollNothing(w) ==
  /\ inbox = <<>>
  /\ Room = 0
  /\ Fetch(w, "idle")
  /\ nospace' = TRUE
  /\ UNCHANGED <<asked, unsent, inbox, unread, isOpen, delivered, context, call>>

-----------------------------------------------------------------------------
(* MessageReceivableCB, MessageSendableCB *)

Receivable(w) ==
  /\ MutexFree
  /\ Goto(w, "in", "recv")
  /\ looping' = TRUE
  /\ left' = RecvLimit
  /\ UNCHANGED <<asked, unsent, network, context, arg>>

(***************************************************************************)
(* What is in the buffer is too little for its age.  Nobody asks whether a *)
(* response is on its way: if it is, it is written again, from its start.  *)
(***************************************************************************)
ReceivableTooSlowly(w) ==
  /\ Troubled
  /\ inputBuffer # <<>>
  /\ again' = IF status = "SEND" /\ response.to # 0 THEN response.to ELSE again
  /\ MutexFree
  /\ Refuse(w, "in", "REQUEST_TIMEOUT")
  /\ looping' = TRUE
  /\ left' = RecvLimit
  /\ UNCHANGED <<asked, unsent, network, inputBuffer, request, arg>>

Recv(w) ==
  /\ Goto(w, "recv", "data")
  /\ left > 0
  /\ isOpen
  /\ inbox # <<>>
  /\ LET bytes == IF Len(inbox) < Step THEN Len(inbox) ELSE Step
     IN  /\ inputBuffer' = inputBuffer \o Take(inbox, bytes)
         /\ inbox' = Drop(inbox, bytes)
         /\ arg' = bytes
  /\ left' = left - 1
  /\ UNCHANGED <<asked, unsent, unread, edge, nospace, isOpen, delivered,
                 outputBuffer, status, request, keepAlive, response, looping>>

RecvEnds(w) ==
  /\ Goto(w, "recv", "idle")
  /\ left = 0 \/ ~isOpen \/ inbox = <<>>
  /\ UNCHANGED <<asked, unsent, network, context, call>>

Sendable(w) ==
  /\ MutexFree
  /\ Goto(w, "out", "send")
  /\ looping' = FALSE
  /\ UNCHANGED <<asked, unsent, network, context, left, arg>>

-----------------------------------------------------------------------------
(* DataReceived *)

DataEndsHeader(w) ==
  /\ Goto(w, "data", "header")
  /\ status = "RECEIVE_HEADER"
  /\ HeaderEnds(SearchFrom(arg)) # {}
  /\ arg' = CHOOSE i \in HeaderEnds(SearchFrom(arg)) :
              \A j \in HeaderEnds(SearchFrom(arg)) : i <= j
  /\ UNCHANGED <<asked, unsent, network, context, looping, left>>

DataTooLong(w) ==
  /\ status = "RECEIVE_HEADER"
  /\ HeaderEnds(SearchFrom(arg)) = {}
  /\ Len(inputBuffer) > MaxHeader
  /\ Refuse(w, "data", "REQUEST_ENTITY_TOO_LARGE")
  /\ UNCHANGED <<asked, unsent, network, inputBuffer, request, call>>

DataEndsBody(w) ==
  /\ Goto(w, "data", "body")
  /\ status = "RECEIVE_BODY"
  /\ request.length <= Len(inputBuffer)
  /\ UNCHANGED <<asked, unsent, network, context, call>>

DataWaits(w) ==
  /\ Return(w, "data")
  /\ \/ status = "SEND"
     \/ /\ status = "RECEIVE_HEADER"
        /\ HeaderEnds(SearchFrom(arg)) = {}
        /\ Len(inputBuffer) <= MaxHeader
     \/ status = "RECEIVE_BODY" /\ request.length > Len(inputBuffer)
  /\ UNCHANGED <<asked, unsent, network, context, call>>

-----------------------------------------------------------------------------
(***************************************************************************)
(* HeaderReceived(arg).  HandleHeader reads what is at the front of the    *)
(* buffer, and fails if that is not a well-formed header.                  *)
(***************************************************************************)
Received == asked[inputBuffer[1].of]
HeaderOk == inputBuffer[1].is = "head" /\ Received.wellFormed
BehindHeader == Drop(inputBuffer, arg + 2)

(* A field that the header does not have keeps its value. *)
HandleHeader ==
  [request EXCEPT
     !.number = inputBuffer[1].of,
     !.method = Received.method,
     !.length = IF Received.length = -1 THEN @ ELSE Received.length,
     !.type = IF Received.type = "none" THEN @ ELSE Received.type]

(* Mutant of HeaderStatus: the limit itself is refused. *)
HeaderStatusTight(req) ==
  IF req.method \notin {"GET", "POST", "PUT"} THEN "METHOD_NOT_ALLOWED"
  ELSE IF req.length >= MaxBody THEN "REQUEST_ENTITY_TOO_LARGE"
  ELSE IF req.length = -1 /\ req.method # "GET" THEN "LENGTH_REQUIRED"
  ELSE "OK"

HeaderStatus(req) ==
  IF req.method \notin {"GET", "POST", "PUT"} THEN "METHOD_NOT_ALLOWED"
  ELSE IF req.length > MaxBody THEN "REQUEST_ENTITY_TOO_LARGE"
  ELSE IF req.length = -1 /\ req.method # "GET" THEN "LENGTH_REQUIRED"
  ELSE "OK"

HeaderInvalid(w) ==
  /\ Refuse(w, "header", "BAD_REQUEST")
  /\ ~HeaderOk
  /\ inputBuffer' = BehindHeader
  /\ UNCHANGED <<asked, unsent, network, request, call>>

(* HandleHeader was successful: what it leaves for all that follows. *)
HeaderRead ==
  /\ HeaderOk
  /\ inputBuffer' = BehindHeader
  /\ request' = HandleHeader

HeaderRefused(w) ==
  /\ Refuse(w, "header", HeaderStatus(HandleHeader))
  /\ HeaderRead
  /\ HeaderStatus(HandleHeader) # "OK"
  /\ UNCHANGED <<asked, unsent, network, call>>

HeaderAccepted ==
  /\ HeaderRead
  /\ HeaderStatus(HandleHeader) = "OK"
  /\ keepAlive' = (keepAlive /\ ~Received.close)

HeaderBeforeBody(w) ==
  /\ Return(w, "header")
  /\ HeaderAccepted
  /\ HandleHeader.length > Len(BehindHeader)
  /\ status' = "RECEIVE_BODY"
  /\ UNCHANGED <<asked, unsent, network, outputBuffer, response, call>>

HeaderAndBody(w) ==
  /\ Goto(w, "header", "body")
  /\ HeaderAccepted
  /\ HandleHeader.length \in 0..Len(BehindHeader)
  /\ UNCHANGED <<asked, unsent, network, outputBuffer, status, response, call>>

HeaderOnly(w) ==
  /\ Goto(w, "header", "ready")
  /\ HeaderAccepted
  /\ HandleHeader.length = -1
  /\ UNCHANGED <<asked, unsent, network, outputBuffer, status, response, call>>

-----------------------------------------------------------------------------
(***************************************************************************)
(* BodyReceived.  HandleBody reads the body of a POST request; only a      *)
(* "multipart" body can fail, as an empty one does.  (That the body is     *)
(* complete, BodyReceived checks again, and in vain: both callers have.)   *)
(***************************************************************************)
HandleBodyFails ==
  /\ request.method = "POST" /\ request.type = "multipart"
  /\ \/ request.length = 0
     \/ \E i \in 1..request.length :
          inputBuffer[i].is # "body" \/ asked[inputBuffer[i].of].body # "parts"

BodyRefused(w) ==
  /\ SwitchToSend(w, "body", SetOther("BAD_REQUEST"))
  /\ HandleBodyFails
  /\ inputBuffer' = Drop(inputBuffer, request.length)
  /\ UNCHANGED <<asked, unsent, network, request, keepAlive, call>>

(* Mutant of BodyHandled: the body stays in the buffer. *)
BodyStays(w) ==
  /\ Goto(w, "body", "ready")
  /\ ~HandleBodyFails
  /\ request' = [request EXCEPT !.params =
                   IF request.method = "POST"
                   THEN Take(inputBuffer, request.length) ELSE @]
  /\ UNCHANGED <<asked, unsent, network, inputBuffer, outputBuffer, status,
                 keepAlive, response, call>>

BodyHandled(w) ==
  /\ Goto(w, "body", "ready")
  /\ ~HandleBodyFails
  /\ request' = [request EXCEPT !.params =
                   IF request.method = "POST"
                   THEN Take(inputBuffer, request.length) ELSE @]
  /\ inputBuffer' = Drop(inputBuffer, request.length)
  /\ UNCHANGED <<asked, unsent, network, outputBuffer, status, keepAlive, response,
                 call>>

-----------------------------------------------------------------------------
(* MessageReady *)

MessageReady(w) ==
  /\ SwitchToSend(w, "ready", SetWithBody)
  /\ UNCHANGED <<asked, unsent, network, inputBuffer, request, keepAlive, call>>

(* The exception is logged, and that is all: what was set stays. *)
MessageThrows(w) ==
  /\ Troubled
  /\ Return(w, "ready")
  /\ response' \in {response, SetWithBody}
  /\ UNCHANGED <<asked, unsent, network, inputBuffer, outputBuffer, status,
                 request, keepAlive, call, again>>

-----------------------------------------------------------------------------
(* SendInner *)

NothingToSend(w) ==
  /\ Return(w, "send")
  /\ outputBuffer = <<>>
  /\ UNCHANGED <<asked, unsent, network, context, call>>

(* send fails, with EAGAIN or because the descriptor is closed. *)
SendFails(w) ==
  /\ Return(w, "send")
  /\ outputBuffer # <<>>
  /\ Room = 0 \/ ~isOpen
  /\ nospace' = (nospace \/ isOpen)
  /\ UNCHANGED <<asked, unsent, inbox, unread, edge, isOpen, delivered,
                 context, call>>

(* The kernel takes k pieces. *)
Transmit(k) ==
  /\ isOpen
  /\ delivered' = delivered \o Take(outputBuffer, k)
  /\ unread' = unread + k

(* Mutant of SendPartly: the pieces that were sent stay in the buffer. *)
SendPartlyAgain(w) ==
  /\ Return(w, "send")
  /\ Room \in 1..Len(outputBuffer) - 1
  /\ Transmit(Room)
  /\ nospace' = TRUE
  /\ UNCHANGED <<asked, unsent, inbox, edge, isOpen, context, call>>

SendPartly(w) ==
  /\ Return(w, "send")
  /\ Room \in 1..Len(outputBuffer) - 1
  /\ Transmit(Room)
  /\ outputBuffer' = Drop(outputBuffer, Room)
  /\ nospace' = TRUE
  /\ UNCHANGED <<asked, unsent, inbox, edge, isOpen, inputBuffer, status,
                 request, keepAlive, response, call>>

(* All is sent, and the context is Reset. *)
SendRest ==
  /\ Len(outputBuffer) \in 1..Room
  /\ Transmit(Len(outputBuffer))
  /\ outputBuffer' = <<>>
  /\ request' = Clean
  /\ response' = NoAnswer
  /\ status' = "RECEIVE_HEADER"

(* The next request may be in the buffer already. *)
SendAll(w) ==
  /\ Goto(w, "send", "data")
  /\ keepAlive
  /\ SendRest
  /\ arg' = Len(inputBuffer)
  /\ UNCHANGED <<asked, unsent, inbox, edge, nospace, isOpen, inputBuffer,
                 keepAlive, looping, left>>

(* Mutant of SendAllAndClose: the next request is looked for all the same. *)
CloseAndGoOn(w) ==
  /\ Goto(w, "send", "data")
  /\ ~keepAlive
  /\ SendRest
  /\ isOpen' = FALSE
  /\ inbox' = <<>>
  /\ edge' = FALSE
  /\ arg' = Len(inputBuffer)
  /\ UNCHANGED <<asked, unsent, nospace, inputBuffer, keepAlive, looping, left>>

SendAllAndClose(w) ==
  /\ Return(w, "send")
  /\ ~keepAlive
  /\ SendRest
  /\ isOpen' = FALSE
  /\ inbox' = <<>>
  /\ edge' = FALSE
  /\ UNCHANGED <<asked, unsent, nospace, inputBuffer, keepAlive, call>>

-----------------------------------------------------------------------------
Init ==
  /\ asked = <<>> /\ unsent = <<>> /\ inbox = <<>>
  /\ unread = 0 /\ delivered = <<>> /\ isOpen = TRUE
  /\ edge = TRUE \* EPOLL_CTL_ADD reports a socket that is writable
  /\ nospace = FALSE
  /\ inputBuffer = <<>> /\ outputBuffer = <<>>
  /\ status = "RECEIVE_HEADER"
  /\ request = NoRequest
  /\ keepAlive = TRUE
  /\ response = NoAnswer
  /\ pc = [w \in Workers |-> "idle"]
  /\ looping = FALSE /\ left = 0 /\ arg = 0
  /\ calm = TRUE
  /\ again = 0

ClientStep == (\E r \in Requests : Ask(r)) \/ ClientSends \/ ClientReads

WorkerStep(w) ==
  \/ ReceivableTooSlowly(w) \/ MessageThrows(w)
  \/ /\ \/ PollReceivable(w) \/ PollSendable(w) \/ PollNothing(w)
        \/ Receivable(w) \/ Recv(w) \/ RecvEnds(w) \/ Sendable(w)
        \/ DataEndsHeader(w) \/ DataTooLong(w) \/ DataEndsBody(w) \/ DataWaits(w)
        \/ HeaderInvalid(w) \/ HeaderRefused(w)
        \/ HeaderBeforeBody(w) \/ HeaderAndBody(w) \/ HeaderOnly(w)
        \/ BodyRefused(w) \/ BodyHandled(w)
        \/ MessageReady(w)
        \/ NothingToSend(w) \/ SendFails(w) \/ SendPartly(w)
        \/ SendAll(w) \/ SendAllAndClose(w)
     /\ UNCHANGED <<calm, again>>

Next == ClientStep \/ \E w \in Workers : WorkerStep(w)

Spec == Init /\ [][Next]_vars

(***************************************************************************)
(* The threads run, and the client finishes what it has begun to send and  *)
(* reads what it was sent.                                                 *)
(***************************************************************************)
FairSpec ==
  /\ Spec
  /\ \A w \in Workers : WF_vars(WorkerStep(w))
  /\ WF_vars(ClientSends)
  /\ WF_vars(ClientReads)

-----------------------------------------------------------------------------
PieceType == [of : 1..MaxRequests, is : {"head", "end1", "end2", "body"}]

TypeOK ==
  /\ Range(asked) \subseteq Requests /\ Len(asked) <= MaxRequests
  /\ \A s \in {unsent, inbox, inputBuffer, request.params} :
       Range(s) \subseteq PieceType
  /\ Len(inbox) <= ReceiveBuffer
  /\ unread \in 0..SendBuffer
  /\ {edge, nospace, isOpen, keepAlive, looping} \subseteq BOOLEAN
  /\ \A piece \in Range(outputBuffer) \cup Range(delivered) :
       piece.part \in 1..ResponseLength /\ piece.answer.to \in 0..MaxRequests
  /\ status \in {"RECEIVE_HEADER", "RECEIVE_BODY", "SEND"}
  /\ request.number \in 0..MaxRequests /\ request.length \in {-1} \cup Nat
  /\ \A w \in Workers :
       pc[w] \in {"idle", "in", "out", "recv", "data", "header", "body",
                  "ready", "send"}
  /\ left \in 0..RecvLimit /\ arg \in Nat
  /\ {response.to, again} \subseteq 0..MaxRequests

(***************************************************************************)
(* Whatever the chunks, the partial sends and the interleaving of the      *)
(* workers: the responses are those of the requests, in their order, each  *)
(* whole, and the connection ends where it should, as long as nobody is    *)
(* too slow and no handler throws.                                         *)
(***************************************************************************)
KeepsItsPromise == Promise!Init /\ [][Promise!Next \/ ~calm']_(Promise!vars)

(***************************************************************************)
(* No request is forgotten in InputBuffer.  When no handler runs, what is  *)
(* in the buffer is not enough to go on with: a header without its end, a  *)
(* body that lacks a piece, or something the pending response has to be    *)
(* sent before (and it is for SendInner to come back to it).  (Not once a  *)
(* handler has thrown: nobody looks at what was behind that request until  *)
(* more arrives.)                                                          *)
(***************************************************************************)
BufferIsHandled ==
  isOpen /\ MutexFree =>
    CASE status = "SEND" -> outputBuffer # <<>>
      [] status = "RECEIVE_HEADER" -> calm => HeaderEnds(0) = {}
      [] status = "RECEIVE_BODY" -> calm => request.length > Len(inputBuffer)

(* And none in the kernel, unless an event or a worker is on its way. *)
SocketIsRead ==
  isOpen /\ MutexFree /\ ~edge /\ (\A w \in Workers : pc[w] # "in")
    => inbox = <<>>

(* No request is forgotten on its way, wherever it lies; types are kept. *)
NothingForgotten == TypeOK /\ BufferIsHandled /\ SocketIsRead

(***************************************************************************)
(* A worker that was late, waiting for context->mut while another closed   *)
(* the socket, has nothing left to send to its descriptor, and handles     *)
(* nothing any more.  (A connection that is calm: a timeout on a worker    *)
(* that was late puts an error into the closed connection's OutputBuffer.) *)
(***************************************************************************)
ClosedIsQuiet ==
  ~isOpen /\ calm => /\ outputBuffer = <<>>
                     /\ \A w \in Workers : pc[w] \notin {"data", "header", "body",
                                                         "ready"}

(***************************************************************************)
(* Even if requests time out and handlers throw, no request is answered    *)
(* twice, and none after one that came later, but for one: a timeout that  *)
(* finds a response on its way has it written again, and with this answer  *)
(* the connection ends.                                                    *)
(***************************************************************************)
AnsweredOnce ==
  /\ \A i, j \in 1..Len(delivered) :
       LET first == delivered[i].answer
           later == delivered[j].answer
       IN  i < j /\ first.to # 0 /\ later.to # 0
             => \/ first.to < later.to
                \/ first = later /\ delivered[i].part < delivered[j].part
                \/ first.to = again /\ later.to = again
  /\ again # 0 =>
       /\ ~keepAlive
       /\ \A i \in 1..Len(delivered) : delivered[i].answer.to <= again

(***************************************************************************)
(* A client that sends one request at a time gets its response, or the     *)
(* connection is closed; unless the request is refused while more of it    *)
(* is still to come (see SendableIsCalled), as one may be that is longer   *)
(* than the limits.                                                        *)
(***************************************************************************)
TooLong(r) == r.head >= MaxHeader \/ r.length > MaxBody

RequestIsAnswered ==
  \A n \in 1..MaxRequests :
    (Len(asked) >= n /\ isOpen /\ ~TooLong(asked[n]))
      ~> (Len(delivered) >= n * ResponseLength \/ ~isOpen)

-----------------------------------------------------------------------------
(***************************************************************************)
(* "When more data can be sent to the client/browser this handler is       *)
(* called", says ClientInfo.hpp of MessageSendableCB.  Violated: if data   *)
(* has arrived too, one event says both, and only MessageReceivableCB is   *)
(* called.  The rest of the response is never sent.                        *)
(***************************************************************************)
SendableIsCalled == (isOpen /\ outputBuffer # <<>>) ~> outputBuffer = <<>>

(***************************************************************************)
(* "Resets everything to default", says HttpRequest.hpp of Clean.          *)
(* Violated: contentType survives, and the next request is read by it.     *)
(***************************************************************************)
ResetIsComplete == request.number = 0 => request = NoRequest

(***************************************************************************)
(* "Maximum accepted length of the http header in bytes", says the comment *)
(* on MAX_HEADER_LENGTH.  Violated: the length is checked only while the   *)
(* end of the header has not arrived.                                      *)
(***************************************************************************)
MaxHeaderIsKept == \A w \in Workers : pc[w] = "header" => arg <= MaxHeader

(***************************************************************************)
(* "Set error response", "Send answer (error)", say the comments on a      *)
(* timeout in MessageReceivableCB.  Violated: if a handler's own error is  *)
(* on its way, the call of SetOther is ignored, and the handler's answer   *)
(* is sent from its start once more.                                       *)
(***************************************************************************)
TimeoutSetsError ==
  [][\A w \in Workers :
       ReceivableTooSlowly(w) => response'.status = "REQUEST_TIMEOUT"]_vars
=============================================================================
