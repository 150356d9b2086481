---------------------------- MODULE HttpMessage -----------------------------
(***************************************************************************)
(* HttpContext, HttpRequest and HttpResponse field by field, over the      *)
(* requests of one connection: what the header leaves in the request, what *)
(* the handler's calls leave in the response, and what is written of it.   *)
(* HttpConnection models when these functions are called; here one request *)
(* follows the other.                                                      *)
(*                                                                         *)
(* A value is the number of the request it came with; Default is the value *)
(* of the constructors.                                                    *)
(***************************************************************************)
EXTENDS Tables

CONSTANTS
  MaxRequest, \* bound: the requests of the connection
  MaxHeader,  \* bound: the header fields of a request
  MaxCall,    \* bound: the calls of the handler on one response
  Words,      \* the methods that clients ask with
  Types,      \* the content types they send
  Codes       \* the status codes that handlers set

(* They are enumerators of HttpStatusCode. *)
ASSUME HttpMessageAssumption == Codes \subseteq StatusCodes

VARIABLES
  number,     \* the request at hand
  since,      \* auxiliary: the first request since the last Reset
  phase,      \* what of it is handled next
  seen,       \* its header fields so far
  request,    \* HttpRequest
  response,   \* HttpResponse
  calls,      \* the codes of the calls for its response, in order
  output      \* OutputBuffer: the response text

vars == <<number, since, phase, seen, request, response, calls, output>>

Default == 0
Absent == -1
Unsaid == "unsaid"
GZip == "gzip"
NoCompression == "identity"

(* A body, and what it is compressed with. *)
Body(of, compression) == [of |-> of, compression |-> compression]

NewRequest ==
  [method |-> "UNKNOWN", uri |-> Default, contentType |-> None, boundary |-> Default,
   keepAlive |-> TRUE, contentLength |-> Default, cookies |-> <<>>, eTag |-> Default,
   headers |-> <<>>, host |-> Default, languages |-> Default, params |-> Default]

NewResponse ==
  [KeepAlive |-> TRUE, compression |-> NoCompression, contentType |-> Default,
   data |-> Body(Default, NoCompression), dataSet |-> FALSE, eTag |-> Default, location |-> Default,
   status |-> 200, Cookies |-> {}, Headers |-> {}]

(* HttpRequest::Clean: the type, its boundary and the host stay. *)
CleanRequest(r) ==
  [NewRequest EXCEPT !.contentType = r.contentType, !.boundary = r.boundary,
                     !.keepAlive = r.keepAlive, !.host = r.host]

(* Mutant of CleanResponse: the body stays. *)
CleanResponseData(r) ==
  [NewResponse EXCEPT !.KeepAlive = r.KeepAlive, !.compression = r.compression,
                      !.eTag = r.eTag, !.data = r.data]

(* HttpResponse::Clean: the compression and the entity tag stay. *)
CleanResponse(r) ==
  [NewResponse EXCEPT !.KeepAlive = r.KeepAlive, !.compression = r.compression,
                      !.eTag = r.eTag]

-----------------------------------------------------------------------------
(* HttpResponse *)

(* Mutant of Accepts: the last error wins. *)
AcceptsErrors(r, code) == ~r.dataSet \/ code >= 400

(* SetStatusCode: the first code stays, but an error replaces another. *)
Accepts(r, code) == ~r.dataSet \/ (code >= 400 /\ r.status < 400)

SetStatusCode(r, code) ==
  IF Accepts(r, code) THEN [r EXCEPT !.status = code, !.dataSet = TRUE] ELSE r

(* The body is not reset. *)
ResetBodyAndLocation(r) ==
  [r EXCEPT !.location = Default, !.contentType = Default, !.eTag = Default]

(* Mutant of SetWithBody: the compression is left as it is. *)
SetWithBodyKept(r, code, type, body, tag) ==
  IF Accepts(r, code)
  THEN [ResetBodyAndLocation(SetStatusCode(r, code)) EXCEPT
          !.contentType = type, !.data = body, !.eTag = tag]
  ELSE r

SetWithBody(r, code, type, body, tag) ==
  IF Accepts(r, code)
  THEN [ResetBodyAndLocation(SetStatusCode(r, code)) EXCEPT
          !.compression = body.compression, !.contentType = type,
          !.data = body, !.eTag = tag]
  ELSE r

SetRedict(r, code, location) ==
  IF Accepts(r, code)
  THEN [ResetBodyAndLocation(SetStatusCode(r, code)) EXCEPT !.location = location]
  ELSE r

(* What a refused call has reset stays so. *)
SetOther(r, code) == SetStatusCode(ResetBodyAndLocation(r), code)

NoText == [of |-> 0, status |-> 200, described |-> TRUE, location |-> Absent, eTag |-> Absent,
           type |-> Absent, encoding |-> Unsaid, keepAlive |-> TRUE, cookies |-> {},
           body |-> Body(Default, NoCompression)]

(* The body is written whatever the status is. *)
GetResponseText(r) ==
  LET isRedict == r.status \in RedirectCodes
      notModified == r.status = 304
  IN  [of |-> number, status |-> r.status,
       described |-> GetStatusDescription(r.status),
       location |-> IF isRedict THEN r.location ELSE Absent,
       eTag |-> IF isRedict \/ r.eTag = Default THEN Absent ELSE r.eTag,
       type |-> IF notModified THEN Absent ELSE r.contentType,
       encoding |-> IF notModified THEN Unsaid ELSE r.compression,
       keepAlive |-> r.KeepAlive, cookies |-> r.Cookies, body |-> r.data]

-----------------------------------------------------------------------------
(* The connection's steps *)

Goto(p) == phase' = p

(***************************************************************************)
(* The response goes out, unless it has additional header fields: the      *)
(* loops over them do not move on.                                         *)
(***************************************************************************)
Send(r) ==
  /\ response' = r
  /\ IF r.Headers = {} THEN Goto("sent") /\ output' = GetResponseText(r)
     ELSE Goto("hung") /\ UNCHANGED output

(* An error of HeaderReceived, DataReceived or MessageReceivableCB. *)
Refuse(code) ==
  /\ Send([SetOther(response, code) EXCEPT !.KeepAlive = FALSE])
  /\ calls' = Append(calls, code)
  /\ UNCHANGED <<number, since, seen>>

(* The request-line with its target, "*" or one that Uri can read or not. *)
RequestLine(word, target) ==
  /\ phase = "line"
  /\ IF target = "*" /\ word = "OPTIONS"
     THEN /\ Goto("exited")
          /\ request' = [request EXCEPT !.method = word]
          /\ UNCHANGED <<number, since, seen, response, calls, output>>
     ELSE IF target = "path" /\ word # "CONNECT"
     THEN /\ Goto("headers")
          /\ request' = [request EXCEPT !.method = ToHttpMethod(word), !.uri = number]
          /\ UNCHANGED <<number, since, seen, response, calls, output>>
     ELSE /\ request' = [request EXCEPT !.method = ToHttpMethod(word)]
          /\ Refuse(400)

(* A request-line that does not consist of three words. *)
BadLine == phase = "line" /\ Refuse(400) /\ UNCHANGED request

(* Content-Type, with or without a boundary behind it *)
TypeRead(r, type, boundary) ==
  LET next == [r EXCEPT !.contentType = StringToMimeType(type),
                        !.boundary = IF boundary THEN number ELSE @]
  IN  IF next.contentType = "multipart/form-data" /\ next.boundary = Default
      THEN [next EXCEPT !.contentType = None] ELSE next

(***************************************************************************)
(* InsertHeader.  An entity tag or a length that is not a number, and the  *)
(* cookies from the first without '=' on, are ignored by an exception; a   *)
(* negative length is none.                                                *)
(***************************************************************************)
Inserted(r) ==
  {[r EXCEPT !.host = number], [r EXCEPT !.languages = number],
   [r EXCEPT !.headers = Append(@, number)], [r EXCEPT !.eTag = number],
   [r EXCEPT !.contentLength = number], [r EXCEPT !.contentLength = Default], r}
  \union {[r EXCEPT !.cookies = @ \o [i \in 1..k |-> number]] : k \in 1..2}
  \union {TypeRead(r, t, b) : t \in Types, b \in BOOLEAN}

InsertHeader ==
  /\ phase = "headers"
  /\ seen < MaxHeader
  /\ seen' = seen + 1
  /\ \/ request' \in Inserted(request) /\ UNCHANGED response
     \/ \E keepAlive \in BOOLEAN :
          /\ request' = [request EXCEPT !.keepAlive = keepAlive]
          /\ response' = [response EXCEPT !.KeepAlive = keepAlive]
  /\ UNCHANGED <<number, since, phase, calls, output>>

BadHeader == phase = "headers" /\ Refuse(400) /\ UNCHANGED request

(* HeaderReceived *)
HeaderEnds ==
  /\ phase = "headers"
  /\ LET served == request.method \in {"GET", "POST", "PUT"}
         needsBody == request.method \in {"POST", "PUT"}
         isSet == request.contentLength # Default
     IN  \/ ~served /\ Refuse(405)
         \/ served /\ isSet /\ Refuse(413)
         \/ served /\ ~isSet /\ needsBody /\ Refuse(411)
         \/ /\ served /\ (isSet \/ ~needsBody)
            /\ Goto(IF isSet THEN "body" ELSE "handler")
            /\ UNCHANGED <<number, since, seen, response, calls, output>>
  /\ UNCHANGED request

(***************************************************************************)
(* MessageReceivableCB, of a client that sends too slowly: be it while a   *)
(* response is on its way, which is then written anew.  (How often that    *)
(* happens, the second conjunct bounds.)                                   *)
(***************************************************************************)
TooSlow ==
  /\ phase \in {"line", "body", "sent"}
  /\ Len(calls) <= MaxCall
  /\ Refuse(408)
  /\ UNCHANGED request

(* HandleBody: only of a POST, and as its content type says. *)
BodyRead ==
  /\ phase = "body"
  /\ Goto("handler")
  /\ request' = [request EXCEPT !.params =
       IF request.method = "POST" /\ request.contentType \in
            {"application/x-www-form-urlencoded", "multipart/form-data"}
       THEN number ELSE @]
  /\ UNCHANGED <<number, since, seen, response, calls, output>>

(* The parts are not to be read; the connection is kept. *)
BadBody ==
  /\ phase = "body"
  /\ request.method = "POST"
  /\ request.contentType = "multipart/form-data"
  /\ \E code \in {400, 415} :
       Send(SetOther(response, code)) /\ calls' = Append(calls, code)
  /\ UNCHANGED <<number, since, seen, request>>

(* The handler's calls on the response *)
Call(r, code) ==
  /\ phase = "handler"
  /\ Len(calls) < MaxCall
  /\ response' = r
  /\ calls' = Append(calls, code)
  /\ UNCHANGED <<number, since, phase, seen, request, output>>

CallWithBody ==
  \E code \in Codes, type, tag \in {Default, number}, c \in {GZip, NoCompression} :
    Call(SetWithBody(response, code, type, Body(number, c), tag), code)

CallRedict == \E code \in Codes : Call(SetRedict(response, code, number), code)

CallOther == \E code \in Codes : Call(SetOther(response, code), code)

(* Cookies, Headers and KeepAlive are public. *)
SetMember ==
  /\ phase = "handler"
  /\ response' \in {[response EXCEPT !.Cookies = @ \union {number}],
                    [response EXCEPT !.Headers = @ \union {number}],
                    [response EXCEPT !.KeepAlive = FALSE]}
  /\ UNCHANGED <<number, since, phase, seen, request, calls, output>>

MessageReady ==
  /\ phase = "handler"
  /\ Send(response)
  /\ UNCHANGED <<number, since, seen, request, calls>>

(***************************************************************************)
(* ProcessRequest throws: nothing is sent, and nothing Cleaned.  The next  *)
(* request is read into what there is; or if the body had to be waited     *)
(* for, Status still says so, and as many bytes are taken for one more.    *)
(***************************************************************************)
HandlerThrows ==
  /\ phase = "handler"
  /\ number < MaxRequest
  /\ \/ Goto("line")
     \/ request.contentLength # Default /\ Goto("body")
  /\ number' = number + 1
  /\ seen' = 0
  /\ UNCHANGED <<since, request, response, calls, output>>

(* Everything is sent: Reset, and the next request or the end. *)
Reset ==
  /\ phase = "sent"
  /\ Goto(IF response.KeepAlive /\ number < MaxRequest THEN "line" ELSE "closed")
  /\ request' = CleanRequest(request)
  /\ response' = CleanResponse(response)
  /\ number' = number + 1
  /\ since' = number + 1
  /\ seen' = 0
  /\ calls' = <<>>
  /\ output' = NoText

Init ==
  /\ number = 1 /\ since = 1 /\ phase = "line" /\ seen = 0
  /\ request = NewRequest /\ response = NewResponse
  /\ calls = <<>> /\ output = NoText

Next ==
  \/ \E word \in Words, target \in {"path", "*", "unreadable"} : RequestLine(word, target)
  \/ BadLine \/ InsertHeader \/ BadHeader \/ HeaderEnds \/ TooSlow
  \/ BodyRead \/ BadBody
  \/ CallWithBody \/ CallRedict \/ CallOther \/ SetMember
  \/ MessageReady \/ HandlerThrows \/ Reset

Spec == Init /\ [][Next]_vars

-----------------------------------------------------------------------------

(* The first error of the calls, or else their first code, or else 200. *)
Decided ==
  LET Firsts(S) == {i \in S : \A j \in S : i <= j}
      errors == {i \in DOMAIN calls : calls[i] >= 400}
  IN  CASE errors # {} -> {calls[i] : i \in Firsts(errors)}
        [] errors = {} /\ calls # <<>> -> {calls[1]}
        [] OTHER -> {200}

(***************************************************************************)
(* "If the status code is less important than one already set, the whole   *)
(* call is ignored": whatever the handler and HttpClientInfo call, and in  *)
(* whatever order, the status is the first error, or else the first code;  *)
(* and all of them are sent with their description.                        *)
(***************************************************************************)
StatusIsFirstError == response.status \in Decided /\ output.described

(* The request at hand, and those before it whose handler threw. *)
Unanswered == since..number

(***************************************************************************)
(* Nothing outlives a response that was sent.  What the handler sees of a  *)
(* request, but for its content type, boundary and host, came with this    *)
(* request or with one before it that was never answered because its       *)
(* handler threw; and what is sent of a body, a type, a location and       *)
(* cookies was set for one of these.  Without an exception that is the     *)
(* request alone.                                                          *)
(***************************************************************************)
MessagesAreSeparate ==
  /\ phase = "handler" =>
       LET r == request
       IN  {r.uri, r.contentLength, r.eTag, r.languages, r.params}
             \union {r.cookies[i] : i \in DOMAIN r.cookies}
             \union {r.headers[i] : i \in DOMAIN r.headers}
               \subseteq {Default} \union Unanswered
  /\ phase = "sent" =>
       {output.body.of, output.type, output.location} \union output.cookies
         \subseteq {Default, Absent} \union Unanswered

(***************************************************************************)
(* A body is announced with the compression it was set with, whichever     *)
(* calls came before and after, and in the requests before.                *)
(***************************************************************************)
EncodingFitsBody ==
  output.body.of # Default => output.encoding \in {output.body.compression, Unsaid}

(***************************************************************************)
(* "Resets everything to default" (Clean): an entity tag that is sent was  *)
(* given by the handler of this request.                                   *)
(***************************************************************************)
TagIsOwn == phase = "sent" => output.eTag \in {Absent, output.of}

(***************************************************************************)
(* What Clean is there for, if it is called only when a response was sent: *)
(* violated by a request whose handler throws, of which the next one gets  *)
(* the fields that it does not have, and the body.                         *)
(***************************************************************************)
ThrownIsForgotten ==
  phase = "handler" => request.uri = number /\ response.data.of \in {Default, number}
=============================================================================
