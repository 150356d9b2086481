------------------------- MODULE HttpMessageProofs --------------------------
(***************************************************************************)
(* Proofs that the invariants of HttpMessage hold for any number of        *)
(* requests, header fields and calls of a handler, whatever methods,       *)
(* content types and status codes they come with.                          *)
(***************************************************************************)
EXTENDS HttpMessage, SequenceTheorems, TLAPS

-----------------------------------------------------------------------------
(* The inductive invariant *)

(* The same holds of what was read before the handler sees it, *)
RequestIsOwn ==
  /\ DOMAIN request = DOMAIN NewRequest
  /\ {request.uri, request.contentLength, request.eTag, request.languages,
      request.params} \subseteq {Default} \union Unanswered
  /\ request.cookies \in Seq(Unanswered)
  /\ request.headers \in Seq(Unanswered)

(* and of what was set before it is sent. *)
IsOwn(r) ==
  /\ {r.data.of, r.contentType, r.location} \subseteq {Default} \union Unanswered
  /\ r.Cookies \subseteq Unanswered

(* The i-th of the codes is the one that no code after it could replace. *)
Decides(codes, i) ==
  IF codes[i] >= 400 THEN \A j \in DOMAIN codes : codes[j] >= 400 => i <= j
                     ELSE i = 1 /\ \A j \in DOMAIN codes : codes[j] < 400

(* The status is the code that decides; until there is one, it is 200. *)
IsDecided(r, codes) ==
  /\ r.dataSet = (codes # <<>>)
  /\ codes = <<>> => r.status = 200
  /\ codes # <<>> => \E i \in DOMAIN codes : Decides(codes, i) /\ r.status = codes[i]

(* The flag that announces the compression is the one set with the body. *)
CompressionFits(r) == r.data.of # Default => r.compression = r.data.compression

IsResponse(r, codes) ==
  /\ DOMAIN r = DOMAIN NewResponse
  /\ r.status \in StatusCodes
  /\ IsOwn(r)
  /\ IsDecided(r, codes)
  /\ CompressionFits(r)

(* The text was written from such a response, or there is none. *)
TextIsOwn ==
  {output.body.of, output.type, output.location} \union output.cookies
    \subseteq {Default, Absent} \union Unanswered

Inv ==
  /\ number \in Nat \ {0} /\ since \in Nat \ {0} /\ since <= number
  /\ calls \in Seq(StatusCodes)
  /\ RequestIsOwn
  /\ IsResponse(response, calls)
  /\ TextIsOwn
  /\ EncodingFitsBody
  /\ output.described

USE DEF Unanswered

-----------------------------------------------------------------------------
(* What the calls on a response do to it *)

(* The request at hand is not answered. *)
LEMMA NumberIsUnanswered == Inv => number \in Unanswered
  BY DEF Inv

LEMMA CodesAreNumbers == StatusCodes \subseteq Nat
  BY DEF StatusCodes

(***************************************************************************)
(* A response whose status a call with another code has set, or has left   *)
(* as it was because it is more important, has the status that decides.    *)
(***************************************************************************)
LEMMA NextCodeDecides ==
  ASSUME NEW codes \in Seq(StatusCodes), NEW code \in StatusCodes,
         NEW r, IsDecided(r, codes),
         NEW s, s.dataSet = TRUE,
         s.status = IF Accepts(r, code) THEN code ELSE r.status
  PROVE  IsDecided(s, Append(codes, code))
<1> DEFINE all == Append(codes, code)
           k == Len(codes)
<1>1. /\ k \in Nat
      /\ DOMAIN codes = 1..k
      /\ DOMAIN all = 1..(k + 1)
      /\ all[k + 1] = code
      /\ \A i \in 1..k : all[i] = codes[i]
      /\ all # <<>>
      /\ codes = <<>> <=> k = 0
  BY AppendProperties, LenProperties, EmptySeq
<1>2. code \in Nat /\ \A i \in 1..k : codes[i] \in Nat
  BY <1>1, CodesAreNumbers, ElementOfSeq
<1> HIDE DEF all, k
<1>0. s.dataSet = (all # <<>>)
  BY <1>1, Zenon
<1>3. ASSUME k = 0 PROVE IsDecided(s, all)
  <2>1. ~r.dataSet
    BY <1>1, <1>3 DEF IsDecided
  <2>2. Decides(all, 1) /\ s.status = all[1]
    BY <1>1, <1>2, <1>3, <2>1 DEF Decides, Accepts
  <2> QED
    BY <1>0, <1>1, <1>3, <2>2 DEF IsDecided
<1>4. ASSUME k # 0 PROVE IsDecided(s, all)
  <2>1. r.dataSet = TRUE
    BY <1>1, <1>4 DEF IsDecided
  <2>2. PICK i \in 1..k : Decides(codes, i) /\ r.status = codes[i]
    BY <1>1, <1>4 DEF IsDecided
  <2>3. CASE code >= 400 /\ r.status < 400
    <3>1. \A j \in 1..k : codes[j] < 400
      BY <1>1, <1>2, <2>2, <2>3 DEF Decides
    <3>2. Decides(all, k + 1) /\ s.status = all[k + 1]
      BY <1>1, <1>2, <2>3, <3>1 DEF Decides, Accepts
    <3> QED
      BY <1>0, <1>1, <1>4, <3>2 DEF IsDecided
  <2>4. CASE ~(code >= 400 /\ r.status < 400)
    <3>1. Decides(all, i) /\ s.status = all[i]
      BY <1>1, <1>2, <2>1, <2>2, <2>4 DEF Decides, Accepts
    <3> QED
      BY <1>0, <1>1, <2>2, <3>1 DEF IsDecided
  <2> QED
    BY <2>3, <2>4
<1> QED
  BY <1>3, <1>4 DEF all

(* SetStatusCode alone, whatever it is called with. *)
LEMMA StatusIsSet ==
  ASSUME NEW codes \in Seq(StatusCodes), NEW code \in StatusCodes,
         NEW r, IsResponse(r, codes)
  PROVE  IsResponse(SetStatusCode(r, code), Append(codes, code))
<1> DEFINE s == SetStatusCode(r, code)
<1>1. /\ DOMAIN s = DOMAIN NewResponse
      /\ s.status = IF Accepts(r, code) THEN code ELSE r.status
      /\ \A f \in DOMAIN NewResponse \ {"status", "dataSet"} : s[f] = r[f]
  BY DEF IsResponse, SetStatusCode, NewResponse
<1>2. s.dataSet = TRUE
  BY DEF IsResponse, IsDecided, SetStatusCode, Accepts, NewResponse
<1>3. IsDecided(s, Append(codes, code))
  BY <1>1, <1>2, NextCodeDecides DEF IsResponse
<1>4. IsOwn(s) /\ CompressionFits(s)
  BY <1>1 DEF IsResponse, IsOwn, CompressionFits, NewResponse
<1> QED
  BY <1>1, <1>3, <1>4 DEF IsResponse

(* Members that no property is about, or that are reset, may change. *)
LEMMA OtherMembersChange ==
  ASSUME Inv, NEW codes, NEW r, IsResponse(r, codes),
         NEW s, DOMAIN s = DOMAIN r,
         s.status = r.status, s.dataSet = r.dataSet,
         s.contentType \in {Default, number, r.contentType},
         s.location \in {Default, number, r.location},
         s.Cookies \subseteq r.Cookies \union {number},
         \/ s.data = r.data /\ s.compression = r.compression
         \/ s.data = Body(number, s.compression)
  PROVE  IsResponse(s, codes)
<1>1. IsOwn(s) /\ CompressionFits(s)
  BY NumberIsUnanswered DEF IsResponse, IsOwn, CompressionFits, Body
<1>2. IsDecided(s, codes)
  BY DEF IsResponse, IsDecided
<1> QED
  BY <1>1, <1>2 DEF IsResponse

(* Each of the three ways to set a response keeps it one. *)
LEMMA ResponseIsSet ==
  ASSUME Inv, NEW codes \in Seq(StatusCodes), NEW code \in StatusCodes,
         NEW r, IsResponse(r, codes),
         NEW type \in {Default, number}, NEW tag \in {Default, number},
         NEW compression
  PROVE  LET all == Append(codes, code)
         IN  /\ IsResponse(SetOther(r, code), all)
             /\ IsResponse(SetRedict(r, code, number), all)
             /\ IsResponse(SetWithBody(r, code, type, Body(number, compression), tag), all)
<1> DEFINE all == Append(codes, code)
           s == SetStatusCode(r, code)
           reset == ResetBodyAndLocation(r)
<1>1. IsResponse(s, all) /\ DOMAIN s = DOMAIN NewResponse
  BY StatusIsSet DEF IsResponse
<1>2. IsResponse(SetOther(r, code), all)
  <2>1. IsResponse(reset, codes)
    BY OtherMembersChange DEF IsResponse, ResetBodyAndLocation, NewResponse
  <2> QED
    BY <2>1, StatusIsSet DEF SetOther
<1>3. IsResponse(SetRedict(r, code, number), all)
  <2>1. CASE Accepts(r, code)
    <3> DEFINE t == [ResetBodyAndLocation(s) EXCEPT !.location = number]
    <3>1. /\ DOMAIN t = DOMAIN s /\ t.status = s.status /\ t.dataSet = s.dataSet
          /\ t.contentType = Default /\ t.location = number /\ t.Cookies = s.Cookies
          /\ t.data = s.data /\ t.compression = s.compression
      BY <1>1 DEF ResetBodyAndLocation, NewResponse
    <3> QED
      BY <1>1, <2>1, <3>1, OtherMembersChange DEF SetRedict
  <2>2. CASE ~Accepts(r, code)
    BY <1>1, <2>2 DEF SetRedict, SetStatusCode
  <2> QED
    BY <2>1, <2>2
<1>4. IsResponse(SetWithBody(r, code, type, Body(number, compression), tag), all)
  <2> DEFINE body == Body(number, compression)
  <2>1. CASE Accepts(r, code)
    <3> DEFINE t == [ResetBodyAndLocation(s) EXCEPT
                       !.compression = body.compression, !.contentType = type,
                       !.data = body, !.eTag = tag]
    <3>1. /\ DOMAIN t = DOMAIN s /\ t.status = s.status /\ t.dataSet = s.dataSet
          /\ t.contentType = type /\ t.location = Default /\ t.Cookies = s.Cookies
          /\ t.data = body /\ t.compression = body.compression
      BY <1>1 DEF ResetBodyAndLocation, NewResponse
    <3>2. body = Body(number, t.compression)
      BY <3>1 DEF Body
    <3> QED
      BY <1>1, <2>1, <3>1, <3>2, OtherMembersChange DEF SetWithBody
  <2>2. CASE ~Accepts(r, code)
    BY <1>1, <2>2 DEF SetWithBody, SetStatusCode
  <2> QED
    BY <2>1, <2>2
<1> QED
  BY <1>2, <1>3, <1>4

(* What is written of a response. *)
LEMMA TextOfResponse ==
  ASSUME Inv, NEW r, NEW codes, IsResponse(r, codes),
         output' = GetResponseText(r), UNCHANGED <<number, since>>
  PROVE  TextIsOwn' /\ EncodingFitsBody' /\ output'.described
<1>1. /\ output'.location \in {r.location, Absent}
      /\ output'.type \in {r.contentType, Absent}
      /\ output'.encoding \in {r.compression, Unsaid}
      /\ output'.cookies = r.Cookies
      /\ output'.body = r.data
      /\ output'.described = (r.status \in StatusCodes)
  BY DEF GetResponseText, GetStatusDescription
<1>2. TextIsOwn'
  BY <1>1 DEF TextIsOwn, IsResponse, IsOwn
<1>3. EncodingFitsBody'
  BY <1>1 DEF EncodingFitsBody, IsResponse, CompressionFits
<1> QED
  BY <1>1, <1>2, <1>3 DEF IsResponse

-----------------------------------------------------------------------------

LEMMA NewOnesAreDefault ==
  /\ NewRequest.uri = Default /\ NewRequest.contentLength = Default
  /\ NewRequest.eTag = Default /\ NewRequest.languages = Default
  /\ NewRequest.params = Default
  /\ NewRequest.cookies = <<>> /\ NewRequest.headers = <<>>
  /\ NewResponse.status = 200 /\ NewResponse.dataSet = FALSE
  /\ NewResponse.data.of = Default /\ NewResponse.contentType = Default
  /\ NewResponse.location = Default /\ NewResponse.Cookies = {}
  /\ {NoText.body.of, NoText.type, NoText.location} \union NoText.cookies
       \subseteq {Default, Absent}
  /\ NoText.body.of = Default /\ NoText.described
  BY DEF NewRequest, NewResponse, NoText, Body

LEMMA CleanIsResponse ==
  ASSUME NEW r, DOMAIN r = DOMAIN NewResponse,
         r.status = 200, r.dataSet = FALSE, r.data.of = Default,
         r.contentType = Default, r.location = Default, r.Cookies = {}
  PROVE  IsResponse(r, <<>>)
<1>1. IsDecided(r, <<>>)
  BY Zenon DEF IsDecided
<1>2. 200 \in StatusCodes
  BY DEF StatusCodes
<1> QED
  BY <1>1, <1>2 DEF IsResponse, IsOwn, CompressionFits

LEMMA InvInit == Init => Inv
<1> SUFFICES ASSUME Init PROVE Inv
  OBVIOUS
<1>1. /\ number \in Nat \ {0} /\ since \in Nat \ {0} /\ since <= number
      /\ calls \in Seq(StatusCodes)
  BY DEF Init
<1>2. RequestIsOwn
  BY NewOnesAreDefault, EmptySeq DEF Init, RequestIsOwn
<1>3. IsResponse(response, calls)
  BY NewOnesAreDefault, CleanIsResponse DEF Init
<1>4. TextIsOwn /\ EncodingFitsBody /\ output.described
  BY NewOnesAreDefault DEF Init, TextIsOwn, EncodingFitsBody
<1> QED
  BY <1>1, <1>2, <1>3, <1>4 DEF Inv

(* A step of the request at hand that writes no text. *)
LEMMA QuietStep ==
  ASSUME Inv, UNCHANGED <<number, since>>, output' = output,
         calls' \in Seq(StatusCodes), RequestIsOwn', IsResponse(response', calls')
  PROVE  Inv'
<1>1. TextIsOwn' /\ EncodingFitsBody' /\ output'.described
  BY DEF Inv, TextIsOwn, EncodingFitsBody
<1> QED
  BY <1>1 DEF Inv, IsResponse, IsOwn, IsDecided, CompressionFits

(* A step of the request at hand that ends with Send. *)
LEMMA SendStep ==
  ASSUME Inv, NEW r, Send(r), UNCHANGED <<number, since>>,
         calls' \in Seq(StatusCodes), RequestIsOwn', IsResponse(r, calls')
  PROVE  Inv'
<1>1. CASE r.Headers = {}
  <2>1. TextIsOwn' /\ EncodingFitsBody' /\ output'.described
    BY <1>1, TextOfResponse DEF Send
  <2> QED
    BY <2>1 DEF Inv, Send, IsResponse, IsOwn, IsDecided, CompressionFits
<1>2. CASE r.Headers # {}
  BY <1>2, QuietStep DEF Send
<1> QED
  BY <1>1, <1>2

(* One of the codes that the connection refuses a request with. *)
LEMMA RefuseStep ==
  ASSUME Inv, NEW code \in {400, 405, 408, 411, 413}, Refuse(code), RequestIsOwn'
  PROVE  Inv'
<1> DEFINE r == SetOther(response, code)
           closing == [r EXCEPT !.KeepAlive = FALSE]
<1>1. code \in StatusCodes
  BY DEF StatusCodes
<1>2. IsResponse(r, Append(calls, code)) /\ DOMAIN r = DOMAIN NewResponse
  BY <1>1, ResponseIsSet DEF Inv, IsResponse
<1>3. IsResponse(closing, Append(calls, code))
  BY <1>2, OtherMembersChange DEF NewResponse
<1>4. Append(calls, code) \in Seq(StatusCodes)
  BY <1>1, AppendProperties DEF Inv
<1> QED
  BY <1>3, <1>4, SendStep DEF Refuse

(* Whatever a header field says, it is of this request. *)
LEMMA InsertedIsOwn ==
  ASSUME Inv, UNCHANGED <<number, since>>, request' \in Inserted(request)
  PROVE  RequestIsOwn'
<1> USE DEF Inv, RequestIsOwn
<1>1. CASE request' \in {[request EXCEPT !.host = number],
                         [request EXCEPT !.languages = number],
                         [request EXCEPT !.eTag = number],
                         [request EXCEPT !.contentLength = number],
                         [request EXCEPT !.contentLength = Default], request}
  <2>1. /\ DOMAIN request' = DOMAIN request /\ request'.uri = request.uri
        /\ request'.params = request.params
        /\ request'.cookies = request.cookies /\ request'.headers = request.headers
        /\ request'.contentLength \in {Default, number, request.contentLength}
        /\ request'.eTag \in {number, request.eTag}
        /\ request'.languages \in {number, request.languages}
    BY <1>1 DEF NewRequest
  <2> QED
    BY <2>1, NumberIsUnanswered
<1>2. CASE request' = [request EXCEPT !.headers = Append(@, number)]
  <2>1. Append(request.headers, number) \in Seq(Unanswered)
    BY AppendProperties
  <2> QED
    BY <1>2, <2>1 DEF NewRequest
<1>3. ASSUME NEW k \in 1..2,
             request' = [request EXCEPT !.cookies = @ \o [i \in 1..k |-> number]]
      PROVE  RequestIsOwn'
  <2>1. [i \in 1..k |-> number] \in Seq(Unanswered)
    BY SeqDef
  <2>2. request.cookies \o [i \in 1..k |-> number] \in Seq(Unanswered)
    BY <2>1, ConcatProperties
  <2> QED
    BY <1>3, <2>2 DEF NewRequest
<1>4. ASSUME NEW t \in Types, NEW b \in BOOLEAN, request' = TypeRead(request, t, b)
      PROVE  RequestIsOwn'
  <2>1. /\ DOMAIN request' = DOMAIN request
        /\ \A f \in DOMAIN request \ {"contentType", "boundary"} :
             request'[f] = request[f]
    BY <1>4 DEF TypeRead, NewRequest
  <2> QED
    BY <2>1 DEF NewRequest
<1> HIDE DEF Inv, RequestIsOwn
<1> QED
  BY <1>1, <1>2, <1>3, <1>4 DEF Inserted

LEMMA InvStep == Inv /\ [Next]_vars => Inv'
<1> SUFFICES ASSUME Inv, [Next]_vars PROVE Inv'
  OBVIOUS
<1> USE DEF Inv
<1>1. ASSUME NEW word \in Words, NEW target \in {"path", "*", "unreadable"},
             RequestLine(word, target)
      PROVE  Inv'
  <2>1. /\ UNCHANGED <<number, since>>
        /\ DOMAIN request' = DOMAIN request
        /\ request'.uri \in {request.uri, number}
        /\ \A f \in DOMAIN request \ {"method", "uri"} : request'[f] = request[f]
    BY <1>1 DEF RequestLine, Refuse, RequestIsOwn, NewRequest
  <2>2. RequestIsOwn'
    BY <2>1, NumberIsUnanswered DEF RequestIsOwn, NewRequest
  <2>3. CASE Refuse(400)
    BY <2>2, <2>3, RefuseStep
  <2>4. CASE UNCHANGED <<number, since, seen, response, calls, output>>
    BY <2>2, <2>4, QuietStep
  <2> QED
    BY <1>1, <2>3, <2>4 DEF RequestLine
<1>2. CASE BadLine
  BY <1>2, RefuseStep DEF BadLine, Refuse, RequestIsOwn
<1>3. CASE InsertHeader
  <2>1. CASE request' \in Inserted(request) /\ UNCHANGED response
    BY <1>3, <2>1, InsertedIsOwn, QuietStep DEF InsertHeader
  <2>2. ASSUME NEW keepAlive \in BOOLEAN,
               request' = [request EXCEPT !.keepAlive = keepAlive],
               response' = [response EXCEPT !.KeepAlive = keepAlive]
        PROVE  Inv'
    <3>1. RequestIsOwn'
      BY <1>3, <2>2 DEF InsertHeader, RequestIsOwn, NewRequest
    <3>2. IsResponse(response', calls)
      BY <2>2, OtherMembersChange DEF IsResponse, NewResponse
    <3> QED
      BY <1>3, <3>1, <3>2, QuietStep DEF InsertHeader
  <2> QED
    BY <1>3, <2>1, <2>2 DEF InsertHeader
<1>4. CASE BadHeader
  BY <1>4, RefuseStep DEF BadHeader, Refuse, RequestIsOwn
<1>5. CASE HeaderEnds
  <2>1. RequestIsOwn'
    BY <1>5 DEF HeaderEnds, Refuse, RequestIsOwn
  <2>2. ASSUME NEW code \in {405, 413, 411}, Refuse(code) PROVE Inv'
    BY <2>1, <2>2, RefuseStep
  <2>3. CASE UNCHANGED <<number, since, seen, response, calls, output>>
    BY <2>1, <2>3, QuietStep
  <2> QED
    BY <1>5, <2>2, <2>3 DEF HeaderEnds
<1>6. CASE TooSlow
  BY <1>6, RefuseStep DEF TooSlow, Refuse, RequestIsOwn
<1>7. CASE BodyRead
  <2>1. RequestIsOwn'
    BY <1>7 DEF BodyRead, RequestIsOwn, NewRequest
  <2> QED
    BY <1>7, <2>1, QuietStep DEF BodyRead
<1>8. CASE BadBody
  <2>1. RequestIsOwn'
    BY <1>8 DEF BadBody, RequestIsOwn
  <2>2. PICK code \in {400, 415} :
          Send(SetOther(response, code)) /\ calls' = Append(calls, code)
    BY <1>8 DEF BadBody
  <2>3. code \in StatusCodes
    BY DEF StatusCodes
  <2>4. IsResponse(SetOther(response, code), Append(calls, code))
    BY <2>3, ResponseIsSet
  <2>5. Append(calls, code) \in Seq(StatusCodes)
    BY <2>3, AppendProperties
  <2> QED
    BY <1>8, <2>1, <2>2, <2>4, <2>5, SendStep DEF BadBody
<1>9. ASSUME NEW code \in Codes, NEW r, Call(r, code),
             IsResponse(r, Append(calls, code))
      PROVE  Inv'
  <2>1. Append(calls, code) \in Seq(StatusCodes)
    BY HttpMessageAssumption, AppendProperties
  <2>2. RequestIsOwn'
    BY <1>9 DEF Call, RequestIsOwn
  <2> QED
    BY <1>9, <2>1, <2>2, QuietStep DEF Call
<1>10. CASE CallWithBody
  <2>1. PICK code \in Codes, type \in {Default, number}, tag \in {Default, number},
             c \in {GZip, NoCompression} :
          Call(SetWithBody(response, code, type, Body(number, c), tag), code)
    BY <1>10 DEF CallWithBody
  <2> QED
    BY <1>9, <2>1, HttpMessageAssumption, ResponseIsSet
<1>11. CASE CallRedict
  <2>1. PICK code \in Codes : Call(SetRedict(response, code, number), code)
    BY <1>11 DEF CallRedict
  <2> QED
    BY <1>9, <2>1, HttpMessageAssumption, ResponseIsSet
<1>12. CASE CallOther
  <2>1. PICK code \in Codes : Call(SetOther(response, code), code)
    BY <1>12 DEF CallOther
  <2> QED
    BY <1>9, <2>1, HttpMessageAssumption, ResponseIsSet
<1>13. CASE SetMember
  <2>1. RequestIsOwn'
    BY <1>13 DEF SetMember, RequestIsOwn
  <2>2. IsResponse(response', calls)
    BY <1>13, OtherMembersChange DEF SetMember, IsResponse, NewResponse
  <2> QED
    BY <1>13, <2>1, <2>2, QuietStep DEF SetMember
<1>14. CASE MessageReady
  BY <1>14, SendStep DEF MessageReady, RequestIsOwn
<1>15. CASE Reset
  <2>1. RequestIsOwn'
    BY <1>15, NewOnesAreDefault DEF Reset, CleanRequest, RequestIsOwn, NewRequest
  <2>2. /\ DOMAIN response' = DOMAIN NewResponse
        /\ \A f \in DOMAIN NewResponse \ {"KeepAlive", "compression", "eTag"} :
             response'[f] = NewResponse[f]
    BY <1>15 DEF Reset, CleanResponse, NewResponse
  <2>3. IsDecided(response, calls)'
    BY <1>15, <2>2, NewOnesAreDefault, Zenon DEF IsDecided, Reset, NewResponse
  <2>4. IsResponse(response, calls)'
    <3>1. /\ response'.status = 200 /\ response'.data.of = Default
          /\ response'.contentType = Default /\ response'.location = Default
          /\ response'.Cookies = {}
      BY <2>2, NewOnesAreDefault DEF NewResponse
    <3>2. 200 \in StatusCodes
      BY DEF StatusCodes
    <3> QED
      BY <2>2, <2>3, <3>1, <3>2 DEF IsResponse, IsOwn, CompressionFits
  <2>5. TextIsOwn' /\ EncodingFitsBody' /\ output'.described
    BY <1>15, NewOnesAreDefault DEF Reset, TextIsOwn, EncodingFitsBody
  <2>6. /\ number' \in Nat \ {0} /\ since' \in Nat \ {0} /\ since' <= number'
        /\ calls' \in Seq(StatusCodes)
    BY <1>15 DEF Reset
  <2> QED
    BY <2>1, <2>4, <2>5, <2>6
<1>16. CASE HandlerThrows
  <2>1. /\ UNCHANGED <<since, request, response, calls, output>>
        /\ number' = number + 1
    BY <1>16 DEF HandlerThrows
  <2>2. Unanswered \subseteq Unanswered'
    BY <2>1
  <2> HIDE DEF Unanswered
  <2>3. Seq(Unanswered) \subseteq Seq(Unanswered')
    BY <2>2, SeqDef
  <2>4. RequestIsOwn'
    BY <2>1, <2>2, <2>3 DEF RequestIsOwn
  <2>5. IsResponse(response, calls)' /\ TextIsOwn'
    BY <2>1, <2>2 DEF IsResponse, IsOwn, IsDecided, CompressionFits, TextIsOwn
  <2>6. EncodingFitsBody' /\ output'.described
    BY <2>1 DEF EncodingFitsBody
  <2> QED
    BY <2>1, <2>4, <2>5, <2>6
<1>17. CASE UNCHANGED vars
  BY <1>17, QuietStep DEF vars, RequestIsOwn
<1> QED
  BY <1>1, <1>2, <1>3, <1>4, <1>5, <1>6, <1>7, <1>8, <1>10, <1>11, <1>12, <1>13,
     <1>14, <1>15, <1>16, <1>17 DEF Next

(* The invariant holds in every state a behaviour of Spec reaches. *)
THEOREM InvariantHolds == Spec => []Inv
<1> QED
  BY InvInit, InvStep, PTL DEF Spec

-----------------------------------------------------------------------------
(* What it says *)

(***************************************************************************)
(* Whatever the handler, the timeout and the connection call, and however  *)
(* often, the status of the response is the first error, or else the first *)
(* code: Accepts of SetStatusCode ignores every other call.  Whatever is   *)
(* written of it has a description.                                        *)
(***************************************************************************)
THEOREM FirstErrorWins == Spec => []StatusIsFirstError
<1> DEFINE errors == {i \in DOMAIN calls : calls[i] >= 400}
           Firsts(S) == {i \in S : \A j \in S : i <= j}
<1>1. Inv => response.status \in Decided
  <2> SUFFICES ASSUME Inv PROVE response.status \in Decided
    OBVIOUS
  <2>1. CASE calls = <<>>
    <3>1. errors = {} /\ response.status = 200
      BY <2>1 DEF Inv, IsResponse, IsDecided
    <3> QED
      BY <2>1, <3>1 DEF Decided
  <2>2. CASE calls # <<>>
    <3>1. PICK i \in DOMAIN calls : Decides(calls, i) /\ response.status = calls[i]
      BY <2>2 DEF Inv, IsResponse, IsDecided
    <3>2. \A j \in DOMAIN calls : j \in Nat /\ calls[j] \in Nat
      <4>1. calls \in Seq(StatusCodes)
        BY DEF Inv
      <4>2. DOMAIN calls = 1..Len(calls) /\ Len(calls) \in Nat
        BY <4>1, LenProperties
      <4>3. \A j \in 1..Len(calls) : calls[j] \in StatusCodes
        BY <4>1, ElementOfSeq
      <4>4. \A j \in DOMAIN calls : calls[j] \in Nat
        BY <4>2, <4>3, CodesAreNumbers
      <4>5. \A j \in DOMAIN calls : j \in Nat
        BY <4>2
      <4> QED
        BY <4>4, <4>5
    <3>3. CASE calls[i] >= 400
      <4>1. i \in Firsts(errors)
        BY <3>1, <3>3 DEF Decides
      <4> QED
        BY <3>1, <4>1 DEF Decided
    <3>4. CASE ~(calls[i] >= 400)
      <4>1. i = 1 /\ errors = {}
        BY <3>1, <3>2, <3>4 DEF Decides
      <4> QED
        BY <2>2, <3>1, <4>1 DEF Decided
    <3> QED
      BY <3>3, <3>4
  <2> QED
    BY <2>1, <2>2
<1>2. Inv => StatusIsFirstError
  BY <1>1 DEF Inv, StatusIsFirstError
<1> QED
  BY <1>2, InvariantHolds, PTL

(***************************************************************************)
(* Nothing outlives a response that was sent: the handler reads nothing of *)
(* a request before it but the content type, boundary and host, and no     *)
(* response is sent with the body, the type, the location or the cookies   *)
(* of one before it.  However many handlers throw: what they leave behind, *)
(* as nothing is Cleaned then, ends with the next response.                *)
(***************************************************************************)
THEOREM NothingIsLeftBehind == Spec => []MessagesAreSeparate
<1>1. Inv => MessagesAreSeparate
  <2> SUFFICES ASSUME Inv PROVE MessagesAreSeparate
    OBVIOUS
  <2>1. /\ {request.cookies[i] : i \in DOMAIN request.cookies} \subseteq Unanswered
        /\ {request.headers[i] : i \in DOMAIN request.headers} \subseteq Unanswered
    BY ElementOfSeq, LenProperties DEF Inv, RequestIsOwn
  <2> QED
    BY <2>1 DEF Inv, RequestIsOwn, TextIsOwn, MessagesAreSeparate
<1> QED
  BY <1>1, InvariantHolds, PTL

(***************************************************************************)
(* A body is announced with the compression it was set with, although      *)
(* Clean leaves the flag as it was: every call that sets a body sets it.   *)
(***************************************************************************)
THEOREM CompressionIsAnnounced == Spec => []EncodingFitsBody
<1>1. Inv => EncodingFitsBody
  BY DEF Inv
<1> QED
  BY <1>1, InvariantHolds, PTL
=============================================================================
