------------------------ MODULE HttpConnectionProofs ------------------------
(***************************************************************************)
(* Proofs about HttpConnection for all requests, limits, buffers and       *)
(* numbers of workers: no request is forgotten in a buffer, a closed       *)
(* connection is quiet, no request is answered twice or out of order, and  *)
(* the responses are those that HttpConversation promises.                 *)
(***************************************************************************)
EXTENDS HttpConnection, SequenceTheorems, WellFoundedInduction, TLAPS

-----------------------------------------------------------------------------
(* The inductive invariant *)

(* Where a worker has locked context->mut, and where it handles input. *)
Places ==
  {"idle", "in", "out", "recv", "data", "header", "body", "ready", "send"}
Holding == {"recv", "data", "header", "body", "ready", "send"}
Working == {"data", "header", "body", "ready"}

(* Pieces of the requests that were asked. *)
PieceAsked ==
  [of : 1..Len(asked), is : {"head", "end1", "end2", "body"}]

RequestShape ==
  [number : 0..MaxRequests, method : {"UNKNOWN", "GET", "POST", "PUT", "DELETE"},
   length : Nat \cup {-1}, type : {"none", "form", "multipart"},
   params : Seq(PieceType)]

Errors ==
  {"BAD_REQUEST", "METHOD_NOT_ALLOWED", "REQUEST_ENTITY_TOO_LARGE",
   "LENGTH_REQUIRED", "REQUEST_TIMEOUT", "NOT_FOUND"}
AnswerType ==
  [to : 0..MaxRequests, got : Seq(PieceType), status : Errors \cup {"OK", "none"}]
AnswerPiece == [answer : AnswerType, part : 1..ResponseLength]

Shapes ==
  /\ asked \in Seq(Requests) /\ Len(asked) <= MaxRequests
  /\ unsent \in Seq(PieceAsked)
  /\ inbox \in Seq(PieceAsked) /\ Len(inbox) <= ReceiveBuffer
  /\ inputBuffer \in Seq(PieceAsked)
  /\ unread \in 0..SendBuffer
  /\ edge \in BOOLEAN /\ nospace \in BOOLEAN /\ isOpen \in BOOLEAN
  /\ keepAlive \in BOOLEAN /\ looping \in BOOLEAN /\ calm \in BOOLEAN
  /\ outputBuffer \in Seq(AnswerPiece) /\ delivered \in Seq(AnswerPiece)
  /\ status \in {"RECEIVE_HEADER", "RECEIVE_BODY", "SEND"}
  /\ request \in RequestShape
  /\ pc \in [Workers -> Places]
  /\ left \in 0..RecvLimit /\ arg \in Nat
  /\ response \in AnswerType /\ again \in 0..MaxRequests

(* context->mut has one owner. *)
OneInside ==
  \A v, w \in Workers : pc[v] \in Holding /\ pc[w] \in Holding => v = w

(* What the functions of a handler find when they are called. *)
CallFits(w) ==
  /\ pc[w] \in Working => isOpen
  /\ pc[w] = "data" => arg <= Len(inputBuffer)
  /\ pc[w] = "header" => /\ status = "RECEIVE_HEADER"
                         /\ arg + 2 <= Len(inputBuffer)
                         /\ inputBuffer[arg + 1].is = "end1"
  /\ pc[w] = "body" => request.length \in 0..Len(inputBuffer)
  /\ pc[w] \in {"body", "ready"} => status # "SEND" /\ request.number # 0

ContextFits ==
  /\ status = "SEND" <=> outputBuffer # <<>>
  /\ status = "RECEIVE_BODY" => request.length \in Nat /\ request.number # 0
  /\ ~isOpen /\ calm => outputBuffer = <<>>
  /\ calm /\ status # "SEND" => response = NoAnswer
  /\ \A w \in Workers : CallFits(w)

Base == Shapes /\ OneInside /\ ContextFits

-----------------------------------------------------------------------------
(* Sequences *)

LEMMA LeastMember ==
  ASSUME NEW S \in SUBSET Nat, S # {}
  PROVE  \E i \in S : \A j \in S : i <= j
<1> DEFINE Less == OpToRel(<, Nat)
<1>1. \A i, j \in Nat : i < j => <<i, j>> \in Less
  BY DEF OpToRel
<1>2. IsWellFoundedOn(Less, Nat)
  BY NatLessThanWellFounded
<1> HIDE DEF Less
<1>3. PICK i \in S : \A j \in S : <<j, i>> \notin Less
  BY <1>2, WFMin
<1>4. \A j \in S : j \in Nat
  OBVIOUS
<1>5. \A j \in S : ~(j < i)
  BY <1>1, <1>3, <1>4
<1> QED
  BY <1>4, <1>5

(* A sequence that is cut in two. *)
LEMMA TakeIsSeq ==
  ASSUME NEW S, NEW s \in Seq(S), NEW k \in 0..Len(s)
  PROVE  /\ Take(s, k) \in Seq(S)
         /\ Len(Take(s, k)) = k
         /\ \A i \in 1..k : Take(s, k)[i] = s[i]
  BY SubSeqProperties DEF Take

LEMMA DropIsSeq ==
  ASSUME NEW S, NEW s \in Seq(S), NEW k \in 0..Len(s)
  PROVE  /\ Drop(s, k) \in Seq(S)
         /\ Len(Drop(s, k)) = Len(s) - k
         /\ \A i \in 1..Len(s) - k : Drop(s, k)[i] = s[k + i]
<1>1. \A i \in k + 1..Len(s) : s[i] \in S
  BY ElementOfSeq
<1>2. k + 1 \in Int /\ Len(s) \in Int
  OBVIOUS
<1>3. /\ SubSeq(s, k + 1, Len(s)) \in Seq(S)
      /\ Len(SubSeq(s, k + 1, Len(s))) = IF k + 1 <= Len(s) THEN Len(s) - (k + 1) + 1 ELSE 0
      /\ \A i \in 1..Len(s) - (k + 1) + 1 : SubSeq(s, k + 1, Len(s))[i] = s[k + 1 + i - 1]
  BY <1>1, <1>2, SubSeqProperties
<1> QED
  BY <1>3 DEF Drop

LEMMA TakeAndDrop ==
  ASSUME NEW S, NEW s \in Seq(S), NEW k \in 0..Len(s)
  PROVE  Take(s, k) \o Drop(s, k) = s
<1>1. /\ 1 \in 1..Len(s) + 1
      /\ k \in 1 - 1..Len(s)
      /\ Len(s) \in k..Len(s)
  OBVIOUS
<1>2. SubSeq(s, 1, k) \o SubSeq(s, k + 1, Len(s)) = SubSeq(s, 1, Len(s))
  BY ONLY <1>1, s \in Seq(S), ConcatAdjacentSubSeq
<1> QED
  BY <1>2, SubSeqFull DEF Take, Drop

-----------------------------------------------------------------------------
(* Shapes *)

LEMMA LimitIsNat == RecvLimit \in Nat
  BY HttpConnectionAssumption DEF RecvLimit

(* An answer is cut into its pieces. *)
LEMMA TextIsOut ==
  ASSUME NEW answer \in AnswerType
  PROVE  /\ GetResponseText(answer) \in Seq(AnswerPiece)
         /\ Len(GetResponseText(answer)) = ResponseLength
         /\ GetResponseText(answer) # <<>>
         /\ \A i \in 1..ResponseLength :
              GetResponseText(answer)[i] = [answer |-> answer, part |-> i]
<1>1. GetResponseText(answer) =
        [i \in 1..ResponseLength |-> [answer |-> answer, part |-> i]]
  BY DEF GetResponseText, Promise!Piece
<1>2. \A i \in 1..ResponseLength : [answer |-> answer, part |-> i] \in AnswerPiece
  BY DEF AnswerPiece
<1>3. ResponseLength \in Nat \ {0}
  BY HttpConnectionAssumption
<1>4. /\ GetResponseText(answer) \in Seq(AnswerPiece)
      /\ Len(GetResponseText(answer)) = ResponseLength
  BY <1>1, <1>2, <1>3
<1> QED
  BY <1>1, <1>3, <1>4

LEMMA NoAnswerIsAnswer == NoAnswer \in AnswerType
<1>1. 0 \in 0..MaxRequests /\ <<>> \in Seq(PieceType)
  BY HttpConnectionAssumption
<1> QED
  BY <1>1 DEF NoAnswer, AnswerType

(* An error is put into a response that may be set already. *)
LEMMA ErrorIsOut ==
  ASSUME Shapes, NEW stat \in Errors
  PROVE  /\ SetOther(stat) \in AnswerType
         /\ SetOther(stat).to = response.to
         /\ GetResponseText(SetOther(stat)) \in Seq(AnswerPiece)
         /\ GetResponseText(SetOther(stat)) # <<>>
<1>1. response \in AnswerType
  BY DEF Shapes
<1>2. SetOther(stat) \in AnswerType /\ SetOther(stat).to = response.to
  BY <1>1 DEF SetOther, AnswerType
<1> QED
  BY <1>2, TextIsOut

(* And so is what the handler answers. *)
LEMMA AnswerIsOut ==
  ASSUME Shapes
  PROVE  /\ SetWithBody \in AnswerType
         /\ SetWithBody.to \in {response.to, request.number}
         /\ GetResponseText(SetWithBody) \in Seq(AnswerPiece)
         /\ GetResponseText(SetWithBody) # <<>>
<1> DEFINE stat == Promise!HandlerStatus(asked[request.number].found)
           answer == [to |-> request.number, got |-> request.params, status |-> stat]
<1>1. /\ response \in AnswerType
      /\ request.number \in 0..MaxRequests /\ request.params \in Seq(PieceType)
  BY DEF Shapes, RequestShape
<1>2. stat \in Errors \cup {"OK", "none"}
  BY DEF Promise!HandlerStatus, Errors
<1>3. answer \in AnswerType /\ answer.to = request.number
  BY <1>1, <1>2 DEF AnswerType
<1>4. SetWithBody \in {response, answer}
  BY DEF SetWithBody
<1> HIDE DEF answer
<1>5. SetWithBody \in AnswerType /\ SetWithBody.to \in {response.to, request.number}
  BY <1>1, <1>3, <1>4
<1> QED
  BY <1>5, TextIsOut

LEMMA CleanIsRequest ==
  ASSUME Shapes
  PROVE  /\ Clean \in RequestShape
         /\ Clean.number = 0
<1>1. <<>> \in Seq(PieceType) /\ 0 \in 0..MaxRequests
  BY HttpConnectionAssumption
<1>2. request.type \in {"none", "form", "multipart"}
  BY DEF Shapes, RequestShape
<1>3. Clean = [number |-> 0, method |-> "UNKNOWN", length |-> -1,
               type |-> request.type, params |-> <<>>]
  BY DEF Clean, NoRequest
<1> QED
  BY <1>1, <1>2, <1>3 DEF RequestShape

(* The header at the front of InputBuffer, and the request it is read into. *)
LEMMA HeaderIsRequest ==
  ASSUME Base, NEW w \in Workers, pc[w] = "header"
  PROVE  /\ arg + 2 \in 0..Len(inputBuffer)
         /\ inputBuffer[1] \in PieceAsked
         /\ HandleHeader \in RequestShape
         /\ HandleHeader.number = inputBuffer[1].of
         /\ HeaderStatus(HandleHeader) \in Errors \cup {"OK"}
<1>1. arg + 2 \in 0..Len(inputBuffer) /\ inputBuffer \in Seq(PieceAsked)
  BY DEF Base, Shapes, ContextFits, CallFits
<1>2. inputBuffer[1] \in PieceAsked
  <2>1. arg \in Nat
    BY DEF Base, Shapes
  <2>2. 1 \in 1..Len(inputBuffer)
    BY <1>1, <2>1
  <2> QED
    BY <1>1, <2>2, ElementOfSeq
<1>3. inputBuffer[1].of \in 1..Len(asked)
  BY <1>2 DEF PieceAsked
<1>4. Received \in Requests
  BY <1>3, ElementOfSeq DEF Base, Shapes, Received
<1>5. /\ Received.method \in {"GET", "POST", "PUT", "DELETE"}
      /\ Received.type \in {"none", "form", "multipart"}
      /\ Received.length \in Nat \cup {-1}
  <2>1. Received \in Promise!RequestType
    BY <1>4, HttpConnectionAssumption
  <2> QED
    BY <2>1 DEF Promise!RequestType, Promise!Methods
<1>6. inputBuffer[1].of \in 0..MaxRequests
  <2>1. Len(asked) \in Nat /\ Len(asked) <= MaxRequests /\ MaxRequests \in Nat
    BY HttpConnectionAssumption DEF Base, Shapes
  <2> QED
    BY <1>3, <2>1
<1>7. HandleHeader \in RequestShape /\ HandleHeader.number = inputBuffer[1].of
  <2>1. request \in RequestShape
    BY DEF Base, Shapes
  <2> QED
    BY <1>5, <1>6, <2>1 DEF HandleHeader, RequestShape
<1>8. HeaderStatus(HandleHeader) \in Errors \cup {"OK"}
  BY DEF HeaderStatus, Errors
<1> QED
  BY <1>1, <1>2, <1>7, <1>8

LEMMA BehindHeaderIsSeq ==
  ASSUME Base, NEW w \in Workers, pc[w] = "header"
  PROVE  /\ BehindHeader \in Seq(PieceAsked)
         /\ Len(BehindHeader) = Len(inputBuffer) - (arg + 2)
  BY HeaderIsRequest, DropIsSeq DEF Base, Shapes, BehindHeader

(* An end of the header is looked for from the places that are new. *)
LEMMA SearchIsInside ==
  ASSUME Base, NEW w \in Workers, pc[w] = "data"
  PROVE  /\ SearchFrom(arg) \in Nat
         /\ SearchFrom(arg) <= Len(inputBuffer)
         /\ Len(inputBuffer) - arg - 2 <= SearchFrom(arg)
         /\ SearchFrom(arg) <= Len(inputBuffer) - arg
         /\ HeaderEnds(SearchFrom(arg)) \in SUBSET Nat
<1>1. arg \in Nat /\ arg <= Len(inputBuffer) /\ Len(inputBuffer) \in Nat
  BY DEF Base, Shapes, ContextFits, CallFits
<1>2. SearchFrom(arg) = IF Len(inputBuffer) - arg > 2 THEN Len(inputBuffer) - arg - 2 ELSE 0
  BY DEF SearchFrom
<1> HIDE DEF SearchFrom
<1> QED
  BY <1>1, <1>2 DEF HeaderEnds

LEMMA FoundIsEnd ==
  ASSUME Base, NEW w \in Workers, pc[w] = "data",
         HeaderEnds(SearchFrom(arg)) # {},
         NEW i, i = CHOOSE k \in HeaderEnds(SearchFrom(arg)) :
                      \A j \in HeaderEnds(SearchFrom(arg)) : k <= j
  PROVE  i \in Nat /\ i + 2 <= Len(inputBuffer) /\ inputBuffer[i + 1].is = "end1"
<1> DEFINE ends == HeaderEnds(SearchFrom(arg))
<1>1. ends \in SUBSET Nat /\ SearchFrom(arg) \in Nat
  BY SearchIsInside
<1>2. i \in ends
  <2>1. \E k \in ends : \A j \in ends : k <= j
    BY <1>1, LeastMember
  <2> QED
    BY <2>1
<1>3. Len(inputBuffer) \in Nat
  BY DEF Base, Shapes
<1> QED
  BY <1>1, <1>2, <1>3 DEF HeaderEnds

-----------------------------------------------------------------------------
(* The steps of the workers *)

(* A worker that has the mutex goes on, or one takes it while it is free. *)
LEMMA Moved ==
  ASSUME Base, NEW w \in Workers, NEW from \in Places, NEW to \in Places,
         Goto(w, from, to), from \in Holding \/ MutexFree
  PROVE  /\ pc' \in [Workers -> Places] /\ OneInside'
         /\ pc[w] = from /\ pc'[w] = to
         /\ \A v \in Workers \ {w} :
              pc'[v] = pc[v] /\ pc[v] \notin Holding /\ CallFits(v)'
<1>1. pc \in [Workers -> Places] /\ OneInside
  BY DEF Base, Shapes
<1>2. pc[w] = from /\ pc' = [pc EXCEPT ![w] = to]
  BY DEF Goto
<1>3. MutexFree => \A v \in Workers : pc[v] \notin Holding
  BY DEF MutexFree, Holding
<1>4. \A v \in Workers \ {w} : pc'[v] = pc[v] /\ pc[v] \notin Holding
  BY <1>1, <1>2, <1>3 DEF OneInside
<1>5. \A v \in Workers \ {w} : CallFits(v)'
  BY <1>4 DEF CallFits, Holding, Working
<1>6. pc' \in [Workers -> Places] /\ OneInside'
  BY <1>1, <1>2, <1>4 DEF OneInside
<1> QED
  BY <1>1, <1>2, <1>4, <1>5, <1>6

LEMMA Returned ==
  ASSUME Base, NEW w \in Workers, NEW from \in Holding, Return(w, from)
  PROVE  /\ pc' \in [Workers -> Places] /\ OneInside'
         /\ pc[w] = from /\ pc'[w] = IF looping THEN "recv" ELSE "idle"
         /\ \A v \in Workers \ {w} :
              pc'[v] = pc[v] /\ pc[v] \notin Holding /\ CallFits(v)'
<1> DEFINE to == IF looping THEN "recv" ELSE "idle"
<1>1. to \in Places /\ from \in Places /\ Goto(w, from, to)
  BY DEF Return, Places, Holding
<1> HIDE DEF to
<1>2. /\ pc' \in [Workers -> Places] /\ OneInside'
      /\ pc[w] = from /\ pc'[w] = to
      /\ \A v \in Workers \ {w} :
           pc'[v] = pc[v] /\ pc[v] \notin Holding /\ CallFits(v)'
  BY <1>1, Moved
<1> QED
  BY <1>2 DEF to

(* A worker that is outside stays there. *)
LEMMA Waited ==
  ASSUME Base, NEW w \in Workers, NEW from \in Places \ Holding,
         NEW to \in Places \ Holding, Goto(w, from, to)
  PROVE  /\ pc' \in [Workers -> Places] /\ OneInside'
         /\ pc[w] = from /\ pc'[w] = to
         /\ \A v \in Workers \ {w} : pc'[v] = pc[v]
<1>1. pc \in [Workers -> Places] /\ OneInside
  BY DEF Base, Shapes
<1>2. pc[w] = from /\ pc' = [pc EXCEPT ![w] = to]
  BY DEF Goto
<1> QED
  BY <1>1, <1>2 DEF OneInside

-----------------------------------------------------------------------------
(* What the client sends *)

BodyLength(r) == IF r.length = -1 THEN 0 ELSE r.length

(* The pieces of a request, one by one. *)
LEMMA StreamIs ==
  ASSUME NEW r \in Requests, NEW n \in Nat \ {0}
  PROVE  /\ r.head \in Nat \ {0} /\ BodyLength(r) \in Nat
         /\ Stream(n, r) \in Seq([of : 1..n, is : {"head", "end1", "end2", "body"}])
         /\ Len(Stream(n, r)) = r.head + 2 + BodyLength(r)
         /\ \A i \in 1..r.head : Stream(n, r)[i] = Piece(n, "head")
         /\ Stream(n, r)[r.head + 1] = Piece(n, "end1")
         /\ Stream(n, r)[r.head + 2] = Piece(n, "end2")
         /\ \A i \in 1..BodyLength(r) :
              Stream(n, r)[r.head + 2 + i] = Piece(n, "body")
<1> DEFINE k == r.head
           m == BodyLength(r)
           P == [of : 1..n, is : {"head", "end1", "end2", "body"}]
           heads == [i \in 1..k |-> Piece(n, "head")]
           ends == <<Piece(n, "end1"), Piece(n, "end2")>>
           body == [i \in 1..r.length |-> Piece(n, "body")]
<1>1. k \in Nat \ {0} /\ m \in Nat /\ r.length \in Nat \cup {-1}
  <2>1. r \in Promise!RequestType
    BY HttpConnectionAssumption
  <2> QED
    BY <2>1 DEF Promise!RequestType, BodyLength
<1>2. body = [i \in 1..m |-> Piece(n, "body")]
  <2>1. CASE r.length = -1
    <3>1. 1..r.length = 1..m
      BY <2>1 DEF BodyLength
    <3> QED
      BY <3>1
  <2>2. CASE r.length # -1
    BY <2>2 DEF BodyLength
  <2> QED
    BY <2>1, <2>2
<1>3. /\ Piece(n, "head") \in P /\ Piece(n, "end1") \in P /\ Piece(n, "end2") \in P
      /\ Piece(n, "body") \in P
  BY DEF Piece
<1> HIDE DEF P, k, m
<1>a. ASSUME NEW e \in P, NEW l \in Nat, NEW f, f = [i \in 1..l |-> e]
      PROVE  f \in Seq(P) /\ Len(f) = l /\ \A i \in 1..l : f[i] = e
  BY <1>a
<1>4. heads \in Seq(P) /\ Len(heads) = k
      /\ \A i \in 1..k : heads[i] = Piece(n, "head")
  BY <1>1, <1>3, <1>a
<1>5. ends \in Seq(P) /\ Len(ends) = 2
      /\ ends[1] = Piece(n, "end1") /\ ends[2] = Piece(n, "end2")
  BY <1>3
<1>6. body \in Seq(P) /\ Len(body) = m
      /\ \A i \in 1..m : body[i] = Piece(n, "body")
  <2> DEFINE e == Piece(n, "body")
  <2>1. e \in P /\ m \in Nat /\ body = [i \in 1..m |-> e]
    BY <1>1, <1>2, <1>3
  <2> HIDE DEF e, body
  <2>2. body \in Seq(P) /\ Len(body) = m /\ \A i \in 1..m : body[i] = e
    BY ONLY <2>1, <1>a
  <2> QED
    BY <2>2 DEF e
<1> DEFINE s == heads \o ends \o body
<1>7. Stream(n, r) = s
  BY DEF Stream, k
<1> HIDE DEF heads, ends, body
<1>8. heads \o ends \in Seq(P) /\ Len(heads \o ends) = k + 2
      /\ \A i \in 1..k + 2 :
           (heads \o ends)[i] = IF i <= k THEN heads[i] ELSE ends[i - k]
  <2>1. heads \o ends \in Seq(P) /\ Len(heads \o ends) = Len(heads) + Len(ends)
        /\ \A i \in 1..Len(heads) + Len(ends) :
             (heads \o ends)[i] = IF i <= Len(heads) THEN heads[i] ELSE ends[i - Len(heads)]
    BY <1>4, <1>5, ConcatProperties
  <2> QED
    BY <1>4, <1>5, <2>1
<1>9. s \in Seq(P) /\ Len(s) = k + 2 + m
      /\ \A i \in 1..k + 2 + m :
           s[i] = IF i <= k + 2 THEN (heads \o ends)[i] ELSE body[i - (k + 2)]
  <2> DEFINE h == heads \o ends
  <2>1. h \in Seq(P) /\ body \in Seq(P)
    BY <1>6, <1>8
  <2> HIDE DEF h
  <2>2. h \o body \in Seq(P) /\ Len(h \o body) = Len(h) + Len(body)
        /\ \A i \in 1..Len(h) + Len(body) :
             (h \o body)[i] = IF i <= Len(h) THEN h[i] ELSE body[i - Len(h)]
    BY ONLY <2>1, ConcatProperties
  <2>3. Len(h) = k + 2 /\ Len(body) = m /\ s = h \o body
    BY <1>6, <1>8 DEF h
  <2> HIDE DEF s
  <2>4. s \in Seq(P) /\ Len(s) = k + 2 + m
        /\ \A i \in 1..k + 2 + m : s[i] = IF i <= k + 2 THEN h[i] ELSE body[i - (k + 2)]
    BY ONLY <2>2, <2>3
  <2> QED
    BY <2>4 DEF h
<1> HIDE DEF s
<1>10. ASSUME NEW i \in 1..k PROVE s[i] = Piece(n, "head")
  <2>1. i \in 1..k + 2 + m /\ i \in 1..k + 2 /\ i <= k /\ i <= k + 2
    BY <1>1
  <2> QED
    BY <1>4, <1>8, <1>9, <2>1
<1>11. s[k + 1] = Piece(n, "end1") /\ s[k + 2] = Piece(n, "end2")
  <2>1. ASSUME NEW i \in {1, 2} PROVE s[k + i] = ends[i]
    <3> DEFINE j == k + i
    <3>1. /\ j \in 1..k + 2 + m /\ j \in 1..k + 2 /\ j <= k + 2
          /\ ~(j <= k) /\ j - k = i
      BY <1>1
    <3> HIDE DEF j
    <3>2. s[j] = ends[j - k]
      BY ONLY <1>8, <1>9, <3>1
    <3> QED
      BY <3>1, <3>2 DEF j
  <2>2. s[k + 1] = ends[1] /\ s[k + 2] = ends[2]
    BY <2>1
  <2> QED
    BY <1>5, <2>2
<1>12. ASSUME NEW i \in 1..m PROVE s[k + 2 + i] = Piece(n, "body")
  <2> DEFINE j == k + 2 + i
  <2>1. j \in 1..k + 2 + m /\ ~(j <= k + 2) /\ j - (k + 2) = i
    BY <1>1
  <2> HIDE DEF j
  <2>2. s[j] = body[j - (k + 2)]
    BY <1>9, <2>1
  <2> QED
    BY <1>6, <2>1, <2>2 DEF j
<1> QED
  BY <1>1, <1>7, <1>9, <1>10, <1>11, <1>12 DEF k, m, P

(* They are the request's own, its heads in front. *)
LEMMA StreamIsSeq ==
  ASSUME NEW r \in Requests, NEW n \in Nat \ {0}
  PROVE  LET s == Stream(n, r)
         IN  /\ s \in Seq([of : 1..n, is : {"head", "end1", "end2", "body"}])
             /\ \A i \in 1..Len(s) : s[i].of = n
             /\ \A i, j \in 1..Len(s) : i < j /\ s[j].is = "head" => s[i].is = "head"
<1> DEFINE s == Stream(n, r)
           k == r.head
           m == BodyLength(r)
<1>1. k \in Nat /\ m \in Nat /\ Len(s) = k + 2 + m
      /\ s \in Seq([of : 1..n, is : {"head", "end1", "end2", "body"}])
      /\ \A i \in 1..k : s[i] = Piece(n, "head")
  BY StreamIs
<1>a. s[k + 1] = Piece(n, "end1") /\ s[k + 2] = Piece(n, "end2")
  BY StreamIs
<1>b. \A i \in 1..m : s[k + 2 + i] = Piece(n, "body")
  BY StreamIs
<1> HIDE DEF s, k, m
<1>2. ASSUME NEW i \in 1..Len(s)
      PROVE  s[i].of = n /\ (s[i].is = "head" <=> i <= k)
  <2>1. CASE i <= k
    <3>1. s[i] = Piece(n, "head")
      BY <1>1, <2>1
    <3> QED
      BY <2>1, <3>1 DEF Piece
  <2>2. CASE i = k + 1 \/ i = k + 2
    <3>1. s[i] = Piece(n, "end1") \/ s[i] = Piece(n, "end2")
      BY ONLY <1>a, <2>2
    <3>2. ~(i <= k)
      BY <1>1, <2>2
    <3> QED
      BY <3>1, <3>2 DEF Piece
  <2>3. CASE i > k + 2
    <3>1. i - (k + 2) \in 1..m /\ k + 2 + (i - (k + 2)) = i
      BY <1>1, <2>3
    <3>2. s[k + 2 + (i - (k + 2))] = Piece(n, "body")
      BY ONLY <1>b, <3>1
    <3>3. ~(i <= k)
      BY <1>1, <2>3
    <3> QED
      BY <3>1, <3>2, <3>3 DEF Piece
  <2>4. i <= k \/ i = k + 1 \/ i = k + 2 \/ i > k + 2
    BY <1>1
  <2> QED
    BY ONLY <2>1, <2>2, <2>3, <2>4
<1>3. ASSUME NEW i \in 1..Len(s), NEW j \in 1..Len(s), i < j, s[j].is = "head"
      PROVE  s[i].is = "head"
  <2>1. j <= k
    BY <1>2, <1>3
  <2>2. i <= k
    BY <1>1, <1>3, <2>1
  <2> QED
    BY <1>2, <2>2
<1> QED
  BY <1>1, <1>2, <1>3 DEF s

LEMMA BaseStep == Base /\ [Next]_vars => Base'
<1> SUFFICES ASSUME Base, [Next]_vars PROVE Base'
  OBVIOUS
<1> USE DEF network, context, call
<1>1. ASSUME NEW r \in Requests, Ask(r) PROVE Base'
  <2>1. asked' \in Seq(Requests) /\ Len(asked') = Len(asked) + 1 /\ Len(asked) \in Nat
    BY <1>1 DEF Ask, Base, Shapes
  <2>2. PieceAsked \subseteq PieceAsked'
    BY <2>1 DEF PieceAsked
  <2>3. inbox \in Seq(PieceAsked') /\ inputBuffer \in Seq(PieceAsked')
    BY <2>2, SeqMonotonic DEF Base, Shapes
  <2>4. unsent' \in Seq(PieceAsked')
    <3>1. Stream(Len(asked) + 1, r)
            \in Seq([of : 1..Len(asked) + 1, is : {"head", "end1", "end2", "body"}])
      BY <2>1, StreamIsSeq
    <3> QED
      BY <1>1, <2>1, <3>1 DEF Ask, PieceAsked
  <2>5. Len(asked') <= MaxRequests
    <3>1. Len(asked) < MaxRequests
      BY <1>1, <2>1, HttpConnectionAssumption DEF Ask
    <3> QED
      BY <2>1, <3>1, HttpConnectionAssumption
  <2>6. Shapes'
    BY <1>1, <2>1, <2>3, <2>4, <2>5 DEF Ask, Base, Shapes
  <2> QED
    BY <1>1, <2>6 DEF Ask, Base, OneInside, ContextFits, CallFits
<1>2. CASE ClientSends
  <2>1. /\ inbox' \in Seq(PieceAsked) /\ Len(inbox') = Len(inbox) + 1
        /\ unsent' \in Seq(PieceAsked)
    BY <1>2, HeadTailProperties, AppendProperties DEF ClientSends, Base, Shapes
  <2>2. Shapes'
    <3>1. PieceAsked' = PieceAsked
      BY <1>2 DEF ClientSends, PieceAsked
    <3>2. Len(inbox') <= ReceiveBuffer
      <4>1. Len(inbox) < ReceiveBuffer
        BY <1>2 DEF ClientSends
      <4>2. Len(inbox) \in Nat /\ ReceiveBuffer \in Nat
        BY HttpConnectionAssumption DEF Base, Shapes
      <4> QED
        BY <2>1, <4>1, <4>2
    <3>3. edge' \in BOOLEAN
      BY <1>2 DEF ClientSends
    <3>4. UNCHANGED <<asked, unread, nospace, isOpen, delivered, context, pc, call, calm, again>>
      BY <1>2 DEF ClientSends
    <3> QED
      BY <2>1, <3>1, <3>2, <3>3, <3>4 DEF Base, Shapes
  <2> QED
    BY <1>2, <2>2 DEF ClientSends, Base, OneInside, ContextFits, CallFits
<1>3. CASE ClientReads
  <2>1. Shapes'
    <3>1. PieceAsked' = PieceAsked
      BY <1>3 DEF ClientReads, PieceAsked
    <3>2. edge' \in BOOLEAN /\ nospace' \in BOOLEAN
      BY <1>3 DEF ClientReads, Base, Shapes
    <3>3. unread > 0 /\ unread' = unread - 1
      BY <1>3 DEF ClientReads
    <3>4. UNCHANGED <<asked, unsent, inbox, isOpen, delivered, context, pc, call, calm, again>>
      BY <1>3 DEF ClientReads
    <3> QED
      BY <3>1, <3>2, <3>3, <3>4, HttpConnectionAssumption DEF Base, Shapes
  <2> QED
    BY <1>3, <2>1 DEF ClientReads, Base, OneInside, ContextFits, CallFits
<1>4. ASSUME NEW w \in Workers, PollReceivable(w), UNCHANGED <<calm, again>> PROVE Base'
  <2>3. /\ pc' \in [Workers -> Places] /\ OneInside'
        /\ pc[w] = "idle" /\ pc'[w] = "in"
        /\ \A v \in Workers \ {w} : pc'[v] = pc[v]
    BY <1>4, Waited DEF PollReceivable, Fetch, Places, Holding
  <2>1. Shapes'
    <3>1. PieceAsked' = PieceAsked
      BY <1>4 DEF PollReceivable, Fetch, PieceAsked
    <3> QED
      BY <1>4, <2>3, <3>1 DEF PollReceivable, Fetch, Base, Shapes
  <2>2. ContextFits'
    BY <1>4, <2>3 DEF PollReceivable, Fetch, CallFits, Working, Holding, Base,
       ContextFits
  <2> QED
    BY <2>3, <2>1, <2>2 DEF Base
<1>5. ASSUME NEW w \in Workers, PollSendable(w), UNCHANGED <<calm, again>> PROVE Base'
  <2>3. /\ pc' \in [Workers -> Places] /\ OneInside'
        /\ pc[w] = "idle" /\ pc'[w] = "out"
        /\ \A v \in Workers \ {w} : pc'[v] = pc[v]
    BY <1>5, Waited DEF PollSendable, Fetch, Places, Holding
  <2>1. Shapes'
    <3>1. PieceAsked' = PieceAsked
      BY <1>5 DEF PollSendable, Fetch, PieceAsked
    <3> QED
      BY <1>5, <2>3, <3>1 DEF PollSendable, Fetch, Base, Shapes
  <2>2. ContextFits'
    BY <1>5, <2>3 DEF PollSendable, Fetch, CallFits, Working, Holding, Base, ContextFits
  <2> QED
    BY <2>3, <2>1, <2>2 DEF Base
<1>6. ASSUME NEW w \in Workers, PollNothing(w), UNCHANGED <<calm, again>> PROVE Base'
  <2>3. /\ pc' \in [Workers -> Places] /\ OneInside'
        /\ pc[w] = "idle" /\ pc'[w] = "idle"
        /\ \A v \in Workers \ {w} : pc'[v] = pc[v]
    BY <1>6, Waited DEF PollNothing, Fetch, Places, Holding
  <2>1. Shapes'
    <3>1. PieceAsked' = PieceAsked
      BY <1>6 DEF PollNothing, Fetch, PieceAsked
    <3> QED
      BY <1>6, <2>3, <3>1 DEF PollNothing, Fetch, Base, Shapes
  <2>2. ContextFits'
    BY <1>6, <2>3 DEF PollNothing, Fetch, CallFits, Working, Holding, Base, ContextFits
  <2> QED
    BY <2>3, <2>1, <2>2 DEF Base
<1>7. ASSUME NEW w \in Workers, Receivable(w), UNCHANGED <<calm, again>> PROVE Base'
  <2>3. /\ pc' \in [Workers -> Places] /\ OneInside'
        /\ pc[w] = "in" /\ pc'[w] = "recv"
        /\ \A v \in Workers \ {w} : CallFits(v)'
    BY <1>7, Moved DEF Receivable, Places, Holding
  <2>1. Shapes'
    <3>1. PieceAsked' = PieceAsked
      BY <1>7 DEF Receivable, PieceAsked
    <3> QED
      BY <1>7, <2>3, <3>1, LimitIsNat DEF Receivable, Base, Shapes
  <2>2. ContextFits'
    <3>1. CallFits(w)'
      BY <1>7, <2>3 DEF Receivable, Base, Shapes, ContextFits, CallFits, Working,
         Holding
    <3> QED
      BY <1>7, <2>3, <3>1 DEF Receivable, Base, ContextFits, CallFits, Working
  <2> QED
    BY <2>3, <2>1, <2>2 DEF Base
<1>8. ASSUME NEW w \in Workers, ReceivableTooSlowly(w) PROVE Base'
  <2>3. /\ pc' \in [Workers -> Places] /\ OneInside'
        /\ pc[w] = "in" /\ pc'[w] = "send"
        /\ \A v \in Workers \ {w} : CallFits(v)'
    BY <1>8, Moved DEF ReceivableTooSlowly, Refuse, SwitchToSend, Places, Holding
  <2>6. calm' = FALSE
    BY <1>8 DEF ReceivableTooSlowly, Troubled
  <2>5. SetOther("REQUEST_TIMEOUT") \in AnswerType
        /\ GetResponseText(SetOther("REQUEST_TIMEOUT")) \in Seq(AnswerPiece)
        /\ GetResponseText(SetOther("REQUEST_TIMEOUT")) # <<>>
    BY ErrorIsOut DEF Base, Errors
  <2>1. Shapes'
    <3>1. PieceAsked' = PieceAsked
      BY <1>8 DEF ReceivableTooSlowly, Refuse, SwitchToSend, PieceAsked
    <3>2. /\ edge' \in BOOLEAN /\ nospace' \in BOOLEAN /\ isOpen' \in BOOLEAN
          /\ keepAlive' \in BOOLEAN /\ looping' \in BOOLEAN /\ calm' \in BOOLEAN
      BY <1>8 DEF ReceivableTooSlowly, Refuse, SwitchToSend, Base, Shapes, Troubled
    <3>3. /\ outputBuffer' = GetResponseText(SetOther("REQUEST_TIMEOUT")) /\ status' = "SEND"
          /\ response' = SetOther("REQUEST_TIMEOUT") /\ left' = RecvLimit
          /\ UNCHANGED <<asked, unsent, inbox, unread, delivered, inputBuffer, request, arg>>
      BY <1>8 DEF ReceivableTooSlowly, Refuse, SwitchToSend
    <3>4. again' \in 0..MaxRequests
      <4>1. again' \in {again, response.to}
        BY <1>8 DEF ReceivableTooSlowly
      <4> QED
        BY <4>1 DEF Base, Shapes, AnswerType
    <3> QED
      BY <2>3, <3>1, <3>2, <3>3, <3>4, LimitIsNat, <2>5, <2>6 DEF Base, Shapes
  <2>2. ContextFits'
    <3>1. CallFits(w)'
      BY <1>8, <2>3, <2>5 DEF ReceivableTooSlowly, Refuse, SwitchToSend, Troubled,
         Base, Shapes, ContextFits, CallFits, Working, Holding
    <3> QED
      BY <1>8, <2>3, <3>1, <2>5 DEF ReceivableTooSlowly, Refuse, SwitchToSend,
         Troubled, Base, ContextFits, CallFits, Working
  <2> QED
    BY <2>3, <2>1, <2>2 DEF Base
<1>9. ASSUME NEW w \in Workers, Recv(w), UNCHANGED <<calm, again>> PROVE Base'
  <2>3. /\ pc' \in [Workers -> Places] /\ OneInside'
        /\ pc[w] = "recv" /\ pc'[w] = "data"
        /\ \A v \in Workers \ {w} : CallFits(v)'
    BY <1>9, Moved DEF Recv, Places, Holding
  <2> DEFINE bytes == IF Len(inbox) < Step THEN Len(inbox) ELSE Step
  <2>4. bytes \in 0..Len(inbox) /\ bytes \in Nat
    BY HttpConnectionAssumption DEF Base, Shapes
  <2>5. /\ inputBuffer' \in Seq(PieceAsked) /\ Len(inputBuffer') = Len(inputBuffer) + bytes
        /\ inbox' \in Seq(PieceAsked) /\ Len(inbox') = Len(inbox) - bytes
        /\ arg' = bytes /\ left' = left - 1 /\ left' \in 0..RecvLimit
        /\ bytes \in Nat /\ bytes <= Len(inbox)
    <3>1. Take(inbox, bytes) \in Seq(PieceAsked) /\ Len(Take(inbox, bytes)) = bytes
      BY <2>4, TakeIsSeq DEF Base, Shapes
    <3>2. Drop(inbox, bytes) \in Seq(PieceAsked) /\ Len(Drop(inbox, bytes)) = Len(inbox) - bytes
      BY <2>4, DropIsSeq DEF Base, Shapes
    <3>3. /\ inputBuffer' = inputBuffer \o Take(inbox, bytes)
          /\ inbox' = Drop(inbox, bytes)
          /\ arg' = bytes /\ left' = left - 1 /\ left > 0
      BY <1>9 DEF Recv
    <3> HIDE DEF bytes
    <3>4. /\ inputBuffer \in Seq(PieceAsked) /\ left \in 0..RecvLimit
          /\ Len(inbox) \in Nat
      BY DEF Base, Shapes
    <3>5. left' \in 0..RecvLimit
      BY <3>3, <3>4, LimitIsNat
    <3>6. /\ inputBuffer \o Take(inbox, bytes) \in Seq(PieceAsked)
          /\ Len(inputBuffer \o Take(inbox, bytes)) = Len(inputBuffer) + bytes
      BY <3>1, <3>4, ConcatProperties
    <3> QED
      BY <2>4, <3>1, <3>2, <3>3, <3>4, <3>5, <3>6
  <2> HIDE DEF bytes
  <2>6. Len(inbox') <= ReceiveBuffer
    <3>1. Len(inbox) \in Nat /\ Len(inbox) <= ReceiveBuffer /\ ReceiveBuffer \in Nat
      BY HttpConnectionAssumption DEF Base, Shapes
    <3> QED
      BY <2>5, <3>1
  <2>1. Shapes'
    <3>1. PieceAsked' = PieceAsked
      BY <1>9 DEF Recv, PieceAsked
    <3>2. /\ edge' \in BOOLEAN /\ nospace' \in BOOLEAN /\ isOpen' \in BOOLEAN
          /\ keepAlive' \in BOOLEAN /\ looping' \in BOOLEAN /\ calm' \in BOOLEAN
          /\ UNCHANGED <<response, again>>
      BY <1>9 DEF Recv, Base, Shapes
    <3>3. UNCHANGED <<asked, unsent, unread, delivered, outputBuffer, status, request>>
      BY <1>9 DEF Recv
    <3> QED
      BY <2>3, <3>1, <3>2, <3>3, <2>5, <2>6 DEF Base, Shapes
  <2>2. ContextFits'
    <3>1. CallFits(w)'
      BY <1>9, <2>3, <2>5 DEF Recv, Base, Shapes, ContextFits, CallFits, Working,
         Holding
    <3> QED
      BY <1>9, <2>3, <3>1, <2>5 DEF Recv, Base, ContextFits, CallFits, Working
  <2> QED
    BY <2>3, <2>1, <2>2 DEF Base
<1>10. ASSUME NEW w \in Workers, RecvEnds(w), UNCHANGED <<calm, again>> PROVE Base'
  <2>3. /\ pc' \in [Workers -> Places] /\ OneInside'
        /\ pc[w] = "recv" /\ pc'[w] = "idle"
        /\ \A v \in Workers \ {w} : CallFits(v)'
    BY <1>10, Moved DEF RecvEnds, Places, Holding
  <2>1. Shapes'
    <3>1. PieceAsked' = PieceAsked
      BY <1>10 DEF RecvEnds, PieceAsked
    <3> QED
      BY <1>10, <2>3, <3>1 DEF RecvEnds, Base, Shapes
  <2>2. ContextFits'
    <3>1. CallFits(w)'
      BY <1>10, <2>3 DEF RecvEnds, Base, Shapes, ContextFits, CallFits, Working, Holding
    <3> QED
      BY <1>10, <2>3, <3>1 DEF RecvEnds, Base, ContextFits, CallFits, Working
  <2> QED
    BY <2>3, <2>1, <2>2 DEF Base
<1>11. ASSUME NEW w \in Workers, Sendable(w), UNCHANGED <<calm, again>> PROVE Base'
  <2>3. /\ pc' \in [Workers -> Places] /\ OneInside'
        /\ pc[w] = "out" /\ pc'[w] = "send"
        /\ \A v \in Workers \ {w} : CallFits(v)'
    BY <1>11, Moved DEF Sendable, Places, Holding
  <2>1. Shapes'
    <3>1. PieceAsked' = PieceAsked
      BY <1>11 DEF Sendable, PieceAsked
    <3> QED
      BY <1>11, <2>3, <3>1 DEF Sendable, Base, Shapes
  <2>2. ContextFits'
    <3>1. CallFits(w)'
      BY <1>11, <2>3 DEF Sendable, Base, Shapes, ContextFits, CallFits, Working, Holding
    <3> QED
      BY <1>11, <2>3, <3>1 DEF Sendable, Base, ContextFits, CallFits, Working
  <2> QED
    BY <2>3, <2>1, <2>2 DEF Base
<1>12. ASSUME NEW w \in Workers, DataEndsHeader(w), UNCHANGED <<calm, again>> PROVE Base'
  <2>3. /\ pc' \in [Workers -> Places] /\ OneInside'
        /\ pc[w] = "data" /\ pc'[w] = "header"
        /\ \A v \in Workers \ {w} : CallFits(v)'
    BY <1>12, Moved DEF DataEndsHeader, Places, Holding
  <2>5. arg' \in Nat /\ arg' + 2 <= Len(inputBuffer) /\ inputBuffer[arg' + 1].is = "end1"
    BY <1>12, FoundIsEnd DEF DataEndsHeader, Goto
  <2>1. Shapes'
    <3>1. PieceAsked' = PieceAsked
      BY <1>12 DEF DataEndsHeader, PieceAsked
    <3> QED
      BY <1>12, <2>3, <3>1, <2>5 DEF DataEndsHeader, Base, Shapes
  <2>2. ContextFits'
    <3>1. CallFits(w)'
      BY <1>12, <2>3, <2>5 DEF DataEndsHeader, Base, Shapes, ContextFits, CallFits,
         Working, Holding
    <3> QED
      BY <1>12, <2>3, <3>1, <2>5 DEF DataEndsHeader, Base, ContextFits, CallFits,
         Working
  <2> QED
    BY <2>3, <2>1, <2>2 DEF Base
<1>13. ASSUME NEW w \in Workers, DataTooLong(w), UNCHANGED <<calm, again>> PROVE Base'
  <2>3. /\ pc' \in [Workers -> Places] /\ OneInside'
        /\ pc[w] = "data" /\ pc'[w] = "send"
        /\ \A v \in Workers \ {w} : CallFits(v)'
    BY <1>13, Moved DEF DataTooLong, Refuse, SwitchToSend, Places, Holding
  <2>5. SetOther("REQUEST_ENTITY_TOO_LARGE") \in AnswerType
        /\ GetResponseText(SetOther("REQUEST_ENTITY_TOO_LARGE")) \in Seq(AnswerPiece)
        /\ GetResponseText(SetOther("REQUEST_ENTITY_TOO_LARGE")) # <<>>
    BY ErrorIsOut DEF Base, Errors
  <2>1. Shapes'
    <3>1. PieceAsked' = PieceAsked
      BY <1>13 DEF DataTooLong, Refuse, SwitchToSend, PieceAsked
    <3> QED
      BY <1>13, <2>3, <3>1, <2>5 DEF DataTooLong, Refuse, SwitchToSend, Base, Shapes
  <2>2. ContextFits'
    <3>1. CallFits(w)'
      BY <1>13, <2>3, <2>5 DEF DataTooLong, Refuse, SwitchToSend, Base, Shapes,
         ContextFits, CallFits, Working, Holding
    <3> QED
      BY <1>13, <2>3, <3>1, <2>5 DEF DataTooLong, Refuse, SwitchToSend, Base,
         ContextFits, CallFits, Working
  <2> QED
    BY <2>3, <2>1, <2>2 DEF Base
<1>14. ASSUME NEW w \in Workers, DataEndsBody(w), UNCHANGED <<calm, again>> PROVE Base'
  <2>3. /\ pc' \in [Workers -> Places] /\ OneInside'
        /\ pc[w] = "data" /\ pc'[w] = "body"
        /\ \A v \in Workers \ {w} : CallFits(v)'
    BY <1>14, Moved DEF DataEndsBody, Places, Holding
  <2>1. Shapes'
    <3>1. PieceAsked' = PieceAsked
      BY <1>14 DEF DataEndsBody, PieceAsked
    <3> QED
      BY <1>14, <2>3, <3>1 DEF DataEndsBody, Base, Shapes
  <2>2. ContextFits'
    <3>1. CallFits(w)'
      BY <1>14, <2>3 DEF DataEndsBody, Base, Shapes, ContextFits, CallFits, Working,
         Holding
    <3> QED
      BY <1>14, <2>3, <3>1 DEF DataEndsBody, Base, ContextFits, CallFits, Working
  <2> QED
    BY <2>3, <2>1, <2>2 DEF Base
<1>15. ASSUME NEW w \in Workers, DataWaits(w), UNCHANGED <<calm, again>> PROVE Base'
  <2>3. /\ pc' \in [Workers -> Places] /\ OneInside'
        /\ pc[w] = "data" /\ pc'[w] = IF looping THEN "recv" ELSE "idle"
        /\ \A v \in Workers \ {w} : CallFits(v)'
    BY <1>15, Returned DEF DataWaits, Places, Holding
  <2>1. Shapes'
    <3>1. PieceAsked' = PieceAsked
      BY <1>15 DEF DataWaits, PieceAsked
    <3> QED
      BY <1>15, <2>3, <3>1 DEF DataWaits, Base, Shapes
  <2>2. ContextFits'
    <3>1. CallFits(w)'
      BY <1>15, <2>3 DEF DataWaits, Base, Shapes, ContextFits, CallFits, Working,
         Holding
    <3> QED
      BY <1>15, <2>3, <3>1 DEF DataWaits, Base, ContextFits, CallFits, Working
  <2> QED
    BY <2>3, <2>1, <2>2 DEF Base
<1>16. ASSUME NEW w \in Workers, HeaderInvalid(w), UNCHANGED <<calm, again>> PROVE Base'
  <2>3. /\ pc' \in [Workers -> Places] /\ OneInside'
        /\ pc[w] = "header" /\ pc'[w] = "send"
        /\ \A v \in Workers \ {w} : CallFits(v)'
    BY <1>16, Moved DEF HeaderInvalid, Refuse, SwitchToSend, Places, Holding
  <2>5. BehindHeader \in Seq(PieceAsked) /\ Len(BehindHeader) \in Nat
    BY <1>16, BehindHeaderIsSeq DEF HeaderInvalid, Refuse, SwitchToSend, Return, Goto
  <2>6. SetOther("BAD_REQUEST") \in AnswerType
        /\ GetResponseText(SetOther("BAD_REQUEST")) \in Seq(AnswerPiece)
        /\ GetResponseText(SetOther("BAD_REQUEST")) # <<>>
    BY ErrorIsOut DEF Base, Errors
  <2>1. Shapes'
    <3>1. PieceAsked' = PieceAsked
      BY <1>16 DEF HeaderInvalid, Refuse, SwitchToSend, PieceAsked
    <3> QED
      BY <1>16, <2>3, <3>1, <2>5, <2>6 DEF HeaderInvalid, Refuse, SwitchToSend,
         Base, Shapes
  <2>2. ContextFits'
    <3>1. CallFits(w)'
      BY <1>16, <2>3, <2>5, <2>6 DEF HeaderInvalid, Refuse, SwitchToSend, Base,
         Shapes, ContextFits, CallFits, Working, Holding
    <3> QED
      BY <1>16, <2>3, <3>1, <2>5, <2>6 DEF HeaderInvalid, Refuse, SwitchToSend,
         Base, ContextFits, CallFits, Working
  <2> QED
    BY <2>3, <2>1, <2>2 DEF Base
<1>17. ASSUME NEW w \in Workers, HeaderRefused(w), UNCHANGED <<calm, again>> PROVE Base'
  <2>3. /\ pc' \in [Workers -> Places] /\ OneInside'
        /\ pc[w] = "header" /\ pc'[w] = "send"
        /\ \A v \in Workers \ {w} : CallFits(v)'
    BY <1>17, Moved DEF HeaderRefused, Refuse, SwitchToSend, Places, Holding
  <2>5. BehindHeader \in Seq(PieceAsked) /\ Len(BehindHeader) \in Nat
    BY <1>17, BehindHeaderIsSeq DEF HeaderRefused, Refuse, SwitchToSend, Return, Goto
  <2>7. HandleHeader \in RequestShape
    BY <1>17, HeaderIsRequest DEF HeaderRefused, Refuse, SwitchToSend, Return, Goto
  <2>6. SetOther(HeaderStatus(HandleHeader)) \in AnswerType
        /\ GetResponseText(SetOther(HeaderStatus(HandleHeader))) \in Seq(AnswerPiece)
        /\ GetResponseText(SetOther(HeaderStatus(HandleHeader))) # <<>>
    <3>1. HeaderStatus(HandleHeader) \in Errors
      BY <1>17, HeaderIsRequest DEF HeaderRefused, Refuse, SwitchToSend, Goto
    <3> QED
      BY <3>1, ErrorIsOut DEF Base
  <2>1. Shapes'
    <3>1. PieceAsked' = PieceAsked
      BY <1>17 DEF HeaderRefused, HeaderRead, Refuse, SwitchToSend, PieceAsked
    <3> QED
      BY <1>17, <2>3, <3>1, <2>5, <2>6, <2>7 DEF HeaderRefused, HeaderRead, Refuse,
         SwitchToSend, Base, Shapes
  <2>2. ContextFits'
    <3>1. CallFits(w)'
      BY <1>17, <2>3, <2>5, <2>6, <2>7 DEF HeaderRefused, HeaderRead, Refuse,
         SwitchToSend, Base, Shapes, ContextFits, CallFits, Working, Holding
    <3> QED
      BY <1>17, <2>3, <3>1, <2>5, <2>6, <2>7 DEF HeaderRefused, HeaderRead, Refuse,
         SwitchToSend, Base, ContextFits, CallFits, Working
  <2> QED
    BY <2>3, <2>1, <2>2 DEF Base
<1>18. ASSUME NEW w \in Workers, HeaderBeforeBody(w), UNCHANGED <<calm, again>> PROVE Base'
  <2>3. /\ pc' \in [Workers -> Places] /\ OneInside'
        /\ pc[w] = "header" /\ pc'[w] = IF looping THEN "recv" ELSE "idle"
        /\ \A v \in Workers \ {w} : CallFits(v)'
    BY <1>18, Returned DEF HeaderBeforeBody, Places, Holding
  <2>5. BehindHeader \in Seq(PieceAsked) /\ Len(BehindHeader) \in Nat
    BY <1>18, BehindHeaderIsSeq DEF HeaderBeforeBody, Refuse, SwitchToSend, Return, Goto
  <2>7. HandleHeader \in RequestShape
    BY <1>18, HeaderIsRequest DEF HeaderBeforeBody, Refuse, SwitchToSend, Return, Goto
  <2>8. HandleHeader.number # 0
    BY <1>18, HeaderIsRequest DEF HeaderBeforeBody, Return, Goto, PieceAsked
  <2>1. Shapes'
    <3>1. PieceAsked' = PieceAsked
      BY <1>18 DEF HeaderBeforeBody, HeaderAccepted, HeaderRead, PieceAsked
    <3> QED
      BY <1>18, <2>3, <3>1, <2>5, <2>7, <2>8 DEF HeaderBeforeBody, HeaderAccepted,
         HeaderRead, Base, Shapes
  <2>2. ContextFits'
    <3>1. CallFits(w)'
      BY <1>18, <2>3, <2>5, <2>7, <2>8 DEF HeaderBeforeBody, HeaderAccepted,
         HeaderRead, RequestShape, Base, Shapes, ContextFits, CallFits, Working,
         Holding
    <3> QED
      BY <1>18, <2>3, <3>1, <2>5, <2>7, <2>8 DEF HeaderBeforeBody, HeaderAccepted,
         HeaderRead, RequestShape, Base, ContextFits, CallFits, Working
  <2> QED
    BY <2>3, <2>1, <2>2 DEF Base
<1>19. ASSUME NEW w \in Workers, HeaderAndBody(w), UNCHANGED <<calm, again>> PROVE Base'
  <2>3. /\ pc' \in [Workers -> Places] /\ OneInside'
        /\ pc[w] = "header" /\ pc'[w] = "body"
        /\ \A v \in Workers \ {w} : CallFits(v)'
    BY <1>19, Moved DEF HeaderAndBody, Places, Holding
  <2>5. BehindHeader \in Seq(PieceAsked) /\ Len(BehindHeader) \in Nat
    BY <1>19, BehindHeaderIsSeq DEF HeaderAndBody, Refuse, SwitchToSend, Return, Goto
  <2>7. HandleHeader \in RequestShape
    BY <1>19, HeaderIsRequest DEF HeaderAndBody, Refuse, SwitchToSend, Return, Goto
  <2>8. HandleHeader.number # 0
    BY <1>19, HeaderIsRequest DEF HeaderAndBody, Return, Goto, PieceAsked
  <2>1. Shapes'
    <3>1. PieceAsked' = PieceAsked
      BY <1>19 DEF HeaderAndBody, HeaderAccepted, HeaderRead, PieceAsked
    <3> QED
      BY <1>19, <2>3, <3>1, <2>5, <2>7, <2>8 DEF HeaderAndBody, HeaderAccepted,
         HeaderRead, Base, Shapes
  <2>2. ContextFits'
    <3>1. CallFits(w)'
      BY <1>19, <2>3, <2>5, <2>7, <2>8 DEF HeaderAndBody, HeaderAccepted,
         HeaderRead, RequestShape, Base, Shapes, ContextFits, CallFits, Working,
         Holding
    <3> QED
      BY <1>19, <2>3, <3>1, <2>5, <2>7, <2>8 DEF HeaderAndBody, HeaderAccepted,
         HeaderRead, RequestShape, Base, ContextFits, CallFits, Working
  <2> QED
    BY <2>3, <2>1, <2>2 DEF Base
<1>20. ASSUME NEW w \in Workers, HeaderOnly(w), UNCHANGED <<calm, again>> PROVE Base'
  <2>3. /\ pc' \in [Workers -> Places] /\ OneInside'
        /\ pc[w] = "header" /\ pc'[w] = "ready"
        /\ \A v \in Workers \ {w} : CallFits(v)'
    BY <1>20, Moved DEF HeaderOnly, Places, Holding
  <2>5. BehindHeader \in Seq(PieceAsked) /\ Len(BehindHeader) \in Nat
    BY <1>20, BehindHeaderIsSeq DEF HeaderOnly, Refuse, SwitchToSend, Return, Goto
  <2>7. HandleHeader \in RequestShape
    BY <1>20, HeaderIsRequest DEF HeaderOnly, Refuse, SwitchToSend, Return, Goto
  <2>8. HandleHeader.number # 0
    BY <1>20, HeaderIsRequest DEF HeaderOnly, Return, Goto, PieceAsked
  <2>1. Shapes'
    <3>1. PieceAsked' = PieceAsked
      BY <1>20 DEF HeaderOnly, HeaderAccepted, HeaderRead, PieceAsked
    <3> QED
      BY <1>20, <2>3, <3>1, <2>5, <2>7, <2>8 DEF HeaderOnly, HeaderAccepted,
         HeaderRead, Base, Shapes
  <2>2. ContextFits'
    <3>1. CallFits(w)'
      BY <1>20, <2>3, <2>5, <2>7, <2>8 DEF HeaderOnly, HeaderAccepted, HeaderRead,
         RequestShape, Base, Shapes, ContextFits, CallFits, Working, Holding
    <3> QED
      BY <1>20, <2>3, <3>1, <2>5, <2>7, <2>8 DEF HeaderOnly, HeaderAccepted,
         HeaderRead, RequestShape, Base, ContextFits, CallFits, Working
  <2> QED
    BY <2>3, <2>1, <2>2 DEF Base
<1>21. ASSUME NEW w \in Workers, BodyRefused(w), UNCHANGED <<calm, again>> PROVE Base'
  <2>3. /\ pc' \in [Workers -> Places] /\ OneInside'
        /\ pc[w] = "body" /\ pc'[w] = "send"
        /\ \A v \in Workers \ {w} : CallFits(v)'
    BY <1>21, Moved DEF BodyRefused, SwitchToSend, Places, Holding
  <2>4. inputBuffer \in Seq(PieceAsked) /\ request.length \in 0..Len(inputBuffer)
    BY <1>21, <2>3 DEF BodyRefused, Base, Shapes, ContextFits, CallFits
  <2>5. Drop(inputBuffer, request.length) \in Seq(PieceAsked)
    BY <2>4, DropIsSeq
  <2>6. SetOther("BAD_REQUEST") \in AnswerType
        /\ GetResponseText(SetOther("BAD_REQUEST")) \in Seq(AnswerPiece)
        /\ GetResponseText(SetOther("BAD_REQUEST")) # <<>>
    BY ErrorIsOut DEF Base, Errors
  <2>1. Shapes'
    <3>1. PieceAsked' = PieceAsked
      BY <1>21 DEF BodyRefused, SwitchToSend, PieceAsked
    <3> QED
      BY <1>21, <2>3, <3>1, <2>5, <2>6 DEF BodyRefused, SwitchToSend, Base, Shapes
  <2>2. ContextFits'
    <3>1. CallFits(w)'
      BY <1>21, <2>3, <2>5, <2>6 DEF BodyRefused, SwitchToSend, Base, Shapes,
         ContextFits, CallFits, Working, Holding
    <3> QED
      BY <1>21, <2>3, <3>1, <2>5, <2>6 DEF BodyRefused, SwitchToSend, Base,
         ContextFits, CallFits, Working
  <2> QED
    BY <2>3, <2>1, <2>2 DEF Base
<1>22. ASSUME NEW w \in Workers, BodyHandled(w), UNCHANGED <<calm, again>> PROVE Base'
  <2>3. /\ pc' \in [Workers -> Places] /\ OneInside'
        /\ pc[w] = "body" /\ pc'[w] = "ready"
        /\ \A v \in Workers \ {w} : CallFits(v)'
    BY <1>22, Moved DEF BodyHandled, Places, Holding
  <2>4. inputBuffer \in Seq(PieceAsked) /\ request.length \in 0..Len(inputBuffer)
    BY <1>22, <2>3 DEF BodyHandled, Base, Shapes, ContextFits, CallFits
  <2>5. Drop(inputBuffer, request.length) \in Seq(PieceAsked)
    BY <2>4, DropIsSeq
  <2>6. /\ request' \in RequestShape /\ request'.number = request.number
        /\ request'.length = request.length
    <3>1. Take(inputBuffer, request.length) \in Seq(PieceType)
      <4>1. PieceAsked \subseteq PieceType
        BY HttpConnectionAssumption DEF PieceAsked, PieceType, Base, Shapes
      <4>2. Take(inputBuffer, request.length) \in Seq(PieceAsked)
        BY <2>4, TakeIsSeq
      <4> QED
        BY <4>1, <4>2, SeqMonotonic
    <3> QED
      BY <1>22, <3>1 DEF BodyHandled, Base, Shapes, RequestShape
  <2>1. Shapes'
    <3>1. PieceAsked' = PieceAsked
      BY <1>22 DEF BodyHandled, PieceAsked
    <3> QED
      BY <1>22, <2>3, <3>1, <2>5, <2>6 DEF BodyHandled, Base, Shapes
  <2>2. ContextFits'
    <3>1. CallFits(w)'
      BY <1>22, <2>3, <2>5, <2>6 DEF BodyHandled, RequestShape, Base, Shapes,
         ContextFits, CallFits, Working, Holding
    <3> QED
      BY <1>22, <2>3, <3>1, <2>5, <2>6 DEF BodyHandled, RequestShape, Base,
         ContextFits, CallFits, Working
  <2> QED
    BY <2>3, <2>1, <2>2 DEF Base
<1>23. ASSUME NEW w \in Workers, MessageReady(w), UNCHANGED <<calm, again>> PROVE Base'
  <2>3. /\ pc' \in [Workers -> Places] /\ OneInside'
        /\ pc[w] = "ready" /\ pc'[w] = "send"
        /\ \A v \in Workers \ {w} : CallFits(v)'
    BY <1>23, Moved DEF MessageReady, SwitchToSend, Places, Holding
  <2>6. SetWithBody \in AnswerType
        /\ GetResponseText(SetWithBody) \in Seq(AnswerPiece)
        /\ GetResponseText(SetWithBody) # <<>>
    BY AnswerIsOut DEF Base
  <2>1. Shapes'
    <3>1. PieceAsked' = PieceAsked
      BY <1>23 DEF MessageReady, SwitchToSend, PieceAsked
    <3> QED
      BY <1>23, <2>3, <3>1, <2>6 DEF MessageReady, SwitchToSend, Base, Shapes
  <2>2. ContextFits'
    <3>1. CallFits(w)'
      BY <1>23, <2>3, <2>6 DEF MessageReady, SwitchToSend, Base, Shapes,
         ContextFits, CallFits, Working, Holding
    <3> QED
      BY <1>23, <2>3, <3>1, <2>6 DEF MessageReady, SwitchToSend, Base, ContextFits,
         CallFits, Working
  <2> QED
    BY <2>3, <2>1, <2>2 DEF Base
<1>24. ASSUME NEW w \in Workers, MessageThrows(w) PROVE Base'
  <2>3. /\ pc' \in [Workers -> Places] /\ OneInside'
        /\ pc[w] = "ready" /\ pc'[w] = IF looping THEN "recv" ELSE "idle"
        /\ \A v \in Workers \ {w} : CallFits(v)'
    BY <1>24, Returned DEF MessageThrows, Places, Holding
  <2>4. response' \in AnswerType
    BY <1>24, AnswerIsOut DEF MessageThrows, Base, Shapes
  <2>1. Shapes'
    <3>1. PieceAsked' = PieceAsked
      BY <1>24 DEF MessageThrows, Troubled, PieceAsked
    <3> QED
      BY <1>24, <2>3, <2>4, <3>1 DEF MessageThrows, Troubled, Base, Shapes
  <2>2. ContextFits'
    <3>1. CallFits(w)'
      BY <1>24, <2>3 DEF MessageThrows, Troubled, Base, Shapes, ContextFits,
         CallFits, Working, Holding
    <3> QED
      BY <1>24, <2>3, <3>1 DEF MessageThrows, Troubled, Base, ContextFits, CallFits,
         Working
  <2> QED
    BY <2>3, <2>1, <2>2 DEF Base
<1>25. ASSUME NEW w \in Workers, NothingToSend(w), UNCHANGED <<calm, again>> PROVE Base'
  <2>3. /\ pc' \in [Workers -> Places] /\ OneInside'
        /\ pc[w] = "send" /\ pc'[w] = IF looping THEN "recv" ELSE "idle"
        /\ \A v \in Workers \ {w} : CallFits(v)'
    BY <1>25, Returned DEF NothingToSend, Places, Holding
  <2>1. Shapes'
    <3>1. PieceAsked' = PieceAsked
      BY <1>25 DEF NothingToSend, PieceAsked
    <3> QED
      BY <1>25, <2>3, <3>1 DEF NothingToSend, Base, Shapes
  <2>2. ContextFits'
    <3>1. CallFits(w)'
      BY <1>25, <2>3 DEF NothingToSend, Base, Shapes, ContextFits, CallFits,
         Working, Holding
    <3> QED
      BY <1>25, <2>3, <3>1 DEF NothingToSend, Base, ContextFits, CallFits, Working
  <2> QED
    BY <2>3, <2>1, <2>2 DEF Base
<1>26. ASSUME NEW w \in Workers, SendFails(w), UNCHANGED <<calm, again>> PROVE Base'
  <2>3. /\ pc' \in [Workers -> Places] /\ OneInside'
        /\ pc[w] = "send" /\ pc'[w] = IF looping THEN "recv" ELSE "idle"
        /\ \A v \in Workers \ {w} : CallFits(v)'
    BY <1>26, Returned DEF SendFails, Places, Holding
  <2>1. Shapes'
    <3>1. PieceAsked' = PieceAsked
      BY <1>26 DEF SendFails, PieceAsked
    <3> QED
      BY <1>26, <2>3, <3>1 DEF SendFails, Base, Shapes
  <2>2. ContextFits'
    <3>1. CallFits(w)'
      BY <1>26, <2>3 DEF SendFails, Base, Shapes, ContextFits, CallFits, Working,
         Holding
    <3> QED
      BY <1>26, <2>3, <3>1 DEF SendFails, Base, ContextFits, CallFits, Working
  <2> QED
    BY <2>3, <2>1, <2>2 DEF Base
<1>27. ASSUME NEW w \in Workers, SendPartly(w), UNCHANGED <<calm, again>> PROVE Base'
  <2>3. /\ pc' \in [Workers -> Places] /\ OneInside'
        /\ pc[w] = "send" /\ pc'[w] = IF looping THEN "recv" ELSE "idle"
        /\ \A v \in Workers \ {w} : CallFits(v)'
    BY <1>27, Returned DEF SendPartly, Places, Holding
  <2>4. outputBuffer \in Seq(AnswerPiece) /\ delivered \in Seq(AnswerPiece)
        /\ unread \in 0..SendBuffer /\ SendBuffer \in Nat
    BY HttpConnectionAssumption DEF Base, Shapes
  <2>9. Room \in 0..Len(outputBuffer) /\ Room + 1 <= Len(outputBuffer)
    BY <1>27, <2>4 DEF SendPartly
  <2>5. delivered' \in Seq(AnswerPiece) /\ unread' \in 0..SendBuffer
    <3>1. Take(outputBuffer, Room) \in Seq(AnswerPiece)
      BY <2>4, <2>9, TakeIsSeq
    <3>2. delivered' = delivered \o Take(outputBuffer, Room) /\ unread' = unread + Room
      BY <1>27 DEF SendPartly, Transmit
    <3>3. unread + Room = SendBuffer
      BY <2>4 DEF Room
    <3> QED
      BY <2>4, <3>1, <3>2, <3>3, ConcatProperties
  <2>6. outputBuffer' \in Seq(AnswerPiece) /\ outputBuffer' # <<>>
    BY <1>27, <2>4, <2>9, DropIsSeq DEF SendPartly
  <2>1. Shapes'
    <3>1. PieceAsked' = PieceAsked
      BY <1>27 DEF SendPartly, Transmit, PieceAsked
    <3> QED
      BY <1>27, <2>3, <3>1, <2>4, <2>5, <2>6 DEF SendPartly, Transmit, Base, Shapes
  <2>2. ContextFits'
    <3>1. CallFits(w)'
      BY <1>27, <2>3, <2>5, <2>6 DEF SendPartly, Transmit, Base, Shapes,
         ContextFits, CallFits, Working, Holding
    <3> QED
      BY <1>27, <2>3, <3>1, <2>5, <2>6 DEF SendPartly, Transmit, Base, ContextFits,
         CallFits, Working
  <2> QED
    BY <2>3, <2>1, <2>2 DEF Base
<1>28. ASSUME NEW w \in Workers, SendAll(w), UNCHANGED <<calm, again>> PROVE Base'
  <2>3. /\ pc' \in [Workers -> Places] /\ OneInside'
        /\ pc[w] = "send" /\ pc'[w] = "data"
        /\ \A v \in Workers \ {w} : CallFits(v)'
    BY <1>28, Moved DEF SendAll, Places, Holding
  <2>4. outputBuffer \in Seq(AnswerPiece) /\ delivered \in Seq(AnswerPiece)
        /\ unread \in 0..SendBuffer /\ SendBuffer \in Nat
    BY HttpConnectionAssumption DEF Base, Shapes
  <2>5. delivered' \in Seq(AnswerPiece) /\ unread' \in 0..SendBuffer
    <3>1. Len(outputBuffer) \in 0..Len(outputBuffer) /\ Len(outputBuffer) \in Nat
      BY <2>4
    <3>2. Take(outputBuffer, Len(outputBuffer)) \in Seq(AnswerPiece)
      BY <2>4, <3>1, TakeIsSeq
    <3>3. /\ delivered' = delivered \o Take(outputBuffer, Len(outputBuffer))
          /\ unread' = unread + Len(outputBuffer)
          /\ Len(outputBuffer) <= SendBuffer - unread
      BY <1>28, <2>4 DEF SendAll, SendRest, Transmit, Room
    <3> QED
      BY <2>4, <3>1, <3>2, <3>3, ConcatProperties
  <2>6. request' \in RequestShape /\ response' \in AnswerType /\ response' = NoAnswer
    BY <1>28, CleanIsRequest, NoAnswerIsAnswer DEF SendAll, SendRest, Base
  <2>1. Shapes'
    <3>1. PieceAsked' = PieceAsked
      BY <1>28 DEF SendAll, SendRest, PieceAsked
    <3> QED
      BY <1>28, <2>3, <3>1, <2>4, <2>5, <2>6 DEF SendAll, SendRest, Base, Shapes
  <2>2. ContextFits'
    <3>1. CallFits(w)'
      BY <1>28, <2>3, <2>4, <2>6 DEF SendAll, SendRest, Transmit, Base, Shapes,
         ContextFits, CallFits, Working, Holding
    <3> QED
      BY <1>28, <2>3, <3>1, <2>4, <2>6 DEF SendAll, SendRest, Transmit, Base, ContextFits,
         CallFits, Working
  <2> QED
    BY <2>3, <2>1, <2>2 DEF Base
<1>29. ASSUME NEW w \in Workers, SendAllAndClose(w), UNCHANGED <<calm, again>> PROVE Base'
  <2>3. /\ pc' \in [Workers -> Places] /\ OneInside'
        /\ pc[w] = "send" /\ pc'[w] = IF looping THEN "recv" ELSE "idle"
        /\ \A v \in Workers \ {w} : CallFits(v)'
    BY <1>29, Returned DEF SendAllAndClose, Places, Holding
  <2>4. outputBuffer \in Seq(AnswerPiece) /\ delivered \in Seq(AnswerPiece)
        /\ unread \in 0..SendBuffer /\ SendBuffer \in Nat
    BY HttpConnectionAssumption DEF Base, Shapes
  <2>5. delivered' \in Seq(AnswerPiece) /\ unread' \in 0..SendBuffer
    <3>1. Len(outputBuffer) \in 0..Len(outputBuffer) /\ Len(outputBuffer) \in Nat
      BY <2>4
    <3>2. Take(outputBuffer, Len(outputBuffer)) \in Seq(AnswerPiece)
      BY <2>4, <3>1, TakeIsSeq
    <3>3. /\ delivered' = delivered \o Take(outputBuffer, Len(outputBuffer))
          /\ unread' = unread + Len(outputBuffer)
          /\ Len(outputBuffer) <= SendBuffer - unread
      BY <1>29, <2>4 DEF SendAllAndClose, SendRest, Transmit, Room
    <3> QED
      BY <2>4, <3>1, <3>2, <3>3, ConcatProperties
  <2>6. request' \in RequestShape /\ response' \in AnswerType /\ response' = NoAnswer
    BY <1>29, CleanIsRequest, NoAnswerIsAnswer DEF SendAllAndClose, SendRest, Base
  <2>9. <<>> \in Seq(PieceAsked) /\ Len(<<>>) <= ReceiveBuffer
    BY HttpConnectionAssumption
  <2>1. Shapes'
    <3>1. PieceAsked' = PieceAsked
      BY <1>29 DEF SendAllAndClose, SendRest, PieceAsked
    <3>2. /\ edge' \in BOOLEAN /\ nospace' \in BOOLEAN /\ isOpen' \in BOOLEAN
          /\ keepAlive' \in BOOLEAN /\ looping' \in BOOLEAN /\ calm' \in BOOLEAN
      BY <1>29 DEF SendAllAndClose, SendRest, Base, Shapes
    <3>3. /\ outputBuffer' = <<>> /\ status' = "RECEIVE_HEADER" /\ inbox' = <<>>
          /\ UNCHANGED <<asked, unsent, inputBuffer, left, arg, again>>
      BY <1>29 DEF SendAllAndClose, SendRest
    <3> QED
      BY <2>3, <3>1, <3>2, <3>3, <2>4, <2>5, <2>6, <2>9 DEF Base, Shapes
  <2>2. ContextFits'
    <3>1. CallFits(w)'
      BY <1>29, <2>3, <2>4, <2>6 DEF SendAllAndClose, SendRest, Transmit, Base, Shapes,
         ContextFits, CallFits, Working, Holding
    <3> QED
      BY <1>29, <2>3, <3>1, <2>4, <2>6 DEF SendAllAndClose, SendRest, Transmit, Base,
         ContextFits, CallFits, Working
  <2> QED
    BY <2>3, <2>1, <2>2 DEF Base
<1>30. CASE UNCHANGED vars
  BY <1>30 DEF vars, Base, Shapes, OneInside, ContextFits, CallFits, PieceAsked,
     HeaderEnds
<1> QED
  BY <1>1, <1>2, <1>3, <1>4, <1>5, <1>6, <1>7, <1>8, <1>9, <1>10, <1>11, <1>12,
     <1>13, <1>14, <1>15, <1>16, <1>17, <1>18, <1>19, <1>20, <1>21, <1>22, <1>23,
     <1>24, <1>25, <1>26, <1>27, <1>28, <1>29, <1>30 DEF Next, ClientStep,
     WorkerStep
-----------------------------------------------------------------------------
(***************************************************************************)
(* What is in InputBuffer was looked at.  No header ends in what was there *)
(* before the last chunk; and when the functions of a handler are done     *)
(* with the chunk, there is too little to go on with.                      *)
(***************************************************************************)
TooLittle ==
  /\ status = "RECEIVE_HEADER" => HeaderEnds(0) = {}
  /\ status = "RECEIVE_BODY" => request.length > Len(inputBuffer)

Handled ==
  isOpen /\ calm =>
    /\ (\A w \in Workers : pc[w] \notin Working) => TooLittle
    /\ \A w \in Workers : pc[w] = "data" /\ status = "RECEIVE_HEADER" =>
         \A i \in HeaderEnds(0) : i + 2 > Len(inputBuffer) - arg

(* A step that leaves the buffer alone, and the functions that read it. *)
LEMMA HandledStays ==
  ASSUME Base, Handled, UNCHANGED <<inputBuffer, status, arg>>,
         isOpen' => isOpen, calm' => calm, request'.length = request.length,
         \A w \in Workers : pc'[w] \in Working \/ pc[w] \in Working => pc'[w] = pc[w]
  PROVE  Handled'
<1>1. HeaderEnds(0)' = HeaderEnds(0)
  BY DEF HeaderEnds
<1>2. (\A w \in Workers : pc'[w] \notin Working) => \A w \in Workers : pc[w] \notin Working
  OBVIOUS
<1>3. TooLittle' = TooLittle
  BY <1>1 DEF TooLittle
<1>4. \A w \in Workers : pc'[w] = "data" => pc[w] = "data"
  BY DEF Working
<1> QED
  BY <1>1, <1>2, <1>3, <1>4 DEF Handled

(* A chunk is appended: the ends that were not there lie in it. *)
LEMMA NewEnds ==
  ASSUME Base, NEW w \in Workers, Recv(w), HeaderEnds(0) = {},
         NEW i \in HeaderEnds(0)'
  PROVE  i + 2 > Len(inputBuffer') - arg'
<1> DEFINE bytes == IF Len(inbox) < Step THEN Len(inbox) ELSE Step
           chunk == Take(inbox, bytes)
<1>1. /\ inputBuffer \in Seq(PieceAsked) /\ inbox \in Seq(PieceAsked)
      /\ bytes \in 0..Len(inbox) /\ bytes \in Nat
  BY HttpConnectionAssumption DEF Base, Shapes
<1>2. inputBuffer' = inputBuffer \o chunk /\ arg' = bytes
  BY DEF Recv
<1> HIDE DEF bytes
<1>3. chunk \in Seq(PieceAsked) /\ Len(chunk) = bytes
  BY <1>1, TakeIsSeq
<1> HIDE DEF chunk
<1>4. /\ Len(inputBuffer') = Len(inputBuffer) + bytes
      /\ \A k \in 1..Len(inputBuffer) : inputBuffer'[k] = inputBuffer[k]
  <2>1. /\ Len(inputBuffer \o chunk) = Len(inputBuffer) + Len(chunk)
        /\ \A k \in 1..Len(inputBuffer) + Len(chunk) :
             (inputBuffer \o chunk)[k] = IF k <= Len(inputBuffer) THEN inputBuffer[k]
                                        ELSE chunk[k - Len(inputBuffer)]
    BY <1>1, <1>3, ConcatProperties
  <2>2. Len(inputBuffer) \in Nat
    BY <1>1
  <2> QED
    BY <1>1, <1>2, <1>3, <2>1, <2>2
<1>5. i \in Nat /\ inputBuffer'[i + 1].is = "end1" /\ inputBuffer'[i + 2].is = "end2"
  BY <1>1, <1>4 DEF HeaderEnds
<1>6. ASSUME i + 2 <= Len(inputBuffer) PROVE FALSE
  <2>1. i + 1 \in 1..Len(inputBuffer) /\ i + 2 \in 1..Len(inputBuffer)
    BY <1>1, <1>5, <1>6
  <2>2. i \in 0..Len(inputBuffer) - 2
    BY <1>1, <1>5, <1>6
  <2>3. i \in HeaderEnds(0)
    BY <1>4, <1>5, <2>1, <2>2 DEF HeaderEnds
  <2> QED
    BY <2>3
<1> QED
  BY <1>1, <1>2, <1>4, <1>5, <1>6

(* Searching from SearchFrom misses no end. *)
LEMMA SearchIsEnough ==
  ASSUME Base, Handled, isOpen, calm, NEW w \in Workers, pc[w] = "data",
         status = "RECEIVE_HEADER", HeaderEnds(SearchFrom(arg)) = {}
  PROVE  HeaderEnds(0) = {}
<1>1. /\ arg \in Nat /\ arg <= Len(inputBuffer) /\ Len(inputBuffer) \in Nat
      /\ SearchFrom(arg) = IF Len(inputBuffer) - arg > 2 THEN Len(inputBuffer) - arg - 2 ELSE 0
  BY DEF Base, Shapes, ContextFits, CallFits, SearchFrom
<1> HIDE DEF SearchFrom
<1>2. ASSUME NEW i \in HeaderEnds(0) PROVE FALSE
  <2>1. i + 2 > Len(inputBuffer) - arg
    BY DEF Handled
  <2>2. i \in Nat /\ i \in 0..Len(inputBuffer) - 2
    BY <1>1 DEF HeaderEnds
  <2>3. i \in SearchFrom(arg)..Len(inputBuffer) - 2
    BY <1>1, <2>1, <2>2
  <2>4. i \in HeaderEnds(SearchFrom(arg))
    BY <2>3 DEF HeaderEnds
  <2> QED
    BY <2>4
<1> QED
  BY <1>2

LEMMA HandledStep == Base /\ Handled /\ [Next]_vars => Handled'
<1> SUFFICES ASSUME Base, Handled, [Next]_vars PROVE Handled'
  OBVIOUS
<1> USE DEF network, context, call
<1>1. ASSUME NEW r \in Requests, Ask(r) PROVE Handled'
  BY <1>1, HandledStays DEF Ask
<1>2. CASE ClientSends
  BY <1>2, HandledStays DEF ClientSends
<1>3. CASE ClientReads
  BY <1>3, HandledStays DEF ClientReads
<1>4. ASSUME NEW w \in Workers, PollReceivable(w), UNCHANGED calm PROVE Handled'
  <2>1. \A v \in Workers : pc'[v] \in Working \/ pc[v] \in Working => pc'[v] = pc[v]
    BY <1>4, Waited DEF PollReceivable, Fetch, Places, Holding, Working
  <2> QED
    BY <1>4, <2>1, HandledStays DEF PollReceivable, Fetch
<1>5. ASSUME NEW w \in Workers, PollSendable(w), UNCHANGED calm PROVE Handled'
  <2>1. \A v \in Workers : pc'[v] \in Working \/ pc[v] \in Working => pc'[v] = pc[v]
    BY <1>5, Waited DEF PollSendable, Fetch, Places, Holding, Working
  <2> QED
    BY <1>5, <2>1, HandledStays DEF PollSendable, Fetch
<1>6. ASSUME NEW w \in Workers, PollNothing(w), UNCHANGED calm PROVE Handled'
  <2>1. \A v \in Workers : pc'[v] \in Working \/ pc[v] \in Working => pc'[v] = pc[v]
    BY <1>6, Waited DEF PollNothing, Fetch, Places, Holding, Working
  <2> QED
    BY <1>6, <2>1, HandledStays DEF PollNothing, Fetch
<1>7. ASSUME NEW w \in Workers, Receivable(w), UNCHANGED calm PROVE Handled'
  <2>1. \A v \in Workers : pc'[v] \in Working \/ pc[v] \in Working => pc'[v] = pc[v]
    BY <1>7, Moved DEF Receivable, Places, Holding, Working
  <2> QED
    BY <1>7, <2>1, HandledStays DEF Receivable
<1>8. ASSUME NEW w \in Workers, RecvEnds(w), UNCHANGED calm PROVE Handled'
  <2>1. \A v \in Workers : pc'[v] \in Working \/ pc[v] \in Working => pc'[v] = pc[v]
    BY <1>8, Moved DEF RecvEnds, Places, Holding, Working
  <2> QED
    BY <1>8, <2>1, HandledStays DEF RecvEnds
<1>9. ASSUME NEW w \in Workers, Sendable(w), UNCHANGED calm PROVE Handled'
  <2>1. \A v \in Workers : pc'[v] \in Working \/ pc[v] \in Working => pc'[v] = pc[v]
    BY <1>9, Moved DEF Sendable, Places, Holding, Working
  <2> QED
    BY <1>9, <2>1, HandledStays DEF Sendable
<1>10. ASSUME NEW w \in Workers, NothingToSend(w), UNCHANGED calm PROVE Handled'
  <2>1. \A v \in Workers : pc'[v] \in Working \/ pc[v] \in Working => pc'[v] = pc[v]
    BY <1>10, Returned DEF NothingToSend, Places, Holding, Working
  <2> QED
    BY <1>10, <2>1, HandledStays DEF NothingToSend
<1>11. ASSUME NEW w \in Workers, SendFails(w), UNCHANGED calm PROVE Handled'
  <2>1. \A v \in Workers : pc'[v] \in Working \/ pc[v] \in Working => pc'[v] = pc[v]
    BY <1>11, Returned DEF SendFails, Places, Holding, Working
  <2> QED
    BY <1>11, <2>1, HandledStays DEF SendFails
<1>12. ASSUME NEW w \in Workers, SendPartly(w), UNCHANGED calm PROVE Handled'
  <2>1. \A v \in Workers : pc'[v] \in Working \/ pc[v] \in Working => pc'[v] = pc[v]
    BY <1>12, Returned DEF SendPartly, Places, Holding, Working
  <2> QED
    BY <1>12, <2>1, HandledStays DEF SendPartly, Transmit
<1>13. ASSUME NEW w \in Workers, ReceivableTooSlowly(w) PROVE Handled'
  <2>1. ~calm'
    BY <1>13 DEF ReceivableTooSlowly, Troubled
  <2> QED
    BY <2>1 DEF Handled
<1>14. ASSUME NEW w \in Workers, MessageThrows(w) PROVE Handled'
  <2>1. ~calm'
    BY <1>14 DEF MessageThrows, Troubled
  <2> QED
    BY <2>1 DEF Handled
<1>15. ASSUME NEW w \in Workers, DataTooLong(w), UNCHANGED calm PROVE Handled'
  <2>1. status' = "SEND"
    BY <1>15 DEF DataTooLong, Refuse, SwitchToSend
  <2> QED
    BY <2>1 DEF Handled, TooLittle
<1>16. ASSUME NEW w \in Workers, HeaderInvalid(w), UNCHANGED calm PROVE Handled'
  <2>1. status' = "SEND"
    BY <1>16 DEF HeaderInvalid, Refuse, SwitchToSend
  <2> QED
    BY <2>1 DEF Handled, TooLittle
<1>17. ASSUME NEW w \in Workers, HeaderRefused(w), UNCHANGED calm PROVE Handled'
  <2>1. status' = "SEND"
    BY <1>17 DEF HeaderRefused, Refuse, SwitchToSend
  <2> QED
    BY <2>1 DEF Handled, TooLittle
<1>18. ASSUME NEW w \in Workers, BodyRefused(w), UNCHANGED calm PROVE Handled'
  <2>1. status' = "SEND"
    BY <1>18 DEF BodyRefused, SwitchToSend
  <2> QED
    BY <2>1 DEF Handled, TooLittle
<1>19. ASSUME NEW w \in Workers, MessageReady(w), UNCHANGED calm PROVE Handled'
  <2>1. status' = "SEND"
    BY <1>19 DEF MessageReady, SwitchToSend
  <2> QED
    BY <2>1 DEF Handled, TooLittle
<1>20. ASSUME NEW w \in Workers, DataEndsHeader(w), UNCHANGED calm PROVE Handled'
  <2>1. pc'[w] = "header" /\ \A v \in Workers \ {w} : pc'[v] = pc[v] /\ pc[v] \notin Holding
    BY <1>20, Moved DEF DataEndsHeader, Places, Holding
  <2> QED
    BY <2>1 DEF Handled, Working, Holding
<1>21. ASSUME NEW w \in Workers, DataEndsBody(w), UNCHANGED calm PROVE Handled'
  <2>1. pc'[w] = "body" /\ \A v \in Workers \ {w} : pc'[v] = pc[v] /\ pc[v] \notin Holding
    BY <1>21, Moved DEF DataEndsBody, Places, Holding
  <2> QED
    BY <2>1 DEF Handled, Working, Holding
<1>22. ASSUME NEW w \in Workers, HeaderAndBody(w), UNCHANGED calm PROVE Handled'
  <2>1. pc'[w] = "body" /\ \A v \in Workers \ {w} : pc'[v] = pc[v] /\ pc[v] \notin Holding
    BY <1>22, Moved DEF HeaderAndBody, Places, Holding
  <2> QED
    BY <2>1 DEF Handled, Working, Holding
<1>23. ASSUME NEW w \in Workers, HeaderOnly(w), UNCHANGED calm PROVE Handled'
  <2>1. pc'[w] = "ready" /\ \A v \in Workers \ {w} : pc'[v] = pc[v] /\ pc[v] \notin Holding
    BY <1>23, Moved DEF HeaderOnly, Places, Holding
  <2> QED
    BY <2>1 DEF Handled, Working, Holding
<1>24. ASSUME NEW w \in Workers, BodyHandled(w), UNCHANGED calm PROVE Handled'
  <2>1. pc'[w] = "ready" /\ \A v \in Workers \ {w} : pc'[v] = pc[v] /\ pc[v] \notin Holding
    BY <1>24, Moved DEF BodyHandled, Places, Holding
  <2> QED
    BY <2>1 DEF Handled, Working, Holding
<1>25. ASSUME NEW w \in Workers, Recv(w), UNCHANGED calm PROVE Handled'
  <2>1. /\ pc[w] = "recv" /\ pc'[w] = "data"
        /\ \A v \in Workers \ {w} : pc'[v] = pc[v] /\ pc[v] \notin Holding
    BY <1>25, Moved DEF Recv, Places, Holding
  <2>2. \A v \in Workers : pc[v] \notin Working
    BY <2>1 DEF Working, Holding
  <2>3. isOpen' = isOpen /\ status' = status
    BY <1>25 DEF Recv
  <2>4. ASSUME isOpen', calm', status' = "RECEIVE_HEADER", NEW i \in HeaderEnds(0)'
        PROVE  i + 2 > Len(inputBuffer') - arg'
    <3>1. HeaderEnds(0) = {}
      BY <1>25, <2>2, <2>3, <2>4 DEF Handled, TooLittle
    <3> QED
      BY <1>25, <2>4, <3>1, NewEnds
  <2> QED
    BY <2>1, <2>4 DEF Handled, Working
<1>26. ASSUME NEW w \in Workers, DataWaits(w), UNCHANGED calm PROVE Handled'
  <2>1. /\ pc[w] = "data" /\ pc'[w] \in {"recv", "idle"}
        /\ \A v \in Workers \ {w} : pc'[v] = pc[v] /\ pc[v] \notin Holding
    BY <1>26, Returned DEF DataWaits, Holding
  <2>2. UNCHANGED <<inputBuffer, status, request, isOpen>>
    BY <1>26 DEF DataWaits
  <2>3. ASSUME isOpen, calm PROVE TooLittle
    <3>1. CASE status = "SEND"
      BY <3>1 DEF TooLittle
    <3>2. CASE status = "RECEIVE_HEADER" /\ HeaderEnds(SearchFrom(arg)) = {}
      BY <2>1, <2>3, <3>2, SearchIsEnough DEF TooLittle
    <3>3. CASE status = "RECEIVE_BODY" /\ request.length > Len(inputBuffer)
      BY <3>3 DEF TooLittle
    <3> QED
      BY <1>26, <3>1, <3>2, <3>3 DEF DataWaits
  <2>4. TooLittle' = TooLittle
    BY <2>2 DEF TooLittle, HeaderEnds
  <2>5. \A v \in Workers : pc'[v] # "data"
    BY <2>1 DEF Holding
  <2> QED
    BY <1>26, <2>2, <2>3, <2>4, <2>5 DEF Handled
<1>27. ASSUME NEW w \in Workers, HeaderBeforeBody(w), UNCHANGED calm PROVE Handled'
  <2>1. /\ pc'[w] \in {"recv", "idle"}
        /\ \A v \in Workers \ {w} : pc'[v] = pc[v] /\ pc[v] \notin Holding
    BY <1>27, Returned DEF HeaderBeforeBody, Holding
  <2>2. status' = "RECEIVE_BODY" /\ request'.length > Len(inputBuffer')
    BY <1>27 DEF HeaderBeforeBody, HeaderAccepted, HeaderRead
  <2>3. \A v \in Workers : pc'[v] # "data"
    BY <2>1 DEF Holding
  <2> QED
    BY <2>2, <2>3 DEF Handled, TooLittle
<1>28. ASSUME NEW w \in Workers, SendAll(w), UNCHANGED calm PROVE Handled'
  <2>1. /\ pc'[w] = "data"
        /\ \A v \in Workers \ {w} : pc'[v] = pc[v] /\ pc[v] \notin Holding
    BY <1>28, Moved DEF SendAll, Places, Holding
  <2>2. arg' = Len(inputBuffer') /\ Len(inputBuffer') \in Nat
    BY <1>28 DEF SendAll, Base, Shapes
  <2>3. \A i \in HeaderEnds(0)' : i + 2 > Len(inputBuffer') - arg'
    BY <2>2 DEF HeaderEnds
  <2> QED
    BY <2>1, <2>3 DEF Handled, Working
<1>29. ASSUME NEW w \in Workers, SendAllAndClose(w), UNCHANGED calm PROVE Handled'
  <2>1. ~isOpen'
    BY <1>29 DEF SendAllAndClose
  <2> QED
    BY <2>1 DEF Handled
<1>30. CASE UNCHANGED vars
  BY <1>30, HandledStays DEF vars
<1> QED
  BY <1>1, <1>2, <1>3, <1>4, <1>5, <1>6, <1>7, <1>8, <1>9, <1>10, <1>11, <1>12,
     <1>13, <1>14, <1>15, <1>16, <1>17, <1>18, <1>19, <1>20, <1>21, <1>22, <1>23,
     <1>24, <1>25, <1>26, <1>27, <1>28, <1>29, <1>30 DEF Next, ClientStep,
     WorkerStep

-----------------------------------------------------------------------------
(***************************************************************************)
(* The receive loop: what is left in the kernel was announced since, or    *)
(* the iterations that are left are enough for it.                         *)
(***************************************************************************)
Watched ==
  isOpen /\ ~edge /\ (\A w \in Workers : pc[w] # "in") =>
    \/ inbox = <<>>
    \/ looping /\ Len(inbox) <= left * Step /\ \E w \in Workers : pc[w] \in Holding

(* Linux' limit for a receive buffer is below what the loop can read. *)
BufferFits == ReceiveBuffer <= RecvLimit * Step

(* A step that leaves the loop alone, and the events. *)
LEMMA WatchedStays ==
  ASSUME Base, Watched, UNCHANGED <<inbox, edge, looping, left>>, isOpen' => isOpen,
         (\A w \in Workers : pc'[w] # "in") => \A w \in Workers : pc[w] # "in",
         \/ inbox = <<>>
         \/ looping /\ (\E w \in Workers : pc[w] \in Holding) =>
              \E w \in Workers : pc'[w] \in Holding
  PROVE  Watched'
  BY DEF Watched

LEMMA WatchedStep == Base /\ Watched /\ BufferFits /\ [Next]_vars => Watched'
<1> SUFFICES ASSUME Base, Watched, BufferFits, [Next]_vars PROVE Watched'
  OBVIOUS
<1> USE DEF network, context, call
<1>1. ASSUME NEW r \in Requests, Ask(r) PROVE Watched'
  BY <1>1, WatchedStays DEF Ask
<1>2. CASE ClientSends
  BY <1>2 DEF ClientSends, Watched
<1>3. CASE ClientReads
  <2>1. ~edge' => ~edge
    BY <1>3 DEF ClientReads
  <2>2. UNCHANGED <<pc, inbox, looping, left, isOpen>>
    BY <1>3 DEF ClientReads
  <2> QED
    BY <2>1, <2>2 DEF Watched
<1>4. ASSUME NEW w \in Workers, PollReceivable(w) PROVE Watched'
  <2>1. pc'[w] = "in"
    BY <1>4, Waited DEF PollReceivable, Fetch, Places, Holding
  <2> QED
    BY <2>1 DEF Watched
<1>5. ASSUME NEW w \in Workers, PollSendable(w) PROVE Watched'
  BY <1>5 DEF PollSendable, Watched
<1>6. ASSUME NEW w \in Workers, PollNothing(w) PROVE Watched'
  BY <1>6 DEF PollNothing, Watched
<1>7. ASSUME NEW w \in Workers, Receivable(w) \/ ReceivableTooSlowly(w) PROVE Watched'
  <2>1. pc'[w] \in {"recv", "send"}
    BY <1>7, Moved DEF Receivable, ReceivableTooSlowly, Refuse, SwitchToSend,
       Places, Holding
  <2>2. looping' = TRUE /\ left' = RecvLimit /\ inbox' = inbox
    BY <1>7 DEF Receivable, ReceivableTooSlowly
  <2>3. Len(inbox) <= RecvLimit * Step
    <3>1. /\ Len(inbox) \in Nat /\ ReceiveBuffer \in Nat /\ Len(inbox) <= ReceiveBuffer
          /\ RecvLimit * Step \in Nat
      BY HttpConnectionAssumption, LimitIsNat DEF Base, Shapes
    <3> QED
      BY <3>1 DEF BufferFits
  <2> QED
    BY <2>1, <2>2, <2>3 DEF Watched, Holding
<1>8. ASSUME NEW w \in Workers, Recv(w) PROVE Watched'
  <2> DEFINE bytes == IF Len(inbox) < Step THEN Len(inbox) ELSE Step
  <2>1. /\ pc[w] = "recv" /\ pc'[w] = "data"
        /\ \A v \in Workers \ {w} : pc'[v] = pc[v]
    BY <1>8, Moved DEF Recv, Places, Holding
  <2>2. /\ inbox' = Drop(inbox, bytes) /\ inbox # <<>>
        /\ left' = left - 1 /\ left > 0
        /\ UNCHANGED <<isOpen, edge, looping>>
    BY <1>8 DEF Recv
  <2>3. /\ inbox \in Seq(PieceAsked) /\ Len(inbox) \in Nat /\ left \in Nat
        /\ Step \in Nat \ {0} /\ bytes \in 0..Len(inbox)
    BY HttpConnectionAssumption, LimitIsNat DEF Base, Shapes
  <2>4. Len(inbox') = Len(inbox) - bytes
    BY <2>2, <2>3, DropIsSeq
  <2>5. ASSUME Len(inbox) <= left * Step PROVE Len(inbox') <= left' * Step
    <3>1. left' \in Nat
      BY <2>2, <2>3
    <3>2. left' * Step \in Nat /\ left * Step = left' * Step + Step
      BY <2>2, <2>3, <3>1
    <3> DEFINE p == left' * Step
               q == left * Step
    <3> HIDE DEF p, q
    <3>3. p \in Nat /\ q = p + Step /\ Len(inbox) <= q
      BY <2>5, <3>2 DEF p, q
    <3>4. Len(inbox') <= p
      BY <2>3, <2>4, <3>3
    <3> QED
      BY <3>4 DEF p
  <2> QED
    BY <2>1, <2>2, <2>5 DEF Watched, Holding
<1>9. ASSUME NEW w \in Workers, RecvEnds(w) PROVE Watched'
  <2>1. \A v \in Workers : pc'[v] # "in" => pc[v] # "in"
    BY <1>9, Moved DEF RecvEnds, Places, Holding
  <2>2. UNCHANGED <<isOpen, edge, inbox>> /\ (left = 0 \/ ~isOpen \/ inbox = <<>>)
    BY <1>9 DEF RecvEnds
  <2>3. ASSUME Len(inbox) <= 0 * Step PROVE inbox = <<>>
    <3>1. Step \in Nat /\ inbox \in Seq(PieceAsked)
      BY HttpConnectionAssumption DEF Base, Shapes
    <3>2. 0 * Step = 0
      BY <3>1
    <3>3. Len(inbox) = 0
      BY <2>3, <3>1, <3>2
    <3> QED
      BY <3>1, <3>3, EmptySeq
  <2> QED
    BY <2>1, <2>2, <2>3 DEF Watched
<1>10. ASSUME NEW w \in Workers, Sendable(w) PROVE Watched'
  <2>1. \A v \in Workers : pc'[v] # "in" => pc[v] # "in"
    BY <1>10, Moved DEF Sendable, Places, Holding
  <2>2. \A v \in Workers : pc[v] \notin Holding
    BY <1>10 DEF Sendable, MutexFree, Holding
  <2>3. UNCHANGED <<isOpen, edge, inbox>>
    BY <1>10 DEF Sendable
  <2> QED
    BY <2>1, <2>2, <2>3 DEF Watched
<1>11. ASSUME NEW w \in Workers, DataEndsHeader(w) PROVE Watched'
  <2>1. pc'[w] = "header" /\ \A v \in Workers \ {w} : pc'[v] = pc[v]
    BY <1>11, Moved DEF DataEndsHeader, Places, Holding
  <2>2. pc[w] \in Holding /\ pc'[w] \in Holding /\ pc[w] # "in"
    BY <1>11, <2>1 DEF DataEndsHeader, Goto, Holding
  <2> QED
    BY <1>11, <2>1, <2>2, WatchedStays DEF DataEndsHeader
<1>12. ASSUME NEW w \in Workers, DataTooLong(w) PROVE Watched'
  <2>1. pc'[w] = "send" /\ \A v \in Workers \ {w} : pc'[v] = pc[v]
    BY <1>12, Moved DEF DataTooLong, Refuse, SwitchToSend, Places, Holding
  <2>2. pc[w] \in Holding /\ pc'[w] \in Holding /\ pc[w] # "in"
    BY <1>12, <2>1 DEF DataTooLong, Refuse, SwitchToSend, Goto, Holding
  <2> QED
    BY <1>12, <2>1, <2>2, WatchedStays DEF DataTooLong
<1>13. ASSUME NEW w \in Workers, DataEndsBody(w) PROVE Watched'
  <2>1. pc'[w] = "body" /\ \A v \in Workers \ {w} : pc'[v] = pc[v]
    BY <1>13, Moved DEF DataEndsBody, Places, Holding
  <2>2. pc[w] \in Holding /\ pc'[w] \in Holding /\ pc[w] # "in"
    BY <1>13, <2>1 DEF DataEndsBody, Goto, Holding
  <2> QED
    BY <1>13, <2>1, <2>2, WatchedStays DEF DataEndsBody
<1>14. ASSUME NEW w \in Workers, HeaderInvalid(w) PROVE Watched'
  <2>1. pc'[w] = "send" /\ \A v \in Workers \ {w} : pc'[v] = pc[v]
    BY <1>14, Moved DEF HeaderInvalid, Refuse, SwitchToSend, Places, Holding
  <2>2. pc[w] \in Holding /\ pc'[w] \in Holding /\ pc[w] # "in"
    BY <1>14, <2>1 DEF HeaderInvalid, Refuse, SwitchToSend, Goto, Holding
  <2> QED
    BY <1>14, <2>1, <2>2, WatchedStays DEF HeaderInvalid
<1>15. ASSUME NEW w \in Workers, HeaderRefused(w) PROVE Watched'
  <2>1. pc'[w] = "send" /\ \A v \in Workers \ {w} : pc'[v] = pc[v]
    BY <1>15, Moved DEF HeaderRefused, Refuse, SwitchToSend, Places, Holding
  <2>2. pc[w] \in Holding /\ pc'[w] \in Holding /\ pc[w] # "in"
    BY <1>15, <2>1 DEF HeaderRefused, Refuse, SwitchToSend, Goto, Holding
  <2> QED
    BY <1>15, <2>1, <2>2, WatchedStays DEF HeaderRefused
<1>16. ASSUME NEW w \in Workers, HeaderAndBody(w) PROVE Watched'
  <2>1. pc'[w] = "body" /\ \A v \in Workers \ {w} : pc'[v] = pc[v]
    BY <1>16, Moved DEF HeaderAndBody, Places, Holding
  <2>2. pc[w] \in Holding /\ pc'[w] \in Holding /\ pc[w] # "in"
    BY <1>16, <2>1 DEF HeaderAndBody, Goto, Holding
  <2> QED
    BY <1>16, <2>1, <2>2, WatchedStays DEF HeaderAndBody
<1>17. ASSUME NEW w \in Workers, HeaderOnly(w) PROVE Watched'
  <2>1. pc'[w] = "ready" /\ \A v \in Workers \ {w} : pc'[v] = pc[v]
    BY <1>17, Moved DEF HeaderOnly, Places, Holding
  <2>2. pc[w] \in Holding /\ pc'[w] \in Holding /\ pc[w] # "in"
    BY <1>17, <2>1 DEF HeaderOnly, Goto, Holding
  <2> QED
    BY <1>17, <2>1, <2>2, WatchedStays DEF HeaderOnly
<1>18. ASSUME NEW w \in Workers, BodyRefused(w) PROVE Watched'
  <2>1. pc'[w] = "send" /\ \A v \in Workers \ {w} : pc'[v] = pc[v]
    BY <1>18, Moved DEF BodyRefused, SwitchToSend, Places, Holding
  <2>2. pc[w] \in Holding /\ pc'[w] \in Holding /\ pc[w] # "in"
    BY <1>18, <2>1 DEF BodyRefused, SwitchToSend, Goto, Holding
  <2> QED
    BY <1>18, <2>1, <2>2, WatchedStays DEF BodyRefused
<1>19. ASSUME NEW w \in Workers, BodyHandled(w) PROVE Watched'
  <2>1. pc'[w] = "ready" /\ \A v \in Workers \ {w} : pc'[v] = pc[v]
    BY <1>19, Moved DEF BodyHandled, Places, Holding
  <2>2. pc[w] \in Holding /\ pc'[w] \in Holding /\ pc[w] # "in"
    BY <1>19, <2>1 DEF BodyHandled, Goto, Holding
  <2> QED
    BY <1>19, <2>1, <2>2, WatchedStays DEF BodyHandled
<1>20. ASSUME NEW w \in Workers, MessageReady(w) PROVE Watched'
  <2>1. pc'[w] = "send" /\ \A v \in Workers \ {w} : pc'[v] = pc[v]
    BY <1>20, Moved DEF MessageReady, SwitchToSend, Places, Holding
  <2>2. pc[w] \in Holding /\ pc'[w] \in Holding /\ pc[w] # "in"
    BY <1>20, <2>1 DEF MessageReady, SwitchToSend, Goto, Holding
  <2> QED
    BY <1>20, <2>1, <2>2, WatchedStays DEF MessageReady
<1>21. ASSUME NEW w \in Workers, SendAll(w) PROVE Watched'
  <2>1. pc'[w] = "data" /\ \A v \in Workers \ {w} : pc'[v] = pc[v]
    BY <1>21, Moved DEF SendAll, Places, Holding
  <2>2. pc[w] \in Holding /\ pc'[w] \in Holding /\ pc[w] # "in"
    BY <1>21, <2>1 DEF SendAll, Goto, Holding
  <2> QED
    BY <1>21, <2>1, <2>2, WatchedStays DEF SendAll, SendRest, Transmit
<1>22. ASSUME NEW w \in Workers, DataWaits(w) PROVE Watched'
  <2>1. /\ pc[w] # "in" /\ pc'[w] = IF looping THEN "recv" ELSE "idle"
        /\ \A v \in Workers \ {w} : pc'[v] = pc[v]
    BY <1>22, Returned DEF DataWaits, Holding
  <2>2. looping => pc'[w] \in Holding
    BY <2>1 DEF Holding
  <2> QED
    BY <1>22, <2>1, <2>2, WatchedStays DEF DataWaits
<1>23. ASSUME NEW w \in Workers, HeaderBeforeBody(w) PROVE Watched'
  <2>1. /\ pc[w] # "in" /\ pc'[w] = IF looping THEN "recv" ELSE "idle"
        /\ \A v \in Workers \ {w} : pc'[v] = pc[v]
    BY <1>23, Returned DEF HeaderBeforeBody, Holding
  <2>2. looping => pc'[w] \in Holding
    BY <2>1 DEF Holding
  <2> QED
    BY <1>23, <2>1, <2>2, WatchedStays DEF HeaderBeforeBody
<1>24. ASSUME NEW w \in Workers, MessageThrows(w) PROVE Watched'
  <2>1. /\ pc[w] # "in" /\ pc'[w] = IF looping THEN "recv" ELSE "idle"
        /\ \A v \in Workers \ {w} : pc'[v] = pc[v]
    BY <1>24, Returned DEF MessageThrows, Holding
  <2>2. looping => pc'[w] \in Holding
    BY <2>1 DEF Holding
  <2> QED
    BY <1>24, <2>1, <2>2, WatchedStays DEF MessageThrows
<1>25. ASSUME NEW w \in Workers, NothingToSend(w) PROVE Watched'
  <2>1. /\ pc[w] # "in" /\ pc'[w] = IF looping THEN "recv" ELSE "idle"
        /\ \A v \in Workers \ {w} : pc'[v] = pc[v]
    BY <1>25, Returned DEF NothingToSend, Holding
  <2>2. looping => pc'[w] \in Holding
    BY <2>1 DEF Holding
  <2> QED
    BY <1>25, <2>1, <2>2, WatchedStays DEF NothingToSend
<1>26. ASSUME NEW w \in Workers, SendFails(w) PROVE Watched'
  <2>1. /\ pc[w] # "in" /\ pc'[w] = IF looping THEN "recv" ELSE "idle"
        /\ \A v \in Workers \ {w} : pc'[v] = pc[v]
    BY <1>26, Returned DEF SendFails, Holding
  <2>2. looping => pc'[w] \in Holding
    BY <2>1 DEF Holding
  <2> QED
    BY <1>26, <2>1, <2>2, WatchedStays DEF SendFails
<1>27. ASSUME NEW w \in Workers, SendPartly(w) PROVE Watched'
  <2>1. /\ pc[w] # "in" /\ pc'[w] = IF looping THEN "recv" ELSE "idle"
        /\ \A v \in Workers \ {w} : pc'[v] = pc[v]
    BY <1>27, Returned DEF SendPartly, Holding
  <2>2. looping => pc'[w] \in Holding
    BY <2>1 DEF Holding
  <2> QED
    BY <1>27, <2>1, <2>2, WatchedStays DEF SendPartly, Transmit
<1>28. ASSUME NEW w \in Workers, SendAllAndClose(w) PROVE Watched'
  BY <1>28 DEF SendAllAndClose, Watched
<1>29. CASE UNCHANGED vars
  BY <1>29, WatchedStays DEF vars
<1> QED
  BY <1>1, <1>2, <1>3, <1>4, <1>5, <1>6, <1>7, <1>8, <1>9, <1>10, <1>11, <1>12,
     <1>13, <1>14, <1>15, <1>16, <1>17, <1>18, <1>19, <1>20, <1>21, <1>22, <1>23,
     <1>24, <1>25, <1>26, <1>27, <1>28, <1>29 DEF Next, ClientStep, WorkerStep

-----------------------------------------------------------------------------
(***************************************************************************)
(* The order of the requests.  What is still to be read of the stream      *)
(* comes in the order of the requests, each with its header in front.      *)
(***************************************************************************)
Coming == inputBuffer \o inbox \o unsent

InOrder(s) ==
  \A i, j \in 1..Len(s) : i < j =>
    /\ s[i].of <= s[j].of
    /\ s[i].is # "head" /\ s[j].is = "head" => s[i].of < s[j].of

(* The requests whose headers are still to be read, *)
Heads(s) == {s[i].of : i \in {k \in 1..Len(s) : s[k].is = "head"}}

(* all that is or will be sent, *)
Sent == delivered \o outputBuffer

(* and the requests that it answers. *)
IsAnswer(piece) == piece.answer.to # 0
Answers(s) == {s[i].answer.to : i \in {k \in 1..Len(s) : IsAnswer(s[k])}}

(* Each is answered once, but for request n. *)
Once(s, n) ==
  \A i, j \in 1..Len(s) : i < j /\ IsAnswer(s[i]) /\ IsAnswer(s[j]) =>
    \/ s[i].answer.to < s[j].answer.to
    \/ s[i].answer = s[j].answer /\ s[i].part < s[j].part
    \/ s[i].answer.to = n /\ s[j].answer.to = n

(***************************************************************************)
(* What was answered lies before the request at work, and that before all  *)
(* that are still to be read.                                              *)
(***************************************************************************)
AnswersFirst ==
  /\ \A h \in Heads(Coming) :
       request.number < h /\ \A a \in Answers(Sent) : a < h
  /\ status # "SEND" /\ request.number # 0 =>
       \A a \in Answers(Sent) : a < request.number

Counted ==
  /\ request.number <= Len(asked)
  /\ \A a \in Answers(Sent) : a <= Len(asked)

(***************************************************************************)
(* The response that is set may be older than the request at work, if a    *)
(* handler threw; but what it answers was not answered before.             *)
(***************************************************************************)
PendingIsLast ==
  /\ response.to <= request.number
  /\ ~isOpen => response.to = 0
  /\ response.to # 0 => \A a \in Answers(Sent) : a <= response.to
  /\ response.to # 0 /\ status # "SEND" => \A a \in Answers(Sent) : a < response.to

(* What a timeout has written again is the last response. *)
AgainIsLast ==
  again # 0 =>
    /\ ~keepAlive
    /\ \A a \in Answers(Sent) : a <= again
    /\ isOpen => status = "SEND" /\ response.to = again

Ordered ==
  /\ Once(Sent, again)
  /\ PendingIsLast
  /\ AgainIsLast
  /\ isOpen => InOrder(Coming) /\ AnswersFirst /\ Counted

-----------------------------------------------------------------------------
(* Such sequences when they are cut and put together *)

LEMMA DropKeepsOrder ==
  ASSUME NEW P, NEW s \in Seq(P), NEW k \in 0..Len(s), InOrder(s)
  PROVE  /\ InOrder(Drop(s, k))
         /\ Heads(Drop(s, k)) \subseteq Heads(s)
<1> DEFINE t == Drop(s, k)
<1>1. /\ Len(t) = Len(s) - k /\ Len(s) \in Nat
      /\ \A i \in 1..Len(s) - k : t[i] = s[k + i]
  <2>1. Len(s) \in Nat
    OBVIOUS
  <2>2. Len(t) = Len(s) - k /\ \A i \in 1..Len(s) - k : t[i] = s[k + i]
    BY DropIsSeq, Zenon
  <2> QED
    BY <2>1, <2>2
<1> HIDE DEF t
<1>2. \A i \in 1..Len(t) : t[i] = s[k + i] /\ k + i \in 1..Len(s)
  BY <1>1
<1>3. InOrder(t)
  <2>1. ASSUME NEW i \in 1..Len(t), NEW j \in 1..Len(t), i < j
        PROVE  /\ t[i].of <= t[j].of
               /\ t[i].is # "head" /\ t[j].is = "head" => t[i].of < t[j].of
    <3>1. k + i < k + j
      BY <1>1, <2>1
    <3> QED
      BY <1>2, <2>1, <3>1 DEF InOrder
  <2> QED
    BY <2>1 DEF InOrder
<1>4. Heads(t) \subseteq Heads(s)
  BY <1>2 DEF Heads
<1> QED
  BY <1>3, <1>4 DEF t

(* Whatever is behind the end of a header belongs to later requests. *)
LEMMA HeadsBehindEnd ==
  ASSUME NEW n \in Nat, NEW s \in Seq([of : 1..n, is : {"head", "end1", "end2", "body"}]),
         InOrder(s), NEW e \in 1..Len(s), s[e].is = "end1",
         NEW k \in e..Len(s), NEW h \in Heads(Drop(s, k))
  PROVE  s[1].of < h
<1> DEFINE t == Drop(s, k)
<1>1. k \in 0..Len(s) /\ Len(s) \in Nat
  OBVIOUS
<1>2. /\ Len(t) = Len(s) - k
      /\ \A i \in 1..Len(s) - k : t[i] = s[k + i]
  BY <1>1, DropIsSeq
<1> HIDE DEF t
<1>3. PICK i \in 1..Len(t) : h = t[i].of /\ t[i].is = "head"
  BY DEF Heads, t
<1>4. k + i \in 1..Len(s) /\ e < k + i /\ t[i] = s[k + i]
  BY <1>1, <1>2, <1>3
<1>5. s[e].of < h
  BY <1>3, <1>4 DEF InOrder
<1>6. 1 \in 1..Len(s) /\ s[1].of \in Nat /\ s[e].of \in Nat /\ s[k + i].of \in Nat
  <2>1. 1 \in 1..Len(s)
    BY <1>1
  <2>2. \A j \in 1..Len(s) : s[j] \in [of : 1..n, is : {"head", "end1", "end2", "body"}]
    BY ElementOfSeq
  <2> QED
    BY <1>4, <2>1, <2>2
<1>7. s[1].of <= s[e].of
  <2>1. CASE e = 1
    BY <1>6, <2>1
  <2>2. CASE 1 < e
    BY <1>6, <2>2 DEF InOrder
  <2> QED
    BY <2>1, <2>2
<1>8. h = s[k + i].of
  BY <1>3, <1>4
<1> DEFINE x == s[1].of
           y == s[e].of
           z == s[k + i].of
<1>9. x \in Nat /\ y \in Nat /\ z \in Nat /\ x <= y /\ y < z /\ h = z
  <2>1. y < z
    BY <1>5, <1>8
  <2> QED
    BY ONLY <1>6, <1>7, <1>8, <2>1
<1> HIDE DEF x, y, z
<1>10. x < h
  BY ONLY <1>9
<1> QED
  BY <1>10 DEF x

(* A new request is put behind the others. *)
LEMMA StreamKeepsOrder ==
  ASSUME NEW n \in Nat, NEW r \in Requests,
         NEW s \in Seq([of : 1..n, is : {"head", "end1", "end2", "body"}]), InOrder(s)
  PROVE  /\ InOrder(s \o Stream(n + 1, r))
         /\ Heads(s \o Stream(n + 1, r)) \subseteq Heads(s) \cup {n + 1}
<1> DEFINE P == [of : 1..n + 1, is : {"head", "end1", "end2", "body"}]
           t == Stream(n + 1, r)
           u == s \o t
<1>1. /\ t \in Seq(P)
      /\ \A i \in 1..Len(t) : t[i].of = n + 1
      /\ \A i, j \in 1..Len(t) : i < j /\ t[j].is = "head" => t[i].is = "head"
  <2>1. n + 1 \in Nat \ {0}
    OBVIOUS
  <2> QED
    BY <2>1, StreamIsSeq
<1>2. s \in Seq(P) /\ \A i \in 1..Len(s) : s[i].of \in 1..n
  <2>1. [of : 1..n, is : {"head", "end1", "end2", "body"}] \subseteq P
    OBVIOUS
  <2>2. s \in Seq(P)
    BY <2>1, SeqMonotonic
  <2>3. \A i \in 1..Len(s) : s[i] \in [of : 1..n, is : {"head", "end1", "end2", "body"}]
    BY ElementOfSeq
  <2> QED
    BY <2>2, <2>3
<1> HIDE DEF P, t
<1>3. /\ Len(u) = Len(s) + Len(t) /\ Len(s) \in Nat /\ Len(t) \in Nat
      /\ \A i \in 1..Len(s) + Len(t) : u[i] = IF i <= Len(s) THEN s[i] ELSE t[i - Len(s)]
  BY <1>1, <1>2, ConcatProperties
<1> HIDE DEF u
<1>4. ASSUME NEW i \in 1..Len(u)
      PROVE  \/ i \in 1..Len(s) /\ u[i] = s[i] /\ u[i].of \in 1..n
             \/ /\ i > Len(s) /\ i - Len(s) \in 1..Len(t)
                /\ u[i] = t[i - Len(s)] /\ u[i].of = n + 1
  <2>1. CASE i <= Len(s)
    BY <1>2, <1>3, <2>1
  <2>2. CASE i > Len(s)
    BY <1>1, <1>3, <2>2
  <2> QED
    BY <1>3, <2>1, <2>2
<1>5. ASSUME NEW i \in 1..Len(u), NEW j \in 1..Len(u), i < j
      PROVE  /\ u[i].of <= u[j].of
             /\ u[i].is # "head" /\ u[j].is = "head" => u[i].of < u[j].of
  <2>1. CASE j <= Len(s)
    <3>1. i \in 1..Len(s) /\ j \in 1..Len(s) /\ u[i] = s[i] /\ u[j] = s[j]
      BY <1>3, <1>4, <1>5, <2>1
    <3> QED
      BY <1>5, <3>1 DEF InOrder
  <2>2. CASE i <= Len(s) /\ j > Len(s)
    <3>1. u[i].of \in 1..n /\ u[j].of = n + 1
      BY <1>3, <1>4, <2>2
    <3> QED
      BY <3>1
  <2>3. CASE i > Len(s)
    <3>1. /\ i - Len(s) \in 1..Len(t) /\ j - Len(s) \in 1..Len(t)
          /\ u[i] = t[i - Len(s)] /\ u[j] = t[j - Len(s)]
          /\ u[i].of = n + 1 /\ u[j].of = n + 1
      BY <1>3, <1>4, <1>5, <2>3
    <3>2. i - Len(s) < j - Len(s)
      BY <1>3, <1>5
    <3>3. u[j].is = "head" => u[i].is = "head"
      BY <1>1, <3>1, <3>2
    <3> QED
      BY <3>1, <3>3
  <2> QED
    BY <1>3, <2>1, <2>2, <2>3
<1>6. InOrder(u)
  BY <1>5 DEF InOrder
<1>7. Heads(u) \subseteq Heads(s) \cup {n + 1}
  <2>1. ASSUME NEW i \in 1..Len(u), u[i].is = "head"
        PROVE  u[i].of \in Heads(s) \cup {n + 1}
    BY <1>4, <2>1 DEF Heads
  <2> QED
    BY <2>1 DEF Heads
<1> QED
  BY <1>6, <1>7 DEF u, t

(* What is sent, when a response is put into OutputBuffer. *)
LEMMA AnswersOfBoth ==
  ASSUME NEW d \in Seq(AnswerPiece), NEW e \in Seq(AnswerPiece), NEW n
  PROVE  /\ Answers(d \o e) = Answers(d) \cup Answers(e)
         /\ Once(d \o e, n) => Once(d, n)
         /\ /\ Once(d, n) /\ Once(e, n)
            /\ \A a \in Answers(d), b \in Answers(e) : a < b \/ (a = n /\ b = n)
            => Once(d \o e, n)
<1> DEFINE u == d \o e
<1>1. /\ Len(u) = Len(d) + Len(e) /\ Len(d) \in Nat /\ Len(e) \in Nat
      /\ \A i \in 1..Len(d) + Len(e) : u[i] = IF i <= Len(d) THEN d[i] ELSE e[i - Len(d)]
  BY ConcatProperties
<1> HIDE DEF u
<1>2. \A i \in 1..Len(d) : i \in 1..Len(u) /\ u[i] = d[i]
  BY <1>1
<1>3. \A i \in 1..Len(e) : i + Len(d) \in 1..Len(u) /\ u[i + Len(d)] = e[i]
  BY <1>1
<1>4. \A i \in 1..Len(u) :
        \/ i \in 1..Len(d) /\ u[i] = d[i]
        \/ i > Len(d) /\ i - Len(d) \in 1..Len(e) /\ u[i] = e[i - Len(d)]
  BY <1>1
<1>5. Answers(u) = Answers(d) \cup Answers(e)
  <2>1. Answers(u) \subseteq Answers(d) \cup Answers(e)
    BY <1>4 DEF Answers
  <2>2. Answers(d) \subseteq Answers(u)
    BY <1>2 DEF Answers
  <2>3. Answers(e) \subseteq Answers(u)
    BY <1>3 DEF Answers
  <2> QED
    BY <2>1, <2>2, <2>3
<1>6. Once(u, n) => Once(d, n)
  BY <1>2 DEF Once
<1>7. ASSUME Once(d, n), Once(e, n),
             \A a \in Answers(d), b \in Answers(e) : a < b \/ (a = n /\ b = n)
      PROVE  Once(u, n)
  <2>1. ASSUME NEW i \in 1..Len(u), NEW j \in 1..Len(u),
               i < j, IsAnswer(u[i]), IsAnswer(u[j])
        PROVE  \/ u[i].answer.to < u[j].answer.to
               \/ u[i].answer = u[j].answer /\ u[i].part < u[j].part
               \/ u[i].answer.to = n /\ u[j].answer.to = n
    <3>1. CASE j <= Len(d)
      <4>1. i \in 1..Len(d) /\ j \in 1..Len(d) /\ u[i] = d[i] /\ u[j] = d[j]
        BY <1>1, <1>2, <2>1, <3>1
      <4> QED
        BY <1>7, <2>1, <4>1 DEF Once
    <3>2. CASE i <= Len(d) /\ j > Len(d)
      <4>1. /\ i \in 1..Len(d) /\ u[i] = d[i]
            /\ j - Len(d) \in 1..Len(e) /\ u[j] = e[j - Len(d)]
        BY <1>1, <1>4, <3>2
      <4>2. u[i].answer.to \in Answers(d) /\ u[j].answer.to \in Answers(e)
        BY <2>1, <4>1 DEF Answers
      <4> QED
        BY <1>7, <4>2
    <3>3. CASE i > Len(d)
      <4>1. /\ i - Len(d) \in 1..Len(e) /\ u[i] = e[i - Len(d)]
            /\ j - Len(d) \in 1..Len(e) /\ u[j] = e[j - Len(d)]
            /\ i - Len(d) < j - Len(d)
        BY <1>1, <1>4, <2>1, <3>3
      <4> QED
        BY <1>7, <2>1, <4>1 DEF Once
    <3> QED
      BY <1>1, <3>1, <3>2, <3>3
  <2> QED
    BY <2>1 DEF Once
<1> QED
  BY <1>5, <1>6, <1>7 DEF u

(* A response answers one request, or nobody. *)
LEMMA TextAnswersOnce ==
  ASSUME NEW answer \in AnswerType, NEW n
  PROVE  /\ Answers(GetResponseText(answer)) = {answer.to} \ {0}
         /\ Once(GetResponseText(answer), n)
<1> DEFINE e == GetResponseText(answer)
<1>1. /\ Len(e) = ResponseLength /\ ResponseLength \in Nat \ {0}
      /\ \A i \in 1..ResponseLength : e[i] = [answer |-> answer, part |-> i]
  BY TextIsOut, HttpConnectionAssumption
<1> HIDE DEF e
<1>2. \A i \in 1..Len(e) : e[i].answer = answer /\ e[i].part = i
  BY <1>1
<1>3. Answers(e) = {answer.to} \ {0}
  <2>1. 1 \in 1..Len(e)
    BY <1>1
  <2> QED
    BY <1>2, <2>1 DEF Answers, IsAnswer
<1>4. Once(e, n)
  BY <1>2 DEF Once
<1> QED
  BY <1>3, <1>4 DEF e

(* If no request was to be answered again, any may be. *)
LEMMA OnceIsOnce ==
  ASSUME NEW s, Once(s, 0), NEW n
  PROVE  Once(s, n)
  BY DEF Once, IsAnswer

-----------------------------------------------------------------------------
(* The stream and what is sent of it, in each step *)

LEMMA ComingIsSeq ==
  ASSUME Base
  PROVE  /\ Coming \in Seq(PieceAsked)
         /\ Len(Coming) = Len(inputBuffer) + Len(inbox) + Len(unsent)
         /\ \A i \in 1..Len(inputBuffer) : Coming[i] = inputBuffer[i]
         /\ Heads(Coming) \subseteq 1..Len(asked)
<1> DEFINE b == inputBuffer \o inbox
<1>1. /\ inputBuffer \in Seq(PieceAsked) /\ inbox \in Seq(PieceAsked)
      /\ unsent \in Seq(PieceAsked)
  BY DEF Base, Shapes
<1>2. /\ b \in Seq(PieceAsked) /\ Len(b) = Len(inputBuffer) + Len(inbox)
      /\ \A i \in 1..Len(inputBuffer) + Len(inbox) :
           b[i] = IF i <= Len(inputBuffer) THEN inputBuffer[i]
                  ELSE inbox[i - Len(inputBuffer)]
  BY <1>1, ConcatProperties
<1>3. Coming = b \o unsent
  BY DEF Coming
<1> HIDE DEF b
<1>4. /\ Coming \in Seq(PieceAsked) /\ Len(Coming) = Len(b) + Len(unsent)
      /\ \A i \in 1..Len(b) + Len(unsent) :
           Coming[i] = IF i <= Len(b) THEN b[i] ELSE unsent[i - Len(b)]
  <2>1. /\ b \o unsent \in Seq(PieceAsked) /\ Len(b \o unsent) = Len(b) + Len(unsent)
        /\ \A i \in 1..Len(b) + Len(unsent) :
             (b \o unsent)[i] = IF i <= Len(b) THEN b[i] ELSE unsent[i - Len(b)]
    <3>1. b \in Seq(PieceAsked) /\ unsent \in Seq(PieceAsked)
      BY <1>1, <1>2
    <3> QED
      BY ONLY <3>1, ConcatProperties
  <2> QED
    BY ONLY <1>3, <2>1
<1>5. \A i \in 1..Len(inputBuffer) : Coming[i] = inputBuffer[i]
  <2>1. Len(inputBuffer) \in Nat /\ Len(inbox) \in Nat /\ Len(unsent) \in Nat
    BY <1>1
  <2> QED
    BY <1>2, <1>4, <2>1
<1>6. \A i \in 1..Len(Coming) : Coming[i] \in PieceAsked
  BY <1>4, ElementOfSeq
<1>7. Heads(Coming) \subseteq 1..Len(asked)
  BY <1>6 DEF Heads, PieceAsked
<1> QED
  BY <1>1, <1>2, <1>4, <1>5, <1>7

LEMMA SentIsSeq ==
  ASSUME Base
  PROVE  /\ Sent \in Seq(AnswerPiece)
         /\ Answers(Sent) \subseteq 0..MaxRequests
         /\ Answers(delivered) \subseteq Answers(Sent)
         /\ \A n : Once(Sent, n) => Once(delivered, n)
<1>1. delivered \in Seq(AnswerPiece) /\ outputBuffer \in Seq(AnswerPiece)
  BY DEF Base, Shapes
<1>2. Sent \in Seq(AnswerPiece)
  BY <1>1, ConcatProperties DEF Sent
<1>3. \A i \in 1..Len(Sent) : Sent[i] \in AnswerPiece
  BY <1>2, ElementOfSeq
<1>4. Answers(Sent) \subseteq 0..MaxRequests
  BY <1>3 DEF Answers, AnswerPiece, AnswerType
<1> QED
  BY <1>1, <1>2, <1>4, AnswersOfBoth DEF Sent

LEMMA NumbersAreNat ==
  ASSUME Base
  PROVE  /\ MaxRequests \in Nat /\ Len(asked) \in Nat
         /\ response.to \in 0..MaxRequests /\ response.to \in Nat
         /\ request.number \in 0..MaxRequests /\ request.number \in Nat
         /\ Answers(Sent) \subseteq Nat
         /\ Heads(Coming) \subseteq 1..Len(asked)
<1>1. MaxRequests \in Nat /\ 0..MaxRequests \subseteq Nat
  BY HttpConnectionAssumption
<1>2. response.to \in 0..MaxRequests /\ request.number \in 0..MaxRequests
  BY DEF Base, Shapes, AnswerType, RequestShape
<1>3. Len(asked) \in Nat
  BY DEF Base, Shapes
<1>4. Answers(Sent) \subseteq 0..MaxRequests
  BY SentIsSeq
<1>5. Heads(Coming) \subseteq 1..Len(asked)
  BY ComingIsSeq
<1> QED
  BY <1>1, <1>2, <1>3, <1>4, <1>5

(* The front of InputBuffer is the front of the stream. *)
LEMMA ComingIsCut ==
  ASSUME Base, NEW k \in 0..Len(inputBuffer), inputBuffer' = Drop(inputBuffer, k),
         inbox' = inbox, unsent' = unsent
  PROVE  Coming' = Drop(Coming, k) /\ k \in 0..Len(Coming)
<1> DEFINE a == Take(inputBuffer, k)
           b == Drop(inputBuffer, k)
           c == inbox \o unsent
<1>1. /\ inputBuffer \in Seq(PieceAsked) /\ inbox \in Seq(PieceAsked)
      /\ unsent \in Seq(PieceAsked)
  BY DEF Base, Shapes
<1>2. /\ a \in Seq(PieceAsked) /\ b \in Seq(PieceAsked) /\ Len(a) = k
      /\ a \o b = inputBuffer /\ Len(b) = Len(inputBuffer) - k
  BY <1>1, TakeIsSeq, DropIsSeq, TakeAndDrop
<1>3. c \in Seq(PieceAsked)
  BY <1>1, ConcatProperties
<1>4. Coming = inputBuffer \o c
  BY <1>1, ConcatAssociative DEF Coming
<1>5. Coming' = b \o c
  <2>1. Coming' = (b \o inbox) \o unsent
    BY DEF Coming
  <2> HIDE DEF a, b, c
  <2>2. b \in Seq(PieceAsked) /\ inbox \in Seq(PieceAsked) /\ unsent \in Seq(PieceAsked)
    BY <1>1, <1>2
  <2>3. (b \o inbox) \o unsent = b \o (inbox \o unsent)
    BY ONLY <2>2, ConcatAssociative
  <2> QED
    BY <2>1, <2>3 DEF c
<1> HIDE DEF a, b, c
<1>6. Coming = a \o (b \o c)
  <2>1. a \in Seq(PieceAsked) /\ b \in Seq(PieceAsked) /\ c \in Seq(PieceAsked)
    BY <1>2, <1>3
  <2>2. (a \o b) \o c = a \o (b \o c)
    BY ONLY <2>1, ConcatAssociative
  <2> QED
    BY <1>2, <1>4, <2>2
<1>7. /\ b \o c \in Seq(PieceAsked)
      /\ Coming \in Seq(PieceAsked) /\ Len(Coming) = k + Len(b \o c)
      /\ \A i \in 1..k + Len(b \o c) : Coming[i] = IF i <= k THEN a[i] ELSE (b \o c)[i - k]
  BY <1>2, <1>3, <1>6, ConcatProperties
<1>8. k \in 0..Len(Coming) /\ Len(b \o c) \in Nat
  BY <1>7
<1>9. /\ Drop(Coming, k) \in Seq(PieceAsked)
      /\ Len(Drop(Coming, k)) = Len(Coming) - k
      /\ \A i \in 1..Len(Coming) - k : Drop(Coming, k)[i] = Coming[k + i]
  BY <1>7, <1>8, DropIsSeq
<1>10. Len(Drop(Coming, k)) = Len(b \o c)
  BY <1>7, <1>8, <1>9
<1>11. \A i \in 1..Len(b \o c) : Drop(Coming, k)[i] = (b \o c)[i]
  <2>1. ASSUME NEW i \in 1..Len(b \o c) PROVE Drop(Coming, k)[i] = (b \o c)[i]
    <3>1. /\ i \in 1..Len(Coming) - k /\ k + i \in 1..k + Len(b \o c)
          /\ ~(k + i <= k) /\ k + i - k = i
      BY <1>7, <1>8
    <3>2. Drop(Coming, k)[i] = Coming[k + i]
      BY <1>9, <3>1
    <3>3. Coming[k + i] = (b \o c)[k + i - k]
      <4> DEFINE m == k + i
                 d == b \o c
      <4>1. m \in 1..k + Len(d) /\ ~(m <= k)
        BY <3>1
      <4>2. \A j \in 1..k + Len(d) : Coming[j] = IF j <= k THEN a[j] ELSE d[j - k]
        BY <1>7
      <4> HIDE DEF m, d
      <4>3. Coming[m] = d[m - k]
        BY ONLY <4>1, <4>2
      <4> QED
        BY <4>3 DEF m, d
    <3> QED
      BY ONLY <3>1, <3>2, <3>3
  <2> QED
    BY <2>1
<1>12. Drop(Coming, k) = b \o c
  BY <1>7, <1>9, <1>10, <1>11, SeqEqual
<1> QED
  BY <1>5, <1>8, <1>12

(* Pieces of the stream go from the client to the kernel, and to us. *)
LEMMA ComingIsSent ==
  ASSUME Base, ClientSends
  PROVE  Coming' = Coming
<1> DEFINE h == Head(unsent)
           t == Tail(unsent)
<1>1. /\ inputBuffer \in Seq(PieceAsked) /\ inbox \in Seq(PieceAsked)
      /\ unsent \in Seq(PieceAsked) /\ unsent # <<>>
  BY DEF ClientSends, Base, Shapes
<1>2. h \in PieceAsked /\ t \in Seq(PieceAsked) /\ <<h>> \in Seq(PieceAsked)
  BY <1>1, HeadTailProperties
<1>3. inbox' = inbox \o <<h>> /\ inbox' \in Seq(PieceAsked)
  <2>1. inbox' = Append(inbox, h)
    BY DEF ClientSends
  <2> QED
    BY <1>1, <1>2, <2>1, AppendIsConcat, AppendProperties
<1>4. unsent = <<h>> \o t
  <2>1. Len(<<h>>) = 1 /\ <<h>>[1] = h
    OBVIOUS
  <2>2. /\ <<h>> \o t \in Seq(PieceAsked) /\ Len(<<h>> \o t) = 1 + Len(t)
        /\ \A i \in 1..1 + Len(t) : (<<h>> \o t)[i] = IF i <= 1 THEN <<h>>[i] ELSE t[i - 1]
    BY <1>2, <2>1, ConcatProperties
  <2>3. /\ Len(t) = Len(unsent) - 1 /\ Len(unsent) \in Nat
        /\ \A i \in 1..Len(t) : t[i] = unsent[i + 1]
    BY <1>1, HeadTailProperties
  <2>4. unsent[1] = h
    BY <1>1
  <2> HIDE DEF h, t
  <2>5. Len(unsent) = Len(<<h>> \o t)
    BY <2>2, <2>3
  <2>6. \A i \in 1..Len(unsent) : unsent[i] = (<<h>> \o t)[i]
    <3>1. ASSUME NEW i \in 1..Len(unsent) PROVE unsent[i] = (<<h>> \o t)[i]
      <4>1. CASE i = 1
        BY <2>1, <2>2, <2>3, <2>4, <4>1
      <4>2. CASE i > 1
        <5>1. i - 1 \in 1..Len(t) /\ i \in 1..1 + Len(t) /\ ~(i <= 1) /\ i - 1 + 1 = i
          BY <2>3, <4>2
        <5> QED
          BY <2>2, <2>3, <5>1
      <4> QED
        BY <2>3, <4>1, <4>2
    <3> QED
      BY <3>1
  <2> QED
    BY <1>1, <2>2, <2>5, <2>6, SeqEqual
<1>5. unsent' = t /\ inputBuffer' = inputBuffer
  BY DEF ClientSends, context
<1> HIDE DEF h, t
<1> DEFINE b == inputBuffer \o inbox
<1>6. b \in Seq(PieceAsked)
  BY <1>1, ConcatProperties
<1>7. inputBuffer \o (inbox \o <<h>>) = b \o <<h>>
  BY <1>1, <1>2, ConcatAssociative
<1>8. (b \o <<h>>) \o t = b \o (<<h>> \o t)
  BY <1>2, <1>6, ConcatAssociative
<1> QED
  BY <1>3, <1>4, <1>5, <1>7, <1>8 DEF Coming

LEMMA ComingIsReceived ==
  ASSUME Base, NEW w \in Workers, Recv(w)
  PROVE  Coming' = Coming
<1> DEFINE bytes == IF Len(inbox) < Step THEN Len(inbox) ELSE Step
           a == Take(inbox, bytes)
           b == Drop(inbox, bytes)
<1>1. /\ inputBuffer \in Seq(PieceAsked) /\ inbox \in Seq(PieceAsked)
      /\ bytes \in 0..Len(inbox)
  BY HttpConnectionAssumption DEF Base, Shapes
<1>2. inputBuffer' = inputBuffer \o a /\ inbox' = b /\ unsent' = unsent
  BY DEF Recv
<1> HIDE DEF bytes
<1>3. /\ a \in Seq(PieceAsked) /\ b \in Seq(PieceAsked) /\ a \o b = inbox
  BY <1>1, TakeIsSeq, DropIsSeq, TakeAndDrop
<1> HIDE DEF a, b
<1>4. (inputBuffer \o a) \o b = inputBuffer \o (a \o b)
  <2>1. inputBuffer \in Seq(PieceAsked) /\ a \in Seq(PieceAsked) /\ b \in Seq(PieceAsked)
    BY <1>1, <1>3
  <2> QED
    BY ONLY <2>1, ConcatAssociative
<1> QED
  BY <1>2, <1>3, <1>4 DEF Coming

(* Pieces of the response go to the client. *)
LEMMA SentIsSplit ==
  ASSUME Base, NEW k \in 0..Len(outputBuffer),
         delivered' = delivered \o Take(outputBuffer, k),
         outputBuffer' = Drop(outputBuffer, k)
  PROVE  Sent' = Sent
<1>1. delivered \in Seq(AnswerPiece) /\ outputBuffer \in Seq(AnswerPiece)
  BY DEF Base, Shapes
<1>2. /\ Take(outputBuffer, k) \in Seq(AnswerPiece)
      /\ Drop(outputBuffer, k) \in Seq(AnswerPiece)
      /\ Take(outputBuffer, k) \o Drop(outputBuffer, k) = outputBuffer
  BY <1>1, TakeIsSeq, DropIsSeq, TakeAndDrop
<1> DEFINE a == Take(outputBuffer, k)
           b == Drop(outputBuffer, k)
<1>3. Sent' = (delivered \o a) \o b
  BY DEF Sent
<1>4. a \in Seq(AnswerPiece) /\ b \in Seq(AnswerPiece) /\ delivered \in Seq(AnswerPiece)
  BY <1>1, <1>2
<1> HIDE DEF a, b
<1>5. (delivered \o a) \o b = delivered \o (a \o b)
  BY ONLY <1>4, ConcatAssociative
<1>6. a \o b = outputBuffer
  BY <1>2 DEF a, b
<1> QED
  BY <1>3, <1>5, <1>6 DEF Sent

LEMMA AllIsSent ==
  ASSUME Base, SendRest
  PROVE  Sent' = Sent
<1>1. outputBuffer \in Seq(AnswerPiece) /\ Len(outputBuffer) \in 0..Len(outputBuffer)
  BY DEF Base, Shapes
<1>2. Drop(outputBuffer, Len(outputBuffer)) = <<>>
  BY <1>1, SubSeqEmpty DEF Drop
<1>3. /\ delivered' = delivered \o Take(outputBuffer, Len(outputBuffer))
      /\ outputBuffer' = <<>>
  BY DEF SendRest, Transmit
<1> QED
  BY <1>1, <1>2, <1>3, SentIsSplit

(* What a response that is put into OutputBuffer answers. *)
LEMMA TextIsSent ==
  ASSUME Base, NEW n, Once(Sent, n), NEW answer \in AnswerType, delivered' = delivered,
         outputBuffer' = GetResponseText(answer),
         answer.to # 0 =>
           \A a \in Answers(Sent) : a < answer.to \/ (a = n /\ answer.to = n)
  PROVE  /\ Once(Sent', n)
         /\ Answers(Sent') \subseteq Answers(Sent) \cup ({answer.to} \ {0})
<1> DEFINE e == GetResponseText(answer)
<1>1. delivered \in Seq(AnswerPiece) /\ e \in Seq(AnswerPiece)
  BY TextIsOut DEF Base, Shapes
<1>2. Answers(e) = {answer.to} \ {0} /\ Once(e, n)
  BY TextAnswersOnce
<1>3. Answers(delivered) \subseteq Answers(Sent) /\ Once(delivered, n)
  BY SentIsSeq
<1>4. Sent' = delivered \o e
  BY DEF Sent
<1> HIDE DEF e
<1>5. \A a \in Answers(delivered), b \in Answers(e) : a < b \/ (a = n /\ b = n)
  BY <1>2, <1>3
<1> QED
  BY <1>1, <1>2, <1>3, <1>4, <1>5, AnswersOfBoth

(* A response that is set, but was not on its way yet *)
LEMMA RefusalIsSent ==
  ASSUME Base, Ordered, status # "SEND", NEW stat \in Errors, delivered' = delivered,
         response' = SetOther(stat), outputBuffer' = GetResponseText(SetOther(stat))
  PROVE  /\ response'.to = response.to
         /\ Once(Sent', again)
         /\ Answers(Sent') \subseteq Answers(Sent) \cup ({response.to} \ {0})
<1>1. SetOther(stat) \in AnswerType /\ SetOther(stat).to = response.to
  BY ErrorIsOut DEF Base
<1>2. response.to # 0 => \A a \in Answers(Sent) : a < response.to
  BY DEF Ordered, PendingIsLast
<1> QED
  BY <1>1, <1>2, TextIsSent DEF Ordered

-----------------------------------------------------------------------------
(***************************************************************************)
(* A step that reads no header, and answers nobody but with the response   *)
(* that is set, keeps the order.                                           *)
(***************************************************************************)
LEMMA OrderStays ==
  ASSUME Base, Ordered, asked' = asked, isOpen' => isOpen,
         isOpen' => InOrder(Coming') /\ Heads(Coming') \subseteq Heads(Coming),
         Once(Sent', again'),
         Answers(Sent') \subseteq Answers(Sent) \cup ({response.to} \ {0}),
         status' # "SEND" => Answers(Sent') \subseteq Answers(Sent),
         \/ response'.to = response.to /\ request'.number = request.number
         \/ response'.to = 0 /\ request'.number \in {0, request.number},
         ~isOpen' => response'.to = 0,
         status' # "SEND" /\ (request'.number # 0 \/ response'.to # 0)
           => status # "SEND",
         AgainIsLast'
  PROVE  Ordered'
<1>1. /\ Heads(Coming) \subseteq 1..Len(asked) /\ Len(asked) \in Nat
      /\ Answers(Sent) \subseteq Nat
      /\ response.to \in Nat /\ request.number \in Nat
  BY NumbersAreNat
<1>2. response.to <= request.number
  BY DEF Ordered, PendingIsLast
<1>3. ASSUME isOpen' PROVE AnswersFirst'
  <2>1. ASSUME NEW h \in Heads(Coming')
        PROVE  request'.number < h /\ \A a \in Answers(Sent') : a < h
    <3>1. h \in Heads(Coming) /\ h \in 1..Len(asked)
      BY <1>1, <1>3
    <3>2. request.number < h /\ \A a \in Answers(Sent) : a < h
      BY <1>3, <3>1 DEF Ordered, AnswersFirst
    <3>3. response.to < h /\ 0 < h
      BY <1>1, <1>2, <3>1, <3>2
    <3> QED
      BY <3>1, <3>2, <3>3
  <2>2. status' # "SEND" /\ request'.number # 0 =>
          \A a \in Answers(Sent') : a < request'.number
    BY <1>3 DEF Ordered, AnswersFirst
  <2> QED
    BY <2>1, <2>2 DEF AnswersFirst
<1>4. ASSUME isOpen' PROVE Counted'
  <2>1. request.number <= Len(asked) /\ \A a \in Answers(Sent) : a <= Len(asked)
    BY <1>4 DEF Ordered, Counted
  <2>2. response.to <= Len(asked)
    BY <1>1, <1>2, <2>1
  <2>3. request'.number <= Len(asked')
    BY <1>1, <2>1
  <2>4. \A a \in Answers(Sent') : a <= Len(asked')
    BY <2>1, <2>2
  <2> QED
    BY <2>3, <2>4 DEF Counted
<1>5. PendingIsLast'
  <2>1. response'.to <= request'.number
    BY <1>1, <1>2
  <2>2. response'.to # 0 => response'.to = response.to
    OBVIOUS
  <2>3. response'.to # 0 => \A a \in Answers(Sent') : a <= response'.to
    BY <1>1, <2>2 DEF Ordered, PendingIsLast
  <2>4. response'.to # 0 /\ status' # "SEND" =>
          \A a \in Answers(Sent') : a < response'.to
    BY <2>2 DEF Ordered, PendingIsLast
  <2> QED
    BY <2>1, <2>3, <2>4 DEF PendingIsLast
<1> QED
  BY <1>3, <1>4, <1>5 DEF Ordered

(* As most steps do. *)
LEMMA OrderUntouched ==
  ASSUME Base, Ordered, asked' = asked, isOpen' = isOpen,
         Coming' = Coming, Sent' = Sent, request'.number = request.number, status' = status,
         UNCHANGED <<response, keepAlive, again>>
  PROVE  Ordered'
<1>1. AgainIsLast'
  BY DEF Ordered, AgainIsLast
<1>2. ~isOpen' => response'.to = 0
  BY DEF Ordered, PendingIsLast
<1> QED
  BY <1>1, <1>2, OrderStays DEF Ordered

(* No response is written again when the status is not "SEND". *)
LEMMA NoneAgain ==
  ASSUME Base, Ordered, isOpen, status # "SEND"
  PROVE  again = 0
  BY DEF Ordered, AgainIsLast

(***************************************************************************)
(* HandleHeader reads the first header of the stream: the request is later *)
(* than all that were answered, and before all that are behind.            *)
(***************************************************************************)
LEMMA HeaderKeepsOrder ==
  ASSUME Base, Ordered, NEW w \in Workers, pc[w] = "header", HeaderRead,
         UNCHANGED <<asked, inbox, unsent, isOpen, again>>, response'.to = response.to,
         Once(Sent', again),
         Answers(Sent') \subseteq Answers(Sent) \cup ({response.to} \ {0}),
         status' # "SEND" => Answers(Sent') \subseteq Answers(Sent)
  PROVE  Ordered'
<1> DEFINE n == inputBuffer[1].of
<1>1. /\ arg + 2 \in 0..Len(inputBuffer) /\ arg \in Nat /\ Len(inputBuffer) \in Nat
      /\ n \in 1..Len(asked) /\ HandleHeader.number = n
      /\ inputBuffer[arg + 1].is = "end1" /\ isOpen
  <2>1. arg \in Nat /\ Len(inputBuffer) \in Nat
    BY DEF Base, Shapes
  <2>2. isOpen /\ inputBuffer[arg + 1].is = "end1"
    BY DEF Base, ContextFits, CallFits, Working
  <2>3. /\ arg + 2 \in 0..Len(inputBuffer) /\ inputBuffer[1] \in PieceAsked
        /\ HandleHeader.number = n
    BY HeaderIsRequest
  <2>4. n \in 1..Len(asked)
    BY <2>3 DEF PieceAsked
  <2> QED
    BY <2>1, <2>2, <2>3, <2>4
<1>2. /\ inputBuffer' = Drop(inputBuffer, arg + 2) /\ inputBuffer[1].is = "head"
      /\ request' = HandleHeader
  BY DEF HeaderRead, HeaderOk, BehindHeader
<1>3. Coming' = Drop(Coming, arg + 2) /\ arg + 2 \in 0..Len(Coming)
  BY <1>1, <1>2, ComingIsCut
<1>4. /\ Coming \in Seq(PieceAsked) /\ InOrder(Coming)
      /\ 1 \in 1..Len(Coming) /\ arg + 1 \in 1..Len(Coming) /\ arg + 2 \in arg + 1..Len(Coming)
      /\ Coming[1] = inputBuffer[1] /\ Coming[arg + 1] = inputBuffer[arg + 1]
  <2>1. 1 \in 1..Len(inputBuffer) /\ arg + 1 \in 1..Len(inputBuffer)
    BY <1>1
  <2>2. 1 \in 1..Len(Coming) /\ arg + 1 \in 1..Len(Coming) /\ arg + 2 \in arg + 1..Len(Coming)
    BY <1>1, <1>3
  <2> QED
    BY <1>1, <2>1, <2>2, ComingIsSeq DEF Ordered
<1>5. n \in Heads(Coming)
  BY <1>2, <1>4 DEF Heads
<1>6. InOrder(Coming') /\ Heads(Coming') \subseteq Heads(Coming)
  BY <1>3, <1>4, DropKeepsOrder
<1>7. \A h \in Heads(Coming') : n < h
  <2>1. Len(asked) \in Nat
    BY DEF Base, Shapes
  <2> QED
    BY <1>1, <1>3, <1>4, <2>1, HeadsBehindEnd DEF PieceAsked
<1> HIDE DEF n
<1>8. \A h \in Heads(Coming) : request.number < h /\ \A a \in Answers(Sent) : a < h
  BY <1>1 DEF Ordered, AnswersFirst
<1>9. request'.number = n
  BY <1>1, <1>2
<1>10. /\ response.to \in Nat /\ request.number \in Nat /\ response.to <= request.number
       /\ status = "RECEIVE_HEADER" /\ again = 0
       /\ Len(asked) \in Nat /\ Heads(Coming) \subseteq 1..Len(asked)
       /\ Answers(Sent) \subseteq Nat
  <2>1. status = "RECEIVE_HEADER"
    BY DEF Base, ContextFits, CallFits
  <2>2. response.to \in Nat /\ request.number \in Nat /\ Answers(Sent) \subseteq Nat
    BY NumbersAreNat
  <2>3. Len(asked) \in Nat /\ Heads(Coming) \subseteq 1..Len(asked)
    BY ComingIsSeq DEF Base, Shapes
  <2> QED
    BY <1>1, <2>1, <2>2, <2>3, NoneAgain DEF Ordered, PendingIsLast
<1>11. \A h \in Heads(Coming) : response.to < h
  BY <1>8, <1>10
<1>12. AnswersFirst'
  <2>1. \A h \in Heads(Coming') : \A a \in Answers(Sent') : a < h
    BY <1>6, <1>8, <1>11
  <2>2. status' # "SEND" => \A a \in Answers(Sent') : a < n
    BY <1>5, <1>8
  <2> QED
    BY <1>7, <1>9, <2>1, <2>2 DEF AnswersFirst
<1>13. Counted'
  <2>1. \A a \in Answers(Sent') : a < n \/ a <= Len(asked)
    BY <1>1, <1>5, <1>8, <1>10, <1>11
  <2>2. n <= Len(asked) /\ \A a \in Answers(Sent) : a <= Len(asked)
    BY <1>1 DEF Ordered, Counted
  <2>3. response.to <= Len(asked)
    BY <1>1, <1>5, <1>10, <1>11
  <2> QED
    BY <1>9, <2>2, <2>3 DEF Counted
<1>14. PendingIsLast'
  <2>1. response'.to <= request'.number
    BY <1>1, <1>5, <1>9, <1>10, <1>11
  <2>2. response.to # 0 => \A a \in Answers(Sent) : a < response.to
    BY <1>10 DEF Ordered, PendingIsLast
  <2>3. response'.to # 0 => \A a \in Answers(Sent') : a <= response'.to
    BY <1>10, <2>2
  <2>4. response'.to # 0 /\ status' # "SEND" =>
          \A a \in Answers(Sent') : a < response'.to
    BY <2>2
  <2>5. isOpen'
    BY <1>1
  <2> QED
    BY <2>1, <2>3, <2>4, <2>5 DEF PendingIsLast
<1>15. AgainIsLast'
  BY <1>10 DEF AgainIsLast
<1> QED
  BY <1>6, <1>12, <1>13, <1>14, <1>15 DEF Ordered

LEMMA OrderedStep == Base /\ Ordered /\ [Next]_vars => Ordered'
<1> SUFFICES ASSUME Base, Ordered, [Next]_vars PROVE Ordered'
  OBVIOUS
<1> USE DEF network, context, call
<1>1. ASSUME NEW r \in Requests, Ask(r) PROVE Ordered'
  <2> DEFINE n == Len(asked)
  <2>1. n \in Nat /\ Len(asked') = n + 1
    BY <1>1 DEF Ask, Base, Shapes
  <2>2. /\ isOpen /\ unsent = <<>> /\ unsent' = Stream(n + 1, r)
        /\ UNCHANGED <<inputBuffer, inbox, outputBuffer, delivered, request, status,
                       isOpen, response, keepAlive, again>>
    BY <1>1 DEF Ask
  <2>3. Coming = inputBuffer \o inbox
    <3>1. inputBuffer \o inbox \in Seq(PieceAsked)
      BY ConcatProperties DEF Base, Shapes
    <3> QED
      BY <2>2, <3>1, ConcatEmptySeq DEF Coming
  <2>4. Coming' = Coming \o Stream(n + 1, r) /\ Sent' = Sent
    BY <2>2, <2>3 DEF Coming, Sent
  <2>5. Coming \in Seq([of : 1..n, is : {"head", "end1", "end2", "body"}])
    BY ComingIsSeq DEF PieceAsked
  <2>6. InOrder(Coming') /\ Heads(Coming') \subseteq Heads(Coming) \cup {n + 1}
    BY <2>1, <2>2, <2>4, <2>5, StreamKeepsOrder DEF Ordered
  <2>7. request.number \in Nat /\ Answers(Sent) \subseteq 0..MaxRequests
    BY SentIsSeq DEF Base, Shapes, RequestShape
  <2>8. request.number <= n /\ \A a \in Answers(Sent) : a <= n
    BY <2>2 DEF Ordered, Counted
  <2> HIDE DEF n
  <2>9. request.number < n + 1 /\ \A a \in Answers(Sent) : a < n + 1
    BY <2>1, <2>7, <2>8
  <2>10. AnswersFirst'
    BY <2>2, <2>4, <2>6, <2>9 DEF Ordered, AnswersFirst
  <2>11. Counted'
    <3>1. request.number <= n + 1 /\ \A a \in Answers(Sent) : a <= n + 1
      BY <2>1, <2>7, <2>8
    <3> QED
      BY <2>1, <2>2, <2>4, <3>1 DEF Counted
  <2> QED
    BY <2>2, <2>4, <2>6, <2>10, <2>11 DEF Ordered, PendingIsLast, AgainIsLast
<1>2. CASE ClientSends
  BY <1>2, ComingIsSent, OrderUntouched DEF ClientSends, Sent
<1>3. CASE ClientReads
  BY <1>3, OrderUntouched DEF ClientReads, Coming, Sent
<1>4. ASSUME NEW w \in Workers, PollReceivable(w), UNCHANGED again PROVE Ordered'
  BY <1>4, OrderUntouched DEF PollReceivable, Coming, Sent
<1>5. ASSUME NEW w \in Workers, PollSendable(w), UNCHANGED again PROVE Ordered'
  BY <1>5, OrderUntouched DEF PollSendable, Coming, Sent
<1>6. ASSUME NEW w \in Workers, PollNothing(w), UNCHANGED again PROVE Ordered'
  BY <1>6, OrderUntouched DEF PollNothing, Coming, Sent
<1>7. ASSUME NEW w \in Workers, Receivable(w), UNCHANGED again PROVE Ordered'
  BY <1>7, OrderUntouched DEF Receivable, Coming, Sent
<1>8. ASSUME NEW w \in Workers, RecvEnds(w), UNCHANGED again PROVE Ordered'
  BY <1>8, OrderUntouched DEF RecvEnds, Coming, Sent
<1>9. ASSUME NEW w \in Workers, Sendable(w), UNCHANGED again PROVE Ordered'
  BY <1>9, OrderUntouched DEF Sendable, Coming, Sent
<1>10. ASSUME NEW w \in Workers, DataEndsHeader(w), UNCHANGED again PROVE Ordered'
  BY <1>10, OrderUntouched DEF DataEndsHeader, Coming, Sent
<1>11. ASSUME NEW w \in Workers, DataEndsBody(w), UNCHANGED again PROVE Ordered'
  BY <1>11, OrderUntouched DEF DataEndsBody, Coming, Sent
<1>12. ASSUME NEW w \in Workers, DataWaits(w), UNCHANGED again PROVE Ordered'
  BY <1>12, OrderUntouched DEF DataWaits, Coming, Sent
<1>13. ASSUME NEW w \in Workers, MessageThrows(w) PROVE Ordered'
  <2>1. /\ pc[w] = "ready" /\ response' \in {response, SetWithBody}
        /\ UNCHANGED <<asked, unsent, inbox, inputBuffer, outputBuffer, delivered,
                       isOpen, status, request, again>>
    BY <1>13 DEF MessageThrows, Return, Goto
  <2>2. isOpen /\ status # "SEND" /\ request.number # 0
    BY <2>1 DEF Base, ContextFits, CallFits, Working
  <2>3. response'.to \in {response.to, request.number}
    BY <2>1, AnswerIsOut DEF Base
  <2>4. Coming' = Coming /\ Sent' = Sent
    BY <2>1 DEF Coming, Sent
  <2>5. again = 0
    BY <2>2, NoneAgain
  <2>6. request.number \in Nat /\ Answers(Sent) \subseteq Nat
    BY NumbersAreNat
  <2>7. \A a \in Answers(Sent) : a < request.number
    BY <2>2 DEF Ordered, AnswersFirst
  <2>8. PendingIsLast'
    BY <2>1, <2>2, <2>3, <2>4, <2>6, <2>7 DEF Ordered, PendingIsLast
  <2>9. AnswersFirst' /\ Counted'
    BY <2>1, <2>2, <2>4 DEF Ordered, AnswersFirst, Counted
  <2> QED
    BY <2>1, <2>2, <2>4, <2>5, <2>8, <2>9 DEF Ordered, AgainIsLast
<1>14. ASSUME NEW w \in Workers, NothingToSend(w), UNCHANGED again PROVE Ordered'
  BY <1>14, OrderUntouched DEF NothingToSend, Coming, Sent
<1>15. ASSUME NEW w \in Workers, SendFails(w), UNCHANGED again PROVE Ordered'
  BY <1>15, OrderUntouched DEF SendFails, Coming, Sent
<1>16. ASSUME NEW w \in Workers, Recv(w), UNCHANGED again PROVE Ordered'
  BY <1>16, ComingIsReceived, OrderUntouched DEF Recv, Sent
<1>17. ASSUME NEW w \in Workers, ReceivableTooSlowly(w) PROVE Ordered'
  <2> DEFINE answer == SetOther("REQUEST_TIMEOUT")
  <2>1. /\ response' = answer /\ outputBuffer' = GetResponseText(answer)
        /\ status' = "SEND" /\ ~keepAlive'
        /\ again' = IF status = "SEND" /\ response.to # 0 THEN response.to ELSE again
        /\ UNCHANGED <<asked, unsent, inbox, inputBuffer, delivered, isOpen, request>>
    BY <1>17 DEF ReceivableTooSlowly, Refuse, SwitchToSend
  <2>2. answer \in AnswerType /\ answer.to = response.to
    BY ErrorIsOut DEF Base, Errors
  <2> HIDE DEF answer
  <2>3. /\ Answers(Sent) \subseteq Nat /\ response.to \in Nat
        /\ response.to # 0 => isOpen /\ \A a \in Answers(Sent) : a <= response.to
        /\ response.to # 0 /\ status # "SEND" => \A a \in Answers(Sent) : a < response.to
    BY NumbersAreNat DEF Ordered, PendingIsLast
  <2>4. again # 0 /\ response.to # 0 => status = "SEND" /\ response.to = again
    BY <2>3 DEF Ordered, AgainIsLast
  <2>5. Once(Sent, again')
    <3>1. CASE again' = again
      BY <3>1 DEF Ordered
    <3>2. CASE again' # again
      <4>1. again = 0
        BY <2>1, <2>4, <3>2
      <4> QED
        BY <4>1, OnceIsOnce DEF Ordered
    <3> QED
      BY <3>1, <3>2
  <2>6. answer.to # 0 =>
          \A a \in Answers(Sent) : a < answer.to \/ (a = again' /\ answer.to = again')
    <3> SUFFICES ASSUME response.to # 0, NEW a \in Answers(Sent)
                 PROVE  a < response.to \/ (a = again' /\ response.to = again')
      BY <2>2
    <3>1. CASE status = "SEND"
      BY <2>1, <2>3, <3>1
    <3>2. CASE status # "SEND"
      BY <2>3, <3>2
    <3> QED
      BY <3>1, <3>2
  <2>7. Once(Sent', again') /\ Answers(Sent') \subseteq Answers(Sent) \cup ({response.to} \ {0})
    <3> DEFINE n == again'
    <3>1. Once(Sent, n) /\ (answer.to # 0 =>
             \A a \in Answers(Sent) : a < answer.to \/ (a = n /\ answer.to = n))
      BY <2>5, <2>6
    <3> HIDE DEF n
    <3>2. /\ Once(Sent', n)
          /\ Answers(Sent') \subseteq Answers(Sent) \cup ({answer.to} \ {0})
      BY <2>1, <2>2, <3>1, TextIsSent
    <3> QED
      BY <2>2, <3>2 DEF n
  <2>8. AgainIsLast'
    <3>1. CASE status = "SEND" /\ response.to # 0
      <4>1. again' = response.to /\ response'.to = response.to
        BY <2>1, <2>2, <3>1
      <4>2. \A a \in Answers(Sent') : a <= response.to
        BY <2>3, <2>7, <3>1
      <4> QED
        BY <2>1, <4>1, <4>2 DEF AgainIsLast
    <3>2. CASE ~(status = "SEND" /\ response.to # 0)
      <4>1. again' = again
        BY <2>1, <3>2
      <4>2. again # 0 => response.to = 0 /\ ~isOpen
        BY <2>4, <3>2 DEF Ordered, AgainIsLast
      <4>3. again # 0 => \A a \in Answers(Sent') : a <= again
        BY <2>7, <4>2 DEF Ordered, AgainIsLast
      <4> QED
        BY <2>1, <4>1, <4>2, <4>3 DEF AgainIsLast
    <3> QED
      BY <3>1, <3>2
  <2>9. Coming' = Coming
    BY <2>1 DEF Coming
  <2>10. ~isOpen' => response'.to = 0
    BY <2>1, <2>2, <2>3
  <2> QED
    BY <2>1, <2>2, <2>7, <2>8, <2>9, <2>10, OrderStays DEF Ordered
<1>18. ASSUME NEW w \in Workers, DataTooLong(w), UNCHANGED again PROVE Ordered'
  <2> DEFINE answer == SetOther("REQUEST_ENTITY_TOO_LARGE")
  <2>1. /\ pc[w] = "data" /\ status = "RECEIVE_HEADER" /\ status' = "SEND"
        /\ response' = answer /\ outputBuffer' = GetResponseText(answer)
        /\ UNCHANGED <<asked, unsent, inbox, inputBuffer, delivered, isOpen, request, again>>
    BY <1>18 DEF DataTooLong, Refuse, SwitchToSend, Goto
  <2>2. isOpen /\ again = 0
    BY <2>1, NoneAgain DEF Base, ContextFits, CallFits, Working
  <2>3. /\ response'.to = response.to /\ Once(Sent', again)
        /\ Answers(Sent') \subseteq Answers(Sent) \cup ({response.to} \ {0})
    BY <2>1, RefusalIsSent DEF Errors
  <2>4. Coming' = Coming
    BY <2>1 DEF Coming
  <2>5. AgainIsLast'
    BY <2>1, <2>2 DEF AgainIsLast
  <2> HIDE DEF answer
  <2> QED
    BY <2>1, <2>2, <2>3, <2>4, <2>5, OrderStays DEF Ordered
<1>19. ASSUME NEW w \in Workers, HeaderInvalid(w), UNCHANGED again PROVE Ordered'
  <2> DEFINE answer == SetOther("BAD_REQUEST")
  <2>1. /\ pc[w] = "header" /\ inputBuffer' = Drop(inputBuffer, arg + 2)
        /\ response' = answer /\ outputBuffer' = GetResponseText(answer)
        /\ status' = "SEND"
        /\ UNCHANGED <<asked, unsent, inbox, delivered, isOpen, request, again>>
    BY <1>19 DEF HeaderInvalid, Refuse, SwitchToSend, Goto, BehindHeader
  <2>2. isOpen /\ status = "RECEIVE_HEADER" /\ again = 0
    BY <2>1, NoneAgain DEF Base, ContextFits, CallFits, Working
  <2>3. /\ response'.to = response.to /\ Once(Sent', again)
        /\ Answers(Sent') \subseteq Answers(Sent) \cup ({response.to} \ {0})
    BY <2>1, <2>2, RefusalIsSent DEF Errors
  <2>4. Coming' = Drop(Coming, arg + 2) /\ arg + 2 \in 0..Len(Coming)
    BY <2>1, HeaderIsRequest, ComingIsCut
  <2>5. isOpen => InOrder(Coming') /\ Heads(Coming') \subseteq Heads(Coming)
    BY <2>4, ComingIsSeq, DropKeepsOrder DEF Ordered
  <2>6. AgainIsLast'
    BY <2>1, <2>2 DEF AgainIsLast
  <2> HIDE DEF answer
  <2> QED
    BY <2>1, <2>2, <2>3, <2>5, <2>6, OrderStays
<1>20. ASSUME NEW w \in Workers, HeaderRefused(w), UNCHANGED again PROVE Ordered'
  <2> DEFINE stat == HeaderStatus(HandleHeader)
  <2>1. /\ pc[w] = "header" /\ HeaderRead /\ status' = "SEND"
        /\ response' = SetOther(stat) /\ outputBuffer' = GetResponseText(SetOther(stat))
        /\ UNCHANGED <<asked, unsent, inbox, delivered, isOpen, again>>
    BY <1>20 DEF HeaderRefused, Refuse, SwitchToSend, Goto
  <2>2. stat \in Errors
    BY <1>20, <2>1, HeaderIsRequest DEF HeaderRefused
  <2>3. status = "RECEIVE_HEADER"
    BY <2>1 DEF Base, ContextFits, CallFits
  <2> HIDE DEF stat
  <2>4. /\ response'.to = response.to /\ Once(Sent', again)
        /\ Answers(Sent') \subseteq Answers(Sent) \cup ({response.to} \ {0})
    BY <2>1, <2>2, <2>3, RefusalIsSent
  <2> QED
    BY <2>1, <2>4, HeaderKeepsOrder
<1>21. ASSUME NEW w \in Workers, HeaderBeforeBody(w), UNCHANGED again PROVE Ordered'
  <2>1. /\ pc[w] = "header" /\ HeaderRead
        /\ UNCHANGED <<asked, unsent, inbox, delivered, outputBuffer, isOpen, response,
                       again>>
    BY <1>21 DEF HeaderBeforeBody, HeaderAccepted, Return, Goto
  <2>2. Sent' = Sent
    BY <2>1 DEF Sent
  <2> QED
    BY <2>1, <2>2, HeaderKeepsOrder DEF Ordered
<1>22. ASSUME NEW w \in Workers, HeaderAndBody(w), UNCHANGED again PROVE Ordered'
  <2>1. /\ pc[w] = "header" /\ HeaderRead
        /\ UNCHANGED <<asked, unsent, inbox, delivered, outputBuffer, isOpen, response,
                       again>>
    BY <1>22 DEF HeaderAndBody, HeaderAccepted, Goto
  <2>2. Sent' = Sent
    BY <2>1 DEF Sent
  <2> QED
    BY <2>1, <2>2, HeaderKeepsOrder DEF Ordered
<1>23. ASSUME NEW w \in Workers, HeaderOnly(w), UNCHANGED again PROVE Ordered'
  <2>1. /\ pc[w] = "header" /\ HeaderRead
        /\ UNCHANGED <<asked, unsent, inbox, delivered, outputBuffer, isOpen, response,
                       again>>
    BY <1>23 DEF HeaderOnly, HeaderAccepted, Goto
  <2>2. Sent' = Sent
    BY <2>1 DEF Sent
  <2> QED
    BY <2>1, <2>2, HeaderKeepsOrder DEF Ordered
<1>24. ASSUME NEW w \in Workers, BodyRefused(w), UNCHANGED again PROVE Ordered'
  <2> DEFINE answer == SetOther("BAD_REQUEST")
  <2>1. /\ pc[w] = "body" /\ inputBuffer' = Drop(inputBuffer, request.length)
        /\ response' = answer /\ outputBuffer' = GetResponseText(answer)
        /\ status' = "SEND"
        /\ UNCHANGED <<asked, unsent, inbox, delivered, isOpen, request, again>>
    BY <1>24 DEF BodyRefused, SwitchToSend, Goto
  <2>2. isOpen /\ status # "SEND" /\ again = 0 /\ request.length \in 0..Len(inputBuffer)
    BY <2>1, NoneAgain DEF Base, ContextFits, CallFits, Working
  <2>3. /\ response'.to = response.to /\ Once(Sent', again)
        /\ Answers(Sent') \subseteq Answers(Sent) \cup ({response.to} \ {0})
    BY <2>1, <2>2, RefusalIsSent DEF Errors
  <2>4. Coming' = Drop(Coming, request.length) /\ request.length \in 0..Len(Coming)
    BY <2>1, <2>2, ComingIsCut
  <2>5. isOpen => InOrder(Coming') /\ Heads(Coming') \subseteq Heads(Coming)
    BY <2>4, ComingIsSeq, DropKeepsOrder DEF Ordered
  <2>6. AgainIsLast'
    BY <2>1, <2>2 DEF AgainIsLast
  <2> HIDE DEF answer
  <2> QED
    BY <2>1, <2>2, <2>3, <2>5, <2>6, OrderStays
<1>25. ASSUME NEW w \in Workers, BodyHandled(w), UNCHANGED again PROVE Ordered'
  <2>1. /\ pc[w] = "body" /\ inputBuffer' = Drop(inputBuffer, request.length)
        /\ UNCHANGED <<asked, unsent, inbox, delivered, outputBuffer, isOpen, status,
                       response, keepAlive, again>>
    BY <1>25 DEF BodyHandled, Goto
  <2>2. request'.number = request.number
    BY <1>25 DEF BodyHandled, Base, Shapes, RequestShape
  <2>3. request.length \in 0..Len(inputBuffer)
    BY <2>1 DEF Base, ContextFits, CallFits
  <2>4. Coming' = Drop(Coming, request.length) /\ request.length \in 0..Len(Coming)
    BY <2>1, <2>3, ComingIsCut
  <2>5. isOpen => InOrder(Coming') /\ Heads(Coming') \subseteq Heads(Coming)
    BY <2>4, ComingIsSeq, DropKeepsOrder DEF Ordered
  <2>6. Sent' = Sent
    BY <2>1 DEF Sent
  <2>7. AgainIsLast'
    BY <2>1, <2>6 DEF Ordered, AgainIsLast
  <2>8. ~isOpen' => response'.to = 0
    BY <2>1 DEF Ordered, PendingIsLast
  <2> QED
    BY <2>1, <2>2, <2>5, <2>6, <2>7, <2>8, OrderStays DEF Ordered
<1>26. ASSUME NEW w \in Workers, MessageReady(w), UNCHANGED again PROVE Ordered'
  <2> DEFINE answer == SetWithBody
             n == request.number
  <2>1. /\ pc[w] = "ready" /\ status' = "SEND"
        /\ response' = answer /\ outputBuffer' = GetResponseText(answer)
        /\ UNCHANGED <<asked, unsent, inbox, inputBuffer, delivered, isOpen, request, again>>
    BY <1>26 DEF MessageReady, SwitchToSend, Goto
  <2>2. /\ isOpen /\ status # "SEND" /\ again = 0 /\ n # 0
        /\ n \in Nat /\ response.to \in Nat /\ Answers(Sent) \subseteq Nat
        /\ Len(asked) \in Nat
    BY <2>1, NoneAgain, NumbersAreNat DEF Base, ContextFits, CallFits, Working
  <2>3. answer \in AnswerType /\ answer.to \in {response.to, n}
    BY AnswerIsOut DEF Base
  <2> HIDE DEF answer
  <2>4. /\ \A a \in Answers(Sent) : a < n
        /\ response.to # 0 => \A a \in Answers(Sent) : a < response.to
        /\ response.to <= n
    BY <2>2 DEF Ordered, AnswersFirst, PendingIsLast
  <2>5. answer.to # 0 => \A a \in Answers(Sent) : a < answer.to
    BY <2>2, <2>3, <2>4
  <2>6. /\ Once(Sent', again)
        /\ Answers(Sent') \subseteq Answers(Sent) \cup ({answer.to} \ {0})
    BY <2>1, <2>3, <2>5, TextIsSent DEF Ordered
  <2>7. Coming' = Coming
    BY <2>1 DEF Coming
  <2>8. \A h \in Heads(Coming) : n < h /\ (\A a \in Answers(Sent) : a < h) /\ h \in Nat
    BY <2>2, ComingIsSeq DEF Ordered, AnswersFirst
  <2>9. answer.to <= n /\ answer.to \in Nat
    BY <2>2, <2>3, <2>4
  <2>10. AnswersFirst'
    <3>1. \A h \in Heads(Coming) : answer.to < h
      BY <2>2, <2>8, <2>9
    <3> QED
      BY <2>1, <2>6, <2>7, <2>8, <3>1 DEF AnswersFirst
  <2>11. Counted'
    <3>1. n <= Len(asked) /\ \A a \in Answers(Sent) : a <= Len(asked)
      BY <2>2 DEF Ordered, Counted
    <3>2. answer.to <= Len(asked)
      BY <2>2, <2>9, <3>1
    <3> QED
      BY <2>1, <2>6, <3>1, <3>2 DEF Counted
  <2>12. PendingIsLast'
    <3>1. answer.to # 0 => \A a \in Answers(Sent') : a <= answer.to
      BY <2>2, <2>5, <2>6, <2>9
    <3> QED
      BY <2>1, <2>2, <2>9, <3>1 DEF PendingIsLast
  <2> QED
    BY <2>1, <2>2, <2>6, <2>7, <2>10, <2>11, <2>12 DEF Ordered, AgainIsLast
<1>27. ASSUME NEW w \in Workers, SendPartly(w), UNCHANGED again PROVE Ordered'
  <2>1. /\ Room \in 0..Len(outputBuffer)
        /\ delivered' = delivered \o Take(outputBuffer, Room)
        /\ outputBuffer' = Drop(outputBuffer, Room)
        /\ UNCHANGED <<asked, unsent, inbox, inputBuffer, isOpen, status, request,
                       response, keepAlive, again>>
    BY <1>27 DEF SendPartly, Transmit, Base, Shapes
  <2>2. Sent' = Sent
    BY <2>1, SentIsSplit
  <2> QED
    BY <2>1, <2>2, OrderUntouched DEF Coming
<1>28. ASSUME NEW w \in Workers, SendAll(w), UNCHANGED again PROVE Ordered'
  <2>1. Sent' = Sent /\ request'.number = 0 /\ response'.to = 0
    BY <1>28, AllIsSent, CleanIsRequest DEF SendAll, SendRest, NoAnswer, Base
  <2>2. Coming' = Coming /\ UNCHANGED <<asked, isOpen>>
    BY <1>28 DEF SendAll, Coming
  <2>3. AgainIsLast'
    BY <1>28 DEF SendAll, Ordered, AgainIsLast
  <2> QED
    BY <1>28, <2>1, <2>2, <2>3, OrderStays DEF Ordered
<1>29. ASSUME NEW w \in Workers, SendAllAndClose(w), UNCHANGED again PROVE Ordered'
  <2>1. Sent' = Sent /\ ~isOpen' /\ ~keepAlive' /\ request'.number = 0 /\ response'.to = 0
    BY <1>29, AllIsSent, CleanIsRequest DEF SendAllAndClose, SendRest, NoAnswer, Base
  <2> QED
    BY <1>29, <2>1 DEF Ordered, PendingIsLast, AgainIsLast
<1>30. CASE UNCHANGED vars
  BY <1>30, OrderUntouched DEF vars, Coming, Sent
<1> QED
  BY <1>1, <1>2, <1>3, <1>4, <1>5, <1>6, <1>7, <1>8, <1>9, <1>10, <1>11, <1>12,
     <1>13, <1>14, <1>15, <1>16, <1>17, <1>18, <1>19, <1>20, <1>21, <1>22, <1>23,
     <1>24, <1>25, <1>26, <1>27, <1>28, <1>29, <1>30 DEF Next, ClientStep,
     WorkerStep

-----------------------------------------------------------------------------
(* The theorems *)

Inv == Base /\ Handled /\ Ordered

LEMMA InitFits == Init => Inv /\ Watched
<1> SUFFICES ASSUME Init PROVE Inv /\ Watched
  OBVIOUS
<1>1. Coming = <<>> /\ Sent = <<>>
  <2>1. /\ <<>> \in Seq(PieceAsked) /\ <<>> \in Seq(AnswerPiece)
        /\ inputBuffer = <<>> /\ inbox = <<>> /\ unsent = <<>>
        /\ outputBuffer = <<>> /\ delivered = <<>>
    BY DEF Init
  <2> QED
    BY <2>1, ConcatEmptySeq DEF Coming, Sent
<1>2. Base
  <2>1. Shapes
    <3>1. /\ asked = <<>> /\ unsent = <<>> /\ inbox = <<>> /\ inputBuffer = <<>>
          /\ outputBuffer = <<>> /\ delivered = <<>>
      BY DEF Init
    <3>2. /\ asked \in Seq(Requests) /\ Len(asked) = 0 /\ Len(inbox) = 0
          /\ unsent \in Seq(PieceAsked) /\ inbox \in Seq(PieceAsked)
          /\ inputBuffer \in Seq(PieceAsked)
          /\ outputBuffer \in Seq(AnswerPiece) /\ delivered \in Seq(AnswerPiece)
      BY <3>1
    <3>3. Len(asked) <= MaxRequests /\ Len(inbox) <= ReceiveBuffer
      BY <3>2, HttpConnectionAssumption
    <3>4. unread \in 0..SendBuffer /\ left \in 0..RecvLimit /\ arg \in Nat
      BY HttpConnectionAssumption, LimitIsNat DEF Init
    <3>5. request \in RequestShape
      <4>1. request = NoRequest
        BY DEF Init
      <4>2. <<>> \in Seq(PieceType)
        OBVIOUS
      <4>3. 0 \in 0..MaxRequests /\ -1 \in Nat \cup {-1}
        BY HttpConnectionAssumption
      <4> QED
        BY <4>1, <4>2, <4>3 DEF NoRequest, RequestShape
    <3>6. /\ edge \in BOOLEAN /\ nospace \in BOOLEAN /\ isOpen \in BOOLEAN
          /\ keepAlive \in BOOLEAN /\ looping \in BOOLEAN /\ calm \in BOOLEAN
      BY DEF Init
    <3>7. /\ status \in {"RECEIVE_HEADER", "RECEIVE_BODY", "SEND"}
          /\ pc \in [Workers -> Places]
      BY DEF Init, Places
    <3>8. response \in AnswerType /\ again \in 0..MaxRequests
      BY NoAnswerIsAnswer, HttpConnectionAssumption DEF Init
    <3> QED
      BY <3>2, <3>3, <3>4, <3>5, <3>6, <3>7, <3>8 DEF Shapes
  <2>2. OneInside
    BY DEF Init, OneInside, Holding
  <2>3. ContextFits
    BY DEF Init, ContextFits, CallFits, Working
  <2> QED
    BY <2>1, <2>2, <2>3 DEF Base
<1>3. Handled
  <2>1. HeaderEnds(0) = {}
    BY DEF Init, HeaderEnds
  <2>2. \A w \in Workers : pc[w] # "data"
    BY DEF Init
  <2>3. status = "RECEIVE_HEADER"
    BY DEF Init
  <2> QED
    BY <2>1, <2>2, <2>3 DEF Handled, TooLittle
<1>4. Ordered
  <2>1. /\ Heads(Coming) = {} /\ Answers(Sent) = {} /\ InOrder(Coming)
        /\ Once(Sent, again)
    BY <1>1 DEF Heads, Answers, InOrder, Once
  <2>2. request.number = 0 /\ asked = <<>> /\ response.to = 0 /\ again = 0
    BY DEF Init, NoRequest, NoAnswer
  <2>3. request.number <= Len(asked)
    BY <2>2
  <2>4. PendingIsLast /\ AgainIsLast
    BY <2>2 DEF PendingIsLast, AgainIsLast
  <2> QED
    BY <2>1, <2>2, <2>3, <2>4 DEF Ordered, AnswersFirst, Counted
<1>5. Watched
  BY DEF Init, Watched
<1> QED
  BY <1>2, <1>3, <1>4, <1>5 DEF Inv

(***************************************************************************)
(* The buffers, the place of every worker and what it found when a handler *)
(* was called, and the order of the requests fit together in every state.  *)
(***************************************************************************)
THEOREM InvariantHolds == Spec => []Inv
<1>1. Init => Inv
  BY InitFits
<1>2. Inv /\ [Next]_vars => Inv'
  BY BaseStep, HandledStep, OrderedStep DEF Inv
<1> QED
  BY <1>1, <1>2, PTL DEF Spec

LEMMA WatchedHolds == BufferFits => (Spec => []Watched)
<1> SUFFICES ASSUME BufferFits PROVE Spec => []Watched
  OBVIOUS
<1>1. Init => Watched
  BY InitFits
<1>2. Inv /\ Watched /\ [Next]_vars => Watched'
  BY WatchedStep DEF Inv
<1> QED
  BY <1>1, <1>2, InvariantHolds, PTL DEF Spec

(* Pieces of requests that were asked are pieces of requests. *)
LEMMA TypesAreKept == Base => TypeOK
<1> SUFFICES ASSUME Base PROVE TypeOK
  OBVIOUS
<1>1. \A S : \A s \in Seq(S) : Range(s) \subseteq S
  BY ElementOfSeq DEF Range
<1>2. PieceAsked \subseteq PieceType
  <2>1. Len(asked) \in Nat /\ Len(asked) <= MaxRequests /\ MaxRequests \in Nat
    BY HttpConnectionAssumption DEF Base, Shapes
  <2>2. 1..Len(asked) \subseteq 1..MaxRequests
    BY <2>1
  <2> QED
    BY <2>2 DEF PieceAsked, PieceType
<1>3. Range(asked) \subseteq Requests /\ Len(asked) <= MaxRequests
  BY <1>1 DEF Base, Shapes
<1>4. \A s \in {unsent, inbox, inputBuffer, request.params} :
        Range(s) \subseteq PieceType
  <2>1. /\ unsent \in Seq(PieceAsked) /\ inbox \in Seq(PieceAsked)
        /\ inputBuffer \in Seq(PieceAsked)
    BY DEF Base, Shapes
  <2>2. request.params \in Seq(PieceType)
    BY DEF Base, Shapes, RequestShape
  <2>3. /\ Range(unsent) \subseteq PieceAsked /\ Range(inbox) \subseteq PieceAsked
        /\ Range(inputBuffer) \subseteq PieceAsked
        /\ Range(request.params) \subseteq PieceType
    BY <1>1, <2>1, <2>2
  <2> QED
    BY <1>2, <2>3
<1>5. \A piece \in Range(outputBuffer) \cup Range(delivered) :
        piece.part \in 1..ResponseLength /\ piece.answer.to \in 0..MaxRequests
  <2>1. Range(outputBuffer) \subseteq AnswerPiece /\ Range(delivered) \subseteq AnswerPiece
    BY <1>1 DEF Base, Shapes
  <2> QED
    BY <2>1 DEF AnswerPiece, AnswerType
<1>6. request.number \in 0..MaxRequests /\ request.length \in {-1} \cup Nat
  BY DEF Base, Shapes, RequestShape
<1>7. \A w \in Workers :
        pc[w] \in {"idle", "in", "out", "recv", "data", "header", "body",
                   "ready", "send"}
  BY DEF Base, Shapes, Places
<1>8. {response.to, again} \subseteq 0..MaxRequests
  BY DEF Base, Shapes, AnswerType
<1> QED
  BY <1>3, <1>4, <1>5, <1>6, <1>7, <1>8 DEF TypeOK, Base, Shapes

(***************************************************************************)
(* Wherever the edges, the chunks and the workers meet, what the client    *)
(* sent is read and handled: with nobody at work nothing that could be     *)
(* handled lies in InputBuffer, nor anything in the kernel for which no    *)
(* event is due; provided that the loop of Receivable can empty the        *)
(* receive buffer of the kernel.                                           *)
(***************************************************************************)
THEOREM NothingIsForgotten == BufferFits => (Spec => []NothingForgotten)
<1> SUFFICES ASSUME BufferFits PROVE Spec => []NothingForgotten
  OBVIOUS
<1>1. Inv /\ Watched => NothingForgotten
  <2> SUFFICES ASSUME Inv, Watched PROVE NothingForgotten
    OBVIOUS
  <2>1. TypeOK
    BY TypesAreKept DEF Inv
  <2>2. BufferIsHandled
    <3> SUFFICES ASSUME isOpen, \A w \in Workers : pc[w] \notin Holding
                 PROVE  /\ status = "SEND" => outputBuffer # <<>>
                        /\ calm /\ status = "RECEIVE_HEADER" => HeaderEnds(0) = {}
                        /\ calm /\ status = "RECEIVE_BODY" =>
                             request.length > Len(inputBuffer)
                        /\ status \in {"RECEIVE_HEADER", "RECEIVE_BODY", "SEND"}
      BY DEF BufferIsHandled, MutexFree, Holding
    <3>1. \A w \in Workers : pc[w] \notin Working
      BY DEF Holding, Working
    <3>2. calm => TooLittle
      BY <3>1 DEF Inv, Handled
    <3>3. status \in {"RECEIVE_HEADER", "RECEIVE_BODY", "SEND"}
      BY DEF Inv, Base, Shapes
    <3>4. status = "SEND" => outputBuffer # <<>>
      BY DEF Inv, Base, ContextFits
    <3> QED
      BY <3>2, <3>3, <3>4 DEF TooLittle
  <2>3. SocketIsRead
    <3> SUFFICES ASSUME isOpen, ~edge, \A w \in Workers : pc[w] # "in",
                        \A w \in Workers : pc[w] \notin Holding
                 PROVE  inbox = <<>>
      BY DEF SocketIsRead, MutexFree, Holding
    <3> QED
      BY DEF Watched
  <2> QED
    BY <2>1, <2>2, <2>3 DEF NothingForgotten
<1> QED
  BY <1>1, InvariantHolds, WatchedHolds, PTL

(***************************************************************************)
(* A worker that comes late to a closed connection sends nothing more and  *)
(* handles nothing more.                                                   *)
(***************************************************************************)
THEOREM ClosedStaysQuiet == Spec => []ClosedIsQuiet
<1>1. Inv => ClosedIsQuiet
  BY DEF Inv, Base, ContextFits, CallFits, ClosedIsQuiet, Working
<1> QED
  BY <1>1, InvariantHolds, PTL

(***************************************************************************)
(* However often requests are refused, time out or make a handler throw:   *)
(* no request is answered twice, and none after a later one, but for the   *)
(* one whose answer a timeout found on its way: nothing is answered after  *)
(* that one, and the connection ends.                                      *)
(***************************************************************************)
THEOREM NobodyIsAnsweredTwice == Spec => []AnsweredOnce
<1>1. Inv => AnsweredOnce
  <2> SUFFICES ASSUME Inv PROVE AnsweredOnce
    OBVIOUS
  <2>1. Once(delivered, again) /\ Answers(delivered) \subseteq Answers(Sent)
    BY SentIsSeq DEF Inv, Ordered
  <2>2. ASSUME NEW i \in 1..Len(delivered), NEW j \in 1..Len(delivered),
               i < j, delivered[i].answer.to # 0, delivered[j].answer.to # 0
        PROVE  \/ delivered[i].answer.to < delivered[j].answer.to
               \/ /\ delivered[i].answer = delivered[j].answer
                  /\ delivered[i].part < delivered[j].part
               \/ delivered[i].answer.to = again /\ delivered[j].answer.to = again
    BY <2>1, <2>2 DEF Once, IsAnswer
  <2>3. ASSUME again # 0, NEW i \in 1..Len(delivered)
        PROVE  delivered[i].answer.to <= again
    <3>1. CASE delivered[i].answer.to = 0
      BY <3>1 DEF Inv, Base, Shapes
    <3>2. CASE delivered[i].answer.to # 0
      <4>1. delivered[i].answer.to \in Answers(delivered)
        BY <3>2 DEF Answers, IsAnswer
      <4> QED
        BY <2>1, <2>3, <4>1 DEF Inv, Ordered, AgainIsLast
    <3> QED
      BY <3>1, <3>2
  <2>4. again # 0 => ~keepAlive
    BY DEF Inv, Ordered, AgainIsLast
  <2> QED
    BY <2>2, <2>3, <2>4 DEF AnsweredOnce
<1> QED
  BY <1>1, InvariantHolds, PTL

-----------------------------------------------------------------------------
(* What is still to be read of the stream *)

(***************************************************************************)
(* s is what the client sends of the requests in all, from request m on:   *)
(* the pieces of request n lie in it behind place at[n].                   *)
(***************************************************************************)
Follows(all, s, m) ==
  \E at \in [m..Len(all) + 1 -> 0..Len(s)] :
    /\ at[m] = 0 /\ at[Len(all) + 1] = Len(s)
    /\ \A i, j \in m..Len(all) + 1 : i <= j => at[i] <= at[j]
    /\ \A n \in m..Len(all) :
         /\ at[n + 1] = at[n] + Len(Stream(n, all[n]))
         /\ \A k \in 1..Len(Stream(n, all[n])) :
              s[at[n] + k] = Stream(n, all[n])[k]

-----------------------------------------------------------------------------
(* Whose turn it is *)

Serving(place) == \E w \in Workers : pc[w] = place

(* The pieces of the responses to all requests before m. *)
Before(m) == (m - 1) * ResponseLength

(* The header of request m is looked for, in the state that Reset leaves; *)
Front(m) ==
  /\ status = "RECEIVE_HEADER" /\ ~Serving("body") /\ ~Serving("ready")
  /\ Len(delivered) = Before(m)
  /\ Follows(asked, Coming, m)
  /\ keepAlive /\ request.length = -1 /\ request.params = <<>>
  /\ Serving("header") => m \in 1..Len(asked) /\ arg = asked[m].head

(* or it was accepted, *)
IsRead(m) ==
  /\ m \in 1..Len(asked)
  /\ status # "SEND"
  /\ Len(delivered) = Before(m)
  /\ Promise!HeaderStatus(asked[m]) = "OK"
  /\ keepAlive <=> ~asked[m].close
  /\ request.number = m

(* and its body is in front of the stream; *)
InBody(m) ==
  /\ status = "RECEIVE_BODY" \/ Serving("body")
  /\ ~Serving("ready")
  /\ IsRead(m)
  /\ request.params = <<>>
  /\ request.method = asked[m].method
  /\ request.method = "POST" => request.type = asked[m].type
  /\ request.length = asked[m].length
  /\ request.length \in 0..Len(Coming)
  /\ \A k \in 1..request.length : Coming[k] = Piece(m, "body")
  /\ Follows(asked, Drop(Coming, request.length), m + 1)

(* or it is with the handler, *)
Ready(m) ==
  /\ Serving("ready")
  /\ IsRead(m)
  /\ Promise!Status(asked[m]) = "OK"
  /\ request.params = Promise!Body(m, asked[m])
  /\ Follows(asked, Coming, m + 1)

(* or what is left of the response is sent. *)
Sending(m) ==
  /\ status = "SEND"
  /\ m \in 1..Len(asked)
  /\ Len(outputBuffer) \in 1..ResponseLength
  /\ Len(delivered) + Len(outputBuffer) = Before(m) + ResponseLength
  /\ \A k \in 1..Len(outputBuffer) :
       outputBuffer[k] = Promise!Piece(Promise!Answer(m, asked[m]),
                                       ResponseLength - Len(outputBuffer) + k)
  /\ keepAlive <=> ~Promise!Final(asked[m])
  /\ keepAlive => Follows(asked, Coming, m + 1)

Turn(m) == Front(m) \/ InBody(m) \/ Ready(m) \/ Sending(m)

(* All that was sent is what was promised. *)
AsPromised ==
  /\ Len(delivered) <= Before(Len(asked) + 1)
  /\ \A i \in 1..Len(delivered) : delivered[i] = Promise!Script(0)[i]

Progress ==
  isOpen /\ calm => AsPromised /\ \E m \in 1..Len(asked) + 1 : Turn(m)

(***************************************************************************)
(* The header is shorter than MAX_HEADER_LENGTH (the length is checked     *)
(* while the end has not arrived, or half of it has), and a POST request   *)
(* says of which type its body is (or it is read by the type of the last). *)
(***************************************************************************)
RequestsFit ==
  \A r \in Requests : /\ r.head < MaxHeader
                      /\ r.method = "POST" => r.type # "none"

-----------------------------------------------------------------------------
(* Two cuts are one. *)
LEMMA DropTwice ==
  ASSUME NEW S, NEW s \in Seq(S), NEW a \in Nat, NEW b \in Nat, a + b <= Len(s)
  PROVE  Drop(Drop(s, a), b) = Drop(s, a + b)
<1> DEFINE t == Drop(s, a)
<1>1. a \in 0..Len(s) /\ a + b \in 0..Len(s) /\ Len(s) \in Nat
  OBVIOUS
<1>2. t \in Seq(S) /\ Len(t) = Len(s) - a /\ \A i \in 1..Len(s) - a : t[i] = s[a + i]
  BY <1>1, DropIsSeq
<1> HIDE DEF t
<1>3. b \in 0..Len(t)
  BY <1>1, <1>2
<1>4. Drop(t, b) \in Seq(S) /\ Len(Drop(t, b)) = Len(t) - b
      /\ \A i \in 1..Len(t) - b : Drop(t, b)[i] = t[b + i]
  BY <1>2, <1>3, DropIsSeq
<1>5. Drop(s, a + b) \in Seq(S) /\ Len(Drop(s, a + b)) = Len(s) - (a + b)
      /\ \A i \in 1..Len(s) - (a + b) : Drop(s, a + b)[i] = s[a + b + i]
  BY <1>1, DropIsSeq
<1>6. Len(Drop(t, b)) = Len(Drop(s, a + b))
  <2>1. Len(s) - a - b = Len(s) - (a + b)
    BY <1>1
  <2> QED
    BY ONLY <1>2, <1>4, <1>5, <2>1
<1>7. ASSUME NEW i \in 1..Len(Drop(t, b)) PROVE Drop(t, b)[i] = Drop(s, a + b)[i]
  <2>1. i \in 1..Len(t) - b /\ b + i \in 1..Len(s) - a /\ i \in 1..Len(s) - (a + b)
        /\ a + (b + i) = a + b + i
    BY <1>1, <1>2, <1>4
  <2> QED
    BY <1>2, <1>4, <1>5, <2>1
<1> QED
  BY <1>4, <1>5, <1>6, <1>7, SeqEqual DEF t

-----------------------------------------------------------------------------
(* The pieces of the first request are in front, and behind them the rest. *)
LEMMA FirstFollows ==
  ASSUME NEW S, NEW s \in Seq(S), NEW all \in Seq(Requests), NEW m \in 1..Len(all),
         Follows(all, s, m)
  PROVE  LET size == Len(Stream(m, all[m]))
         IN  /\ size \in 0..Len(s)
             /\ \A k \in 1..size : s[k] = Stream(m, all[m])[k]
             /\ Follows(all, Drop(s, size), m + 1)
<1> DEFINE L == Len(all)
           Size(n) == Len(Stream(n, all[n]))
           size == Size(m)
<1>1. PICK at \in [m..L + 1 -> 0..Len(s)] :
        /\ at[m] = 0 /\ at[L + 1] = Len(s)
        /\ \A i, j \in m..L + 1 : i <= j => at[i] <= at[j]
        /\ \A n \in m..L :
             /\ at[n + 1] = at[n] + Size(n)
             /\ \A k \in 1..Size(n) : s[at[n] + k] = Stream(n, all[n])[k]
  BY DEF Follows
<1>2. L \in Nat /\ m \in Nat /\ m <= L /\ Len(s) \in Nat
  OBVIOUS
<1>3. \A n \in m..L : Size(n) \in Nat
  <2>1. ASSUME NEW n \in m..L PROVE Size(n) \in Nat
    <3>1. n \in 1..L /\ n \in Nat \ {0}
      BY <1>2
    <3>2. all[n] \in Requests
      BY <3>1, ElementOfSeq
    <3>3. Stream(n, all[n]) \in Seq([of : 1..n, is : {"head", "end1", "end2", "body"}])
      BY <3>1, <3>2, StreamIsSeq
    <3> QED
      BY <3>3
  <2> QED
    BY <2>1
<1>4. m \in m..L /\ m + 1 \in m..L + 1
  BY <1>2
<1>5. size \in Nat /\ at[m + 1] = size
  BY <1>1, <1>3, <1>4
<1>6. \A k \in 1..size : s[k] = Stream(m, all[m])[k]
  BY <1>1, <1>4, <1>5
<1>7. size \in 0..Len(s)
  BY <1>1, <1>4, <1>5
<1> DEFINE t == Drop(s, size)
           low == [n \in m + 1..L + 1 |-> at[n] - size]
<1> HIDE DEF L, size, Size
<1>8. t \in Seq(S) /\ Len(t) = Len(s) - size
      /\ \A i \in 1..Len(s) - size : t[i] = s[size + i]
  BY <1>7, DropIsSeq
<1>9. ASSUME NEW n \in m + 1..L + 1
      PROVE  n \in m..L + 1 /\ at[n] \in size..Len(s)
  <2>1. n \in m..L + 1 /\ m + 1 <= n
    BY <1>2
  <2>2. at[n] \in 0..Len(s) /\ at[m + 1] <= at[n]
    BY <1>1, <1>4, <2>1
  <2> QED
    BY <1>2, <1>5, <2>1, <2>2
<1> HIDE DEF t
<1>10. low \in [m + 1..L + 1 -> 0..Len(t)]
  <2>1. ASSUME NEW n \in m + 1..L + 1 PROVE at[n] - size \in 0..Len(t)
    BY <1>2, <1>5, <1>8, <1>9
  <2> QED
    BY <2>1
<1>11. low[m + 1] = 0 /\ low[L + 1] = Len(t)
  <2>1. m + 1 \in m + 1..L + 1 /\ L + 1 \in m + 1..L + 1
    BY <1>2
  <2> QED
    BY <1>1, <1>5, <1>8, <2>1
<1>12. \A i, j \in m + 1..L + 1 : i <= j => low[i] <= low[j]
  <2>1. ASSUME NEW i \in m + 1..L + 1, NEW j \in m + 1..L + 1, i <= j
        PROVE  low[i] <= low[j]
    <3>1. at[i] <= at[j] /\ at[i] \in Nat /\ at[j] \in Nat
      BY <1>1, <1>5, <1>9, <2>1
    <3> QED
      BY <1>5, <3>1
  <2> QED
    BY <2>1
<1>13. ASSUME NEW n \in m + 1..L
       PROVE  /\ low[n + 1] = low[n] + Size(n)
              /\ \A k \in 1..Size(n) : t[low[n] + k] = Stream(n, all[n])[k]
  <2>1. n \in m..L /\ n \in m + 1..L + 1 /\ n + 1 \in m + 1..L + 1
    BY <1>2
  <2>2. /\ at[n + 1] = at[n] + Size(n) /\ Size(n) \in Nat
        /\ \A k \in 1..Size(n) : s[at[n] + k] = Stream(n, all[n])[k]
    BY <1>1, <1>3, <2>1
  <2>3. at[n] \in size..Len(s) /\ at[n + 1] \in size..Len(s)
    BY <1>9, <2>1
  <2>4. low[n] = at[n] - size /\ low[n + 1] = at[n + 1] - size
    BY <2>1
  <2> HIDE DEF low
  <2>5. ASSUME NEW k \in 1..Size(n) PROVE t[low[n] + k] = Stream(n, all[n])[k]
    <3> DEFINE a == at[n]
               b == at[n + 1]
               z == Size(n)
    <3>0. /\ a \in size..Len(s) /\ b \in size..Len(s) /\ b = a + z /\ z \in Nat
          /\ k \in 1..z /\ low[n] = a - size /\ size \in Nat /\ Len(s) \in Nat
      BY <1>2, <1>5, <2>2, <2>3, <2>4
    <3> HIDE DEF a, b, z
    <3>1. low[n] + k \in 1..Len(s) - size /\ size + (low[n] + k) = a + k
      BY ONLY <3>0
    <3> USE DEF a
    <3> QED
      BY <1>8, <2>2, <3>1
  <2> QED
    BY <1>5, <2>2, <2>3, <2>4, <2>5
<1>14. Follows(all, t, m + 1)
  <2> HIDE DEF low
  <2> QED
    BY <1>10, <1>11, <1>12, <1>13 DEF Follows, L, Size
<1> QED
  BY <1>6, <1>7, <1>14 DEF t, size, Size

(* When nothing is left of the stream, all requests have been read. *)
LEMMA NothingFollows ==
  ASSUME NEW S, NEW s \in Seq(S), NEW all \in Seq(Requests), NEW m \in 1..Len(all) + 1,
         Follows(all, s, m), Len(s) # 0
  PROVE  m \in 1..Len(all)
<1>1. Len(all) \in Nat
  OBVIOUS
<1> QED
  BY <1>1 DEF Follows

(* The client asks one more. *)
LEMMA AskFollows ==
  ASSUME NEW S, NEW s \in Seq(S), NEW all \in Seq(Requests), NEW m \in 1..Len(all) + 1,
         NEW r \in Requests, Follows(all, s, m), Stream(Len(all) + 1, r) \in Seq(S)
  PROVE  Follows(Append(all, r), s \o Stream(Len(all) + 1, r), m)
<1> DEFINE L == Len(all)
           more == Append(all, r)
           new == Stream(L + 1, r)
           t == s \o new
           Size(n) == Len(Stream(n, all[n]))
<1>1. PICK at \in [m..L + 1 -> 0..Len(s)] :
        /\ at[m] = 0 /\ at[L + 1] = Len(s)
        /\ \A i, j \in m..L + 1 : i <= j => at[i] <= at[j]
        /\ \A n \in m..L :
             /\ at[n + 1] = at[n] + Size(n)
             /\ \A k \in 1..Size(n) : s[at[n] + k] = Stream(n, all[n])[k]
  BY DEF Follows
<1>2. L \in Nat /\ m \in Nat /\ m <= L + 1 /\ m >= 1 /\ Len(s) \in Nat /\ Len(new) \in Nat
  OBVIOUS
<1>3. /\ Len(more) = L + 1 /\ more[L + 1] = r
      /\ \A n \in 1..L : more[n] = all[n]
  BY AppendProperties
<1>4. /\ Len(t) = Len(s) + Len(new)
      /\ \A i \in 1..Len(s) + Len(new) : t[i] = IF i <= Len(s) THEN s[i] ELSE new[i - Len(s)]
  BY ConcatProperties
<1> DEFINE high == [n \in m..L + 2 |-> IF n <= L + 1 THEN at[n] ELSE Len(t)]
<1> HIDE DEF L, more, new, t
<1>5. high \in [m..L + 2 -> 0..Len(t)]
  <2>1. ASSUME NEW n \in m..L + 2
        PROVE  (IF n <= L + 1 THEN at[n] ELSE Len(t)) \in 0..Len(t)
    <3>1. CASE n <= L + 1
      <4>1. n \in m..L + 1
        BY <1>2, <3>1
      <4>2. at[n] \in 0..Len(s)
        BY <1>1, <4>1
      <4> QED
        BY <1>2, <1>4, <3>1, <4>2
    <3>2. CASE ~(n <= L + 1)
      BY <1>2, <1>4, <3>2
    <3> QED
      BY <3>1, <3>2
  <2> QED
    BY <2>1
<1>6. /\ \A n \in m..L + 1 : high[n] = at[n]
      /\ high[L + 2] = Len(t)
  BY <1>2
<1> HIDE DEF high
<1>7. high[m] = 0 /\ high[L + 2] = Len(t)
  BY <1>1, <1>2, <1>6
<1>8. ASSUME NEW i \in m..L + 2, NEW j \in m..L + 2, i <= j
      PROVE  high[i] <= high[j]
  <2>1. CASE j <= L + 1
    <3>1. i \in m..L + 1 /\ j \in m..L + 1
      BY <1>2, <1>8, <2>1
    <3> QED
      BY <1>1, <1>6, <1>8, <3>1
  <2>2. CASE j = L + 2
    <3>1. high[i] \in 0..Len(t)
      BY <1>5
    <3> QED
      BY <1>6, <2>2, <3>1
  <2> QED
    BY <1>2, <2>1, <2>2
<1>9. ASSUME NEW n \in m..L + 1
      PROVE  /\ high[n + 1] = high[n] + Len(Stream(n, more[n]))
             /\ \A k \in 1..Len(Stream(n, more[n])) :
                  t[high[n] + k] = Stream(n, more[n])[k]
  <2>1. CASE n \in m..L
    <3>1. n \in m..L + 1 /\ n + 1 \in m..L + 1 /\ n \in 1..L
      BY <1>2, <2>1
    <3>2. /\ high[n] = at[n] /\ high[n + 1] = at[n + 1] /\ more[n] = all[n]
          /\ at[n] \in 0..Len(s) /\ at[n + 1] \in 0..Len(s)
      BY <1>1, <1>3, <1>6, <3>1
    <3>3. /\ at[n + 1] = at[n] + Size(n)
          /\ \A k \in 1..Size(n) : s[at[n] + k] = Stream(n, all[n])[k]
      BY <1>1, <2>1
    <3> DEFINE z == Size(n)
    <3>4. z \in Nat
      <4>1. all[n] \in Requests /\ n \in Nat \ {0}
        BY <3>1, ElementOfSeq DEF L
      <4>2. Stream(n, all[n]) \in Seq([of : 1..n, is : {"head", "end1", "end2", "body"}])
        BY <4>1, StreamIsSeq
      <4> QED
        BY <4>2
    <3>5. ASSUME NEW k \in 1..z PROVE t[at[n] + k] = Stream(n, all[n])[k]
      <4> DEFINE a == at[n]
                 b == at[n + 1]
                 j == at[n] + k
      <4>1. a \in 0..Len(s) /\ b \in 0..Len(s) /\ b = a + z
        BY <3>2, <3>3
      <4> HIDE DEF a, b, z
      <4>2. a + k \in 1..Len(s) + Len(new) /\ a + k <= Len(s)
        BY ONLY <1>2, <3>4, <4>1, k \in 1..z
      <4>3. j \in 1..Len(s) + Len(new) /\ j <= Len(s)
        BY <4>2 DEF a
      <4> HIDE DEF j
      <4>4. t[j] = s[j]
        BY <1>4, <4>3
      <4> QED
        BY <3>3, <4>4 DEF j, z
    <3> QED
      BY <3>2, <3>3, <3>5
  <2>2. CASE n = L + 1
    <3>1. high[n] = Len(s) /\ high[n + 1] = Len(t) /\ more[n] = r
      <4>1. L + 1 \in m..L + 1 /\ n + 1 = L + 2
        BY <1>2, <2>2
      <4> QED
        BY <1>1, <1>3, <1>6, <2>2, <4>1
    <3>2. Stream(n, more[n]) = new
      BY <2>2, <3>1 DEF new, L
    <3>3. ASSUME NEW k \in 1..Len(new) PROVE t[Len(s) + k] = new[k]
      <4> DEFINE j == Len(s) + k
      <4>1. j \in 1..Len(s) + Len(new) /\ ~(j <= Len(s)) /\ j - Len(s) = k
        BY <1>2
      <4> HIDE DEF j
      <4>2. t[j] = new[k]
        BY <1>4, <4>1
      <4> QED
        BY <4>2 DEF j
    <3> QED
      BY <1>4, <3>1, <3>2, <3>3
  <2> QED
    BY <1>2, <2>1, <2>2
<1>10. Len(more) + 1 = L + 2 /\ Len(more) = L + 1
  BY <1>2, <1>3
<1> DEFINE N == Len(more)
<1> HIDE DEF N
<1>11. N + 1 = L + 2 /\ N = L + 1
  BY <1>10 DEF N
<1>12. /\ high \in [m..N + 1 -> 0..Len(t)]
       /\ high[m] = 0 /\ high[N + 1] = Len(t)
       /\ \A i, j \in m..N + 1 : i <= j => high[i] <= high[j]
  BY <1>5, <1>7, <1>8, <1>11
<1>13. \A n \in m..N :
         /\ high[n + 1] = high[n] + Len(Stream(n, more[n]))
         /\ \A k \in 1..Len(Stream(n, more[n])) :
              t[high[n] + k] = Stream(n, more[n])[k]
  BY <1>9, <1>11
<1>14. Follows(more, t, m)
  BY <1>12, <1>13 DEF Follows, N
<1> QED
  BY <1>14 DEF more, t, new, L

-----------------------------------------------------------------------------
(* Counting *)

LEMMA BeforeIsNat ==
  ASSUME NEW m \in Nat \ {0}
  PROVE  Before(m) \in Nat /\ Before(m + 1) = Before(m) + ResponseLength
  BY HttpConnectionAssumption DEF Before

LEMMA BeforeGrows ==
  ASSUME NEW m \in Nat \ {0}, NEW n \in Nat \ {0}, m < n
  PROVE  Before(m) + ResponseLength <= Before(n)
  BY HttpConnectionAssumption DEF Before

(* Where the pieces of an answer are in the script. *)
LEMMA ScriptIs ==
  ASSUME NEW all \in Seq(Requests), all = asked, NEW m \in 1..Len(all),
         NEW p \in 1..ResponseLength
  PROVE  /\ Before(m) + p \in 1..Before(Len(all) + 1)
         /\ Promise!Script(0)[Before(m) + p] =
              Promise!Piece(Promise!Answer(m, all[m]), p)
<1> DEFINE i == Before(m) + p
           L == Len(all)
<1>1. m \in Nat \ {0} /\ L \in Nat /\ m <= L /\ ResponseLength \in Nat \ {0}
  BY HttpConnectionAssumption
<1>2. Before(m) \in Nat /\ Before(L + 1) \in Nat /\ Before(m) + ResponseLength <= Before(L + 1)
  BY <1>1, BeforeIsNat, BeforeGrows
<1>3. i \in 1..Before(L + 1)
  BY <1>1, <1>2
<1>4. Before(L + 1) = Len(asked) * ResponseLength
  BY <1>1 DEF Before
<1>5. i - 1 = (m - 1) * ResponseLength + (p - 1) /\ i - 1 \in Nat
      /\ p - 1 \in 0..ResponseLength - 1 /\ m - 1 \in Nat
  BY <1>1, <1>2 DEF Before
<1> DEFINE j == i - 1
           q == p - 1
           n == m - 1
<1> HIDE DEF j, q, n
<1>6. j = n * ResponseLength + q /\ j \in Nat /\ q \in 0..ResponseLength - 1 /\ n \in Nat
  BY <1>5 DEF j, q, n
<1>7. j \div ResponseLength = n /\ j % ResponseLength = q
  BY ONLY <1>1, <1>6
<1>8. (i - 1) \div ResponseLength + 1 = m /\ ((i - 1) % ResponseLength) + 1 = p
  BY <1>1, <1>7 DEF j, q, n
<1>9. Promise!Script(0) =
        [k \in 1..(Len(asked) * ResponseLength) |->
           Promise!Piece(IF (k - 1) \div ResponseLength + 1 = 0
                         THEN Promise!TooLargeAnswer
                         ELSE Promise!Answer((k - 1) \div ResponseLength + 1,
                                             asked[(k - 1) \div ResponseLength + 1]),
                         ((k - 1) % ResponseLength) + 1)]
  BY DEF Promise!Script
<1> HIDE DEF i
<1>10. Promise!Script(0)[i] =
         Promise!Piece(IF (i - 1) \div ResponseLength + 1 = 0
                       THEN Promise!TooLargeAnswer
                       ELSE Promise!Answer((i - 1) \div ResponseLength + 1,
                                           asked[(i - 1) \div ResponseLength + 1]),
                       ((i - 1) % ResponseLength) + 1)
  BY <1>3, <1>4, <1>9
<1>11. Promise!Script(0)[i] = Promise!Piece(Promise!Answer(m, asked[m]), p)
  <2>1. m # 0
    BY <1>1
  <2> QED
    BY <1>8, <1>10, <2>1
<1> QED
  BY <1>3, <1>11 DEF i, L

(* What was promised stays when the client asks one more. *)
LEMMA ScriptStays ==
  ASSUME NEW r, asked' = Append(asked, r), asked \in Seq(Requests),
         NEW i \in 1..Before(Len(asked) + 1)
  PROVE  Promise!Script(0)'[i] = Promise!Script(0)[i]
<1> DEFINE L == Len(asked)
           RL == ResponseLength
           j == i - 1
           n == j \div RL
           Is(all) == Promise!Piece(IF n + 1 = 0 THEN Promise!TooLargeAnswer
                                    ELSE Promise!Answer(n + 1, all[n + 1]),
                                    (j % RL) + 1)
<1>1. L \in Nat /\ RL \in Nat \ {0} /\ Before(L + 1) = L * RL
  BY HttpConnectionAssumption DEF Before
<1>2. L * RL \in Nat /\ L * RL <= (L + 1) * RL /\ (L + 1) * RL \in Nat
  BY <1>1
<1>3. i \in 1..L * RL /\ i \in 1..(L + 1) * RL /\ j \in Nat /\ j < L * RL
  BY <1>1, <1>2
<1> HIDE DEF L, RL, j
<1>4. n \in Nat /\ n < L
  BY ONLY <1>1, <1>3
<1>5. Len(asked') = L + 1 /\ asked'[n + 1] = asked[n + 1]
  BY <1>1, <1>4, AppendProperties DEF L
<1>6. Promise!Script(0)[i] = Is(asked)
  <2>1. i \in 1..(Len(asked) * ResponseLength)
    BY <1>3 DEF L, RL
  <2> QED
    BY <2>1 DEF Promise!Script, RL, j
<1>7. Promise!Script(0)'[i] = Is(asked')
  <2>1. i \in 1..(Len(asked') * ResponseLength)
    BY <1>3, <1>5 DEF RL
  <2> QED
    BY <2>1 DEF Promise!Script, RL, j
<1> QED
  BY <1>5, <1>6, <1>7

(* No response ends within that to request m. *)
LEMMA EndIsBetween ==
  ASSUME NEW n \in Nat \ {0}, NEW m \in Nat \ {0}, NEW j \in Nat,
         j = n * ResponseLength, Before(m) < j, j <= Before(m) + ResponseLength
  PROVE  n = m /\ j = Before(m) + ResponseLength
<1>1. j = Before(n) + ResponseLength /\ Before(n) \in Nat /\ Before(m) \in Nat
      /\ ResponseLength \in Nat \ {0}
  BY BeforeIsNat, HttpConnectionAssumption DEF Before
<1>2. ASSUME n < m PROVE FALSE
  BY <1>1, <1>2, BeforeGrows
<1>3. ASSUME m < n PROVE FALSE
  <2>1. Before(m) + ResponseLength <= Before(n)
    BY <1>3, BeforeGrows
  <2> QED
    BY <1>1, <2>1
<1>4. n = m
  BY <1>2, <1>3
<1> QED
  BY <1>1, <1>4

-----------------------------------------------------------------------------
(* Steps that leave the turn as it is *)

LEMMA TurnStays ==
  ASSUME NEW m, Turn(m), Coming' = Coming,
         UNCHANGED <<asked, delivered, outputBuffer, status, request, keepAlive>>,
         Serving("body")' <=> Serving("body"), Serving("ready")' <=> Serving("ready"),
         Serving("header")' => Serving("header") /\ arg' = arg
  PROVE  Turn(m)'
<1>1. CASE Front(m)
  BY <1>1 DEF Front, Turn
<1>2. CASE InBody(m)
  BY <1>2 DEF InBody, IsRead, Turn
<1>3. CASE Ready(m)
  BY <1>3 DEF Ready, IsRead, Turn
<1>4. CASE Sending(m)
  BY <1>4 DEF Sending, Turn
<1> QED
  BY <1>1, <1>2, <1>3, <1>4 DEF Turn

LEMMA ProgressStays ==
  ASSUME Progress, Coming' = Coming, isOpen' => isOpen, calm' => calm,
         UNCHANGED <<asked, delivered, outputBuffer, status, request, keepAlive>>,
         Serving("body")' <=> Serving("body"), Serving("ready")' <=> Serving("ready"),
         Serving("header")' => Serving("header") /\ arg' = arg
  PROVE  Progress'
<1> SUFFICES ASSUME isOpen', calm'
             PROVE  AsPromised' /\ \E m \in 1..Len(asked') + 1 : Turn(m)'
  BY DEF Progress
<1>1. AsPromised /\ \E m \in 1..Len(asked) + 1 : Turn(m)
  BY DEF Progress
<1>2. AsPromised'
  <2>1. Promise!Script(0)' = Promise!Script(0)
    BY DEF Promise!Script
  <2> QED
    BY <1>1, <2>1 DEF AsPromised
<1> QED
  BY <1>1, <1>2, TurnStays

-----------------------------------------------------------------------------
(* The client asks *)

LEMMA AskGrows ==
  ASSUME Base, NEW r \in Requests, Ask(r)
  PROVE  /\ Coming' = Coming \o Stream(Len(asked) + 1, r)
         /\ Coming \in Seq([of : 1..Len(asked) + 1, is : {"head", "end1", "end2", "body"}])
         /\ Stream(Len(asked) + 1, r) \in
              Seq([of : 1..Len(asked) + 1, is : {"head", "end1", "end2", "body"}])
         /\ Len(asked') = Len(asked) + 1
         /\ \A n \in 1..Len(asked) : asked'[n] = asked[n]
<1> USE DEF network, context, call
<1> DEFINE L == Len(asked)
           P == [of : 1..L + 1, is : {"head", "end1", "end2", "body"}]
<1>1. /\ asked \in Seq(Requests) /\ asked' = Append(asked, r) /\ L \in Nat
      /\ unsent = <<>> /\ unsent' = Stream(L + 1, r)
      /\ UNCHANGED <<inputBuffer, inbox>>
  BY DEF Ask, Base, Shapes
<1>2. Coming = inputBuffer \o inbox
  <2>1. inputBuffer \o inbox \in Seq(PieceAsked)
    BY ConcatProperties DEF Base, Shapes
  <2> QED
    BY <1>1, <2>1, ConcatEmptySeq DEF Coming
<1>3. Coming' = Coming \o Stream(L + 1, r)
  BY <1>1, <1>2 DEF Coming
<1>4. Stream(L + 1, r) \in Seq(P)
  BY <1>1, StreamIsSeq
<1>5. Coming \in Seq(P)
  <2>1. Coming \in Seq(PieceAsked)
    BY ComingIsSeq
  <2>2. \A e \in PieceAsked : e \in P
    BY <1>1 DEF PieceAsked
  <2> HIDE DEF P
  <2> QED
    BY <2>1, <2>2
<1> QED
  BY <1>1, <1>3, <1>4, <1>5, AppendProperties

LEMMA AskKeepsTurn ==
  ASSUME Base, NEW r \in Requests, Ask(r), NEW m \in 1..Len(asked) + 1, Turn(m)
  PROVE  Turn(m)'
<1> USE DEF network, context, call
<1> DEFINE L == Len(asked)
           new == Stream(L + 1, r)
           P == [of : 1..L + 1, is : {"head", "end1", "end2", "body"}]
<1>1. /\ UNCHANGED <<delivered, inputBuffer, outputBuffer, status, request, keepAlive, pc,
                     arg>>
      /\ asked' = Append(asked, r) /\ asked \in Seq(Requests) /\ L \in Nat
  BY DEF Ask, Base, Shapes
<1>2. /\ Coming' = Coming \o new /\ Coming \in Seq(P) /\ new \in Seq(P)
      /\ Len(asked') = L + 1 /\ \A n \in 1..L : asked'[n] = asked[n]
  BY AskGrows
<1>3. \A place : Serving(place)' <=> Serving(place)
  BY <1>1 DEF Serving
<1> HIDE DEF P, new
<1>4. Follows(asked, Coming, m) => Follows(asked', Coming', m)
  BY <1>1, <1>2, AskFollows DEF new
<1>5. CASE Front(m)
  <2>1. Serving("header") => m \in 1..L /\ arg = asked[m].head
    BY <1>5 DEF Front
  <2>2. Serving("header")' => m \in 1..Len(asked') /\ arg' = asked'[m].head
    BY <1>1, <1>2, <1>3, <2>1
  <2>3. Before(m)' = Before(m) /\ Len(delivered') = Before(m)
    BY <1>1, <1>5 DEF Front, Before
  <2> QED
    BY <1>1, <1>3, <1>4, <1>5, <2>2, <2>3 DEF Front, Turn
<1>6. CASE InBody(m)
  <2>1. m \in 1..L /\ m + 1 \in 1..L + 1
    BY <1>1, <1>6 DEF InBody, IsRead
  <2>2. asked'[m] = asked[m] /\ m \in 1..Len(asked')
    BY <1>1, <1>2, <2>1
  <2>3. IsRead(m)'
    BY <1>1, <1>6, <2>2 DEF InBody, IsRead, Before
  <2> DEFINE l == request.length
             rest == Drop(Coming, l)
  <2>4. l \in 0..Len(Coming) /\ Follows(asked, rest, m + 1)
        /\ \A k \in 1..l : Coming[k] = Piece(m, "body")
    BY <1>6 DEF InBody
  <2> HIDE DEF l
  <2>5. rest \in Seq(P) /\ Len(rest) = Len(Coming) - l
        /\ \A i \in 1..Len(Coming) - l : rest[i] = Coming[l + i]
    BY <1>2, <2>4, DropIsSeq
  <2> HIDE DEF rest
  <2>6. Follows(asked', rest \o new, m + 1)
    BY <1>1, <1>2, <2>1, <2>4, <2>5, AskFollows DEF new
  <2>7. /\ Coming \o new \in Seq(P) /\ Len(Coming \o new) = Len(Coming) + Len(new)
        /\ \A i \in 1..Len(Coming) + Len(new) :
             (Coming \o new)[i] = IF i <= Len(Coming) THEN Coming[i] ELSE new[i - Len(Coming)]
    BY <1>2, ConcatProperties
  <2>8. Drop(Coming \o new, l) = rest \o new
    <3> DEFINE c == Coming \o new
    <3>1. l \in 0..Len(c) /\ Len(Coming) \in Nat /\ Len(new) \in Nat
      BY <1>2, <2>4, <2>7
    <3>2. Drop(c, l) \in Seq(P) /\ Len(Drop(c, l)) = Len(c) - l
          /\ \A i \in 1..Len(c) - l : Drop(c, l)[i] = c[l + i]
      BY <2>7, <3>1, DropIsSeq
    <3>3. rest \o new \in Seq(P) /\ Len(rest \o new) = Len(rest) + Len(new)
          /\ \A i \in 1..Len(rest) + Len(new) :
               (rest \o new)[i] = IF i <= Len(rest) THEN rest[i] ELSE new[i - Len(rest)]
      BY <1>2, <2>5, ConcatProperties
    <3> DEFINE e == rest \o new
               d == Drop(c, l)
    <3> HIDE DEF c, d, e
    <3>4. Len(d) = Len(e)
      BY <2>5, <2>7, <3>1, <3>2, <3>3 DEF c, d, e
    <3>5. ASSUME NEW i \in 1..Len(d) PROVE d[i] = e[i]
      <4> DEFINE j == l + i
      <4>1. /\ j \in 1..Len(Coming) + Len(new) /\ i \in 1..Len(c) - l
            /\ i \in 1..Len(rest) + Len(new)
            /\ i <= Len(rest) <=> j <= Len(Coming)
            /\ j - Len(Coming) = i - Len(rest)
            /\ i <= Len(rest) => i \in 1..Len(Coming) - l
        BY <2>4, <2>5, <2>7, <3>1, <3>2 DEF c, d
      <4>2. d[i] = c[j]
        BY <3>2, <4>1 DEF d
      <4> HIDE DEF j
      <4>3. c[j] = IF j <= Len(Coming) THEN Coming[j] ELSE new[j - Len(Coming)]
        BY <2>7, <4>1 DEF c
      <4>4. e[i] = IF i <= Len(rest) THEN rest[i] ELSE new[i - Len(rest)]
        BY <3>3, <4>1 DEF e
      <4>5. i <= Len(rest) => rest[i] = Coming[j]
        BY <2>5, <4>1 DEF j
      <4> QED
        BY <4>1, <4>2, <4>3, <4>4, <4>5
    <3> QED
      BY <3>2, <3>3, <3>4, <3>5, SeqEqual DEF c, d, e
  <2>9. l \in 0..Len(Coming') /\ \A k \in 1..l : Coming'[k] = Piece(m, "body")
    <3>1. Len(Coming) \in Nat /\ Len(new) \in Nat
      BY <1>2
    <3> QED
      BY <1>2, <2>4, <2>7, <3>1
  <2>10. Follows(asked', Drop(Coming', l), m + 1)
    BY <1>2, <2>6, <2>8
  <2>11. InBody(m)'
    BY <1>1, <1>3, <1>6, <2>2, <2>3, <2>9, <2>10 DEF InBody, l
  <2> QED
    BY <2>11 DEF Turn
<1>7. CASE Ready(m)
  <2>1. m \in 1..L /\ m + 1 \in 1..L + 1
    BY <1>1, <1>7 DEF Ready, IsRead
  <2>2. asked'[m] = asked[m] /\ m \in 1..Len(asked')
    BY <1>1, <1>2, <2>1
  <2>3. IsRead(m)'
    BY <1>1, <1>7, <2>2 DEF Ready, IsRead, Before
  <2>4. Follows(asked', Coming', m + 1)
    BY <1>1, <1>2, <1>7, <2>1, AskFollows DEF new, Ready
  <2> QED
    BY <1>1, <1>3, <1>7, <2>2, <2>3, <2>4 DEF Ready, Turn
<1>8. CASE Sending(m)
  <2>1. m \in 1..L /\ m + 1 \in 1..L + 1
    BY <1>1, <1>8 DEF Sending
  <2>2. asked'[m] = asked[m] /\ m \in 1..Len(asked')
    BY <1>1, <1>2, <2>1
  <2>3. keepAlive => Follows(asked', Coming', m + 1)
    BY <1>1, <1>2, <1>8, <2>1, AskFollows DEF new, Sending
  <2>4. Before(m)' = Before(m)
    BY DEF Before
  <2> QED
    BY <1>1, <1>8, <2>2, <2>3, <2>4 DEF Sending, Turn
<1> QED
  BY <1>5, <1>6, <1>7, <1>8 DEF Turn

LEMMA AskKeepsProgress ==
  ASSUME Base, Progress, NEW r \in Requests, Ask(r)
  PROVE  Progress'
<1> USE DEF network, context, call
<1> DEFINE L == Len(asked)
<1> SUFFICES ASSUME isOpen, calm
             PROVE  AsPromised' /\ \E m \in 1..Len(asked') + 1 : Turn(m)'
  BY DEF Progress, Ask
<1>1. AsPromised /\ \E m \in 1..L + 1 : Turn(m)
  BY DEF Progress
<1>2. /\ Len(asked') = L + 1 /\ L \in Nat /\ \A n \in 1..L : asked'[n] = asked[n]
      /\ delivered' = delivered /\ delivered \in Seq(AnswerPiece)
      /\ asked' = Append(asked, r) /\ asked \in Seq(Requests)
  BY AskGrows DEF Ask, Base, Shapes
<1>3. \E m \in 1..Len(asked') + 1 : Turn(m)'
  <2>1. PICK m \in 1..L + 1 : Turn(m)
    BY <1>1
  <2>2. Turn(m)' /\ m \in 1..Len(asked') + 1
    BY <1>2, <2>1, AskKeepsTurn
  <2> QED
    BY <2>2
<1>4. Len(delivered') <= Before(Len(asked') + 1)
  <2>1. Before(L + 1) \in Nat /\ Before(L + 1 + 1) = Before(L + 1) + ResponseLength
    BY <1>2, BeforeIsNat
  <2>2. Len(delivered) \in Nat /\ Len(delivered) <= Before(L + 1) /\ ResponseLength \in Nat
    BY <1>1, <1>2, HttpConnectionAssumption DEF AsPromised
  <2>3. Before(Len(asked') + 1) = Before(L + 1 + 1)
    BY <1>2
  <2> QED
    BY <1>2, <2>1, <2>2, <2>3
<1>5. ASSUME NEW i \in 1..Len(delivered) PROVE delivered'[i] = Promise!Script(0)'[i]
  <2>1. delivered[i] = Promise!Script(0)[i]
    BY <1>1 DEF AsPromised
  <2>2. Promise!Script(0)[i] = Promise!Script(0)'[i]
    <3>1. Before(L + 1) \in Nat /\ Len(delivered) \in Nat /\ Len(delivered) <= Before(L + 1)
      BY <1>1, <1>2, BeforeIsNat DEF AsPromised
    <3>2. i \in 1..Before(L + 1)
      BY <3>1
    <3> QED
      BY <1>2, <3>2, ScriptStays
  <2> QED
    BY <1>2, <2>1, <2>2
<1> QED
  BY <1>2, <1>3, <1>4, <1>5 DEF AsPromised, Before

-----------------------------------------------------------------------------
(* The header *)

(* Request m is at the front of the stream. *)
LEMMA FrontIs ==
  ASSUME Base, NEW m \in 1..Len(asked), Front(m), NEW h, h = asked[m].head
  PROVE  /\ asked[m] \in Requests /\ h \in Nat \ {0} /\ BodyLength(asked[m]) \in Nat
         /\ h + 2 + BodyLength(asked[m]) \in 0..Len(Coming)
         /\ \A i \in 1..h : Coming[i] = Piece(m, "head")
         /\ Coming[h + 1] = Piece(m, "end1") /\ Coming[h + 2] = Piece(m, "end2")
         /\ \A i \in 1..BodyLength(asked[m]) : Coming[h + 2 + i] = Piece(m, "body")
         /\ Follows(asked, Drop(Coming, h + 2 + BodyLength(asked[m])), m + 1)
<1> DEFINE r == asked[m]
           l == BodyLength(r)
           size == Len(Stream(m, r))
<1>1. asked \in Seq(Requests) /\ m \in Nat \ {0} /\ r \in Requests
  BY ElementOfSeq DEF Base, Shapes
<1>2. Coming \in Seq(PieceAsked) /\ Follows(asked, Coming, m)
  BY ComingIsSeq DEF Front
<1>3. /\ size \in 0..Len(Coming)
      /\ \A k \in 1..size : Coming[k] = Stream(m, r)[k]
      /\ Follows(asked, Drop(Coming, size), m + 1)
  BY <1>1, <1>2, FirstFollows
<1> HIDE DEF size, l, r
<1>4. h \in Nat \ {0} /\ l \in Nat /\ size = h + 2 + l
  BY <1>1, StreamIs DEF size, l, r
<1> DEFINE t == Stream(m, r)
<1>5. /\ \A i \in 1..h : t[i] = Piece(m, "head")
      /\ t[h + 1] = Piece(m, "end1") /\ t[h + 2] = Piece(m, "end2")
      /\ \A i \in 1..l : t[h + 2 + i] = Piece(m, "body")
  BY <1>1, StreamIs DEF l, r
<1> HIDE DEF t
<1>6. \A i \in 1..h : Coming[i] = Piece(m, "head")
  <2>1. ASSUME NEW i \in 1..h PROVE Coming[i] = Piece(m, "head")
    <3>1. i \in 1..size
      BY ONLY <1>4, i \in 1..h
    <3> QED
      BY <1>3, <1>5, <3>1 DEF t
  <2> QED
    BY <2>1
<1>7. Coming[h + 1] = Piece(m, "end1") /\ Coming[h + 2] = Piece(m, "end2")
  <2>1. h + 1 \in 1..size /\ h + 2 \in 1..size
    BY ONLY <1>4
  <2> QED
    BY <1>3, <1>5, <2>1 DEF t
<1>8. \A i \in 1..l : Coming[h + 2 + i] = Piece(m, "body")
  <2>1. ASSUME NEW i \in 1..l PROVE Coming[h + 2 + i] = Piece(m, "body")
    <3>1. h + 2 + i \in 1..size
      BY <1>4
    <3> QED
      BY <1>3, <1>5, <3>1 DEF t
  <2> QED
    BY <2>1
<1> QED
  BY <1>1, <1>3, <1>4, <1>6, <1>7, <1>8 DEF r, l

(* The first end in InputBuffer is that of the request in front. *)
LEMMA FirstEnd ==
  ASSUME Base, NEW m \in 1..Len(asked) + 1, Front(m)
  PROVE  /\ HeaderEnds(0) # {} => m \in 1..Len(asked)
         /\ m \in 1..Len(asked) =>
              /\ asked[m].head + 2 <= Len(inputBuffer) => asked[m].head \in HeaderEnds(0)
              /\ \A i \in HeaderEnds(0) : asked[m].head <= i
         /\ inputBuffer # <<>> => m \in 1..Len(asked)
<1> DEFINE h == asked[m].head
<1>1. /\ inputBuffer \in Seq(PieceAsked) /\ Len(inputBuffer) \in Nat
      /\ Coming \in Seq(PieceAsked) /\ Len(inputBuffer) <= Len(Coming)
      /\ \A i \in 1..Len(inputBuffer) : Coming[i] = inputBuffer[i]
      /\ asked \in Seq(Requests)
  BY ComingIsSeq DEF Base, Shapes
<1>2. inputBuffer # <<>> => m \in 1..Len(asked)
  <2> SUFFICES ASSUME inputBuffer # <<>> PROVE m \in 1..Len(asked)
    OBVIOUS
  <2>1. Len(inputBuffer) # 0
    BY <1>1
  <2>2. Len(Coming) # 0
    BY <1>1, <2>1
  <2> QED
    BY <1>1, <2>2, NothingFollows DEF Front
<1>3. HeaderEnds(0) # {} => inputBuffer # <<>>
  <2>1. inputBuffer = <<>> => HeaderEnds(0) = {}
    BY DEF HeaderEnds
  <2> QED
    BY <2>1
<1>4. ASSUME m \in 1..Len(asked)
      PROVE  /\ h + 2 <= Len(inputBuffer) => h \in HeaderEnds(0)
             /\ \A i \in HeaderEnds(0) : h <= i
  <2>1. /\ h \in Nat \ {0}
        /\ \A i \in 1..h : Coming[i] = Piece(m, "head")
        /\ Coming[h + 1] = Piece(m, "end1") /\ Coming[h + 2] = Piece(m, "end2")
    BY <1>4, FrontIs
  <2> HIDE DEF h
  <2>2. ASSUME h + 2 <= Len(inputBuffer) PROVE h \in HeaderEnds(0)
    <3>1. h + 1 \in 1..Len(inputBuffer) /\ h + 2 \in 1..Len(inputBuffer)
          /\ h \in 0..Len(inputBuffer) - 2
      BY <1>1, <2>1, <2>2
    <3>2. inputBuffer[h + 1].is = "end1" /\ inputBuffer[h + 2].is = "end2"
      BY <1>1, <2>1, <3>1 DEF Piece
    <3> QED
      BY <3>1, <3>2 DEF HeaderEnds
  <2>3. ASSUME NEW i \in HeaderEnds(0) PROVE h <= i
    <3>1. i \in Nat /\ i + 1 \in 1..Len(inputBuffer) /\ inputBuffer[i + 1].is = "end1"
      BY <1>1 DEF HeaderEnds
    <3>2. ASSUME i < h PROVE FALSE
      <4>1. i + 1 \in 1..h
        BY <2>1, <3>1, <3>2
      <4>2. inputBuffer[i + 1] = Piece(m, "head")
        BY <1>1, <2>1, <3>1, <4>1
      <4> QED
        BY <3>1, <4>2 DEF Piece
    <3> QED
      BY <2>1, <3>1, <3>2
  <2> QED
    BY <2>2, <2>3
<1> QED
  BY <1>2, <1>3, <1>4

(* DataReceived finds it, *)
LEMMA FoundIsHead ==
  ASSUME Base, Handled, isOpen, calm, NEW w \in Workers, DataEndsHeader(w),
         NEW m \in 1..Len(asked) + 1, Front(m)
  PROVE  m \in 1..Len(asked) /\ arg' = asked[m].head
<1> DEFINE ends == HeaderEnds(SearchFrom(arg))
           h == asked[m].head
<1>1. /\ pc[w] = "data" /\ status = "RECEIVE_HEADER" /\ ends # {}
      /\ arg' = CHOOSE i \in ends : \A j \in ends : i <= j
  BY DEF DataEndsHeader, Goto
<1>2. ends \in SUBSET Nat /\ SearchFrom(arg) \in Nat /\ arg \in Nat
      /\ Len(inputBuffer) \in Nat /\ arg <= Len(inputBuffer)
      /\ SearchFrom(arg) = IF Len(inputBuffer) - arg > 2 THEN Len(inputBuffer) - arg - 2 ELSE 0
  BY <1>1, SearchIsInside DEF Base, Shapes, ContextFits, CallFits, SearchFrom
<1>3. \E i \in ends : \A j \in ends : i <= j
  BY <1>1, <1>2, LeastMember
<1> HIDE DEF h
<1> DEFINE i == CHOOSE k \in ends : \A j \in ends : k <= j
<1>4. i \in ends /\ \A j \in ends : i <= j
  BY <1>3
<1> HIDE DEF i
<1>5. i \in HeaderEnds(0) /\ i + 2 <= Len(inputBuffer) /\ i \in Nat
  BY <1>2, <1>4 DEF HeaderEnds
<1>6. m \in 1..Len(asked) /\ h <= i /\ (h + 2 <= Len(inputBuffer) => h \in HeaderEnds(0))
  BY <1>5, FirstEnd DEF h
<1>7. h \in Nat
  BY <1>6, FrontIs DEF h
<1>8. h \in HeaderEnds(0) /\ h + 2 <= Len(inputBuffer)
  BY <1>2, <1>5, <1>6, <1>7
<1>9. h + 2 > Len(inputBuffer) - arg
  BY <1>1, <1>8 DEF Handled
<1>10. h \in ends
  <2>1. h \in SearchFrom(arg)..Len(inputBuffer) - 2
    BY <1>2, <1>7, <1>8, <1>9
  <2> QED
    BY <1>8, <2>1 DEF HeaderEnds
<1>11. i = h
  BY <1>4, <1>5, <1>6, <1>7, <1>10
<1> QED
  BY <1>1, <1>6, <1>11 DEF i, h

(* and finds none that is too long. *)
LEMMA NoneIsTooLong ==
  ASSUME Base, Handled, RequestsFit, isOpen, calm, NEW w \in Workers, DataTooLong(w),
         NEW m \in 1..Len(asked) + 1, Front(m)
  PROVE  FALSE
<1>1. /\ pc[w] = "data" /\ status = "RECEIVE_HEADER"
      /\ HeaderEnds(SearchFrom(arg)) = {} /\ Len(inputBuffer) > MaxHeader
  BY DEF DataTooLong, Refuse, SwitchToSend, Goto
<1>2. HeaderEnds(0) = {}
  BY <1>1, SearchIsEnough
<1>3. Len(inputBuffer) \in Nat /\ MaxHeader \in Nat
  BY HttpConnectionAssumption DEF Base, Shapes
<1>4. inputBuffer # <<>>
  BY <1>1, <1>3
<1>5. m \in 1..Len(asked)
  BY <1>4, FirstEnd
<1>6. asked[m] \in Requests /\ asked[m].head \in Nat
  BY <1>5, FrontIs
<1>7. asked[m].head < MaxHeader
  BY <1>6 DEF RequestsFit
<1>8. asked[m].head + 2 <= Len(inputBuffer)
  BY <1>1, <1>3, <1>6, <1>7
<1> QED
  BY <1>2, <1>5, <1>8, FirstEnd

(* HeaderReceived is called for the request in front. *)
LEMMA HeaderIsFront ==
  ASSUME Base, NEW w \in Workers, pc[w] = "header", NEW m, Front(m)
  PROVE  /\ m \in 1..Len(asked) /\ arg = asked[m].head
         /\ arg + 2 \in 0..Len(inputBuffer)
         /\ inputBuffer[1] = Piece(m, "head") /\ Received = asked[m]
         /\ asked[m] \in Requests
<1>1. m \in 1..Len(asked) /\ arg = asked[m].head
  BY DEF Front, Serving
<1>2. arg + 2 \in 0..Len(inputBuffer)
  BY HeaderIsRequest
<1>3. arg \in Nat \ {0} /\ \A i \in 1..arg : Coming[i] = Piece(m, "head")
  BY <1>1, FrontIs
<1>4. 1 \in 1..arg /\ 1 \in 1..Len(inputBuffer)
  <2>1. Len(inputBuffer) \in Nat
    BY DEF Base, Shapes
  <2> QED
    BY <1>2, <1>3, <2>1
<1>5. inputBuffer[1] = Piece(m, "head")
  BY <1>3, <1>4, ComingIsSeq
<1>6. asked[m] \in Requests
  BY <1>1, FrontIs
<1> QED
  BY <1>1, <1>2, <1>5, <1>6 DEF Received, Piece

(* What is behind the header. *)
LEMMA BehindIs ==
  ASSUME Base, NEW w \in Workers, pc[w] = "header", NEW m, Front(m),
         inputBuffer' = BehindHeader, UNCHANGED <<inbox, unsent>>,
         NEW l, l = BodyLength(asked[m])
  PROVE  /\ Coming' \in Seq(PieceAsked)
         /\ l \in 0..Len(Coming')
         /\ \A k \in 1..l : Coming'[k] = Piece(m, "body")
         /\ Follows(asked, Drop(Coming', l), m + 1)
<1> DEFINE h == asked[m].head
<1>1. m \in 1..Len(asked) /\ arg = h /\ arg + 2 \in 0..Len(inputBuffer)
  BY HeaderIsFront
<1>2. /\ h \in Nat \ {0} /\ l \in Nat /\ h + 2 + l \in 0..Len(Coming)
      /\ \A i \in 1..l : Coming[h + 2 + i] = Piece(m, "body")
      /\ Follows(asked, Drop(Coming, h + 2 + l), m + 1)
  BY <1>1, FrontIs
<1>3. Coming \in Seq(PieceAsked) /\ Len(Coming) \in Nat
  BY ComingIsSeq
<1> HIDE DEF h
<1>4. Coming' = Drop(Coming, h + 2)
  BY <1>1, ComingIsCut DEF BehindHeader
<1> DEFINE c == Drop(Coming, h + 2)
<1>5. h + 2 \in 0..Len(Coming)
  BY ONLY <1>2, <1>3
<1>6. c \in Seq(PieceAsked) /\ Len(c) = Len(Coming) - (h + 2)
      /\ \A i \in 1..Len(Coming) - (h + 2) : c[i] = Coming[h + 2 + i]
  BY <1>3, <1>5, DropIsSeq
<1>7. Drop(c, l) = Drop(Coming, h + 2 + l)
  <2>1. h + 2 \in Nat /\ h + 2 + l <= Len(Coming) /\ l \in Nat
    BY ONLY <1>2, <1>3
  <2> QED
    BY <1>3, <2>1, DropTwice
<1> HIDE DEF c
<1>8. l \in 0..Len(c) /\ \A k \in 1..l : k \in 1..Len(Coming) - (h + 2)
  BY ONLY <1>2, <1>3, <1>6
<1>9. \A k \in 1..l : c[k] = Piece(m, "body")
  BY <1>2, <1>6, <1>8
<1> QED
  BY <1>2, <1>4, <1>6, <1>7, <1>8, <1>9 DEF c

(* The header is read as it was meant. *)
LEMMA HeaderIsRead ==
  ASSUME Base, RequestsFit, NEW w \in Workers, pc[w] = "header", NEW m, Front(m)
  PROVE  /\ HeaderOk <=> asked[m].wellFormed
         /\ HandleHeader.number = m
         /\ HandleHeader.method = asked[m].method
         /\ HandleHeader.length = asked[m].length
         /\ HandleHeader.method = "POST" => HandleHeader.type = asked[m].type
         /\ HandleHeader.params = <<>>
         /\ asked[m].length \in Nat \cup {-1}
         /\ asked[m].wellFormed => HeaderStatus(HandleHeader) = Promise!HeaderStatus(asked[m])
         /\ ~asked[m].wellFormed => Promise!HeaderStatus(asked[m]) = "BAD_REQUEST"
<1> DEFINE r == asked[m]
<1>1. /\ inputBuffer[1] = Piece(m, "head") /\ Received = r /\ r \in Requests
  BY HeaderIsFront
<1>2. /\ r.method \in {"GET", "POST", "PUT", "DELETE"}
      /\ r.length \in Nat \cup {-1} /\ r.wellFormed \in BOOLEAN /\ r.head \in Nat
  <2>1. r \in Promise!RequestType
    BY <1>1, HttpConnectionAssumption
  <2> QED
    BY <2>1 DEF Promise!RequestType, Promise!Methods
<1>3. r.head < MaxHeader /\ (r.method = "POST" => r.type # "none")
  BY <1>1 DEF RequestsFit
<1> HIDE DEF r
<1>4. request.length = -1 /\ request.params = <<>> /\ request \in RequestShape
  BY DEF Front, Base, Shapes
<1>5. HeaderOk <=> r.wellFormed
  BY <1>1 DEF HeaderOk, Piece
<1>6. HandleHeader =
        [request EXCEPT !.number = m, !.method = r.method, !.length = r.length,
                        !.type = IF r.type = "none" THEN request.type ELSE r.type]
  <2>1. inputBuffer[1].of = m
    BY <1>1 DEF Piece
  <2>2. (IF r.length = -1 THEN request.length ELSE r.length) = r.length
    BY <1>4
  <2> QED
    BY <1>1, <2>1, <2>2 DEF HandleHeader
<1>7. /\ HandleHeader.number = m /\ HandleHeader.method = r.method
      /\ HandleHeader.length = r.length /\ HandleHeader.params = <<>>
      /\ HandleHeader.type = IF r.type = "none" THEN request.type ELSE r.type
  BY <1>4, <1>6 DEF RequestShape
<1> DEFINE q == HandleHeader
<1> HIDE DEF q
<1>8. r.wellFormed => HeaderStatus(q) = Promise!HeaderStatus(r)
  <2>1. q.method = r.method /\ q.length = r.length
    BY <1>7 DEF q
  <2>2. r.method \notin {"GET", "POST", "PUT"} <=> r.method = "DELETE"
    BY <1>2
  <2>3. ~(r.head > MaxHeader)
    BY <1>2, <1>3, HttpConnectionAssumption
  <2> QED
    BY <1>2, <2>1, <2>2, <2>3 DEF HeaderStatus, Promise!HeaderStatus
<1>9. ~r.wellFormed => Promise!HeaderStatus(r) = "BAD_REQUEST"
  <2>1. ~(r.head > MaxHeader)
    BY <1>2, <1>3, HttpConnectionAssumption
  <2> QED
    BY <2>1 DEF Promise!HeaderStatus
<1> QED
  BY <1>2, <1>3, <1>5, <1>7, <1>8, <1>9 DEF r, q

-----------------------------------------------------------------------------
(* The answer *)

(***************************************************************************)
(* As long as nothing has gone wrong, context->response is empty when the  *)
(* answer is set: it has the status it is given, and nothing of another.   *)
(***************************************************************************)
LEMMA CalmIsFresh ==
  ASSUME Base, calm, status # "SEND"
  PROVE  /\ \A stat : SetOther(stat) = [to |-> 0, got |-> <<>>, status |-> stat]
         /\ SetWithBody =
              [to |-> request.number, got |-> request.params,
               status |-> Promise!HandlerStatus(asked[request.number].found)]
<1>1. response = NoAnswer
  BY DEF Base, ContextFits
<1>2. \A stat : Accepts(stat)
  BY <1>1 DEF Accepts, NoAnswer
<1>3. ASSUME NEW stat
      PROVE  SetOther(stat) = [to |-> 0, got |-> <<>>, status |-> stat]
  <2>1. SetOther(stat) = [NoAnswer EXCEPT !.status = stat]
    BY <1>1, <1>2 DEF SetOther
  <2> QED
    BY <2>1 DEF NoAnswer
<1>4. SetWithBody =
        [to |-> request.number, got |-> request.params,
         status |-> Promise!HandlerStatus(asked[request.number].found)]
  BY <1>2 DEF SetWithBody
<1> QED
  BY <1>3, <1>4

(* What is put into OutputBuffer is the answer that was promised. *)
LEMMA AnswerIsSent ==
  ASSUME Base, NEW m \in 1..Len(asked), Len(delivered) = Before(m),
         NEW given \in AnswerType, Promise!Answer(m, asked[m]) = given,
         UNCHANGED <<asked, delivered>>,
         status' = "SEND", outputBuffer' = GetResponseText(given),
         keepAlive' <=> ~Promise!Final(asked[m]),
         keepAlive' => Follows(asked, Coming', m + 1)
  PROVE  Turn(m)'
<1> DEFINE answer == Promise!Answer(m, asked[m])
           out == GetResponseText(given)
           RL == ResponseLength
<1>1. RL \in Nat \ {0} /\ Before(m) \in Nat
  BY HttpConnectionAssumption, BeforeIsNat
<1>2. Len(out) = RL /\ \A i \in 1..RL : out[i] = Promise!Piece(answer, i)
  BY TextIsOut DEF Promise!Piece
<1> HIDE DEF out, RL, answer
<1>3. Len(out) \in 1..RL /\ Before(m) + Len(out) = Before(m) + RL
  BY <1>1, <1>2
<1>4. ASSUME NEW k \in 1..Len(out) PROVE out[k] = Promise!Piece(answer, RL - Len(out) + k)
  <2>1. RL - Len(out) + k = k /\ k \in 1..RL
    BY <1>1, <1>2
  <2> QED
    BY <1>2, <2>1
<1>5. outputBuffer' = out
  BY DEF out
<1>6. \A k \in 1..Len(outputBuffer') :
        outputBuffer'[k] = Promise!Piece(answer, RL - Len(outputBuffer') + k)
  BY <1>4, <1>5
<1>7. Len(outputBuffer') \in 1..RL
      /\ Len(delivered') + Len(outputBuffer') = Before(m) + RL
  BY <1>3, <1>5
<1>8. Sending(m)'
  BY <1>6, <1>7 DEF Sending, Before, RL, answer
<1> QED
  BY <1>8 DEF Turn

LEMMA ErrorIsSent ==
  ASSUME Base, NEW m \in 1..Len(asked), Len(delivered) = Before(m),
         NEW stat \in Errors, Promise!Status(asked[m]) = stat,
         calm, status # "SEND", UNCHANGED <<asked, delivered>>,
         status' = "SEND", outputBuffer' = GetResponseText(SetOther(stat)),
         keepAlive' <=> ~Promise!Final(asked[m]),
         keepAlive' => Follows(asked, Coming', m + 1)
  PROVE  Turn(m)'
<1>1. SetOther(stat) \in AnswerType
  BY ErrorIsOut DEF Base
<1>2. stat # "OK"
  BY DEF Errors
<1>3. Promise!Answer(m, asked[m]) = [to |-> 0, got |-> <<>>, status |-> stat]
  BY <1>2 DEF Promise!Answer
<1>4. Promise!Answer(m, asked[m]) = SetOther(stat)
  BY <1>3, CalmIsFresh
<1> HIDE DEF SetOther
<1> QED
  BY <1>1, <1>4, AnswerIsSent

(* A step that sends nothing, and whose turn is known. *)
LEMMA TurnIsProgress ==
  ASSUME AsPromised, UNCHANGED <<asked, delivered>>, NEW m \in 1..Len(asked) + 1,
         Turn(m)'
  PROVE  Progress'
<1>1. AsPromised'
  <2>1. Promise!Script(0)' = Promise!Script(0)
    BY DEF Promise!Script
  <2> QED
    BY <2>1 DEF AsPromised
<1> QED
  BY <1>1 DEF Progress

-----------------------------------------------------------------------------
(* The steps of a worker *)

(* A step within a turn, of a worker that has the mutex. *)
LEMMA WorkerGoes ==
  ASSUME Base, NEW w \in Workers, NEW from \in Holding, NEW to \in Places,
         Goto(w, from, to)
  PROVE  /\ pc[w] = from /\ pc'[w] = to
         /\ \A place \in Holding : Serving(place) <=> place = from
         /\ \A place \in Holding : Serving(place)' <=> place = to
<1>1. from \in Places
  BY DEF Holding, Places
<1>2. /\ pc[w] = from /\ pc'[w] = to
      /\ \A v \in Workers \ {w} : pc'[v] = pc[v] /\ pc[v] \notin Holding
  BY <1>1, Moved
<1> QED
  BY <1>2 DEF Serving

LEMMA WorkerReturns ==
  ASSUME Base, NEW w \in Workers, NEW from \in Holding, Return(w, from)
  PROVE  /\ pc[w] = from
         /\ \A place \in Holding : Serving(place) <=> place = from
         /\ \A place \in Working \cup {"send"} : ~Serving(place)'
<1> DEFINE to == IF looping THEN "recv" ELSE "idle"
<1>1. to \in Places /\ Goto(w, from, to) /\ to \notin Working \cup {"send"}
  BY DEF Return, Places, Working
<1>2. /\ pc[w] = from /\ pc'[w] = to
      /\ \A v \in Workers \ {w} : pc'[v] = pc[v] /\ pc[v] \notin Holding
  BY Returned
<1> HIDE DEF to
<1>3. Working \cup {"send"} \subseteq Holding
  BY DEF Working, Holding
<1> QED
  BY <1>1, <1>2, <1>3 DEF Serving

LEMMA MovesFrom ==
  ASSUME Base, NEW w \in Workers, NEW from \in Holding, NEW to \in Places \ Holding,
         Goto(w, from, to)
  PROVE  /\ \A place \in Holding : Serving(place) <=> place = from
         /\ \A place \in Holding : ~Serving(place)'
<1>1. to \in Places
  OBVIOUS
<1>2. /\ \A place \in Holding : Serving(place) <=> place = from
      /\ \A place \in Holding : Serving(place)' <=> place = to
  BY <1>1, WorkerGoes
<1>3. ASSUME NEW place \in Holding PROVE ~Serving(place)'
  <2>1. Serving(place)' <=> place = to
    BY <1>2
  <2> QED
    BY <2>1
<1> QED
  BY <1>2, <1>3

LEMMA WorkerWaits ==
  ASSUME Base, NEW w \in Workers, NEW from \in Places \ Holding, NEW to \in Places \ Working,
         Goto(w, from, to), from \in Holding \/ MutexFree \/ to \notin Holding
  PROVE  \A place \in {"header", "body", "ready"} : Serving(place)' <=> Serving(place)
<1>1. pc[w] = from /\ pc' = [pc EXCEPT ![w] = to] /\ pc \in [Workers -> Places]
  BY DEF Goto, Base, Shapes
<1>2. from \notin {"header", "body", "ready"} /\ to \notin {"header", "body", "ready"}
  BY DEF Holding, Working
<1>3. \A v \in Workers \ {w} : pc'[v] = pc[v]
  BY <1>1
<1>4. pc'[w] = to
  BY <1>1
<1> QED
  BY <1>1, <1>2, <1>3, <1>4 DEF Serving

LEMMA HeaderKeepsProgress ==
  ASSUME Base, RequestsFit, Progress, NEW w \in Workers,
         \/ HeaderInvalid(w) \/ HeaderRefused(w) \/ HeaderBeforeBody(w)
         \/ HeaderAndBody(w) \/ HeaderOnly(w),
         calm' = calm
  PROVE  Progress'
<1> USE DEF network, context, call
<1>1. /\ pc[w] = "header" /\ UNCHANGED <<asked, unsent, inbox, delivered, isOpen>>
      /\ inputBuffer' = BehindHeader
  BY DEF HeaderInvalid, HeaderRefused, HeaderBeforeBody, HeaderAndBody, HeaderOnly,
         HeaderAccepted, HeaderRead, Refuse, SwitchToSend, Return, Goto
<1> SUFFICES ASSUME isOpen, calm PROVE Progress'
  BY <1>1 DEF Progress
<1>2. PICK m \in 1..Len(asked) + 1 : Turn(m)
  BY DEF Progress
<1>3. AsPromised
  BY DEF Progress
<1>4. Serving("header") /\ ~Serving("body") /\ ~Serving("ready") /\ status = "RECEIVE_HEADER"
  <2>1. Serving("header")
    BY <1>1 DEF Serving
  <2>2. ~Serving("body") /\ ~Serving("ready")
    BY <1>1 DEF Serving, Base, OneInside, Holding
  <2>3. status = "RECEIVE_HEADER"
    BY <1>1 DEF Base, ContextFits, CallFits
  <2> QED
    BY <2>1, <2>2, <2>3
<1>5. Front(m)
  BY <1>2, <1>4 DEF Turn, InBody, Ready, Sending
<1> DEFINE r == asked[m]
           l == BodyLength(r)
<1>6. /\ m \in 1..Len(asked) /\ r \in Requests /\ Received = r
  BY <1>1, <1>5, HeaderIsFront
<1>7. /\ l \in 0..Len(Coming')
      /\ \A k \in 1..l : Coming'[k] = Piece(m, "body")
      /\ Follows(asked, Drop(Coming', l), m + 1)
  BY <1>1, <1>5, BehindIs
<1>8. /\ HeaderOk <=> r.wellFormed
      /\ HandleHeader.number = m /\ HandleHeader.method = r.method
      /\ HandleHeader.length = r.length
      /\ HandleHeader.method = "POST" => HandleHeader.type = r.type
      /\ HandleHeader.params = <<>> /\ r.length \in Nat \cup {-1}
      /\ r.wellFormed => HeaderStatus(HandleHeader) = Promise!HeaderStatus(r)
      /\ ~r.wellFormed => Promise!HeaderStatus(r) = "BAD_REQUEST"
  BY <1>1, <1>5, HeaderIsRead
<1>9. Len(delivered) = Before(m) /\ keepAlive
  BY <1>5 DEF Front
<1>10. HeaderStatus(HandleHeader) \in Errors \cup {"OK"}
  BY <1>1, HeaderIsRequest
<1> SUFFICES Turn(m)'
  BY <1>1, <1>2, <1>3, TurnIsProgress
(* a refusal, *)
<1>11. ASSUME NEW stat \in Errors, stat = Promise!HeaderStatus(r), Refuse(w, "header", stat)
       PROVE  Turn(m)'
  <2>1. stat # "OK"
    BY DEF Errors
  <2>2. Promise!Status(r) = stat /\ Promise!Final(r)
    BY <1>11, <2>1 DEF Promise!Status, Promise!Final
  <2>3. /\ status' = "SEND" /\ outputBuffer' = GetResponseText(SetOther(stat))
        /\ ~keepAlive'
    BY <1>11 DEF Refuse, SwitchToSend
  <2>4. calm /\ status # "SEND"
    BY <1>4
  <2> QED
    BY <1>1, <1>6, <1>9, <2>2, <2>3, <2>4, ErrorIsSent
<1>12. CASE HeaderInvalid(w)
  <2>1. "BAD_REQUEST" \in Errors
    BY DEF Errors
  <2> QED
    BY <1>8, <1>11, <1>12, <2>1 DEF HeaderInvalid
<1>13. CASE HeaderRefused(w)
  <2>1. HeaderStatus(HandleHeader) \in Errors
    BY <1>10, <1>13 DEF HeaderRefused
  <2> QED
    BY <1>8, <1>11, <1>13, <2>1 DEF HeaderRefused, HeaderRead
(* or the request is read. *)
<1>14. ASSUME HeaderAccepted, UNCHANGED <<asked, delivered>>, status' # "SEND"
       PROVE  /\ IsRead(m)' /\ request' = HandleHeader
  <2>1. Promise!HeaderStatus(r) = "OK" /\ request' = HandleHeader
    BY <1>8, <1>14 DEF HeaderAccepted, HeaderRead
  <2>2. keepAlive' <=> ~r.close
    BY <1>6, <1>9, <1>14 DEF HeaderAccepted
  <2> QED
    BY <1>1, <1>6, <1>8, <1>9, <1>14, <2>1, <2>2 DEF IsRead, Before
<1>15. ASSUME HeaderAccepted, status' # "SEND", HandleHeader.length \in Nat,
              status' = "RECEIVE_BODY" \/ Serving("body")', ~Serving("ready")'
       PROVE  Turn(m)'
  <2>1. IsRead(m)' /\ request' = HandleHeader
    BY <1>1, <1>14, <1>15
  <2>2. l = r.length
    BY <1>8, <1>15 DEF BodyLength
  <2>3. InBody(m)'
    BY <1>1, <1>7, <1>8, <1>15, <2>1, <2>2 DEF InBody
  <2> QED
    BY <2>3 DEF Turn
<1>16. CASE HeaderBeforeBody(w)
  <2>1. ~Serving("ready")'
    BY <1>16, WorkerReturns DEF HeaderBeforeBody, Working, Holding
  <2>2. HandleHeader.length > Len(BehindHeader) /\ Len(BehindHeader) \in Nat
    BY <1>1, <1>16, BehindHeaderIsSeq DEF HeaderBeforeBody
  <2>3. HandleHeader.length \in Nat
    BY <1>8, <2>2
  <2> QED
    BY <1>15, <1>16, <2>1, <2>3 DEF HeaderBeforeBody
<1>17. CASE HeaderAndBody(w)
  <2>1. Serving("body")' /\ ~Serving("ready")'
    BY <1>17, WorkerGoes DEF HeaderAndBody, Holding, Places
  <2>2. HandleHeader.length \in Nat /\ status' # "SEND"
    BY <1>4, <1>17 DEF HeaderAndBody
  <2> QED
    BY <1>15, <1>17, <2>1, <2>2 DEF HeaderAndBody
<1>18. CASE HeaderOnly(w)
  <2>1. Serving("ready")'
    BY <1>18, WorkerGoes DEF HeaderOnly, Holding, Places
  <2>2. r.length = -1 /\ status' # "SEND" /\ HeaderAccepted
    BY <1>4, <1>8, <1>18 DEF HeaderOnly
  <2>3. IsRead(m)' /\ request' = HandleHeader
    BY <1>1, <1>14, <2>2
  <2>4. Promise!HeaderStatus(r) = "OK"
    BY <1>8, <2>2 DEF HeaderAccepted, HeaderRead
  <2>5. r.method # "POST"
    BY <2>2, <2>4 DEF Promise!HeaderStatus
  <2>6. Promise!Status(r) = "OK" /\ Promise!Body(m, r) = <<>>
    BY <2>4, <2>5 DEF Promise!Status, Promise!Body
  <2>7. Follows(asked, Coming', m + 1)
    <3>1. l = 0
      BY <2>2 DEF BodyLength
    <3>2. Drop(Coming', 0) = Coming'
      <4>1. Coming' \in Seq(PieceAsked)
        BY <1>1, <1>5, BehindIs
      <4> QED
        BY <4>1, SubSeqFull DEF Drop
    <3> QED
      BY <1>7, <3>1, <3>2
  <2>8. Ready(m)'
    BY <1>1, <1>8, <2>1, <2>3, <2>6, <2>7 DEF Ready
  <2> QED
    BY <2>8 DEF Turn
<1> QED
  BY <1>12, <1>13, <1>16, <1>17, <1>18

-----------------------------------------------------------------------------
(* The end of a header, and the body *)

LEMMA DataKeepsProgress ==
  ASSUME Base, Handled, RequestsFit, Progress, NEW w \in Workers,
         DataEndsHeader(w) \/ DataTooLong(w) \/ DataEndsBody(w), calm' = calm
  PROVE  Progress'
<1> USE DEF network, context, call
<1>1. /\ pc[w] = "data" /\ UNCHANGED <<asked, unsent, inbox, inputBuffer, delivered, isOpen>>
  BY DEF DataEndsHeader, DataTooLong, DataEndsBody, Refuse, SwitchToSend, Goto
<1> SUFFICES ASSUME isOpen, calm PROVE Progress'
  BY <1>1 DEF Progress
<1>2. PICK m \in 1..Len(asked) + 1 : Turn(m)
  BY DEF Progress
<1>3. AsPromised
  BY DEF Progress
<1>4. Coming' = Coming
  BY <1>1 DEF Coming
<1>5. ~Serving("body") /\ ~Serving("ready")
  BY <1>1 DEF Serving, Base, OneInside, Holding
<1>6. status = "RECEIVE_HEADER" => Front(m)
  BY <1>2, <1>5 DEF Turn, InBody, Ready, Sending
<1>7. CASE DataEndsHeader(w)
  <2>1. Front(m)
    BY <1>6, <1>7 DEF DataEndsHeader
  <2>2. m \in 1..Len(asked) /\ arg' = asked[m].head
    BY <1>7, <2>1, FoundIsHead
  <2>3. ~Serving("body")' /\ ~Serving("ready")'
    BY <1>7, WorkerGoes DEF DataEndsHeader, Holding, Places
  <2>4. UNCHANGED <<asked, delivered, status, request, keepAlive>>
    BY <1>7 DEF DataEndsHeader
  <2>5. Front(m)'
    BY <1>4, <2>1, <2>2, <2>3, <2>4 DEF Front, Before
  <2> QED
    BY <1>1, <1>3, <2>5, TurnIsProgress DEF Turn
<1>8. CASE DataTooLong(w)
  BY <1>6, <1>8, NoneIsTooLong DEF DataTooLong
<1>9. CASE DataEndsBody(w)
  <2>1. InBody(m)
    <3>1. status = "RECEIVE_BODY"
      BY <1>9 DEF DataEndsBody
    <3> QED
      BY <1>2, <1>5, <3>1 DEF Turn, Front, Ready, Sending
  <2>2. Serving("body")' /\ ~Serving("ready")'
    BY <1>9, WorkerGoes DEF DataEndsBody, Holding, Places
  <2>3. UNCHANGED <<asked, delivered, status, request, keepAlive>>
    BY <1>9 DEF DataEndsBody
  <2>4. InBody(m)'
    BY <1>4, <2>1, <2>2, <2>3 DEF InBody, IsRead, Before
  <2> QED
    BY <1>1, <1>3, <2>4, TurnIsProgress DEF Turn
<1> QED
  BY <1>7, <1>8, <1>9

(* BodyReceived is called with the whole body of the request in front. *)
LEMMA BodyIsFront ==
  ASSUME Base, NEW w \in Workers, pc[w] = "body", NEW m, InBody(m)
  PROVE  LET r == asked[m]
         IN  /\ m \in 1..Len(asked) /\ r \in Requests /\ r.length \in 0..Len(inputBuffer)
             /\ request.length = r.length
             /\ Take(inputBuffer, r.length) = [k \in 1..r.length |-> Piece(m, "body")]
             /\ Take(inputBuffer, r.length) \in Seq(PieceType)
             /\ HandleBodyFails <=>
                  Promise!Status(r) = "BAD_REQUEST" /\ Promise!Status(r) # "OK"
             /\ ~HandleBodyFails <=> Promise!Status(r) = "OK"
<1> DEFINE r == asked[m]
           l == r.length
<1>1. m \in 1..Len(asked) /\ asked \in Seq(Requests)
  BY DEF InBody, IsRead, Base, Shapes
<1>2. r \in Requests
  BY <1>1, ElementOfSeq
<1>3. /\ request.length = l /\ request.method = r.method
      /\ request.method = "POST" => request.type = r.type
      /\ Promise!HeaderStatus(r) = "OK"
      /\ \A k \in 1..l : Coming[k] = Piece(m, "body")
  BY DEF InBody, IsRead
<1>4. l \in 0..Len(inputBuffer) /\ Len(inputBuffer) \in Nat /\ inputBuffer \in Seq(PieceAsked)
  BY <1>3 DEF Base, Shapes, ContextFits, CallFits
<1> HIDE DEF l
<1>5. \A k \in 1..l : inputBuffer[k] = Piece(m, "body")
  <2>1. \A k \in 1..l : k \in 1..Len(inputBuffer)
    BY <1>4
  <2> QED
    BY <1>3, <2>1, ComingIsSeq
<1>6. Take(inputBuffer, l) \in Seq(PieceAsked) /\ Len(Take(inputBuffer, l)) = l
      /\ \A i \in 1..l : Take(inputBuffer, l)[i] = inputBuffer[i]
  BY <1>4, TakeIsSeq
<1> DEFINE t == Take(inputBuffer, l)
           b == [k \in 1..l |-> Piece(m, "body")]
<1>7. t = b
  <2> HIDE DEF t
  <2>1. t = [i \in 1..Len(t) |-> t[i]]
    BY <1>6 DEF t
  <2> QED
    BY <1>5, <1>6, <2>1 DEF t
<1>8. t \in Seq(PieceType)
  <2>1. Piece(m, "body") \in PieceType
    <3>1. Len(asked) \in Nat /\ Len(asked) <= MaxRequests /\ MaxRequests \in Nat
      BY HttpConnectionAssumption DEF Base, Shapes
    <3> QED
      BY <1>1, <3>1 DEF Piece, PieceType
  <2>2. l \in Nat
    BY <1>4
  <2> DEFINE e == Piece(m, "body")
  <2> HIDE DEF e
  <2>3. [k \in 1..l |-> e] \in Seq(PieceType)
    BY <2>1, <2>2 DEF e
  <2> QED
    BY <1>7, <2>3 DEF e
<1>9. r.body \in {"plain", "parts"}
  BY <1>2, HttpConnectionAssumption DEF Promise!RequestType
<1>10. HandleBodyFails <=>
         r.method = "POST" /\ r.type = "multipart" /\ (l = 0 \/ r.body # "parts")
  <2>1. \A i \in 1..l : inputBuffer[i].is = "body" /\ asked[inputBuffer[i].of] = r
    BY <1>5 DEF Piece
  <2>2. l # 0 => 1 \in 1..l
    BY <1>4
  <2> QED
    BY <1>3, <2>1, <2>2 DEF HandleBodyFails
<1>11. Promise!Status(r) =
         IF r.method = "POST" /\ r.type = "multipart" /\ (l = 0 \/ r.body # "parts")
         THEN "BAD_REQUEST" ELSE "OK"
  BY <1>3 DEF Promise!Status, l
<1> QED
  BY <1>1, <1>2, <1>3, <1>4, <1>7, <1>8, <1>10, <1>11 DEF l

LEMMA BodyKeepsProgress ==
  ASSUME Base, Progress, NEW w \in Workers, BodyRefused(w) \/ BodyHandled(w), calm' = calm
  PROVE  Progress'
<1> USE DEF network, context, call
<1> DEFINE l == request.length
<1>1. /\ pc[w] = "body" /\ UNCHANGED <<asked, unsent, inbox, delivered, isOpen, keepAlive>>
      /\ inputBuffer' = Drop(inputBuffer, l)
  BY DEF BodyRefused, BodyHandled, SwitchToSend, Goto
<1> SUFFICES ASSUME isOpen, calm PROVE Progress'
  BY <1>1 DEF Progress
<1>2. PICK m \in 1..Len(asked) + 1 : Turn(m)
  BY DEF Progress
<1>3. AsPromised
  BY DEF Progress
<1>4. Serving("body") /\ ~Serving("ready") /\ status # "SEND"
  <2>1. Serving("body")
    BY <1>1 DEF Serving
  <2>2. ~Serving("ready")
    BY <1>1 DEF Serving, Base, OneInside, Holding
  <2>3. status # "SEND"
    BY <1>1 DEF Base, ContextFits, CallFits
  <2> QED
    BY <2>1, <2>2, <2>3
<1>5. InBody(m)
  BY <1>2, <1>4 DEF Turn, Front, Ready, Sending
<1> DEFINE r == asked[m]
<1>6. /\ m \in 1..Len(asked) /\ r \in Requests /\ l \in 0..Len(inputBuffer) /\ l = r.length
      /\ Take(inputBuffer, l) = [k \in 1..l |-> Piece(m, "body")]
      /\ HandleBodyFails => Promise!Status(r) = "BAD_REQUEST"
      /\ ~HandleBodyFails => Promise!Status(r) = "OK"
  <2>1. l = r.length
    BY <1>1, <1>5, BodyIsFront
  <2> QED
    BY <1>1, <1>5, <2>1, BodyIsFront
<1>7. /\ Len(delivered) = Before(m)
      /\ keepAlive <=> ~r.close
      /\ Promise!HeaderStatus(r) = "OK" /\ request.number = m
      /\ request.params = <<>> /\ request.method = r.method
      /\ Follows(asked, Drop(Coming, l), m + 1)
  BY <1>5 DEF InBody, IsRead
<1>8. Coming' = Drop(Coming, l)
  BY <1>1, <1>6, ComingIsCut
<1>9. CASE BodyRefused(w)
  <2>1. "BAD_REQUEST" \in Errors
    BY DEF Errors
  <2>2. Promise!Status(r) = "BAD_REQUEST"
    BY <1>6, <1>9 DEF BodyRefused
  <2>3. keepAlive' <=> ~Promise!Final(r)
    BY <1>1, <1>7 DEF Promise!Final
  <2>4. /\ status' = "SEND" /\ status # "SEND"
        /\ outputBuffer' = GetResponseText(SetOther("BAD_REQUEST"))
    BY <1>4, <1>9 DEF BodyRefused, SwitchToSend
  <2>5. Follows(asked, Coming', m + 1)
    BY <1>7, <1>8
  <2>6. Turn(m)'
    BY <1>1, <1>6, <1>7, <2>1, <2>2, <2>3, <2>4, <2>5, ErrorIsSent
  <2> QED
    BY <1>1, <1>3, <2>6, TurnIsProgress
<1>10. CASE BodyHandled(w)
  <2>1. Promise!Status(r) = "OK"
    BY <1>6, <1>10 DEF BodyHandled
  <2>2. Serving("ready")'
    BY <1>10, WorkerGoes DEF BodyHandled, Holding, Places
  <2>3. /\ request' = [request EXCEPT !.params =
                         IF request.method = "POST" THEN Take(inputBuffer, l) ELSE @]
        /\ request \in RequestShape
    BY <1>10 DEF BodyHandled, Base, Shapes
  <2>4. /\ request'.number = m
        /\ request'.params = IF request.method = "POST" THEN Take(inputBuffer, l) ELSE <<>>
    BY <1>7, <2>3 DEF RequestShape
  <2>5. request'.params = Promise!Body(m, r)
    BY <1>6, <1>7, <2>4 DEF Promise!Body, Piece
  <2>6. IsRead(m)'
    BY <1>1, <1>4, <1>6, <1>7, <1>10, <2>4 DEF BodyHandled, IsRead, Before
  <2>7. Ready(m)'
    BY <1>1, <1>7, <1>8, <2>1, <2>2, <2>5, <2>6 DEF Ready
  <2> QED
    BY <1>1, <1>3, <2>7, TurnIsProgress DEF Turn
<1> QED
  BY <1>9, <1>10

LEMMA ReadyKeepsProgress ==
  ASSUME Base, Progress, NEW w \in Workers, MessageReady(w), calm' = calm
  PROVE  Progress'
<1> USE DEF network, context, call
<1>1. /\ pc[w] = "ready" /\ status' = "SEND"
      /\ UNCHANGED <<asked, unsent, inbox, delivered, isOpen, keepAlive, inputBuffer>>
      /\ outputBuffer' = GetResponseText(SetWithBody)
  BY DEF MessageReady, SwitchToSend, Goto
<1> SUFFICES ASSUME isOpen, calm PROVE Progress'
  BY <1>1 DEF Progress
<1>2. PICK m \in 1..Len(asked) + 1 : Turn(m)
  BY DEF Progress
<1>3. AsPromised
  BY DEF Progress
<1>4. Serving("ready") /\ status # "SEND"
  BY <1>1 DEF Serving, Base, ContextFits, CallFits
<1>5. Ready(m)
  BY <1>2, <1>4 DEF Turn, Front, InBody, Sending
<1>6. Promise!Answer(m, asked[m]) =
        [to |-> request.number, got |-> request.params,
         status |-> Promise!HandlerStatus(asked[request.number].found)]
  BY <1>5 DEF Ready, IsRead, Promise!Answer
<1>7. Promise!Answer(m, asked[m]) = SetWithBody /\ SetWithBody \in AnswerType
  BY <1>4, <1>6, CalmIsFresh, AnswerIsOut DEF Base
<1>8. keepAlive <=> ~Promise!Final(asked[m])
  BY <1>5 DEF Ready, IsRead, Promise!Final
<1>9. /\ m \in 1..Len(asked) /\ Len(delivered) = Before(m)
      /\ Follows(asked, Coming, m + 1)
  BY <1>5 DEF Ready, IsRead
<1>10. Follows(asked, Coming', m + 1)
  BY <1>1, <1>9 DEF Coming
<1>11. Turn(m)'
  <2> DEFINE given == SetWithBody
  <2>1. /\ given \in AnswerType /\ Promise!Answer(m, asked[m]) = given
        /\ outputBuffer' = GetResponseText(given)
    BY <1>1, <1>7
  <2> HIDE DEF given
  <2> QED
    BY <1>1, <1>8, <1>9, <1>10, <2>1, AnswerIsSent
<1> QED
  BY <1>1, <1>3, <1>11, TurnIsProgress

-----------------------------------------------------------------------------
(* What is sent *)

(* The next pieces of the response to request m are the next of the script. *)
LEMMA SentIsDelivered ==
  ASSUME Base, AsPromised, NEW m \in Nat, Sending(m), NEW k \in 1..Len(outputBuffer),
         delivered' = delivered \o Take(outputBuffer, k), asked' = asked,
         NEW n, n = Len(delivered) + k
  PROVE  /\ n \in Len(delivered) + 1..Len(asked) * ResponseLength
         /\ Len(delivered') = n
         /\ delivered' = SubSeq(Promise!Script(0), 1, n)
         /\ AsPromised'
         /\ delivered = SubSeq(Promise!Script(0), 1, Len(delivered))
         /\ \A j \in Len(delivered) + 1..n - 1 : ~Promise!EndsAt(0, j)
         /\ Promise!EndsAt(0, n) <=> k = Len(outputBuffer) /\ Promise!Final(asked[m])
<1> DEFINE L == Len(asked)
           RL == ResponseLength
           out == Take(outputBuffer, k)
           d == Len(delivered)
           o == Len(outputBuffer)
           Script == Promise!Script(0)
<1>1. /\ asked \in Seq(Requests) /\ L \in Nat /\ RL \in Nat \ {0} /\ m \in 1..L
      /\ delivered \in Seq(AnswerPiece) /\ outputBuffer \in Seq(AnswerPiece)
      /\ d \in Nat /\ o \in Nat
  <2>1. m \in 1..L
    BY DEF Sending
  <2>2. /\ asked \in Seq(Requests) /\ delivered \in Seq(AnswerPiece)
        /\ outputBuffer \in Seq(AnswerPiece)
    BY DEF Base, Shapes
  <2>3. RL \in Nat \ {0}
    BY HttpConnectionAssumption
  <2> QED
    BY <2>1, <2>2, <2>3
<1>2. Before(m) \in Nat /\ Before(L + 1) \in Nat /\ Before(m) + RL <= Before(L + 1)
  <2>1. m \in Nat \ {0} /\ L + 1 \in Nat \ {0} /\ m < L + 1
    BY <1>1
  <2> QED
    BY <2>1, BeforeIsNat, BeforeGrows
<1>3. /\ d + o = Before(m) + RL /\ o \in 1..RL
      /\ \A i \in 1..o :
           outputBuffer[i] = Promise!Piece(Promise!Answer(m, asked[m]), RL - o + i)
  BY DEF Sending
<1>4. /\ d <= Before(L + 1)
      /\ \A i \in 1..d : delivered[i] = Script[i]
  BY DEF AsPromised
<1> DEFINE B == Before(m)
           E == Before(L + 1)
<1> HIDE DEF L, RL, d, o, B, E, Script
<1>5. /\ n = d + k /\ k \in 1..o /\ n \in Nat /\ n \in d + 1..E /\ n <= B + RL
      /\ d >= B /\ d \in Nat /\ o \in Nat /\ B \in Nat /\ E \in Nat
      /\ (n = B + RL <=> k = o)
  <2>1. n = d + k /\ k \in 1..o
    BY DEF d, o
  <2>2. /\ B \in Nat /\ E \in Nat /\ B + RL <= E /\ d + o = B + RL /\ o \in 1..RL
        /\ d \in Nat /\ o \in Nat /\ RL \in Nat \ {0}
    BY <1>1, <1>2, <1>3 DEF B, E
  <2> QED
    BY ONLY <2>1, <2>2
<1>6. /\ out \in Seq(AnswerPiece) /\ Len(out) = k
      /\ \A i \in 1..k : out[i] = outputBuffer[i]
  <2>1. k \in 0..Len(outputBuffer)
    BY <1>1
  <2> QED
    BY <1>1, <2>1, TakeIsSeq
<1> HIDE DEF out
<1>7. /\ delivered' \in Seq(AnswerPiece) /\ Len(delivered') = d + Len(out)
      /\ \A i \in 1..d + Len(out) :
           delivered'[i] = IF i <= d THEN delivered[i] ELSE out[i - d]
  <2>1. delivered \in Seq(AnswerPiece) /\ out \in Seq(AnswerPiece)
    BY <1>1, <1>6
  <2>2. /\ delivered \o out \in Seq(AnswerPiece)
        /\ Len(delivered \o out) = Len(delivered) + Len(out)
        /\ \A i \in 1..Len(delivered) + Len(out) :
             (delivered \o out)[i] =
               IF i <= Len(delivered) THEN delivered[i] ELSE out[i - Len(delivered)]
    BY ONLY <2>1, ConcatProperties
  <2>3. delivered' = delivered \o out
    BY DEF out
  <2> QED
    BY <2>2, <2>3 DEF d
<1>8. Len(delivered') = n
  BY <1>5, <1>6, <1>7
<1>9. ASSUME NEW i \in 1..n PROVE delivered'[i] = Script[i]
  <2>1. CASE i <= d
    <3>1. i \in 1..d /\ i \in 1..d + Len(out)
      BY <1>5, <1>6, <2>1
    <3> QED
      BY <1>4, <1>7, <2>1, <3>1
  <2>2. CASE ~(i <= d)
    <3> DEFINE p == i - d
               q == RL - o + p
    <3>1. i \in 1..d + Len(out) /\ p \in 1..k
      BY <1>5, <1>6, <2>2
    <3>2. delivered'[i] = out[p]
      BY <1>7, <2>2, <3>1
    <3> HIDE DEF p
    <3>3. p \in 1..o
      BY <1>5, <3>1
    <3>4. out[p] = Promise!Piece(Promise!Answer(m, asked[m]), q)
      BY <1>3, <1>6, <3>1, <3>3
    <3>5. q \in 1..RL /\ B + q = i
      <4>1. p = i - d /\ d + o = B + RL /\ RL \in Nat /\ o \in 1..RL
        BY <1>1, <1>3 DEF p, B
      <4> QED
        BY ONLY <4>1, <1>5, <3>3, i \in 1..n
    <3> HIDE DEF q
    <3>6. Script[B + q] = Promise!Piece(Promise!Answer(m, asked[m]), q)
      <4>1. m \in 1..Len(asked) /\ q \in 1..ResponseLength
        BY <1>1, <3>5 DEF L, RL
      <4> QED
        BY <1>1, <4>1, ScriptIs DEF B, Script
    <3> QED
      BY <3>2, <3>4, <3>5, <3>6
  <2> QED
    BY <2>1, <2>2
<1>10. E = Len(asked) * ResponseLength
  BY <1>1 DEF E, L, Before
<1>11. n \in Len(delivered) + 1..Len(asked) * ResponseLength
  BY <1>5, <1>10 DEF d
<1>12. ASSUME NEW s \in Seq(AnswerPiece), Len(s) \in Nat,
              \A i \in 1..Len(s) : s[i] = Script[i]
       PROVE  s = SubSeq(Script, 1, Len(s))
  <2> DEFINE size == Len(s)
  <2>1. s = [i \in 1..size |-> s[i]] /\ size \in Nat
    BY ONLY s \in Seq(AnswerPiece)
  <2> HIDE DEF size
  <2>2. SubSeq(Script, 1, size) = [i \in 1..size |-> Script[i + 1 - 1]]
    BY <2>1
  <2>3. \A i \in 1..size : i + 1 - 1 = i /\ s[i] = Script[i]
    BY <1>12 DEF size
  <2>4. SubSeq(Script, 1, size) = [i \in 1..size |-> Script[i]]
    BY <2>2, <2>3
  <2> QED
    BY <2>1, <2>3, <2>4 DEF size
<1>17. delivered' = SubSeq(Promise!Script(0), 1, n)
  <2> DEFINE e == delivered'
  <2>1. e \in Seq(AnswerPiece) /\ Len(e) = n /\ \A i \in 1..Len(e) : e[i] = Script[i]
    BY <1>7, <1>8, <1>9
  <2> HIDE DEF e
  <2>2. e = SubSeq(Script, 1, Len(e))
    BY <1>5, <1>12, <2>1
  <2> QED
    BY <2>1, <2>2 DEF e, Script
<1>18. delivered = SubSeq(Promise!Script(0), 1, Len(delivered))
  <2>1. delivered \in Seq(AnswerPiece) /\ Len(delivered) \in Nat
    BY <1>1
  <2>2. \A i \in 1..Len(delivered) : delivered[i] = Script[i]
    BY <1>4 DEF d
  <2> QED
    BY <1>12, <2>1, <2>2 DEF Script
<1>13. AsPromised'
  <2>1. Promise!Script(0)' = Promise!Script(0)
    BY DEF Promise!Script
  <2>2. Len(delivered') <= Before(Len(asked') + 1)
    BY <1>5, <1>8 DEF E, L
  <2>3. \A i \in 1..Len(delivered') : delivered'[i] = Promise!Script(0)'[i]
    BY <1>8, <1>9, <2>1 DEF Script
  <2> QED
    BY <2>2, <2>3 DEF AsPromised, Before
<1>14. ASSUME NEW j \in Nat, B < j, j <= B + RL
       PROVE  Promise!EndsAt(0, j) <=> j = B + RL /\ Promise!Final(asked[m])
  <2>1. ASSUME Promise!EndsAt(0, j) PROVE j = B + RL /\ Promise!Final(asked[m])
    <3>1. PICK i \in 1..Len(asked) :
            j = i * ResponseLength /\ (i = 0 \/ Promise!Final(asked[i]))
      BY <2>1 DEF Promise!EndsAt
    <3>2. i \in Nat \ {0} /\ m \in Nat \ {0}
      BY <1>1, <3>1
    <3>3. i = m /\ j = Before(m) + ResponseLength
      BY <1>14, <3>1, <3>2, EndIsBetween DEF B, RL
    <3> QED
      BY <3>1, <3>3 DEF B, RL
  <2>2. ASSUME j = B + RL, Promise!Final(asked[m]) PROVE Promise!EndsAt(0, j)
    <3>1. j = m * ResponseLength
      BY <1>1, <2>2 DEF B, RL, Before
    <3> QED
      BY <1>1, <2>2, <3>1 DEF Promise!EndsAt, L
  <2> QED
    BY <2>1, <2>2
<1>15. ASSUME NEW j \in Len(delivered) + 1..n - 1 PROVE ~Promise!EndsAt(0, j)
  <2>1. j \in Nat /\ B < j /\ j < B + RL
    <3>1. j \in d + 1..n - 1 /\ RL \in Nat
      BY <1>1 DEF d
    <3> QED
      BY ONLY <1>5, <3>1
  <2>2. j <= B + RL /\ j # B + RL
    BY <1>1, <1>5, <2>1
  <2> QED
    BY <1>14, <2>1, <2>2
<1>16. Promise!EndsAt(0, n) <=> k = Len(outputBuffer) /\ Promise!Final(asked[m])
  <2>1. B < n
    BY <1>5
  <2> QED
    BY <1>5, <1>14, <2>1 DEF o
<1> QED
  BY <1>8, <1>11, <1>13, <1>15, <1>16, <1>17, <1>18

(* A step that sends is a step of the promise, and keeps what it rests on. *)
LEMMA SendKeepsPromise ==
  ASSUME Base, Progress, NEW w \in Workers,
         SendPartly(w) \/ SendAll(w) \/ SendAllAndClose(w), calm' = calm, calm
  PROVE  Progress' /\ Promise!Next
<1> USE DEF network, context, call
<1>1. /\ pc[w] = "send" /\ isOpen /\ outputBuffer # <<>>
      /\ UNCHANGED <<asked, unsent, inputBuffer, keepAlive>>
  <2>1. outputBuffer \in Seq(AnswerPiece)
    BY DEF Base, Shapes
  <2>2. Len(outputBuffer) \in 1..Room => outputBuffer # <<>>
    BY <2>1
  <2>3. Room \in 1..Len(outputBuffer) - 1 => outputBuffer # <<>>
    BY <2>1
  <2> QED
    BY <2>2, <2>3 DEF SendPartly, SendAll, SendAllAndClose, SendRest, Transmit,
       Return, Goto
<1>2. PICK m \in 1..Len(asked) + 1 : Turn(m)
  BY <1>1 DEF Progress
<1>3. AsPromised
  BY <1>1 DEF Progress
<1>4. status = "SEND"
  BY <1>1 DEF Base, ContextFits
<1>5. Sending(m)
  BY <1>2, <1>4 DEF Turn, Front, InBody, IsRead, Ready
<1>6. /\ m \in 1..Len(asked) /\ m \in Nat \ {0} /\ Len(asked) \in Nat
      /\ Len(outputBuffer) \in 1..ResponseLength
      /\ Len(delivered) + Len(outputBuffer) = Before(m) + ResponseLength
      /\ keepAlive <=> ~Promise!Final(asked[m])
      /\ keepAlive => Follows(asked, Coming, m + 1)
      /\ outputBuffer \in Seq(AnswerPiece) /\ Len(delivered) \in Nat
  <2>1. m \in 1..Len(asked)
    BY <1>5 DEF Sending
  <2>2. /\ asked \in Seq(Requests)
        /\ outputBuffer \in Seq(AnswerPiece) /\ delivered \in Seq(AnswerPiece)
    BY DEF Base, Shapes
  <2>3. m \in Nat \ {0} /\ Len(asked) \in Nat /\ Len(delivered) \in Nat
    BY <2>1, <2>2
  <2> QED
    BY <1>5, <2>1, <2>2, <2>3 DEF Sending
<1>7. ASSUME NEW k \in 1..Len(outputBuffer), delivered' = delivered \o Take(outputBuffer, k),
             isOpen' <=> ~(k = Len(outputBuffer) /\ Promise!Final(asked[m]))
      PROVE  Promise!Next /\ AsPromised' /\ Len(delivered') = Len(delivered) + k
  <2> DEFINE n == Len(delivered) + k
  <2>1. /\ n \in Len(delivered) + 1..Len(asked) * ResponseLength
        /\ Len(delivered') = n
        /\ delivered' = SubSeq(Promise!Script(0), 1, n)
        /\ AsPromised'
        /\ delivered = SubSeq(Promise!Script(0), 1, Len(delivered))
        /\ \A j \in Len(delivered) + 1..n - 1 : ~Promise!EndsAt(0, j)
        /\ Promise!EndsAt(0, n) <=> k = Len(outputBuffer) /\ Promise!Final(asked[m])
    BY <1>1, <1>3, <1>5, <1>6, <1>7, SentIsDelivered
  <2> HIDE DEF n
  <2>2. (~isOpen)' = Promise!EndsAt(0, n)
    <3>1. ~isOpen' <=> Promise!EndsAt(0, n)
      BY <1>7, <2>1
    <3>2. Promise!EndsAt(0, n) \in BOOLEAN
      BY DEF Promise!EndsAt
    <3> QED
      BY <3>1, <3>2
  <2>3. Promise!Deliver(n, 0)
    BY <1>1, <2>1, <2>2 DEF Promise!Deliver
  <2>4. 0 \in Promise!TurnedAway
    BY DEF Promise!TurnedAway
  <2> QED
    BY <2>1, <2>3, <2>4 DEF Promise!Next, n
<1>8. CASE SendPartly(w)
  <2> DEFINE k == Room
             o == Len(outputBuffer)
             RL == ResponseLength
  <2>1. /\ k \in 1..o - 1 /\ delivered' = delivered \o Take(outputBuffer, k)
        /\ outputBuffer' = Drop(outputBuffer, k)
        /\ UNCHANGED <<inbox, isOpen, status>>
    BY <1>8 DEF SendPartly, Transmit
  <2> HIDE DEF k
  <2>2. o \in Nat /\ o \in 1..RL /\ RL \in Nat
    BY <1>6, HttpConnectionAssumption
  <2> HIDE DEF o, RL
  <2>3. k \in 1..o /\ k \in 0..o /\ k # o
    BY ONLY <2>1, <2>2
  <2>4. Promise!Next /\ AsPromised' /\ Len(delivered') = Len(delivered) + k
    BY <1>1, <1>7, <2>1, <2>3 DEF o
  <2>5. /\ Len(outputBuffer') = o - k
        /\ \A i \in 1..o - k : outputBuffer'[i] = outputBuffer[k + i]
    BY <1>6, <2>1, <2>3, DropIsSeq DEF o
  <2> DEFINE answer == Promise!Answer(m, asked[m])
  <2>6. \A i \in 1..o : outputBuffer[i] = Promise!Piece(answer, RL - o + i)
    BY <1>5 DEF Sending, o, RL
  <2> HIDE DEF answer
  <2>7. ASSUME NEW i \in 1..Len(outputBuffer')
        PROVE  outputBuffer'[i] = Promise!Piece(answer, RL - Len(outputBuffer') + i)
    <3>1. k + i \in 1..o /\ i \in 1..o - k /\ RL - o + (k + i) = RL - (o - k) + i
      BY ONLY <2>2, <2>3, <2>5, i \in 1..Len(outputBuffer')
    <3> QED
      BY <2>5, <2>6, <3>1
  <2>8. Len(outputBuffer') \in 1..RL
    BY ONLY <2>1, <2>2, <2>5
  <2>9. Len(delivered') + Len(outputBuffer') = Before(m) + RL
    <3>1. Len(delivered) \in Nat /\ Len(delivered) + o = Before(m) + RL
      BY <1>6 DEF o, RL
    <3> QED
      BY ONLY <2>2, <2>3, <2>4, <2>5, <3>1
  <2>10. Coming' = Coming
    BY <1>1, <2>1 DEF Coming
  <2>11. Sending(m)'
    BY <1>1, <1>4, <1>6, <2>1, <2>7, <2>8, <2>9, <2>10 DEF Sending, Before, answer, RL
  <2> QED
    BY <1>1, <1>2, <2>4, <2>11 DEF Progress, Turn
<1>9. ASSUME SendRest, isOpen' <=> keepAlive
      PROVE  /\ Promise!Next /\ AsPromised' /\ Len(delivered') = Before(m + 1)
             /\ request'.length = -1 /\ request'.params = <<>> /\ status' = "RECEIVE_HEADER"
  <2> DEFINE k == Len(outputBuffer)
  <2>1. k \in 1..Len(outputBuffer) /\ delivered' = delivered \o Take(outputBuffer, k)
    BY <1>6, <1>9 DEF SendRest, Transmit
  <2>2. isOpen' <=> ~(k = Len(outputBuffer) /\ Promise!Final(asked[m]))
    BY <1>6, <1>9
  <2> HIDE DEF k
  <2>3. Promise!Next /\ AsPromised' /\ Len(delivered') = Len(delivered) + k
    BY <1>7, <2>1, <2>2
  <2>4. Len(delivered') = Before(m + 1)
    <3>1. Before(m + 1) = Before(m) + ResponseLength
      BY <1>6, BeforeIsNat
    <3> QED
      BY <1>6, <2>3, <3>1 DEF k
  <2>5. request' = Clean /\ status' = "RECEIVE_HEADER"
    BY <1>9 DEF SendRest
  <2>6. Clean.length = -1 /\ Clean.params = <<>>
    BY DEF Clean, NoRequest
  <2> QED
    BY <2>3, <2>4, <2>5, <2>6
<1>10. CASE SendAll(w)
  <2>1. SendRest /\ keepAlive /\ isOpen' /\ inbox' = inbox /\ Goto(w, "send", "data")
    BY <1>1, <1>10 DEF SendAll
  <2>2. /\ Promise!Next /\ AsPromised' /\ Len(delivered') = Before(m + 1)
        /\ request'.length = -1 /\ request'.params = <<>> /\ status' = "RECEIVE_HEADER"
    BY <1>9, <2>1
  <2>3. ~Serving("body")' /\ ~Serving("ready")' /\ ~Serving("header")'
    BY <2>1, WorkerGoes DEF Holding, Places
  <2>4. Follows(asked, Coming', m + 1)
    BY <1>1, <1>6, <2>1 DEF Coming
  <2>5. Front(m + 1)'
    BY <1>1, <2>1, <2>2, <2>3, <2>4 DEF Front, Before
  <2>6. m + 1 \in 1..Len(asked') + 1
    BY <1>1, <1>6
  <2> QED
    BY <2>2, <2>5, <2>6 DEF Progress, Turn
<1>11. CASE SendAllAndClose(w)
  <2>1. SendRest /\ ~keepAlive /\ ~isOpen'
    BY <1>11 DEF SendAllAndClose
  <2>2. Promise!Next
    BY <1>9, <2>1
  <2> QED
    BY <2>1, <2>2 DEF Progress
<1> QED
  BY <1>8, <1>10, <1>11

-----------------------------------------------------------------------------
(* Every step *)

LEMMA PromiseStep ==
  ASSUME Inv, RequestsFit, Progress, [Next]_vars
  PROVE  Progress' /\ [Promise!Next \/ ~calm']_(Promise!vars)
<1> USE DEF network, context, call
<1> DEFINE Goal == Progress' /\ [Promise!Next \/ ~calm']_(Promise!vars)
<1>1. Base /\ Handled
  BY DEF Inv
(* Steps that the promise does not see, *)
<1>a. ASSUME UNCHANGED <<asked, delivered, isOpen>>, Progress' PROVE Goal
  BY <1>a DEF Promise!vars
(* and of them those that leave the turn as it is. *)
<1>b. ASSUME UNCHANGED <<asked, delivered, isOpen, outputBuffer, status, request, keepAlive>>,
             Coming' = Coming, calm' => calm,
             \A place \in {"header", "body", "ready"} : Serving(place)' <=> Serving(place),
             Serving("header")' => arg' = arg
      PROVE  Goal
  BY <1>a, <1>b, ProgressStays
<1>c. ASSUME calm' = FALSE PROVE Goal
  BY <1>c DEF Progress
<1>d. ASSUME pc' = pc
      PROVE  \A place \in {"header", "body", "ready"} : Serving(place)' <=> Serving(place)
  BY <1>d DEF Serving
<1> SUFFICES Goal
  OBVIOUS
<1> HIDE DEF Goal
<1>2. ASSUME NEW r \in Requests, Ask(r) PROVE Goal
  <2>1. Progress'
    BY <1>1, <1>2, AskKeepsProgress
  <2>2. Promise!Ask(r)
    BY <1>2 DEF Ask, Promise!Ask
  <2> QED
    BY <2>1, <2>2 DEF Promise!Next, Goal
<1>3. ASSUME ClientSends PROVE Goal
  <2>1. Coming' = Coming
    BY <1>1, <1>3, ComingIsSent
  <2>2. UNCHANGED <<asked, delivered, isOpen, outputBuffer, status, request, keepAlive, calm,
                    pc, arg>>
    BY <1>3 DEF ClientSends
  <2>3. \A place \in {"header", "body", "ready"} : Serving(place)' <=> Serving(place)
    BY <1>d, <2>2
  <2> QED
    BY <1>b, <2>1, <2>2, <2>3
<1>4. ASSUME ClientReads PROVE Goal
  <2>1. UNCHANGED <<asked, delivered, isOpen, outputBuffer, status, request, keepAlive, calm,
                    pc, arg, inputBuffer, inbox, unsent>>
    BY <1>4 DEF ClientReads
  <2>2. \A place \in {"header", "body", "ready"} : Serving(place)' <=> Serving(place)
    BY <1>d, <2>1
  <2>3. Coming' = Coming
    BY <2>1 DEF Coming
  <2> QED
    BY <1>b, <2>1, <2>2, <2>3
<1>5. ASSUME NEW w \in Workers,
             \/ PollReceivable(w) \/ PollSendable(w) \/ PollNothing(w)
             \/ Receivable(w) \/ RecvEnds(w) \/ Sendable(w),
             calm' = calm
      PROVE  Goal
  <2>1. /\ UNCHANGED <<asked, delivered, isOpen, outputBuffer, status, request, keepAlive,
                       inputBuffer, inbox, unsent, arg>>
    BY <1>5 DEF PollReceivable, PollSendable, PollNothing, Receivable, RecvEnds,
       Sendable,
                Fetch
  <2>2. \A place \in {"header", "body", "ready"} : Serving(place)' <=> Serving(place)
    <3>1. CASE RecvEnds(w)
      <4>1. \A place \in Holding : Serving(place) <=> place = "recv"
        BY <1>1, <3>1, MovesFrom DEF RecvEnds, Holding, Places
      <4>2. \A place \in Holding : ~Serving(place)'
        BY <1>1, <3>1, MovesFrom DEF RecvEnds, Holding, Places
      <4> QED
        BY <4>1, <4>2 DEF Holding
    <3>2. CASE PollReceivable(w)
      BY <1>1, <3>2, WorkerWaits DEF PollReceivable, Fetch, Holding, Working, Places
    <3>3. CASE PollSendable(w)
      BY <1>1, <3>3, WorkerWaits DEF PollSendable, Fetch, Holding, Working, Places
    <3>4. CASE PollNothing(w)
      BY <1>1, <3>4, WorkerWaits DEF PollNothing, Fetch, Holding, Working, Places
    <3>5. CASE Receivable(w)
      BY <1>1, <3>5, WorkerWaits DEF Receivable, Holding, Working, Places
    <3>6. CASE Sendable(w)
      BY <1>1, <3>6, WorkerWaits DEF Sendable, Holding, Working, Places
    <3> QED
      BY <1>5, <3>1, <3>2, <3>3, <3>4, <3>5, <3>6
  <2> QED
    BY <1>5, <1>b, <2>1, <2>2 DEF Coming
<1>6. ASSUME NEW w \in Workers, Recv(w), calm' = calm PROVE Goal
  <2>1. Coming' = Coming
    BY <1>1, <1>6, ComingIsReceived
  <2>2. UNCHANGED <<asked, delivered, isOpen, outputBuffer, status, request, keepAlive>>
    BY <1>6 DEF Recv
  <2>3. /\ \A place \in Holding : Serving(place) <=> place = "recv"
        /\ \A place \in Holding : Serving(place)' <=> place = "data"
    BY <1>1, <1>6, WorkerGoes DEF Recv, Holding, Places
  <2> QED
    BY <1>6, <1>b, <2>1, <2>2, <2>3 DEF Holding
<1>7. ASSUME NEW w \in Workers,
             DataEndsHeader(w) \/ DataTooLong(w) \/ DataEndsBody(w), calm' = calm
      PROVE  Goal
  <2>1. UNCHANGED <<asked, delivered, isOpen>>
    BY <1>7 DEF DataEndsHeader, DataTooLong, DataEndsBody
  <2> QED
    BY <1>1, <1>7, <1>a, <2>1, DataKeepsProgress
<1>8. ASSUME NEW w \in Workers,
             DataWaits(w) \/ NothingToSend(w) \/ SendFails(w), calm' = calm
      PROVE  Goal
  <2>1. /\ UNCHANGED <<asked, delivered, isOpen, outputBuffer, status, request, keepAlive,
                       inputBuffer, inbox, unsent, arg>>
    BY <1>8 DEF DataWaits, NothingToSend, SendFails
  <2>2. \A place \in {"header", "body", "ready"} : ~Serving(place) /\ ~Serving(place)'
    <3>1. \E from \in {"data", "send"} : Return(w, from)
      BY <1>8 DEF DataWaits, NothingToSend, SendFails
    <3>2. PICK from \in {"data", "send"} : Return(w, from)
      BY <3>1
    <3>3. from \in Holding
      BY DEF Holding
    <3> QED
      BY <1>1, <3>2, <3>3, WorkerReturns DEF Holding, Working
  <2> QED
    BY <1>8, <1>b, <2>1, <2>2 DEF Coming
<1>9. ASSUME NEW w \in Workers,
             \/ HeaderInvalid(w) \/ HeaderRefused(w) \/ HeaderBeforeBody(w)
             \/ HeaderAndBody(w) \/ HeaderOnly(w),
             calm' = calm
      PROVE  Goal
  <2>1. UNCHANGED <<asked, delivered, isOpen>>
    BY <1>9 DEF HeaderInvalid, HeaderRefused, HeaderBeforeBody, HeaderAndBody,
       HeaderOnly
  <2> QED
    BY <1>1, <1>9, <1>a, <2>1, HeaderKeepsProgress
<1>10. ASSUME NEW w \in Workers, BodyRefused(w) \/ BodyHandled(w), calm' = calm PROVE Goal
  <2>1. UNCHANGED <<asked, delivered, isOpen>>
    BY <1>10 DEF BodyRefused, BodyHandled
  <2> QED
    BY <1>1, <1>10, <1>a, <2>1, BodyKeepsProgress
<1>11. ASSUME NEW w \in Workers, MessageReady(w), calm' = calm PROVE Goal
  <2>1. UNCHANGED <<asked, delivered, isOpen>>
    BY <1>11 DEF MessageReady
  <2> QED
    BY <1>1, <1>11, <1>a, <2>1, ReadyKeepsProgress
<1>12. ASSUME NEW w \in Workers, SendPartly(w) \/ SendAll(w) \/ SendAllAndClose(w), calm' = calm
       PROVE  Goal
  <2>1. CASE calm
    BY <1>1, <1>12, <2>1, SendKeepsPromise DEF Goal
  <2>2. CASE ~calm
    <3>1. calm' = FALSE
      BY <1>1, <1>12, <2>2 DEF Base, Shapes
    <3> QED
      BY <1>c, <3>1
  <2> QED
    BY <2>1, <2>2
<1>13. ASSUME NEW w \in Workers, ReceivableTooSlowly(w) \/ MessageThrows(w) PROVE Goal
  BY <1>13, <1>c DEF ReceivableTooSlowly, MessageThrows, Troubled
<1>14. ASSUME UNCHANGED vars PROVE Goal
  <2>1. UNCHANGED <<asked, delivered, isOpen, outputBuffer, status, request, keepAlive, calm,
                    pc, arg, inputBuffer, inbox, unsent>>
    BY <1>14 DEF vars
  <2>2. \A place \in {"header", "body", "ready"} : Serving(place)' <=> Serving(place)
    BY <1>d, <2>1
  <2>3. Coming' = Coming
    BY <2>1 DEF Coming
  <2> QED
    BY <1>b, <2>1, <2>2, <2>3
<1>15. ASSUME Next PROVE Goal
  <2>1. ASSUME ClientStep PROVE Goal
    BY <1>2, <1>3, <1>4, <2>1 DEF ClientStep
  <2>2. ASSUME NEW w \in Workers, WorkerStep(w) PROVE Goal
    BY <1>5, <1>6, <1>7, <1>8, <1>9, <1>10, <1>11, <1>12, <1>13, <2>2 DEF WorkerStep
  <2> QED
    BY <1>15, <2>1, <2>2 DEF Next
<1> QED
  BY <1>14, <1>15

LEMMA PromiseBegins == Init => Progress /\ Promise!Init
<1> SUFFICES ASSUME Init PROVE Progress /\ Promise!Init
  OBVIOUS
<1>1. Promise!Init
  BY DEF Init, Promise!Init
<1>2. /\ asked = <<>> /\ Len(asked) = 0 /\ Len(delivered) = 0 /\ status = "RECEIVE_HEADER"
      /\ keepAlive /\ \A place \in {"header", "body", "ready"} : ~Serving(place)
  BY DEF Init, Serving
<1>3. request.length = -1 /\ request.params = <<>>
  BY DEF Init, NoRequest
<1>4. Before(1) = 0
  BY HttpConnectionAssumption DEF Before
<1>5. Coming = <<>> /\ Len(Coming) = 0
  <2>1. inputBuffer = <<>> /\ inbox = <<>> /\ unsent = <<>>
    BY DEF Init
  <2>2. Coming = <<>>
    BY <2>1 DEF Coming
  <2> QED
    BY <2>2
<1>6. Follows(asked, Coming, 1)
  <2> DEFINE at == [n \in 1..1 |-> 0]
  <2>1. at \in [1..Len(asked) + 1 -> 0..Len(Coming)]
    BY <1>2, <1>5
  <2>2. at[1] = 0 /\ Len(asked) + 1 = 1 /\ 1..Len(asked) = {}
    BY <1>2
  <2> HIDE DEF at
  <2> QED
    BY <1>5, <2>1, <2>2 DEF Follows
<1>7. Front(1)
  BY <1>2, <1>3, <1>4, <1>6 DEF Front
<1>8. AsPromised
  BY <1>2, <1>4 DEF AsPromised
<1>9. 1 \in 1..Len(asked) + 1
  BY <1>2
<1> QED
  BY <1>1, <1>7, <1>8, <1>9 DEF Progress, Turn

(***************************************************************************)
(* In every state the stream goes on where the request at work ends: its   *)
(* body, then the requests that are still to be read, each whole.          *)
(***************************************************************************)
THEOREM ProgressHolds == RequestsFit => (Spec => []Progress)
<1> SUFFICES ASSUME RequestsFit PROVE Spec => []Progress
  OBVIOUS
<1>1. Init => Progress
  BY PromiseBegins
<1>2. Inv /\ Progress /\ [Next]_vars => Progress'
  BY PromiseStep
<1> QED
  BY <1>1, <1>2, InvariantHolds, PTL DEF Spec

(***************************************************************************)
(* HttpConnection implements HttpConversation: every request gets its one  *)
(* response, whole, about itself and in the order of the requests, and the *)
(* connection ends behind the first that is final, whatever the chunks,    *)
(* the partial sends and the interleaving of the workers.                  *)
(***************************************************************************)
THEOREM PromiseIsKept == RequestsFit => (Spec => KeepsItsPromise)
<1> SUFFICES ASSUME RequestsFit PROVE Spec => KeepsItsPromise
  OBVIOUS
<1>1. Init => Promise!Init
  BY PromiseBegins
<1>2. Inv /\ Progress /\ [Next]_vars => [Promise!Next \/ ~calm']_(Promise!vars)
  BY PromiseStep
<1> QED
  BY <1>1, <1>2, InvariantHolds, ProgressHolds, PTL DEF Spec, KeepsItsPromise
=============================================================================
