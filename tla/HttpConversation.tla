-------------------------- MODULE HttpConversation --------------------------
(***************************************************************************)
(* What a client may expect of one HTTP connection: every request gets one *)
(* response, the responses come in the order of the requests, each         *)
(* complete before the next begins, each is about its own request and no   *)
(* other, and the connection ends right behind the response to the first   *)
(* request that is refused by its header or asks for the end.              *)
(***************************************************************************)
EXTENDS Integers, Sequences

CONSTANTS
  Requests,       \* the requests a client may make, see RequestType
  ResponseLength, \* the pieces a response is sent in at most
  MaxHeader,      \* MAX_HEADER_LENGTH
  MaxBody         \* MAX_BODY_LENGTH

VARIABLES
  asked,     \* the requests made so far
  delivered, \* the pieces of responses handed to the network so far
  over       \* has the connection been closed?

vars == <<asked, delivered, over>>

Methods == {"GET", "POST", "PUT", "DELETE"}

(***************************************************************************)
(* Lengths are counted in pieces: `head' pieces of header before its end,  *)
(* `length' pieces of body, -1 without a Content-Length.  A request of     *)
(* type "multipart" whose body is empty or not in "parts" is malformed.    *)
(* What it asks for is `found', or else the handler's answer says so.      *)
(***************************************************************************)
RequestType ==
  [wellFormed : BOOLEAN, method : Methods, close : BOOLEAN, head : Nat \ {0},
   length : Nat \cup {-1}, type : {"none", "form", "multipart"},
   body : {"plain", "parts"}, found : BOOLEAN]

(* The body of request n as the handler is to see it. *)
Body(n, r) ==
  IF r.method = "POST" THEN [i \in 1..r.length |-> [of |-> n, is |-> "body"]]
                       ELSE <<>>

HeaderStatus(r) ==
  IF ~r.wellFormed THEN "BAD_REQUEST"
  ELSE IF r.method = "DELETE" THEN "METHOD_NOT_ALLOWED"
  ELSE IF r.length > MaxBody THEN "REQUEST_ENTITY_TOO_LARGE"
  ELSE IF r.method # "GET" /\ r.length = -1 THEN "LENGTH_REQUIRED"
  ELSE "OK"

Status(r) ==
  IF /\ HeaderStatus(r) = "OK"
     /\ r.method = "POST" /\ r.type = "multipart"
     /\ r.body # "parts" \/ r.length = 0
  THEN "BAD_REQUEST"
  ELSE HeaderStatus(r)

(* What the handler answers: it also says what it has seen. *)
HandlerStatus(found) == IF found THEN "OK" ELSE "NOT_FOUND"

(* The response to request n; a request that is refused leaves no trace. *)
Answer(n, r) ==
  IF Status(r) = "OK"
  THEN [to |-> n, got |-> Body(n, r), status |-> HandlerStatus(r.found)]
  ELSE [to |-> 0, got |-> <<>>, status |-> Status(r)]

TooLargeAnswer == [to |-> 0, got |-> <<>>, status |-> "REQUEST_ENTITY_TOO_LARGE"]

Piece(answer, i) == [answer |-> answer, part |-> i]

(* A body that is not what it says does not cost the connection. *)
Final(r) == r.close \/ HeaderStatus(r) # "OK"

(***************************************************************************)
(* A request whose header is as long as MaxHeader, or longer, may be       *)
(* turned away before it is read, or be read all the same: nothing better  *)
(* is promised.  0: none is turned away.                                   *)
(***************************************************************************)
TurnedAway == {0} \cup {n \in 1..Len(asked) : asked[n].head >= MaxHeader}

(* The pieces that answer asked, if it ends with the first final request. *)
Script(away) ==
  [i \in 1..(Len(asked) * ResponseLength) |->
     LET n == (i - 1) \div ResponseLength + 1
     IN  Piece(IF n = away THEN TooLargeAnswer ELSE Answer(n, asked[n]),
               ((i - 1) % ResponseLength) + 1)]

EndsAt(away, k) ==
  \E n \in 1..Len(asked) :
    k = n * ResponseLength /\ (n = away \/ Final(asked[n]))

Init == asked = <<>> /\ delivered = <<>> /\ over = FALSE

Ask(r) ==
  /\ ~over
  /\ asked' = Append(asked, r)
  /\ UNCHANGED <<delivered, over>>

Deliver(k, away) ==
  /\ ~over
  /\ delivered = SubSeq(Script(away), 1, Len(delivered))
  /\ \A j \in Len(delivered) + 1..k - 1 : ~EndsAt(away, j)
  /\ delivered' = SubSeq(Script(away), 1, k)
  /\ over' = EndsAt(away, k)
  /\ UNCHANGED asked

Next ==
  \/ \E r \in Requests : Ask(r)
  \/ \E k \in Len(delivered) + 1..Len(asked) * ResponseLength, away \in TurnedAway :
       Deliver(k, away)

Spec == Init /\ [][Next]_vars
=============================================================================
