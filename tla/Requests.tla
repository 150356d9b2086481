------------------------------ MODULE Requests ------------------------------
(***************************************************************************)
(* What HttpRequest and HttpContext read from the text of a request: its   *)
(* target, the languages the client prefers, a body of several parts.      *)
(***************************************************************************)
EXTENDS Texts

Asterisk == 42   Comma == 44   Slash == 47   Colon == 58   Semicolon == 59   Equal == 61
Question == 63

LowerCase(c) == IF c \in 65..90 THEN c + 32 ELSE c

(* Substring(pos) and Substring(pos, len), of positions from 0. *)
From(s, i) == SubSeq(s, i + 1, Len(s))
Before(s, i) == SubSeq(s, 1, i)
Find(s, c, start) == MemChr(s, c, start + 1, Len(s)) - 1
Found(i) == i # NPOS - 1

-----------------------------------------------------------------------------
(* HttpRequestUri *)

(* The members of the class, and their initial values: Clean. *)
NoUri == [type |-> "UNDEFINED", scheme |-> <<>>, authority |-> <<>>,
          path |-> <<>>, segments |-> <<>>, query |-> <<>>]

(* A failing segment leaves nothing, not even the type. *)
Unescaped(uri) ==
  LET segments == [i \in DOMAIN uri.segments |-> DecodeUrl(uri.segments[i])]
  IN  IF \E i \in DOMAIN segments : segments[i] = BadUrl THEN NoUri
      ELSE [uri EXCEPT !.segments = segments]

WithPath(uri, s) == [uri EXCEPT !.path = s, !.segments = Split(s, Slash, TRUE)]

(***************************************************************************)
(* What follows the scheme.  The authority is cut off, together with the   *)
(* two characters in front of it, when these are not slashes.              *)
(***************************************************************************)
HierPart(uri, s) ==
  LET posSlash == Find(s, Slash, 2)
      cut == Len(s) >= 2 /\ s[1] # Slash /\ s[2] # Slash
      authority == SubSeq(s, 3, IF Found(posSlash) THEN posSlash ELSE Len(s))
      path == IF Found(posSlash) THEN From(s, posSlash + 1) ELSE <<>>
  IN  IF cut THEN WithPath([uri EXCEPT !.authority = authority], path)
      ELSE WithPath(uri, s)

(* Mutant of Query: it keeps its question mark. *)
QueryMarked(s) ==
  LET posQM == Find(s, Question, 0) IN IF Found(posQM) THEN From(s, posQM) ELSE <<>>

Query(s) ==
  LET posQM == Find(s, Question, 0) IN IF Found(posQM) THEN From(s, posQM + 1) ELSE <<>>

(* The target without its query: an origin-form or an absolute-form. *)
Target(s) ==
  LET posQM == Find(s, Question, 0) IN IF Found(posQM) THEN Before(s, posQM) ELSE s

OriginOrAbsolute(s, query) ==
  LET posColon == Find(s, Colon, 0)
  IN  CASE Find(s, Slash, 0) = 0 ->
             Unescaped(WithPath([NoUri EXCEPT !.type = "ORIGIN", !.query = query], s))
        [] Find(s, Slash, 0) # 0 /\ Found(posColon) ->
             Unescaped(HierPart([NoUri EXCEPT !.type = "ABSOLUTE", !.query = query,
                                              !.scheme = Before(s, posColon)],
                                From(s, posColon + 1)))
        [] OTHER -> NoUri

(* The constructor.  CONNECT's authority-form has no type of its own. *)
Uri(s, httpMethod) ==
  CASE httpMethod = "CONNECT" -> [NoUri EXCEPT !.authority = s]
    [] httpMethod # "CONNECT" /\ s = <<Asterisk>> ->
         [NoUri EXCEPT !.type = IF httpMethod = "OPTIONS" THEN "ASTERISK" ELSE @]
    [] OTHER -> OriginOrAbsolute(Target(s), Query(s))

-----------------------------------------------------------------------------
(* FindBestLanguage *)

(* Tenths of a quality value, of what atof reads of "1" or "0.7"; 0 else. *)
Quality(s) ==
  CASE s # <<>> /\ IsDigit(s[1]) ->
         10 * (s[1] - 48) + (IF Len(s) > 2 /\ s[2] = 46 /\ IsDigit(s[3]) THEN s[3] - 48 ELSE 0)
    [] OTHER -> 0

Better(q, bestQ) == q > bestQ

(***************************************************************************)
(* userLanguages is "code;q=quality,code,...".  known maps codes in lower  *)
(* case.  A code without a quality is the best there is, and ends it.      *)
(***************************************************************************)
FindBestLanguage(userLanguages, known, def) ==
  LET sections == Split(userLanguages, Comma, FALSE)
      Code(s) == [i \in 1..(IF Found(Find(s, Semicolon, 0)) THEN Find(s, Semicolon, 0)
                            ELSE Len(s)) |-> LowerCase(s[i])]
      Equals(s) == IF Found(Find(s, Semicolon, 0))
                   THEN Find(s, Equal, Find(s, Semicolon, 0) + 1) ELSE NPOS - 1
      best[i \in 0..Len(sections)] ==
        IF i = 0 THEN [lang |-> def, q |-> 0]
        ELSE LET before == best[i - 1]
                 s == sections[i]
                 q == IF Found(Equals(s)) THEN Quality(From(s, Equals(s) + 1)) ELSE 10
             IN  IF /\ before.q < 10
                    /\ Code(s) \in DOMAIN known
                    /\ Better(q, before.q) \/ ~Found(Equals(s))
                 THEN [lang |-> known[Code(s)], q |-> q] ELSE before
  IN  best[Len(sections)].lang

-----------------------------------------------------------------------------
(***************************************************************************)
(* HandleMultipartFormData.  A body is a sequence of lines, of which the   *)
(* last is not terminated (it is empty after a line break).                *)
(***************************************************************************)
Boundary == "boundary"     \* "--" and the boundary
EndBoundary == "end"       \* and "--" behind it
OtherBoundary == "other"   \* and two other characters
Disposition == "disposition"
ContentType == "type"      \* of a mime type that is known
UnknownType == "unknown"
Empty == "empty"
Text == "text"

Ends(lines, from, i) == SubSeq(lines, from, i - 1)

(***************************************************************************)
(* The result is an error, or the contents of the parts: the name, file    *)
(* name and mime type of a part are read into a variable of the loop's     *)
(* body and lost.  What follows the two hyphens of the last boundary is    *)
(* not looked at, nor is the first line of a content.                      *)
(***************************************************************************)
HandleMultipartFormData(lines) ==
  LET last == Len(lines)
      step[i \in 1..(last + 1), phase \in 0..6, start \in 0..(last + 1)] ==
        LET line == IF i <= last THEN lines[i] ELSE Empty
            Terminated == i < last
            Go(p) == step[i + 1, p, start]
            Stop == <<"BAD_REQUEST", <<>>>>
            With(r) == <<r[1], <<Ends(lines, start, i)>> \o r[2]>>
        IN  CASE phase = 6 -> <<"OK", <<>>>>
              [] i > last /\ phase # 6 -> Stop
              [] OTHER ->
          CASE phase = 0 /\ Terminated /\ line = Boundary -> Go(1)
            [] phase = 0 /\ Terminated /\ line = EndBoundary -> step[i + 1, 5, 1]
            [] phase = 1 /\ line = Disposition -> Go(2)
            [] phase = 2 /\ Terminated /\ line = Empty -> Go(4)
            [] phase = 2 /\ line = ContentType -> Go(3)
            [] phase = 2 /\ line = UnknownType -> <<"UNSUPPORTED_MEDIA_TYPE", <<>>>>
            [] phase = 3 /\ Terminated /\ line = Empty -> Go(4)
            [] phase = 4 -> step[i + 1, 5, i]
            [] phase = 5 /\ Terminated /\ line = Boundary -> With(Go(1))
            [] phase = 5 /\ Terminated /\ line \in {EndBoundary, OtherBoundary} -> With(Go(6))
            [] phase = 5 /\ ~(Terminated /\ line \in {Boundary, EndBoundary, OtherBoundary}) -> Go(5)
            [] OTHER -> Stop
  IN  step[1, 0, 1]
=============================================================================
