------------------------------ MODULE MCTexts -------------------------------
(***************************************************************************)
(* The functions of Requests, Numbers and Minifier, compared with what     *)
(* they promise on every short text: the machine writes a text, one        *)
(* character or line after the other, with one of several alphabets.  Or   *)
(* it is the one of HttpMessage, where the texts are read and left out.    *)
(***************************************************************************)
EXTENDS Requests, HttpMessage, TLC

M == INSTANCE Minifier
N == INSTANCE Numbers
B == INSTANCE Builder
A == INSTANCE Arguments

x == 120
De == <<100, 101>>   Fr == <<102, 114>>
Q(tenths) == <<Semicolon, 113, Equal, 48, 46, 48 + tenths>>  \* ";q=0.8"

VARIABLES
  alphabet, \* the text's alphabet, or "messages"
  text

(* What a text consists of, and (bound) how long it gets. *)
Alphabets ==
  [lines     |-> <<{CR, LF, x}, 7>>,
   pairs     |-> <<{38, Equal, x}, 7>>,
   keywords  |-> <<{B!Hash, 97, 98}, 6>>,
   words     |-> <<{Blank, TAB, x, 196}, 5>>,
   url       |-> <<{Percent, 50, 70, 103, Plus, Blank}, 5>>,
   entities  |-> <<{60, 38, x, 127, 193, 195, 164}, 5>>,
   digits    |-> <<{45, Plus, 48, 49, 55, 65, 122}, 4>>,
   arguments |-> <<{<<>>, <<x>>, <<45, 118>>, <<45, 110>>, <<45, 99>>, <<45, 55>>, <<55>>, <<49>>}, 5>>,
   HTML      |-> <<{Blank, LF, 60, 62, x, 34, M!Style}, 6>>,
   CSS       |-> <<{Blank, LF, 123, 125, Semicolon, x, Slash, Asterisk}, 6>>,
   SCRIPT    |-> <<{Blank, LF, Semicolon, Equal, Slash, x, M!Function}, 6>>,
   target    |-> <<{Slash, Colon, Question, Percent, 50, x}, 6>>,
   files     |-> <<{"ps", "jpe", "jpeg", "html", "svg", "php", "tif", "pix"}, 1>>,
   mimeTypes |-> <<Exact \union Beginnings \union {"text/html5", "audio/x"}, 1>>,
   methods   |-> <<HttpMethods \union {"get", "UNKNOWN"}, 1>>,
   parts     |-> <<{<<Boundary>>, <<EndBoundary>>, <<Text>>, <<Disposition, Empty>>,
                  <<Disposition, ContentType, Empty>>}, 7>>,
   languages |-> <<{De, Fr, <<68, 69>> \o Q(8), Fr \o Q(8), De \o Q(0), <<>>, <<x>>}, 4>>]

MCInit ==
  /\ alphabet \in DOMAIN Alphabets \union {"messages"}
  /\ text = <<>>
  /\ Init

Write ==
  /\ alphabet \in DOMAIN Alphabets
  /\ Len(text) < Alphabets[alphabet][2]
  /\ \E c \in Alphabets[alphabet][1] : text' = Append(text, c)
  /\ UNCHANGED <<alphabet, vars>>

Exchange == alphabet = "messages" /\ Next /\ UNCHANGED <<alphabet, text>>

MCNext == Write \/ Exchange

MCSpec == MCInit /\ [][MCNext]_<<alphabet, text, vars>>

Joined(parts, token) ==
  IF parts = <<>> THEN <<>>
  ELSE Tail(FlattenSeq([i \in DOMAIN parts |-> <<token>> \o parts[i]]))

-----------------------------------------------------------------------------

(***************************************************************************)
(* The ends of a line and of a header are the first ones behind the start, *)
(* be it in the middle of one; the orders of two texts exclude each other. *)
(***************************************************************************)
SearchesAgree ==
  alphabet = "lines" =>
    \A start \in 0..Len(text) :
      LET At1(i, end) == IsPrefix(end, SubSeq(text, i, Len(text)))
          First(end) == Least({i \in (start + 1)..Len(text) : At1(i, end)})
          s == SubSeq(text, 1, start)
          t == SubSeq(text, start + 1, Len(text))
      IN  /\ FindEndOfLine(text, start) = First(<<CR, LF>>)
          /\ FindDoubleNewLine(text, Len(text), start) = First(<<CR, LF, CR, LF>>)
          /\ Cardinality({i \in 1..3 : <<s = t, Lower(s, t), Greater(s, t)>>[i]}) = 1
          /\ Lower(s, t) <=> Compare(s, t) > 0

(* Every '#' that a keyword follows is replaced with it, from left to right. *)
KeywordsAreReplaced(keys) ==
  LET set == B!SetReplacing(keys, [i \in DOMAIN keys |-> <<>>], <<97>>, <<x>>)
      values == B!SetReplacing(keys, set, <<97, 98>>, <<x, x, x>>)
      Fits(i) == {k \in DOMAIN keys : text[i] = B!Hash /\ B!EqualTo(text, i + 1, keys[k])}
      scan[i \in Nat] ==
        IF i > Len(text) THEN <<>>
        ELSE IF Fits(i) = {} THEN <<text[i]>> \o scan[i + 1]
        ELSE values[Least(Fits(i))] \o scan[i + 1 + Len(keys[Least(Fits(i))])]
      elements == B!Create(text, keys)
  IN  /\ B!Built(elements, values) = scan[1]
      /\ B!Length(elements, values) = Len(scan[1])

(***************************************************************************)
(* Split loses nothing but tokens, and empty parts if told so; the pairs   *)
(* are the parts, cut at their first '='; Trim only takes blanks away; and *)
(* a StringBuilder replaces its keywords.                                  *)
(***************************************************************************)
PartsAgree ==
  LET parts == Split(text, 38, FALSE)
      full == SelectSeq(parts, LAMBDA p : p # <<>>)
      pairs == SplitToPairs(text, 38, Equal, TRUE)
      all == SplitToPairs(text, 38, Equal, FALSE)
      AsText(p) == p[1] \o (IF p[2] = <<>> THEN <<>> ELSE <<Equal>> \o p[2])
      Bare(s) == IF FindLast(s, Equal) = Len(s) /\ MemChr(s, Equal, 1, Len(s)) = Len(s)
                 THEN SubSeq(s, 1, Len(s) - 1) ELSE s
      Rest(s) == SelectSeq(s, LAMBDA c : c \notin {Blank, TAB})
  IN  /\ alphabet = "pairs" =>
           /\ Joined(parts, 38) = text
           /\ Split(text, 38, TRUE) = full
           /\ Len(pairs) = Len(full) /\ Len(all) = Len(parts)
           /\ \A i \in DOMAIN pairs : AsText(pairs[i]) = Bare(full[i])
           /\ \A i \in DOMAIN all : AsText(all[i]) = Bare(parts[i])
           /\ LET objects == SplitToMembers(text, 38, Equal, TRUE)
              IN  [i \in DOMAIN objects |-> <<objects[i].first, objects[i].second>>] = pairs
      /\ alphabet = "keywords" =>
           \A keys \in {<<>>, << <<97>>, <<97, 98>> >>, << <<97, 98>>, <<97>> >>} :
             KeywordsAreReplaced(keys)
      /\ alphabet = "words" =>
           /\ \A i, n \in 0..2 : i + n <= Len(text) =>
                IsASCIICompatible(text, i, n, 2) = (\A k \in (i + 1)..Len(text) : text[k] < 128)
           /\ Trim(Trim(text)) = Trim(text) /\ Rest(Trim(text)) = Rest(text)

(* The searches and the cuts of texts do what they are for. *)
TextsAgree == SearchesAgree /\ PartsAgree

(***************************************************************************)
(* A text without blanks fills the length that EncodeUrl counts, and comes *)
(* back from DecodeUrl; a decoded text has no escape left; no byte of an   *)
(* HTML encoding means something to a browser, unless a character comes in *)
(* more bytes than it needs: its last one is then written as it is.  If no *)
(* character is cut off, six bytes of memory are enough for each one.      *)
(***************************************************************************)
EncodingsAgree ==
  /\ alphabet = "url" =>
       /\ Blank \notin Range(text) =>
            LET url == EncodeUrl(text)
                encoded == Cardinality({i \in DOMAIN text : GetUrlEncMapPos(text[i])})
            IN  Len(url) = Len(text) + 2 * encoded /\ DecodeUrl(url) = text
       /\ LET plain == DecodeUrl(text)
              escapes == Cardinality({i \in DOMAIN text : text[i] = Percent})
          IN  plain # BadUrl => /\ Len(plain) = Len(text) - 2 * escapes
                                /\ \A i \in DOMAIN plain : plain[i] \in 0..255
  /\ alphabet = "entities" =>
       LET html == EncodeHtml(text)
           Longer(c) == c[2] > 1 /\ c[1] < 128
       IN  html # BadHtml /\ ~(\E i \in DOMAIN text : Longer(Utf8(text, i))) =>
             /\ \A i \in DOMAIN html :
                  /\ html[i] \in (32..126) \ {34, 60, 62}
                  /\ html[i] = 38 => i < Len(html) /\ html[i + 1] = 35
             /\ (\A i \in DOMAIN text : i + Utf8(text, i)[2] <= Len(text) + 1) =>
                  Len(html) <= 6 * Len(text)

(***************************************************************************)
(* Every text is read as the number that is written, by types of six bits, *)
(* and what ToCStringBase10 writes is read as the number it was.           *)
(***************************************************************************)
NumbersAgree ==
  alphabet = "digits" =>
    \A base \in {1, 2, 10, 16, 36} :
      LET abs == N!Value(N!Absolute(text), base)
          written == N!ToCStringBase10(N!Sign(text) * abs)
      IN  /\ N!IntegersAreRead(text, base, 8)
          /\ N!ValidBase(base) /\ N!AreDigits(N!Absolute(text), base) =>
               /\ N!FastSigned(written.target, 10, 2^23) = N!Num(N!Sign(text) * abs)
               /\ ~N!Negative(text) => written.result = Len(written.target)

(***************************************************************************)
(* Each word of the command line has one role: the value of the argument   *)
(* before it, a name, or a word of its own.  (-n and -c are one argument,  *)
(* and the second -v is another's, which is never found.)                  *)
(***************************************************************************)
ArgumentsAgree ==
  LET v == <<118>>   n == <<110>>   c == <<99>>
      nameMap == A!AddArgument(A!AddArgument(A!AddArgument(<<>>, {v}, "v"), {n, c}, "n"), {v}, "w")
      kinds == [arg \in {"v", "n", "w"} |-> IF arg = "n" THEN "integer" ELSE "switch"]
      r == A!ReadArguments(text, nameMap, kinds, 32)
      full == SelectSeq(text, LAMBDA word : word # <<>>)
      IsName(word) == word[1] = N!Minus
      isValue[i \in Nat] == i > 1 /\ full[i - 1] \in {<<45>> \o n, <<45>> \o c} /\ ~isValue[i - 1]
      values == {i \in DOMAIN full : isValue[i]}
      named == {i \in DOMAIN full \ values : IsName(full[i])}
      others == SelectSeq([i \in DOMAIN full |-> i], LAMBDA i : i \notin values \union named)
  IN  alphabet = "arguments" =>
        /\ r.error <=> \/ \E i \in values : full[i] \notin {<<55>>, <<49>>, <<45, 55>>}
                       \/ \E i \in named : full[i] = <<45, 55>>
        /\ ~r.error =>
             /\ r.unnamed = [k \in DOMAIN others |-> full[others[k]]]
             /\ DOMAIN r.set = {A!GetNamedArgument(nameMap, Tail(full[i])) : i \in named}
                                 \ (IF values = {} THEN {"n"} ELSE {})
             /\ values # {} => r.set["n"] = N!FastSigned(full[Greatest(values)], 10, 32)[2]

(* What is written can be read, and is read as what was written. *)
ConversionsAgree == EncodingsAgree /\ NumbersAgree /\ ArgumentsAgree

(***************************************************************************)
(* Shorten counts what it erases, so that the rest fills the new buffer.   *)
(* Without comments it takes blanks and line breaks away and nothing else, *)
(* and it keeps one between two words.                                     *)
(***************************************************************************)
MinifierKeeps ==
  LET r == M!Shorten(text, alphabet)
      Rest(s) == SelectSeq(s, LAMBDA c : c \notin {Blank, LF})
      Word(c) == c \in {x, M!Function}
      Unseparated(s) == {Len(Rest(SubSeq(s, 1, i))) :
        i \in {i \in 1..(Len(s) - 1) : Word(s[i]) /\ Word(s[i + 1])}}
      Comment == \E i \in 1..(Len(text) - 1) :
        text[i] = Slash /\ text[i + 1] \in {Slash, Asterisk}
  IN  alphabet \in M!FileBeginsWith =>
        /\ Len(r.data) + r.erased = Len(text)
        /\ ~Comment => /\ Rest(r.data) = Rest(text)
                       /\ Unseparated(r.data) = Unseparated(text)

(***************************************************************************)
(* A target that can be read is its parts; of one that cannot, or of the   *)
(* asterisk, nothing is left.  An origin-form is cut into its segments.    *)
(***************************************************************************)
TargetIsItsParts ==
  LET uri == Uri(text, "GET")
      query == IF Question \in Range(text) THEN <<Question>> \o uri.query ELSE <<>>
  IN  /\ uri.type = "ORIGIN" =>
           /\ text = uri.path \o query
           /\ Len(uri.segments) = Len(SelectSeq(Split(uri.path, Slash, FALSE), LAMBDA p : p # <<>>))
      /\ uri.type = "ABSOLUTE" =>
           /\ IsPrefix(uri.scheme \o <<Colon>>, text) /\ IsSuffix(uri.path \o query, text)
           /\ Colon \notin Range(uri.scheme) /\ Slash \notin Range(uri.authority)
      /\ uri.type = "UNDEFINED" => uri = NoUri
      /\ <<>> \notin Range(uri.segments)

(***************************************************************************)
(* A body of several parts is accepted with the contents between its       *)
(* boundaries, if no part is empty and it begins with a first part.        *)
(***************************************************************************)
PartsAreContents ==
  LET lines == Append(FlattenSeq(text), Empty)
      ends == {i \in 2..Len(lines) : lines[i] \in {Boundary, EndBoundary}}
      last == Least({i \in ends : lines[i] = EndBoundary})
      PieceBefore(i) == SubSeq(lines, Greatest({1} \union {j \in ends : j < i}) + 1, i - 1)
      Heading(p) == IF Len(p) > 1 /\ p[2] = ContentType
                    THEN <<Disposition, ContentType, Empty>> ELSE <<Disposition, Empty>>
      parts == {i \in ends : i <= last}
      Content(i) == From(PieceBefore(i), Len(Heading(PieceBefore(i))))
      r == HandleMultipartFormData(lines)
  IN  /\ text # <<>> /\ lines[1] = Boundary /\ last # NPOS
      /\ \A i \in parts : IsStrictPrefix(Heading(PieceBefore(i)), PieceBefore(i))
      => /\ r[1] = "OK"
         /\ r[2] = [k \in 1..Cardinality(parts) |->
                      Content(CHOOSE i \in parts : Cardinality({j \in parts : j <= i}) = k)]

(***************************************************************************)
(* The language that is chosen is known to the server, and no other that   *)
(* is has a higher quality, or the same one and is named before it.        *)
(***************************************************************************)
BestLanguageWins ==
  LET known == (De :> "de") @@ (Fr :> "fr")
      Code(s) == [i \in 1..(IF Len(s) < 2 THEN Len(s) ELSE 2) |-> LowerCase(s[i])]
      Of(s) == IF Len(s) > 2 THEN s[Len(s)] - 48 ELSE 10
      wanted == {i \in DOMAIN text : Code(text[i]) \in DOMAIN known /\ Of(text[i]) > 0}
      best == {i \in wanted : \A j \in wanted :
                 Of(text[j]) < Of(text[i]) \/ (Of(text[j]) = Of(text[i]) /\ i <= j)}
  IN  {FindBestLanguage(Joined(text, Comma), known, "none")} =
          (IF best = {} THEN {"none"} ELSE {known[Code(text[i])] : i \in best})

(***************************************************************************)
(* A word that is known has one meaning: the name that is written for it   *)
(* is read as the same again, and a content type is one of its category.   *)
(***************************************************************************)
WordsHaveOneMeaning ==
  \A word \in Range(text) :
    /\ alphabet = "files" =>
         LET type == FileExtensionToFileType(word)
             written == FileTypeToFileExtension(type)
             content == FileTypeToContentType(type)
         IN  type # None =>
               /\ FileExtensionToFileType(written) = type
               /\ content \in Exact \union Beginnings => StringToMimeType(content) = content
    /\ alphabet = "mimeTypes" =>
         LET type == StringToMimeType(word)
         IN  type # None => StringToMimeType(type) = type
    /\ alphabet = "methods" => MethodName(ToHttpMethod(word)) \in {word, ""}

(* Whatever of a request is read from its text. *)
RequestIsRead ==
  /\ alphabet = "target" => TargetIsItsParts
  /\ alphabet = "parts" => PartsAreContents
  /\ alphabet = "languages" => BestLanguageWins
  /\ alphabet \in {"files", "mimeTypes", "methods"} => WordsHaveOneMeaning
=============================================================================
