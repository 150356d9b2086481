------------------------------- MODULE Texts --------------------------------
(***************************************************************************)
(* The text functions of String/PeoplezString.  A text is a sequence of    *)
(* bytes, 0..255; positions count from 1 and NPOS is 0.  Where a function  *)
(* may read behind the text, its argument is the memory, what happens to   *)
(* follow included, and the length is an argument of its own.              *)
(***************************************************************************)
EXTENDS Integers, Sequences, FiniteSets, SequencesExt

NPOS == 0
TAB == 9   LF == 10   CR == 13   Blank == 32   Percent == 37   Plus == 43

Least(S) == IF S = {} THEN NPOS ELSE CHOOSE i \in S : \A j \in S : i <= j
Greatest(S) == IF S = {} THEN NPOS ELSE CHOOSE i \in S : \A j \in S : i >= j

(* What is at i, be it outside of the memory one knows of. *)
At(s, i) == IF i \in DOMAIN s THEN s[i] ELSE -1

(* memchr of n bytes from i; a negative n is a huge one. *)
MemChr(s, c, i, n) ==
  Least({k \in DOMAIN s : s[k] = c /\ k >= i /\ (n < 0 \/ k < i + n)})

-----------------------------------------------------------------------------
(* Searching *)

FindEndOfLine(s, start) ==
  LET find[i \in Nat] ==
        LET p == MemChr(s, CR, i, Len(s) - i)
        IN  IF p = NPOS \/ s[p + 1] = LF THEN p ELSE find[p + 1]
  IN  IF Len(s) - start > 1 THEN find[start + 1] ELSE NPOS

(***************************************************************************)
(* The end of a header in a text of len bytes.  The first search covers    *)
(* len - 3 bytes wherever it begins, the others end one byte too late.     *)
(***************************************************************************)
FindDoubleNewLine(s, len, start) ==
  LET Matches(p) == At(s, p + 1) = LF /\ At(s, p + 2) = CR /\ At(s, p + 3) = LF
      next[p \in Nat] ==
        IF p = NPOS \/ Matches(p) THEN p
        ELSE next[MemChr(s, CR, p + 1, len - 2 - p)]
  IN  IF len > 3 THEN next[MemChr(s, CR, start + 1, len - 3)] ELSE NPOS

FindLast(s, c) == Greatest({i \in DOMAIN s : s[i] = c})

(* No byte from offset on has its top bit set: bytes up to a word border,  *)
(* words while one fits, and the rest.                                     *)
IsASCIICompatible(s, offset, rest, word) ==
  LET bytes == offset + (IF rest < Len(s) - offset THEN rest ELSE Len(s) - offset)
      words[p \in Nat] == IF p <= Len(s) - word THEN words[p + word] ELSE p
      Plain(i, j) == \A k \in i..j : At(s, k) < 128
  IN  /\ Plain(offset + 1, bytes)
      /\ Plain(bytes + 1, words[bytes])
      /\ Plain(words[bytes] + 1, Len(s))

(* Compare, == , < and >, on top of memcmp. *)
MemCmp(s, t, n) ==
  LET i == Least({k \in 1..n : s[k] # t[k]})
  IN  IF i = NPOS THEN 0 ELSE s[i] - t[i]

Shorter(s, t) == IF Len(s) < Len(t) THEN Len(s) ELSE Len(t)

Compare(s, t) ==
  LET cmp == MemCmp(t, s, Shorter(s, t))
  IN  IF cmp # 0 THEN cmp
      ELSE IF Len(t) < Len(s) THEN -1 ELSE IF Len(t) > Len(s) THEN 1 ELSE 0

Lower(s, t) ==
  LET cmp == MemCmp(s, t, Shorter(s, t))
  IN  IF cmp = 0 THEN Len(s) < Len(t) ELSE cmp < 0

Greater(s, t) ==
  LET cmp == MemCmp(s, t, Shorter(s, t))
  IN  IF cmp = 0 THEN Len(s) > Shorter(s, t) ELSE cmp > 0

-----------------------------------------------------------------------------
(* Cutting *)

(* A text without the bytes of a set at its front and its end. *)
Stripped(s, cuts) ==
  LET kept == {i \in DOMAIN s : s[i] \notin cuts}
  IN  IF kept = {} THEN <<>> ELSE SubSeq(s, Least(kept), Greatest(kept))

Trim(s) == Stripped(s, {Blank, CR, LF, TAB})

(* char is signed: bytes from 128 on are below ' '. *)
TrimFast(s) == Stripped(s, (0..Blank) \union (128..255))

(* Mutant of Split: what follows the last token is dropped when empty. *)
SplitShort(s, token, compress) ==
  LET split[i \in Nat] ==
        LET p == MemChr(s, token, i, Len(s) - i + 1)
            end == IF p = NPOS THEN Len(s) ELSE p - 1
            part == IF i > end /\ (compress \/ p = NPOS) THEN <<>>
                    ELSE <<SubSeq(s, i, end)>>
        IN  IF p = NPOS THEN part ELSE part \o split[p + 1]
  IN  split[1]

Split(s, token, compress) ==
  LET split[i \in Nat] ==
        LET p == MemChr(s, token, i, Len(s) - i + 1)
            end == IF p = NPOS THEN Len(s) ELSE p - 1
            part == IF compress /\ i > end THEN <<>> ELSE <<SubSeq(s, i, end)>>
        IN  IF p = NPOS THEN part ELSE part \o split[p + 1]
  IN  split[1]

(* The pairs are counted first; the second pass ends by the count only. *)
SplitToPairs(s, token1, token2, compress) ==
  LET Find(i) == MemChr(s, token1, i, Len(s) - i + 1)
      count[i \in Nat] ==
        LET p == Find(i)
            one == IF ~compress \/ i < (IF p = NPOS THEN Len(s) + 1 ELSE p)
                   THEN 1 ELSE 0
        IN  IF p = NPOS THEN one ELSE one + count[p + 1]
      Pair(i, end) ==
        LET q == MemChr(s, token2, i, end - i)
        IN  IF q = NPOS THEN <<SubSeq(s, i, end - 1), <<>>>>
            ELSE <<SubSeq(s, i, q - 1), SubSeq(s, q + 1, end - 1)>>
      fill[i \in Nat, left \in Nat] ==
        LET end == IF Find(i) = NPOS THEN Len(s) + 1 ELSE Find(i)
        IN  IF left = 0 THEN <<>>
            ELSE IF end > i THEN <<Pair(i, end)>> \o fill[end + 1, left - 1]
            ELSE IF compress THEN fill[end + 1, left]
            ELSE <<<< <<>>, <<>> >>>> \o fill[end + 1, left - 1]
  IN  fill[1, count[1]]

(* The same algorithm, for objects with two members that take the texts. *)
SplitToMembers(s, token1, token2, compress) ==
  LET pairs == SplitToPairs(s, token1, token2, compress)
  IN  [i \in DOMAIN pairs |-> [first |-> pairs[i][1], second |-> pairs[i][2]]]

-----------------------------------------------------------------------------
(* Encoding *)

IsDigit(c) == c \in 48..57
IsLetter(c) == c \in 65..90 \/ c \in 97..122

(* HEX2DEC and DEC2HEX *)
IsHex(c) == IsDigit(c) \/ c \in 65..70 \/ c \in 97..102
HexValue(c) == c - (IF IsDigit(c) THEN 48 ELSE IF c <= 70 THEN 55 ELSE 87)
HexDigit(n) == IF n < 10 THEN 48 + n ELSE 55 + n

(***************************************************************************)
(* GetUrlEncMapPos.  1 << pos is shifted as an int, by pos modulo 32 on    *)
(* x86: of the first word of the bitmap, where 0 to 31 are all set, the    *)
(* other half is never seen, and the digits are escaped as well.           *)
(***************************************************************************)
GetUrlEncMapPos(c) == ~IsLetter(c)

(* The last character is not looked at. *)
IsUrlEncoded(s) ==
  \A i \in 1..(Len(s) - 1) : s[i] = Percent \/ IsDigit(s[i]) \/ IsLetter(s[i])

(* A blank takes four bytes of the three that are reserved for it. *)
EncodeUrl(s) ==
  LET Enc(c) == (IF c = Blank THEN <<Plus>> ELSE <<>>) \o
        (IF GetUrlEncMapPos(c)
         THEN <<Percent, HexDigit(c \div 16), HexDigit(c % 16)>> ELSE <<c>>)
  IN  FlattenSeq([i \in DOMAIN s |-> Enc(s[i])])

BadUrl == <<-1>>

(* A text without an escape stays as it is, its '+' included. *)
DecodeUrl(s) ==
  LET escapes == {i \in DOMAIN s : s[i] = Percent}
      dec[i \in Nat] ==
        IF i > Len(s) THEN <<>>
        ELSE IF s[i] = Percent
        THEN <<16 * HexValue(s[i + 1]) + HexValue(s[i + 2])>> \o dec[i + 3]
        ELSE <<IF s[i] = Plus THEN Blank ELSE s[i]>> \o dec[i + 1]
  IN  IF \E i \in escapes : \/ i > Len(s) - 2
                            \/ ~IsHex(s[i + 1]) \/ ~IsHex(s[i + 2])
      THEN BadUrl
      ELSE IF escapes = {} THEN s ELSE dec[1]

(* The characters of EncodeHtml: their number and bytes, from the first.   *)
Utf8(s, i) ==
  LET Next(k) == At(s, i + k) % 64
      a == s[i]
  IN  CASE a < 128 -> <<a, 1>>
        [] a \in 192..223 -> <<(a % 32) * 64 + Next(1), 2>>
        [] a \in 224..239 -> <<((a % 16) * 64 + Next(1)) * 64 + Next(2), 3>>
        [] a \in 240..247 ->
             <<(((a % 8) * 64 + Next(1)) * 64 + Next(2)) * 64 + Next(3), 4>>
        [] OTHER -> <<-1, 1>>

(* Digits, most significant first: ParseDec, ParseHex, ToCStringBase10. *)
Digits(n, base) ==
  LET digits[k \in 0..n] == (IF k < base THEN <<>> ELSE digits[k \div base]) \o
                           <<HexDigit(k % base)>>
  IN  digits[n]

BadHtml == <<-1>>

EncodeHtml(s) ==
  LET Plain(n) == n \in (32..126) \ {34, 38, 60, 62}
      enc[i \in Nat] ==
        LET c == Utf8(s, i)
            rest == enc[i + c[2]]
        IN  IF i > Len(s) THEN <<>>
            ELSE IF c[1] = -1 \/ rest = BadHtml THEN BadHtml
            ELSE IF Plain(c[1]) THEN <<At(s, i + c[2] - 1)>> \o rest
            ELSE <<38, 35>> \o Digits(c[1], 10) \o <<59>> \o rest
  IN  enc[1]
=============================================================================
