------------------------------ MODULE Builder -------------------------------
(***************************************************************************)
(* String/PeoplezStringBuilder: a text with keywords behind '#', which are *)
(* replaced.  It is a list of elements: a BaseElement is its text, an      *)
(* ExtStringElement the number of its keyword.                             *)
(***************************************************************************)
EXTENDS Texts

Hash == 35

BaseElement(s) == [kind |-> "base", value |-> s]
ExtStringElement(i) == [kind |-> "ext", value |-> i]

(* EqualTo(pos, len, str), of the whole str *)
EqualTo(s, pos, word) ==
  Len(s) >= pos - 1 + Len(word) /\ SubSeq(s, pos, pos - 1 + Len(word)) = word

(* The first keyword that follows the '#', if one does. *)
Element(s, found, replaceables) ==
  LET fits == {i \in DOMAIN replaceables : EqualTo(s, found + 1, replaceables[i])}
  IN  {i \in fits : \A j \in fits : i <= j}

(***************************************************************************)
(* Create: `last' is where the next text begins.  The search goes on       *)
(* behind the '#', inside of the keyword.                                  *)
(***************************************************************************)
Create(s, replaceables) ==
  LET Find(i) == MemChr(s, Hash, i, Len(s) - i + 1)
      elements[found \in Nat, last \in Nat] ==
        LET rest == IF last = 1 \/ last <= Len(s) THEN <<BaseElement(SubSeq(s, last, Len(s)))>> ELSE <<>>
            keys == Element(s, found, replaceables)
            i == CHOOSE k \in keys : TRUE
            next == IF found < Len(s) THEN Find(found + 1) ELSE NPOS
        IN  IF found = NPOS \/ last > Len(s) THEN rest
            ELSE IF keys = {} THEN elements[next, last]
            ELSE (IF found > last \/ last = 1 THEN <<BaseElement(SubSeq(s, last, found - 1))>>
                  ELSE <<>>)
                 \o <<ExtStringElement(i)>>
                 \o elements[next, found + Len(replaceables[i]) + 1]
  IN  IF replaceables = <<>> THEN <<BaseElement(s)>> ELSE elements[Find(1), 1]

(* SetReplacing: the first of equal keywords gets the value. *)
SetReplacing(replaceables, replacings, key, value) ==
  LET equal == {i \in DOMAIN replaceables : replaceables[i] = key}
  IN  [i \in DOMAIN replacings |->
         IF i \in equal /\ \A j \in equal : i <= j THEN value ELSE replacings[i]]

(* ToString and Element::Length, of every element in the list *)
Pieces(elements, replacings) ==
  [i \in DOMAIN elements |->
     IF elements[i].kind = "base" THEN elements[i].value ELSE replacings[elements[i].value]]
Built(elements, replacings) == FlattenSeq(Pieces(elements, replacings))
Length(elements, replacings) ==
  LET pieces == Pieces(elements, replacings)
  IN  FoldSeq(LAMBDA piece, sum : sum + Len(piece), 0, pieces)
=============================================================================
