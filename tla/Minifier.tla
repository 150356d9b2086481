------------------------------ MODULE Minifier ------------------------------
(***************************************************************************)
(* HttpFunctions::Shorten: blanks and comments of HTML, CSS and scripts    *)
(* are overwritten with zeros and counted; the rest is copied into a new   *)
(* buffer, smaller by that count.  The functions call each other in the    *)
(* middle of the text and hand back the position they have reached.        *)
(*                                                                         *)
(* A text is a sequence of characters and of some words, each one element: *)
(* "<style", "</style", "<script", "</script" and "function".              *)
(***************************************************************************)
EXTENDS Texts

Style == 300    StyleEnd == 301   Script == 302   ScriptEnd == 303
Function == 304
Zero == 0
Quote == 34     Star == 42   Slash == 47   Colon == 58   Semicolon == 59
Greater2 == 62

Space == {Blank, TAB}
NewLine == {LF, CR}
Braces == {123, 125}      \* { }
Brackets == {40, 41}      \* ( )
Operators == {43, 45, 61, Slash}
OpenTags == {60, Style, StyleEnd, Script, ScriptEnd}

(* The state of a function: the data, the position and what it has erased. *)
State(s) == [d |-> s, p |-> 1, e |-> 0]
Char(st) == At(st.d, st.p)
Following(st) == At(st.d, st.p + 1)
AtEnd(st) == st.p > Len(st.d)
Step(st) == [st EXCEPT !.p = @ + 1]
Erase(st, i) == [st EXCEPT !.d[i] = Zero, !.e = @ + 1]
EraseThis(st) == Step(Erase(st, st.p))
EraseNext(st) == Step(Erase(st, st.p + 1))

(* A newline becomes a blank, and the character before it is seen again.   *)
(* (At the very beginning of a CSS text that is one before the data.)      *)
Again(st) ==
  IF st.p = 0 THEN Step(st) ELSE [st EXCEPT !.d[st.p] = Blank, !.p = @ - 1]

(* The second test was meant for the following character: every tab goes.  *)
IsDouble(st) ==
  /\ Char(st) \in Space
  /\ st.p < Len(st.d)
  /\ Following(st) = Blank \/ Char(st) = TAB

Begins(st, c) == Char(st) = Slash /\ Following(st) = c

-----------------------------------------------------------------------------

ShortenText(st) ==
  LET end == MemChr(st.d, Quote, st.p + 1, Len(st.d))
  IN  [st EXCEPT !.p = IF end = NPOS THEN Len(st.d) + 1 ELSE end]

(* Mutant of ShortenCommentMultiLine: its last two characters count once. *)
ShortenCommentMultiLineOne(st) ==
  LET ends == {i \in (st.p + 1)..Len(st.d) : st.d[i] = Slash /\ st.d[i - 1] = Star}
      end == IF ends = {} THEN Len(st.d) ELSE Least(ends)
  IN  [st EXCEPT !.d = [i \in DOMAIN @ |-> IF i \in st.p..end THEN Zero ELSE @[i]],
                 !.e = @ + end - st.p]

(* The position stays where the comment began. *)
ShortenCommentMultiLine(st) ==
  LET ends == {i \in (st.p + 1)..Len(st.d) : st.d[i] = Slash /\ st.d[i - 1] = Star}
      end == IF ends = {} THEN Len(st.d) ELSE Least(ends)
  IN  [st EXCEPT !.d = [i \in DOMAIN @ |-> IF i \in st.p..end THEN Zero ELSE @[i]],
                 !.e = @ + end - st.p + 1]

ShortenCommentSingleLine(st) ==
  LET ends == {i \in st.p..Len(st.d) : st.d[i] \in NewLine}
      end == IF ends = {} THEN Len(st.d) + 1 ELSE Least(ends)
  IN  [st EXCEPT !.d = [i \in DOMAIN @ |-> IF i \in st.p..(end - 1) THEN Zero ELSE @[i]],
                 !.e = @ + end - st.p, !.p = end]

RECURSIVE ShortenHtmlTag(_), ShortenHtml(_, _), ShortenCss(_), ShortenCssArea(_),
          ShortenCssTag(_), ShortenScript(_), ShortenScriptTag(_)

ShortenHtmlTag(st) ==
  IF AtEnd(st) \/ Char(st) = Greater2 THEN st
  ELSE ShortenHtmlTag(
    CASE Char(st) = Quote -> Step(ShortenText(st))
      [] IsDouble(st) -> EraseThis(st)
      [] Char(st) \in NewLine -> Again(st)
      [] OTHER -> Step(st))

(* After <style and <script, what follows the tag is CSS, or a script. *)
ShortenHtml(st, spaceBefore) ==
  LET tag == ShortenHtmlTag(st)
      inner == Step(tag)
      after == IF AtEnd(tag) \/ AtEnd(inner) \/ Char(st) \notin {Style, Script} THEN tag
               ELSE IF Char(st) = Style THEN ShortenCss(inner) ELSE ShortenScript(inner)
  IN  IF AtEnd(st) THEN st
      ELSE IF Char(st) \in Space \union NewLine
      THEN ShortenHtml(IF spaceBefore THEN EraseThis(st) ELSE Step(st), TRUE)
      ELSE ShortenHtml(Step(IF Char(st) \in OpenTags THEN after ELSE st), FALSE)

ShortenCss(st) ==
  IF AtEnd(st) THEN st
  ELSE ShortenCss(
    CASE IsDouble(st) -> EraseThis(st)
      [] Char(st) \in NewLine -> Again(st)
      [] Char(st) = 123 -> Step(ShortenCssArea(st))
      [] Char(st) = StyleEnd -> Step(ShortenHtml(st, FALSE))
      [] Begins(st, Star) -> Step(ShortenCommentMultiLine(st))
      [] OTHER -> Step(st))

ShortenCssArea(st) ==
  IF AtEnd(st) \/ Char(st) = 125 THEN st
  ELSE ShortenCssArea(
    CASE Char(st) \in Space \union NewLine -> EraseThis(st)
      [] Begins(st, Star) -> Step(ShortenCommentMultiLine(st))
      [] OTHER -> Step(ShortenCssTag(st)))

ShortenCssTag(st) ==
  IF AtEnd(st) \/ Char(st) = Semicolon THEN st
  ELSE ShortenCssTag(
    CASE Char(st) \in Space /\ Following(st) \in Space \union Braces \union Brackets ->
           EraseThis(st)
      [] Char(st) \in Braces \union Brackets \union {Colon} /\ Following(st) \in Space ->
           EraseNext(st)
      [] Char(st) \in NewLine -> Again(st)
      [] Char(st) = Quote -> Step(ShortenText(st))
      [] Begins(st, Star) -> Step(ShortenCommentMultiLine(st))
      [] OTHER -> Step(st))

(* ShortenScriptFunction returns at the second character of "function", and *)
(* what is left of the word begins a statement.                             *)
ShortenScript(st) ==
  IF AtEnd(st) THEN st
  ELSE ShortenScript(
    CASE Char(st) \in Space \union NewLine -> EraseThis(st)
      [] Char(st) = Function -> Step(ShortenScriptTag(Step(st)))
      [] Char(st) = ScriptEnd -> Step(ShortenHtml(st, FALSE))
      [] Begins(st, Slash) -> Step(ShortenCommentSingleLine(st))
      [] OTHER -> Step(ShortenScriptTag(st)))

ShortenScriptTag(st) ==
  LET Signs == Operators \union Braces \union Brackets
  IN  IF AtEnd(st) \/ Char(st) = Semicolon THEN st
      ELSE ShortenScriptTag(
        CASE Char(st) \in Space /\ Following(st) \in Signs \union Space -> EraseThis(st)
          [] Char(st) \in Signs /\ Following(st) \in Space -> EraseNext(st)
          [] Char(st) \in NewLine -> Again(st)
          [] Begins(st, Star) -> Step(ShortenCommentMultiLine(st))
          [] Begins(st, Slash) -> Step(ShortenCommentSingleLine(st))
          [] OTHER -> Step(st))

FileBeginsWith == {"HTML", "CSS", "SCRIPT"}

(* Shorten, up to the copying: what is left, and how much was erased. *)
Shorten(s, beginsWith) ==
  LET r == CASE beginsWith = "HTML" -> ShortenHtml(State(s), FALSE)
             [] beginsWith = "CSS" -> ShortenCss(State(s))
             [] beginsWith = "SCRIPT" -> ShortenScript(State(s))
  IN  [data |-> SelectSeq(r.d, LAMBDA c : c # Zero), erased |-> r.e]
=============================================================================
