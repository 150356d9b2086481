------------------------------ MODULE Strings -------------------------------
(***************************************************************************)
(* String/PeoplezString: handles on blocks of memory that are copied when  *)
(* they are written.  A block is a counter, the number of copies besides   *)
(* the first owner, and the bytes reserved.  The handle of an object is    *)
(* where its text begins and how long it is.  Copies and substrings share  *)
(* the block of the original.                                              *)
(*                                                                         *)
(* A string is not assigned to itself and one that was moved from is only  *)
(* destroyed: anything else is undefined (copies is null by then).         *)
(***************************************************************************)
EXTENDS Integers, Sequences, FiniteSets

CONSTANTS
  Objects,  \* bound: the strings of the program
  Blocks,   \* bound: the blocks of memory
  Bytes,    \* the characters
  MaxArray, \* bound: the character arrays that the caller passes
  MaxSize   \* bound: the bytes of a block

ASSUME StringsAssumption ==
  /\ IsFiniteSet(Objects)
  /\ {"gone", "moved"} \cap Blocks = {}
  /\ Blocks # {}
  /\ MaxArray \in Nat
  /\ MaxSize \in Nat

VARIABLES
  heap,     \* the blocks: Free, or the counter and the bytes
  str       \* the objects: Gone, MovedFrom, or the members of the class

vars == <<heap, str>>

Free == [copies |-> 0, bytes |-> <<>>, used |-> FALSE]
Junk == "junk"  \* a byte nobody wrote
Gone == [block |-> "gone", off |-> 0, len |-> 0, room |-> 0]
MovedFrom == [block |-> "moved", off |-> 0, len |-> 0, room |-> 0]

Inputs == UNION {[1..n -> Bytes] : n \in 0..MaxArray}

Live == {s \in Objects : str[s].block \in Blocks}
Owners(b) == {s \in Objects : str[s].block = b}

Less(m, n) == IF m < n THEN m ELSE n

(* n bytes from position i; what lies behind the block is junk. *)
Slice(bytes, i, n) ==
  [k \in 1..n |-> IF i + k <= Len(bytes) THEN bytes[i + k] ELSE Junk]

Text(s) == Slice(heap[str[s].block].bytes, str[s].off, str[s].len)

-----------------------------------------------------------------------------
(* Changes of a heap h and the handle p of one object, as a pair *)

(* NEW: malloc finds a block. *)
Unused(h) == CHOOSE b \in Blocks : ~h[b].used

Allocate(h, bytes) ==
  <<[h EXCEPT ![Unused(h)] = [copies |-> 0, bytes |-> bytes, used |-> TRUE]],
    [block |-> Unused(h), off |-> 0, len |-> Len(bytes), room |-> Len(bytes)]>>

(* An owner less; the last one deletes the block. *)
Release(h, p) ==
  IF h[p.block].copies = 0 THEN [h EXCEPT ![p.block] = Free]
  ELSE [h EXCEPT ![p.block].copies = @ - 1]

(* Mutant of Share: the copy is not counted. *)
ShareUncounted(h, p) == h

Share(h, p) == [h EXCEPT ![p.block].copies = @ + 1]

(* A block of n bytes for p alone, which gives up its share of the old one. *)
Leave(h, p, n) ==
  LET keep == Less(n, p.len)
      new == Allocate([h EXCEPT ![p.block].copies = @ - 1],
                 Slice(Slice(h[p.block].bytes, p.off, keep), 0, n))
  IN  <<new[1], [new[2] EXCEPT !.len = keep]>>

Tight(p, n) == n > 0 /\ p.off > n \div 2

(***************************************************************************)
(* ToUnique(n).  A block that must grow is reallocated and the handle set  *)
(* to its beginning, where, after an offset, the text is not.  A string    *)
(* with a large offset leaves its block although it may be its only owner. *)
(***************************************************************************)
ToUnique(h, p, n) ==
  IF h[p.block].copies # 0 \/ Tight(p, n) THEN Leave(h, p, n)
  ELSE IF p.room - p.off < n
  THEN <<[h EXCEPT ![p.block].bytes = Slice(@, 0, n + p.off)],
         [p EXCEPT !.off = 0, !.len = Less(n, @), !.room = n + p.off]>>
  ELSE <<h, p>>

(* Resize(n): the text is moved to the front of a block of n bytes. *)
Resize(h, p, n) ==
  LET bytes == h[p.block].bytes
      moved == [i \in DOMAIN bytes |->
                  IF n > 0 /\ i <= Less(p.len, n) THEN bytes[p.off + i]
                  ELSE bytes[i]]
  IN  IF h[p.block].copies = 0
      THEN <<[h EXCEPT ![p.block].bytes = Slice(moved, 0, n)],
             [p EXCEPT !.off = 0, !.len = Less(n, @), !.room = n]>>
      ELSE IF p.off # 0 \/ n # p.room THEN Leave(h, p, n) ELSE <<h, p>>

(* x is written into the block of p, i bytes behind the beginning. *)
Put(h, p, i, x) ==
  [h EXCEPT ![p.block].bytes = [k \in DOMAIN @ |->
     IF k - p.off - i \in DOMAIN x THEN x[k - p.off - i] ELSE @[k]]]

(* Mutant of Appended: the length is increased before the bytes are copied. *)
AppendedBehind(h, p, x) ==
  LET r == ToUnique(h, p, p.len + Len(x))
  IN  IF x = <<>> THEN <<h, p>>
      ELSE <<Put(r[1], r[2], p.len + Len(x), x),
             [r[2] EXCEPT !.len = p.len + Len(x)]>>

(* The functions that append: to a string without room, the block grows. *)
Appended(h, p, x) ==
  LET r == ToUnique(h, p, p.len + Len(x))
  IN  IF x = <<>> THEN <<h, p>>
      ELSE <<Put(r[1], r[2], p.len, x), [r[2] EXCEPT !.len = p.len + Len(x)]>>

(***************************************************************************)
(* SetTo and the assignments of character arrays.  The new length is set   *)
(* first: a copy made on the way may read behind a block it shares.        *)
(***************************************************************************)
SetTo(h, p, x) ==
  LET q == [p EXCEPT !.off = 0, !.len = Len(x)]
      r == IF p.room < Len(x) THEN Resize(h, q, Len(x)) ELSE <<h, q>>
      u == ToUnique(r[1], r[2], Len(x))
  IN  IF x = <<>> THEN <<h, q>> ELSE <<Put(u[1], u[2], 0, x), u[2]>>

-----------------------------------------------------------------------------
(* The operations of the class *)

Become(s, r) == heap' = r[1] /\ str' = [str EXCEPT ![s] = r[2]]

New(s, x) == str[s] = Gone /\ Become(s, Allocate(heap, x))

(* The constructor that reserves memory. *)
Reserve(s, n) ==
  /\ str[s] = Gone
  /\ LET r == Allocate(heap, Slice(<<>>, 0, n))
     IN  Become(s, <<r[1], [r[2] EXCEPT !.len = 0]>>)

(* The copy, and the substring, of t. *)
Substring(s, t, from, n) ==
  /\ str[s] = Gone
  /\ t \in Live
  /\ LET i == Less(from, str[t].len)
     IN  Become(s, <<Share(heap, str[t]),
                     [str[t] EXCEPT !.off = @ + i, !.len = Less(n, @ - i)]>>)

Move(s, t) ==
  /\ str[s] = Gone
  /\ t \in Live
  /\ str' = [str EXCEPT ![s] = str[t], ![t] = MovedFrom]
  /\ UNCHANGED heap

Destroy(s) ==
  /\ str[s] # Gone
  /\ Become(s, <<IF s \in Live THEN Release(heap, str[s]) ELSE heap, Gone>>)

Assign(s, t) ==
  /\ {s, t} \subseteq Live
  /\ s # t
  /\ Become(s, <<Share(Release(heap, str[s]), str[t]), str[t]>>)

MoveAssign(s, t) ==
  /\ {s, t} \subseteq Live
  /\ s # t
  /\ heap' = Release(heap, str[s])
  /\ str' = [str EXCEPT ![s] = str[t], ![t] = MovedFrom]

AppendArray(s, x) == s \in Live /\ Become(s, Appended(heap, str[s], x))

AppendString(s, t) ==
  /\ {s, t} \subseteq Live
  /\ LET r == ToUnique(heap, str[s], str[s].len + str[t].len)
         src == IF s = t THEN r[2] ELSE str[t]
     IN  Become(s, Appended(heap, str[s],
                            Slice(r[1][src.block].bytes, src.off, src.len)))

AssignArray(s, x) == s \in Live /\ Become(s, SetTo(heap, str[s], x))

(* Clear *)
Empty(s) ==
  s \in Live /\ Become(s, <<heap, [str[s] EXCEPT !.off = 0, !.len = 0]>>)

ResizeTo(s, n) == s \in Live /\ Become(s, Resize(heap, str[s], n))

(* <<=, >>= and Trim: the text loses i bytes at its front and j at its end. *)
Cut(s, i, j) ==
  /\ s \in Live
  /\ i + j \in 1..str[s].len
  /\ Become(s, <<heap, [str[s] EXCEPT !.off = @ + i, !.len = @ - i - j]>>)

(* Mutant of Transform: where it lies, whoever shares it. *)
TransformShared(s, x) ==
  /\ s \in Live
  /\ Len(x) <= str[s].len
  /\ Become(s, <<Put(heap, str[s], 0, x), [str[s] EXCEPT !.len = Len(x)]>>)

(***************************************************************************)
(* ToUpper, ToLower (x has their length) and DecodeUrl (x may be shorter): *)
(* the text is transformed where it lies, once it belongs to s alone.      *)
(***************************************************************************)
Transform(s, x) ==
  /\ s \in Live
  /\ Len(x) <= str[s].len
  /\ LET r == ToUnique(heap, str[s], str[s].len)
     IN  Become(s, <<Put(r[1], r[2], 0, x), [r[2] EXCEPT !.len = Len(x)]>>)

(***************************************************************************)
(* EncodeUrl, EncodeHtml and Compress: the result is in a block of its own *)
(* that replaces the one of the string.                                    *)
(***************************************************************************)
Replace(s, x) ==
  /\ s \in Live
  /\ LET r == Allocate(heap, x) IN Become(s, <<Release(r[1], str[s]), r[2]>>)

-----------------------------------------------------------------------------

(* The operations on s that may write. *)
Writes(s) ==
  \/ \E x \in Inputs : \/ AppendArray(s, x) \/ AssignArray(s, x)
                       \/ Transform(s, x) \/ Replace(s, x)
  \/ \E t \in Objects : AppendString(s, t)
  \/ \E n \in 0..MaxSize : ResizeTo(s, n)

(* Those that only change handles and counters. *)
Shares(s) ==
  \/ \E x \in Inputs : New(s, x)
  \/ \E n \in 1..MaxSize : Reserve(s, n)
  \/ \E t \in Objects : \/ \E i, n \in 0..MaxSize : Substring(s, t, i, n)
                        \/ Move(s, t) \/ Assign(s, t) \/ MoveAssign(s, t)
  \/ Destroy(s)
  \/ Empty(s)
  \/ \E i, j \in 0..MaxSize : Cut(s, i, j)

Init == /\ heap = [b \in Blocks |-> Free]
        /\ str = [s \in Objects |-> Gone]

(* Bound: a block has MaxSize bytes, and one is always left. *)
InBounds == /\ \A b \in Blocks : Len(heap'[b].bytes) <= MaxSize
            /\ \E b \in Blocks : ~heap'[b].used

Next == (\E s \in Objects : Writes(s) \/ Shares(s)) /\ InBounds

Spec == Init /\ [][Next]_vars

-----------------------------------------------------------------------------

(***************************************************************************)
(* The text of every string lies inside a block that was not deleted, and  *)
(* the handle knows the size of that block, whoever has made it grow.      *)
(***************************************************************************)
HandlesFit ==
  \A s \in Live :
    /\ heap[str[s].block].used
    /\ str[s].room = Len(heap[str[s].block].bytes)
    /\ str[s].off + str[s].len <= str[s].room

(***************************************************************************)
(* The counter of a block is the number of its owners less one.  (-1 is    *)
(* 2^64 - 1: the block of a lone owner that left it, and is never freed.)  *)
(***************************************************************************)
CountersMatch ==
  \A b \in Blocks : heap[b].used =>
    heap[b].copies = Cardinality(Owners(b)) - 1

(***************************************************************************)
(* No string reads memory that was deleted, and a block that some string   *)
(* has is deleted with the last of them, neither before nor never.  (Not   *)
(* that every block is deleted: see NoBlockIsLost.)                        *)
(***************************************************************************)
BlocksAreOwned == HandlesFit /\ CountersMatch

(* The text of t is another one after the step. *)
Changes(t) == t \in Live /\ t \in Live' /\ Text(t)' # Text(t)

(***************************************************************************)
(* Strings that share memory, or once did, are independent: a step that    *)
(* changes the text of one changes neither the text nor the place of       *)
(* another, unless it has moved that one's text away.                      *)
(***************************************************************************)
CopiesAreIndependent ==
  [][\A s, t \in Objects :
       s # t /\ Changes(t) => /\ str'[s] \in {str[s], MovedFrom}
                             /\ ~Changes(s)]_vars

(* Whether s, alone in this step, has not become its old text and then x. *)
AppendFails(s, x) ==
  /\ s \in Live'
  /\ \A t \in Objects \ {s} : str'[t] = str[t]
  /\ Text(s)' # Text(s) \o x

(***************************************************************************)
(* "Appends a char array with to this PeoplezString": of a string that was *)
(* never cut at its front, as long as its memory lasts.                    *)
(***************************************************************************)
AppendsAtTheEnd ==
  [][\A s \in Live, x \in Inputs :
       str[s].off = 0 /\ AppendFails(s, x) => ~AppendArray(s, x)]_vars

(* "Appends a char array with to this PeoplezString": cut or not. *)
AppendAppends ==
  [][\A s \in Live, x \in Inputs : AppendFails(s, x) => ~AppendArray(s, x)]_vars

(***************************************************************************)
(* The counter is there to delete the memory with its last string.         *)
(* Violated: ToUnique and Resize take a new block when the offset is large *)
(* and decrement the counter of the old one, also if that was 0 already.   *)
(***************************************************************************)
NoBlockIsLost == \A b \in Blocks : heap[b].used => Owners(b) # {}
=============================================================================
