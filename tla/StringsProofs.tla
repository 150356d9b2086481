--------------------------- MODULE StringsProofs ---------------------------
(***************************************************************************)
(* Proofs about Strings for all numbers of strings and blocks and texts of *)
(* any length: every handle lies in a live block that counts its owners,   *)
(* and a string that is written takes no other string along.  At the end,  *)
(* about Numbers and Texts, for texts of any length: integers are read     *)
(* exactly and read as what was written, URLs are decoded to what was      *)
(* encoded, and encoded HTML is harmless.                                  *)
(***************************************************************************)
EXTENDS Strings, FiniteSetTheorems, SequenceTheorems, WellFoundedInduction, TLAPS

-----------------------------------------------------------------------------
(* The inductive invariant, of a heap h and the handles f *)

Byte == Bytes \cup {Junk}
Block == [copies : Int, bytes : Seq(Byte), used : BOOLEAN]
Heap == [Blocks -> Block]
Handle == [block : Blocks \cup {"gone", "moved"}, off : Nat, len : Nat, room : Nat]

(* The handle knows the size of its block. *)
Knows(h, p) ==
  /\ p \in Handle
  /\ p.block \in Blocks
  /\ h[p.block].used
  /\ p.room = Len(h[p.block].bytes)

Fits(h, p) == Knows(h, p) /\ p.off + p.len <= p.room

Sharers(f, b) == {s \in Objects : f[s].block = b}

Consistent(h, f) ==
  /\ h \in Heap
  /\ f \in [Objects -> Handle]
  /\ \A s \in Objects : f[s].block \in Blocks => Fits(h, f[s])
  /\ \A b \in Blocks : h[b].used => h[b].copies = Cardinality(Sharers(f, b)) - 1

(* malloc finds a block. *)
Spare(h) == \E b \in Blocks : ~h[b].used

Inv == Consistent(heap, str) /\ Spare(heap)

-----------------------------------------------------------------------------
(***************************************************************************)
(* What a sound operation on the string s does, when it turns the heap h   *)
(* into g and the handle of s into q: the counters follow s from its old   *)
(* block to the new one, and the memory of the other strings is untouched. *)
(***************************************************************************)
Member(p, b) == IF p.block = b THEN 1 ELSE 0

Sound(h, f, s, g, q) ==
  /\ g \in Heap
  /\ q \in Handle
  /\ q.block \in Blocks => Fits(g, q)
  /\ \A b \in Blocks : g[b].used =>
       IF h[b].used THEN g[b].copies = h[b].copies - Member(f[s], b) + Member(q, b)
                    ELSE g[b].copies = 0 /\ q.block = b
  /\ \A t \in Objects \ {s} : f[t].block \in Blocks =>
       /\ g[f[t].block].used
       /\ g[f[t].block].bytes = h[f[t].block].bytes

(* r is the heap h and the handle p after a change inside p's block, *)
Stays(h, p, r) ==
  /\ r[1] \in Heap
  /\ Fits(r[1], r[2])
  /\ r[2].block = p.block
  /\ \A b \in Blocks \ {p.block} : r[1][b] = h[b]
  /\ r[1][p.block].copies = h[p.block].copies
  /\ r[1][p.block].bytes # h[p.block].bytes => h[p.block].copies = 0

(* or after a move to a block of its own. *)
Leaves(h, p, r) ==
  /\ r[1] \in Heap
  /\ Fits(r[1], r[2])
  /\ ~h[r[2].block].used
  /\ r[1][r[2].block].copies = 0
  /\ \A b \in Blocks \ {p.block, r[2].block} : r[1][b] = h[b]
  /\ r[1][p.block].copies = h[p.block].copies - 1
  /\ r[1][p.block].bytes = h[p.block].bytes
  /\ r[1][p.block].used

Writable(r) == r[1][r[2].block].copies = 0

LEMMA SliceIsSeq ==
  ASSUME NEW bytes \in Seq(Byte), NEW i \in Nat, NEW n \in Nat
  PROVE  Slice(bytes, i, n) \in Seq(Byte) /\ Len(Slice(bytes, i, n)) = n
<1>1. \A k \in 1..n : i + k <= Len(bytes) => bytes[i + k] \in Byte
  OBVIOUS
<1> QED
  BY <1>1 DEF Slice, Byte

LEMMA SharersAreCounted ==
  ASSUME NEW f, NEW b
  PROVE  IsFiniteSet(Sharers(f, b)) /\ Cardinality(Sharers(f, b)) \in Nat
<1>1. Sharers(f, b) \subseteq Objects
  BY DEF Sharers
<1> QED
  BY <1>1, StringsAssumption, FS_Subset, FS_CardinalityType

(* The owners of a block when one string gets another handle. *)
LEMMA SharersMove ==
  ASSUME NEW f, NEW e, NEW s \in Objects, \A t \in Objects \ {s} : e[t] = f[t], NEW b
  PROVE  Cardinality(Sharers(e, b)) =
           Cardinality(Sharers(f, b)) - Member(f[s], b) + Member(e[s], b)
<1> DEFINE others == Sharers(f, b) \ {s}
           old == Sharers(f, b)
           new == Sharers(e, b)
<1>1. IsFiniteSet(others) /\ Cardinality(others) \in Nat /\ s \notin others
  BY SharersAreCounted, FS_RemoveElement, FS_CardinalityType
<1>2. Cardinality(others \cup {s}) = Cardinality(others) + 1
  BY <1>1, FS_AddElement
<1>3. old = IF f[s].block = b THEN others \cup {s} ELSE others
  BY DEF Sharers
<1>4. new = IF e[s].block = b THEN others \cup {s} ELSE others
  BY DEF Sharers
<1> HIDE DEF others, old, new
<1>5. Cardinality(old) = Cardinality(others) + Member(f[s], b)
  BY <1>1, <1>2, <1>3 DEF Member
<1>6. Cardinality(new) = Cardinality(others) + Member(e[s], b)
  BY <1>1, <1>2, <1>4 DEF Member
<1>7. Member(f[s], b) \in Nat /\ Member(e[s], b) \in Nat
  BY DEF Member
<1> QED
  BY <1>1, <1>5, <1>6, <1>7 DEF old, new

(* A block without copies has one owner, and a deleted one has none. *)
LEMMA LoneOwner ==
  ASSUME NEW h, NEW f, Consistent(h, f), NEW s \in Objects, f[s].block \in Blocks
  PROVE  /\ h[f[s].block].used
         /\ h[f[s].block].copies \in Nat
         /\ h[f[s].block].copies = 0 => \A t \in Objects \ {s} : f[t].block # f[s].block
<1> DEFINE owners == Sharers(f, f[s].block)
<1>1. h[f[s].block].used /\ h[f[s].block].copies = Cardinality(owners) - 1
  BY DEF Consistent, Fits, Knows
<1>2. IsFiniteSet(owners) /\ Cardinality(owners) \in Nat /\ s \in owners
  BY SharersAreCounted DEF Sharers
<1>3. Cardinality(owners) # 0
  BY <1>2, FS_EmptySet
<1>4. ASSUME Cardinality(owners) = 1, NEW t \in Objects, f[t].block = f[s].block
      PROVE  t = s
  <2>1. t \in owners
    BY <1>4 DEF Sharers
  <2>2. PICK x : owners = {x}
    BY <1>2, <1>4, FS_Singleton
  <2> QED
    BY <1>2, <2>1, <2>2
<1> QED
  BY <1>1, <1>2, <1>3, <1>4

LEMMA UnusedHasNoOwner ==
  ASSUME NEW h, NEW f, Consistent(h, f), NEW b \in Blocks, ~h[b].used
  PROVE  Cardinality(Sharers(f, b)) = 0
<1>1. Sharers(f, b) = {}
  BY DEF Consistent, Fits, Knows, Sharers
<1> QED
  BY <1>1, FS_EmptySet

(* A sound operation keeps heap and handles consistent. *)
LEMMA SoundIsConsistent ==
  ASSUME NEW h, NEW f, Consistent(h, f), NEW s \in Objects,
         NEW g, NEW q, Sound(h, f, s, g, q)
  PROVE  Consistent(g, [f EXCEPT ![s] = q])
<1> DEFINE e == [f EXCEPT ![s] = q]
<1>1. e \in [Objects -> Handle] /\ e[s] = q /\ \A t \in Objects \ {s} : e[t] = f[t]
  BY DEF Consistent, Sound
<1>2. ASSUME NEW t \in Objects, e[t].block \in Blocks PROVE Fits(g, e[t])
  <2>1. CASE t = s
    BY <1>1, <1>2, <2>1 DEF Sound
  <2>2. CASE t # s
    BY <1>1, <1>2, <2>2 DEF Consistent, Sound, Fits, Knows
  <2> QED
    BY <2>1, <2>2
<1>3. ASSUME NEW b \in Blocks, g[b].used
      PROVE  g[b].copies = Cardinality(Sharers(e, b)) - 1
  <2>1. Cardinality(Sharers(e, b)) =
          Cardinality(Sharers(f, b)) - Member(f[s], b) + Member(q, b)
    <3> HIDE DEF e
    <3> QED
      BY <1>1, SharersMove
  <2>2. /\ Cardinality(Sharers(f, b)) \in Nat
        /\ Member(f[s], b) \in Nat
        /\ Member(q, b) \in Nat
    BY SharersAreCounted DEF Member
  <2>3. CASE h[b].used
    <3>1. g[b].copies = h[b].copies - Member(f[s], b) + Member(q, b)
      BY <1>3, <2>3 DEF Sound
    <3>2. h[b].copies = Cardinality(Sharers(f, b)) - 1
      BY <2>3 DEF Consistent
    <3> QED
      BY <2>1, <2>2, <3>1, <3>2
  <2>4. CASE ~h[b].used
    <3>1. g[b].copies = 0 /\ q.block = b
      BY <1>3, <2>4 DEF Sound
    <3>2. Cardinality(Sharers(f, b)) = 0 /\ f[s].block # b
      BY <2>4, UnusedHasNoOwner DEF Consistent, Fits, Knows
    <3> QED
      BY <2>1, <3>1, <3>2 DEF Member
  <2> QED
    BY <2>3, <2>4
<1> HIDE DEF e
<1>4. Consistent(g, e)
  BY <1>1, <1>2, <1>3 DEF Consistent, Sound
<1> QED
  BY <1>4 DEF e

LEMMA StaysIsSound ==
  ASSUME NEW h, NEW f, Consistent(h, f), NEW s \in Objects, f[s].block \in Blocks,
         NEW r, Stays(h, f[s], r)
  PROVE  Sound(h, f, s, r[1], r[2])
<1>1. ASSUME NEW b \in Blocks, r[1][b].used
      PROVE  h[b].used /\ r[1][b].copies = h[b].copies - Member(f[s], b) + Member(r[2], b)
  <2>1. h[b].copies \in Int
    BY DEF Consistent, Heap, Block
  <2>2. h[b].used /\ r[1][b].copies = h[b].copies
    BY <1>1, LoneOwner DEF Stays
  <2> QED
    BY <2>1, <2>2 DEF Stays, Member
<1>2. ASSUME NEW t \in Objects \ {s}, f[t].block \in Blocks
      PROVE  /\ r[1][f[t].block].used
             /\ r[1][f[t].block].bytes = h[f[t].block].bytes
  <2>1. h[f[t].block].used
    BY <1>2, LoneOwner
  <2> QED
    BY <1>2, <2>1, LoneOwner DEF Stays, Fits, Knows
<1>3. r[2] \in Handle
  BY DEF Stays, Fits, Knows
<1> QED
  BY <1>1, <1>2, <1>3 DEF Sound, Stays

LEMMA LeavesIsSound ==
  ASSUME NEW h, NEW f, Consistent(h, f), NEW s \in Objects, f[s].block \in Blocks,
         NEW r, Leaves(h, f[s], r)
  PROVE  Sound(h, f, s, r[1], r[2])
<1>1. r[2] \in Handle /\ r[2].block \in Blocks /\ r[2].block # f[s].block
  BY LoneOwner DEF Leaves, Fits, Knows
<1>2. ASSUME NEW b \in Blocks, h[b].used
      PROVE  r[1][b].copies = h[b].copies - Member(f[s], b) + Member(r[2], b)
  <2>1. b # r[2].block /\ h[b].copies \in Int
    BY <1>2 DEF Leaves, Consistent, Heap, Block
  <2> QED
    BY <1>1, <2>1 DEF Leaves, Member
<1>3. ASSUME NEW b \in Blocks, r[1][b].used, ~h[b].used
      PROVE  r[1][b].copies = 0 /\ r[2].block = b
  BY <1>1, <1>3, LoneOwner DEF Leaves
<1>4. ASSUME NEW t \in Objects \ {s}, f[t].block \in Blocks
      PROVE  /\ r[1][f[t].block].used
             /\ r[1][f[t].block].bytes = h[f[t].block].bytes
  <2>1. h[f[t].block].used
    BY <1>4, LoneOwner
  <2> QED
    BY <1>4, <2>1 DEF Leaves
<1> QED
  BY <1>1, <1>2, <1>3, <1>4 DEF Sound, Leaves

-----------------------------------------------------------------------------
(* The changes of a heap and a handle *)

LEMMA SpareIsUnused ==
  ASSUME NEW h, Spare(h)
  PROVE  Unused(h) \in Blocks /\ ~h[Unused(h)].used
  BY DEF Spare, Unused

LEMMA AllocateFits ==
  ASSUME NEW h \in Heap, Spare(h), NEW bytes \in Seq(Byte),
         NEW r, r = Allocate(h, bytes)
  PROVE  /\ r[1] \in Heap
         /\ Fits(r[1], r[2])
         /\ r[2] = [block |-> Unused(h), off |-> 0, len |-> Len(bytes), room |-> Len(bytes)]
         /\ r[1][Unused(h)].copies = 0
         /\ \A b \in Blocks \ {Unused(h)} : r[1][b] = h[b]
<1> DEFINE new == [copies |-> 0, bytes |-> bytes, used |-> TRUE]
<1>1. Len(bytes) \in Nat /\ new \in Block
  BY DEF Block
<1>2. Unused(h) \in Blocks
  BY SpareIsUnused
<1>3. r[1] = [h EXCEPT ![Unused(h)] = new]
  BY DEF Allocate
<1>4. r[2] = [block |-> Unused(h), off |-> 0, len |-> Len(bytes), room |-> Len(bytes)]
  BY DEF Allocate
<1>5. r[1] \in Heap /\ r[1][Unused(h)] = new /\ \A b \in Blocks \ {Unused(h)} : r[1][b] = h[b]
  BY <1>1, <1>2, <1>3 DEF Heap
<1>6. r[2] \in Handle
  BY <1>1, <1>2, <1>4 DEF Handle
<1> QED
  BY <1>1, <1>2, <1>4, <1>5, <1>6 DEF Fits, Knows

(* A handle that gives up its share owns its new block. *)
LEMMA LeaveLeaves ==
  ASSUME NEW h \in Heap, Spare(h), NEW p, Knows(h, p), NEW n \in Nat,
         NEW r, r = Leave(h, p, n)
  PROVE  /\ Leaves(h, p, r)
         /\ r[2].off = 0 /\ r[2].len = Less(n, p.len) /\ r[2].room = n
<1> DEFINE keep == Less(n, p.len)
           less == [h EXCEPT ![p.block].copies = @ - 1]
           text == Slice(Slice(h[p.block].bytes, p.off, keep), 0, n)
           new == Allocate(less, text)
<1>1. p.block \in Blocks /\ h[p.block] \in Block /\ p.off \in Nat /\ p.len \in Nat
  BY DEF Knows, Handle, Heap
<1>2. keep \in Nat /\ keep <= n
  BY <1>1 DEF Less
<1>3. text \in Seq(Byte) /\ Len(text) = n
  <2>1. Slice(h[p.block].bytes, p.off, keep) \in Seq(Byte)
    BY <1>1, <1>2, SliceIsSeq DEF Block
  <2> QED
    BY <2>1, SliceIsSeq
<1>4. /\ less \in Heap
      /\ less[p.block].copies = h[p.block].copies - 1
      /\ less[p.block].bytes = h[p.block].bytes
      /\ less[p.block].used = h[p.block].used
      /\ \A b \in Blocks \ {p.block} : less[b] = h[b]
  <2> DEFINE changed == [h[p.block] EXCEPT !.copies = @ - 1]
  <2>1. /\ changed \in Block /\ changed.copies = h[p.block].copies - 1
        /\ changed.bytes = h[p.block].bytes /\ changed.used = h[p.block].used
    BY <1>1 DEF Block
  <2>2. less = [h EXCEPT ![p.block] = changed]
    BY <1>1 DEF Heap
  <2> HIDE DEF changed, less
  <2> QED
    BY <1>1, <2>1, <2>2 DEF Heap
<1>5. Spare(less) /\ \A b \in Blocks : less[b].used = h[b].used
  BY <1>4 DEF Spare
<1>6. Unused(less) \in Blocks /\ ~h[Unused(less)].used
  BY <1>5, SpareIsUnused
<1>7. r = <<new[1], [new[2] EXCEPT !.len = keep]>>
  BY DEF Leave
<1> HIDE DEF keep, less, text, new
<1>8. /\ new[1] \in Heap
      /\ Fits(new[1], new[2])
      /\ new[2] = [block |-> Unused(less), off |-> 0, len |-> n, room |-> n]
      /\ new[1][Unused(less)].copies = 0
      /\ \A b \in Blocks \ {Unused(less)} : new[1][b] = less[b]
  BY <1>3, <1>4, <1>5, AllocateFits DEF new
<1>9. r[1] = new[1] /\ r[2] = [block |-> Unused(less), off |-> 0, len |-> keep, room |-> n]
  BY <1>7, <1>8
<1>10. Fits(r[1], r[2])
  BY <1>2, <1>6, <1>8, <1>9 DEF Fits, Knows, Handle
<1>11. p.block # Unused(less) /\ h[p.block].used
  BY <1>6 DEF Knows
<1>12. r[1][p.block] = less[p.block] /\ r[1][r[2].block].copies = 0
  BY <1>1, <1>8, <1>9, <1>11
<1>13. \A b \in Blocks \ {p.block, r[2].block} : r[1][b] = h[b]
  BY <1>4, <1>8, <1>9
<1>14. ~h[r[2].block].used /\ r[1] \in Heap
  BY <1>6, <1>8, <1>9
<1>15. /\ r[1][p.block].copies = h[p.block].copies - 1
       /\ r[1][p.block].bytes = h[p.block].bytes
       /\ r[1][p.block].used
  BY <1>4, <1>11, <1>12
<1> QED
  BY <1>9, <1>10, <1>12, <1>13, <1>14, <1>15 DEF Leaves, keep

LEMMA ToUniqueOwns ==
  ASSUME NEW h \in Heap, Spare(h), NEW p, Fits(h, p), NEW n \in Nat,
         NEW r, r = ToUnique(h, p, n)
  PROVE  /\ Stays(h, p, r) \/ Leaves(h, p, r)
         /\ Writable(r)
         /\ r[2].off + n <= r[2].room
<1>1. p.block \in Blocks /\ h[p.block] \in Block /\ p \in Handle
  BY DEF Fits, Knows, Heap
<1>2. CASE h[p.block].copies # 0 \/ Tight(p, n)
  <2>1. r = Leave(h, p, n)
    BY <1>2 DEF ToUnique
  <2> QED
    BY <2>1, LeaveLeaves DEF Fits, Leaves, Writable
<1>3. CASE h[p.block].copies = 0 /\ ~Tight(p, n) /\ p.room - p.off < n
  <2> DEFINE bytes == Slice(h[p.block].bytes, 0, n + p.off)
             changed == [h[p.block] EXCEPT !.bytes = bytes]
  <2>1. /\ r[1] = [h EXCEPT ![p.block] = changed]
        /\ r[2] = [p EXCEPT !.off = 0, !.len = Less(n, @), !.room = n + p.off]
    BY <1>1, <1>3 DEF ToUnique, Heap
  <2>2. bytes \in Seq(Byte) /\ Len(bytes) = n + p.off
    <3>1. n + p.off \in Nat /\ h[p.block].bytes \in Seq(Byte)
      BY <1>1 DEF Block, Handle
    <3> QED
      BY <3>1, SliceIsSeq
  <2>3. /\ changed \in Block /\ changed.bytes = bytes
        /\ changed.copies = h[p.block].copies /\ changed.used = h[p.block].used
    BY <1>1, <2>2 DEF Block
  <2>4. /\ r[2] \in Handle /\ r[2].block = p.block
        /\ r[2].off = 0 /\ r[2].len <= n /\ r[2].room = n + p.off
    <3>1. r[2] = [block |-> p.block, off |-> 0, len |-> Less(n, p.len), room |-> n + p.off]
      BY <1>1, <2>1 DEF Handle
    <3>2. Less(n, p.len) \in Nat /\ Less(n, p.len) <= n /\ n + p.off \in Nat
      BY <1>1 DEF Handle, Less
    <3> QED
      BY <1>1, <3>1, <3>2 DEF Handle
  <2> HIDE DEF bytes, changed
  <2>5. r[1] \in Heap /\ r[1][p.block] = changed /\ \A b \in Blocks \ {p.block} : r[1][b] = h[b]
    BY <1>1, <2>1, <2>3 DEF Heap
  <2>6. Fits(r[1], r[2])
    <3>1. r[1][r[2].block].used /\ r[2].room = Len(r[1][r[2].block].bytes)
      BY <1>1, <2>2, <2>3, <2>4, <2>5 DEF Fits, Knows
    <3>2. r[2].off + r[2].len <= r[2].room
      BY <1>1, <2>4 DEF Handle
    <3> QED
      BY <1>1, <2>4, <3>1, <3>2 DEF Fits, Knows
  <2> QED
    BY <1>1, <1>3, <2>3, <2>4, <2>5, <2>6 DEF Stays, Writable, Handle
<1>4. CASE h[p.block].copies = 0 /\ ~Tight(p, n) /\ ~(p.room - p.off < n)
  <2>1. r = <<h, p>>
    BY <1>4 DEF ToUnique
  <2> QED
    BY <1>1, <1>4, <2>1 DEF Stays, Writable, Handle
<1> QED
  BY <1>2, <1>3, <1>4

(* Bytes are written into a block that has one owner. *)
LEMMA PutStays ==
  ASSUME NEW h \in Heap, NEW p, Knows(h, p), NEW i \in Nat, NEW x \in Seq(Byte)
  PROVE  LET g == Put(h, p, i, x) IN
         /\ g \in Heap
         /\ \A b \in Blocks \ {p.block} : g[b] = h[b]
         /\ g[p.block].copies = h[p.block].copies
         /\ g[p.block].used = h[p.block].used
         /\ Len(g[p.block].bytes) = Len(h[p.block].bytes)
<1> DEFINE g == Put(h, p, i, x)
           old == h[p.block].bytes
           bytes == [k \in DOMAIN old |->
                       IF k - p.off - i \in DOMAIN x THEN x[k - p.off - i] ELSE old[k]]
           changed == [h[p.block] EXCEPT !.bytes = bytes]
<1>1. p.block \in Blocks /\ h[p.block] \in Block /\ old \in Seq(Byte)
  BY DEF Knows, Heap, Block
<1>2. g = [h EXCEPT ![p.block] = changed]
  BY <1>1 DEF Put, Heap
<1>3. bytes \in Seq(Byte) /\ Len(bytes) = Len(old)
  <2>1. DOMAIN old = 1..Len(old) /\ Len(old) \in Nat
    BY <1>1
  <2>2. \A k \in 1..Len(old) : old[k] \in Byte
    BY <1>1
  <2>3. \A k \in DOMAIN x : x[k] \in Byte
    OBVIOUS
  <2>4. bytes \in [1..Len(old) -> Byte]
    BY <2>1, <2>2, <2>3
  <2> QED
    BY <2>1, <2>4
<1>4. /\ changed \in Block /\ changed.bytes = bytes
      /\ changed.copies = h[p.block].copies /\ changed.used = h[p.block].used
  BY <1>1, <1>3 DEF Block
<1> HIDE DEF changed, bytes, g
<1>5. /\ g \in Heap /\ g[p.block] = changed
      /\ \A b \in Blocks \ {p.block} : g[b] = h[b]
  BY <1>1, <1>2, <1>4 DEF Heap
<1> QED
  BY <1>3, <1>4, <1>5 DEF g

LEMMA WritingIsOwn ==
  ASSUME NEW h \in Heap, NEW p, Knows(h, p), NEW r, Stays(h, p, r) \/ Leaves(h, p, r),
         Writable(r), NEW i \in Nat, NEW x \in Seq(Byte),
         NEW n \in Nat, r[2].off + n <= r[2].room,
         NEW w, w = <<Put(r[1], r[2], i, x), [r[2] EXCEPT !.len = n]>>
  PROVE  Stays(h, p, w) \/ Leaves(h, p, w)
<1>1. r[1] \in Heap /\ Knows(r[1], r[2]) /\ w[1] = Put(r[1], r[2], i, x)
  BY DEF Stays, Leaves, Fits
<1>2. /\ w[1] \in Heap
      /\ \A b \in Blocks \ {r[2].block} : w[1][b] = r[1][b]
      /\ w[1][r[2].block].copies = 0
      /\ w[1][r[2].block].used
      /\ Len(w[1][r[2].block].bytes) = r[2].room
  <2> DEFINE g == Put(r[1], r[2], i, x)
  <2>1. /\ g \in Heap
        /\ \A b \in Blocks \ {r[2].block} : g[b] = r[1][b]
        /\ g[r[2].block].copies = r[1][r[2].block].copies
        /\ g[r[2].block].used = r[1][r[2].block].used
        /\ Len(g[r[2].block].bytes) = Len(r[1][r[2].block].bytes)
    <3>1. r[1] \in Heap /\ Knows(r[1], r[2]) /\ i \in Nat /\ x \in Seq(Byte)
      BY <1>1
    <3> QED
      BY ONLY <3>1, PutStays
  <2> HIDE DEF g
  <2>2. w[1] = g
    BY <1>1 DEF g
  <2> QED
    BY <1>1, <2>1, <2>2 DEF Writable, Knows
<1>3. /\ w[2] \in Handle
      /\ w[2].block = r[2].block /\ w[2].off = r[2].off
      /\ w[2].len = n /\ w[2].room = r[2].room
  BY <1>1 DEF Knows, Handle
<1>4. Fits(w[1], w[2])
  BY <1>1, <1>2, <1>3 DEF Fits, Knows
<1>5. CASE Stays(h, p, r)
  BY <1>2, <1>3, <1>4, <1>5 DEF Stays, Writable
<1>6. CASE Leaves(h, p, r)
  <2>1. r[2].block # p.block /\ p.block \in Blocks
    BY <1>6 DEF Leaves, Knows
  <2>2. w[1][p.block] = r[1][p.block]
    BY <1>2, <2>1
  <2>3. \A b \in Blocks \ {p.block, w[2].block} : w[1][b] = h[b]
    BY <1>2, <1>3, <1>6 DEF Leaves
  <2>4. /\ w[1][p.block].copies = h[p.block].copies - 1
        /\ w[1][p.block].bytes = h[p.block].bytes
        /\ w[1][p.block].used
    BY <1>6, <2>2 DEF Leaves
  <2>5. ~h[w[2].block].used /\ w[1][w[2].block].copies = 0
    BY <1>2, <1>3, <1>6 DEF Leaves
  <2> QED
    BY <1>2, <1>4, <2>3, <2>4, <2>5 DEF Leaves
<1> QED
  BY <1>5, <1>6

LEMMA AppendedIsOwn ==
  ASSUME NEW h \in Heap, Spare(h), NEW p, Fits(h, p), NEW x \in Seq(Byte),
         NEW r, r = Appended(h, p, x)
  PROVE  Stays(h, p, r) \/ Leaves(h, p, r)
<1>1. p.len \in Nat /\ Len(x) \in Nat /\ Knows(h, p)
  BY DEF Fits, Knows, Handle
<1>2. CASE x = <<>>
  BY <1>2 DEF Appended, Stays, Fits, Knows
<1>3. CASE x # <<>>
  <2> DEFINE u == ToUnique(h, p, p.len + Len(x))
  <2>1. /\ Stays(h, p, u) \/ Leaves(h, p, u)
        /\ Writable(u) /\ u[2].off + (p.len + Len(x)) <= u[2].room
    BY <1>1, ToUniqueOwns
  <2>2. r = <<Put(u[1], u[2], p.len, x), [u[2] EXCEPT !.len = p.len + Len(x)]>>
    BY <1>3 DEF Appended
  <2> QED
    BY <1>1, <2>1, <2>2, WritingIsOwn
<1> QED
  BY <1>2, <1>3

LEMMA TransformedIsOwn ==
  ASSUME NEW h \in Heap, Spare(h), NEW p, Fits(h, p), NEW x \in Seq(Byte), Len(x) <= p.len,
         NEW u, u = ToUnique(h, p, p.len),
         NEW r, r = <<Put(u[1], u[2], 0, x), [u[2] EXCEPT !.len = Len(x)]>>
  PROVE  Stays(h, p, r) \/ Leaves(h, p, r)
<1>1. p.len \in Nat /\ Len(x) \in Nat /\ Knows(h, p)
  BY DEF Fits, Knows, Handle
<1>2. /\ Stays(h, p, u) \/ Leaves(h, p, u)
      /\ Writable(u) /\ u[2].off + p.len <= u[2].room
  BY <1>1, ToUniqueOwns
<1>3. u[2].off \in Nat /\ u[2].room \in Nat
  BY <1>2 DEF Stays, Leaves, Fits, Knows, Handle
<1>4. u[2].off + Len(x) <= u[2].room
  BY <1>1, <1>2, <1>3
<1> QED
  BY <1>1, <1>2, <1>4, WritingIsOwn

LEMMA ResizeIsOwn ==
  ASSUME NEW h \in Heap, Spare(h), NEW p, NEW n \in Nat,
         Fits(h, p) \/ (Knows(h, p) /\ p.room < n /\ p.off = 0),
         NEW r, r = Resize(h, p, n)
  PROVE  /\ Stays(h, p, r) \/ Leaves(h, p, r)
         /\ p.room < n /\ p.off = 0 =>
              Writable(r) /\ r[2].off = 0 /\ r[2].len = Less(n, p.len) /\ r[2].room = n
<1>1. /\ Knows(h, p) /\ p.block \in Blocks /\ h[p.block] \in Block
      /\ p.off \in Nat /\ p.len \in Nat /\ p.room = Len(h[p.block].bytes)
  BY DEF Fits, Knows, Handle, Heap
<1>2. CASE h[p.block].copies = 0
  <2> DEFINE old == h[p.block].bytes
             moved == [i \in DOMAIN old |->
                         IF n > 0 /\ i <= Less(p.len, n) THEN old[p.off + i] ELSE old[i]]
             bytes == Slice(moved, 0, n)
             changed == [h[p.block] EXCEPT !.bytes = bytes]
  <2>1. /\ r[1] = [h EXCEPT ![p.block] = changed]
        /\ r[2] = [p EXCEPT !.off = 0, !.len = Less(n, @), !.room = n]
    BY <1>1, <1>2 DEF Resize, Heap
  <2>2. bytes \in Seq(Byte) /\ Len(bytes) = n
    <3>1. old \in Seq(Byte) /\ DOMAIN old = 1..Len(old) /\ Len(old) \in Nat
      BY <1>1 DEF Block
    <3>2. ASSUME NEW i \in 1..Len(old), i <= Less(p.len, n) PROVE p.off + i \in 1..Len(old)
      <4>1. CASE p.off + p.len <= p.room
        BY <1>1, <3>1, <3>2, <4>1 DEF Less
      <4>2. CASE p.off = 0
        BY <3>2, <4>2
      <4> QED
        BY <4>1, <4>2 DEF Fits
    <3>3. moved \in [1..Len(old) -> Byte]
      BY <3>1, <3>2
    <3>4. moved \in Seq(Byte)
      BY <3>1, <3>3
    <3> QED
      BY <3>4, SliceIsSeq
  <2>3. /\ changed \in Block /\ changed.bytes = bytes
        /\ changed.copies = h[p.block].copies /\ changed.used = h[p.block].used
    BY <1>1, <2>2 DEF Block
  <2>4. r[2] = [block |-> p.block, off |-> 0, len |-> Less(n, p.len), room |-> n]
    BY <1>1, <2>1 DEF Knows, Handle
  <2>5. Less(n, p.len) \in Nat /\ Less(n, p.len) <= n
    BY <1>1 DEF Less
  <2> HIDE DEF bytes, changed
  <2>6. r[1] \in Heap /\ r[1][p.block] = changed /\ \A b \in Blocks \ {p.block} : r[1][b] = h[b]
    BY <1>1, <2>1, <2>3 DEF Heap
  <2>7. r[2] \in Handle
    BY <1>1, <2>4, <2>5 DEF Handle
  <2>8. Fits(r[1], r[2])
    <3>1. r[2].block = p.block /\ r[2].room = n /\ r[2].off + r[2].len <= n
      BY <2>4, <2>5
    <3>2. r[1][p.block].used /\ r[1][p.block].bytes = bytes
      BY <1>1, <2>3, <2>6 DEF Knows
    <3>3. r[1][r[2].block].used /\ r[2].room = Len(r[1][r[2].block].bytes)
      BY <2>2, <3>1, <3>2
    <3> QED
      BY <1>1, <2>7, <3>1, <3>3 DEF Fits, Knows
  <2>9. Stays(h, p, r) /\ Writable(r)
    BY <1>2, <2>3, <2>4, <2>6, <2>8 DEF Stays, Writable
  <2> QED
    BY <2>4, <2>9
<1>3. CASE h[p.block].copies # 0 /\ (p.off # 0 \/ n # p.room)
  <2>1. r = Leave(h, p, n)
    BY <1>3 DEF Resize
  <2>2. Leaves(h, p, r) /\ r[2].off = 0 /\ r[2].len = Less(n, p.len) /\ r[2].room = n
    BY <1>1, <2>1, LeaveLeaves
  <2> QED
    BY <2>2 DEF Leaves, Writable
<1>4. CASE h[p.block].copies # 0 /\ p.off = 0 /\ n = p.room
  <2>1. r = <<h, p>>
    BY <1>4 DEF Resize
  <2>2. Fits(h, p)
    BY <1>4
  <2> QED
    BY <1>4, <2>1, <2>2 DEF Stays
<1> QED
  BY <1>2, <1>3, <1>4

(***************************************************************************)
(* SetTo resizes or leaves the block, but does not do both: a string that  *)
(* was just resized for the array owns its block and begins where it does. *)
(***************************************************************************)
LEMMA SetToIsOwn ==
  ASSUME NEW h \in Heap, Spare(h), NEW p, Fits(h, p), NEW x \in Seq(Byte),
         NEW r, r = SetTo(h, p, x)
  PROVE  Stays(h, p, r) \/ Leaves(h, p, r)
<1> DEFINE n == Len(x)
           q == [p EXCEPT !.off = 0, !.len = n]
<1>1. n \in Nat /\ p \in Handle /\ Knows(h, p)
  BY DEF Fits, Knows
<1>2. /\ q \in Handle /\ q.block = p.block /\ q.room = p.room /\ q.off = 0 /\ q.len = n
  <2> HIDE DEF n
  <2> QED
    BY <1>1 DEF Handle
<1> HIDE DEF q
<1>3. Knows(h, q) /\ p.room \in Nat
  BY <1>1, <1>2 DEF Knows, Handle
<1>4. \A z : (Stays(h, q, z) => Stays(h, p, z)) /\ (Leaves(h, q, z) => Leaves(h, p, z))
  BY <1>2 DEF Stays, Leaves
<1>5. CASE x = <<>>
  <2>1. r = <<h, q>>
    BY <1>5 DEF SetTo, q
  <2> QED
    BY <1>2, <1>3, <1>5, <2>1 DEF Stays, Fits
<1>6. CASE x # <<>> /\ p.room < n
  <2> DEFINE u == Resize(h, q, n)
  <2>1. /\ Stays(h, q, u) \/ Leaves(h, q, u)
        /\ Writable(u) /\ u[2].off = 0 /\ u[2].len = Less(n, n) /\ u[2].room = n
    BY <1>1, <1>2, <1>3, <1>6, ResizeIsOwn
  <2>2. r = LET v == ToUnique(u[1], u[2], n) IN <<Put(v[1], v[2], 0, x), v[2]>>
    BY <1>2, <1>6 DEF SetTo, q
  <2> HIDE DEF u
  <2>3. ToUnique(u[1], u[2], n) = u
    <3>1. ~Tight(u[2], n)
      BY <1>1, <2>1 DEF Tight
    <3>2. ~(u[2].room - u[2].off < n)
      BY <1>1, <2>1
    <3>3. u = <<u[1], u[2]>>
      BY DEF u, Resize, Leave
    <3> QED
      BY <2>1, <3>1, <3>2, <3>3 DEF ToUnique, Writable
  <2>4. u[2] = [u[2] EXCEPT !.len = n]
    <3>1. u[2] \in Handle /\ u[2].len = n
      BY <1>1, <2>1 DEF Stays, Leaves, Fits, Knows, Less
    <3> QED
      BY <3>1 DEF Handle
  <2>5. r = <<Put(u[1], u[2], 0, x), [u[2] EXCEPT !.len = n]>>
    BY <2>2, <2>3, <2>4
  <2>6. u[2].off + n <= u[2].room
    BY <1>1, <2>1
  <2> QED
    BY <1>1, <1>3, <1>4, <2>1, <2>5, <2>6, WritingIsOwn
<1>7. CASE x # <<>> /\ ~(p.room < n)
  <2> DEFINE u == ToUnique(h, q, n)
  <2>1. Fits(h, q)
    BY <1>1, <1>2, <1>3, <1>7 DEF Fits
  <2>2. /\ Stays(h, q, u) \/ Leaves(h, q, u)
        /\ Writable(u) /\ u[2].off + n <= u[2].room
    BY <1>1, <2>1, ToUniqueOwns
  <2>3. r = <<Put(u[1], u[2], 0, x), u[2]>>
    BY <1>7 DEF SetTo, q
  <2> HIDE DEF u
  <2>4. /\ u[2].len \in Nat /\ u[2].off + u[2].len <= u[2].room
        /\ u[2] = [u[2] EXCEPT !.len = u[2].len]
    <3>1. Fits(u[1], u[2])
      BY <2>2 DEF Stays, Leaves
    <3> QED
      BY <3>1 DEF Fits, Knows, Handle
  <2>5. r = <<Put(u[1], u[2], 0, x), [u[2] EXCEPT !.len = u[2].len]>>
    BY <2>3, <2>4
  <2> QED
    BY <1>3, <1>4, <2>2, <2>4, <2>5, WritingIsOwn
<1> QED
  BY <1>5, <1>6, <1>7

-----------------------------------------------------------------------------
(* The operations that take and give up shares *)

LEMMA NewIsSound ==
  ASSUME NEW h, NEW f, Consistent(h, f), Spare(h), NEW s \in Objects, f[s].block \notin Blocks,
         NEW bytes \in Seq(Byte), NEW n \in 0..Len(bytes),
         NEW q, q = [block |-> Unused(h), off |-> 0, len |-> n, room |-> Len(bytes)]
  PROVE  Sound(h, f, s, Allocate(h, bytes)[1], q)
<1> DEFINE r == Allocate(h, bytes)
<1>1. /\ r[1] \in Heap
      /\ Fits(r[1], r[2])
      /\ r[2] = [block |-> Unused(h), off |-> 0, len |-> Len(bytes), room |-> Len(bytes)]
      /\ r[1][Unused(h)].copies = 0
      /\ \A b \in Blocks \ {Unused(h)} : r[1][b] = h[b]
  BY AllocateFits DEF Consistent
<1>2. Unused(h) \in Blocks /\ ~h[Unused(h)].used
  BY SpareIsUnused
<1> HIDE DEF r
<1>3. q \in Handle /\ Fits(r[1], q)
  BY <1>1, <1>2 DEF Fits, Knows, Handle
<1>4. ASSUME NEW b \in Blocks, h[b].used
      PROVE  r[1][b].copies = h[b].copies - Member(f[s], b) + Member(q, b)
  <2>1. b # Unused(h) /\ h[b].copies \in Int
    BY <1>2, <1>4 DEF Consistent, Heap, Block
  <2> QED
    BY <1>1, <2>1 DEF Member
<1>5. ASSUME NEW b \in Blocks, r[1][b].used, ~h[b].used
      PROVE  r[1][b].copies = 0 /\ q.block = b
  BY <1>1, <1>5
<1>6. ASSUME NEW t \in Objects \ {s}, f[t].block \in Blocks
      PROVE  /\ r[1][f[t].block].used
             /\ r[1][f[t].block].bytes = h[f[t].block].bytes
  <2>1. h[f[t].block].used
    BY <1>6, LoneOwner
  <2> QED
    BY <1>1, <1>2, <1>6, <2>1
<1>7. Sound(h, f, s, r[1], q)
  BY <1>1, <1>3, <1>4, <1>5, <1>6 DEF Sound
<1> QED
  BY <1>7 DEF r

LEMMA ReleaseIsSound ==
  ASSUME NEW h, NEW f, Consistent(h, f), NEW s \in Objects, f[s].block \in Blocks,
         NEW q \in Handle, q.block \notin Blocks
  PROVE  Sound(h, f, s, Release(h, f[s]), q)
<1> DEFINE b0 == f[s].block
           less == [h[b0] EXCEPT !.copies = @ - 1]
           g == Release(h, f[s])
<1>1. /\ h \in Heap /\ h[b0] \in Block /\ h[b0].used /\ h[b0].copies \in Nat
      /\ h[b0].copies = 0 => \A t \in Objects \ {s} : f[t].block # b0
  BY LoneOwner DEF Consistent, Heap
<1>2. Free \in Block /\ ~Free.used
  BY DEF Free, Block
<1>3. /\ less \in Block /\ less.copies = h[b0].copies - 1
      /\ less.bytes = h[b0].bytes /\ less.used
  BY <1>1 DEF Block
<1>4. g = [h EXCEPT ![b0] = IF h[b0].copies = 0 THEN Free ELSE less]
  BY <1>1 DEF Release, Heap
<1> HIDE DEF less, g
<1>5. /\ g \in Heap
      /\ g[b0] = IF h[b0].copies = 0 THEN Free ELSE less
      /\ \A b \in Blocks \ {b0} : g[b] = h[b]
  BY <1>1, <1>2, <1>3, <1>4 DEF Heap
<1>6. ASSUME NEW b \in Blocks, g[b].used
      PROVE  h[b].used /\ g[b].copies = h[b].copies - Member(f[s], b) + Member(q, b)
  <2>1. CASE b = b0
    BY <1>1, <1>2, <1>3, <1>5, <1>6, <2>1 DEF Member
  <2>2. CASE b # b0
    <3>1. g[b] = h[b] /\ h[b].copies \in Int
      BY <1>1, <1>5, <2>2 DEF Heap, Block
    <3> QED
      BY <1>6, <2>2, <3>1 DEF Member
  <2> QED
    BY <2>1, <2>2
<1>7. ASSUME NEW t \in Objects \ {s}, f[t].block \in Blocks
      PROVE  g[f[t].block].used /\ g[f[t].block].bytes = h[f[t].block].bytes
  <2>1. h[f[t].block].used
    BY <1>7, LoneOwner
  <2> QED
    BY <1>1, <1>3, <1>5, <1>7, <2>1
<1> QED
  BY <1>5, <1>6, <1>7 DEF Sound, g

LEMMA ShareIsSound ==
  ASSUME NEW h, NEW f, Consistent(h, f), NEW s \in Objects, f[s].block \notin Blocks,
         NEW t \in Objects, f[t].block \in Blocks,
         NEW q, Fits(h, q), q.block = f[t].block
  PROVE  Sound(h, f, s, Share(h, f[t]), q)
<1> DEFINE more == [h[q.block] EXCEPT !.copies = @ + 1]
           g == Share(h, f[t])
<1>1. h \in Heap /\ h[q.block] \in Block /\ h[q.block].used /\ q.block \in Blocks
  BY LoneOwner DEF Consistent, Heap
<1>2. /\ more \in Block /\ more.copies = h[q.block].copies + 1
      /\ more.bytes = h[q.block].bytes /\ more.used
  BY <1>1 DEF Block
<1>3. g = [h EXCEPT ![q.block] = more]
  BY <1>1 DEF Share, Heap
<1> HIDE DEF more, g
<1>4. g \in Heap /\ g[q.block] = more /\ \A b \in Blocks \ {q.block} : g[b] = h[b]
  BY <1>1, <1>2, <1>3 DEF Heap
<1>5. q \in Handle /\ Fits(g, q)
  BY <1>1, <1>2, <1>4 DEF Fits, Knows
<1>6. ASSUME NEW b \in Blocks, g[b].used
      PROVE  h[b].used /\ g[b].copies = h[b].copies - Member(f[s], b) + Member(q, b)
  <2>1. h[b].copies \in Int
    BY <1>1 DEF Heap, Block
  <2> QED
    BY <1>1, <1>2, <1>4, <1>6, <2>1 DEF Member
<1>7. ASSUME NEW o \in Objects \ {s}, f[o].block \in Blocks
      PROVE  g[f[o].block].used /\ g[f[o].block].bytes = h[f[o].block].bytes
  <2>1. h[f[o].block].used
    BY <1>7, LoneOwner
  <2> QED
    BY <1>2, <1>4, <1>7, <2>1
<1> QED
  BY <1>4, <1>5, <1>6, <1>7 DEF Sound, g

(* A block of its own, and the old one released. *)
LEMMA ReplaceIsSound ==
  ASSUME NEW h, NEW f, Consistent(h, f), Spare(h), NEW s \in Objects, f[s].block \in Blocks,
         NEW bytes \in Seq(Byte), NEW r, r = Allocate(h, bytes)
  PROVE  Sound(h, f, s, Release(r[1], f[s]), r[2])
<1> DEFINE b0 == f[s].block
           b1 == Unused(h)
           less == [h[b0] EXCEPT !.copies = @ - 1]
           g == Release(r[1], f[s])
<1>1. /\ r[1] \in Heap
      /\ Fits(r[1], r[2])
      /\ r[2] = [block |-> b1, off |-> 0, len |-> Len(bytes), room |-> Len(bytes)]
      /\ r[1][b1].copies = 0
      /\ \A b \in Blocks \ {b1} : r[1][b] = h[b]
  BY AllocateFits DEF Consistent
<1>2. b1 \in Blocks /\ ~h[b1].used
  BY SpareIsUnused
<1>3. /\ h \in Heap /\ h[b0] \in Block /\ h[b0].used /\ h[b0].copies \in Nat
      /\ h[b0].copies = 0 => \A t \in Objects \ {s} : f[t].block # b0
  BY LoneOwner DEF Consistent, Heap
<1>4. Free \in Block /\ ~Free.used
  BY DEF Free, Block
<1>5. /\ less \in Block /\ less.copies = h[b0].copies - 1
      /\ less.bytes = h[b0].bytes /\ less.used
  BY <1>3 DEF Block
<1>6. b1 # b0 /\ r[1][b0] = h[b0]
  BY <1>1, <1>2, <1>3
<1>7. g = [r[1] EXCEPT ![b0] = IF h[b0].copies = 0 THEN Free ELSE less]
  BY <1>1, <1>6 DEF Release, Heap
<1> HIDE DEF b1, less, g
<1>8. /\ g \in Heap
      /\ g[b0] = IF h[b0].copies = 0 THEN Free ELSE less
      /\ g[b1] = r[1][b1]
      /\ \A b \in Blocks \ {b0, b1} : g[b] = h[b]
  BY <1>1, <1>2, <1>3, <1>4, <1>5, <1>6, <1>7 DEF Heap
<1>9. r[2] \in Handle /\ r[2].block = b1 /\ Fits(g, r[2])
  BY <1>1, <1>8 DEF Fits, Knows
<1>10. ASSUME NEW b \in Blocks, g[b].used, h[b].used
       PROVE  g[b].copies = h[b].copies - Member(f[s], b) + Member(r[2], b)
  <2>1. b # b1 /\ h[b].copies \in Int
    BY <1>2, <1>3, <1>10 DEF Heap, Block
  <2>2. CASE b = b0
    BY <1>3, <1>4, <1>5, <1>8, <1>9, <1>10, <2>1, <2>2 DEF Member
  <2>3. CASE b # b0
    BY <1>8, <1>9, <2>1, <2>3 DEF Member
  <2> QED
    BY <2>2, <2>3
<1>11. ASSUME NEW b \in Blocks, g[b].used, ~h[b].used
       PROVE  g[b].copies = 0 /\ r[2].block = b
  BY <1>1, <1>3, <1>8, <1>9, <1>11
<1>12. ASSUME NEW t \in Objects \ {s}, f[t].block \in Blocks
       PROVE  g[f[t].block].used /\ g[f[t].block].bytes = h[f[t].block].bytes
  <2>1. h[f[t].block].used /\ f[t].block # b1
    BY <1>2, <1>12, LoneOwner
  <2> QED
    BY <1>3, <1>5, <1>8, <1>12, <2>1
<1> QED
  BY <1>8, <1>9, <1>10, <1>11, <1>12 DEF Sound, g

(* The handle goes from t to s, and the counter does not notice. *)
LEMMA MoveIsConsistent ==
  ASSUME NEW h, NEW f, Consistent(h, f), NEW s \in Objects, f[s].block \notin Blocks,
         NEW t \in Objects \ {s}
  PROVE  Consistent(h, [f EXCEPT ![s] = f[t], ![t] = MovedFrom])
<1> DEFINE e == [f EXCEPT ![s] = f[t]]
           g == [e EXCEPT ![t] = MovedFrom]
<1>1. f \in [Objects -> Handle] /\ f[t] \in Handle /\ MovedFrom \in Handle
  BY DEF Consistent, MovedFrom, Handle
<1>2. MovedFrom.block \notin Blocks
  BY StringsAssumption DEF MovedFrom
<1>3. e \in [Objects -> Handle] /\ e[s] = f[t] /\ \A o \in Objects \ {s} : e[o] = f[o]
  BY <1>1
<1>4. /\ g \in [Objects -> Handle] /\ g[s] = f[t] /\ g[t] = MovedFrom
      /\ \A o \in Objects \ {t} : g[o] = e[o]
  BY <1>1, <1>3
<1>5. ASSUME NEW o \in Objects, g[o].block \in Blocks PROVE Fits(h, g[o])
  BY <1>2, <1>3, <1>4, <1>5 DEF Consistent
<1>6. ASSUME NEW b \in Blocks PROVE Cardinality(Sharers(g, b)) = Cardinality(Sharers(f, b))
  <2> HIDE DEF e, g
  <2>1. Cardinality(Sharers(e, b)) = Cardinality(Sharers(f, b)) - Member(f[s], b) + Member(f[t], b)
    BY <1>3, SharersMove
  <2>2. Cardinality(Sharers(g, b)) = Cardinality(Sharers(e, b)) - Member(e[t], b) + Member(MovedFrom, b)
    BY <1>4, SharersMove
  <2>3. Member(f[s], b) = 0 /\ Member(MovedFrom, b) = 0 /\ Member(f[t], b) \in Nat
    BY <1>2 DEF Member
  <2> QED
    BY <1>3, <2>1, <2>2, <2>3, SharersAreCounted
<1>7. g = [f EXCEPT ![s] = f[t], ![t] = MovedFrom]
  BY <1>1
<1> HIDE DEF g
<1>8. Consistent(h, g)
  BY <1>4, <1>5, <1>6 DEF Consistent
<1> QED
  BY <1>7, <1>8

-----------------------------------------------------------------------------
(* The steps *)

(* A step of s leaves the others and their texts where they are. *)
OthersKeep(s) ==
  \A t \in Objects \ {s} :
    \/ str'[t] = MovedFrom
    \/ /\ str'[t] = str[t]
       /\ str[t].block \in Blocks =>
            heap'[str[t].block].bytes = heap[str[t].block].bytes

Keeps(s) == Consistent(heap', str') /\ OthersKeep(s)

LEMMA InputsAreTexts == Inputs \subseteq Seq(Byte)
<1> SUFFICES ASSUME NEW n \in 0..MaxArray, NEW x \in [1..n -> Bytes] PROVE x \in Seq(Byte)
  BY DEF Inputs
<1>1. n \in Nat /\ x \in [1..n -> Byte]
  BY StringsAssumption DEF Byte
<1> QED
  BY <1>1

LEMMA SoundKeeps ==
  ASSUME Inv, NEW s \in Objects, NEW r, Become(s, r), Sound(heap, str, s, r[1], r[2])
  PROVE  Keeps(s)
<1>1. heap' = r[1] /\ str' = [str EXCEPT ![s] = r[2]]
  BY DEF Become
<1>2. Consistent(heap', str')
  BY <1>1, SoundIsConsistent DEF Inv
<1>3. OthersKeep(s)
  BY <1>1 DEF Inv, Consistent, Sound, OthersKeep
<1> QED
  BY <1>2, <1>3 DEF Keeps

LEMMA OwnKeeps ==
  ASSUME Inv, NEW s \in Live, NEW r, Become(s, r),
         Stays(heap, str[s], r) \/ Leaves(heap, str[s], r)
  PROVE  Keeps(s)
<1>1. s \in Objects /\ str[s].block \in Blocks
  BY DEF Live
<1>2. Sound(heap, str, s, r[1], r[2])
  BY <1>1, StaysIsSound, LeavesIsSound DEF Inv
<1> QED
  BY <1>1, <1>2, SoundKeeps

LEMMA LiveFits ==
  ASSUME Inv, NEW s \in Live
  PROVE  /\ s \in Objects /\ str[s].block \in Blocks /\ str[s] \in Handle
         /\ Fits(heap, str[s]) /\ heap \in Heap /\ Spare(heap)
  BY DEF Inv, Consistent, Live

LEMMA GoneIsNoOwner ==
  /\ Gone \in Handle /\ MovedFrom \in Handle
  /\ Gone.block \notin Blocks /\ MovedFrom.block \notin Blocks
  BY StringsAssumption DEF Gone, MovedFrom, Handle

(* Only the handle of s changes, inside its block. *)
LEMMA ViewKeeps ==
  ASSUME Inv, NEW s \in Live, NEW q \in Handle, Become(s, <<heap, q>>),
         q.block = str[s].block, q.room = str[s].room, q.off + q.len <= q.room
  PROVE  Keeps(s)
<1>1. Fits(heap, q)
  BY LiveFits DEF Fits, Knows
<1>2. Stays(heap, str[s], <<heap, q>>)
  BY <1>1, LiveFits DEF Stays
<1> QED
  BY <1>2, OwnKeeps

LEMMA WritesKeep == ASSUME Inv, NEW s \in Objects, Writes(s) PROVE Keeps(s)
<1>1. ASSUME NEW x \in Inputs, AppendArray(s, x) PROVE Keeps(s)
  <2>1. s \in Live /\ Become(s, Appended(heap, str[s], x))
    BY <1>1 DEF AppendArray
  <2> QED
    BY <2>1, LiveFits, InputsAreTexts, AppendedIsOwn, OwnKeeps
<1>2. ASSUME NEW x \in Inputs, AssignArray(s, x) PROVE Keeps(s)
  <2>1. s \in Live /\ Become(s, SetTo(heap, str[s], x))
    BY <1>2 DEF AssignArray
  <2> QED
    BY <2>1, LiveFits, InputsAreTexts, SetToIsOwn, OwnKeeps
<1>3. ASSUME NEW x \in Inputs, Transform(s, x) PROVE Keeps(s)
  <2> DEFINE u == ToUnique(heap, str[s], str[s].len)
             r == <<Put(u[1], u[2], 0, x), [u[2] EXCEPT !.len = Len(x)]>>
  <2>1. s \in Live /\ Len(x) <= str[s].len /\ Become(s, r)
    BY <1>3 DEF Transform
  <2>2. Stays(heap, str[s], r) \/ Leaves(heap, str[s], r)
    BY <2>1, LiveFits, InputsAreTexts, TransformedIsOwn
  <2> QED
    BY <2>1, <2>2, OwnKeeps
<1>4. ASSUME NEW x \in Inputs, Replace(s, x) PROVE Keeps(s)
  <2> DEFINE r == Allocate(heap, x)
             z == <<Release(r[1], str[s]), r[2]>>
  <2>1. s \in Live /\ Become(s, z)
    BY <1>4 DEF Replace
  <2>2. Sound(heap, str, s, Release(r[1], str[s]), r[2])
    BY <2>1, LiveFits, InputsAreTexts, ReplaceIsSound DEF Inv
  <2> HIDE DEF r
  <2>3. Sound(heap, str, s, z[1], z[2])
    BY <2>2
  <2> QED
    BY <2>1, <2>3, SoundKeeps
<1>5. ASSUME NEW t \in Objects, AppendString(s, t) PROVE Keeps(s)
  <2> DEFINE u == ToUnique(heap, str[s], str[s].len + str[t].len)
             src == IF s = t THEN u[2] ELSE str[t]
             x == Slice(u[1][src.block].bytes, src.off, src.len)
  <2>1. s \in Live /\ t \in Live /\ Become(s, Appended(heap, str[s], x))
    BY <1>5 DEF AppendString
  <2>2. str[s].len + str[t].len \in Nat
    BY <2>1, LiveFits DEF Handle
  <2>3. Stays(heap, str[s], u) \/ Leaves(heap, str[s], u)
    BY <2>1, <2>2, LiveFits, ToUniqueOwns
  <2>4. u[1] \in Heap /\ u[2] \in Handle /\ u[2].block \in Blocks
    BY <2>3 DEF Stays, Leaves, Fits, Knows
  <2> HIDE DEF u
  <2>5. src \in Handle /\ src.block \in Blocks
    BY <2>1, <2>4, LiveFits
  <2> HIDE DEF src
  <2>6. x \in Seq(Byte)
    BY <2>4, <2>5, SliceIsSeq DEF Heap, Block, Handle
  <2> HIDE DEF x
  <2> QED
    BY <2>1, <2>6, LiveFits, AppendedIsOwn, OwnKeeps
<1>6. ASSUME NEW n \in 0..MaxSize, ResizeTo(s, n) PROVE Keeps(s)
  <2>1. s \in Live /\ Become(s, Resize(heap, str[s], n)) /\ n \in Nat
    BY <1>6, StringsAssumption DEF ResizeTo
  <2> QED
    BY <2>1, LiveFits, ResizeIsOwn, OwnKeeps
<1> QED
  BY <1>1, <1>2, <1>3, <1>4, <1>5, <1>6 DEF Writes

LEMMA SharesKeep == ASSUME Inv, NEW s \in Objects, Shares(s) PROVE Keeps(s)
<1>1. ASSUME NEW x \in Inputs, New(s, x) PROVE Keeps(s)
  <2> DEFINE r == Allocate(heap, x)
  <2>1. str[s] = Gone /\ Become(s, r) /\ x \in Seq(Byte)
    BY <1>1, InputsAreTexts DEF New
  <2>2. r[2] = [block |-> Unused(heap), off |-> 0, len |-> Len(x), room |-> Len(x)]
    BY DEF Allocate
  <2>3. Sound(heap, str, s, r[1], r[2])
    BY <2>1, <2>2, GoneIsNoOwner, NewIsSound DEF Inv
  <2> QED
    BY <2>1, <2>3, SoundKeeps
<1>2. ASSUME NEW n \in 1..MaxSize, Reserve(s, n) PROVE Keeps(s)
  <2> DEFINE x == Slice(<<>>, 0, n)
             r == Allocate(heap, x)
             q == [r[2] EXCEPT !.len = 0]
             z == <<r[1], q>>
  <2>1. str[s] = Gone /\ Become(s, z)
    BY <1>2 DEF Reserve
  <2>2. x \in Seq(Byte) /\ 0 \in 0..Len(x)
    <3>1. <<>> \in Seq(Byte) /\ n \in Nat
      BY EmptySeq, StringsAssumption
    <3>2. Slice(<<>>, 0, n) \in Seq(Byte) /\ Len(Slice(<<>>, 0, n)) = n
      BY <3>1, SliceIsSeq
    <3> QED
      BY <3>1, <3>2
  <2> HIDE DEF x
  <2>3. q = [block |-> Unused(heap), off |-> 0, len |-> 0, room |-> Len(x)]
    BY DEF Allocate
  <2>4. Sound(heap, str, s, r[1], q)
    BY <2>1, <2>2, <2>3, GoneIsNoOwner, NewIsSound DEF Inv
  <2> HIDE DEF r, q
  <2>5. Sound(heap, str, s, z[1], z[2])
    BY <2>4
  <2> QED
    BY <2>1, <2>5, SoundKeeps
<1>3. ASSUME NEW t \in Objects, NEW i \in 0..MaxSize, NEW n \in 0..MaxSize, Substring(s, t, i, n)
      PROVE  Keeps(s)
  <2> DEFINE p == str[t]
             k == Less(i, p.len)
             q == [p EXCEPT !.off = @ + k, !.len = Less(n, @ - k)]
             z == <<Share(heap, str[t]), q>>
  <2>1. str[s] = Gone /\ t \in Live /\ Become(s, z)
    BY <1>3 DEF Substring
  <2>2. /\ i \in Nat /\ n \in Nat /\ p.len \in Nat /\ p.off \in Nat
        /\ p \in Handle /\ Fits(heap, p) /\ p.block \in Blocks /\ p = str[t]
    BY <2>1, LiveFits, StringsAssumption DEF Handle
  <2> HIDE DEF p
  <2>3. k \in Nat /\ k <= p.len
    BY <2>2 DEF Less
  <2> HIDE DEF k
  <2>4. Less(n, p.len - k) \in Nat /\ Less(n, p.len - k) <= p.len - k
    BY <2>2, <2>3 DEF Less
  <2>5. /\ q \in Handle /\ q.block = p.block /\ q.room = p.room
        /\ q.off = p.off + k /\ q.len <= p.len - k
    <3>0. q = [p EXCEPT !.off = @ + k, !.len = Less(n, @ - k)]
      OBVIOUS
    <3> HIDE DEF q
    <3>1. q = [block |-> p.block, off |-> p.off + k, len |-> Less(n, p.len - k), room |-> p.room]
      BY <2>2, <3>0 DEF Handle
    <3> QED
      BY <2>2, <2>3, <2>4, <3>1 DEF Handle
  <2> HIDE DEF q
  <2>6. Fits(heap, q)
    BY <2>2, <2>3, <2>5 DEF Fits, Knows, Handle
  <2>7. Sound(heap, str, s, z[1], z[2])
    BY <2>1, <2>2, <2>5, <2>6, GoneIsNoOwner, ShareIsSound DEF Inv
  <2> QED
    BY <2>1, <2>7, SoundKeeps
<1>4. ASSUME NEW t \in Objects, Move(s, t) PROVE Keeps(s)
  <2>1. /\ str[s] = Gone /\ t \in Live /\ heap' = heap
        /\ str' = [str EXCEPT ![s] = str[t], ![t] = MovedFrom]
    BY <1>4 DEF Move
  <2>2. s # t /\ str \in [Objects -> Handle]
    BY <2>1, GoneIsNoOwner DEF Live, Inv, Consistent
  <2>3. Consistent(heap', str')
    BY <2>1, <2>2, GoneIsNoOwner, MoveIsConsistent DEF Inv
  <2>4. OthersKeep(s)
    BY <2>1, <2>2 DEF OthersKeep
  <2> QED
    BY <2>3, <2>4 DEF Keeps
<1>5. ASSUME NEW t \in Objects, Assign(s, t) PROVE Keeps(s)
  <2> DEFINE h == Release(heap, str[s])
             f == [str EXCEPT ![s] = Gone]
             g == Share(h, str[t])
  <2>1. s \in Live /\ t \in Live /\ s # t /\ Become(s, <<g, str[t]>>)
    BY <1>5 DEF Assign
  <2>2. /\ str[s].block \in Blocks /\ str[t].block \in Blocks
        /\ str \in [Objects -> Handle] /\ Consistent(heap, str)
    BY <2>1 DEF Live, Inv, Consistent
  <2>3. Sound(heap, str, s, h, Gone)
    BY <2>2, GoneIsNoOwner, ReleaseIsSound
  <2> HIDE DEF h
  <2>4. Consistent(h, f)
    BY <2>2, <2>3, SoundIsConsistent
  <2>5. f[s] = Gone /\ f[t] = str[t] /\ \A o \in Objects \ {s} : f[o] = str[o]
    BY <2>1, <2>2
  <2>6. Fits(h, str[t])
    BY <2>2, <2>4, <2>5 DEF Consistent
  <2>7. Sound(h, f, s, g, str[t])
    <3> HIDE DEF f
    <3>1. Share(h, f[t]) = g
      BY <2>5
    <3> QED
      BY <2>2, <2>4, <2>5, <2>6, <3>1, GoneIsNoOwner, ShareIsSound
  <2>8. Consistent(g, [f EXCEPT ![s] = str[t]])
    BY <2>4, <2>7, SoundIsConsistent
  <2>9. heap' = g /\ str' = [str EXCEPT ![s] = str[t]]
    BY <2>1 DEF Become
  <2>10. str' = [f EXCEPT ![s] = str[t]]
    BY <2>2, <2>9
  <2>11. OthersKeep(s)
    <3> SUFFICES ASSUME NEW o \in Objects \ {s}
                 PROVE  /\ str'[o] = str[o]
                        /\ str[o].block \in Blocks =>
                             heap'[str[o].block].bytes = heap[str[o].block].bytes
      BY DEF OthersKeep
    <3>1. str'[o] = str[o]
      BY <2>2, <2>9
    <3>2. ASSUME str[o].block \in Blocks
          PROVE  /\ h[str[o].block].bytes = heap[str[o].block].bytes
                 /\ g[str[o].block].bytes = h[str[o].block].bytes
      <4>1. h[str[o].block].bytes = heap[str[o].block].bytes
        BY <2>3, <3>2 DEF Sound
      <4> HIDE DEF f, g
      <4>2. g[str[o].block].bytes = h[str[o].block].bytes
        BY <2>5, <2>7, <3>2 DEF Sound
      <4> QED
        BY <4>1, <4>2
    <3> QED
      BY <2>9, <3>1, <3>2
  <2> QED
    BY <2>8, <2>9, <2>10, <2>11 DEF Keeps
<1>6. ASSUME NEW t \in Objects, MoveAssign(s, t) PROVE Keeps(s)
  <2> DEFINE h == Release(heap, str[s])
             f == [str EXCEPT ![s] = Gone]
  <2>1. /\ s \in Live /\ t \in Live /\ s # t /\ heap' = h
        /\ str' = [str EXCEPT ![s] = str[t], ![t] = MovedFrom]
    BY <1>6 DEF MoveAssign
  <2>2. /\ str[s].block \in Blocks /\ str \in [Objects -> Handle] /\ Consistent(heap, str)
    BY <2>1 DEF Live, Inv, Consistent
  <2>3. Sound(heap, str, s, h, Gone)
    BY <2>2, GoneIsNoOwner, ReleaseIsSound
  <2> HIDE DEF h
  <2>4. Consistent(h, f)
    BY <2>2, <2>3, SoundIsConsistent
  <2>5. f[s] = Gone /\ f[t] = str[t]
    BY <2>1, <2>2
  <2>6. str' = [f EXCEPT ![s] = f[t], ![t] = MovedFrom]
    BY <2>1, <2>2, <2>5
  <2> HIDE DEF f
  <2>7. Consistent(heap', str')
    <3>1. Consistent(h, [f EXCEPT ![s] = f[t], ![t] = MovedFrom])
      BY <2>1, <2>4, <2>5, GoneIsNoOwner, MoveIsConsistent
    <3> QED
      BY <2>1, <2>6, <3>1
  <2>8. OthersKeep(s)
    BY <2>1, <2>2, <2>3 DEF Sound, OthersKeep
  <2> QED
    BY <2>7, <2>8 DEF Keeps
<1>7. CASE Destroy(s)
  <2>1. CASE s \in Live
    <3>1. Become(s, <<Release(heap, str[s]), Gone>>)
      BY <1>7, <2>1 DEF Destroy
    <3>2. Sound(heap, str, s, Release(heap, str[s]), Gone)
      BY <2>1, LiveFits, GoneIsNoOwner, ReleaseIsSound DEF Inv
    <3> QED
      BY <3>1, <3>2, SoundKeeps
  <2>2. CASE s \notin Live
    <3>1. Become(s, <<heap, Gone>>) /\ str[s].block \notin Blocks
      BY <1>7, <2>2 DEF Destroy, Live
    <3>2. \A b \in Blocks : /\ heap[b].copies \in Int
                            /\ Member(str[s], b) = 0 /\ Member(Gone, b) = 0
      BY <3>1, GoneIsNoOwner DEF Inv, Consistent, Heap, Block, Member
    <3>3. Sound(heap, str, s, heap, Gone)
      <4>1. \A b \in Blocks : heap[b].used =>
              heap[b].copies = heap[b].copies - Member(str[s], b) + Member(Gone, b)
        BY <3>2
      <4>2. \A t \in Objects \ {s} : str[t].block \in Blocks => heap[str[t].block].used
        BY LoneOwner DEF Inv
      <4> QED
        BY <4>1, <4>2, GoneIsNoOwner DEF Sound, Inv, Consistent
    <3> QED
      BY <3>1, <3>3, SoundKeeps
  <2> QED
    BY <2>1, <2>2
<1>8. CASE Empty(s)
  <2> DEFINE p == str[s]
             q == [p EXCEPT !.off = 0, !.len = 0]
  <2>1. s \in Live /\ Become(s, <<heap, q>>)
    BY <1>8 DEF Empty
  <2>2. p \in Handle /\ p = str[s]
    BY <2>1, LiveFits
  <2> HIDE DEF p
  <2>3. /\ q \in Handle /\ q.block = str[s].block /\ q.room = str[s].room
        /\ q.off + q.len <= q.room
    <3>1. q \in Handle /\ q.block = p.block /\ q.room = p.room /\ q.off = 0 /\ q.len = 0
      BY <2>2 DEF Handle
    <3> HIDE DEF q
    <3> QED
      BY <2>2, <3>1 DEF Handle
  <2> HIDE DEF q
  <2> QED
    BY <2>1, <2>3, ViewKeeps
<1>9. ASSUME NEW i \in 0..MaxSize, NEW j \in 0..MaxSize, Cut(s, i, j) PROVE Keeps(s)
  <2> DEFINE p == str[s]
             q == [p EXCEPT !.off = @ + i, !.len = @ - i - j]
  <2>1. s \in Live /\ Become(s, <<heap, q>>) /\ i + j <= p.len
    BY <1>9 DEF Cut
  <2>2. /\ i \in Nat /\ j \in Nat /\ p \in Handle /\ p = str[s]
        /\ p.off + p.len <= p.room
    BY <2>1, LiveFits, StringsAssumption DEF Fits
  <2> HIDE DEF p
  <2>3. /\ q \in Handle /\ q.block = str[s].block /\ q.room = str[s].room
        /\ q.off + q.len <= q.room
    <3>0. q = [p EXCEPT !.off = @ + i, !.len = @ - i - j]
      OBVIOUS
    <3> HIDE DEF q
    <3>1. q = [block |-> p.block, off |-> p.off + i, len |-> p.len - i - j, room |-> p.room]
      BY <2>2, <3>0 DEF Handle
    <3>2. p.off + i \in Nat /\ p.len - i - j \in Nat
      BY <2>1, <2>2 DEF Handle
    <3> QED
      BY <2>2, <3>1, <3>2 DEF Handle
  <2> HIDE DEF q
  <2> QED
    BY <2>1, <2>3, ViewKeeps
<1> QED
  BY <1>1, <1>2, <1>3, <1>4, <1>5, <1>6, <1>7, <1>8, <1>9 DEF Shares

-----------------------------------------------------------------------------
LEMMA InvInit == Init => Inv
<1> SUFFICES ASSUME Init PROVE Inv
  OBVIOUS
<1>1. Free \in Block /\ ~Free.used
  BY EmptySeq DEF Free, Block
<1>2. heap \in Heap /\ str \in [Objects -> Handle]
  BY <1>1, GoneIsNoOwner DEF Init, Heap
<1>3. \A s \in Objects : str[s].block \notin Blocks
  BY GoneIsNoOwner DEF Init
<1>4. \A b \in Blocks : ~heap[b].used
  BY <1>1 DEF Init
<1> QED
  BY <1>2, <1>3, <1>4, StringsAssumption DEF Inv, Consistent, Spare

LEMMA InvStep == Inv /\ [Next]_vars => Inv'
<1>1. ASSUME Inv, Next PROVE Inv'
  <2>1. PICK s \in Objects : Keeps(s)
    BY <1>1, WritesKeep, SharesKeep DEF Next
  <2>2. Spare(heap')
    BY <1>1 DEF Next, InBounds, Spare
  <2> QED
    BY <2>1, <2>2 DEF Inv, Keeps
<1>2. ASSUME Inv, UNCHANGED vars PROVE Inv'
  BY <1>2 DEF Inv, vars
<1> QED
  BY <1>1, <1>2

(***************************************************************************)
(* All functions of PeoplezString keep the heap consistent: every string   *)
(* reads a part of a living block, every counter is the number of its      *)
(* readers less one, and there is a block for the next allocation.         *)
(***************************************************************************)
THEOREM InvariantHolds == Spec => []Inv
  BY InvInit, InvStep, PTL DEF Spec

(***************************************************************************)
(* No operation on a string leaves a handle in memory that was deleted or  *)
(* beyond its end, and the counter of every block that strings have is the *)
(* number of these less one, so that the last one to leave it as the       *)
(* destructor does deletes it.  (A lone owner that leaves its block through*)
(* ToUnique or Resize does not: such a block has no owner, -1 for ever.)   *)
(***************************************************************************)
THEOREM MemoryIsSafe == Spec => []BlocksAreOwned
<1>1. ASSUME Inv PROVE HandlesFit
  BY <1>1, LiveFits DEF HandlesFit, Fits, Knows
<1>2. ASSUME Inv PROVE CountersMatch
  BY <1>2 DEF Inv, Consistent, CountersMatch, Owners, Sharers
<1>3. Inv => BlocksAreOwned
  BY <1>1, <1>2 DEF BlocksAreOwned
<1> QED
  BY <1>3, InvariantHolds, PTL

(***************************************************************************)
(* Copying on write is invisible: whatever is done to one string, every    *)
(* other keeps its text and its place, or was moved away on purpose.       *)
(***************************************************************************)
THEOREM CopiesStayIndependent == Spec => CopiesAreIndependent
<1> DEFINE Independent ==
      \A s, t \in Objects :
        s # t /\ Changes(t) => /\ str'[s] \in {str[s], MovedFrom}
                              /\ ~Changes(s)
<1>1. ASSUME Inv, Next PROVE Independent
  <2>1. PICK o \in Objects : OthersKeep(o)
    BY <1>1, WritesKeep, SharesKeep DEF Next, Keeps
  <2>2. ASSUME NEW t \in Objects \ {o} PROVE ~Changes(t)
    <3>1. CASE str'[t] = MovedFrom
      BY <3>1, GoneIsNoOwner DEF Changes, Live
    <3>2. CASE str'[t] = str[t] /\ t \in Live
      BY <2>1, <3>2, GoneIsNoOwner DEF OthersKeep, Changes, Live, Text
    <3> QED
      BY <2>1, <3>1, <3>2 DEF OthersKeep, Changes
  <2>3. \A t \in Objects \ {o} : str'[t] \in {str[t], MovedFrom}
    BY <2>1 DEF OthersKeep
  <2> QED
    BY <2>2, <2>3
<1>2. ASSUME UNCHANGED vars PROVE Independent
  BY <1>2 DEF vars, Changes, Text
<1>3. Inv /\ [Next]_vars => [Independent]_vars
  BY <1>1, <1>2
<1> QED
  BY <1>3, InvariantHolds, PTL DEF Spec, CopiesAreIndependent

-----------------------------------------------------------------------------
(* What a string reads after an array was appended *)

LEMMA SliceReads ==
  ASSUME NEW bytes \in Seq(Byte), NEW i \in Nat, NEW n \in Nat, NEW k \in 1..n,
         i + k <= Len(bytes)
  PROVE  Slice(bytes, i, n)[k] = bytes[i + k]
  BY DEF Slice

(* A string that begins with its block keeps its text when it gets room. *)
LEMMA ToUniqueKeepsText ==
  ASSUME NEW h \in Heap, Spare(h), NEW p, Fits(h, p), p.off = 0,
         NEW n \in Nat, p.len <= n
  PROVE  LET r == ToUnique(h, p, n) IN
         /\ r[2].off = 0
         /\ \A k \in 1..p.len : r[1][r[2].block].bytes[k] = h[p.block].bytes[k]
<1> DEFINE old == h[p.block].bytes
           r == ToUnique(h, p, n)
<1> SUFFICES r[2].off = 0 /\ \A k \in 1..p.len : r[1][r[2].block].bytes[k] = old[k]
  OBVIOUS
<1>0. r = ToUnique(h, p, n)
  OBVIOUS
<1> HIDE DEF r
<1>1. /\ p.block \in Blocks /\ h[p.block] \in Block /\ p \in Handle
      /\ old \in Seq(Byte) /\ p.len \in Nat /\ p.len <= Len(old) /\ Len(old) \in Nat
      /\ p.off \in Nat
  BY DEF Fits, Knows, Heap, Block, Handle
<1>2. CASE h[p.block].copies # 0 \/ Tight(p, n)
  <2> DEFINE less == [h EXCEPT ![p.block].copies = @ - 1]
             keep == Less(n, p.len)
             inner == Slice(old, p.off, keep)
             text == Slice(inner, 0, n)
             new == Allocate(less, text)
  <2>1. r = <<new[1], [new[2] EXCEPT !.len = keep]>>
    BY <1>0, <1>2 DEF ToUnique, Leave
  <2>2. new[2] = [block |-> Unused(less), off |-> 0, len |-> Len(text), room |-> Len(text)]
    BY DEF Allocate
  <2>3. new[1][Unused(less)].bytes = text
    <3>1. less \in [Blocks -> {less[b] : b \in Blocks}]
      BY <1>1 DEF Heap
    <3>2. Unused(less) \in Blocks
      <4>1. \A b \in Blocks : less[b].used = h[b].used
        BY <1>1 DEF Heap, Block
      <4> HIDE DEF less
      <4>2. Spare(less)
        BY <4>1 DEF Spare
      <4> QED
        BY <4>2, SpareIsUnused
    <3> HIDE DEF less, text
    <3> QED
      BY <3>1, <3>2 DEF Allocate
  <2>4. keep = p.len
    BY <1>1 DEF Less
  <2>5. inner \in Seq(Byte) /\ Len(inner) = p.len
    <3> HIDE DEF keep
    <3> QED
      BY <1>1, <2>4, SliceIsSeq
  <2>6. ASSUME NEW k \in 1..p.len PROVE text[k] = old[k]
    <3>1. k \in 1..n /\ 0 + k <= Len(inner) /\ 0 + k = k
      BY <1>1, <2>5
    <3>0. p.off + k <= Len(old) /\ p.off + k = k /\ k \in 1..keep /\ keep \in Nat
      BY <1>1, <2>4
    <3> HIDE DEF inner, keep
    <3>2. text[k] = inner[k]
      BY <2>5, <3>1, SliceReads
    <3>3. inner[k] = old[k]
      BY <1>1, <3>0, SliceReads DEF inner
    <3> QED
      BY <3>2, <3>3
  <2> HIDE DEF new, text, keep, less
  <2>7. r[2].off = 0 /\ r[2].block = Unused(less)
    BY <2>1, <2>2
  <2> QED
    BY <2>1, <2>3, <2>6, <2>7
<1>3. CASE h[p.block].copies = 0 /\ ~Tight(p, n) /\ p.room - p.off < n
  <2> DEFINE bytes == Slice(old, 0, n + p.off)
  <2>1. /\ r[1] = [h EXCEPT ![p.block] = [h[p.block] EXCEPT !.bytes = bytes]]
        /\ r[2] = [p EXCEPT !.off = 0, !.len = Less(n, @), !.room = n + p.off]
    BY <1>0, <1>1, <1>3 DEF ToUnique, Heap
  <2>2. r[2].block = p.block /\ r[2].off = 0
    BY <1>1, <2>1 DEF Handle
  <2>3. ASSUME NEW k \in 1..p.len PROVE bytes[k] = old[k]
    <3>1. k \in 1..(n + p.off) /\ 0 + k <= Len(old) /\ 0 + k = k /\ n + p.off \in Nat
      BY <1>1
    <3> QED
      BY <1>1, <3>1, SliceReads
  <2>4. r[1][p.block].bytes = bytes
    BY <1>1, <2>1 DEF Heap, Block
  <2> HIDE DEF bytes
  <2> QED
    BY <2>2, <2>3, <2>4
<1>4. CASE h[p.block].copies = 0 /\ ~Tight(p, n) /\ ~(p.room - p.off < n)
  BY <1>0, <1>4 DEF ToUnique
<1> QED
  BY <1>2, <1>3, <1>4

LEMMA AppendedReads ==
  ASSUME NEW h \in Heap, Spare(h), NEW p, Fits(h, p), p.off = 0,
         NEW x \in Seq(Byte), NEW r, r = Appended(h, p, x)
  PROVE  Slice(r[1][r[2].block].bytes, r[2].off, r[2].len) =
           Slice(h[p.block].bytes, p.off, p.len) \o x
<1> DEFINE old == h[p.block].bytes
           text == Slice(old, p.off, p.len)
           n == p.len + Len(x)
<1>1. /\ p.len \in Nat /\ Len(x) \in Nat /\ Knows(h, p) /\ n \in Nat
      /\ old \in Seq(Byte) /\ p.len <= Len(old) /\ p.block \in Blocks
      /\ p.off \in Nat
  BY DEF Fits, Knows, Handle, Heap, Block
<1>2. text \in Seq(Byte) /\ Len(text) = p.len
  BY <1>1, SliceIsSeq
<1>3. \A k \in 1..p.len : text[k] = old[k]
  <2> TAKE k \in 1..p.len
  <2>1. p.off + k <= Len(old) /\ p.off + k = k
    BY <1>1
  <2> QED
    BY <1>1, <2>1, SliceReads
<1>4. CASE x = <<>>
  <2>1. r = <<h, p>>
    BY <1>4 DEF Appended
  <2>2. text \o <<>> = text
    BY <1>2, ConcatEmptySeq
  <2> QED
    BY <1>4, <2>1, <2>2
<1>5. CASE x # <<>>
  <2> DEFINE u == ToUnique(h, p, n)
             b == u[2].block
  <2>1. /\ Stays(h, p, u) \/ Leaves(h, p, u)
        /\ Writable(u) /\ u[2].off + n <= u[2].room
    BY <1>1, ToUniqueOwns
  <2>2. u[2].off = 0 /\ \A k \in 1..p.len : u[1][b].bytes[k] = old[k]
    <3>1. p.len <= n
      BY <1>1
    <3> HIDE DEF n
    <3> QED
      BY <1>1, <3>1, ToUniqueKeepsText
  <2>3. r = <<Put(u[1], u[2], p.len, x), [u[2] EXCEPT !.len = n]>>
    BY <1>5 DEF Appended
  <2>4. /\ u[1] \in Heap /\ u[2] \in Handle /\ b \in Blocks
        /\ u[1][b].bytes \in Seq(Byte) /\ n <= Len(u[1][b].bytes)
    <3>1. Fits(u[1], u[2]) /\ u[1] \in Heap
      BY <2>1 DEF Stays, Leaves
    <3>2. /\ u[2] \in Handle /\ b \in Blocks /\ u[1][b] \in Block
          /\ u[2].room = Len(u[1][b].bytes)
      BY <3>1 DEF Fits, Knows, Heap
    <3>3. u[1][b].bytes \in Seq(Byte)
      BY <3>2 DEF Block
    <3> HIDE DEF u, n
    <3>4. n <= Len(u[1][b].bytes)
      BY <1>1, <2>1, <2>2, <3>2, <3>3
    <3> QED
      BY <3>1, <3>2, <3>3, <3>4
  <2> HIDE DEF u
  <2>5. r[2].off = 0 /\ r[2].len = n /\ r[2].block = b
    BY <2>2, <2>3, <2>4 DEF Handle
  <2> DEFINE bytes == r[1][b].bytes
  <2>6. /\ bytes = [k \in DOMAIN u[1][b].bytes |->
                      IF k - u[2].off - p.len \in DOMAIN x THEN x[k - u[2].off - p.len]
                                                          ELSE u[1][b].bytes[k]]
    BY <2>3, <2>4 DEF Put, Heap, Block
  <2>7. ASSUME NEW k \in 1..n
        PROVE  bytes[k] = IF k <= p.len THEN text[k] ELSE x[k - p.len]
    <3>1. DOMAIN x = 1..Len(x) /\ k \in DOMAIN u[1][b].bytes
      <4>1. DOMAIN u[1][b].bytes = 1..Len(u[1][b].bytes) /\ Len(u[1][b].bytes) \in Nat
        BY <2>4, LenProperties
      <4> QED
        BY <1>1, <2>4, <4>1
    <3>2. k - u[2].off - p.len = k - p.len
      BY <1>1, <2>2
    <3>3. bytes[k] = IF k - p.len \in 1..Len(x) THEN x[k - p.len] ELSE u[1][b].bytes[k]
      BY <2>6, <3>1, <3>2
    <3> HIDE DEF bytes, text
    <3>4. CASE k <= p.len
      BY <1>1, <1>3, <2>2, <3>3, <3>4
    <3>5. CASE ~(k <= p.len)
      BY <1>1, <3>3, <3>5
    <3> QED
      BY <3>4, <3>5
  <2>8. bytes \in Seq(Byte) /\ n <= Len(bytes)
    <3>1. r[1] \in Heap /\ Fits(r[1], r[2])
      BY AppendedIsOwn DEF Stays, Leaves
    <3>2. r[2].room = Len(bytes) /\ n <= r[2].room
      BY <1>1, <2>5, <3>1 DEF Fits, Knows
    <3> QED
      BY <2>4, <3>1, <3>2 DEF Heap, Block
  <2> DEFINE after == Slice(bytes, 0, n)
  <2> HIDE DEF bytes
  <2>9. after \in Seq(Byte) /\ Len(after) = n /\ \A k \in 1..n : after[k] = bytes[k]
    <3>1. \A k \in 1..n : 0 + k <= Len(bytes) /\ 0 + k = k
      BY <1>1, <2>8
    <3> HIDE DEF n
    <3>2. after \in Seq(Byte) /\ Len(after) = n
      BY <1>1, <2>8, SliceIsSeq
    <3>3. \A k \in 1..n : after[k] = bytes[k]
      BY <1>1, <2>8, <3>1, SliceReads
    <3> QED
      BY <3>2, <3>3
  <2>10. /\ text \o x \in Seq(Byte) /\ Len(text \o x) = n
         /\ \A k \in 1..n : (text \o x)[k] = IF k <= p.len THEN text[k] ELSE x[k - p.len]
    <3> HIDE DEF text
    <3> QED
      BY <1>1, <1>2, ConcatProperties
  <2> HIDE DEF after, text
  <2>11. after = text \o x
    BY <2>7, <2>9, <2>10, SeqEqual
  <2> QED
    BY <2>5, <2>11 DEF after, text, bytes
<1> QED
  BY <1>4, <1>5

(***************************************************************************)
(* An append to a string that was never cut at its front adds the array to *)
(* the text, whether the block is shared, has to grow or has room.         *)
(***************************************************************************)
THEOREM AppendIsExact == Spec => AppendsAtTheEnd
<1>1. ASSUME Inv, NEW s \in Live, NEW x \in Inputs, str[s].off = 0, AppendArray(s, x)
      PROVE  ~AppendFails(s, x)
  <2> DEFINE r == Appended(heap, str[s], x)
  <2>1. heap' = r[1] /\ str' = [str EXCEPT ![s] = r[2]] /\ x \in Seq(Byte)
    BY <1>1, InputsAreTexts DEF AppendArray, Become
  <2>2. s \in Objects /\ str'[s] = r[2]
    BY <1>1, <2>1 DEF Live, Inv, Consistent
  <2>3. Slice(r[1][r[2].block].bytes, r[2].off, r[2].len) =
          Slice(heap[str[s].block].bytes, str[s].off, str[s].len) \o x
    BY <1>1, <2>1, LiveFits, AppendedReads
  <2> HIDE DEF r
  <2>4. Text(s)' = Text(s) \o x
    BY <2>1, <2>2, <2>3 DEF Text
  <2> QED
    BY <2>4 DEF AppendFails
<1> DEFINE Appends ==
      \A s \in Live, x \in Inputs :
        str[s].off = 0 /\ AppendFails(s, x) => ~AppendArray(s, x)
<1>2. Inv /\ [Next]_vars => [Appends]_vars
  BY <1>1
<1> QED
  BY <1>2, InvariantHolds, PTL DEF Spec, AppendsAtTheEnd

-----------------------------------------------------------------------------
(* Conversions of integers *)

Parsing == INSTANCE Numbers

LEMMA Least ==
  ASSUME NEW M, M \subseteq Nat, M # {}
  PROVE  \E m \in M : \A k \in M : m <= k
<1> DEFINE Order == OpToRel(<, Nat)
<1>1. \A i, j \in Nat : i < j => <<i, j>> \in Order
  BY DEF OpToRel
<1>2. IsWellFoundedOn(Order, Nat)
  BY NatLessThanWellFounded
<1> HIDE DEF Order
<1>3. PICK m \in M : \A k \in M : <<k, m>> \notin Order
  BY <1>2, WFMin
<1>4. \A k \in M : k \in Nat /\ ~(k < m)
  BY <1>1, <1>3
<1> QED
  BY <1>4

(* What holds of 0, and of i when it holds of i - 1. *)
LEMMA Upwards ==
  ASSUME NEW n \in Nat, NEW G \in SUBSET (0..n), 0 \in G,
         \A i \in 1..n : i - 1 \in G => i \in G
  PROVE  \A i \in 0..n : i \in G
<1> DEFINE Bad == (0..n) \ G
<1> SUFFICES ASSUME Bad # {} PROVE FALSE
  OBVIOUS
<1>1. Bad \subseteq Nat
  OBVIOUS
<1> HIDE DEF Bad
<1>2. PICK m \in Bad : \A k \in Bad : m <= k
  BY <1>1, Least
<1>3. m \in 0..n /\ m \notin G /\ m # 0
  BY DEF Bad
<1>4. m - 1 \in 0..n /\ m \in 1..n
  BY <1>3
<1>5. m - 1 \notin Bad
  BY <1>2, <1>3
<1> QED
  BY <1>3, <1>4, <1>5 DEF Bad

(* f[i] is what a loop has in its variables after i steps, of z before. *)
Loop(f, z, n, step) == f[0] = z /\ \A i \in 1..n : f[i] = step[i][f[i - 1]]

LEMMA LoopRuns ==
  ASSUME NEW S, NEW z \in S, NEW n \in Nat, NEW step \in [1..n -> [S -> S]]
  PROVE  \E f \in [0..n -> S] : Loop(f, z, n, step)
<1> DEFINE Runs(m, f) == Loop(f, z, m, step)
           G == {m \in 0..n : \E f \in [0..m -> S] : Runs(m, f)}
<1>1. 0 \in G
  <2>1. [i \in 0..0 |-> z] \in [0..0 -> S] /\ Runs(0, [i \in 0..0 |-> z])
    BY DEF Loop
  <2> HIDE DEF Runs
  <2>2. \E f \in [0..0 -> S] : Runs(0, f)
    BY <2>1
  <2> QED
    BY <2>2
<1>2. ASSUME NEW m \in 1..n, m - 1 \in G PROVE m \in G
  <2>0. m \in 0..n
    OBVIOUS
  <2>1. PICK f \in [0..(m - 1) -> S] : Runs(m - 1, f)
    BY <1>2
  <2> DEFINE g == [i \in 0..m |-> IF i = m THEN step[m][f[m - 1]] ELSE f[i]]
  <2>2. \A i \in 0..m : i # m => i \in 0..(m - 1)
    OBVIOUS
  <2>3. m - 1 \in 0..(m - 1) /\ m \in 0..m /\ 0 \in 0..m /\ m # 0
    OBVIOUS
  <2>4. step[m][f[m - 1]] \in S
    <3>1. f[m - 1] \in S /\ step[m] \in [S -> S]
      BY <2>3
    <3> QED
      BY <3>1
  <2>5. g \in [0..m -> S]
    BY <2>2, <2>4
  <2>6. g[0] = z
    BY <2>1, <2>3 DEF Loop
  <2>7. ASSUME NEW i \in 1..m PROVE g[i] = step[i][g[i - 1]]
    <3>1. i \in 0..m /\ i - 1 \in 0..m /\ i - 1 # m
      OBVIOUS
    <3>2. g[i - 1] = f[i - 1]
      BY <3>1
    <3>3. CASE i = m
      BY <3>1, <3>2, <3>3
    <3>4. CASE i # m
      <4>1. i \in 1..m - 1 /\ g[i] = f[i]
        BY <3>1, <3>4
      <4> QED
        BY <2>1, <3>2, <4>1 DEF Loop
    <3> QED
      BY <3>3, <3>4
  <2> HIDE DEF g
  <2>8. \E h \in [0..m -> S] : Runs(m, h)
    BY <2>5, <2>6, <2>7 DEF Loop
  <2> QED
    BY <2>0, <2>8
<1>3. \A m \in 0..n : m \in G
  <2>1. G \in SUBSET (0..n)
    OBVIOUS
  <2> HIDE DEF G
  <2> QED
    BY <1>1, <1>2, <2>1, Upwards
<1>4. n \in G
  BY <1>3
<1> QED
  BY <1>4

Digit(s, i, base) == Parsing!charToInt(s[i], base)

Texts == Seq(Nat)

LEMMA DigitIs ==
  ASSUME NEW c \in Nat, NEW base \in Nat
  PROVE  Parsing!charToInt(c, base) \in Int /\ Parsing!charToInt(c, base) \in -1..(base - 1)
<1>1. CASE c \in 48..57
  BY <1>1 DEF Parsing!charToInt
<1>2. CASE c \in 65..90
  BY <1>2 DEF Parsing!charToInt
<1>3. CASE c \in 97..122
  BY <1>3 DEF Parsing!charToInt
<1>4. CASE c \notin 48..57 /\ c \notin 65..90 /\ c \notin 97..122
  BY <1>4 DEF Parsing!charToInt
<1> QED
  BY <1>1, <1>2, <1>3, <1>4

(* The values of the beginnings of a text of digits. *)
Values(s, base) ==
  CHOOSE sum : sum = [i \in 0..Len(s) |->
    IF i = 0 THEN 0 ELSE sum[i - 1] * base + Parsing!charToInt(s[i], base)]

LEMMA ValuesAre ==
  ASSUME NEW s \in Texts, NEW base \in Nat
  PROVE  /\ Parsing!Value(s, base) = Values(s, base)[Len(s)]
         /\ Values(s, base)[0] = 0
         /\ \A i \in 1..Len(s) :
              Values(s, base)[i] = Values(s, base)[i - 1] * base + Digit(s, i, base)
         /\ \A i \in 0..Len(s) : Values(s, base)[i] \in Int
<1> DEFINE n == Len(s)
           step == [i \in 1..n |-> [v \in Int |-> v * base + Digit(s, i, base)]]
<1>1. n \in Nat /\ \A i \in 1..n : s[i] \in Nat
  BY DEF Texts
<1>2. \A i \in 1..n : Digit(s, i, base) \in Int
  BY <1>1, DigitIs DEF Digit
<1>3. step \in [1..n -> [Int -> Int]]
  <2>1. \A i \in 1..n, v \in Int : v * base + Digit(s, i, base) \in Int
    BY <1>2
  <2> QED
    BY <2>1
<1>4. \A v \in Int, i \in 1..n : step[i][v] = v * base + Digit(s, i, base)
  OBVIOUS
<1> HIDE DEF step
<1>0. 0 \in Int /\ n \in Nat
  BY <1>1
<1> HIDE DEF n
<1>5. PICK f \in [0..n -> Int] : Loop(f, 0, n, step)
  <2> DEFINE Z == Int
             z == 0
  <2>1. z \in Z /\ n \in Nat /\ step \in [1..n -> [Z -> Z]]
    BY <1>0, <1>3
  <2> HIDE DEF Z, z
  <2>2. \E f \in [0..n -> Z] : Loop(f, z, n, step)
    BY ONLY <2>1, LoopRuns
  <2> QED
    BY <2>2 DEF Z, z
<1>6. \A i \in 1..n : i - 1 \in 0..n /\ f[i - 1] \in Int
  BY <1>0
<1>7. \A i \in 1..n : f[i] = f[i - 1] * base + Digit(s, i, base)
  BY <1>4, <1>5, <1>6 DEF Loop
<1>8. f = [i \in 0..n |-> IF i = 0 THEN 0 ELSE f[i - 1] * base + Digit(s, i, base)]
  <2> DEFINE g == [i \in 0..n |-> IF i = 0 THEN 0 ELSE f[i - 1] * base + Digit(s, i, base)]
  <2>1. ASSUME NEW i \in 0..n PROVE f[i] = g[i]
    <3>1. i # 0 => i \in 1..n
      OBVIOUS
    <3> QED
      BY <1>5, <1>7, <3>1 DEF Loop
  <2> QED
    BY <2>1
<1> DEFINE w == Values(s, base)
<1>9. w = [i \in 0..n |-> IF i = 0 THEN 0 ELSE w[i - 1] * base + Digit(s, i, base)]
  BY <1>8 DEF Values, Digit, n
<1>10. Parsing!Value(s, base) = w[n]
  BY DEF Parsing!Value, Values, n
<1> HIDE DEF w
<1>11. w[0] = 0 /\ \A i \in 1..n : w[i] = w[i - 1] * base + Digit(s, i, base)
  <2>1. 0 \in 0..n /\ \A i \in 1..n : i \in 0..n /\ i # 0
    BY <1>0
  <2> QED
    BY <1>9, <2>1
<1> DEFINE G == {i \in 0..n : w[i] \in Int}
<1>12. \A i \in 0..n : i \in G
  <2>1. G \in SUBSET (0..n) /\ 0 \in G
    BY <1>1, <1>11
  <2>2. ASSUME NEW i \in 1..n, i - 1 \in G PROVE i \in G
    BY <1>2, <1>11, <2>2
  <2> HIDE DEF G
  <2> QED
    BY <1>1, <2>1, <2>2, Upwards
<1> QED
  BY <1>10, <1>11, <1>12 DEF w, n

(* Multiplication keeps an order. *)
LEMMA Times ==
  ASSUME NEW a \in Int, NEW b \in Int, NEW c \in Nat, a <= b
  PROVE  a * c <= b * c
OBVIOUS

(* A number only grows with its digits. *)
LEMMA ValuesGrow ==
  ASSUME NEW s \in Texts, NEW base \in Nat, base >= 2, Parsing!AreDigits(s, base)
  PROVE  \A i \in 0..Len(s) : /\ Values(s, base)[i] \in Nat
                              /\ Values(s, base)[i] <= Parsing!Value(s, base)
<1> DEFINE n == Len(s)
           w == Values(s, base)
           d(i) == Digit(s, i, base)
<1>1. n \in Nat /\ \A i \in 1..n : s[i] \in Nat
  BY DEF Texts
<1>2. \A i \in 1..n : d(i) \in Nat
  <2> TAKE i \in 1..n
  <2>1. d(i) \in Int /\ d(i) \in -1..(base - 1)
    BY <1>1, DigitIs DEF Digit
  <2>2. d(i) # -1
    BY DEF Parsing!AreDigits, Digit
  <2> QED
    BY <2>1, <2>2
<1>3. /\ Parsing!Value(s, base) = w[n] /\ w[0] = 0
      /\ \A i \in 1..n : w[i] = w[i - 1] * base + d(i)
      /\ \A i \in 0..n : w[i] \in Int
  BY ValuesAre
<1> HIDE DEF w, d
<1>4. ASSUME NEW i \in 1..n, w[i - 1] \in Nat PROVE w[i] \in Nat /\ w[i - 1] <= w[i]
  <2>1. w[i - 1] * 2 <= w[i - 1] * base
    <3>1. 2 * w[i - 1] <= base * w[i - 1]
      BY <1>4, Times
    <3> QED
      BY <1>4, <3>1
  <2>2. w[i] = w[i - 1] * base + d(i) /\ w[i - 1] * base \in Int
    BY <1>3, <1>4
  <2> HIDE DEF n
  <2> QED
    BY <1>2, <1>4, <2>1, <2>2
<1>5. \A i \in 0..n : w[i] \in Nat
  <2> DEFINE G == {i \in 0..n : w[i] \in Nat}
  <2>1. G \in SUBSET (0..n) /\ 0 \in G
    BY <1>1, <1>3
  <2>2. ASSUME NEW i \in 1..n, i - 1 \in G PROVE i \in G
    BY <1>4, <2>2
  <2>3. \A i \in 0..n : i \in G
    <3> HIDE DEF G
    <3> QED
      BY <1>1, <2>1, <2>2, Upwards
  <2> QED
    BY <2>3
<1>6. \A i \in 0..n : w[n - i] <= w[n]
  <2> DEFINE G == {i \in 0..n : w[n - i] <= w[n]}
  <2>1. G \in SUBSET (0..n) /\ 0 \in G
    BY <1>1, <1>3
  <2>2. ASSUME NEW i \in 1..n, i - 1 \in G PROVE i \in G
    <3>1. n - i + 1 \in 1..n /\ (n - i + 1) - 1 = n - i /\ n - (i - 1) = n - i + 1
      BY <1>1
    <3>2. w[n - i] \in Nat /\ w[n - i + 1] \in Nat /\ w[n] \in Nat
      BY <1>1, <1>5, <3>1
    <3>3. w[n - i] <= w[n - i + 1]
      BY <1>4, <3>1, <3>2
    <3>4. w[n - i + 1] <= w[n]
      BY <2>2, <3>1
    <3> QED
      BY <3>2, <3>3, <3>4
  <2>3. \A i \in 0..n : i \in G
    <3> HIDE DEF G
    <3> QED
      BY <1>1, <2>1, <2>2, Upwards
  <2> QED
    BY <2>3
<1>7. \A i \in 0..n : w[i] <= w[n]
  <2> TAKE i \in 0..n
  <2>1. n - i \in 0..n /\ n - (n - i) = i
    BY <1>1
  <2> QED
    BY <1>6, <2>1
<1> QED
  BY <1>3, <1>5, <1>7 DEF w

Kinds == {"number", "not a number", "overflow"}
Outcomes == Kinds \X Int

LEMMA OutcomesAre ==
  /\ \A v \in Int : /\ Parsing!Num(v) \in Outcomes
                    /\ Parsing!Num(v)[1] = "number" /\ Parsing!Num(v)[2] = v
  /\ \A k \in Kinds : Parsing!Error(k) \in Outcomes /\ Parsing!Error(k)[1] = k
  /\ \A x \in Outcomes : x[1] \in Kinds /\ x[2] \in Int
  /\ "overflow" \in Kinds /\ "overflow" # "number"
  /\ "not a number" \in Kinds /\ "not a number" # "number"
<1>1. /\ "number" \in Kinds /\ "overflow" \in Kinds /\ "not a number" \in Kinds
      /\ "overflow" # "number" /\ "not a number" # "number"
  BY DEF Kinds
<1>2. 0 \in Int
  OBVIOUS
<1> QED
  BY <1>1, <1>2 DEF Outcomes, Parsing!Num, Parsing!Error

(***************************************************************************)
(* The loop with its tests of every product and sum stops at the right     *)
(* digit: the number only moves away from 0, so that no later digit could  *)
(* bring it back between the limits.                                       *)
(***************************************************************************)
LEMMA AccumulateIs ==
  ASSUME NEW s \in Texts, NEW base \in Nat, base >= 2, NEW sign \in {-1, 1},
         NEW low \in Int, NEW high \in Int, low <= 0, 0 <= high
  PROVE  Parsing!Is(Parsing!Accumulate(s, base, sign, low, high),
                    Parsing!AreDigits(s, base), sign * Parsing!Value(s, base), low, high)
<1> DEFINE n == Len(s)
           w == Values(s, base)
           d(i) == Digit(s, i, base)
           After(x, i) ==
             LET product == x[2] * base
             IN  IF x[1] # "number" THEN x
                 ELSE IF d(i) = -1 THEN Parsing!Error("not a number")
                 ELSE IF product \notin low..high \/ product + sign * d(i) \notin low..high
                   THEN Parsing!Error("overflow")
                 ELSE Parsing!Num(product + sign * d(i))
           step == [i \in 1..n |-> [x \in Outcomes |-> After(x, i)]]
           zero == Parsing!Num(0)
<1>1. n \in Nat /\ \A i \in 1..n : s[i] \in Nat
  BY DEF Texts
<1>2. \A i \in 1..n : d(i) \in Int /\ d(i) \in -1..(base - 1)
  BY <1>1, DigitIs DEF Digit
<1>3. /\ Parsing!Value(s, base) = w[n] /\ w[0] = 0
      /\ \A i \in 1..n : w[i] = w[i - 1] * base + d(i)
      /\ \A i \in 0..n : w[i] \in Int
  BY ValuesAre
<1>4. Parsing!AreDigits(s, base) <=> \A i \in 1..n : d(i) # -1
  BY DEF Parsing!AreDigits, Digit
<1> HIDE DEF w, d
<1>5. zero \in Outcomes
  BY 0 \in Int, OutcomesAre
<1>6. ASSUME NEW i \in 1..n, NEW x \in Outcomes PROVE After(x, i) \in Outcomes
  <2>0. x[2] \in Int
    BY OutcomesAre
  <2>1. x[2] \in Int /\ d(i) \in Int /\ sign \in Int
    BY <1>2, <2>0
  <2>2. x[2] * base \in Int /\ sign * d(i) \in Int
    BY <2>1
  <2>3. x[2] * base + sign * d(i) \in Int
    BY <2>2
  <2> QED
    BY <2>3, OutcomesAre
<1> HIDE DEF After, n
<1>7. step \in [1..n -> [Outcomes -> Outcomes]]
  BY <1>6
<1>8. \A i \in 1..n, x \in Outcomes : step[i][x] = After(x, i)
  OBVIOUS
<1> HIDE DEF step, zero
<1>9. PICK f \in [0..n -> Outcomes] : Loop(f, zero, n, step)
  BY ONLY <1>1, <1>5, <1>7, LoopRuns
<1>10. \A i \in 1..n : i - 1 \in 0..n /\ i \in 0..n /\ f[i - 1] \in Outcomes /\ i # 0
  BY <1>1
<1>11. f[0] = zero /\ \A i \in 1..n : f[i] = After(f[i - 1], i)
  BY <1>8, <1>9, <1>10 DEF Loop
<1> DEFINE Body(g, i) == IF i = 0 THEN zero ELSE After(g[i - 1], i)
           sum == CHOOSE g : g = [i \in 0..n |-> Body(g, i)]
<1>12. sum = [i \in 0..n |-> Body(sum, i)]
  <2>1. f = [i \in 0..n |-> Body(f, i)]
    <3>1. ASSUME NEW i \in 0..n PROVE f[i] = Body(f, i)
      <4>1. i # 0 => i \in 1..n
        BY <1>1
      <4> QED
        BY <1>11, <4>1
    <3> HIDE DEF Body
    <3> QED
      BY <3>1
  <2> HIDE DEF Body
  <2> QED
    BY <2>1
<1>13. Parsing!Accumulate(s, base, sign, low, high) = sum[n]
  BY DEF Parsing!Accumulate, After, zero, d, Digit, n
<1> HIDE DEF sum
<1>14. sum[0] = zero /\ \A i \in 1..n : sum[i] = After(sum[i - 1], i)
  <2>1. 0 \in 0..n
    BY <1>1
  <2> QED
    BY <1>10, <1>12, <2>1
<1> DEFINE Good(i) == \A j \in 1..i : d(j) # -1 /\ sign * w[j] \in low..high
           Right(i) == /\ sum[i] \in Outcomes
                       /\ Good(i) => sum[i] = Parsing!Num(sign * w[i]) /\ w[i] \in Nat
                       /\ ~Good(i) => sum[i][1] # "number"
           G == {i \in 0..n : Right(i)}
<1>15. Right(0)
  <2>1. Good(0) /\ sign * w[0] = 0
    BY <1>3
  <2> HIDE DEF Good
  <2> QED
    BY <1>3, <1>5, <1>14, <2>1 DEF zero
<1>16. ASSUME NEW i \in 1..n, Right(i - 1) PROVE Right(i)
  <2>1. /\ Good(i) <=> Good(i - 1) /\ d(i) # -1 /\ sign * w[i] \in low..high
    OBVIOUS
  <2> DEFINE x == sum[i - 1]
             product == x[2] * base
  <2>2. x \in Outcomes /\ sum[i] = After(x, i)
    BY <1>14, <1>16
  <2>3. sum[i] \in Outcomes
    BY <1>6, <2>2
  <2>4. CASE ~Good(i - 1)
    BY <1>16, <2>1, <2>2, <2>3, <2>4 DEF After
  <2>5. CASE Good(i - 1)
    <3>1. x = Parsing!Num(sign * w[i - 1]) /\ w[i - 1] \in Nat
      BY <1>16, <2>5
    <3> HIDE DEF Good, x
    <3>2. x[1] = "number" /\ x[2] = sign * w[i - 1]
      BY <3>1 DEF Parsing!Num
    <3>3. CASE d(i) = -1
      BY <2>1, <2>2, <2>3, <3>2, <3>3, OutcomesAre DEF After
    <3>4. CASE d(i) # -1
      <4> DEFINE a == w[i - 1] * base
      <4>1. a \in Nat /\ d(i) \in Nat /\ w[i] = a + d(i)
        BY <1>2, <1>3, <3>1, <3>4
      <4>2. product = sign * a
        <5>1. CASE sign = 1
          BY <3>1, <3>2, <5>1
        <5>2. CASE sign = -1
          BY <3>1, <3>2, <5>2
        <5> QED
          BY <5>1, <5>2
      <4> HIDE DEF a
      <4>3. w[i] \in Nat /\ product + sign * d(i) = sign * w[i]
        <5>1. CASE sign = 1
          BY <4>1, <4>2, <5>1
        <5>2. CASE sign = -1
          BY <4>1, <4>2, <5>2
        <5> QED
          BY <4>1, <5>1, <5>2
      <4>4. sign * w[i] \in low..high => product \in low..high
        <5>1. CASE sign = 1
          BY <4>1, <4>2, <5>1
        <5>2. CASE sign = -1
          BY <4>1, <4>2, <5>2
        <5> QED
          BY <5>1, <5>2
      <4> HIDE DEF product
      <4>5. sum[i] = IF sign * w[i] \in low..high THEN Parsing!Num(sign * w[i])
                                                  ELSE Parsing!Error("overflow")
        BY <2>2, <3>2, <3>4, <4>3, <4>4 DEF After, product
      <4> QED
        BY <2>1, <2>3, <2>5, <3>4, <4>3, <4>5 DEF Parsing!Error
    <3> QED
      BY <3>3, <3>4
  <2> HIDE DEF Right
  <2> QED
    BY <2>4, <2>5
<1>17. Right(n)
  <2>1. G \in SUBSET (0..n)
    OBVIOUS
  <2> HIDE DEF Right
  <2>2. 0 \in G
    BY <1>1, <1>15
  <2>3. \A i \in 1..n : i - 1 \in G => i \in G
    BY <1>1, <1>16
  <2> HIDE DEF G
  <2>4. \A i \in 0..n : i \in G
    BY <1>1, <2>1, <2>2, <2>3, Upwards
  <2> QED
    BY <1>1, <2>4 DEF G
<1>18. Good(n) <=> Parsing!AreDigits(s, base) /\ sign * w[n] \in low..high
  <2>1. ASSUME Good(n) PROVE Parsing!AreDigits(s, base) /\ sign * w[n] \in low..high
    <3>1. CASE n = 0
      BY <1>3, <1>4, <3>1
    <3>2. CASE n # 0
      <4>1. n \in 1..n
        BY <1>1, <3>2
      <4> QED
        BY <1>4, <2>1, <4>1
    <3> QED
      BY <3>1, <3>2
  <2>2. ASSUME Parsing!AreDigits(s, base), sign * w[n] \in low..high PROVE Good(n)
    <3> SUFFICES ASSUME NEW j \in 1..n PROVE d(j) # -1 /\ sign * w[j] \in low..high
      OBVIOUS
    <3>1. d(j) # -1
      BY <1>4, <2>2
    <3>2. w[j] \in Nat /\ w[j] <= w[n] /\ w[n] \in Nat
      BY <1>1, <1>3, <1>10, <2>2, ValuesGrow DEF w, n
    <3>3. sign * w[j] \in low..high
      <4>1. CASE sign = 1
        BY <2>2, <3>2, <4>1
      <4>2. CASE sign = -1
        BY <2>2, <3>2, <4>2
      <4> QED
        BY <4>1, <4>2
    <3> QED
      BY <3>1, <3>3
  <2> QED
    BY <2>1, <2>2
<1> QED
  <2> HIDE DEF Good
  <2> QED
    BY <1>3, <1>13, <1>17, <1>18 DEF Parsing!Is

(***************************************************************************)
(* The loop in two halves: what the lower half cannot hold goes to the     *)
(* upper one, and the number is too large exactly if the upper half is.    *)
(***************************************************************************)
Lower(l, base, v) == l * base + v
Upper(u, lower, base, half) == u * base + lower \div half

LEMMA HalvesAre ==
  ASSUME NEW half \in Nat, half > 0, NEW u \in Nat, NEW l \in Nat, NEW base \in Nat,
         NEW v \in Nat, NEW w \in Nat, w = u * half + l
  PROVE  /\ Upper(u, Lower(l, base, v), base, half) \in Nat
         /\ Lower(l, base, v) % half \in Nat
         /\ Upper(u, Lower(l, base, v), base, half) * half + (Lower(l, base, v) % half)
              = w * base + v
         /\ Upper(u, Lower(l, base, v), base, half) >= half
              <=> w * base + v > half * half - 1
<1> DEFINE lower == Lower(l, base, v)
           upper == Upper(u, lower, base, half)
           q == lower \div half
           r == lower % half
<1>1. lower = l * base + v /\ lower \in Nat
  BY DEF Lower
<1> HIDE DEF lower
<1>2. q \in Nat /\ r \in Nat /\ r < half
  BY <1>1
<1>3. lower - r = half * q
  BY <1>1
<1> HIDE DEF q, r
<1>4. u * base \in Nat /\ upper = u * base + q /\ upper \in Nat
  BY <1>2 DEF q, Upper
<1> HIDE DEF upper
<1>5. upper * half = (u * base) * half + q * half
  BY <1>2, <1>4
<1>6. w * base = (u * half) * base + l * base
  OBVIOUS
<1>7. (u * base) * half = (u * half) * base /\ half * q = q * half
  BY <1>2
<1>8. (u * base) * half \in Nat /\ q * half \in Nat /\ l * base \in Nat /\ w * base \in Nat
  BY <1>2
<1>9. upper * half + r = w * base + v
  BY <1>1, <1>2, <1>3, <1>5, <1>6, <1>7, <1>8
<1>10. ASSUME upper >= half PROVE upper * half + r > half * half - 1
  <2>1. half * half <= upper * half
    BY <1>4, <1>10, Times
  <2> QED
    BY <1>2, <1>4, <2>1
<1>11. ASSUME ~(upper >= half) PROVE ~(upper * half + r > half * half - 1)
  <2>1. upper * half <= (half - 1) * half
    BY <1>4, <1>11, Times
  <2>2. (half - 1) * half = half * half - half
    OBVIOUS
  <2> QED
    BY <1>2, <1>4, <2>1, <2>2
<1>12. /\ upper \in Nat /\ r \in Nat
       /\ upper * half + r = w * base + v
       /\ upper >= half <=> w * base + v > half * half - 1
  BY <1>1, <1>2, <1>4, <1>9, <1>10, <1>11
<1> QED
  BY ONLY <1>12, Zenon DEF lower, upper, r

Halves == Kinds \X Int \X Int

LEMMA HalvesHave ==
  /\ \A k \in Kinds, a, b \in Int : /\ <<k, a, b>> \in Halves /\ <<k, a, b>>[1] = k
                                    /\ <<k, a, b>>[2] = a /\ <<k, a, b>>[3] = b
  /\ \A x \in Halves : x[1] \in Kinds /\ x[2] \in Int /\ x[3] \in Int
  /\ \A x : x = <<"not a number", 0, 0>> => x[1] = "not a number"
  /\ "overflow" \in Kinds /\ "overflow" # "number"
  /\ "not a number" \in Kinds /\ "not a number" # "number" /\ "number" \in Kinds
<1>1. \A x : x = <<"not a number", 0, 0>> => x[1] = "not a number"
  <2>1. <<"not a number", 0, 0>>[1] = "not a number"
    OBVIOUS
  <2> QED
    BY <2>1
<1> QED
  BY <1>1 DEF Halves, Kinds

LEMMA HalvesAccumulate ==
  ASSUME NEW t \in Texts, NEW base \in Nat, Parsing!ValidBase(base),
         NEW half \in Nat, half > 0, Parsing!Unsigned(t) \in Texts
  PROVE  Parsing!Is(Parsing!SlowUnsigned64(t, base, half),
                    Parsing!AreDigits(Parsing!Unsigned(t), base),
                    Parsing!Value(Parsing!Unsigned(t), base), 0, half * half - 1)
<1> DEFINE s == Parsing!Unsigned(t)
           n == Len(s)
           w == Values(s, base)
           d(i) == Digit(s, i, base)
           After(x, i) ==
             LET lower == x[3] * base + d(i)
                 upper == x[2] * base + lower \div half
             IN  IF x[1] # "number" THEN x
                 ELSE IF d(i) = -1 THEN <<"not a number", 0, 0>>
                 ELSE IF upper >= half THEN <<"overflow", 0, 0>>
                 ELSE <<"number", upper, lower % half>>
           step == [i \in 1..n |-> [x \in Halves |-> After(x, i)]]
           zero == <<"number", 0, 0>>
<1>0. base >= 2
  BY DEF Parsing!ValidBase
<1>1. n \in Nat /\ \A i \in 1..n : s[i] \in Nat
  BY DEF Texts
<1>2. \A i \in 1..n : d(i) \in Int /\ d(i) \in -1..(base - 1)
  BY <1>1, DigitIs DEF Digit
<1>3. /\ Parsing!Value(s, base) = w[n] /\ w[0] = 0
      /\ \A i \in 1..n : w[i] = w[i - 1] * base + d(i)
      /\ \A i \in 0..n : w[i] \in Int
  BY ValuesAre
<1>4. Parsing!AreDigits(s, base) <=> \A i \in 1..n : d(i) # -1
  BY DEF Parsing!AreDigits, Digit
<1> HIDE DEF w, d
<1>5. zero \in Halves
  BY 0 \in Int, HalvesHave
<1>6. ASSUME NEW i \in 1..n, NEW x \in Halves PROVE After(x, i) \in Halves
  <2> DEFINE lower == x[3] * base + d(i)
             upper == x[2] * base + lower \div half
  <2>1. x[2] \in Int /\ x[3] \in Int
    BY HalvesHave
  <2>2. d(i) \in Int
    BY <1>2
  <2>3. lower \in Int
    BY <2>1, <2>2
  <2> HIDE DEF lower
  <2>4. lower \div half \in Int /\ lower % half \in Int
    BY <2>3
  <2>5. upper \in Int
    BY <2>1, <2>4
  <2> HIDE DEF upper
  <2>6. After(x, i) = IF x[1] # "number" THEN x
                      ELSE IF d(i) = -1 THEN <<"not a number", 0, 0>>
                      ELSE IF upper >= half THEN <<"overflow", 0, 0>>
                      ELSE <<"number", upper, lower % half>>
    BY DEF lower, upper
  <2> HIDE DEF After
  <2>7. <<"not a number", 0, 0>> \in Halves /\ <<"overflow", 0, 0>> \in Halves
    BY 0 \in Int, HalvesHave
  <2>8. <<"number", upper, lower % half>> \in Halves
    BY <2>4, <2>5, HalvesHave
  <2> QED
    BY <2>6, <2>7, <2>8
<1> HIDE DEF After, n
<1>7. step \in [1..n -> [Halves -> Halves]]
  BY <1>6
<1>8. \A i \in 1..n, x \in Halves : step[i][x] = After(x, i)
  OBVIOUS
<1> HIDE DEF step, zero
<1>9. PICK f \in [0..n -> Halves] : Loop(f, zero, n, step)
  BY ONLY <1>1, <1>5, <1>7, LoopRuns
<1>10. \A i \in 1..n : i - 1 \in 0..n /\ i \in 0..n /\ f[i - 1] \in Halves /\ i # 0
  BY <1>1
<1>11. f[0] = zero /\ \A i \in 1..n : f[i] = After(f[i - 1], i)
  BY <1>8, <1>9, <1>10 DEF Loop
<1> DEFINE Body(g, i) == IF i = 0 THEN zero ELSE After(g[i - 1], i)
           sum == CHOOSE g : g = [i \in 0..n |-> Body(g, i)]
<1>12. sum = [i \in 0..n |-> Body(sum, i)]
  <2>1. f = [i \in 0..n |-> Body(f, i)]
    <3>1. ASSUME NEW i \in 0..n PROVE f[i] = Body(f, i)
      <4>1. i # 0 => i \in 1..n
        BY <1>1
      <4> QED
        BY <1>11, <4>1
    <3> HIDE DEF Body
    <3> QED
      BY <3>1
  <2> HIDE DEF Body
  <2> QED
    BY <2>1
<1>13. Parsing!SlowUnsigned64(t, base, half) = <<sum[n][1], sum[n][2] * half + sum[n][3]>>
  BY DEF Parsing!SlowUnsigned64, After, zero, d, Digit, n
<1> HIDE DEF sum
<1>14. sum[0] = zero /\ \A i \in 1..n : sum[i] = After(sum[i - 1], i)
  <2>1. 0 \in 0..n
    BY <1>1
  <2> QED
    BY <1>10, <1>12, <2>1
<1> DEFINE Below(v) == v <= half * half - 1
           Good(i) == \A j \in 1..i : d(j) # -1 /\ Below(w[j])
           Holds(x, v) == /\ x[1] = "number" /\ v \in Nat
                          /\ x[2] \in Nat /\ x[3] \in Nat /\ x[2] * half + x[3] = v
           Right(i) == /\ sum[i] \in Halves
                       /\ Good(i) => Holds(sum[i], w[i])
                       /\ ~Good(i) => sum[i][1] # "number"
           G == {i \in 0..n : Right(i)}
<1> HIDE DEF Below
<1>15. Right(0)
  <2>1. Good(0)
    OBVIOUS
  <2> HIDE DEF Good
  <2>2. zero[1] = "number" /\ zero[2] = 0 /\ zero[3] = 0
    BY DEF zero
  <2>3. Holds(zero, 0)
    BY <2>2
  <2> QED
    BY <1>3, <1>5, <1>14, <2>1, <2>3
<1>16. ASSUME NEW i \in 1..n, Right(i - 1) PROVE Right(i)
  <2>1. Good(i) <=> Good(i - 1) /\ d(i) # -1 /\ Below(w[i])
    OBVIOUS
  <2> DEFINE x == sum[i - 1]
             lower == x[3] * base + d(i)
             upper == x[2] * base + lower \div half
             rest == lower % half
  <2>2. x \in Halves /\ sum[i] = After(x, i)
    BY <1>14, <1>16
  <2>3. sum[i] \in Halves
    BY <1>6, <2>2
  <2>4. CASE ~Good(i - 1)
    BY <1>16, <2>1, <2>2, <2>3, <2>4 DEF After
  <2>5. CASE Good(i - 1)
    <3>1. Holds(x, w[i - 1])
      BY <1>16, <2>5
    <3> HIDE DEF Good, x
    <3>2. CASE d(i) = -1
      <4>0. sum[i] = <<"not a number", 0, 0>>
        BY <2>2, <3>1, <3>2 DEF After
      <4>1. sum[i][1] = "not a number"
        BY ONLY <4>0, HalvesHave, Zenon
      <4> QED
        BY <2>1, <2>3, <3>2, <4>1, HalvesHave
    <3>3. CASE d(i) # -1
      <4>1. /\ w[i - 1] \in Nat /\ x[2] \in Nat /\ x[3] \in Nat
            /\ w[i - 1] = x[2] * half + x[3]
        BY <3>1
      <4>2. d(i) \in Nat /\ w[i] = w[i - 1] * base + d(i)
        BY <1>2, <1>3, <3>3
      <4>3. w[i] \in Nat
        <5>1. w[i - 1] * base \in Nat
          BY <4>1
        <5> QED
          BY <4>2, <5>1
      <4>4. /\ upper \in Nat /\ rest \in Nat
            /\ upper * half + rest = w[i]
            /\ upper >= half <=> w[i] > half * half - 1
        <5> DEFINE u == x[2]
                   l == x[3]
                   v == d(i)
                   c == w[i - 1]
        <5>1. /\ u \in Nat /\ l \in Nat /\ v \in Nat /\ c \in Nat /\ c = u * half + l
              /\ half \in Nat /\ half > 0 /\ base \in Nat
          BY <4>1, <4>2
        <5> HIDE DEF u, l, v, c
        <5>2. /\ Upper(u, Lower(l, base, v), base, half) \in Nat
              /\ Lower(l, base, v) % half \in Nat
              /\ Upper(u, Lower(l, base, v), base, half) * half + (Lower(l, base, v) % half)
                   = c * base + v
              /\ Upper(u, Lower(l, base, v), base, half) >= half
                   <=> c * base + v > half * half - 1
          BY ONLY <5>1, HalvesAre
        <5>3. lower = Lower(l, base, v) /\ upper = Upper(u, Lower(l, base, v), base, half)
          BY DEF Lower, Upper, u, l, v
        <5>4. w[i] = c * base + v /\ rest = Lower(l, base, v) % half
          BY <4>2, <5>3 DEF c, v
        <5> HIDE DEF lower, upper, rest
        <5> QED
          BY ONLY <5>2, <5>3, <5>4, Zenon
      <4>5. sum[i] = IF upper >= half THEN <<"overflow", 0, 0>>
                                      ELSE <<"number", upper, rest>>
        BY <2>2, <3>1, <3>3 DEF After
      <4> HIDE DEF lower, upper, rest
      <4>6. Below(w[i]) <=> ~(upper >= half)
        BY <4>3, <4>4 DEF Below
      <4>7. CASE upper >= half
        <5>1. sum[i][1] = "overflow"
          BY <4>5, <4>7
        <5> QED
          BY <2>1, <2>3, <4>6, <4>7, <5>1, HalvesHave
      <4>8. CASE ~(upper >= half)
        <5>1. sum[i][1] = "number" /\ sum[i][2] = upper /\ sum[i][3] = rest
          BY <4>5, <4>8
        <5>2. Holds(sum[i], w[i])
          BY <4>3, <4>4, <5>1
        <5> HIDE DEF Holds
        <5> QED
          BY <2>1, <2>3, <2>5, <3>3, <4>6, <4>8, <5>2
      <4> QED
        BY <4>7, <4>8
    <3> QED
      BY <3>2, <3>3
  <2> HIDE DEF Right
  <2> QED
    BY <2>4, <2>5
<1>17. Right(n)
  <2>1. G \in SUBSET (0..n)
    OBVIOUS
  <2> HIDE DEF Right
  <2>2. 0 \in G
    BY <1>1, <1>15
  <2>3. \A i \in 1..n : i - 1 \in G => i \in G
    BY <1>1, <1>16
  <2> HIDE DEF G
  <2>4. \A i \in 0..n : i \in G
    BY <1>1, <2>1, <2>2, <2>3, Upwards
  <2> QED
    BY <1>1, <2>4 DEF G
<1>18. w[n] \in Int /\ half * half \in Int
  BY <1>1, <1>3
<1>19. Good(n) <=> Parsing!AreDigits(s, base) /\ w[n] \in 0..(half * half - 1)
  <2>1. ASSUME Good(n) PROVE Parsing!AreDigits(s, base) /\ w[n] \in 0..(half * half - 1)
    <3>1. w[n] \in Nat
      BY <1>17, <2>1
    <3>2. w[n] <= half * half - 1
      <4>1. CASE n = 0
        <5>1. 0 <= half * half - 1
          <6>1. 1 * half <= half * half
            BY Times
          <6> QED
            BY <6>1
        <5> QED
          BY <1>3, <4>1, <5>1
      <4>2. CASE n # 0
        <5>1. n \in 1..n
          BY <1>1, <4>2
        <5> QED
          BY <2>1, <5>1 DEF Below
      <4> QED
        BY <4>1, <4>2
    <3>3. Parsing!AreDigits(s, base)
      BY <1>4, <2>1
    <3> QED
      BY <1>18, <3>1, <3>2, <3>3
  <2>2. ASSUME Parsing!AreDigits(s, base), w[n] \in 0..(half * half - 1) PROVE Good(n)
    <3> SUFFICES ASSUME NEW j \in 1..n PROVE d(j) # -1 /\ Below(w[j])
      OBVIOUS
    <3>1. d(j) # -1
      BY <1>4, <2>2
    <3>2. w[j] \in Nat /\ w[j] <= w[n]
      BY <1>0, <1>1, <1>3, <1>10, <2>2, ValuesGrow DEF w, n
    <3>3. Below(w[j])
      BY <1>18, <2>2, <3>2 DEF Below
    <3> QED
      BY <3>1, <3>3
  <2> QED
    BY <2>1, <2>2
<1> QED
  <2> DEFINE r == Parsing!SlowUnsigned64(t, base, half)
  <2>1. r[1] = sum[n][1] /\ r[2] = sum[n][2] * half + sum[n][3]
    BY <1>13
  <2>2. r = <<sum[n][1], sum[n][2] * half + sum[n][3]>>
    BY <1>13
  <2> HIDE DEF Good, r
  <2>3. CASE Good(n)
    <3>1. r = Parsing!Num(w[n])
      BY <1>17, <2>2, <2>3 DEF Parsing!Num
    <3> QED
      BY <1>3, <1>19, <2>3, <3>1 DEF Parsing!Is, r
  <2>4. CASE ~Good(n)
    <3>1. r[1] # "number"
      BY <1>17, <2>1, <2>4
    <3> QED
      BY <1>3, <1>19, <2>4, <3>1 DEF Parsing!Is, r
  <2> QED
    BY <2>3, <2>4

LEMMA TextsOfSigns ==
  ASSUME NEW s \in Texts
  PROVE  /\ Parsing!Unsigned(s) \in Texts /\ Parsing!Absolute(s) \in Texts
         /\ Parsing!Sign(s) = (IF Parsing!Negative(s) THEN -1 ELSE 1)
         /\ ~Parsing!TwoSigns(s) =>
              Parsing!Unsigned(Parsing!Absolute(s)) = Parsing!Absolute(s)
<1>1. s # <<>> => Tail(s) \in Texts /\ Len(Tail(s)) # Len(s)
  BY DEF Texts
<1>2. Parsing!Unsigned(s) \in Texts /\ Parsing!Absolute(s) \in Texts
  BY <1>1 DEF Parsing!Unsigned, Parsing!Absolute, Parsing!Negative
<1>3. Parsing!Absolute(s) = s => Parsing!Unsigned(s) = s
  BY <1>1 DEF Parsing!Unsigned, Parsing!Absolute, Parsing!Negative
<1> QED
  BY <1>2, <1>3 DEF Parsing!Sign, Parsing!TwoSigns

(* What Is says of a number between two limits, in parts. *)
LEMMA IsSays ==
  ASSUME NEW r, NEW isNumber \in BOOLEAN, NEW v \in Int, NEW low \in Int, NEW high \in Int
  PROVE  Parsing!Is(r, isNumber, v, low, high) <=>
           /\ isNumber /\ low <= v /\ v <= high => r = Parsing!Num(v)
           /\ ~(isNumber /\ low <= v /\ v <= high) => r[1] # "number"
BY DEF Parsing!Is

LEMMA ErrorsAre ==
  /\ Parsing!Error("base")[1] # "number" /\ Parsing!Error("overflow")[1] # "number"
  /\ \A v : Parsing!Num(v)[1] = "number" /\ Parsing!Num(v)[2] = v
BY DEF Parsing!Error, Parsing!Num

(* AccumulateIs, for numbers that are not negative *)
LEMMA SumIs ==
  ASSUME NEW s \in Texts, NEW base \in Nat, base >= 2, NEW high \in Nat
  PROVE  Parsing!Is(Parsing!Accumulate(s, base, 1, 0, high),
                    Parsing!AreDigits(s, base), Parsing!Value(s, base), 0, high)
<1>1. Parsing!Value(s, base) \in Int
  <2>1. Len(s) \in 0..Len(s)
    BY DEF Texts
  <2> QED
    BY <2>1, ValuesAre
<1>2. Parsing!Is(Parsing!Accumulate(s, base, 1, 0, high),
                 Parsing!AreDigits(s, base), 1 * Parsing!Value(s, base), 0, high)
  <2>1. 1 \in {-1, 1} /\ 0 \in Int /\ high \in Int /\ 0 <= 0 /\ 0 <= high
    OBVIOUS
  <2> QED
    BY <2>1, AccumulateIs
<1>3. 1 * Parsing!Value(s, base) = Parsing!Value(s, base)
  BY <1>1
<1> QED
  BY <1>2, <1>3

(***************************************************************************)
(* An absolute value that was read up to high, and its sign: what the code *)
(* without overflow tests of the compiler makes of them.                   *)
(***************************************************************************)
LEMMA SignedIs ==
  ASSUME NEW r, NEW negative \in BOOLEAN, NEW isNumber \in BOOLEAN, NEW v \in Int,
         isNumber => v \in Nat, NEW limit \in Nat, NEW high \in Nat, limit <= high,
         limit > 0, Parsing!Is(r, isNumber, v, 0, high), NEW result,
         r[1] # "number" => result[1] # "number",
         r = Parsing!Num(v) =>
           result = IF v > limit \/ (v = limit /\ ~negative) THEN Parsing!Error("overflow")
                    ELSE Parsing!Num(IF negative THEN -v ELSE v)
  PROVE  Parsing!Is(result, isNumber, (IF negative THEN -1 ELSE 1) * v, -limit, limit - 1)
<1> DEFINE signed == (IF negative THEN -1 ELSE 1) * v
<1> SUFFICES Parsing!Is(result, isNumber, signed, -limit, limit - 1)
  OBVIOUS
<1>1. signed = IF negative THEN -v ELSE v
  OBVIOUS
<1> HIDE DEF signed
<1>2. /\ signed \in Int /\ -limit \in Int /\ limit - 1 \in Int
      /\ 0 \in Int /\ high \in Int
  BY <1>1
<1>3. /\ isNumber /\ 0 <= v /\ v <= high => r = Parsing!Num(v)
      /\ ~(isNumber /\ 0 <= v /\ v <= high) => r[1] # "number"
  BY <1>2, IsSays
<1>4. isNumber => (-limit <= signed /\ signed <= limit - 1
                    <=> ~(v > limit \/ (v = limit /\ ~negative)))
  BY <1>1
<1>5. CASE isNumber /\ 0 <= v /\ v <= high
  <2>1. r = Parsing!Num(v)
    BY <1>3, <1>5
  <2>2. CASE v > limit \/ (v = limit /\ ~negative)
    <3>1. result[1] # "number"
      BY <2>1, <2>2, ErrorsAre
    <3> QED
      BY <1>2, <1>4, <1>5, <2>2, <3>1, IsSays
  <2>3. CASE ~(v > limit \/ (v = limit /\ ~negative))
    <3>1. result = Parsing!Num(signed)
      BY <1>1, <2>1, <2>3
    <3>2. signed \in -limit..(limit - 1)
      BY <1>2, <1>4, <1>5, <2>3
    <3> HIDE DEF signed
    <3> QED
      BY ONLY <1>5, <3>1, <3>2, Zenon DEF Parsing!Is
  <2> QED
    BY <2>2, <2>3
<1>6. CASE ~(isNumber /\ 0 <= v /\ v <= high)
  <2>1. result[1] # "number"
    BY <1>3, <1>6
  <2>2. ~(isNumber /\ -limit <= signed /\ signed <= limit - 1)
    BY <1>1, <1>6
  <2> QED
    BY <1>2, <2>1, <2>2, IsSays
<1> QED
  BY <1>5, <1>6

(***************************************************************************)
(* Integers are read exactly, from texts of any length, to any base and    *)
(* for types of any size that are cut in two equal halves: each of the six *)
(* functions of Parsing.cpp gives the number that the digits say if it is  *)
(* between the limits of the type, and an exception if it is not, or if    *)
(* there is a character that is no digit.                                  *)
(***************************************************************************)
THEOREM IntegersAreExact ==
  ASSUME NEW s \in Seq(Nat), NEW base \in Nat, NEW h \in Nat, h > 0
  PROVE  Parsing!IntegersAreRead(s, base, 2 * h)
<1> DEFINE half == 2 * h
           limit == (half * half) \div 2
           abs == Parsing!Absolute(s)
           plain == Parsing!Unsigned(s)
           sign == Parsing!Sign(s)
           v == Parsing!Value(abs, base)
           u == Parsing!Value(plain, base)
           valid == Parsing!ValidBase(base)
           isSigned == valid /\ Parsing!AreDigits(abs, base)
           isPlain == valid /\ Parsing!AreDigits(plain, base)
           Signed(r) == Parsing!Is(r, isSigned, sign * v, -limit, limit - 1)
           Plain(r) == Parsing!Is(r, isPlain, u, 0, half * half - 1)
<1>1. half \in Nat /\ half > 0 /\ half * half \in Nat /\ limit \in Nat /\ limit > 0
      /\ limit + limit = half * half
  <2> DEFINE m == 2 * (h * h)
  <2>1. half * half = 2 * m /\ m \in Nat
    OBVIOUS
  <2>2. 1 * h <= h * h
    BY Times
  <2>3. m > 0 /\ half \in Nat /\ half > 0 /\ half * half \in Nat
    BY <2>2
  <2> HIDE DEF m, half
  <2>4. limit = m
    BY <2>1
  <2> QED
    BY <2>1, <2>3, <2>4
<1>2. s \in Texts /\ abs \in Texts /\ plain \in Texts
  BY TextsOfSigns DEF Texts
<1>3. sign = (IF Parsing!Negative(s) THEN -1 ELSE 1) /\ sign \in {-1, 1}
  BY <1>2, TextsOfSigns
<1>4. v \in Int /\ u \in Int
  <2>1. Len(abs) \in 0..Len(abs) /\ Len(plain) \in 0..Len(plain)
    BY <1>2 DEF Texts
  <2> QED
    BY <1>2, <2>1, ValuesAre
<1>5. valid => base >= 2
  BY DEF Parsing!ValidBase
<1>6. isSigned => v \in Nat
  <2>1. Len(abs) \in 0..Len(abs) /\ v = Values(abs, base)[Len(abs)]
    BY <1>2, ValuesAre DEF Texts
  <2> QED
    BY <1>2, <1>5, <2>1, ValuesGrow
<1>7. isSigned \in BOOLEAN /\ isPlain \in BOOLEAN /\ Parsing!Negative(s) \in BOOLEAN
  BY DEF Parsing!ValidBase, Parsing!AreDigits, Parsing!Negative
<1>8. valid \in BOOLEAN
  BY DEF Parsing!ValidBase
<1> HIDE DEF half, limit, abs, plain, sign, v, u, valid
<1>9. /\ sign * v \in Int /\ -limit \in Int /\ limit - 1 \in Int /\ limit - 1 \in Nat
      /\ 0 \in Int /\ half * half - 1 \in Int /\ half * half - 1 \in Nat
      /\ limit <= half * half - 1 /\ -limit <= 0 /\ 0 <= limit - 1
  <2>1. limit > 0 => half * half > 0
    BY <1>1
  <2> QED
    BY <1>1, <1>3, <1>4, <2>1
<1>10. ASSUME NEW r, ~valid, r[1] # "number" PROVE Signed(r) /\ Plain(r)
  BY <1>4, <1>7, <1>9, <1>10, IsSays
<1>11. Signed(Parsing!FastSigned(s, base, limit))
  <2>1. CASE valid
    <3>1. Parsing!Is(Parsing!Accumulate(abs, base, sign, -limit, limit - 1),
                     Parsing!AreDigits(abs, base), sign * v, -limit, limit - 1)
      BY <1>2, <1>3, <1>5, <1>9, <2>1, AccumulateIs DEF v
    <3>2. Parsing!FastSigned(s, base, limit)
            = Parsing!Accumulate(abs, base, sign, -limit, limit - 1)
      BY <2>1 DEF Parsing!FastSigned, valid, abs, sign
    <3> QED
      BY <2>1, <3>1, <3>2 DEF Parsing!Is
  <2>2. CASE ~valid
    <3>1. Parsing!FastSigned(s, base, limit) = Parsing!Error("base")
      BY <2>2 DEF Parsing!FastSigned, valid
    <3> QED
      BY <1>10, <2>2, <3>1, ErrorsAre
  <2> QED
    BY <2>1, <2>2
<1>12. ASSUME NEW r, valid => r = Parsing!Accumulate(plain, base, 1, 0, half * half - 1),
              ~valid => r[1] # "number"
       PROVE  Plain(r)
  <2>1. CASE valid
    <3>1. Parsing!Is(Parsing!Accumulate(plain, base, 1, 0, half * half - 1),
                     Parsing!AreDigits(plain, base), u, 0, half * half - 1)
      BY <1>2, <1>5, <1>9, <2>1, SumIs DEF u
    <3> QED
      BY <1>12, <2>1, <3>1 DEF Parsing!Is
  <2>2. CASE ~valid
    BY <1>10, <1>12, <2>2
  <2> QED
    BY <2>1, <2>2
<1>13. Plain(Parsing!FastUnsigned(s, base, half * half))
  <2>1. valid => Parsing!FastUnsigned(s, base, half * half)
                   = Parsing!Accumulate(plain, base, 1, 0, half * half - 1)
    BY DEF Parsing!FastUnsigned, valid, plain
  <2>2. ~valid => Parsing!FastUnsigned(s, base, half * half)[1] # "number"
    BY ErrorsAre DEF Parsing!FastUnsigned, valid
  <2> QED
    BY ONLY <1>12, <2>1, <2>2
<1>14. Plain(Parsing!SlowUnsigned(s, base, half * half))
  <2>1. valid => Parsing!SlowUnsigned(s, base, half * half)
                   = Parsing!Accumulate(plain, base, 1, 0, half * half - 1)
    BY DEF Parsing!SlowUnsigned, Parsing!WideSum, valid, plain
  <2>2. ~valid => Parsing!SlowUnsigned(s, base, half * half)[1] # "number"
    BY ErrorsAre DEF Parsing!SlowUnsigned, valid
  <2> QED
    BY ONLY <1>12, <2>1, <2>2
<1>15. ASSUME s # <<>> PROVE Signed(Parsing!SlowSigned(s, base, limit))
  <2> DEFINE r == Parsing!Accumulate(abs, base, 1, 0, limit)
             result == Parsing!SlowSigned(s, base, limit)
  <2>1. CASE valid
    <3>0. Parsing!Is(r, Parsing!AreDigits(abs, base), v, 0, limit)
      BY <1>1, <1>2, <1>5, <2>1, SumIs DEF v
    <3> HIDE DEF r
    <3>1. Parsing!Is(r, isSigned, v, 0, limit)
      BY <2>1, <3>0 DEF Parsing!Is
    <3>2. result = IF r[1] # "number" THEN r
                   ELSE IF Parsing!Negative(s) THEN Parsing!Num(-r[2])
                   ELSE IF r[2] = limit THEN Parsing!Error("overflow") ELSE r
      BY <1>15, <2>1 DEF Parsing!SlowSigned, Parsing!WideSum, valid, abs, r
    <3> HIDE DEF r, result
    <3>3. r[1] # "number" => result[1] # "number"
      BY <3>2
    <3>4. ASSUME r = Parsing!Num(v)
          PROVE  result = IF v > limit \/ (v = limit /\ ~Parsing!Negative(s))
                            THEN Parsing!Error("overflow")
                          ELSE Parsing!Num(IF Parsing!Negative(s) THEN -v ELSE v)
      <4>1. r[1] = "number" /\ r[2] = v
        BY <3>4, ErrorsAre
      <4>2. v <= limit
        BY <1>1, <1>4, <3>1, <4>1 DEF Parsing!Is
      <4>3. ~(v > limit)
        BY <1>1, <1>4, <4>2
      <4> QED
        BY <3>2, <3>4, <4>1, <4>3
    <3>5. limit <= limit
      BY <1>1
    <3>6. Parsing!Is(result, isSigned, (IF Parsing!Negative(s) THEN -1 ELSE 1) * v,
                     -limit, limit - 1)
      BY ONLY <1>1, <1>4, <1>6, <1>7, <3>1, <3>3, <3>4, <3>5, SignedIs, Zenon
    <3> QED
      BY <1>3, <3>6 DEF result
  <2>2. CASE ~valid
    <3>1. result = Parsing!Error("base")
      BY <1>15, <2>2 DEF Parsing!SlowSigned, valid
    <3> QED
      BY <1>10, <2>2, <3>1, ErrorsAre
  <2> QED
    BY <2>1, <2>2
<1>16. Plain(Parsing!SlowUnsigned64(s, base, half))
  <2>1. CASE valid
    <3>1. Parsing!Is(Parsing!SlowUnsigned64(s, base, half),
                     Parsing!AreDigits(plain, base), u, 0, half * half - 1)
      BY <1>1, <1>2, <2>1, HalvesAccumulate DEF u, plain, valid
    <3> QED
      BY <2>1, <3>1 DEF Parsing!Is
  <2>2. CASE ~valid
    <3>1. Parsing!SlowUnsigned64(s, base, half) = Parsing!Error("base")
      BY <2>2 DEF Parsing!SlowUnsigned64, valid
    <3> QED
      BY <1>10, <2>2, <3>1, ErrorsAre
  <2> QED
    BY <2>1, <2>2
<1>17. ASSUME s # <<>>, ~Parsing!TwoSigns(s)
       PROVE  Signed(Parsing!SlowSigned64(s, base, half))
  <2> DEFINE r == Parsing!SlowUnsigned64(abs, base, half)
             result == Parsing!SlowSigned64(s, base, half)
  <2>1. result = IF r[1] # "number" THEN r
                 ELSE IF r[2] > limit \/ (r[2] = limit /\ ~Parsing!Negative(s))
                   THEN Parsing!Error("overflow")
                 ELSE Parsing!Num(IF Parsing!Negative(s) THEN -r[2] ELSE r[2])
    BY <1>17 DEF Parsing!SlowSigned64, limit, abs
  <2>2. CASE valid
    <3>1. Parsing!Unsigned(abs) = abs
      BY <1>2, <1>17, TextsOfSigns DEF abs
    <3>2. Parsing!Is(r, Parsing!AreDigits(Parsing!Unsigned(abs), base),
                     Parsing!Value(Parsing!Unsigned(abs), base), 0, half * half - 1)
      BY <1>1, <1>2, <2>2, <3>1, HalvesAccumulate DEF valid
    <3> HIDE DEF r, result
    <3>3. Parsing!Is(r, isSigned, v, 0, half * half - 1)
      BY <2>2, <3>1, <3>2 DEF v, Parsing!Is
    <3>4. r[1] # "number" => result[1] # "number"
      BY <2>1
    <3>5. r = Parsing!Num(v) =>
            result = IF v > limit \/ (v = limit /\ ~Parsing!Negative(s))
                       THEN Parsing!Error("overflow")
                     ELSE Parsing!Num(IF Parsing!Negative(s) THEN -v ELSE v)
      BY <2>1, ErrorsAre
    <3>6. Parsing!Is(result, isSigned, (IF Parsing!Negative(s) THEN -1 ELSE 1) * v,
                     -limit, limit - 1)
      BY ONLY <1>1, <1>4, <1>6, <1>7, <1>9, <3>3, <3>4, <3>5, SignedIs, Zenon
    <3> QED
      BY <1>3, <3>6 DEF result
  <2>3. CASE ~valid
    <3>1. r = Parsing!Error("base")
      BY <2>3 DEF Parsing!SlowUnsigned64, valid
    <3> HIDE DEF r, result
    <3>2. result[1] # "number"
      BY <2>1, <3>1, ErrorsAre
    <3> QED
      BY <1>10, <2>3, <3>2 DEF result
  <2> QED
    BY <2>2, <2>3
<1> QED
  BY <1>11, <1>13, <1>14, <1>15, <1>16, <1>17
  DEF Parsing!IntegersAreRead, half, limit, abs, plain, sign, v, u, valid

-----------------------------------------------------------------------------
(* URLs *)

(* f[i] is what a loop that goes on from i finds; it ends behind n with z. *)
Backward(f, z, n, step, next) ==
  \A i \in Nat : f[i] = IF i \in 1..n THEN step[i][f[next[i]]] ELSE z

LEMMA BackwardRuns ==
  ASSUME NEW S, NEW z \in S, NEW n \in Nat, NEW step \in [1..n -> [S -> S]],
         NEW next \in [1..n -> Nat], \A i \in 1..n : next[i] > i
  PROVE  \E f \in [Nat -> S] : Backward(f, z, n, step, next)
<1> DEFINE Value(f, i) == IF i \in 1..n THEN step[i][f[next[i]]] ELSE z
           From(f, m) == \A i \in Nat : i > n - m => f[i] = Value(f, i)
           G == {m \in 0..n : \E f \in [Nat -> S] : From(f, m)}
<1>1. 0 \in G
  <2>1. [i \in Nat |-> z] \in [Nat -> S] /\ From([i \in Nat |-> z], 0)
    OBVIOUS
  <2> HIDE DEF From
  <2> QED
    BY <2>1
<1>2. ASSUME NEW m \in 1..n, m - 1 \in G PROVE m \in G
  <2>1. PICK f \in [Nat -> S] : From(f, m - 1)
    BY <1>2
  <2> DEFINE k == n - m + 1
             g == [f EXCEPT ![k] = step[k][f[next[k]]]]
  <2>2. m \in 0..n /\ k \in 1..n /\ k \in Nat /\ next[k] \in Nat /\ next[k] # k
    OBVIOUS
  <2>3. step[k][f[next[k]]] \in S
    <3>1. f[next[k]] \in S /\ step[k] \in [S -> S]
      BY <2>2
    <3> QED
      BY <3>1
  <2>4. g \in [Nat -> S] /\ g[k] = step[k][f[next[k]]]
    BY <2>2, <2>3
  <2>5. ASSUME NEW i \in Nat, i > n - m PROVE g[i] = Value(g, i)
    <3>1. CASE i = k
      <4>1. g[next[k]] = f[next[k]]
        BY <2>2
      <4> QED
        BY <2>2, <2>4, <3>1, <4>1
    <3>2. CASE i # k
      <4>1. i > n - (m - 1)
        BY <2>5, <3>2
      <4>2. g[i] = f[i] /\ f[i] = Value(f, i)
        BY <2>1, <3>2, <4>1
      <4>3. i \in 1..n => g[next[i]] = f[next[i]]
        <5>1. i \in 1..n => next[i] \in Nat /\ next[i] > i /\ next[i] # k
          BY <4>1
        <5> QED
          BY <5>1
      <4> QED
        BY <4>2, <4>3
    <3> QED
      BY <3>1, <3>2
  <2>6. From(g, m)
    BY <2>5
  <2> HIDE DEF From, g
  <2> QED
    BY <2>2, <2>4, <2>6
<1>3. \A m \in 0..n : m \in G
  <2>1. G \in SUBSET (0..n)
    OBVIOUS
  <2> HIDE DEF G
  <2> QED
    BY <1>1, <1>2, <2>1, Upwards
<1>4. PICK f \in [Nat -> S] : From(f, n)
  <2>1. n \in 0..n
    OBVIOUS
  <2> HIDE DEF From
  <2> QED
    BY <1>3, <2>1
<1> DEFINE g == [f EXCEPT ![0] = z]
<1>5. g \in [Nat -> S]
  OBVIOUS
<1>6. ASSUME NEW i \in Nat PROVE g[i] = Value(g, i)
  <2>1. CASE i = 0
    BY <2>1
  <2>2. CASE i # 0
    <3>1. i > n - n /\ g[i] = f[i]
      BY <2>2
    <3>2. f[i] = Value(f, i)
      BY <1>4, <3>1
    <3>3. i \in 1..n => next[i] \in Nat /\ next[i] # 0
      OBVIOUS
    <3>4. i \in 1..n => g[next[i]] = f[next[i]]
      BY <3>3
    <3> QED
      BY <3>1, <3>2, <3>4
  <2> QED
    BY <2>1, <2>2
<1>7. Backward(g, z, n, step, next)
  BY <1>6 DEF Backward
<1> HIDE DEF g
<1> QED
  BY <1>5, <1>7

(* FlattenSeq puts the parts one behind the other. *)
LEMMA FlattenIs ==
  ASSUME NEW n \in Nat, NEW parts \in [1..n -> Texts]
  PROVE  \E f \in [0..n -> Texts] :
           /\ f[0] = <<>> /\ \A i \in 1..n : f[i] = f[i - 1] \o parts[i]
           /\ Parsing!FlattenSeq(parts) = f[n]
<1> DEFINE step == [i \in 1..n |-> [x \in Texts |-> x \o parts[i]]]
<1>1. step \in [1..n -> [Texts -> Texts]]
  <2>1. \A i \in 1..n, x \in Texts : x \o parts[i] \in Texts
    BY DEF Texts
  <2> QED
    BY <2>1
<1>2. \A i \in 1..n, x \in Texts : step[i][x] = x \o parts[i]
  OBVIOUS
<1>3. <<>> \in Texts
  BY DEF Texts
<1> HIDE DEF step
<1>4. PICK f \in [0..n -> Texts] : Loop(f, <<>>, n, step)
  <2> DEFINE z == <<>>
             Z == Texts
  <2>1. z \in Z /\ step \in [1..n -> [Z -> Z]]
    BY <1>1, <1>3
  <2> HIDE DEF z, Z
  <2>2. \E f \in [0..n -> Z] : Loop(f, z, n, step)
    BY <2>1, LoopRuns
  <2> QED
    BY <2>2 DEF z, Z
<1>5. f[0] = <<>> /\ \A i \in 1..n : f[i] = f[i - 1] \o parts[i]
  <2>1. \A i \in 1..n : f[i - 1] \in Texts
    OBVIOUS
  <2> QED
    BY <1>2, <1>4, <2>1 DEF Loop
<1>6. parts \in Seq(Texts) /\ Len(parts) = n
  OBVIOUS
<1>7. CASE n = 0
  <2>1. parts = <<>>
    BY <1>6, <1>7
  <2>2. Parsing!FlattenSeq(parts) = parts
    BY <1>6, <1>7 DEF Parsing!FlattenSeq
  <2> QED
    BY <1>5, <1>7, <2>1, <2>2
<1>8. CASE n # 0
  <2> DEFINE Body(g, i) == IF i = 1 THEN parts[i] ELSE g[i - 1] \o parts[i]
             flat == CHOOSE g : g = [i \in 1..n |-> Body(g, i)]
             h == [i \in 1..n |-> f[i]]
  <2>1. h = [i \in 1..n |-> Body(h, i)]
    <3>1. ASSUME NEW i \in 1..n PROVE f[i] = Body(h, i)
      <4>1. CASE i = 1
        <5>1. f[1] = <<>> \o parts[1] /\ parts[1] \in Seq(Nat)
          <6>1. 1 \in 1..n /\ 1 - 1 = 0
            BY <1>8
          <6>2. parts[1] \in Texts /\ f[1] = f[0] \o parts[1]
            BY <1>5, <6>1
          <6> QED
            BY <1>5, <6>2 DEF Texts
        <5>2. <<>> \o parts[1] = parts[1]
          BY <5>1, ConcatEmptySeq
        <5> QED
          BY <4>1, <5>1, <5>2
      <4>2. CASE i # 1
        <5>1. i - 1 \in 1..n
          BY <4>2
        <5> QED
          BY <1>5, <4>2, <5>1
      <4> QED
        BY <4>1, <4>2
    <3> QED
      BY <3>1
  <2>2. flat = [i \in 1..n |-> Body(flat, i)]
    <3> HIDE DEF Body, h
    <3> QED
      BY <2>1
  <2>3. Parsing!FlattenSeq(parts) = flat[n]
    BY <1>6, <1>8 DEF Parsing!FlattenSeq
  <2> HIDE DEF flat
  <2> DEFINE G == {i \in 0..n : i # 0 => flat[i] = f[i]}
  <2>4. G \in SUBSET (0..n) /\ 0 \in G
    OBVIOUS
  <2>5. ASSUME NEW i \in 1..n, i - 1 \in G PROVE i \in G
    <3>1. flat[i] = Body(flat, i)
      BY <2>2
    <3>2. CASE i = 1
      <4>1. f[1] = h[1] /\ h[1] = Body(h, 1)
        BY <1>8, <2>1
      <4> QED
        BY <1>8, <3>1, <3>2, <4>1
    <3>3. CASE i # 1
      <4>1. i - 1 # 0 /\ i # 0 /\ i \in 0..n
        BY <3>3
      <4>2. flat[i - 1] = f[i - 1]
        BY <2>5, <4>1
      <4> QED
        BY <1>5, <3>1, <3>3, <4>1, <4>2
    <3> QED
      BY <3>2, <3>3
  <2>6. \A i \in 0..n : i \in G
    <3> HIDE DEF G
    <3> QED
      BY <2>4, <2>5, Upwards
  <2>7. n \in 0..n
    OBVIOUS
  <2> QED
    BY <1>5, <1>8, <2>3, <2>6, <2>7
<1> QED
  BY <1>7, <1>8

(* A byte, its two hexadecimal digits, and back. *)
LEMMA HexIs ==
  ASSUME NEW c \in 0..255
  PROVE  LET a == Parsing!HexDigit(c \div 16)
             b == Parsing!HexDigit(c % 16)
         IN  /\ a \in Nat /\ b \in Nat /\ Parsing!IsHex(a) /\ Parsing!IsHex(b)
             /\ a # 37 /\ b # 37
             /\ 16 * Parsing!HexValue(a) + Parsing!HexValue(b) = c
<1> DEFINE m == c \div 16
           n == c % 16
<1>1. m \in 0..15 /\ n \in 0..15 /\ 16 * m + n = c
  OBVIOUS
<1> HIDE DEF m, n
<1>2. ASSUME NEW k \in 0..15
      PROVE  /\ Parsing!HexDigit(k) \in Nat /\ Parsing!IsHex(Parsing!HexDigit(k))
             /\ Parsing!HexDigit(k) # 37 /\ Parsing!HexValue(Parsing!HexDigit(k)) = k
  <2>1. CASE k < 10
    BY <2>1 DEF Parsing!HexDigit, Parsing!IsHex, Parsing!HexValue, Parsing!IsDigit
  <2>2. CASE ~(k < 10)
    BY <2>2 DEF Parsing!HexDigit, Parsing!IsHex, Parsing!HexValue, Parsing!IsDigit
  <2> QED
    BY <2>1, <2>2
<1> QED
  BY <1>1, <1>2 DEF m, n

Escapes(t) == {i \in DOMAIN t : t[i] = Parsing!Percent}

(* Behind every '%' there are two hexadecimal digits. *)
Decodable(t) ==
  \A i \in Escapes(t) : i <= Len(t) - 2 /\ Parsing!IsHex(t[i + 1]) /\ Parsing!IsHex(t[i + 2])

(* The byte at i, and where the next one is. *)
ByteAt(t, i) ==
  IF t[i] = Parsing!Percent
    THEN 16 * Parsing!HexValue(t[i + 1]) + Parsing!HexValue(t[i + 2])
  ELSE IF t[i] = Parsing!Plus THEN Parsing!Blank ELSE t[i]

NextAt(t, i) == IF t[i] = Parsing!Percent THEN i + 3 ELSE i + 1

IsText(t) == t \in Texts /\ \A i \in 1..Len(t) : t[i] \in 0..255

LEMMA BytesAre ==
  ASSUME NEW t, IsText(t), Decodable(t), NEW i \in 1..Len(t)
  PROVE  /\ ByteAt(t, i) \in 0..255 /\ ByteAt(t, i) \in Nat
         /\ NextAt(t, i) \in Nat /\ NextAt(t, i) > i /\ NextAt(t, i) <= Len(t) + 1
<1>0. t \in Texts /\ Len(t) \in Nat /\ DOMAIN t = 1..Len(t)
  BY DEF IsText, Texts
<1>00. \A c : c \in 0..255 => c \in Nat
  OBVIOUS
<1>1. CASE t[i] = Parsing!Percent
  <2>1. i <= Len(t) - 2 /\ Parsing!IsHex(t[i + 1]) /\ Parsing!IsHex(t[i + 2])
    BY <1>0, <1>1 DEF Decodable, Escapes
  <2>2. t[i + 1] \in 0..255 /\ t[i + 2] \in 0..255
    BY <1>0, <2>1 DEF IsText
  <2>3. \A c \in 0..255 : Parsing!IsHex(c) => Parsing!HexValue(c) \in 0..15
    BY DEF Parsing!IsHex, Parsing!IsDigit, Parsing!HexValue
  <2>4. Parsing!HexValue(t[i + 1]) \in 0..15 /\ Parsing!HexValue(t[i + 2]) \in 0..15
    BY <2>1, <2>2, <2>3
  <2> DEFINE a == Parsing!HexValue(t[i + 1])
             b == Parsing!HexValue(t[i + 2])
  <2>5. ByteAt(t, i) = 16 * a + b /\ NextAt(t, i) = i + 3
    BY <1>1 DEF ByteAt, NextAt
  <2>6. a \in 0..15 /\ b \in 0..15
    BY <2>4
  <2> HIDE DEF a, b
  <2> DEFINE n == Len(t)
  <2>7. n \in Nat /\ i \in 1..n /\ i <= n - 2
    BY <1>0, <2>1
  <2> HIDE DEF n
  <2>8. 16 * a + b \in 0..255 /\ i + 3 \in Nat /\ i + 3 > i /\ i + 3 <= n + 1
    BY <2>6, <2>7
  <2>9. ByteAt(t, i) \in 0..255
    BY <2>5, <2>8
  <2>10. NextAt(t, i) \in Nat /\ NextAt(t, i) > i /\ NextAt(t, i) <= n + 1
    BY <2>5, <2>8
  <2>11. ByteAt(t, i) \in Nat
    BY <1>00, <2>9, Zenon
  <2> QED
    BY <2>9, <2>10, <2>11 DEF n
<1>2. CASE t[i] # Parsing!Percent
  <2> DEFINE n == Len(t)
  <2>1. n \in Nat /\ i \in 1..n /\ t[i] \in 0..255
    BY <1>0 DEF IsText
  <2> HIDE DEF n
  <2>2. i + 1 \in Nat /\ i + 1 > i /\ i + 1 <= n + 1 /\ 32 \in 0..255
    BY <2>1
  <2>3. NextAt(t, i) = i + 1
    BY <1>2 DEF NextAt
  <2>4. ByteAt(t, i) = IF t[i] = Parsing!Plus THEN 32 ELSE t[i]
    BY <1>2 DEF ByteAt, Parsing!Blank
  <2>5. ByteAt(t, i) \in 0..255
    BY <2>1, <2>2, <2>4
  <2>6. NextAt(t, i) \in Nat /\ NextAt(t, i) > i /\ NextAt(t, i) <= n + 1
    BY <2>2, <2>3
  <2>7. ByteAt(t, i) \in Nat
    BY <1>00, <2>5, Zenon
  <2> QED
    BY <2>5, <2>6, <2>7 DEF n
<1> QED
  BY <1>1, <1>2

LEMMA DecodeIs ==
  ASSUME NEW t, IsText(t), Decodable(t)
  PROVE  \E d \in [Nat -> Texts] :
           /\ \A i \in Nat : i > Len(t) => d[i] = <<>>
           /\ \A i \in 1..Len(t) : d[i] = <<ByteAt(t, i)>> \o d[NextAt(t, i)]
           /\ Parsing!DecodeUrl(t) = IF Escapes(t) = {} THEN t ELSE d[1]
<1> DEFINE n == Len(t)
           next == [i \in 1..n |-> NextAt(t, i)]
           step == [i \in 1..n |-> [x \in Texts |-> <<ByteAt(t, i)>> \o x]]
<1>0. n \in Nat
  BY DEF IsText, Texts
<1>1. \A i \in 1..n : ByteAt(t, i) \in Nat /\ NextAt(t, i) \in Nat /\ NextAt(t, i) > i
  BY BytesAre
<1> HIDE DEF n
<1>2. next \in [1..n -> Nat] /\ \A i \in 1..n : next[i] > i /\ next[i] = NextAt(t, i)
  BY <1>1
<1>3. step \in [1..n -> [Texts -> Texts]]
  <2>1. \A i \in 1..n, x \in Texts : <<ByteAt(t, i)>> \o x \in Texts
    BY <1>1 DEF Texts
  <2> QED
    BY <2>1
<1>4. \A i \in 1..n, x \in Texts : step[i][x] = <<ByteAt(t, i)>> \o x
  OBVIOUS
<1>5. <<>> \in Texts
  BY DEF Texts
<1> HIDE DEF step, next
<1>6. PICK f \in [Nat -> Texts] : Backward(f, <<>>, n, step, next)
  <2> DEFINE z == <<>>
             Z == Texts
  <2>1. z \in Z /\ step \in [1..n -> [Z -> Z]]
    BY <1>3, <1>5
  <2> HIDE DEF z, Z
  <2>2. \E f \in [Nat -> Z] : Backward(f, z, n, step, next)
    BY <1>0, <1>2, <2>1, BackwardRuns
  <2> QED
    BY <2>2 DEF z, Z
<1>7. /\ \A i \in Nat : i > n => f[i] = <<>>
      /\ \A i \in 1..n : f[i] = <<ByteAt(t, i)>> \o f[NextAt(t, i)]
  <2>1. ASSUME NEW i \in Nat, i > n PROVE f[i] = <<>>
    BY <1>0, <1>6, <2>1 DEF Backward
  <2>2. ASSUME NEW i \in 1..n PROVE f[i] = <<ByteAt(t, i)>> \o f[NextAt(t, i)]
    <3>1. f[i] = step[i][f[next[i]]]
      BY <1>0, <1>6 DEF Backward
    <3>2. next[i] = NextAt(t, i) /\ f[NextAt(t, i)] \in Texts
      BY <1>1, <1>2
    <3> QED
      BY <1>4, <3>1, <3>2
  <2> QED
    BY <2>1, <2>2
<1> DEFINE Body(g, i) ==
             IF i > n THEN <<>>
             ELSE IF t[i] = Parsing!Percent
             THEN <<16 * Parsing!HexValue(t[i + 1]) + Parsing!HexValue(t[i + 2])>> \o g[i + 3]
             ELSE <<IF t[i] = Parsing!Plus THEN Parsing!Blank ELSE t[i]>> \o g[i + 1]
           dec == CHOOSE g : g = [i \in Nat |-> Body(g, i)]
           h == [i \in Nat |-> IF i = 0 THEN Body(f, 0) ELSE f[i]]
<1>8. \A g, i : Body(g, i) = IF i > n THEN <<>> ELSE <<ByteAt(t, i)>> \o g[NextAt(t, i)]
  BY DEF ByteAt, NextAt
<1>9. Parsing!DecodeUrl(t) = IF Escapes(t) = {} THEN t ELSE dec[1]
  <2>1. \A i \in Escapes(t) : /\ ~(i > n - 2)
                              /\ Parsing!IsHex(t[i + 1]) /\ Parsing!IsHex(t[i + 2])
    <3>1. \A i \in Escapes(t) : i \in Int
      BY DEF Escapes, IsText, Texts
    <3> QED
      BY <1>0, <3>1 DEF Decodable, n
  <2>2. ~(\E i \in Escapes(t) : \/ i > n - 2
                                \/ ~Parsing!IsHex(t[i + 1]) \/ ~Parsing!IsHex(t[i + 2]))
    BY <2>1
  <2> QED
    BY <2>2 DEF Parsing!DecodeUrl, Escapes, n
<1> HIDE DEF Body
<1>10. h = [i \in Nat |-> Body(h, i)]
  <2>1. \A i \in Nat \ {0} : h[i] = f[i]
    OBVIOUS
  <2>2. ASSUME NEW i \in Nat PROVE h[i] = Body(h, i)
    <3>1. CASE i = 0
      <4>1. NextAt(t, 0) \in Nat \ {0}
        BY DEF NextAt
      <4>2. h[0] = Body(f, 0) /\ h[NextAt(t, 0)] = f[NextAt(t, 0)]
        BY <2>1, <4>1
      <4> QED
        BY <1>8, <3>1, <4>2
    <3>2. CASE i > n /\ i # 0
      BY <1>7, <1>8, <2>1, <3>2
    <3>3. CASE i \in 1..n
      <4>1. NextAt(t, i) \in Nat \ {0} /\ i # 0 /\ ~(i > n)
        BY <1>0, <1>1, <3>3
      <4>2. h[i] = f[i] /\ h[NextAt(t, i)] = f[NextAt(t, i)]
        BY <2>1, <4>1
      <4> QED
        BY <1>7, <1>8, <3>3, <4>1, <4>2
    <3> QED
      BY <1>0, <3>1, <3>2, <3>3
  <2> HIDE DEF h
  <2>3. h = [i \in Nat |-> h[i]]
    BY DEF h
  <2> QED
    BY <2>2, <2>3
<1>11. dec = [i \in Nat |-> Body(dec, i)]
  <2> HIDE DEF h
  <2> QED
    BY <1>10
<1> HIDE DEF dec
<1> DEFINE G == {m \in 0..n : \A i \in Nat : i > n - m => dec[i] = f[i]}
<1>12. 0 \in G
  <2>1. ASSUME NEW i \in Nat, i > n PROVE dec[i] = f[i]
    BY <1>7, <1>8, <1>11, <2>1
  <2> QED
    BY <1>0, <2>1
<1>13. ASSUME NEW m \in 1..n, m - 1 \in G PROVE m \in G
  <2>1. ASSUME NEW i \in Nat, i > n - m PROVE dec[i] = f[i]
    <3>1. CASE i > n - (m - 1)
      BY <1>13, <3>1
    <3>2. CASE ~(i > n - (m - 1))
      <4>1. i \in 1..n /\ ~(i > n)
        BY <1>0, <2>1, <3>2
      <4>2. NextAt(t, i) \in Nat /\ NextAt(t, i) > n - (m - 1)
        BY <1>0, <1>1, <2>1, <4>1
      <4>3. dec[NextAt(t, i)] = f[NextAt(t, i)]
        BY <1>13, <4>2
      <4>4. dec[i] = <<ByteAt(t, i)>> \o dec[NextAt(t, i)]
        BY <1>8, <1>11, <4>1
      <4> QED
        BY <1>7, <4>1, <4>3, <4>4
    <3> QED
      BY <3>1, <3>2
  <2> QED
    BY <2>1
<1>14. dec[1] = f[1]
  <2>1. G \in SUBSET (0..n)
    OBVIOUS
  <2>2. \A m \in 0..n : m \in G
    <3> HIDE DEF G
    <3> QED
      BY <1>0, <1>12, <1>13, <2>1, Upwards
  <2>3. n \in G
    BY <1>0, <2>2
  <2> QED
    BY <1>0, <2>3
<1>15. Parsing!DecodeUrl(t) = IF Escapes(t) = {} THEN t ELSE f[1]
  BY <1>9, <1>14
<1> QED
  BY <1>7, <1>15 DEF n

(* What is decoded fills the length that was counted, with bytes. *)
LEMMA DecodingFits ==
  ASSUME NEW t, IsText(t), Decodable(t)
  PROVE  LET plain == Parsing!DecodeUrl(t)
         IN  /\ plain \in Texts /\ \A i \in 1..Len(plain) : plain[i] \in 0..255
             /\ Len(plain) = Len(t) - 2 * Cardinality(Escapes(t))
<1> DEFINE n == Len(t)
<1>1. t \in Texts /\ n \in Nat /\ DOMAIN t = 1..n /\ \A i \in 1..n : t[i] \in 0..255
  BY DEF IsText, Texts
<1>2. PICK d \in [Nat -> Texts] :
        /\ \A i \in Nat : i > n => d[i] = <<>>
        /\ \A i \in 1..n : d[i] = <<ByteAt(t, i)>> \o d[NextAt(t, i)]
        /\ Parsing!DecodeUrl(t) = IF Escapes(t) = {} THEN t ELSE d[1]
  BY DecodeIs
<1>3. \A i \in 1..n : /\ ByteAt(t, i) \in 0..255 /\ ByteAt(t, i) \in Nat
                      /\ NextAt(t, i) \in Nat /\ NextAt(t, i) > i /\ NextAt(t, i) <= n + 1
  BY BytesAre
<1>4. Escapes(t) \subseteq 1..n
  BY <1>1 DEF Escapes
<1>5. \A i \in Escapes(t) : /\ NextAt(t, i) = i + 3
                            /\ i + 1 \notin Escapes(t) /\ i + 2 \notin Escapes(t)
  <2> TAKE i \in Escapes(t)
  <2>1. Parsing!IsHex(t[i + 1]) /\ Parsing!IsHex(t[i + 2])
    BY DEF Decodable
  <2>2. ~Parsing!IsHex(Parsing!Percent)
    BY DEF Parsing!IsHex, Parsing!IsDigit, Parsing!Percent
  <2> QED
    BY <2>1, <2>2 DEF Escapes, NextAt
<1>6. \A i \in 1..n : i \notin Escapes(t) => NextAt(t, i) = i + 1
  BY <1>1 DEF Escapes, NextAt
<1> HIDE DEF n
<1> DEFINE From(i) == {j \in Escapes(t) : j >= i}
           Size(i) == Cardinality(From(i))
<1>7. ASSUME NEW i \in Nat PROVE IsFiniteSet(From(i)) /\ Size(i) \in Nat
  <2>1. IsFiniteSet(1..n) /\ From(i) \subseteq 1..n
    BY <1>1, <1>4, FS_Interval
  <2> QED
    BY <2>1, FS_Subset, FS_CardinalityType
<1>8. Size(n + 1) = 0 /\ Size(1) = Cardinality(Escapes(t))
  <2>1. From(n + 1) = {} /\ From(1) = Escapes(t)
    BY <1>1, <1>4
  <2> QED
    BY <2>1, FS_EmptySet
<1>9. ASSUME NEW i \in 1..n
      PROVE  Size(i) = Size(NextAt(t, i)) + (IF i \in Escapes(t) THEN 1 ELSE 0)
  <2>1. CASE i \in Escapes(t)
    <3>1. From(i) = From(i + 3) \cup {i} /\ i \notin From(i + 3)
      <4>1. \A j \in Escapes(t) : j >= i => j = i \/ j >= i + 3
        <5>1. \A j \in 1..n : j >= i => j = i \/ j = i + 1 \/ j = i + 2 \/ j >= i + 3
          OBVIOUS
        <5> QED
          BY <1>4, <1>5, <2>1, <5>1
      <4>2. \A j \in 1..n : j >= i + 3 => j >= i /\ j # i
        OBVIOUS
      <4>3. i >= i /\ ~(i >= i + 3)
        OBVIOUS
      <4> QED
        BY <1>4, <2>1, <4>1, <4>2, <4>3
    <3>2. i + 3 \in Nat
      OBVIOUS
    <3>3. IsFiniteSet(From(i + 3)) /\ Size(i + 3) \in Nat
      BY <1>7, <3>2
    <3> HIDE DEF From
    <3>4. Cardinality(From(i + 3) \cup {i}) = Cardinality(From(i + 3)) + 1
      BY <3>1, <3>3, FS_AddElement
    <3> QED
      BY <1>5, <2>1, <3>1, <3>4
  <2>2. CASE i \notin Escapes(t)
    <3>1. From(i) = From(i + 1)
      <4>1. \A j \in 1..n : j # i => (j >= i <=> j >= i + 1)
        OBVIOUS
      <4> QED
        BY <1>4, <2>2, <4>1
    <3>2. i + 1 \in Nat
      OBVIOUS
    <3>3. Size(i + 1) \in Nat
      BY <1>7, <3>2
    <3> HIDE DEF From
    <3> QED
      BY <1>6, <2>2, <3>1, <3>3
  <2> QED
    BY <2>1, <2>2
<1> HIDE DEF Size
<1> DEFINE Fine(i) == /\ Len(d[i]) + 2 * Size(i) = n + 1 - i
                      /\ \A k \in 1..Len(d[i]) : d[i][k] \in 0..255
           G == {m \in 0..n : \A i \in 1..(n + 1) : i > n - m => Fine(i)}
<1>10. 0 \in G
  <2>1. d[n + 1] = <<>> /\ Len(d[n + 1]) = 0
    BY <1>1, <1>2
  <2>2. Fine(n + 1)
    BY <1>1, <1>8, <2>1
  <2>3. \A i \in 1..(n + 1) : i > n - 0 => i = n + 1
    BY <1>1
  <2> HIDE DEF Fine
  <2> QED
    BY <1>1, <2>2, <2>3
<1>11. ASSUME NEW m \in 1..n, m - 1 \in G PROVE m \in G
  <2>1. ASSUME NEW i \in 1..(n + 1), i > n - m PROVE Fine(i)
    <3>1. CASE i > n - (m - 1)
      BY <1>11, <3>1
    <3>2. CASE ~(i > n - (m - 1))
      <4> DEFINE j == NextAt(t, i)
                 rest == d[j]
                 byte == ByteAt(t, i)
      <4>1. i \in 1..n
        BY <1>1, <2>1, <3>2
      <4>2. j \in 1..(n + 1) /\ j > n - (m - 1) /\ j \in Nat
        BY <1>1, <1>3, <2>1, <4>1
      <4>3. Fine(j)
        BY <1>11, <4>2
      <4>4. rest \in Seq(Nat) /\ Len(rest) \in Nat
        BY <1>2, <4>2 DEF Texts
      <4>5. byte \in 0..255 /\ <<byte>> \in Seq(Nat) /\ Len(<<byte>>) = 1 /\ <<byte>>[1] = byte
        BY <1>3, <4>1
      <4>6. d[i] = <<byte>> \o rest
        BY <1>2, <4>1
      <4> HIDE DEF byte, rest
      <4>7. /\ Len(d[i]) = 1 + Len(rest)
            /\ \A k \in 1..(1 + Len(rest)) :
                 d[i][k] = IF k <= 1 THEN <<byte>>[k] ELSE rest[k - 1]
        BY <4>4, <4>5, <4>6, ConcatProperties
      <4>8. \A k \in 1..Len(d[i]) : d[i][k] \in 0..255
        <5> TAKE k \in 1..Len(d[i])
        <5>1. CASE k = 1
          <6>1. 1 \in 1..(1 + Len(rest)) /\ 1 <= 1
            BY <4>4
          <6>2. d[i][1] = <<byte>>[1]
            BY <4>7, <6>1
          <6> QED
            BY <4>5, <5>1, <6>2
        <5>2. CASE k # 1
          <6>1. k - 1 \in 1..Len(rest) /\ d[i][k] = rest[k - 1]
            BY <4>4, <4>7, <5>2
          <6> QED
            BY <4>3, <6>1 DEF rest
        <5> QED
          BY <5>1, <5>2
      <4>9. Len(d[i]) + 2 * Size(i) = n + 1 - i
        <5>1. Size(i) = Size(j) + (IF i \in Escapes(t) THEN 1 ELSE 0)
          BY <1>9, <4>1
        <5>2. Len(rest) + 2 * Size(j) = n + 1 - j /\ Size(j) \in Nat
          BY <1>7, <4>2, <4>3 DEF rest
        <5>3. j = IF i \in Escapes(t) THEN i + 3 ELSE i + 1
          BY <1>5, <1>6, <4>1
        <5>4. Len(d[i]) = 1 + Len(rest) /\ n \in Nat /\ i \in Nat /\ Len(rest) \in Nat
          BY <1>1, <4>4, <4>7
        <5> DEFINE u == Len(d[i])
                   v == Len(rest)
                   w == Size(i)
                   y == Size(j)
        <5>5. CASE i \in Escapes(t)
          <6>1. /\ u = 1 + v /\ v \in Nat /\ n \in Nat /\ i \in Nat /\ y \in Nat
                /\ w = y + 1 /\ v + 2 * y = n + 1 - (i + 3)
            BY <5>1, <5>2, <5>3, <5>4, <5>5
          <6> HIDE DEF u, v, w, y
          <6>2. u + 2 * w = n + 1 - i
            BY ONLY <6>1
          <6> QED
            BY <6>2 DEF u, w
        <5>6. CASE i \notin Escapes(t)
          <6>1. /\ u = 1 + v /\ v \in Nat /\ n \in Nat /\ i \in Nat /\ y \in Nat
                /\ w = y + 0 /\ v + 2 * y = n + 1 - (i + 1)
            BY <5>1, <5>2, <5>3, <5>4, <5>6
          <6> HIDE DEF u, v, w, y
          <6>2. u + 2 * w = n + 1 - i
            BY ONLY <6>1
          <6> QED
            BY <6>2 DEF u, w
        <5> QED
          BY <5>5, <5>6
      <4> QED
        BY <4>8, <4>9
    <3> QED
      BY <3>1, <3>2
  <2> HIDE DEF Fine
  <2> QED
    BY <2>1
<1>12. Fine(1)
  <2>1. G \in SUBSET (0..n)
    OBVIOUS
  <2> HIDE DEF Fine
  <2>2. \A m \in 0..n : m \in G
    <3> HIDE DEF G
    <3> QED
      BY <1>1, <1>10, <1>11, <2>1, Upwards
  <2>3. n \in 0..n /\ 1 \in 1..(n + 1) /\ 1 > n - n
    BY <1>1
  <2>4. n \in G
    BY <2>2, <2>3
  <2> QED
    BY <2>3, <2>4
<1>13. CASE Escapes(t) = {}
  <2>1. Cardinality(Escapes(t)) = 0
    BY <1>13, FS_EmptySet
  <2> QED
    BY <1>1, <1>2, <1>13, <2>1 DEF n
<1>14. CASE Escapes(t) # {}
  <2>1. Parsing!DecodeUrl(t) = d[1] /\ d[1] \in Texts /\ Len(d[1]) \in Nat
    BY <1>2, <1>14 DEF Texts
  <2>2. Size(1) \in Nat
    BY <1>7
  <2>3. Len(d[1]) = n - 2 * Cardinality(Escapes(t))
    BY <1>1, <1>8, <1>12, <2>1, <2>2
  <2> QED
    BY <1>12, <2>1, <2>3 DEF n
<1> QED
  BY <1>13, <1>14

(* What is written for a byte that is no blank. *)
Code(c) ==
  IF Parsing!GetUrlEncMapPos(c)
    THEN <<Parsing!Percent, Parsing!HexDigit(c \div 16), Parsing!HexDigit(c % 16)>>
  ELSE <<c>>

LEMMA CodesAre ==
  ASSUME NEW c \in 0..255
  PROVE  /\ Code(c) \in Seq(Nat)
         /\ Parsing!IsLetter(c) => /\ Len(Code(c)) = 1 /\ Code(c)[1] = c
                                   /\ c # Parsing!Percent /\ c # Parsing!Plus
         /\ ~Parsing!IsLetter(c) =>
              /\ Len(Code(c)) = 3 /\ Code(c)[1] = Parsing!Percent
              /\ Code(c)[2] \in 0..255 /\ Code(c)[3] \in 0..255
              /\ Parsing!IsHex(Code(c)[2]) /\ Parsing!IsHex(Code(c)[3])
              /\ Code(c)[2] # Parsing!Percent /\ Code(c)[3] # Parsing!Percent
              /\ 16 * Parsing!HexValue(Code(c)[2]) + Parsing!HexValue(Code(c)[3]) = c
<1> DEFINE a == Parsing!HexDigit(c \div 16)
           b == Parsing!HexDigit(c % 16)
<1>1. /\ a \in Nat /\ b \in Nat /\ Parsing!IsHex(a) /\ Parsing!IsHex(b)
      /\ a # 37 /\ b # 37 /\ 16 * Parsing!HexValue(a) + Parsing!HexValue(b) = c
  BY HexIs
<1>2. a \in 0..255 /\ b \in 0..255
  <2>1. \A k \in Nat : Parsing!IsHex(k) => k \in 0..255
    BY DEF Parsing!IsHex, Parsing!IsDigit
  <2> QED
    BY <1>1, <2>1
<1>3. CASE Parsing!IsLetter(c)
  <2>1. Code(c) = <<c>>
    BY <1>3 DEF Code, Parsing!GetUrlEncMapPos
  <2>2. c # Parsing!Percent /\ c # Parsing!Plus
    BY <1>3 DEF Parsing!IsLetter, Parsing!Percent, Parsing!Plus
  <2> QED
    BY <1>3, <2>1, <2>2
<1>4. CASE ~Parsing!IsLetter(c)
  <2>1. Code(c) = <<37, a, b>>
    BY <1>4 DEF Code, Parsing!GetUrlEncMapPos, Parsing!Percent
  <2> HIDE DEF a, b
  <2>2. Code(c) \in Seq(Nat) /\ Len(Code(c)) = 3
    BY <1>1, <2>1
  <2>3. Code(c)[1] = 37 /\ Code(c)[2] = a /\ Code(c)[3] = b
    BY <2>1
  <2> QED
    BY <1>1, <1>2, <1>4, <2>2, <2>3 DEF Parsing!Percent
<1> QED
  BY <1>3, <1>4

(* It is one character that is no '%', or three, two of them hexadecimal. *)
LEMMA CodeIsEscape ==
  ASSUME NEW c \in 0..255
  PROVE  \/ Len(Code(c)) = 1 /\ Code(c)[1] \in 0..255 /\ Code(c)[1] # Parsing!Percent
         \/ /\ Len(Code(c)) = 3 /\ Code(c)[1] \in 0..255
            /\ Code(c)[2] \in 0..255 /\ Code(c)[3] \in 0..255
            /\ Parsing!IsHex(Code(c)[2]) /\ Parsing!IsHex(Code(c)[3])
            /\ Code(c)[2] # Parsing!Percent /\ Code(c)[3] # Parsing!Percent
<1>1. Parsing!Percent \in 0..255
  BY DEF Parsing!Percent
<1>2. CASE Parsing!IsLetter(c)
  <2>1. Len(Code(c)) = 1 /\ Code(c)[1] = c /\ c # Parsing!Percent
    BY <1>2, CodesAre, Zenon
  <2> QED
    BY <2>1
<1>3. CASE ~Parsing!IsLetter(c)
  <2>1. /\ Len(Code(c)) = 3 /\ Code(c)[1] = Parsing!Percent
        /\ Code(c)[2] \in 0..255 /\ Code(c)[3] \in 0..255
        /\ Parsing!IsHex(Code(c)[2]) /\ Parsing!IsHex(Code(c)[3])
        /\ Code(c)[2] # Parsing!Percent /\ Code(c)[3] # Parsing!Percent
    BY <1>3, CodesAre, Zenon
  <2> QED
    BY <1>1, <2>1, Zenon
<1> QED
  BY <1>2, <1>3

(* The codes are written one behind the other. *)
LEMMA EncodeIs ==
  ASSUME NEW s, IsText(s), \A i \in 1..Len(s) : s[i] # Parsing!Blank
  PROVE  \E e \in [0..Len(s) -> Texts] :
           /\ e[0] = <<>> /\ \A i \in 1..Len(s) : e[i] = e[i - 1] \o Code(s[i])
           /\ Parsing!EncodeUrl(s) = e[Len(s)]
<1> DEFINE n == Len(s)
           parts == [i \in 1..n |-> Code(s[i])]
           Enc(c) == (IF c = Parsing!Blank THEN <<Parsing!Plus>> ELSE <<>>) \o
                       (IF Parsing!GetUrlEncMapPos(c)
                        THEN <<Parsing!Percent, Parsing!HexDigit(c \div 16),
                               Parsing!HexDigit(c % 16)>> ELSE <<c>>)
<1>1. n \in Nat /\ DOMAIN s = 1..n /\ \A i \in 1..n : s[i] \in 0..255
  BY DEF IsText, Texts
<1>2. \A i \in 1..n : Code(s[i]) \in Seq(Nat)
  BY <1>1, CodesAre
<1>3. ASSUME NEW i \in 1..n PROVE Enc(s[i]) = Code(s[i])
  <2>1. Enc(s[i]) = <<>> \o Code(s[i])
    BY DEF Code
  <2>2. <<>> \o Code(s[i]) = Code(s[i])
    BY <1>2, ConcatEmptySeq
  <2> QED
    BY <2>1, <2>2
<1>4. Parsing!EncodeUrl(s) = Parsing!FlattenSeq([i \in DOMAIN s |-> Enc(s[i])])
  BY DEF Parsing!EncodeUrl
<1> HIDE DEF n, Enc
<1>5. [i \in DOMAIN s |-> Enc(s[i])] = parts
  BY <1>1, <1>3
<1>6. parts \in [1..n -> Texts] /\ \A i \in 1..n : parts[i] = Code(s[i])
  BY <1>2 DEF Texts
<1> HIDE DEF parts
<1>7. PICK e \in [0..n -> Texts] :
        /\ e[0] = <<>> /\ \A i \in 1..n : e[i] = e[i - 1] \o parts[i]
        /\ Parsing!FlattenSeq(parts) = e[n]
  BY <1>1, <1>6, FlattenIs
<1>8. \A i \in 1..n : e[i] = e[i - 1] \o Code(s[i])
  BY <1>6, <1>7
<1>9. Parsing!EncodeUrl(s) = e[n]
  BY <1>4, <1>5, <1>7
<1> QED
  BY <1>7, <1>8, <1>9 DEF n

(***************************************************************************)
(* Where the codes are: behind those of the first i - 1 bytes comes that   *)
(* of s[i], and there is a '%' nowhere but at the start of a code.         *)
(***************************************************************************)
LEMMA CodesStay ==
  ASSUME NEW s, IsText(s), NEW e \in [0..Len(s) -> Texts], e[0] = <<>>,
         \A i \in 1..Len(s) : e[i] = e[i - 1] \o Code(s[i])
  PROVE  LET u == e[Len(s)] IN
         /\ IsText(u) /\ Decodable(u)
         /\ \A i \in 1..Len(s) :
              /\ Len(e[i]) = Len(e[i - 1]) + Len(Code(s[i])) /\ Len(e[i]) <= Len(u)
              /\ \A k \in 1..Len(Code(s[i])) : u[Len(e[i - 1]) + k] = Code(s[i])[k]
<1> DEFINE n == Len(s)
<1>1. n \in Nat /\ DOMAIN s = 1..n /\ \A i \in 1..n : s[i] \in 0..255
  BY DEF IsText, Texts
<1> HIDE DEF n
<1>2. \A i \in 0..n : e[i] \in Seq(Nat) /\ Len(e[i]) \in Nat
  BY DEF n, Texts
<1>3. \A i \in 1..n : Code(s[i]) \in Seq(Nat) /\ Len(Code(s[i])) \in Nat
  <2> TAKE i \in 1..n
  <2>1. s[i] \in 0..255
    BY <1>1
  <2>2. \A c \in 0..255 : Code(c) \in Seq(Nat)
    BY CodesAre
  <2>3. Code(s[i]) \in Seq(Nat)
    BY <2>1, <2>2, Zenon
  <2> QED
    BY <2>3, LenProperties
<1>30. \A i \in 1..n : i \in 0..n /\ i - 1 \in 0..n /\ i - 1 \in Nat
  BY <1>1
<1>4. ASSUME NEW i \in 1..n
      PROVE  /\ Len(e[i]) = Len(e[i - 1]) + Len(Code(s[i]))
             /\ \A k \in 1..Len(e[i]) :
                  e[i][k] = IF k <= Len(e[i - 1]) THEN e[i - 1][k]
                            ELSE Code(s[i])[k - Len(e[i - 1])]
  <2> DEFINE x == e[i - 1]
             c == Code(s[i])
  <2>1. x \in Seq(Nat) /\ c \in Seq(Nat) /\ Len(x) \in Nat /\ Len(c) \in Nat
    BY <1>2, <1>3, <1>30
  <2>2. e[i] = x \o c
    BY DEF n
  <2> HIDE DEF x, c
  <2>3. /\ Len(x \o c) = Len(x) + Len(c)
        /\ \A k \in 1..Len(x) + Len(c) :
             (x \o c)[k] = IF k <= Len(x) THEN x[k] ELSE c[k - Len(x)]
    BY <2>1, ConcatProperties
  <2> QED
    BY <2>2, <2>3 DEF x, c
<1> DEFINE Bytes2(x) == \A k \in 1..Len(x) : x[k] \in 0..255
           Whole(x) == \A k \in 1..Len(x) : x[k] = Parsing!Percent =>
                         /\ k <= Len(x) - 2
                         /\ Parsing!IsHex(x[k + 1]) /\ Parsing!IsHex(x[k + 2])
           Begins(x, y) == Len(x) <= Len(y) /\ \A k \in 1..Len(x) : y[k] = x[k]
           G == {i \in 0..n : /\ Bytes2(e[i]) /\ Whole(e[i])
                              /\ \A j \in 0..i : Begins(e[j], e[i])}
<1>5. 0 \in G
  <2>1. Bytes2(e[0]) /\ Whole(e[0]) /\ Begins(e[0], e[0])
    OBVIOUS
  <2> HIDE DEF Bytes2, Whole, Begins
  <2>2. \A j \in 0..0 : j = 0
    OBVIOUS
  <2> QED
    BY <1>1, <2>1, <2>2
<1>6. ASSUME NEW i \in 1..n, i - 1 \in G PROVE i \in G
  <2> DEFINE x == e[i - 1]
             y == e[i]
             c == Code(s[i])
             l == Len(x)
             m == Len(c)
  <2>1. x \in Seq(Nat) /\ y \in Seq(Nat) /\ c \in Seq(Nat) /\ l \in Nat /\ m \in Nat
    BY <1>2, <1>3, <1>30
  <2>2. Len(y) = l + m /\ \A k \in 1..Len(y) : y[k] = IF k <= l THEN x[k] ELSE c[k - l]
    BY <1>4
  <2>3. Bytes2(x) /\ Whole(x) /\ \A j \in 0..(i - 1) : Begins(e[j], x)
    BY <1>6
  <2>4. s[i] \in 0..255
    BY <1>1
  <2>5. \/ m = 1 /\ c[1] \in 0..255 /\ c[1] # Parsing!Percent
        \/ /\ m = 3 /\ c[1] \in 0..255 /\ c[2] \in 0..255 /\ c[3] \in 0..255
           /\ Parsing!IsHex(c[2]) /\ Parsing!IsHex(c[3])
           /\ c[2] # Parsing!Percent /\ c[3] # Parsing!Percent
    BY <2>4, CodeIsEscape, Zenon
  <2> HIDE DEF x, y, c, l, m
  <2>6. \A k \in 1..l : k \in 1..(l + m) /\ y[k] = x[k]
    BY <2>1, <2>2
  <2>7. \A k \in 1..m : l + k \in 1..(l + m) /\ y[l + k] = c[k]
    <3> TAKE k \in 1..m
    <3>1. l + k \in 1..(l + m) /\ ~(l + k <= l) /\ (l + k) - l = k
      BY <2>1
    <3> QED
      BY <2>2, <3>1
  <2>8. \A k \in 1..(l + m) : k \in 1..l \/ \E j \in 1..m : k = l + j
    <3> TAKE k \in 1..(l + m)
    <3>1. k \in 1..l \/ (k - l \in 1..m /\ k = l + (k - l))
      BY <2>1
    <3> QED
      BY <3>1
  <2>9. Bytes2(y)
    <3>1. \A k \in 1..m : c[k] \in 0..255
      <4> TAKE k \in 1..m
      <4>1. CASE m = 1
        <5>1. k = 1
          BY <4>1
        <5> QED
          BY <2>5, <4>1, <5>1
      <4>2. CASE m = 3
        <5>1. k = 1 \/ k = 2 \/ k = 3
          BY <4>2
        <5>2. c[1] \in 0..255 /\ c[2] \in 0..255 /\ c[3] \in 0..255
          <6>1. m # 1
            BY <4>2
          <6> QED
            BY <2>5, <6>1, Zenon
        <5> QED
          BY <5>1, <5>2
      <4> QED
        BY <2>5, <4>1, <4>2
    <3>2. \A k \in 1..l : x[k] \in 0..255
      BY <2>3 DEF l
    <3>3. \A k \in 1..(l + m) : y[k] \in 0..255
      <4> TAKE k \in 1..(l + m)
      <4>1. CASE k \in 1..l
        BY <2>6, <3>2, <4>1
      <4>2. ASSUME NEW j \in 1..m, k = l + j PROVE y[k] \in 0..255
        BY <2>7, <3>1, <4>2
      <4> QED
        BY <2>8, <4>1, <4>2
    <3> QED
      BY <2>2, <3>3
  <2>10. Whole(y)
    <3> SUFFICES ASSUME NEW k \in 1..(l + m), y[k] = Parsing!Percent
                 PROVE  /\ k <= (l + m) - 2
                        /\ Parsing!IsHex(y[k + 1]) /\ Parsing!IsHex(y[k + 2])
      BY <2>2
    <3>1. CASE k \in 1..l
      <4>1. k <= l - 2 /\ Parsing!IsHex(x[k + 1]) /\ Parsing!IsHex(x[k + 2])
        BY <2>3, <2>6, <3>1 DEF l
      <4>2. k + 1 \in 1..l /\ k + 2 \in 1..l /\ k <= (l + m) - 2
        BY <2>1, <4>1
      <4> QED
        BY <2>6, <4>1, <4>2
    <3>2. ASSUME NEW j \in 1..m, k = l + j PROVE k = l + 1 /\ m = 3
      BY <2>5, <2>7, <3>2
    <3>3. CASE k = l + 1 /\ m = 3
      <4>1. 2 \in 1..m /\ 3 \in 1..m /\ k + 1 = l + 2 /\ k + 2 = l + 3 /\ k <= (l + m) - 2
        BY <2>1, <3>3
      <4>2. y[k + 1] = c[2] /\ y[k + 2] = c[3]
        BY <2>7, <4>1
      <4> QED
        BY <2>5, <3>3, <4>1, <4>2
    <3> QED
      BY <2>8, <3>1, <3>2, <3>3
  <2>11. ASSUME NEW j \in 0..i PROVE Begins(e[j], e[i])
    <3>1. CASE j = i
      <4>1. Len(e[i]) <= Len(e[i])
        BY <1>2
      <4> QED
        BY <3>1, <4>1
    <3>2. CASE j # i
      <4>1. j \in 0..(i - 1) /\ Len(e[j]) \in Nat
        BY <1>2, <3>2
      <4>2. Begins(e[j], x)
        BY <2>3, <4>1
      <4>3. Len(e[j]) <= l
        BY <4>2 DEF l
      <4>4. Len(e[j]) <= Len(y)
        BY <2>1, <2>2, <4>1, <4>3
      <4>5. \A k \in 1..Len(e[j]) : y[k] = e[j][k]
        BY <2>1, <2>6, <4>1, <4>2, <4>3
      <4> QED
        BY <4>4, <4>5 DEF y
    <3> QED
      BY <3>1, <3>2
  <2> HIDE DEF Bytes2, Whole, Begins
  <2> QED
    BY <2>9, <2>10, <2>11 DEF y
<1>7. n \in G
  <2>1. G \in SUBSET (0..n) /\ n \in 0..n
    BY <1>1
  <2> HIDE DEF G
  <2> QED
    BY <1>1, <1>5, <1>6, <2>1, Upwards
<1> DEFINE u == e[n]
<1>8. u \in Seq(Nat) /\ Len(u) \in Nat /\ DOMAIN u = 1..Len(u)
  <2>1. n \in 0..n
    BY <1>1
  <2> QED
    BY <1>2, <2>1
<1>9. IsText(u)
  BY <1>7, <1>8 DEF IsText, Texts
<1>10. Decodable(u)
  BY <1>7, <1>8 DEF Decodable, Escapes
<1>11. ASSUME NEW i \in 1..n
       PROVE  /\ Len(e[i]) = Len(e[i - 1]) + Len(Code(s[i])) /\ Len(e[i]) <= Len(u)
              /\ \A k \in 1..Len(Code(s[i])) : u[Len(e[i - 1]) + k] = Code(s[i])[k]
  <2>1. i \in 0..n /\ i - 1 \in 0..n
    BY <1>30
  <2>2. Begins(e[i], u)
    BY <1>7, <2>1
  <2> DEFINE l == Len(e[i - 1])
             m == Len(Code(s[i]))
  <2>3. l \in Nat /\ m \in Nat /\ Len(e[i]) = l + m
    BY <1>2, <1>3, <1>4, <2>1
  <2>4. ASSUME NEW k \in 1..m PROVE u[l + k] = Code(s[i])[k]
    <3> HIDE DEF l, m
    <3>1. l + k \in 1..(l + m) /\ ~(l + k <= l) /\ (l + k) - l = k
      BY <2>3
    <3>2. e[i][l + k] = Code(s[i])[k]
      BY <1>4, <2>3, <3>1 DEF l
    <3>3. u[l + k] = e[i][l + k]
      BY <2>2, <2>3, <3>1
    <3> QED
      BY <3>2, <3>3
  <2> QED
    BY <1>4, <2>2, <2>4
<1> QED
  BY <1>9, <1>10, <1>11 DEF n

(***************************************************************************)
(* At the start of the code of s[i] the byte s[i] is read, and the next    *)
(* one is looked for where the next code starts.                           *)
(***************************************************************************)
LEMMA CodesAreRead ==
  ASSUME NEW s, IsText(s), NEW e \in [0..Len(s) -> Texts], e[0] = <<>>,
         \A i \in 1..Len(s) : e[i] = e[i - 1] \o Code(s[i]),
         NEW i \in 1..Len(s)
  PROVE  LET u == e[Len(s)]
             p == Len(e[i - 1]) + 1
         IN  /\ p \in 1..Len(u) /\ ByteAt(u, p) = s[i] /\ NextAt(u, p) = Len(e[i]) + 1
             /\ Parsing!IsLetter(s[i]) => u[p] = s[i] /\ Len(e[i]) = p
             /\ ~Parsing!IsLetter(s[i]) => p \in Escapes(u)
<1> DEFINE n == Len(s)
           u == e[n]
           x == Len(e[i - 1])
           y == Len(e[i])
           c == Code(s[i])
           l == Len(u)
<1>1. n \in Nat /\ s[i] \in 0..255 /\ i \in 0..n /\ i - 1 \in 0..n /\ n \in 0..n
  BY DEF IsText, Texts
<1>2. x \in Nat /\ y \in Nat /\ l \in Nat /\ DOMAIN u = 1..l
  BY <1>1 DEF Texts
<1>3. y = x + Len(c) /\ y <= l /\ \A k \in 1..Len(c) : u[x + k] = c[k]
  BY CodesStay
<1>4. CASE Parsing!IsLetter(s[i])
  <2>1. Len(c) = 1 /\ c[1] = s[i] /\ s[i] # Parsing!Percent /\ s[i] # Parsing!Plus
    BY <1>1, <1>4, CodesAre
  <2> HIDE DEF c, u, x, y, l, n
  <2>2. 1 \in 1..1 /\ x + 1 \in 1..l /\ y = x + 1
    BY <1>2, <1>3, <2>1
  <2>3. u[x + 1] = s[i]
    BY <1>3, <2>1, <2>2
  <2>4. ByteAt(u, x + 1) = s[i] /\ NextAt(u, x + 1) = (x + 1) + 1
    BY <2>1, <2>3 DEF ByteAt, NextAt
  <2> QED
    BY <1>4, <2>2, <2>3, <2>4 DEF u, x, y, l, n
<1>5. CASE ~Parsing!IsLetter(s[i])
  <2>1. /\ Len(c) = 3 /\ c[1] = Parsing!Percent
        /\ 16 * Parsing!HexValue(c[2]) + Parsing!HexValue(c[3]) = s[i]
    BY <1>1, <1>5, CodesAre
  <2> HIDE DEF c, u, x, y, l, n
  <2>2. 1 \in 1..3 /\ 2 \in 1..3 /\ 3 \in 1..3
    OBVIOUS
  <2>3. u[x + 1] = Parsing!Percent /\ u[x + 2] = c[2] /\ u[x + 3] = c[3]
    BY <1>3, <2>1, <2>2
  <2>4. /\ x + 1 \in 1..l /\ (x + 1) + 1 = x + 2 /\ (x + 1) + 2 = x + 3
        /\ (x + 1) + 3 = y + 1
    BY <1>2, <1>3, <2>1
  <2>5. ByteAt(u, x + 1) = s[i] /\ NextAt(u, x + 1) = y + 1
    BY <2>1, <2>3, <2>4 DEF ByteAt, NextAt
  <2>6. x + 1 \in Escapes(u)
    BY <1>2, <2>3, <2>4 DEF Escapes
  <2> QED
    BY <1>5, <2>4, <2>5, <2>6 DEF u, x, y, l, n
<1> QED
  BY <1>4, <1>5

(* What EncodeUrl makes of a text without blanks is decoded to the text. *)
LEMMA UrlsComeBack ==
  ASSUME NEW s, IsText(s), \A i \in 1..Len(s) : s[i] # Parsing!Blank
  PROVE  Parsing!DecodeUrl(Parsing!EncodeUrl(s)) = s
<1> DEFINE n == Len(s)
<1>1. s \in Seq(Nat) /\ n \in Nat
  BY DEF IsText, Texts
<1>2. PICK e \in [0..n -> Texts] :
        /\ e[0] = <<>> /\ \A i \in 1..n : e[i] = e[i - 1] \o Code(s[i])
        /\ Parsing!EncodeUrl(s) = e[n]
  BY EncodeIs
<1> DEFINE u == e[n]
           L(i) == Len(e[i])
<1>3. IsText(u) /\ Decodable(u)
  BY <1>2, CodesStay
<1>4. ASSUME NEW i \in 1..n
      PROVE  /\ L(i - 1) + 1 \in 1..Len(u) /\ ByteAt(u, L(i - 1) + 1) = s[i]
             /\ NextAt(u, L(i - 1) + 1) = L(i) + 1
             /\ Parsing!IsLetter(s[i]) => u[L(i - 1) + 1] = s[i] /\ L(i) = L(i - 1) + 1
             /\ ~Parsing!IsLetter(s[i]) => L(i - 1) + 1 \in Escapes(u)
  BY <1>2, CodesAreRead
<1>5. PICK d \in [Nat -> Texts] :
        /\ \A i \in Nat : i > Len(u) => d[i] = <<>>
        /\ \A i \in 1..Len(u) : d[i] = <<ByteAt(u, i)>> \o d[NextAt(u, i)]
        /\ Parsing!DecodeUrl(u) = IF Escapes(u) = {} THEN u ELSE d[1]
  BY <1>3, DecodeIs
<1>6. u \in Seq(Nat) /\ Len(u) \in Nat
  BY <1>3 DEF IsText, Texts
<1>7. \A i \in 0..n : L(i) \in Nat
  BY <1>1 DEF Texts
<1>8. L(0) = 0 /\ L(n) = Len(u)
  BY <1>2
<1> HIDE DEF n, u, L
<1>9. CASE Escapes(u) = {}
  <2> DEFINE G == {i \in 0..n : L(i) = i}
  <2>1. 0 \in G
    BY <1>1, <1>8
  <2>2. ASSUME NEW i \in 1..n, i - 1 \in G PROVE i \in G
    <3>1. L(i - 1) = i - 1 /\ L(i) = L(i - 1) + 1 /\ i \in 0..n
      BY <1>1, <1>4, <1>9, <2>2
    <3> QED
      BY <3>1
  <2>3. G \in SUBSET (0..n)
    OBVIOUS
  <2>4. \A i \in 0..n : L(i) = i
    <3> HIDE DEF G
    <3>1. \A i \in 0..n : i \in G
      BY <1>1, <2>1, <2>2, <2>3, Upwards
    <3> QED
      BY <3>1 DEF G
  <2>5. Len(u) = n
    BY <1>1, <1>8, <2>4
  <2>6. ASSUME NEW i \in 1..n PROVE u[i] = s[i]
    <3>1. i - 1 \in 0..n /\ (i - 1) + 1 = i
      BY <1>1
    <3> QED
      BY <1>4, <1>9, <2>4, <3>1
  <2>7. u = s
    BY <1>1, <1>6, <2>5, <2>6, SeqEqual DEF n
  <2> QED
    BY <1>2, <1>5, <1>9, <2>7 DEF u
<1>10. CASE Escapes(u) # {}
  <2> DEFINE Rest(i) == d[L(i) + 1]
             Reads(i) == /\ Len(Rest(i)) = n - i
                         /\ \A k \in 1..(n - i) : Rest(i)[k] = s[i + k]
             G == {j \in 0..n : Reads(n - j)}
  <2>1. Reads(n)
    <3>1. Rest(n) = <<>>
      BY <1>5, <1>6, <1>8
    <3>2. n - n = 0 /\ 1..0 = {}
      BY <1>1
    <3> HIDE DEF Rest
    <3> QED
      BY <3>1, <3>2
  <2>2. ASSUME NEW i \in 1..n, Reads(i) PROVE Reads(i - 1)
    <3> DEFINE r == Rest(i)
               q == Rest(i - 1)
    <3>1. q = <<s[i]>> \o r
      <4>1. q = <<ByteAt(u, L(i - 1) + 1)>> \o d[NextAt(u, L(i - 1) + 1)]
        BY <1>4, <1>5
      <4> QED
        BY <1>4, <4>1
    <3>2. r \in Seq(Nat) /\ s[i] \in Nat /\ i \in 0..n
      <4>1. i \in 0..n /\ L(i) + 1 \in Nat
        BY <1>1, <1>7
      <4>2. s[i] \in Nat
        BY <1>1 DEF n
      <4> QED
        BY <4>1, <4>2 DEF Texts
    <3>3. Len(r) = n - i /\ \A k \in 1..(n - i) : r[k] = s[i + k]
      BY <2>2
    <3> HIDE DEF Rest, r, q
    <3>4. /\ Len(q) = 1 + Len(r)
          /\ \A k \in 1..(1 + Len(r)) : q[k] = IF k = 1 THEN s[i] ELSE r[k - 1]
      BY <3>1, <3>2
    <3>5. n - (i - 1) = 1 + (n - i)
      BY <1>1
    <3>6. ASSUME NEW k \in 1..(1 + (n - i)) PROVE q[k] = s[(i - 1) + k]
      <4>1. CASE k = 1
        <5>1. (i - 1) + k = i
          BY <1>1, <4>1
        <5> QED
          BY <3>3, <3>4, <4>1, <5>1
      <4>2. CASE k # 1
        <5>1. k - 1 \in 1..(n - i) /\ i + (k - 1) = (i - 1) + k
          BY <1>1, <4>2
        <5> QED
          BY <3>3, <3>4, <4>2, <5>1
      <4> QED
        BY <4>1, <4>2
    <3> QED
      BY <3>3, <3>4, <3>5, <3>6 DEF q
  <2> HIDE DEF Reads
  <2>3. 0 \in G
    <3>1. n - 0 = n /\ 0 \in 0..n
      BY <1>1
    <3> QED
      BY <2>1, <3>1
  <2>4. ASSUME NEW j \in 1..n, j - 1 \in G PROVE j \in G
    <3>1. n - (j - 1) \in 1..n /\ (n - (j - 1)) - 1 = n - j /\ j \in 0..n
      BY <1>1
    <3>2. Reads(n - (j - 1))
      BY <2>4
    <3>3. Reads((n - (j - 1)) - 1)
      BY <2>2, <3>1, <3>2
    <3> QED
      BY <3>1, <3>3
  <2>5. Reads(0)
    <3>1. G \in SUBSET (0..n)
      OBVIOUS
    <3>2. n \in G
      <4> HIDE DEF G
      <4>1. n \in 0..n
        BY <1>1
      <4> QED
        BY <1>1, <2>3, <2>4, <3>1, <4>1, Upwards
    <3>3. n - n = 0
      BY <1>1
    <3> QED
      BY <3>2, <3>3
  <2>6. Len(d[1]) = n /\ \A k \in 1..n : d[1][k] = s[k]
    <3>1. L(0) + 1 = 1 /\ n - 0 = n /\ \A k \in 1..n : 0 + k = k
      BY <1>1, <1>8
    <3> QED
      BY <2>5, <3>1 DEF Reads
  <2>7. d[1] \in Seq(Nat)
    BY DEF Texts
  <2>8. d[1] = s
    BY <1>1, <2>6, <2>7, SeqEqual DEF n
  <2> QED
    BY <1>2, <1>5, <1>10, <2>8 DEF u
<1> QED
  BY <1>9, <1>10

(* EncodeUrl counts what it will escape: two more bytes for each of these. *)
LEMMA CodesAreCounted ==
  ASSUME NEW s, IsText(s), \A i \in 1..Len(s) : s[i] # Parsing!Blank
  PROVE  Len(Parsing!EncodeUrl(s)) =
           Len(s) + 2 * Cardinality({i \in DOMAIN s : Parsing!GetUrlEncMapPos(s[i])})
<1> DEFINE n == Len(s)
           Counted(i) == {j \in 1..i : Parsing!GetUrlEncMapPos(s[j])}
<1>1. n \in Nat /\ DOMAIN s = 1..n /\ \A i \in 1..n : s[i] \in 0..255
  BY DEF IsText, Texts
<1>2. PICK e \in [0..n -> Texts] :
        /\ e[0] = <<>> /\ \A i \in 1..n : e[i] = e[i - 1] \o Code(s[i])
        /\ Parsing!EncodeUrl(s) = e[n]
  BY EncodeIs
<1>3. \A i \in 1..n : Len(e[i]) = Len(e[i - 1]) + Len(Code(s[i]))
  BY <1>2, CodesStay
<1>4. \A i \in 1..n : Len(Code(s[i])) = IF Parsing!GetUrlEncMapPos(s[i]) THEN 3 ELSE 1
  <2> TAKE i \in 1..n
  <2>1. ASSUME NEW c \in 0..255
        PROVE  Len(Code(c)) = IF Parsing!IsLetter(c) THEN 1 ELSE 3
    <3>1. CASE Parsing!IsLetter(c)
      BY <3>1, CodesAre
    <3>2. CASE ~Parsing!IsLetter(c)
      BY <3>2, CodesAre
    <3> QED
      BY <3>1, <3>2
  <2>2. s[i] \in 0..255
    BY <1>1
  <2>3. Len(Code(s[i])) = IF Parsing!IsLetter(s[i]) THEN 1 ELSE 3
    BY <2>1, <2>2, Zenon
  <2> QED
    BY <2>3 DEF Parsing!GetUrlEncMapPos
<1>5. \A i \in 0..n : Len(e[i]) \in Nat
  BY <1>2 DEF Texts
<1> HIDE DEF n
<1> DEFINE G == {i \in 0..n : /\ IsFiniteSet(Counted(i)) /\ Cardinality(Counted(i)) \in Nat
                              /\ Len(e[i]) = i + 2 * Cardinality(Counted(i))}
<1>6. 0 \in G
  <2>1. Counted(0) = {}
    OBVIOUS
  <2>2. Len(e[0]) = 0
    BY <1>2
  <2>3. IsFiniteSet(Counted(0)) /\ Cardinality(Counted(0)) = 0
    BY <2>1, FS_EmptySet, Zenon
  <2> HIDE DEF Counted
  <2> DEFINE k == Cardinality(Counted(0))
             l == Len(e[0])
  <2>4. k = 0 /\ l = 0
    BY <2>2, <2>3
  <2> HIDE DEF k, l
  <2>5. 0 \in 0..n /\ k \in Nat /\ l = 0 + 2 * k
    BY <1>1, <2>4
  <2> QED
    BY <2>3, <2>5, Zenon DEF k, l
<1>7. ASSUME NEW i \in 1..n, i - 1 \in G PROVE i \in G
  <2> DEFINE C == Counted(i - 1)
             k == Cardinality(C)
             a == Len(e[i - 1])
             b == Len(e[i])
  <2>1. i \in 0..n /\ i \in 1..i /\ i \notin 1..(i - 1) /\ 1..i = (1..(i - 1)) \union {i}
    BY <1>1
  <2>2. IsFiniteSet(C) /\ k \in Nat /\ a = (i - 1) + 2 * k
    BY <1>7
  <2>3. CASE Parsing!GetUrlEncMapPos(s[i])
    <3>1. Counted(i) = C \union {i} /\ i \notin C
      BY <2>1, <2>3
    <3>2. b = a + 3
      BY <1>3, <1>4, <2>3
    <3> HIDE DEF C, a, b, Counted
    <3>3. IsFiniteSet(Counted(i)) /\ Cardinality(Counted(i)) = k + 1
      BY <2>2, <3>1, FS_AddElement
    <3> HIDE DEF k
    <3>4. b = i + 2 * (k + 1) /\ k + 1 \in Nat
      BY <1>1, <2>2, <3>2
    <3> QED
      BY <2>1, <3>3, <3>4 DEF b
  <2>4. CASE ~Parsing!GetUrlEncMapPos(s[i])
    <3>1. Counted(i) = C
      BY <2>1, <2>4
    <3>2. b = a + 1
      BY <1>3, <1>4, <2>4
    <3> HIDE DEF C, a, b, Counted
    <3>3. IsFiniteSet(Counted(i)) /\ Cardinality(Counted(i)) = k
      BY <2>2, <3>1
    <3> HIDE DEF k
    <3>4. b = i + 2 * k
      BY <1>1, <2>2, <3>2
    <3> QED
      BY <2>1, <2>2, <3>3, <3>4 DEF b
  <2> QED
    BY <2>3, <2>4
<1>8. n \in G
  <2>1. G \in SUBSET (0..n) /\ n \in 0..n
    BY <1>1
  <2> HIDE DEF G
  <2> QED
    BY <1>1, <1>6, <1>7, <2>1, Upwards
<1>9. Counted(n) = {i \in DOMAIN s : Parsing!GetUrlEncMapPos(s[i])}
  BY <1>1
<1> HIDE DEF Counted
<1> QED
  BY <1>2, <1>8, <1>9 DEF n

LEMMA BytesAreTexts ==
  ASSUME NEW s \in Seq(0..255)
  PROVE  IsText(s)
<1>1. Len(s) \in Nat /\ \A i \in 1..Len(s) : s[i] \in 0..255
  BY LenProperties
<1>2. \A c : c \in 0..255 => c \in Nat
  OBVIOUS
<1>3. s \in [1..Len(s) -> 0..255]
  BY LenProperties
<1>4. s \in [1..Len(s) -> Nat]
  BY <1>2, <1>3, Zenon
<1>5. s \in Seq(Nat)
  BY <1>1, <1>4, IsASeq
<1> QED
  BY <1>1, <1>5 DEF IsText, Texts

(***************************************************************************)
(* What MCTexts's EncodingsAgree says of URLs, for texts of any length.  A *)
(* text without blanks fills the length that EncodeUrl counts, and comes   *)
(* back from DecodeUrl.  Any text that DecodeUrl does not refuse loses two *)
(* bytes for every escape, as counted, and is made of bytes again.         *)
(***************************************************************************)
THEOREM UrlsAreKept ==
  ASSUME NEW s \in Seq(0..255)
  PROVE  LET url     == Parsing!EncodeUrl(s)
             plain   == Parsing!DecodeUrl(s)
             encoded == {i \in DOMAIN s : Parsing!GetUrlEncMapPos(s[i])}
             escapes == {i \in DOMAIN s : s[i] = Parsing!Percent}
         IN  /\ (\A i \in DOMAIN s : s[i] # Parsing!Blank) =>
                  /\ Parsing!DecodeUrl(url) = s
                  /\ Len(url) = Len(s) + 2 * Cardinality(encoded)
             /\ plain # Parsing!BadUrl =>
                  /\ Len(plain) = Len(s) - 2 * Cardinality(escapes)
                  /\ \A i \in DOMAIN plain : plain[i] \in 0..255
<1> DEFINE url     == Parsing!EncodeUrl(s)
           plain   == Parsing!DecodeUrl(s)
           encoded == {i \in DOMAIN s : Parsing!GetUrlEncMapPos(s[i])}
<1>1. Len(s) \in Nat /\ DOMAIN s = 1..Len(s) /\ \A i \in 1..Len(s) : s[i] \in 0..255
  BY LenProperties
<1>2. IsText(s)
  BY BytesAreTexts
<1>3. ASSUME \A i \in DOMAIN s : s[i] # Parsing!Blank
      PROVE  Parsing!DecodeUrl(url) = s /\ Len(url) = Len(s) + 2 * Cardinality(encoded)
  <2>1. \A i \in 1..Len(s) : s[i] # Parsing!Blank
    BY <1>1, <1>3, Zenon
  <2>2. Parsing!DecodeUrl(url) = s
    BY <1>2, <2>1, UrlsComeBack
  <2>3. Len(url) = Len(s) + 2 * Cardinality(encoded)
    BY <1>2, <2>1, CodesAreCounted
  <2> QED
    BY <2>2, <2>3
<1>4. ASSUME plain # Parsing!BadUrl
      PROVE  /\ Len(plain) = Len(s) - 2 * Cardinality(Escapes(s))
             /\ \A i \in DOMAIN plain : plain[i] \in 0..255
  <2>1. Decodable(s)
    <3> DEFINE Refused == \E i \in Escapes(s) :
                 \/ i > Len(s) - 2
                 \/ ~Parsing!IsHex(s[i + 1]) \/ ~Parsing!IsHex(s[i + 2])
    <3>0. Refused => plain = Parsing!BadUrl
      BY DEF Parsing!DecodeUrl, Escapes
    <3>1. \A i \in Escapes(s) : ~(\/ i > Len(s) - 2
                                  \/ ~Parsing!IsHex(s[i + 1]) \/ ~Parsing!IsHex(s[i + 2]))
      BY <1>4, <3>0
    <3>2. \A i \in Escapes(s) : i \in Nat /\ Len(s) \in Nat
      BY <1>1 DEF Escapes
    <3> QED
      BY <3>1, <3>2 DEF Decodable
  <2>2. /\ plain \in Seq(Nat) /\ \A i \in 1..Len(plain) : plain[i] \in 0..255
        /\ Len(plain) = Len(s) - 2 * Cardinality(Escapes(s))
    BY <1>2, <2>1, DecodingFits DEF Texts
  <2> HIDE DEF plain
  <2>3. DOMAIN plain = 1..Len(plain)
    BY <2>2
  <2> QED
    BY <2>2, <2>3
<1> QED
  BY <1>3, <1>4 DEF Escapes

-----------------------------------------------------------------------------
(* Integers that are written *)

LEMMA ValueOfMore ==
  ASSUME NEW s \in Texts, NEW c \in Nat, NEW base \in Nat
  PROVE  Parsing!Value(s \o <<c>>, base) =
           Parsing!Value(s, base) * base + Parsing!charToInt(c, base)
<1> DEFINE n == Len(s)
           t == s \o <<c>>
           V(i) == Values(s, base)[i]
           W(i) == Values(t, base)[i]
<1>1. n \in Nat /\ n \in 0..n /\ s \in Seq(Nat)
  BY DEF Texts
<1>2. t \in Texts /\ Len(t) = n + 1 /\ t[n + 1] = c /\ \A i \in 1..n : t[i] = s[i]
  BY <1>1 DEF Texts
<1>3. /\ Parsing!Value(s, base) = V(n) /\ V(0) = 0
      /\ \A i \in 1..n : V(i) = V(i - 1) * base + Digit(s, i, base)
  BY ValuesAre
<1>4. /\ Parsing!Value(t, base) = W(Len(t)) /\ W(0) = 0
      /\ \A i \in 1..Len(t) : W(i) = W(i - 1) * base + Digit(t, i, base)
  BY <1>2, ValuesAre
<1> HIDE DEF n, t, V, W
<1> DEFINE G == {i \in 0..n : V(i) = W(i)}
<1>5. 0 \in G
  BY <1>1, <1>3, <1>4
<1>6. ASSUME NEW i \in 1..n, i - 1 \in G PROVE i \in G
  <2>1. i \in 0..n /\ i \in 1..(n + 1) /\ V(i - 1) = W(i - 1)
    BY <1>1, <1>6
  <2>2. Digit(s, i, base) = Digit(t, i, base)
    BY <1>2 DEF Digit
  <2> QED
    BY <1>2, <1>3, <1>4, <2>1, <2>2
<1>7. V(n) = W(n)
  <2>1. G \in SUBSET (0..n)
    OBVIOUS
  <2>2. \A i \in 0..n : i \in G
    <3> HIDE DEF G
    <3> QED
      BY <1>1, <1>5, <1>6, <2>1, Upwards
  <2> QED
    BY <1>1, <2>2
<1>8. W(n + 1) = W(n) * base + Digit(t, n + 1, base)
  <2>1. n + 1 \in 1..(n + 1) /\ (n + 1) - 1 = n
    BY <1>1
  <2> QED
    BY <1>2, <1>4, <2>1
<1> QED
  BY <1>2, <1>3, <1>4, <1>7, <1>8 DEF t, Digit

(* One decimal digit or more, and nothing else. *)
IsDecimal(s) == s \in Texts /\ Len(s) > 0 /\ \A i \in 1..Len(s) : s[i] \in 48..57

(* A number with l digits, up to the seven that EncodeHtml has room for. *)
HasDigits(k, l) ==
  /\ k < 10 => l = 1
  /\ k < 100 => l <= 2
  /\ k < 1000 => l <= 3
  /\ k < 10000 => l <= 4
  /\ k < 100000 => l <= 5
  /\ k < 1000000 => l <= 6
  /\ k < 10000000 => l <= 7

LEMMA DigitsAre ==
  ASSUME NEW n \in Nat
  PROVE  LET d == Parsing!Digits(n, 10)
         IN  IsDecimal(d) /\ Parsing!Value(d, 10) = n /\ HasDigits(n, Len(d))
<1> DEFINE Body(g, k) == (IF k < 10 THEN <<>> ELSE g[k \div 10]) \o <<Parsing!HexDigit(k % 10)>>
           dig == CHOOSE g : g = [k \in 0..n |-> Body(g, k)]
           m == n + 1
           next == [i \in 1..m |-> IF m - i < 10 THEN m + 1 ELSE m - ((m - i) \div 10)]
           step == [i \in 1..m |-> [x \in Texts |-> x \o <<Parsing!HexDigit((m - i) % 10)>>]]
<1>1. Parsing!Digits(n, 10) = dig[n]
  BY DEF Parsing!Digits
<1>2. \A k \in Nat : /\ k % 10 \in 0..9 /\ k \div 10 \in Nat /\ k = (k \div 10) * 10 + (k % 10)
                     /\ k >= 10 => k \div 10 < k
  OBVIOUS
<1>3. \A v \in 0..9 : Parsing!HexDigit(v) = 48 + v
  BY DEF Parsing!HexDigit
<1>4. \A k \in Nat : Parsing!HexDigit(k % 10) \in Nat
  <2> TAKE k \in Nat
  <2>1. k % 10 \in 0..9 /\ Parsing!HexDigit(k % 10) = 48 + (k % 10)
    BY <1>2, <1>3
  <2> QED
    BY <2>1
<1>5. dig = [k \in 0..n |-> Body(dig, k)]
  <2>1. m \in Nat /\ next \in [1..m -> Nat] /\ \A i \in 1..m : next[i] > i
    <3>1. ASSUME NEW i \in 1..m
          PROVE  LET j == IF m - i < 10 THEN m + 1 ELSE m - ((m - i) \div 10)
                 IN  j \in Nat /\ j > i
      <4> DEFINE k == m - i
                 q == k \div 10
      <4>1. k \in Nat /\ m = i + k
        OBVIOUS
      <4>2. q \in Nat /\ (k >= 10 => q < k)
        BY <1>2, <4>1
      <4> HIDE DEF k, q
      <4>3. CASE k < 10
        <5>1. m + 1 \in Nat /\ m + 1 > i
          OBVIOUS
        <5> QED
          BY <4>3, <5>1 DEF k
      <4>4. CASE ~(k < 10)
        <5>1. m - q \in Nat /\ m - q > i
          BY <4>1, <4>2, <4>4
        <5> QED
          BY <4>4, <5>1 DEF k, q
      <4> QED
        BY <4>3, <4>4
    <3> QED
      BY <3>1
  <2>2. step \in [1..m -> [Texts -> Texts]]
    <3>1. \A i \in 1..m, x \in Texts : x \o <<Parsing!HexDigit((m - i) % 10)>> \in Texts
      <4> TAKE i \in 1..m, x \in Texts
      <4>1. m - i \in Nat
        OBVIOUS
      <4>2. Parsing!HexDigit((m - i) % 10) \in Nat
        BY <1>4, <4>1
      <4> QED
        BY <4>2 DEF Texts
    <3> QED
      BY <3>1
  <2>3. PICK f \in [Nat -> Texts] : Backward(f, <<>>, m, step, next)
    <3> DEFINE z == <<>>
               Z == Texts
    <3>1. z \in Z /\ step \in [1..m -> [Z -> Z]]
      BY <2>2 DEF Texts
    <3> HIDE DEF z, Z, step, next, m
    <3>2. \E f \in [Nat -> Z] : Backward(f, z, m, step, next)
      BY <2>1, <3>1, BackwardRuns
    <3> QED
      BY <3>2 DEF z, Z
  <2> DEFINE h == [k \in 0..n |-> f[m - k]]
  <2>4. ASSUME NEW k \in 0..n PROVE h[k] = Body(h, k)
    <3>1. m - k \in 1..m /\ m - (m - k) = k /\ m - k \in Nat
      OBVIOUS
    <3> DEFINE j == next[m - k]
    <3>2. j \in Nat /\ f[j] \in Texts
      BY <2>1, <3>1
    <3>3. f[m - k] = step[m - k][f[j]]
      BY <2>3, <3>1 DEF Backward
    <3>4. step[m - k][f[j]] = f[j] \o <<Parsing!HexDigit(k % 10)>>
      BY <3>1, <3>2
    <3>5. CASE k < 10
      <4>1. j = m + 1
        BY <3>1, <3>5
      <4>10. m + 1 \in Nat /\ m + 1 \notin 1..m
        OBVIOUS
      <4>2. f[m + 1] = <<>>
        <5> HIDE DEF m, step, next
        <5> QED
          BY <2>3, <4>10 DEF Backward
      <4> QED
        BY <3>3, <3>4, <3>5, <4>1, <4>2
    <3>6. CASE ~(k < 10)
      <4>1. j = m - (k \div 10)
        BY <3>1, <3>6
      <4>2. k \div 10 \in 0..n
        <5>1. k \in Nat /\ k \div 10 \in Nat /\ k \div 10 < k
          BY <1>2, <3>6
        <5> QED
          BY <5>1
      <4>3. h[k \div 10] = f[j]
        BY <4>1, <4>2
      <4> QED
        BY <3>3, <3>4, <3>6, <4>3
    <3> QED
      BY <3>5, <3>6
  <2>5. h = [k \in 0..n |-> h[k]]
    OBVIOUS
  <2> HIDE DEF h, Body
  <2>6. h = [k \in 0..n |-> Body(h, k)]
    BY <2>4, <2>5
  <2> QED
    BY <2>6
<1> HIDE DEF dig
<1> DEFINE Good(k) == /\ IsDecimal(dig[k]) /\ Parsing!Value(dig[k], 10) = k
                      /\ HasDigits(k, Len(dig[k]))
           G == {i \in 0..n : \A k \in 0..i : Good(k)}
<1>6. ASSUME NEW k \in 0..n, k >= 10 => Good(k \div 10) PROVE Good(k)
  <2> DEFINE c == Parsing!HexDigit(k % 10)
             x == IF k < 10 THEN <<>> ELSE dig[k \div 10]
             q == k \div 10
             r == k % 10
  <2>1. k \in Nat /\ r \in 0..9 /\ q \in Nat /\ k = q * 10 + r /\ (k < 10 => q = 0)
    BY <1>2
  <2>2. c = 48 + r
    BY <1>3, <2>1
  <2>3. dig[k] = x \o <<c>>
    BY <1>5
  <2>4. /\ x \in Texts /\ (\A i \in 1..Len(x) : x[i] \in 48..57) /\ Parsing!Value(x, 10) = q
    <3>1. CASE k < 10
      <4>1. x = <<>> /\ <<>> \in Texts /\ Len(<<>>) = 0 /\ 1..0 = {}
        BY <3>1 DEF Texts
      <4>2. Parsing!Value(<<>>, 10) = 0
        BY <4>1, ValuesAre
      <4> QED
        BY <2>1, <3>1, <4>1, <4>2
    <3>2. CASE ~(k < 10)
      BY <1>6, <2>1, <3>2 DEF IsDecimal
    <3> QED
      BY <3>1, <3>2
  <2> HIDE DEF c, x, q, r
  <2>5. c \in 48..57 /\ c \in Nat /\ Parsing!charToInt(c, 10) = r
    BY <2>1, <2>2 DEF Parsing!charToInt
  <2>6. Parsing!Value(x \o <<c>>, 10) = q * 10 + r
    BY <2>4, <2>5, ValueOfMore
  <2>7. /\ x \o <<c>> \in Texts /\ Len(x \o <<c>>) > 0
        /\ \A i \in 1..Len(x \o <<c>>) : (x \o <<c>>)[i] \in 48..57
    <3> DEFINE y == x \o <<c>>
               l == Len(x)
    <3>1. l \in Nat /\ y \in Texts /\ Len(y) = l + 1
      BY <2>4, <2>5 DEF Texts
    <3>2. y[l + 1] = c /\ \A i \in 1..l : y[i] = x[i]
      BY <2>4, <2>5 DEF Texts
    <3> HIDE DEF y, l
    <3>3. \A i \in 1..(l + 1) : i \in 1..l \/ i = l + 1
      BY <3>1
    <3>4. \A i \in 1..(l + 1) : y[i] \in 48..57
      BY <2>4, <2>5, <3>2, <3>3 DEF l
    <3>5. Len(y) > 0
      BY <3>1
    <3> QED
      BY <3>1, <3>4, <3>5 DEF y
  <2>8. HasDigits(k, Len(x \o <<c>>))
    <3> DEFINE l == Len(x)
               a == Len(x \o <<c>>)
    <3>1. l \in Nat /\ a = l + 1
      BY <2>4, <2>5 DEF Texts
    <3>2. CASE k < 10
      <4>1. l = 0
        BY <3>2 DEF x
      <4> HIDE DEF l, a
      <4>2. a = 1 /\ \A j : j = 1 => j <= 2 /\ j <= 3 /\ j <= 4 /\ j <= 5 /\ j <= 6 /\ j <= 7
        BY <3>1, <4>1
      <4>3. HasDigits(k, a)
        BY <4>2 DEF HasDigits
      <4> QED
        BY <4>3 DEF a
    <3>3. CASE ~(k < 10)
      <4>1. HasDigits(q, l)
        BY <1>6, <2>1, <3>3 DEF x, q
      <4> HIDE DEF l, a
      <4>2. HasDigits(k, a)
        BY <2>1, <3>1, <3>3, <4>1 DEF HasDigits
      <4> QED
        BY <4>2 DEF a
    <3> QED
      BY <3>2, <3>3
  <2> QED
    BY <2>1, <2>3, <2>6, <2>7, <2>8 DEF IsDecimal
<1> HIDE DEF Good
<1>7. 0 \in G
  <2>1. Good(0)
    BY <1>6
  <2>2. 0 \in 0..n /\ \A k \in 0..0 : k = 0
    OBVIOUS
  <2> QED
    BY <2>1, <2>2
<1>8. ASSUME NEW i \in 1..n, i - 1 \in G PROVE i \in G
  <2>1. i \in 0..n /\ i \in Nat /\ \A k \in 0..i : k = i \/ k \in 0..(i - 1)
    OBVIOUS
  <2>2. i >= 10 => i \div 10 \in 0..(i - 1)
    <3>1. i \div 10 \in Nat /\ (i >= 10 => i \div 10 < i)
      BY <1>2, <2>1
    <3> QED
      BY <2>1, <3>1
  <2>3. Good(i)
    BY <1>6, <1>8, <2>1, <2>2
  <2> QED
    BY <1>8, <2>1, <2>3
<1>9. Good(n)
  <2>1. G \in SUBSET (0..n) /\ n \in 0..n
    OBVIOUS
  <2>2. n \in G
    <3> HIDE DEF G
    <3> QED
      BY <1>7, <1>8, <2>1, Upwards
  <2> QED
    BY <2>1, <2>2
<1> QED
  BY <1>1, <1>9 DEF Good

(* What is written of an integer: its sign, if it is negative, and digits. *)
LEMMA WrittenIs ==
  ASSUME NEW n \in Int
  PROVE  LET text == Parsing!ToCStringBase10(n).target
             abs  == IF n < 0 THEN -n ELSE n
         IN  /\ text \in Texts /\ text # <<>> /\ ~Parsing!TwoSigns(text)
             /\ Parsing!AreDigits(Parsing!Absolute(text), 10)
             /\ Parsing!Value(Parsing!Absolute(text), 10) = abs
             /\ Parsing!Sign(text) = IF n < 0 THEN -1 ELSE 1
             /\ n >= 0 => Parsing!Unsigned(text) = Parsing!Absolute(text)
<1> DEFINE text == Parsing!ToCStringBase10(n).target
           abs  == IF n < 0 THEN -n ELSE n
           d    == Parsing!Digits(abs, 10)
<1>1. abs \in Nat
  OBVIOUS
<1>2. IsDecimal(d) /\ Parsing!Value(d, 10) = abs
  BY <1>1, DigitsAre
<1>3. text = IF n < 0 THEN <<45>> \o d ELSE d
  BY DEF Parsing!ToCStringBase10, Parsing!Minus
<1> HIDE DEF text, abs, d
<1>4. d \in Seq(Nat) /\ Len(d) > 0 /\ Len(d) \in Nat /\ d # <<>> /\ d[1] \in 48..57
  BY <1>2 DEF IsDecimal, Texts
<1>5. Parsing!AreDigits(d, 10)
  <2>1. \A c \in 48..57 : Parsing!charToInt(c, 10) = c - 48
    BY DEF Parsing!charToInt
  <2>2. \A c \in 48..57 : c - 48 # -1
    OBVIOUS
  <2> QED
    BY <1>2, <2>1, <2>2 DEF Parsing!AreDigits, IsDecimal
<1>6. Parsing!Unsigned(d) = d /\ ~Parsing!Negative(d)
  BY <1>4 DEF Parsing!Unsigned, Parsing!Negative, Parsing!Plus, Parsing!Minus
<1>7. CASE n < 0
  <2>1. text = <<45>> \o d
    BY <1>3, <1>7
  <2>2. text \in Seq(Nat) /\ text # <<>> /\ text[1] = 45 /\ Tail(text) = d
    <3>1. text \in Seq(Nat) /\ Len(text) = 1 + Len(d) /\ text[1] = 45
      BY <1>4, <2>1
    <3>2. \A i \in 1..Len(d) : text[1 + i] = d[i]
      BY <1>4, <2>1
    <3>3. text # <<>>
      BY <1>4, <3>1
    <3>4. /\ Tail(text) \in Seq(Nat) /\ Len(Tail(text)) = Len(d)
          /\ \A i \in 1..Len(d) : Tail(text)[i] = text[1 + i]
      BY <1>4, <3>1, <3>3
    <3>5. Tail(text) = d
      BY <1>4, <3>2, <3>4, SeqEqual
    <3> QED
      BY <3>1, <3>3, <3>5
  <2>3. Parsing!Negative(text)
    BY <2>2 DEF Parsing!Negative, Parsing!Minus
  <2>4. Parsing!Absolute(text) = d /\ Parsing!Sign(text) = -1
    BY <2>2, <2>3 DEF Parsing!Absolute, Parsing!Sign
  <2>5. ~Parsing!TwoSigns(text)
    BY <1>6, <2>4 DEF Parsing!TwoSigns
  <2> QED
    BY <1>2, <1>5, <1>7, <2>2, <2>4, <2>5 DEF text, abs, Texts
<1>8. CASE ~(n < 0)
  <2>1. text = d
    BY <1>3, <1>8
  <2>2. Parsing!Absolute(text) = d /\ Parsing!Sign(text) = 1 /\ Parsing!Unsigned(text) = d
    BY <1>6, <2>1 DEF Parsing!Absolute, Parsing!Sign
  <2>3. ~Parsing!TwoSigns(text)
    BY <2>1, <2>2 DEF Parsing!TwoSigns
  <2> QED
    BY <1>2, <1>4, <1>5, <1>8, <2>1, <2>2, <2>3 DEF text, abs, Texts
<1> QED
  BY <1>7, <1>8

(***************************************************************************)
(* What ToCStringBase10 writes of any integer is read as this integer, by  *)
(* each of the six functions ToInt, if the type has it.                    *)
(***************************************************************************)
THEOREM WrittenIsRead ==
  ASSUME NEW n \in Int, NEW h \in Nat, h > 0
  PROVE  LET text  == Parsing!ToCStringBase10(n).target
             half  == 2 * h
             limit == (half * half) \div 2
         IN  /\ n \in -limit..(limit - 1) =>
                  /\ Parsing!FastSigned(text, 10, limit) = Parsing!Num(n)
                  /\ Parsing!SlowSigned(text, 10, limit) = Parsing!Num(n)
                  /\ Parsing!SlowSigned64(text, 10, half) = Parsing!Num(n)
             /\ n \in 0..(half * half - 1) =>
                  /\ Parsing!FastUnsigned(text, 10, half * half) = Parsing!Num(n)
                  /\ Parsing!SlowUnsigned(text, 10, half * half) = Parsing!Num(n)
                  /\ Parsing!SlowUnsigned64(text, 10, half) = Parsing!Num(n)
<1> DEFINE text  == Parsing!ToCStringBase10(n).target
           half  == 2 * h
           limit == (half * half) \div 2
           abs   == Parsing!Absolute(text)
           plain == Parsing!Unsigned(text)
           Signed(r) == Parsing!Is(r, Parsing!ValidBase(10) /\ Parsing!AreDigits(abs, 10),
                          Parsing!Sign(text) * Parsing!Value(abs, 10), -limit, limit - 1)
           Plain(r) == Parsing!Is(r, Parsing!ValidBase(10) /\ Parsing!AreDigits(plain, 10),
                          Parsing!Value(plain, 10), 0, half * half - 1)
<1>1. /\ text \in Texts /\ text # <<>> /\ ~Parsing!TwoSigns(text)
      /\ Parsing!AreDigits(abs, 10)
      /\ Parsing!Value(abs, 10) = IF n < 0 THEN -n ELSE n
      /\ Parsing!Sign(text) = IF n < 0 THEN -1 ELSE 1
      /\ n >= 0 => plain = abs
  BY WrittenIs
<1>2. Parsing!IntegersAreRead(text, 10, half)
  BY <1>1, IntegersAreExact DEF Texts
<1>3. /\ Signed(Parsing!FastSigned(text, 10, limit))
      /\ Plain(Parsing!FastUnsigned(text, 10, half * half))
      /\ text # <<>> => Signed(Parsing!SlowSigned(text, 10, limit))
      /\ Plain(Parsing!SlowUnsigned(text, 10, half * half))
      /\ Plain(Parsing!SlowUnsigned64(text, 10, half))
      /\ text # <<>> /\ ~Parsing!TwoSigns(text) => Signed(Parsing!SlowSigned64(text, 10, half))
  BY <1>2 DEF Parsing!IntegersAreRead
<1> HIDE DEF text, half, limit, abs, plain
<1>4. Parsing!ValidBase(10) /\ Parsing!Sign(text) * Parsing!Value(abs, 10) = n
  BY <1>1 DEF Parsing!ValidBase
<1>5. ASSUME n \in -limit..(limit - 1), NEW r, Signed(r) PROVE r = Parsing!Num(n)
  BY <1>1, <1>4, <1>5 DEF Parsing!Is
<1>6. ASSUME n \in 0..(half * half - 1), NEW r, Plain(r) PROVE r = Parsing!Num(n)
  <2>1. ~(n < 0) /\ n >= 0
    BY <1>6
  <2>2. plain = abs /\ Parsing!Value(plain, 10) = n
    BY <1>1, <2>1
  <2> QED
    BY <1>1, <1>4, <1>6, <2>2 DEF Parsing!Is
<1> HIDE DEF Signed, Plain
<1>7. ASSUME n \in -limit..(limit - 1)
      PROVE  /\ Parsing!FastSigned(text, 10, limit) = Parsing!Num(n)
             /\ Parsing!SlowSigned(text, 10, limit) = Parsing!Num(n)
             /\ Parsing!SlowSigned64(text, 10, half) = Parsing!Num(n)
  BY <1>1, <1>3, <1>5, <1>7
<1>8. ASSUME n \in 0..(half * half - 1)
      PROVE  /\ Parsing!FastUnsigned(text, 10, half * half) = Parsing!Num(n)
             /\ Parsing!SlowUnsigned(text, 10, half * half) = Parsing!Num(n)
             /\ Parsing!SlowUnsigned64(text, 10, half) = Parsing!Num(n)
  BY <1>3, <1>6, <1>8
<1> QED
  BY <1>7, <1>8 DEF text, half, limit

-----------------------------------------------------------------------------
(* HTML *)

Num(s, i) == Parsing!Utf8(s, i)[1]
Wide(s, i) == Parsing!Utf8(s, i)[2]

LEMMA WidthsAre ==
  ASSUME NEW s, NEW i
  PROVE  Wide(s, i) \in 1..4
<1>1. \A v : /\ <<v, 1>>[2] \in 1..4 /\ <<v, 2>>[2] \in 1..4
             /\ <<v, 3>>[2] \in 1..4 /\ <<v, 4>>[2] \in 1..4
  OBVIOUS
<1> QED
  BY <1>1, SMT DEF Wide, Parsing!Utf8

(* Its number and width, of the first byte and six bits of each other one. *)
Char(a, p, q, r) ==
  CASE a < 128 -> <<a, 1>>
    [] a \in 192..223 -> <<(a % 32) * 64 + p, 2>>
    [] a \in 224..239 -> <<((a % 16) * 64 + p) * 64 + q, 3>>
    [] a \in 240..247 -> <<(((a % 8) * 64 + p) * 64 + q) * 64 + r, 4>>
    [] OTHER -> <<-1, 1>>

(* How large a number n of the characters of w bytes may be. *)
OfWidth(n, w) ==
  /\ w = 1 => n < 1000
  /\ w = 2 => n < 10000
  /\ w = 3 => n < 100000
  /\ w = 4 => n < 10000000

(* With '&', '#' and ';' its digits take no more than six times the bytes. *)
LEMMA NumbersFit ==
  ASSUME NEW n \in Nat, NEW w \in 1..4, NEW l \in Nat, OfWidth(n, w), HasDigits(n, l)
  PROVE  l + 3 <= 6 * w
BY SMT DEF OfWidth, HasDigits

LEMMA CharIs ==
  ASSUME NEW a \in 0..255, NEW p \in 0..63, NEW q \in 0..63, NEW r \in 0..63
  PROVE  LET u == Char(a, p, q, r)
         IN  /\ u[1] \in Nat \/ u[1] = -1
             /\ u[2] = 1 => u[1] = -1 \/ u[1] = a
             /\ OfWidth(u[1], u[2])
<1> DEFINE u == Char(a, p, q, r)
<1>1. \A v, w : <<v, w>>[1] = v /\ <<v, w>>[2] = w
  OBVIOUS
<1>2. CASE a < 128
  <2>1. u = <<a, 1>>
    BY <1>2, SMT DEF Char
  <2>2. a \in Nat /\ OfWidth(a, 1)
    BY <1>2, SMT DEF OfWidth
  <2> HIDE DEF u
  <2> QED
    BY <1>1, <2>1, <2>2 DEF u
<1>3. CASE a \in 192..223
  <2> DEFINE v == (a % 32) * 64 + p
  <2>1. u = <<v, 2>>
    BY <1>3, SMT DEF Char
  <2>2. v \in Nat /\ OfWidth(v, 2)
    BY <1>3, SMT DEF OfWidth
  <2> HIDE DEF u, v
  <2> QED
    BY <1>1, <2>1, <2>2 DEF u
<1>4. CASE a \in 224..239
  <2> DEFINE v == ((a % 16) * 64 + p) * 64 + q
  <2>1. u = <<v, 3>>
    BY <1>4, SMT DEF Char
  <2>2. v \in Nat /\ OfWidth(v, 3)
    BY <1>4, SMT DEF OfWidth
  <2> HIDE DEF u, v
  <2> QED
    BY <1>1, <2>1, <2>2 DEF u
<1>5. CASE a \in 240..247
  <2> DEFINE v == (((a % 8) * 64 + p) * 64 + q) * 64 + r
  <2>1. u = <<v, 4>>
    BY <1>5, SMT DEF Char
  <2>2. v \in Nat /\ OfWidth(v, 4)
    BY <1>5, SMT DEF OfWidth
  <2> HIDE DEF u, v
  <2> QED
    BY <1>1, <2>1, <2>2 DEF u
<1>6. CASE ~(a < 128) /\ a \notin 192..247
  <2>1. u = <<-1, 1>>
    BY <1>6, SMT DEF Char
  <2>2. OfWidth(-1, 1)
    BY SMT DEF OfWidth
  <2> HIDE DEF u
  <2> QED
    BY <1>1, <2>1, <2>2 DEF u
<1> QED
  BY <1>2, <1>3, <1>4, <1>5, <1>6

LEMMA CharsAre ==
  ASSUME NEW s, IsText(s), NEW i \in 1..Len(s)
  PROVE  /\ Num(s, i) \in Nat \/ Num(s, i) = -1
         /\ Wide(s, i) = 1 => Num(s, i) = -1 \/ Num(s, i) = s[i]
         /\ OfWidth(Num(s, i), Wide(s, i))
<1> DEFINE a == s[i]
           Low(k) == Parsing!At(s, i + k) % 64
           p == Low(1)
           q == Low(2)
           r == Low(3)
<1>1. a \in 0..255
  BY DEF IsText
<1>2. \A k \in Int : k % 64 \in 0..63
  OBVIOUS
<1>3. \A j \in Nat : Parsing!At(s, j) \in Int
  BY DEF Parsing!At, IsText, Texts
<1>4. \A k \in {1, 2, 3} : i + k \in Nat
  BY DEF IsText, Texts
<1>5. p \in 0..63 /\ q \in 0..63 /\ r \in 0..63
  BY <1>2, <1>3, <1>4
<1>6. Parsing!Utf8(s, i) = Char(a, p, q, r)
  BY SMT DEF Parsing!Utf8, Char
<1> HIDE DEF a, Low, p, q, r
<1> DEFINE u == Char(a, p, q, r)
<1>7. /\ u[1] \in Nat \/ u[1] = -1
      /\ u[2] = 1 => u[1] = -1 \/ u[1] = a
      /\ OfWidth(u[1], u[2])
  BY <1>1, <1>5, CharIs
<1>8. Num(s, i) = u[1] /\ Wide(s, i) = u[2]
  BY <1>6 DEF Num, Wide
<1> HIDE DEF u
<1> QED
  BY <1>7, <1>8 DEF a

(* What is written for the character at i. *)
Written(s, i) ==
  IF Num(s, i) \in (32..126) \ {34, 38, 60, 62}
    THEN <<Parsing!At(s, i + Wide(s, i) - 1)>>
  ELSE <<38, 35>> \o Parsing!Digits(Num(s, i), 10) \o <<59>>

Htmls == Seq(Int)

LEMMA WrittenAre ==
  ASSUME NEW s, IsText(s), NEW i \in 1..Len(s), Num(s, i) # -1
  PROVE  Written(s, i) \in Htmls
<1>1. Num(s, i) \in Nat
  BY CharsAre
<1> DEFINE j == i + Wide(s, i) - 1
           d == Parsing!Digits(Num(s, i), 10)
<1>2. d \in Seq(Nat)
  BY <1>1, DigitsAre DEF IsDecimal, Texts
<1>3. Parsing!At(s, j) \in Int
  BY DEF Parsing!At, IsText, Texts
<1>4. <<Parsing!At(s, j)>> \in Seq(Int)
  BY <1>3
<1> HIDE DEF d
<1>5. d \in Seq(Int)
  BY <1>2
<1>6. <<38, 35>> \o d \o <<59>> \in Seq(Int)
  BY <1>5
<1> QED
  BY <1>4, <1>6 DEF Written, Htmls, d

(***************************************************************************)
(* EncodeHtml goes from character to character and puts what is written    *)
(* for one before what is written for the rest, unless one of them is bad. *)
(***************************************************************************)
LEMMA EncodedHtmlIs ==
  ASSUME NEW s, IsText(s)
  PROVE  \E e :
           /\ \A i \in Nat : i > Len(s) => e[i] = <<>>
           /\ \A i \in 1..Len(s) :
                e[i] = IF Num(s, i) = -1 \/ e[i + Wide(s, i)] = Parsing!BadHtml
                         THEN Parsing!BadHtml
                       ELSE Written(s, i) \o e[i + Wide(s, i)]
           /\ Parsing!EncodeHtml(s) = e[1]
<1> DEFINE n == Len(s)
           Bad == Parsing!BadHtml
           Joined(i, x) == IF Num(s, i) = -1 \/ x = Bad THEN Bad ELSE Written(s, i) \o x
           next == [i \in 1..n |-> i + Wide(s, i)]
           step == [i \in 1..n |-> [x \in Htmls |-> Joined(i, x)]]
           Body(g, i) == IF i > n THEN <<>> ELSE Joined(i, g[i + Wide(s, i)])
           enc == CHOOSE g : g = [i \in Nat |-> Body(g, i)]
<1>0. n \in Nat
  BY DEF IsText, Texts
<1>1. Parsing!EncodeHtml(s) = enc[1]
  <2> DEFINE Raw(g, i) ==
        IF i > n THEN <<>>
        ELSE IF Num(s, i) = -1 \/ g[i + Wide(s, i)] = Bad THEN Bad
        ELSE IF Num(s, i) \in (32..126) \ {34, 38, 60, 62}
          THEN <<Parsing!At(s, i + Wide(s, i) - 1)>> \o g[i + Wide(s, i)]
        ELSE <<38, 35>> \o Parsing!Digits(Num(s, i), 10) \o <<59>> \o g[i + Wide(s, i)]
  <2>1. Parsing!EncodeHtml(s) = (CHOOSE g : g = [i \in Nat |-> Raw(g, i)])[1]
    BY DEF Parsing!EncodeHtml, Num, Wide
  <2>2. ASSUME NEW g, NEW i PROVE Raw(g, i) = Body(g, i)
    BY DEF Written
  <2> HIDE DEF Raw, Body
  <2>3. ASSUME NEW g PROVE [i \in Nat |-> Raw(g, i)] = [i \in Nat |-> Body(g, i)]
    BY <2>2
  <2> QED
    BY <2>1, <2>3
<1> HIDE DEF n, Bad
<1>2. Bad \in Htmls /\ <<>> \in Htmls
  BY DEF Bad, Parsing!BadHtml, Htmls
<1>3. ASSUME NEW i \in 1..n, NEW x \in Htmls PROVE Joined(i, x) \in Htmls
  <2>1. Num(s, i) # -1 => Written(s, i) \in Htmls
    BY WrittenAre DEF n
  <2> QED
    BY <1>2, <2>1 DEF Htmls
<1>4. \A i \in Nat : i + Wide(s, i) \in Nat \ {0} /\ i + Wide(s, i) > i
  BY WidthsAre
<1> HIDE DEF Joined
<1>5. step \in [1..n -> [Htmls -> Htmls]]
  BY <1>3
<1>6. next \in [1..n -> Nat] /\ \A i \in 1..n : next[i] > i /\ next[i] = i + Wide(s, i)
  BY <1>0, <1>4
<1>7. \A i \in 1..n, x \in Htmls : step[i][x] = Joined(i, x)
  OBVIOUS
<1> HIDE DEF step, next
<1>8. PICK f \in [Nat -> Htmls] : Backward(f, <<>>, n, step, next)
  <2> DEFINE z == <<>>
             Z == Htmls
  <2>1. z \in Z /\ step \in [1..n -> [Z -> Z]]
    BY <1>2, <1>5
  <2> HIDE DEF z, Z
  <2>2. \E f \in [Nat -> Z] : Backward(f, z, n, step, next)
    BY <1>0, <1>6, <2>1, BackwardRuns
  <2> QED
    BY <2>2 DEF z, Z
<1>9. /\ \A i \in Nat : i > n => f[i] = <<>>
      /\ \A i \in 1..n : f[i] = Joined(i, f[i + Wide(s, i)])
  <2>1. ASSUME NEW i \in Nat, i > n PROVE f[i] = <<>>
    BY <1>0, <1>8, <2>1 DEF Backward
  <2>2. ASSUME NEW i \in 1..n PROVE f[i] = Joined(i, f[i + Wide(s, i)])
    <3>1. i \in Nat /\ i + Wide(s, i) \in Nat
      BY <1>0, <1>4
    <3>2. f[i] = step[i][f[next[i]]]
      BY <1>8, <3>1 DEF Backward
    <3> QED
      BY <1>6, <1>7, <3>1, <3>2
  <2> QED
    BY <2>1, <2>2
<1> DEFINE h == [i \in Nat |-> IF i = 0 THEN Body(f, 0) ELSE f[i]]
<1>10. h = [i \in Nat |-> Body(h, i)]
  <2>1. \A i \in Nat \ {0} : h[i] = f[i]
    OBVIOUS
  <2>2. ASSUME NEW i \in Nat PROVE h[i] = Body(h, i)
    <3> DEFINE j == i + Wide(s, i)
    <3>1. j \in Nat \ {0} /\ h[j] = f[j]
      BY <1>4, <2>1
    <3> HIDE DEF j
    <3>2. Body(h, i) = Body(f, i)
      BY <3>1 DEF j
    <3>3. CASE i = 0
      <4>1. h[0] = Body(f, 0)
        OBVIOUS
      <4> QED
        BY <3>2, <3>3, <4>1
    <3>4. CASE i > n /\ i # 0
      BY <1>9, <2>1, <3>4
    <3>5. CASE i \in 1..n
      <4>1. ~(i > n) /\ i # 0
        BY <1>0, <3>5
      <4> QED
        BY <1>9, <2>1, <3>2, <3>5, <4>1
    <3> QED
      BY <1>0, <3>3, <3>4, <3>5
  <2> HIDE DEF h
  <2>3. h = [i \in Nat |-> h[i]]
    BY DEF h
  <2> HIDE DEF Body
  <2> QED
    BY <2>2, <2>3
<1>11. enc = [i \in Nat |-> Body(enc, i)]
  <2> HIDE DEF h, Body
  <2> QED
    BY <1>10
<1> HIDE DEF enc
<1>12. \A i \in Nat : i > n => enc[i] = <<>>
  BY <1>11
<1>13. \A i \in 1..n : enc[i] = Joined(i, enc[i + Wide(s, i)])
  <2> TAKE i \in 1..n
  <2>1. i \in Nat /\ ~(i > n)
    BY <1>0
  <2> QED
    BY <1>11, <2>1
<1> QED
  BY <1>1, <1>12, <1>13 DEF n, Bad, Joined

(***************************************************************************)
(* Harmless: no byte means something to a browser but the '&' that begins  *)
(* the number of a character.                                              *)
(***************************************************************************)
Harmless(x) ==
  /\ x \in Seq(Nat)
  /\ \A i \in 1..Len(x) : /\ x[i] \in (32..126) \ {34, 60, 62}
                          /\ x[i] = 38 => i < Len(x) /\ x[i + 1] = 35

LEMMA HarmlessTogether ==
  ASSUME NEW x, NEW y, Harmless(x), Harmless(y)
  PROVE  Harmless(x \o y) /\ Len(x \o y) = Len(x) + Len(y)
<1> DEFINE z == x \o y
           l == Len(x)
           m == Len(y)
<1>1. x \in Seq(Nat) /\ y \in Seq(Nat) /\ l \in Nat /\ m \in Nat
  BY DEF Harmless
<1>2. /\ z \in Seq(Nat) /\ Len(z) = l + m
      /\ \A i \in 1..(l + m) : z[i] = IF i <= l THEN x[i] ELSE y[i - l]
  BY <1>1, ConcatProperties
<1>3. /\ \A i \in 1..l : /\ x[i] \in (32..126) \ {34, 60, 62}
                         /\ x[i] = 38 => i < l /\ x[i + 1] = 35
      /\ \A i \in 1..m : /\ y[i] \in (32..126) \ {34, 60, 62}
                         /\ y[i] = 38 => i < m /\ y[i + 1] = 35
  BY DEF Harmless
<1> HIDE DEF z, l, m
<1>4. ASSUME NEW i \in 1..(l + m)
      PROVE  /\ z[i] \in (32..126) \ {34, 60, 62}
             /\ z[i] = 38 => i < l + m /\ z[i + 1] = 35
  <2>1. CASE i <= l
    <3>1. i \in 1..l /\ z[i] = x[i]
      BY <1>1, <1>2, <2>1
    <3>2. ASSUME i < l PROVE i < l + m /\ z[i + 1] = x[i + 1]
      <4>1. i + 1 \in 1..(l + m) /\ i + 1 <= l
        BY <1>1, <3>2
      <4> QED
        BY <1>1, <1>2, <3>2, <4>1
    <3> QED
      BY <1>3, <3>1, <3>2
  <2>2. CASE ~(i <= l)
    <3>1. i - l \in 1..m /\ z[i] = y[i - l]
      BY <1>1, <1>2, <2>2
    <3>2. ASSUME i - l < m PROVE i < l + m /\ z[i + 1] = y[(i - l) + 1]
      <4>1. i + 1 \in 1..(l + m) /\ ~(i + 1 <= l) /\ (i + 1) - l = (i - l) + 1
        BY <1>1, <2>2, <3>2
      <4> QED
        BY <1>1, <1>2, <3>2, <4>1
    <3> QED
      BY <1>3, <3>1, <3>2
  <2> QED
    BY <2>1, <2>2
<1>5. Harmless(z)
  BY <1>2, <1>4 DEF Harmless
<1> QED
  BY <1>2, <1>5 DEF z, l, m

LEMMA PlainIs ==
  ASSUME NEW n, n \in (32..126) \ {34, 38, 60, 62}
  PROVE  n \in Nat /\ ~(n > 127) /\ n # 38 /\ n \in (32..126) \ {34, 60, 62}
OBVIOUS

LEMMA WrittenIsHarmless ==
  ASSUME NEW s, IsText(s), NEW i \in 1..Len(s), Num(s, i) # -1,
         Wide(s, i) = 1 \/ Num(s, i) > 127
  PROVE  Harmless(Written(s, i)) /\ Len(Written(s, i)) <= 6 * Wide(s, i)
<1> DEFINE n == Num(s, i)
           w == Wide(s, i)
           d == Parsing!Digits(n, 10)
<1>1. n \in Nat /\ w \in 1..4 /\ OfWidth(n, w)
  BY CharsAre, WidthsAre
<1>2. CASE n \in (32..126) \ {34, 38, 60, 62}
  <2>0. ~(n > 127) /\ n # 38 /\ n \in (32..126) \ {34, 60, 62}
    BY <1>2, PlainIs
  <2>1. w = 1
    BY <2>0, Zenon
  <2>2. n = s[i]
    BY <2>1, CharsAre
  <2>3. Parsing!At(s, i + w - 1) = n
    <3>1. i + w - 1 = i /\ i \in DOMAIN s
      BY <2>1 DEF IsText, Texts
    <3> QED
      BY <2>2, <3>1 DEF Parsing!At
  <2>4. Written(s, i) = <<n>>
    BY <1>2, <2>3 DEF Written
  <2> HIDE DEF n, w
  <2>5. Harmless(<<n>>) /\ Len(<<n>>) = 1 /\ 1 <= 6 * w
    <3>1. /\ <<n>> \in Seq(Nat) /\ Len(<<n>>) = 1
          /\ \A k \in 1..1 : <<n>>[k] \in (32..126) \ {34, 60, 62} /\ <<n>>[k] # 38
      BY <1>1, <2>0
    <3>2. Harmless(<<n>>)
      BY <3>1 DEF Harmless
    <3>3. 1 <= 6 * w
      BY <1>1
    <3> QED
      BY <3>1, <3>2, <3>3
  <2> QED
    BY <2>4, <2>5 DEF w
<1>3. CASE n \notin (32..126) \ {34, 38, 60, 62}
  <2>1. Written(s, i) = (<<38, 35>> \o d) \o <<59>>
    BY <1>3 DEF Written
  <2>2. IsDecimal(d) /\ HasDigits(n, Len(d))
    BY <1>1, DigitsAre
  <2> HIDE DEF n, w, d
  <2>3. Harmless(d) /\ Len(d) \in Nat
    <3>1. \A c \in 48..57 : c \in (32..126) \ {34, 60, 62} /\ c # 38
      OBVIOUS
    <3>2. d \in Seq(Nat) /\ Len(d) \in Nat /\ \A k \in 1..Len(d) : d[k] \in 48..57
      BY <2>2 DEF IsDecimal, Texts
    <3>3. ASSUME NEW k \in 1..Len(d)
          PROVE  d[k] \in (32..126) \ {34, 60, 62} /\ d[k] # 38
      BY <3>1, <3>2, Zenon
    <3> QED
      BY <3>2, <3>3 DEF Harmless
  <2>4. Harmless(<<38, 35>>) /\ Len(<<38, 35>>) = 2
    <3>1. \A k \in 1..2 : k = 1 \/ k = 2
      OBVIOUS
    <3> QED
      BY <3>1 DEF Harmless
  <2>5. Harmless(<<59>>) /\ Len(<<59>>) = 1
    <3>1. \A k \in 1..1 : k = 1
      OBVIOUS
    <3> QED
      BY <3>1 DEF Harmless
  <2>6. Harmless(<<38, 35>> \o d) /\ Len(<<38, 35>> \o d) = 2 + Len(d)
    BY <2>3, <2>4, HarmlessTogether
  <2>7. /\ Harmless((<<38, 35>> \o d) \o <<59>>)
        /\ Len((<<38, 35>> \o d) \o <<59>>) = (2 + Len(d)) + 1
    BY <2>5, <2>6, HarmlessTogether
  <2>8. Len(d) + 3 <= 6 * w
    BY <1>1, <2>2, <2>3, NumbersFit
  <2>9. (2 + Len(d)) + 1 <= 6 * w
    BY <1>1, <2>3, <2>8
  <2> QED
    BY <2>1, <2>7, <2>9 DEF w
<1> QED
  BY <1>2, <1>3

(***************************************************************************)
(* Unless a character has more bytes than it needs, nothing that           *)
(* EncodeHtml writes means something to a browser but the '&' and '#' of   *)
(* its own numbers.  If no character is cut off at the end, it is written  *)
(* in the memory of six bytes for each one that is read.                   *)
(***************************************************************************)
THEOREM HtmlIsHarmless ==
  ASSUME NEW s \in Seq(0..255),
         \A i \in DOMAIN s : LET c == Parsing!Utf8(s, i) IN c[2] = 1 \/ c[1] > 127
  PROVE  LET html == Parsing!EncodeHtml(s)
         IN  html # Parsing!BadHtml =>
               /\ \A i \in DOMAIN html :
                    /\ html[i] \in (32..126) \ {34, 60, 62}
                    /\ html[i] = 38 => i < Len(html) /\ html[i + 1] = 35
               /\ (\A i \in DOMAIN s : i + Parsing!Utf8(s, i)[2] <= Len(s) + 1) =>
                    Len(html) <= 6 * Len(s)
<1> DEFINE n == Len(s)
           html == Parsing!EncodeHtml(s)
           Bad == Parsing!BadHtml
           Whole == \A i \in 1..n : i + Wide(s, i) <= n + 1
<1>1. IsText(s) /\ n \in Nat /\ DOMAIN s = 1..n
  BY BytesAreTexts, LenProperties
<1>2. \A i \in 1..n : Wide(s, i) = 1 \/ Num(s, i) > 127
  BY <1>1 DEF Wide, Num
<1>3. PICK e :
        /\ \A i \in Nat : i > n => e[i] = <<>>
        /\ \A i \in 1..n :
             e[i] = IF Num(s, i) = -1 \/ e[i + Wide(s, i)] = Bad THEN Bad
                    ELSE Written(s, i) \o e[i + Wide(s, i)]
        /\ html = e[1]
  BY <1>1, EncodedHtmlIs
<1>4. \A i \in 1..n : Num(s, i) # -1 =>
                        Harmless(Written(s, i)) /\ Len(Written(s, i)) <= 6 * Wide(s, i)
  BY <1>1, <1>2, WrittenIsHarmless
<1> HIDE DEF n, html, Bad, Whole
<1> DEFINE Good(i) == \/ e[i] = Bad
                      \/ /\ Harmless(e[i])
                         /\ Whole /\ i <= n + 1 => Len(e[i]) <= 6 * (n + 1 - i)
           G == {m \in 0..n : \A i \in Nat : i > n - m => Good(i)}
<1>5. 0 \in G
  <2>1. ASSUME NEW i \in Nat, i > n - 0 PROVE Good(i)
    <3>1. e[i] = <<>>
      BY <1>1, <1>3, <2>1
    <3>2. Harmless(<<>>) /\ Len(<<>>) = 0
      <4>1. 1..0 = {}
        OBVIOUS
      <4> QED
        BY <4>1 DEF Harmless
    <3>3. i <= n + 1 => 0 <= 6 * (n + 1 - i)
      BY <1>1, <2>1
    <3> QED
      BY <3>1, <3>2, <3>3
  <2> HIDE DEF Good
  <2> QED
    BY <1>1, <2>1
<1>6. ASSUME NEW i \in 1..n, Good(i + Wide(s, i)) PROVE Good(i)
  <2> DEFINE w == Wide(s, i)
             y == e[i + w]
             x == Written(s, i)
  <2>1. e[i] = IF Num(s, i) = -1 \/ y = Bad THEN Bad ELSE x \o y
    BY <1>3
  <2>2. w \in 1..4 /\ i \in Nat
    BY <1>1, WidthsAre
  <2>3. CASE Num(s, i) = -1 \/ y = Bad
    BY <2>1, <2>3
  <2>4. CASE ~(Num(s, i) = -1 \/ y = Bad)
    <3>1. e[i] = x \o y
      BY <2>1, <2>4
    <3>2. Harmless(x) /\ Len(x) <= 6 * w
      BY <1>4, <2>4
    <3>3. Harmless(y) /\ (Whole /\ i + w <= n + 1 => Len(y) <= 6 * (n + 1 - (i + w)))
      BY <1>6, <2>4
    <3>4. Harmless(x \o y) /\ Len(x \o y) = Len(x) + Len(y)
      BY <3>2, <3>3, HarmlessTogether
    <3>5. ASSUME Whole PROVE Len(x \o y) <= 6 * (n + 1 - i)
      <4> DEFINE k == Len(x)
                 l == Len(y)
      <4>1. i + w <= n + 1
        BY <3>5 DEF Whole
      <4>2. k \in Nat /\ l \in Nat
        BY <3>2, <3>3 DEF Harmless
      <4>3. k <= 6 * w /\ l <= 6 * (n + 1 - (i + w))
        BY <3>2, <3>3, <3>5, <4>1
      <4> HIDE DEF k, l, w
      <4>4. k + l <= 6 * (n + 1 - i)
        BY <1>1, <2>2, <4>2, <4>3
      <4> QED
        BY <3>4, <4>4 DEF k, l
    <3> HIDE DEF x, y
    <3> QED
      BY <3>1, <3>4, <3>5
  <2> QED
    BY <2>3, <2>4
<1> HIDE DEF Good
<1>7. ASSUME NEW m \in 1..n, m - 1 \in G PROVE m \in G
  <2>1. ASSUME NEW i \in Nat, i > n - m PROVE Good(i)
    <3>1. CASE i > n - (m - 1)
      BY <1>7, <3>1
    <3>2. CASE ~(i > n - (m - 1))
      <4>1. i \in 1..n /\ Wide(s, i) \in 1..4
        BY <1>1, <2>1, <3>2, WidthsAre
      <4>2. i + Wide(s, i) \in Nat /\ i + Wide(s, i) > n - (m - 1)
        BY <1>1, <2>1, <4>1
      <4>3. Good(i + Wide(s, i))
        BY <1>7, <4>2
      <4> QED
        BY <1>6, <4>1, <4>3
    <3> QED
      BY <3>1, <3>2
  <2> QED
    BY <2>1
<1>8. Good(1)
  <2>1. G \in SUBSET (0..n) /\ n \in 0..n /\ n - n = 0
    BY <1>1
  <2>2. n \in G
    <3> HIDE DEF G
    <3> QED
      BY <1>1, <1>5, <1>7, <2>1, Upwards
  <2> QED
    BY <2>1, <2>2
<1>9. ASSUME html # Bad
      PROVE  Harmless(html) /\ (Whole => Len(html) <= 6 * n)
  <2>1. 1 <= n + 1 /\ n + 1 - 1 = n
    BY <1>1
  <2> QED
    BY <1>3, <1>8, <1>9, <2>1 DEF Good
<1>10. (\A i \in DOMAIN s : i + Parsing!Utf8(s, i)[2] <= n + 1) => Whole
  BY <1>1 DEF Whole, Wide
<1>11. Harmless(html) =>
         \A i \in DOMAIN html : /\ html[i] \in (32..126) \ {34, 60, 62}
                                /\ html[i] = 38 => i < Len(html) /\ html[i + 1] = 35
  BY DEF Harmless
<1> QED
  BY <1>9, <1>10, <1>11 DEF html, n, Bad
=============================================================================
