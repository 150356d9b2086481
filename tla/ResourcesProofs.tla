--------------------------- MODULE ResourcesProofs ---------------------------
(***************************************************************************)
(* Proofs about Resources for all names, versions and times: the bisection *)
(* finds what is there and keeps the vector sorted, and the copies are     *)
(* fresh enough.                                                           *)
(***************************************************************************)
EXTENDS Resources, SequenceTheorems, WellFoundedInduction, TLAPS

HolderType ==
  [name : Names, hash : Contents, content : Contents,
   lastModified : 0..MaxTime, lastSetup : 0..MaxTime]

Sorted ==
  \A i, j \in 1..Len(resources) : i < j => resources[i].name < resources[j].name

-----------------------------------------------------------------------------
LEMMA LeastMember ==
  ASSUME NEW S \in SUBSET Nat, S # {}
  PROVE  \E i \in S : \A j \in S : i <= j
<1> DEFINE Less == OpToRel(<, Nat)
<1>1. \A i, j \in Nat : i < j => <<i, j>> \in Less
  BY DEF OpToRel
<1>2. IsWellFoundedOn(Less, Nat)
  BY NatLessThanWellFounded
<1> HIDE DEF Less
<1>3. PICK i \in S : \A j \in S : <<j, i>> \notin Less
  BY <1>2, WFMin
<1>4. \A j \in S : j \in Nat
  OBVIOUS
<1>5. \A j \in S : ~(j < i)
  BY <1>1, <1>3, <1>4
<1> QED
  BY <1>4, <1>5

(* A holder is inserted. *)
LEMMA InsertIsSeq ==
  ASSUME NEW S, NEW s \in Seq(S), NEW i \in 1..Len(s) + 1, NEW e \in S
  PROVE  /\ Insert(s, i, e) \in Seq(S)
         /\ Len(Insert(s, i, e)) = Len(s) + 1
         /\ \A k \in 1..Len(s) + 1 :
              Insert(s, i, e)[k] =
                IF k < i THEN s[k] ELSE IF k = i THEN e ELSE s[k - 1]
<1> DEFINE a == SubSeq(s, 1, i - 1)
           b == SubSeq(s, i, Len(s))
           c == a \o <<e>>
<1>1. Len(s) \in Nat /\ i \in Int /\ \A k \in 1..Len(s) : s[k] \in S
  BY ElementOfSeq
<1>2. /\ a \in Seq(S) /\ Len(a) = i - 1
      /\ \A k \in 1..i - 1 : a[k] = s[k]
  <2>1. \A k \in 1..i - 1 : s[k] \in S
    BY <1>1
  <2> QED
    BY <1>1, <2>1, SubSeqProperties
<1>3. /\ b \in Seq(S) /\ Len(b) = Len(s) - i + 1
      /\ \A k \in 1..Len(s) - i + 1 : b[k] = s[i + k - 1]
  <2>1. \A k \in i..Len(s) : s[k] \in S
    BY <1>1
  <2> QED
    BY <1>1, <2>1, SubSeqProperties
<1>4. <<e>> \in Seq(S) /\ Len(<<e>>) = 1 /\ <<e>>[1] = e
  OBVIOUS
<1> HIDE DEF a, b
<1>5. /\ c \in Seq(S) /\ Len(c) = i
      /\ \A k \in 1..i : c[k] = IF k < i THEN s[k] ELSE e
  <2>1. /\ c \in Seq(S) /\ Len(c) = Len(a) + 1
        /\ \A k \in 1..Len(a) + 1 :
             c[k] = IF k <= Len(a) THEN a[k] ELSE <<e>>[k - Len(a)]
    BY <1>2, <1>4, ConcatProperties
  <2> QED
    BY <1>1, <1>2, <1>4, <2>1
<1> HIDE DEF c
<1>6. Insert(s, i, e) = c \o b
  BY DEF Insert, a, b, c
<1>7. /\ c \o b \in Seq(S) /\ Len(c \o b) = Len(c) + Len(b)
      /\ \A k \in 1..Len(c) + Len(b) :
           (c \o b)[k] = IF k <= Len(c) THEN c[k] ELSE b[k - Len(c)]
  BY <1>3, <1>5, ConcatProperties
<1> QED
  BY <1>1, <1>3, <1>5, <1>6, <1>7

-----------------------------------------------------------------------------
(***************************************************************************)
(* The bisection.  Its loop is a recursive function; that there is one is  *)
(* shown by induction on the distance of the two places.                   *)
(***************************************************************************)
Spans == (-1..Len(resources)) \X (0..Len(resources))

(* Both halves are shorter. *)
LEMMA HalvesAreShorter ==
  ASSUME Len(resources) \in Nat, NEW first \in -1..Len(resources),
         NEW last \in 0..Len(resources), first + 1 < last,
         NEW pos, pos = (first + last) \div 2
  PROVE  /\ pos \in 0..Len(resources) - 1 /\ first < pos /\ pos < last
         /\ <<pos, last>> \in Spans /\ <<first, pos>> \in Spans
<1>1. pos \in Int /\ first < pos /\ pos < last
  OBVIOUS
<1>2. /\ Len(resources) \in Nat /\ first \in -1..Len(resources)
      /\ last \in 0..Len(resources)
  OBVIOUS
<1> QED
  BY ONLY <1>1, <1>2 DEF Spans

(* What the loop does next depends on shorter spans only. *)
LEMMA SameHalves ==
  ASSUME Len(resources) \in Nat, NEW f, NEW g, NEW h, NEW first \in -1..Len(resources),
         NEW last \in 0..Len(resources),
         \A span \in Spans : span[2] - span[1] < last - first => g[span] = h[span]
  PROVE  Halved(g, f, first, last) = Halved(h, f, first, last)
<1>1. CASE first + 1 >= last
  BY <1>1 DEF Halved
<1>2. CASE first + 1 < last
  <2> DEFINE pos == (first + last) \div 2
  <2>1. /\ pos \in 0..Len(resources) - 1 /\ first < pos /\ pos < last
        /\ <<pos, last>> \in Spans /\ <<first, pos>> \in Spans
    BY <1>2, HalvesAreShorter
  <2>2. Halved(g, f, first, last) =
          LET name == resources[pos + 1].name
          IN  CASE name < f -> g[<<pos, last>>]
                [] name > f -> g[<<first, pos>>]
                [] OTHER -> [found |-> TRUE, at |-> pos + 1]
    BY <1>2 DEF Halved
  <2>3. Halved(h, f, first, last) =
          LET name == resources[pos + 1].name
          IN  CASE name < f -> h[<<pos, last>>]
                [] name > f -> h[<<first, pos>>]
                [] OTHER -> [found |-> TRUE, at |-> pos + 1]
    BY <1>2 DEF Halved
  <2> HIDE DEF pos
  <2>4. g[<<pos, last>>] = h[<<pos, last>>] /\ g[<<first, pos>>] = h[<<first, pos>>]
    BY <1>2, <2>1
  <2> QED
    BY <2>2, <2>3, <2>4
<1> QED
  BY <1>1, <1>2

LEMMA LoopIsDefined ==
  ASSUME Len(resources) \in Nat, NEW f
  PROVE  \E g : g = [span \in Spans |-> Halved(g, f, span[1], span[2])]
<1> DEFINE Fits(g, k) ==
             \A span \in Spans :
               span[2] - span[1] <= k => g[span] = Halved(g, f, span[1], span[2])
           Next1(g) == [span \in Spans |-> Halved(g, f, span[1], span[2])]
           Bad == {k \in Nat : ~\E g : Fits(g, k)}
<1>1. \A span \in Spans : span[1] \in -1..Len(resources) /\ span[2] \in 0..Len(resources)
  BY DEF Spans
<1>2. ASSUME NEW g, NEW k \in Nat, Fits(g, k) PROVE Fits(Next1(g), k + 1)
  <2>1. ASSUME NEW span \in Spans, span[2] - span[1] <= k + 1
        PROVE  Next1(g)[span] = Halved(Next1(g), f, span[1], span[2])
    <3>1. \A other \in Spans :
            other[2] - other[1] < span[2] - span[1] => g[other] = Next1(g)[other]
      BY <1>1, <1>2, <2>1
    <3>2. Halved(g, f, span[1], span[2]) = Halved(Next1(g), f, span[1], span[2])
      BY <1>1, <3>1, SameHalves
    <3> QED
      BY <3>2
  <2> QED
    BY <2>1
<1>3. \E g : Fits(g, 0)
  <2> DEFINE g == Next1(0)
  <2>1. ASSUME NEW span \in Spans, span[2] - span[1] <= 0
        PROVE  g[span] = Halved(g, f, span[1], span[2])
    <3>1. span[1] + 1 >= span[2]
      BY <1>1, <2>1
    <3>2. g[span] = Halved(0, f, span[1], span[2])
      OBVIOUS
    <3> HIDE DEF g
    <3>3. \A h : Halved(h, f, span[1], span[2]) = [found |-> FALSE, at |-> span[2] + 1]
      BY <3>1 DEF Halved
    <3> QED
      BY <3>2, <3>3
  <2> QED
    BY <2>1
<1> HIDE DEF Fits, Next1
<1>4. Bad = {}
  <2> SUFFICES ASSUME Bad # {} PROVE FALSE
    OBVIOUS
  <2>1. PICK k \in Bad : \A j \in Bad : k <= j
    BY LeastMember
  <2>2. k # 0
    BY <1>3
  <2>3. k - 1 \in Nat /\ k - 1 \notin Bad
    BY <2>1, <2>2
  <2>4. PICK g : Fits(g, k - 1)
    BY <2>3
  <2>5. Fits(Next1(g), k - 1 + 1)
    BY <1>2, <2>3, <2>4
  <2> QED
    BY <2>1, <2>5
<1>5. PICK g : Fits(g, Len(resources) + 1)
  <2>1. \A k \in Nat : \E g : Fits(g, k)
    BY <1>4
  <2>2. Len(resources) + 1 \in Nat
    OBVIOUS
  <2> QED
    BY <2>1, <2>2
<1>6. \A span \in Spans : g[span] = Halved(g, f, span[1], span[2])
  <2>1. \A span \in Spans : span[2] - span[1] <= Len(resources) + 1
    BY <1>1
  <2> QED
    BY <1>5, <2>1 DEF Fits
<1>7. \A span \in Spans : Next1(g)[span] = g[span]
  BY <1>6 DEF Next1
<1>8. ASSUME NEW span \in Spans
      PROVE  Halved(g, f, span[1], span[2]) = Halved(Next1(g), f, span[1], span[2])
  BY <1>1, <1>7, SameHalves
<1>9. Next1(g) = [span \in Spans |-> Halved(Next1(g), f, span[1], span[2])]
  <2> DEFINE h == Next1(g)
  <2>1. h = [span \in Spans |-> Halved(g, f, span[1], span[2])]
    BY DEF Next1
  <2> HIDE DEF h
  <2>2. \A span \in Spans : Halved(g, f, span[1], span[2]) = Halved(h, f, span[1], span[2])
    BY <1>8 DEF h
  <2>3. h = [span \in Spans |-> Halved(h, f, span[1], span[2])]
    BY <2>1, <2>2
  <2> QED
    BY <2>3 DEF h
<1> QED
  BY <1>9

LEMMA BisectIsLoop ==
  ASSUME Len(resources) \in Nat, NEW f
  PROVE  \E g : /\ \A span \in Spans : g[span] = Halved(g, f, span[1], span[2])
                /\ Bisect(f) = g[<<-1, Len(resources)>>]
<1> DEFINE IsLoop(g) ==
             g = [span \in (-1..Len(resources)) \X (0..Len(resources)) |->
                    Halved(g, f, span[1], span[2])]
           h == CHOOSE g : IsLoop(g)
<1>1. \E g : IsLoop(g)
  BY LoopIsDefined DEF Spans
<1>2. Bisect(f) = h[<<-1, Len(resources)>>]
  BY DEF Bisect
<1> HIDE DEF IsLoop
<1>3. IsLoop(h)
  BY <1>1, Zenon
<1> HIDE DEF h
<1> QED
  BY <1>2, <1>3 DEF IsLoop, Spans

(* What the loop is to return, *)
Ends(f, r) ==
  /\ r.found => r.at \in 1..Len(resources) /\ resources[r.at].name = f
  /\ ~r.found => /\ r.at \in 1..Len(resources) + 1
                 /\ \A i \in 1..r.at - 1 : resources[i].name < f
                 /\ \A i \in r.at..Len(resources) : resources[i].name > f

(* and what it keeps: the place is between first and last. *)
Around(f, first, last) ==
  /\ first \in -1..Len(resources) /\ last \in 0..Len(resources) /\ first < last
  /\ \A i \in 1..first + 1 : resources[i].name < f
  /\ \A i \in last + 1..Len(resources) : resources[i].name > f

LEMMA LoopStep ==
  ASSUME resources \in Seq(HolderType), Sorted, NEW f \in Names, NEW g,
         NEW first, NEW last, Around(f, first, last), first + 1 < last,
         \A span \in Spans :
           span[2] - span[1] < last - first /\ Around(f, span[1], span[2])
             => Ends(f, g[span])
  PROVE  Ends(f, Halved(g, f, first, last))
<1> DEFINE n == Len(resources)
           pos == (first + last) \div 2
           name == resources[pos + 1].name
<1>1. /\ n \in Nat /\ first \in -1..n /\ last \in 0..n
      /\ f \in Int /\ \A i \in 1..n : resources[i].name \in Int
  <2>1. \A i \in 1..n : resources[i] \in HolderType
    BY ElementOfSeq
  <2>2. \A i \in 1..n : resources[i].name \in Names
    BY <2>1 DEF HolderType
  <2>3. Names \subseteq Int
    BY ResourcesAssumption
  <2>4. n \in Nat /\ first \in -1..n /\ last \in 0..n
    BY DEF Around
  <2> QED
    BY <2>2, <2>3, <2>4
<1>2. /\ pos \in 0..n - 1 /\ first < pos /\ pos < last
      /\ <<pos, last>> \in Spans /\ <<first, pos>> \in Spans
  BY <1>1, HalvesAreShorter
<1>3. Halved(g, f, first, last) =
        IF name < f THEN g[<<pos, last>>]
        ELSE IF name > f THEN g[<<first, pos>>]
        ELSE [found |-> TRUE, at |-> pos + 1]
  <2>1. Halved(g, f, first, last) =
          CASE name < f -> g[<<pos, last>>]
            [] name > f -> g[<<first, pos>>]
            [] OTHER -> [found |-> TRUE, at |-> pos + 1]
    <3>1. ~(first + 1 >= last)
      BY <1>1
    <3> QED
      BY <3>1 DEF Halved
  <2>2. pos + 1 \in 1..n
    BY <1>1, <1>2
  <2>3. name \in Int
    BY <1>1, <2>2
  <2> HIDE DEF name, pos
  <2>4. ~(name < f /\ name > f)
    BY <1>1, <2>3
  <2> QED
    BY <2>1, <2>4
<1> HIDE DEF pos
<1>4. pos + 1 \in 1..n
  BY <1>1, <1>2
<1>5. CASE name < f
  <2>1. \A i \in 1..pos + 1 : resources[i].name < f
    <3>1. ASSUME NEW i \in 1..pos + 1 PROVE resources[i].name < f
      <4>1. i \in 1..n /\ (i = pos + 1 \/ i < pos + 1)
        BY <1>1, <1>4, <3>1
      <4>2. CASE i = pos + 1
        BY <1>5, <4>2
      <4>3. CASE i < pos + 1
        <5>1. resources[i].name < name
          BY <1>4, <4>1, <4>3 DEF Sorted
        <5>2. resources[i].name \in Int /\ name \in Int
          BY <1>1, <1>4, <4>1
        <5> HIDE DEF name
        <5> QED
          BY <1>1, <1>5, <5>1, <5>2
      <4> QED
        BY <4>1, <4>2, <4>3
    <3> QED
      BY <3>1
  <2>2. Around(f, pos, last)
    BY <1>1, <1>2, <2>1 DEF Around
  <2>3. last - pos < last - first
    BY <1>1, <1>2
  <2>4. Ends(f, g[<<pos, last>>])
    BY <1>2, <2>2, <2>3
  <2> QED
    BY <1>3, <1>5, <2>4
<1>6. CASE name > f
  <2>1. \A i \in pos + 1..n : resources[i].name > f
    <3>1. ASSUME NEW i \in pos + 1..n PROVE resources[i].name > f
      <4>1. i \in 1..n /\ (i = pos + 1 \/ i > pos + 1)
        BY <1>1, <1>4, <3>1
      <4>2. CASE i = pos + 1
        BY <1>6, <4>2
      <4>3. CASE i > pos + 1
        <5>1. name < resources[i].name
          BY <1>4, <4>1, <4>3 DEF Sorted
        <5>2. resources[i].name \in Int /\ name \in Int
          BY <1>1, <1>4, <4>1
        <5> HIDE DEF name
        <5> QED
          BY <1>1, <1>6, <5>1, <5>2
      <4> QED
        BY <4>1, <4>2, <4>3
    <3> QED
      BY <3>1
  <2>2. Around(f, first, pos)
    BY <1>1, <1>2, <2>1 DEF Around
  <2>3. pos - first < last - first
    BY <1>1, <1>2
  <2>4. Ends(f, g[<<first, pos>>])
    BY <1>2, <2>2, <2>3
  <2>5. ~(name < f)
    BY <1>1, <1>4, <1>6
  <2> QED
    BY <1>3, <1>6, <2>4, <2>5
<1>7. CASE ~(name < f) /\ ~(name > f)
  <2>1. name = f
    BY <1>1, <1>4, <1>7
  <2>2. Halved(g, f, first, last) = [found |-> TRUE, at |-> pos + 1]
    BY <1>3, <1>7
  <2> QED
    BY <1>4, <2>1, <2>2 DEF Ends
<1> QED
  BY <1>5, <1>6, <1>7

(* The bisection finds a holder if there is one, else where it belongs. *)
LEMMA BisectEnds ==
  ASSUME resources \in Seq(HolderType), Sorted, NEW f \in Names
  PROVE  Ends(f, Bisect(f))
<1>1. Len(resources) \in Nat
  OBVIOUS
<1>2. PICK g : /\ \A span \in Spans : g[span] = Halved(g, f, span[1], span[2])
               /\ Bisect(f) = g[<<-1, Len(resources)>>]
  BY <1>1, BisectIsLoop
<1> DEFINE IsBad(span) == Around(f, span[1], span[2]) /\ ~Ends(f, g[span])
           Bad == {d \in Nat : \E span \in Spans : span[2] - span[1] = d /\ IsBad(span)}
<1>3. \A span \in Spans : span[1] \in -1..Len(resources) /\ span[2] \in 0..Len(resources)
  BY DEF Spans
<1>4. Bad = {}
  <2> SUFFICES ASSUME Bad # {} PROVE FALSE
    OBVIOUS
  <2>1. PICK d \in Bad : \A e \in Bad : d <= e
    BY LeastMember
  <2>2. PICK span \in Spans : span[2] - span[1] = d /\ IsBad(span)
    BY <2>1
  <2> DEFINE first == span[1]
             last == span[2]
  <2>3. /\ first \in -1..Len(resources) /\ last \in 0..Len(resources)
        /\ Around(f, first, last) /\ g[span] = Halved(g, f, first, last)
    BY <1>2, <1>3, <2>2
  <2>4. \A other \in Spans :
          other[2] - other[1] < last - first /\ Around(f, other[1], other[2])
            => Ends(f, g[other])
    <3>1. ASSUME NEW other \in Spans, other[2] - other[1] < last - first,
                 Around(f, other[1], other[2]), ~Ends(f, g[other])
          PROVE  FALSE
      <4> DEFINE e == other[2] - other[1]
      <4>1. e \in Nat /\ e < d
        BY <1>1, <1>3, <2>2, <3>1 DEF Around
      <4>2. e \in Bad
        BY <3>1, <4>1
      <4> HIDE DEF e, Bad
      <4>3. d <= e /\ d \in Nat
        BY <2>1, <4>2 DEF Bad
      <4> QED
        BY <4>1, <4>3
    <3> QED
      BY <3>1
  <2> HIDE DEF first, last
  <2>5. CASE first + 1 < last
    BY <2>2, <2>3, <2>4, <2>5, LoopStep
  <2>6. CASE first + 1 >= last
    <3>1. g[span] = [found |-> FALSE, at |-> last + 1]
      BY <2>3, <2>6 DEF Halved
    <3>2. last = first + 1
      BY <1>1, <2>3, <2>6 DEF Around
    <3>3. Ends(f, g[span])
      BY <1>1, <2>3, <3>1, <3>2 DEF Around, Ends
    <3> QED
      BY <2>2, <3>3
  <2> QED
    BY <1>1, <2>3, <2>5, <2>6
<1>5. <<-1, Len(resources)>> \in Spans
  BY <1>1 DEF Spans
<1>6. Around(f, -1, Len(resources))
  BY <1>1 DEF Around
<1>7. Len(resources) - (-1) \in Nat
  BY <1>1
<1> QED
  BY <1>2, <1>4, <1>5, <1>6, <1>7

-----------------------------------------------------------------------------
(* The inductive invariant *)

Shapes ==
  /\ now \in Timeout..MaxTime
  /\ disk \in [Names -> [version : 0..Versions, mtime : 0..MaxTime]]
  /\ resources \in Seq(HolderType)
  /\ calm \subseteq Names
  /\ replaced \in [Names -> [1..Versions -> 0..MaxTime]]
  /\ call \in [pc : {"idle", "setup", "read", "answer", "error"}, at : Nat,
               file : Names \cup {0}, hash : 0..Versions,
               version : 0..Versions, since : 0..MaxTime]

(* The call is about the holder of its file. *)
CallFits ==
  call.pc # "idle" =>
    /\ call.at \in 1..Len(resources) /\ Holder.name = call.file
    /\ call.since <= now

Base == Shapes /\ Sorted /\ CallFits

(* A file that changes calmly is there. *)
CalmFits ==
  /\ \A f \in calm : disk[f].version # 0 /\ disk[f].mtime \in 1..now
  /\ call.pc = "error" => call.file \notin calm

(***************************************************************************)
(* What is known of the copy of such a file.  It was never read; it is the *)
(* file's content; or it was until after the last look at the file, whose  *)
(* time of modification is later now.                                      *)
(***************************************************************************)
NeverRead(h) == h.lastSetup = 0 /\ h.lastModified = 0
UpToDate(h, d) == h.content = d.version /\ h.lastModified = d.mtime
Outdated(h, d, times) ==
  /\ h.content \in 1..Versions /\ h.content < d.version
  /\ h.lastModified < d.mtime /\ times[h.content] >= h.lastSetup

Reading(i) == call.pc = "read" /\ call.at = i

CopyFits(i) ==
  LET h == resources[i]
      d == disk[h.name]
  IN  h.name \in calm =>
        /\ h.lastSetup <= now
        /\ Reading(i) => h.lastModified = d.mtime /\ call.version = d.version
        /\ ~Reading(i) =>
             NeverRead(h) \/ UpToDate(h, d) \/ Outdated(h, d, replaced[h.name])

CopiesFit == CalmFits /\ FreshEnough /\ \A i \in 1..Len(resources) : CopyFits(i)

Inv == Base /\ CopiesFit

-----------------------------------------------------------------------------
(* Facts about the call and its holder that every step uses *)

LEMMA NumbersFit ==
  /\ Names \subseteq Int /\ Versions \in Nat \ {0} /\ MaxTime \in Nat
  /\ Timeout \in Nat \ {0}
  BY ResourcesAssumption

LEMMA HolderIsTyped ==
  ASSUME Shapes
  PROVE  \A i \in 1..Len(resources) :
           /\ resources[i] \in HolderType /\ resources[i].name \in Names
           /\ resources[i].lastSetup \in Nat /\ resources[i].lastModified \in Nat
<1>1. \A i \in 1..Len(resources) : resources[i] \in HolderType
  BY ElementOfSeq DEF Shapes
<1>2. 0..MaxTime \subseteq Nat
  BY NumbersFit
<1> QED
  BY <1>1, <1>2 DEF HolderType

(* The times and the content of the call's holder change, its name never. *)
Becomes(m, s, c, h) ==
  resources' = [resources EXCEPT ![call.at] =
                  [name |-> Holder.name, hash |-> h, content |-> c,
                   lastModified |-> m, lastSetup |-> s]]

LEMMA HolderChanges ==
  ASSUME Base, call.pc # "idle",
         NEW m \in 0..MaxTime, NEW s \in 0..MaxTime, NEW c \in Contents, NEW h \in Contents,
         Becomes(m, s, c, h)
  PROVE  /\ resources' \in Seq(HolderType) /\ Len(resources') = Len(resources)
         /\ \A i \in 1..Len(resources) : i # call.at => resources'[i] = resources[i]
         /\ resources'[call.at] = [name |-> Holder.name, hash |-> h, content |-> c,
                                   lastModified |-> m, lastSetup |-> s]
         /\ Sorted'
<1> DEFINE x == [name |-> Holder.name, hash |-> h, content |-> c,
                 lastModified |-> m, lastSetup |-> s]
<1>1. resources \in Seq(HolderType) /\ call.at \in 1..Len(resources)
  BY DEF Base, Shapes, CallFits
<1>2. x \in HolderType /\ x.name = resources[call.at].name
  <2>1. Holder.name \in Names
    BY <1>1, HolderIsTyped DEF Base, Holder
  <2> QED
    BY <2>1 DEF HolderType, Holder
<1> HIDE DEF x
<1>3. resources' = [resources EXCEPT ![call.at] = x]
  BY DEF x, Becomes
<1>4. resources' \in Seq(HolderType) /\ Len(resources') = Len(resources)
  BY ONLY <1>1, <1>2, <1>3, ExceptSeq
<1>5. \A i \in 1..Len(resources) : resources'[i] = IF i = call.at THEN x ELSE resources[i]
  BY ONLY <1>1, <1>2, <1>3, ExceptSeq
<1>6. Sorted'
  <2>1. \A i \in 1..Len(resources) : resources'[i].name = resources[i].name
    BY <1>2, <1>5
  <2> QED
    BY <1>4, <2>1 DEF Sorted, Base
<1> QED
  BY <1>1, <1>4, <1>5, <1>6 DEF x

(* What the calls assign to the holder, as a whole. *)
LEMMA HolderIsRecord ==
  ASSUME Base, call.pc # "idle"
  PROVE  /\ call.at \in DOMAIN resources /\ resources[call.at] = Holder
         /\ Holder = [name |-> Holder.name, hash |-> Holder.hash, content |-> Holder.content,
                      lastModified |-> Holder.lastModified, lastSetup |-> Holder.lastSetup]
<1>1. call.at \in 1..Len(resources) /\ resources \in Seq(HolderType)
  BY DEF Base, Shapes, CallFits
<1>2. Holder \in HolderType
  BY <1>1, HolderIsTyped DEF Base, Holder
<1> QED
  BY <1>1, <1>2 DEF Holder, HolderType

LEMMA SetupIsAssigned ==
  ASSUME Base, call.pc # "idle", NEW p
  PROVE  [resources EXCEPT ![call.at].lastSetup = p] =
           [resources EXCEPT ![call.at] =
              [name |-> Holder.name, hash |-> Holder.hash, content |-> Holder.content,
               lastModified |-> Holder.lastModified, lastSetup |-> p]]
<1> DEFINE r == resources
           a == call.at
           h == Holder
<1>1. a \in DOMAIN r /\ r[a] = h
  BY HolderIsRecord
<1>2. h = [name |-> h.name, hash |-> h.hash, content |-> h.content,
           lastModified |-> h.lastModified, lastSetup |-> h.lastSetup]
  BY HolderIsRecord
<1> HIDE DEF r, a, h
<1>3. [h EXCEPT !.lastSetup = p] =
        [name |-> h.name, hash |-> h.hash, content |-> h.content,
         lastModified |-> h.lastModified, lastSetup |-> p]
  <2>1. PICK v, w, x, y, z :
          h = [name |-> v, hash |-> w, content |-> x, lastModified |-> y, lastSetup |-> z]
    BY <1>2
  <2>2. h.name = v /\ h.hash = w /\ h.content = x /\ h.lastModified = y
    BY <2>1
  <2>3. [h EXCEPT !.lastSetup = p] =
          [name |-> v, hash |-> w, content |-> x, lastModified |-> y, lastSetup |-> p]
    BY ONLY <2>1
  <2> QED
    BY <2>2, <2>3
<1>4. [r EXCEPT ![a].lastSetup = p] = [r EXCEPT ![a] = [h EXCEPT !.lastSetup = p]]
  BY ONLY <1>1
<1> QED
  BY <1>3, <1>4 DEF r, a, h

LEMMA TimesAreAssigned ==
  ASSUME Base, call.pc # "idle", NEW p, NEW q
  PROVE  [resources EXCEPT ![call.at].lastSetup = p, ![call.at].lastModified = q] =
           [resources EXCEPT ![call.at] =
              [name |-> Holder.name, hash |-> Holder.hash, content |-> Holder.content,
               lastModified |-> q, lastSetup |-> p]]
<1> DEFINE r == resources
           a == call.at
           h == Holder
<1>1. a \in DOMAIN r /\ r[a] = h
  BY HolderIsRecord
<1>2. h = [name |-> h.name, hash |-> h.hash, content |-> h.content,
           lastModified |-> h.lastModified, lastSetup |-> h.lastSetup]
  BY HolderIsRecord
<1> HIDE DEF r, a, h
<1>3. [h EXCEPT !.lastSetup = p, !.lastModified = q] =
        [name |-> h.name, hash |-> h.hash, content |-> h.content,
         lastModified |-> q, lastSetup |-> p]
  <2>1. PICK v, w, x, y, z :
          h = [name |-> v, hash |-> w, content |-> x, lastModified |-> y, lastSetup |-> z]
    BY <1>2
  <2>2. /\ h.name = v /\ h.hash = w /\ h.content = x
        /\ h.lastModified = y /\ h.lastSetup = z
    BY <2>1
  <2> DEFINE k == [h EXCEPT !.lastSetup = p]
  <2>3. [h EXCEPT !.lastSetup = p, !.lastModified = q] = [k EXCEPT !.lastModified = q]
    OBVIOUS
  <2>4. k = [name |-> v, hash |-> w, content |-> x, lastModified |-> y, lastSetup |-> p]
    BY ONLY <2>1
  <2> HIDE DEF k
  <2>5. [k EXCEPT !.lastModified = q] =
          [name |-> v, hash |-> w, content |-> x, lastModified |-> q, lastSetup |-> p]
    BY ONLY <2>4
  <2> QED
    BY <2>2, <2>3, <2>5
<1>4. [r EXCEPT ![a].lastSetup = p, ![a].lastModified = q] =
        [r EXCEPT ![a] = [h EXCEPT !.lastSetup = p, !.lastModified = q]]
  BY ONLY <1>1
<1> QED
  BY <1>3, <1>4 DEF r, a, h

LEMMA ContentIsAssigned ==
  ASSUME Base, call.pc # "idle", NEW p, NEW q
  PROVE  [resources EXCEPT ![call.at].content = p, ![call.at].hash = q] =
           [resources EXCEPT ![call.at] =
              [name |-> Holder.name, hash |-> q, content |-> p,
               lastModified |-> Holder.lastModified, lastSetup |-> Holder.lastSetup]]
<1> DEFINE r == resources
           a == call.at
           h == Holder
<1>1. a \in DOMAIN r /\ r[a] = h
  BY HolderIsRecord
<1>2. h = [name |-> h.name, hash |-> h.hash, content |-> h.content,
           lastModified |-> h.lastModified, lastSetup |-> h.lastSetup]
  BY HolderIsRecord
<1> HIDE DEF r, a, h
<1>3. [h EXCEPT !.content = p, !.hash = q] =
        [name |-> h.name, hash |-> q, content |-> p,
         lastModified |-> h.lastModified, lastSetup |-> h.lastSetup]
  <2>1. PICK v, w, x, y, z :
          h = [name |-> v, hash |-> w, content |-> x, lastModified |-> y, lastSetup |-> z]
    BY <1>2
  <2>2. /\ h.name = v /\ h.hash = w /\ h.content = x
        /\ h.lastModified = y /\ h.lastSetup = z
    BY <2>1
  <2> DEFINE k == [h EXCEPT !.content = p]
  <2>3. [h EXCEPT !.content = p, !.hash = q] = [k EXCEPT !.hash = q]
    OBVIOUS
  <2>4. k = [name |-> v, hash |-> w, content |-> p, lastModified |-> y, lastSetup |-> z]
    BY ONLY <2>1
  <2> HIDE DEF k
  <2>5. [k EXCEPT !.hash = q] =
          [name |-> v, hash |-> q, content |-> p, lastModified |-> y, lastSetup |-> z]
    BY ONLY <2>4
  <2> QED
    BY <2>2, <2>3, <2>5
<1>4. [r EXCEPT ![a].content = p, ![a].hash = q] =
        [r EXCEPT ![a] = [h EXCEPT !.content = p, !.hash = q]]
  BY ONLY <1>1
<1> QED
  BY <1>3, <1>4 DEF r, a, h

CallType == [pc : {"idle", "setup", "read", "answer", "error"}, at : Nat,
             file : Names \cup {0}, hash : 0..Versions,
             version : 0..Versions, since : 0..MaxTime]

SameCall == /\ call' \in CallType /\ call'.at = call.at
            /\ call'.file = call.file /\ call'.since = call.since

LEMMA CallIsTyped ==
  ASSUME Base
  PROVE  /\ call \in CallType /\ now \in 0..MaxTime
         /\ call.pc # "idle" =>
              /\ call.file \in Names /\ Holder \in HolderType
              /\ disk[call.file].version \in 0..Versions
              /\ disk[call.file].mtime \in 0..MaxTime
<1>1. call.pc # "idle" => Holder \in HolderType /\ Holder.name \in Names
  BY HolderIsTyped DEF Base, CallFits, Holder
<1>2. call.pc # "idle" => call.file \in Names
  BY <1>1 DEF Base, CallFits
<1>3. now \in 0..MaxTime
  BY NumbersFit DEF Base, Shapes
<1>4. \A f \in Names : disk[f].version \in 0..Versions /\ disk[f].mtime \in 0..MaxTime
  BY DEF Base, Shapes
<1> QED
  BY <1>1, <1>2, <1>3, <1>4 DEF Base, Shapes, CallType

(* What each step of a call that looks at the file does to it and its holder. *)
LEMMA StatUnchangedDoes ==
  ASSUME Base, StatUnchanged
  PROVE  /\ Becomes(Holder.lastModified, now, Holder.content, Holder.hash)
         /\ SameCall /\ call.pc = "setup" /\ call'.pc = "answer"
         /\ UNCHANGED <<now, disk, replaced, calm>>
<1>1. /\ call.pc = "setup" /\ call' = [call EXCEPT !.pc = "answer"]
      /\ resources' = [resources EXCEPT ![call.at].lastSetup = now]
      /\ UNCHANGED <<now, disk, replaced, calm>>
  BY DEF StatUnchanged, Goto, history
<1>2. Becomes(Holder.lastModified, now, Holder.content, Holder.hash)
  BY <1>1, SetupIsAssigned DEF Becomes
<1>3. SameCall /\ call'.pc = "answer"
  BY <1>1, CallIsTyped DEF SameCall, CallType
<1> QED
  BY <1>1, <1>2, <1>3

LEMMA StatChangedDoes ==
  ASSUME Base, StatChanged
  PROVE  /\ Becomes(disk[call.file].mtime, now, Holder.content, Holder.hash)
         /\ SameCall /\ call.pc = "setup" /\ call'.pc = "read"
         /\ call'.version = disk[call.file].version
         /\ UNCHANGED <<now, disk, replaced, calm>>
<1>1. /\ call.pc = "setup"
      /\ call' = [call EXCEPT !.pc = "read", !.version = disk[call.file].version]
      /\ resources' = [resources EXCEPT ![call.at].lastSetup = now,
                         ![call.at].lastModified = disk[call.file].mtime]
      /\ UNCHANGED <<now, disk, replaced, calm>>
  BY DEF StatChanged, history
<1>2. Becomes(disk[call.file].mtime, now, Holder.content, Holder.hash)
  <2>1. call.pc # "idle"
    BY <1>1
  <2>2. [resources EXCEPT ![call.at].lastSetup = now,
                          ![call.at].lastModified = disk[call.file].mtime] =
          [resources EXCEPT ![call.at] =
             [name |-> Holder.name, hash |-> Holder.hash, content |-> Holder.content,
              lastModified |-> disk[call.file].mtime, lastSetup |-> now]]
    BY <2>1, TimesAreAssigned
  <2> QED
    BY <1>1, <2>2, Zenon DEF Becomes
<1>3. SameCall /\ call'.pc = "read" /\ call'.version = disk[call.file].version
  BY <1>1, CallIsTyped DEF SameCall, CallType
<1> QED
  BY <1>1, <1>2, <1>3

LEMMA StatFailsDoes ==
  ASSUME Base, StatFails
  PROVE  /\ \E m \in 0..MaxTime : Becomes(m, now, Holder.content, Holder.hash)
         /\ SameCall /\ call.pc = "setup" /\ call'.pc \in {"read", "error", "answer"}
         /\ disk[call.file].version = 0
         /\ UNCHANGED <<now, disk, replaced, calm>>
<1>1. PICK m \in 0..MaxTime, pc \in {"read", "error", "answer"} :
        /\ call' = [call EXCEPT !.pc = pc]
        /\ resources' = [resources EXCEPT ![call.at].lastSetup = now,
                                          ![call.at].lastModified = m]
  BY DEF StatFails
<1>2. /\ call.pc = "setup" /\ disk[call.file].version = 0
      /\ UNCHANGED <<now, disk, replaced, calm>>
  BY DEF StatFails, history
<1>3. Becomes(m, now, Holder.content, Holder.hash)
  <2>1. call.pc # "idle"
    BY <1>1, <1>2
  <2>2. [resources EXCEPT ![call.at].lastSetup = now, ![call.at].lastModified = m] =
          [resources EXCEPT ![call.at] =
             [name |-> Holder.name, hash |-> Holder.hash, content |-> Holder.content,
              lastModified |-> m, lastSetup |-> now]]
    BY <2>1, TimesAreAssigned
  <2> QED
    BY <1>1, <2>2, Zenon DEF Becomes
<1>4. SameCall /\ call'.pc = pc
  BY <1>1, CallIsTyped DEF SameCall, CallType
<1> QED
  BY <1>1, <1>2, <1>3, <1>4

LEMMA ReadDoes ==
  ASSUME Base, Read
  PROVE  /\ \E c \in Contents :
              /\ Becomes(Holder.lastModified, Holder.lastSetup, c, c)
              /\ disk[call.file].version = call.version => c = call.version
         /\ SameCall /\ call.pc = "read" /\ call'.pc = "answer"
         /\ UNCHANGED <<now, disk, replaced, calm>>
<1> DEFINE c == IF disk[call.file].version = call.version THEN call.version ELSE Torn
<1>1. /\ call.pc = "read" /\ call' = [call EXCEPT !.pc = "answer"]
      /\ resources' = [resources EXCEPT ![call.at].content = c, ![call.at].hash = c]
      /\ UNCHANGED <<now, disk, replaced, calm>>
  BY DEF Read, Goto, history
<1>2. c \in Contents
  BY CallIsTyped, NumbersFit DEF CallType, Contents, NoHash
<1>3. disk[call.file].version = call.version => c = call.version
  OBVIOUS
<1> HIDE DEF c
<1>4. Becomes(Holder.lastModified, Holder.lastSetup, c, c)
  <2>1. call.pc # "idle"
    BY <1>1
  <2>2. [resources EXCEPT ![call.at].content = c, ![call.at].hash = c] =
          [resources EXCEPT ![call.at] =
             [name |-> Holder.name, hash |-> c, content |-> c,
              lastModified |-> Holder.lastModified, lastSetup |-> Holder.lastSetup]]
    BY <2>1, ContentIsAssigned
  <2> QED
    BY <1>1, <2>2, Zenon DEF Becomes
<1>5. SameCall /\ call'.pc = "answer"
  BY <1>1, CallIsTyped DEF SameCall, CallType
<1> QED
  BY <1>1, <1>2, <1>3, <1>4, <1>5

-----------------------------------------------------------------------------
LEMMA BaseStep == Base /\ [Next]_vars => Base'
<1> SUFFICES ASSUME Base, [Next]_vars PROVE Base'
  OBVIOUS
<1> USE DEF history
<1>0. /\ now \in 0..MaxTime /\ now \in Nat /\ MaxTime \in Nat
      /\ call \in [pc : {"idle", "setup", "read", "answer", "error"}, at : Nat,
                   file : Names \cup {0}, hash : 0..Versions,
                   version : 0..Versions, since : 0..MaxTime]
      /\ resources \in Seq(HolderType) /\ Len(resources) \in Nat
  BY NumbersFit DEF Base, Shapes
<1>1. ASSUME NEW f \in Names, NEW hash \in 0..Versions, GetResource(f, hash)
      PROVE  Base'
  <2> DEFINE at == Bisect(f).at
  <2>1. Ends(f, Bisect(f))
    BY BisectEnds DEF Base, Shapes
  <2>2. /\ call' = [pc |-> "setup", at |-> at, file |-> f, hash |-> hash,
                    version |-> 0, since |-> now]
        /\ UNCHANGED <<now, disk, calm, replaced>>
    BY <1>1 DEF GetResource
  <2>3. at \in 1..Len(resources) + 1 /\ at \in Nat
    BY <1>0, <2>1 DEF Ends
  <2>4. call' \in [pc : {"idle", "setup", "read", "answer", "error"}, at : Nat,
                   file : Names \cup {0}, hash : 0..Versions,
                   version : 0..Versions, since : 0..MaxTime]
    BY <1>0, <2>2, <2>3, NumbersFit
  <2>5. CASE Bisect(f).found
    <3>1. resources' = resources
      BY <1>1, <2>5 DEF GetResource
    <3>2. call'.at \in 1..Len(resources') /\ resources'[call'.at].name = call'.file
      BY <2>1, <2>2, <2>5, <3>1 DEF Ends
    <3>3. CallFits'
      BY <1>0, <2>2, <3>2 DEF CallFits, Holder
    <3> QED
      BY <2>2, <2>4, <3>1, <3>3 DEF Base, Shapes, Sorted
  <2>6. CASE ~Bisect(f).found
    <3> DEFINE x == NewHolder(f)
    <3>1. resources' = Insert(resources, at, x)
      BY <1>1, <2>6 DEF GetResource
    <3>2. x \in HolderType /\ x.name = f
      BY NumbersFit DEF NewHolder, HolderType, Contents
    <3> HIDE DEF at, x
    <3>3. /\ resources' \in Seq(HolderType) /\ Len(resources') = Len(resources) + 1
          /\ \A k \in 1..Len(resources) + 1 :
               resources'[k] = IF k < at THEN resources[k]
                               ELSE IF k = at THEN x ELSE resources[k - 1]
      <4>1. Insert(resources, at, x) \in Seq(HolderType)
        BY ONLY <1>0, <2>3, <3>2, InsertIsSeq
      <4>2. Len(Insert(resources, at, x)) = Len(resources) + 1
        BY ONLY <1>0, <2>3, <3>2, InsertIsSeq
      <4>3. \A k \in 1..Len(resources) + 1 :
              Insert(resources, at, x)[k] =
                IF k < at THEN resources[k] ELSE IF k = at THEN x ELSE resources[k - 1]
        BY ONLY <1>0, <2>3, <3>2, InsertIsSeq
      <4> QED
        BY ONLY <3>1, <4>1, <4>2, <4>3
    <3>4. call'.at = at /\ call'.file = f /\ call'.since = now
      BY <2>2
    <3>5. CallFits'
      BY <1>0, <2>2, <2>3, <3>2, <3>3, <3>4 DEF CallFits, Holder
    <3>6. ASSUME NEW i \in 1..Len(resources) + 1, NEW j \in 1..Len(resources) + 1, i < j
          PROVE  resources'[i].name < resources'[j].name
      <4>1. /\ \A k \in 1..at - 1 : resources[k].name < f
            /\ \A k \in at..Len(resources) : resources[k].name > f
        BY <2>1, <2>6 DEF Ends, at
      <4>2. \A k \in 1..Len(resources) : resources[k].name \in Int
        BY HolderIsTyped, NumbersFit DEF Base
      <4>3. f \in Int
        BY NumbersFit
      <4>4. CASE j < at
        <5>1. /\ i \in 1..Len(resources) /\ j \in 1..Len(resources)
              /\ resources'[i] = resources[i] /\ resources'[j] = resources[j]
          BY <1>0, <2>3, <3>3, <3>6, <4>4
        <5> QED
          BY <3>6, <5>1 DEF Base, Sorted
      <4>5. CASE j = at
        <5>1. i \in 1..at - 1 /\ resources'[i] = resources[i] /\ resources'[j] = x
          BY <1>0, <2>3, <3>3, <3>6, <4>5
        <5> QED
          BY <3>2, <4>1, <5>1
      <4>6. CASE i = at
        <5>1. j - 1 \in at..Len(resources) /\ resources'[j] = resources[j - 1] /\ resources'[i] = x
          BY <1>0, <2>3, <3>3, <3>6, <4>6
        <5>2. j - 1 \in 1..Len(resources)
          BY <1>0, <2>3, <5>1
        <5>3. resources[j - 1].name > f /\ resources[j - 1].name \in Int
          BY <4>1, <4>2, <5>1, <5>2
        <5> QED
          BY <3>2, <4>3, <5>1, <5>3
      <4>7. CASE i < at /\ j > at
        <5>1. /\ i \in 1..Len(resources) /\ j - 1 \in 1..Len(resources) /\ i < j - 1
              /\ resources'[i] = resources[i] /\ resources'[j] = resources[j - 1]
          BY <1>0, <2>3, <3>3, <3>6, <4>7
        <5> QED
          BY <5>1 DEF Base, Sorted
      <4>8. CASE i > at
        <5>1. /\ i - 1 \in 1..Len(resources) /\ j - 1 \in 1..Len(resources) /\ i - 1 < j - 1
              /\ resources'[i] = resources[i - 1] /\ resources'[j] = resources[j - 1]
          BY <1>0, <2>3, <3>3, <3>6, <4>8
        <5> QED
          BY <5>1 DEF Base, Sorted
      <4> QED
        BY <1>0, <2>3, <4>4, <4>5, <4>6, <4>7, <4>8
    <3>7. Sorted'
      BY <3>3, <3>6 DEF Sorted
    <3> QED
      BY <2>2, <2>4, <3>3, <3>5, <3>7 DEF Base, Shapes
  <2> QED
    BY <2>5, <2>6
<1>2. CASE SkipSetup
  BY <1>2 DEF SkipSetup, Goto, Base, Shapes, Sorted, CallFits, Holder
<1>3. ASSUME call.pc # "idle", NEW m \in 0..MaxTime, NEW s \in 0..MaxTime,
             NEW c \in Contents, NEW h \in Contents, Becomes(m, s, c, h), SameCall,
             UNCHANGED <<now, disk, replaced, calm>>
      PROVE  Base'
  <2>1. resources' \in Seq(HolderType)
    BY <1>3, HolderChanges
  <2>2. /\ Len(resources') = Len(resources) /\ Sorted'
        /\ resources'[call.at] = [name |-> Holder.name, hash |-> h, content |-> c,
                                  lastModified |-> m, lastSetup |-> s]
    BY <1>3, HolderChanges
  <2>3. resources'[call.at].name = Holder.name
    BY <2>2
  <2>4. CallFits'
    BY <1>3, <2>2, <2>3 DEF Base, CallFits, Holder, SameCall
  <2> QED
    BY <1>3, <2>1, <2>2, <2>4 DEF Base, Shapes, SameCall, CallType
<1>4. call.pc # "idle" => /\ Holder.hash \in Contents
                          /\ Holder.content \in Contents
                          /\ Holder.lastModified \in 0..MaxTime
                          /\ Holder.lastSetup \in 0..MaxTime
  BY CallIsTyped DEF HolderType
<1>5. call.pc # "idle" => call.file \in Names /\ disk[call.file].mtime \in 0..MaxTime
  BY CallIsTyped
<1>6. CASE StatUnchanged
  BY <1>0, <1>3, <1>4, <1>6, StatUnchangedDoes
<1>7. CASE StatChanged
  BY <1>0, <1>3, <1>4, <1>5, <1>7, StatChangedDoes
<1>8. CASE StatFails
  BY <1>0, <1>3, <1>4, <1>8, StatFailsDoes
<1>9. CASE Read
  BY <1>0, <1>3, <1>4, <1>9, ReadDoes
<1>10. ASSUME NEW f \in Names, Trouble(f)
       PROVE  calm' \subseteq Names /\ replaced' \in [Names -> [1..Versions -> 0..MaxTime]]
  BY <1>0, <1>10 DEF Trouble, Base, Shapes
<1>11. CASE ReadFails
  <2>1. calm' \subseteq Names /\ replaced' \in [Names -> [1..Versions -> 0..MaxTime]]
    BY <1>5, <1>10, <1>11 DEF ReadFails, Goto
  <2> QED
    BY <1>11, <2>1 DEF ReadFails, Goto, Base, Shapes, Sorted, CallFits, Holder
<1>12. CASE Answer \/ AnswerError
  <2>1. call' = Idle /\ UNCHANGED <<now, disk, resources, calm, replaced>>
    BY <1>12 DEF Answer, AnswerError, Return
  <2>2. call' \in [pc : {"idle", "setup", "read", "answer", "error"}, at : Nat,
                   file : Names \cup {0}, hash : 0..Versions,
                   version : 0..Versions, since : 0..MaxTime]
    BY <1>0, <2>1, NumbersFit DEF Idle, NoHash
  <2> QED
    BY <2>1, <2>2 DEF Idle, Base, Shapes, Sorted, CallFits
<1>13. ASSUME NEW f \in Names, NEW v \in 0..Versions, Write(f, v) PROVE Base'
  <2>1. disk' \in [Names -> [version : 0..Versions, mtime : 0..MaxTime]]
    BY <1>0, <1>13 DEF Write, Base, Shapes
  <2>2. calm' \subseteq Names /\ replaced' \in [Names -> [1..Versions -> 0..MaxTime]]
    <3>1. CASE f \in calm /\ IsCalm(f, v)
      <4>1. calm' = calm /\ replaced' = [replaced EXCEPT ![f][disk[f].version] = now]
        BY <1>13, <3>1 DEF Write
      <4>2. replaced[f] \in [1..Versions -> 0..MaxTime]
        BY DEF Base, Shapes
      <4> DEFINE w == [replaced[f] EXCEPT ![disk[f].version] = now]
      <4>3. w \in [1..Versions -> 0..MaxTime]
        BY <1>0, <4>2
      <4>4. replaced' = [replaced EXCEPT ![f] = w]
        BY <4>1
      <4> HIDE DEF w
      <4> QED
        BY <4>1, <4>3, <4>4 DEF Base, Shapes
    <3>2. CASE ~(f \in calm /\ IsCalm(f, v))
      BY <1>10, <1>13, <3>2 DEF Write
    <3> QED
      BY <3>1, <3>2
  <2> QED
    BY <1>13, <2>1, <2>2 DEF Write, Base, Shapes, Sorted, CallFits, Holder
<1>14. CASE Tick
  <2>1. now' \in Timeout..MaxTime /\ (call.pc # "idle" => call.since <= now')
    <3>1. call.since \in Nat /\ (call.pc # "idle" => call.since <= now)
      BY <1>0, NumbersFit DEF Base, CallFits
    <3>2. now \in Timeout..MaxTime /\ now < MaxTime /\ now' = now + 1
      BY <1>14 DEF Tick, Base, Shapes
    <3> QED
      BY <1>0, <3>1, <3>2, NumbersFit
  <2>2. Shapes'
    BY <1>14, <2>1 DEF Tick, Base, Shapes
  <2> QED
    BY <1>14, <2>1, <2>2 DEF Tick, Base, Shapes, Sorted, CallFits, Holder
<1>15. CASE UNCHANGED vars
  BY <1>15 DEF vars, Base, Shapes, Sorted, CallFits, Holder
<1> QED
  BY <1>1, <1>2, <1>6, <1>7, <1>8, <1>9, <1>11, <1>12, <1>13, <1>14, <1>15 DEF Next

-----------------------------------------------------------------------------
(* The copies *)

(* What a step that does not touch a holder has to keep for its copy to fit. *)
LEMMA CopyIsKept ==
  ASSUME Base, NEW i \in 1..Len(resources), CopyFits(i), NEW j \in Nat,
         resources'[j] = resources[i], calm' \subseteq calm,
         now' \in Nat, now <= now',
         resources[i].name \in calm' =>
           /\ disk'[resources[i].name] = disk[resources[i].name]
           /\ replaced'[resources[i].name] = replaced[resources[i].name],
         \/ ~Reading(i) /\ ~Reading(j)'
         \/ Reading(i) /\ Reading(j)' /\ call'.version = call.version
  PROVE  CopyFits(j)'
<1>1. resources[i].lastSetup \in Nat /\ now \in Nat
  BY HolderIsTyped, CallIsTyped, NumbersFit DEF Base
<1>2. SUFFICES ASSUME resources[i].name \in calm'
               PROVE  CopyFits(j)'
  BY DEF CopyFits
<1>3. resources[i].lastSetup <= now'
  <2>1. resources[i].lastSetup <= now
    BY <1>2 DEF CopyFits
  <2> QED
    BY <1>1, <2>1
<1>4. CASE ~Reading(i) /\ ~Reading(j)'
  <2>1. \/ NeverRead(resources[i])
        \/ UpToDate(resources[i], disk[resources[i].name])
        \/ Outdated(resources[i], disk[resources[i].name], replaced[resources[i].name])
    BY <1>2, <1>4 DEF CopyFits
  <2> QED
    BY <1>2, <1>3, <1>4, <2>1 DEF CopyFits, NeverRead, UpToDate, Outdated
<1>5. CASE Reading(i) /\ Reading(j)' /\ call'.version = call.version
  BY <1>2, <1>3, <1>5 DEF CopyFits
<1> QED
  BY <1>4, <1>5

(* The holder of a call is the only one of its file. *)
LEMMA OnlyHolder ==
  ASSUME Base, call.pc # "idle"
  PROVE  \A i \in 1..Len(resources) : i # call.at => resources[i].name # call.file
<1> SUFFICES ASSUME NEW i \in 1..Len(resources), i # call.at
             PROVE  resources[i].name # call.file
  OBVIOUS
<1>1. call.at \in 1..Len(resources) /\ resources[call.at].name = call.file
  BY DEF Base, CallFits, Holder
<1>2. resources[i].name \in Int /\ call.file \in Int
  <2>1. resources[i].name \in Names /\ call.file \in Names
    BY HolderIsTyped, CallIsTyped DEF Base
  <2> QED
    BY <2>1, NumbersFit
<1>3. i < call.at => resources[i].name < resources[call.at].name
  BY <1>1 DEF Base, Sorted
<1>4. call.at < i => resources[call.at].name < resources[i].name
  BY <1>1 DEF Base, Sorted
<1>5. i \in Int /\ call.at \in Int
  BY <1>1
<1> QED
  BY <1>1, <1>2, <1>3, <1>4, <1>5

(* The copies of the other files, in a step of a call that looks at its file. *)
LEMMA OthersAreKept ==
  ASSUME Base, CopiesFit, call.pc # "idle", SameCall,
         NEW m \in 0..MaxTime, NEW s \in 0..MaxTime, NEW c \in Contents, NEW h \in Contents,
         Becomes(m, s, c, h), UNCHANGED <<now, disk, replaced, calm>>
  PROVE  \A i \in 1..Len(resources) : i # call.at => CopyFits(i)'
<1> SUFFICES ASSUME NEW i \in 1..Len(resources), i # call.at
             PROVE  CopyFits(i)'
  OBVIOUS
<1>1. resources'[i] = resources[i]
  BY HolderChanges
<1>2. CopyFits(i)
  BY DEF CopiesFit
<1>3. ~Reading(i) /\ ~Reading(i)'
  BY DEF Reading, SameCall
<1>4. now \in Nat /\ now <= now' /\ now' \in Nat /\ i \in Nat
  BY CallIsTyped, NumbersFit
<1> QED
  BY <1>1, <1>2, <1>3, <1>4, CopyIsKept

LEMMA CopiesStep == Base /\ CopiesFit /\ [Next]_vars => CopiesFit'
<1> SUFFICES ASSUME Base, CopiesFit, [Next]_vars PROVE CopiesFit'
  OBVIOUS
<1> USE DEF history
<1>0. /\ now \in Nat /\ now \in 0..MaxTime /\ Timeout \in Nat \ {0} /\ Timeout <= now
      /\ Len(resources) \in Nat /\ Versions \in Nat
  BY CallIsTyped, NumbersFit DEF Base, Shapes
<1>01. ASSUME call.pc # "idle"
       PROVE  /\ call.at \in 1..Len(resources) /\ Holder = resources[call.at]
              /\ Holder.name = call.file /\ call.file \in Names
              /\ call.since \in Nat /\ call.since <= now
              /\ Holder.hash \in Contents /\ Holder.content \in Contents
              /\ Holder.lastModified \in 0..MaxTime /\ Holder.lastModified \in Nat
              /\ Holder.lastSetup \in 0..MaxTime /\ Holder.lastSetup \in Nat
              /\ disk[call.file].version \in 0..Versions
              /\ disk[call.file].mtime \in 0..MaxTime /\ disk[call.file].mtime \in Nat
              /\ CopyFits(call.at)
  <2>1. Holder \in HolderType
    BY <1>01, CallIsTyped
  <2>2. call.since \in 0..MaxTime /\ MaxTime \in Nat
    BY CallIsTyped, NumbersFit DEF CallType
  <2> QED
    BY <1>01, <2>1, <2>2, CallIsTyped DEF Base, CallFits, Holder, CopiesFit, HolderType
<1>1. ASSUME NEW f \in Names, NEW hash \in 0..Versions, GetResource(f, hash)
      PROVE  CopiesFit'
  <2> DEFINE at == Bisect(f).at
  <2>1. /\ call.pc = "idle" /\ call'.pc = "setup"
        /\ UNCHANGED <<now, disk, replaced, calm>>
    BY <1>1 DEF GetResource
  <2>2. CalmFits' /\ FreshEnough'
    BY <2>1 DEF CopiesFit, CalmFits, FreshEnough
  <2>3. \A i \in Nat : ~Reading(i) /\ ~Reading(i)'
    BY <2>1 DEF Reading
  <2>4. ASSUME NEW i \in 1..Len(resources), NEW j \in Nat, resources'[j] = resources[i]
        PROVE  CopyFits(j)'
    <3>1. i \in Nat /\ CopyFits(i) /\ now <= now' /\ now' \in Nat
      BY <1>0, <2>1 DEF CopiesFit
    <3> QED
      BY <2>1, <2>3, <2>4, <3>1, CopyIsKept
  <2>5. CASE Bisect(f).found
    <3>1. resources' = resources
      BY <1>1, <2>5 DEF GetResource
    <3>2. \A i \in 1..Len(resources) : i \in Nat /\ resources'[i] = resources[i]
      BY <1>0, <3>1
    <3>3. \A i \in 1..Len(resources) : CopyFits(i)'
      BY <2>4, <3>2
    <3> QED
      BY <2>2, <3>1, <3>3 DEF CopiesFit
  <2>6. CASE ~Bisect(f).found
    <3> DEFINE x == NewHolder(f)
    <3>1. resources' = Insert(resources, at, x)
      BY <1>1, <2>6 DEF GetResource
    <3>2. x \in HolderType /\ NeverRead(x)
      BY NumbersFit DEF NewHolder, HolderType, Contents, NeverRead
    <3>3. at \in 1..Len(resources) + 1 /\ at \in Nat
      <4>1. Ends(f, Bisect(f))
        BY BisectEnds DEF Base, Shapes
      <4> QED
        BY <1>0, <4>1 DEF Ends
    <3>4. resources \in Seq(HolderType)
      BY DEF Base, Shapes
    <3> HIDE DEF at, x
    <3>5. Len(Insert(resources, at, x)) = Len(resources) + 1
      BY ONLY <3>2, <3>3, <3>4, InsertIsSeq
    <3>6. \A k \in 1..Len(resources) + 1 :
            Insert(resources, at, x)[k] =
              IF k < at THEN resources[k] ELSE IF k = at THEN x ELSE resources[k - 1]
      BY ONLY <3>2, <3>3, <3>4, InsertIsSeq
    <3>7. ASSUME NEW j \in 1..Len(resources) + 1
          PROVE  CopyFits(j)'
      <4>1. j \in Nat
        BY <1>0
      <4>2. CASE j < at
        <5>1. j \in 1..Len(resources) /\ resources'[j] = resources[j]
          BY <1>0, <3>1, <3>3, <3>6, <4>2
        <5> QED
          BY <2>4, <4>1, <5>1
      <4>3. CASE j > at
        <5>1. j - 1 \in 1..Len(resources) /\ resources'[j] = resources[j - 1]
          BY <1>0, <3>1, <3>3, <3>6, <4>3
        <5> QED
          BY <2>4, <4>1, <5>1
      <4>4. CASE j = at
        <5>1. resources'[j] = x
          BY <1>0, <3>1, <3>3, <3>6, <4>4
        <5>2. ~Reading(j)'
          BY <2>3, <4>1
        <5>3. x.lastSetup <= now' /\ NeverRead(x)
          BY <1>0, <2>1, <3>2 DEF NeverRead
        <5> QED
          BY <5>1, <5>2, <5>3 DEF CopyFits, NeverRead
      <4> QED
        BY <3>3, <4>1, <4>2, <4>3, <4>4
    <3>8. Len(resources') = Len(resources) + 1
      BY <3>1, <3>5
    <3> QED
      BY <2>2, <3>7, <3>8 DEF CopiesFit
  <2> QED
    BY <2>5, <2>6
<1>2. CASE SkipSetup
  <2>1. /\ call.pc = "setup" /\ call' = [call EXCEPT !.pc = "answer"]
        /\ UNCHANGED <<now, disk, resources, replaced, calm>>
        /\ ~(Holder.lastSetup + Timeout <= now)
    BY <1>2 DEF SkipSetup, Goto, NeedsSetup
  <2>2. SameCall /\ call'.pc = "answer"
    BY <2>1, CallIsTyped DEF SameCall, CallType
  <2>3. CalmFits'
    BY <2>1, <2>2 DEF CopiesFit, CalmFits
  <2>4. ASSUME NEW i \in 1..Len(resources)
        PROVE  CopyFits(i)'
    <3>1. ~Reading(i) /\ ~Reading(i)'
      BY <2>1, <2>2 DEF Reading
    <3>2. i \in Nat /\ CopyFits(i) /\ now <= now' /\ now' \in Nat
      BY <1>0, <2>1 DEF CopiesFit
    <3> QED
      BY <2>1, <3>1, <3>2, CopyIsKept
  <2>5. ASSUME call.file \in calm
        PROVE  \/ Holder.content = disk[call.file].version
               \/ /\ Holder.content \in 1..Versions
                  /\ replaced[call.file][Holder.content] > call.since - Timeout
    <3>1. \/ NeverRead(Holder) \/ UpToDate(Holder, disk[call.file])
          \/ Outdated(Holder, disk[call.file], replaced[call.file])
      BY <1>01, <2>1, <2>5 DEF CopyFits, Reading
    <3>2. CASE NeverRead(Holder)
      BY <1>0, <1>01, <2>1, <3>2 DEF NeverRead
    <3>3. CASE UpToDate(Holder, disk[call.file])
      BY <3>3 DEF UpToDate
    <3>4. CASE Outdated(Holder, disk[call.file], replaced[call.file])
      <4>1. /\ Holder.content \in 1..Versions
            /\ replaced[call.file][Holder.content] >= Holder.lastSetup
        BY <3>4 DEF Outdated
      <4>2. replaced[call.file][Holder.content] \in 0..MaxTime /\ MaxTime \in Nat
        BY <1>01, <2>1, <4>1, NumbersFit DEF Base, Shapes
      <4> HIDE DEF Holder
      <4> QED
        BY <1>0, <1>01, <2>1, <4>1, <4>2
    <3> QED
      BY <3>1, <3>2, <3>3, <3>4
  <2>6. FreshEnough'
    BY <2>1, <2>2, <2>5 DEF FreshEnough, Holder, SameCall
  <2> QED
    BY <2>1, <2>3, <2>4, <2>6 DEF CopiesFit
<1>3. CASE StatUnchanged
  <2>1. /\ Becomes(Holder.lastModified, now, Holder.content, Holder.hash)
        /\ SameCall /\ call.pc = "setup" /\ call'.pc = "answer"
        /\ UNCHANGED <<now, disk, replaced, calm>>
    BY <1>3, StatUnchangedDoes
  <2>2. disk[call.file].mtime = Holder.lastModified
    BY <1>3 DEF StatUnchanged
  <2>3. /\ resources'[call.at] = [name |-> Holder.name, hash |-> Holder.hash,
                                  content |-> Holder.content,
                                  lastModified |-> Holder.lastModified, lastSetup |-> now]
        /\ Len(resources') = Len(resources)
    BY <1>0, <1>01, <2>1, HolderChanges
  <2>4. \A i \in 1..Len(resources) : i # call.at => CopyFits(i)'
    BY <1>0, <1>01, <2>1, OthersAreKept
  <2>5. CalmFits'
    BY <2>1 DEF CopiesFit, CalmFits, SameCall
  <2>6. call.file \in calm => UpToDate(Holder, disk[call.file])
    <3>1. SUFFICES ASSUME call.file \in calm PROVE UpToDate(Holder, disk[call.file])
      OBVIOUS
    <3>2. \/ NeverRead(Holder) \/ UpToDate(Holder, disk[call.file])
          \/ Outdated(Holder, disk[call.file], replaced[call.file])
      BY <1>01, <2>1, <3>1 DEF CopyFits, Reading
    <3>3. disk[call.file].mtime \in 1..now
      BY <3>1 DEF CopiesFit, CalmFits
    <3>4. ~NeverRead(Holder)
      BY <1>0, <2>2, <3>3 DEF NeverRead
    <3>5. ~Outdated(Holder, disk[call.file], replaced[call.file])
      BY <1>01, <2>1, <2>2 DEF Outdated
    <3> QED
      BY <3>2, <3>4, <3>5
  <2>7. \A i \in 1..Len(resources) : i = call.at => CopyFits(i)'
    BY <1>0, <1>01, <2>1, <2>3, <2>6 DEF CopyFits, Reading, UpToDate, SameCall
  <2>8. FreshEnough'
    BY <1>01, <2>1, <2>3, <2>6 DEF FreshEnough, Holder, SameCall, UpToDate
  <2> QED
    BY <2>3, <2>4, <2>5, <2>7, <2>8 DEF CopiesFit
<1>4. CASE StatChanged
  <2>1. /\ Becomes(disk[call.file].mtime, now, Holder.content, Holder.hash)
        /\ SameCall /\ call.pc = "setup" /\ call'.pc = "read"
        /\ call'.version = disk[call.file].version
        /\ UNCHANGED <<now, disk, replaced, calm>>
    BY <1>4, StatChangedDoes
  <2>2. /\ resources'[call.at] = [name |-> Holder.name, hash |-> Holder.hash,
                                  content |-> Holder.content,
                                  lastModified |-> disk[call.file].mtime, lastSetup |-> now]
        /\ Len(resources') = Len(resources)
    BY <1>0, <1>01, <2>1, HolderChanges
  <2>3. \A i \in 1..Len(resources) : i # call.at => CopyFits(i)'
    BY <1>0, <1>01, <2>1, OthersAreKept
  <2>4. CalmFits' /\ FreshEnough'
    BY <2>1 DEF CopiesFit, CalmFits, FreshEnough, SameCall
  <2>5. \A i \in 1..Len(resources) : i = call.at => CopyFits(i)'
    BY <1>0, <1>01, <2>1, <2>2 DEF CopyFits, Reading, SameCall
  <2> QED
    BY <2>2, <2>3, <2>4, <2>5 DEF CopiesFit
<1>5. CASE StatFails
  <2>1. PICK m \in 0..MaxTime : Becomes(m, now, Holder.content, Holder.hash)
    BY <1>5, StatFailsDoes
  <2>2. /\ SameCall /\ call.pc = "setup" /\ disk[call.file].version = 0
        /\ UNCHANGED <<now, disk, replaced, calm>>
    BY <1>5, StatFailsDoes
  <2>3. call.file \notin calm
    BY <2>2 DEF CopiesFit, CalmFits
  <2>4. /\ resources'[call.at] = [name |-> Holder.name, hash |-> Holder.hash,
                                  content |-> Holder.content,
                                  lastModified |-> m, lastSetup |-> now]
        /\ Len(resources') = Len(resources)
    BY <1>0, <1>01, <2>1, <2>2, HolderChanges
  <2>5. \A i \in 1..Len(resources) : i # call.at => CopyFits(i)'
    BY <1>0, <1>01, <2>1, <2>2, OthersAreKept
  <2>6. CalmFits' /\ FreshEnough'
    BY <2>2, <2>3 DEF CopiesFit, CalmFits, FreshEnough, SameCall
  <2>7. \A i \in 1..Len(resources) : i = call.at => CopyFits(i)'
    <3>1. resources'[call.at].name = call.file /\ calm' = calm
      BY <1>01, <2>2, <2>4
    <3> QED
      BY <2>3, <3>1 DEF CopyFits
  <2> QED
    BY <2>4, <2>5, <2>6, <2>7 DEF CopiesFit
<1>6. CASE Read
  <2>1. PICK c \in Contents :
          /\ Becomes(Holder.lastModified, Holder.lastSetup, c, c)
          /\ disk[call.file].version = call.version => c = call.version
    BY <1>6, ReadDoes
  <2>2. /\ SameCall /\ call.pc = "read" /\ call'.pc = "answer"
        /\ UNCHANGED <<now, disk, replaced, calm>>
    BY <1>6, ReadDoes
  <2>3. /\ resources'[call.at] = [name |-> Holder.name, hash |-> c, content |-> c,
                                  lastModified |-> Holder.lastModified,
                                  lastSetup |-> Holder.lastSetup]
        /\ Len(resources') = Len(resources)
    BY <1>01, <2>1, <2>2, HolderChanges
  <2>4. \A i \in 1..Len(resources) : i # call.at => CopyFits(i)'
    BY <1>01, <2>1, <2>2, OthersAreKept
  <2>5. CalmFits'
    BY <2>2 DEF CopiesFit, CalmFits, SameCall
  <2>6. call.file \in calm => /\ Holder.lastModified = disk[call.file].mtime
                              /\ c = disk[call.file].version
                              /\ Holder.lastSetup <= now
    BY <1>01, <2>1, <2>2 DEF CopyFits, Reading
  <2>7. \A i \in 1..Len(resources) : i = call.at => CopyFits(i)'
    BY <1>0, <1>01, <2>2, <2>3, <2>6 DEF CopyFits, Reading, UpToDate, SameCall
  <2>8. FreshEnough'
    BY <1>01, <2>2, <2>3, <2>6 DEF FreshEnough, Holder, SameCall
  <2> QED
    BY <2>3, <2>4, <2>5, <2>7, <2>8 DEF CopiesFit
<1>7. CASE ReadFails
  <2>1. /\ call.pc = "read" /\ call' = [call EXCEPT !.pc = "answer"]
        /\ calm' = calm \ {call.file}
        /\ replaced' = [replaced EXCEPT ![call.file] = [v \in 1..Versions |-> 0]]
        /\ UNCHANGED <<now, disk, resources>>
    BY <1>7 DEF ReadFails, Goto, Trouble
  <2>2. SameCall /\ call'.pc = "answer"
    BY <2>1, CallIsTyped DEF SameCall, CallType
  <2>3. CalmFits' /\ FreshEnough'
    BY <2>1, <2>2 DEF CopiesFit, CalmFits, FreshEnough, SameCall
  <2>4. ASSUME NEW i \in 1..Len(resources), i # call.at
        PROVE  CopyFits(i)'
    <3>1. ~Reading(i) /\ ~Reading(i)'
      BY <2>1, <2>2, <2>4 DEF Reading
    <3>2. resources[i].name # call.file /\ resources[i].name \in Names
      BY <2>1, <2>4, OnlyHolder, HolderIsTyped DEF Base
    <3>3. replaced'[resources[i].name] = replaced[resources[i].name]
      BY <2>1, <3>2 DEF Base, Shapes
    <3>4. i \in Nat /\ CopyFits(i) /\ now <= now' /\ now' \in Nat /\ calm' \subseteq calm
      BY <1>0, <2>1 DEF CopiesFit
    <3> QED
      BY <2>1, <3>1, <3>3, <3>4, CopyIsKept
  <2>5. CopyFits(call.at)'
    BY <1>01, <2>1 DEF CopyFits
  <2> QED
    BY <2>1, <2>3, <2>4, <2>5 DEF CopiesFit
<1>8. CASE Answer \/ AnswerError
  <2>1. /\ call.pc \in {"answer", "error"} /\ call' = Idle
        /\ UNCHANGED <<now, disk, resources, replaced, calm>>
    BY <1>8 DEF Answer, AnswerError, Return
  <2>2. CalmFits' /\ FreshEnough'
    BY <2>1 DEF CopiesFit, CalmFits, FreshEnough, Idle
  <2>3. ASSUME NEW i \in 1..Len(resources)
        PROVE  CopyFits(i)'
    <3>1. ~Reading(i) /\ ~Reading(i)'
      BY <2>1 DEF Reading, Idle
    <3>2. i \in Nat /\ CopyFits(i) /\ now <= now' /\ now' \in Nat
      BY <1>0, <2>1 DEF CopiesFit
    <3> QED
      BY <2>1, <3>1, <3>2, CopyIsKept
  <2> QED
    BY <2>1, <2>2, <2>3 DEF CopiesFit
<1>9. ASSUME NEW f \in Names, NEW v \in 0..Versions, Write(f, v) PROVE CopiesFit'
  <2>1. /\ disk' = [disk EXCEPT ![f] = [version |-> v, mtime |-> now]]
        /\ UNCHANGED <<now, resources, call>>
    BY <1>9 DEF Write
  <2>2. /\ \A n \in Names : n # f => disk'[n] = disk[n]
        /\ disk'[f].version = v /\ disk'[f].mtime = now
    BY <2>1 DEF Base, Shapes
  <2>3. \A i \in 1..Len(resources) : Reading(i)' = Reading(i) /\ CopyFits(i) /\ i \in Nat
    BY <1>0, <2>1 DEF Reading, CopiesFit
  <2>4. /\ calm' \subseteq calm /\ \A n \in Names : n # f => replaced'[n] = replaced[n]
    BY <1>9 DEF Write, Trouble, Base, Shapes
  <2>5. ASSUME NEW i \in 1..Len(resources), resources[i].name # f
        PROVE  CopyFits(i)'
    <3>1. resources[i].name \in Names
      BY HolderIsTyped DEF Base
    <3>2. now <= now' /\ now' \in Nat /\ call'.version = call.version
      BY <1>0, <2>1
    <3> QED
      BY <2>1, <2>2, <2>3, <2>4, <2>5, <3>1, <3>2, CopyIsKept
  <2>6. CASE f \in calm /\ IsCalm(f, v)
    <3> DEFINE old == disk[f].version
    <3>1. /\ replaced' = [replaced EXCEPT ![f][old] = now] /\ calm' = calm
      BY <1>9, <2>6 DEF Write
    <3>2. /\ old < v /\ disk[f].mtime < now
          /\ call.pc = "read" => call.file # f
      BY <2>6 DEF IsCalm
    <3>3. old \in 1..Versions /\ v \in Nat /\ disk[f].mtime \in Nat
      <4>1. old \in 0..Versions /\ old # 0 /\ disk[f].mtime \in 1..now
        BY <2>6 DEF Base, Shapes, CopiesFit, CalmFits
      <4> QED
        BY <1>0, <4>1
    <3>4. /\ replaced'[f][old] = now
          /\ \A w \in 1..Versions : w # old => replaced'[f][w] = replaced[f][w]
      <4>1. replaced[f] \in [1..Versions -> 0..MaxTime] /\ f \in DOMAIN replaced
        BY DEF Base, Shapes
      <4>2. replaced'[f] = [replaced[f] EXCEPT ![old] = now]
        BY <3>1, <4>1
      <4> HIDE DEF old
      <4> QED
        BY <3>3, <4>1, <4>2
    <3> HIDE DEF old
    <3>5. CalmFits'
      <4>1. ASSUME NEW n \in calm PROVE disk'[n].version # 0 /\ disk'[n].mtime \in 1..now
        <5>1. n \in Names /\ disk[n].version # 0 /\ disk[n].mtime \in 1..now
          BY DEF Base, Shapes, CopiesFit, CalmFits
        <5>2. CASE n = f
          BY <1>0, <2>2, <3>2, <3>3, <5>2
        <5>3. CASE n # f
          BY <2>2, <5>1, <5>3
        <5> QED
          BY <5>2, <5>3
      <4> QED
        BY <2>1, <3>1, <4>1 DEF CopiesFit, CalmFits
    <3>6. FreshEnough'
      <4>1. SUFFICES ASSUME call.pc = "answer", call.file \in calm
                     PROVE  \/ Holder.content = disk'[call.file].version
                            \/ /\ Holder.content \in 1..Versions
                               /\ replaced'[call.file][Holder.content] > call.since - Timeout
        BY <2>1, <3>1 DEF FreshEnough, Holder
      <4>2. \/ Holder.content = disk[call.file].version
            \/ /\ Holder.content \in 1..Versions
               /\ replaced[call.file][Holder.content] > call.since - Timeout
        BY <4>1 DEF CopiesFit, FreshEnough
      <4>3. CASE call.file # f
        BY <1>01, <2>2, <2>4, <4>1, <4>2, <4>3
      <4>4. CASE call.file = f
        <5>1. now > call.since - Timeout
          BY <1>0, <1>01, <4>1
        <5>2. CASE Holder.content = old
          BY <3>3, <3>4, <4>4, <5>1, <5>2
        <5>3. CASE Holder.content # old
          BY <3>4, <4>2, <4>4, <5>3 DEF old
        <5> QED
          BY <5>2, <5>3
      <4> QED
        BY <4>3, <4>4
    <3>7. ASSUME NEW i \in 1..Len(resources), resources[i].name = f
          PROVE  CopyFits(i)'
      <4> DEFINE h == resources[i]
      <4>1. ~Reading(i) /\ ~Reading(i)'
        BY <1>01, <2>3, <3>2, <3>7 DEF Reading
      <4>2. /\ h.lastSetup <= now
            /\ \/ NeverRead(h) \/ UpToDate(h, disk[f]) \/ Outdated(h, disk[f], replaced[f])
        BY <2>3, <2>6, <3>7, <4>1 DEF CopyFits
      <4>3. h.lastSetup \in Nat /\ h.lastModified \in Nat /\ h.name = f
        BY <3>7, HolderIsTyped DEF Base
      <4>4. SUFFICES NeverRead(h) \/ Outdated(h, disk'[f], replaced'[f])
        BY <2>1, <4>1, <4>2, <4>3 DEF CopyFits
      <4> HIDE DEF h
      <4>5. CASE NeverRead(h)
        BY <4>5
      <4>6. CASE UpToDate(h, disk[f])
        <5>1. h.content = old /\ h.lastModified = disk[f].mtime
          BY <4>6 DEF UpToDate, old
        <5> QED
          BY <1>0, <2>2, <3>2, <3>3, <3>4, <4>2, <4>3, <5>1 DEF Outdated
      <4>7. CASE Outdated(h, disk[f], replaced[f])
        <5>1. /\ h.content \in 1..Versions /\ h.content < old
              /\ h.lastModified < disk[f].mtime /\ replaced[f][h.content] >= h.lastSetup
          BY <4>7 DEF Outdated, old
        <5>2. h.content < v /\ h.content # old /\ h.lastModified < now
          BY <1>0, <3>2, <3>3, <4>3, <5>1
        <5> QED
          BY <2>2, <3>4, <5>1, <5>2 DEF Outdated
      <4> QED
        BY <4>2, <4>5, <4>6, <4>7
    <3> QED
      BY <2>1, <2>5, <3>5, <3>6, <3>7 DEF CopiesFit
  <2>7. CASE ~(f \in calm /\ IsCalm(f, v))
    <3>1. calm' = calm \ {f}
      BY <1>9, <2>7 DEF Write, Trouble
    <3>2. CalmFits'
      BY <2>1, <2>2, <3>1 DEF CopiesFit, CalmFits, Base, Shapes
    <3>3. FreshEnough'
      <4>1. SUFFICES ASSUME call.pc = "answer", call.file \in calm, call.file # f
                     PROVE  \/ Holder.content = disk'[call.file].version
                            \/ /\ Holder.content \in 1..Versions
                               /\ replaced'[call.file][Holder.content] > call.since - Timeout
        BY <2>1, <3>1 DEF FreshEnough, Holder
      <4>2. \/ Holder.content = disk[call.file].version
            \/ /\ Holder.content \in 1..Versions
               /\ replaced[call.file][Holder.content] > call.since - Timeout
        BY <4>1 DEF CopiesFit, FreshEnough
      <4> QED
        BY <1>01, <2>2, <2>4, <4>1, <4>2
    <3>4. ASSUME NEW i \in 1..Len(resources), resources[i].name = f
          PROVE  CopyFits(i)'
      BY <2>1, <3>1, <3>4 DEF CopyFits
    <3> QED
      BY <2>1, <2>5, <3>2, <3>3, <3>4 DEF CopiesFit
  <2> QED
    BY <2>6, <2>7
<1>10. CASE Tick
  <2>1. now' = now + 1 /\ UNCHANGED <<disk, resources, call, replaced, calm>>
    BY <1>10 DEF Tick
  <2>2. now <= now' /\ now' \in Nat
    BY <1>0, <2>1
  <2>3. CalmFits'
    BY <1>0, <2>1 DEF CopiesFit, CalmFits
  <2>4. FreshEnough'
    BY <2>1 DEF CopiesFit, FreshEnough, Holder
  <2>5. ASSUME NEW i \in 1..Len(resources)
        PROVE  CopyFits(i)'
    <3>1. Reading(i)' = Reading(i) /\ call'.version = call.version
      BY <2>1 DEF Reading
    <3>2. i \in Nat /\ CopyFits(i)
      BY DEF CopiesFit
    <3> QED
      BY <2>1, <2>2, <3>1, <3>2, CopyIsKept
  <2> QED
    BY <2>1, <2>3, <2>4, <2>5 DEF CopiesFit
<1>11. CASE UNCHANGED vars
  BY <1>11 DEF vars, CopiesFit, CalmFits, FreshEnough, CopyFits, Reading, Holder
<1> QED
  BY <1>1, <1>2, <1>3, <1>4, <1>5, <1>6, <1>7, <1>8, <1>9, <1>10, <1>11 DEF Next

-----------------------------------------------------------------------------
LEMMA InitInv == Init => Inv
<1> SUFFICES ASSUME Init PROVE Inv
  OBVIOUS
<1>1. Shapes
  <2>1. now \in Timeout..MaxTime /\ 0 \in 0..MaxTime /\ 0 \in 0..Versions /\ 1 \in 0..MaxTime
        /\ 1 \in 0..Versions
    BY NumbersFit, ResourcesAssumption DEF Init
  <2>2. disk \in [Names -> [version : 0..Versions, mtime : 0..MaxTime]]
    <3>1. {[version |-> v, mtime |-> v] : v \in {0, 1}} \subseteq
            [version : 0..Versions, mtime : 0..MaxTime]
      BY <2>1
    <3> QED
      BY <3>1 DEF Init
  <2>3. resources \in Seq(HolderType) /\ calm \subseteq Names
    BY DEF Init
  <2>4. replaced \in [Names -> [1..Versions -> 0..MaxTime]]
    BY <2>1 DEF Init
  <2>5. call \in [pc : {"idle", "setup", "read", "answer", "error"}, at : Nat,
                 file : Names \cup {0}, hash : 0..Versions,
                 version : 0..Versions, since : 0..MaxTime]
    BY <2>1 DEF Init, Idle, NoHash
  <2> QED
    BY <2>1, <2>2, <2>3, <2>4, <2>5 DEF Shapes
<1>2. Sorted /\ CallFits
  BY DEF Init, Sorted, CallFits, Idle
<1>3. CalmFits
  <2>1. ASSUME NEW f \in calm PROVE disk[f].version # 0 /\ disk[f].mtime \in 1..now
    <3>1. f \in Names /\ disk[f].version # 0
      BY DEF Init
    <3>2. disk[f] \in {[version |-> v, mtime |-> v] : v \in {0, 1}}
      BY <3>1 DEF Init
    <3>3. disk[f].mtime = 1
      BY <3>1, <3>2
    <3>4. now \in Nat \ {0}
      BY NumbersFit DEF Init
    <3> QED
      BY <3>1, <3>3, <3>4
  <2> QED
    BY <2>1 DEF Init, CalmFits, Idle
<1>4. FreshEnough /\ \A i \in 1..Len(resources) : CopyFits(i)
  BY DEF Init, FreshEnough, Idle
<1> QED
  BY <1>1, <1>2, <1>3, <1>4 DEF Inv, Base, CopiesFit

(***************************************************************************)
(* The vector of holders is sorted, the call is about the holder of its    *)
(* file, and the copy of a file that changes calmly is up to date or was   *)
(* outdated after the last look at the file.                               *)
(***************************************************************************)
THEOREM InvariantHolds == Spec => []Inv
<1>1. Inv /\ [Next]_vars => Inv'
  BY BaseStep, CopiesStep DEF Inv
<1> QED
  BY <1>1, InitInv, PTL DEF Spec

(***************************************************************************)
(* In a vector of any length, the bisection finds every holder there is,   *)
(* and the place where a missing one has to be inserted: each file has at  *)
(* most one holder, and a call is about the holder of its file.            *)
(***************************************************************************)
THEOREM BisectionIsCorrect == Spec => []BisectionFinds
<1>1. Inv => BisectionFinds
  <2> SUFFICES ASSUME Inv PROVE BisectionFinds
    OBVIOUS
  <2>1. \A i \in 1..Len(resources) :
          resources[i] \in [name : Names, hash : Contents, content : Contents,
                            lastModified : 0..MaxTime, lastSetup : 0..MaxTime]
    BY HolderIsTyped DEF Inv, Base, HolderType
  <2>2. TypeOK
    BY <2>1 DEF Inv, Base, Shapes, CallFits, TypeOK
  <2> QED
    BY <2>2 DEF Inv, Base, Sorted, CallFits, BisectionFinds
<1> QED
  BY <1>1, InvariantHolds, PTL

(***************************************************************************)
(* For any number of files, versions and seconds: as long as a file        *)
(* changes calmly and can be opened, the copy that is used was the file's  *)
(* content less than RESOURCE_TIMEOUT seconds before the call.             *)
(***************************************************************************)
THEOREM CopiesAreFresh == Spec => []FreshEnough
<1>1. Inv => FreshEnough
  BY DEF Inv, CopiesFit
<1> QED
  BY <1>1, InvariantHolds, PTL
=============================================================================
