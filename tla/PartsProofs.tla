---------------------------- MODULE PartsProofs ----------------------------
(***************************************************************************)
(* Proofs that the lists of ConnectionsManager and of Timer, pointer by    *)
(* pointer, and the path tree, node by node, do what their abstractions    *)
(* promise.                                                                *)
(***************************************************************************)
EXTENDS MCParts, SequenceTheorems, WellFoundedInduction, TLAPS

-----------------------------------------------------------------------------
(* Doubly linked lists *)

(***************************************************************************)
(* The objects S are a list with the first object head: b and n are its    *)
(* links, and rank falls along it, so that it does not run in a circle.    *)
(***************************************************************************)
ListOf(head, S, b, n, rank) ==
  /\ head = Null <=> S = {}
  /\ S # {} => head \in S
  /\ \A d \in S :
       /\ b[d] \in S \cup {Null} /\ n[d] \in S \cup {Null}
       /\ b[d] = Null <=> d = head
       /\ b[d] # Null => n[b[d]] = d
       /\ n[d] # Null => b[n[d]] = d /\ rank[n[d]] < rank[d]
       /\ rank[d] <= rank[head]

(* InfoLists!Chain, of the members n. *)
Walk(n) ==
  CHOOSE from :
    from = [d \in Infos!Pointers |-> IF d = Null THEN {} ELSE {d} \cup from[n[d]]]

Members == [Data -> Infos!Pointers]

LEMMA Least ==
  ASSUME NEW M, M \subseteq Nat, M # {}
  PROVE  \E m \in M : \A k \in M : m <= k
<1> DEFINE Less == OpToRel(<, Nat)
<1>1. \A i, j \in Nat : i < j => <<i, j>> \in Less
  BY DEF OpToRel
<1>2. IsWellFoundedOn(Less, Nat)
  BY NatLessThanWellFounded
<1> HIDE DEF Less
<1>3. PICK m \in M : \A k \in M : <<k, m>> \notin Less
  BY <1>2, WFMin
<1>4. \A k \in M : k \in Nat /\ ~(k < m)
  BY <1>1, <1>3
<1> QED
  BY <1>4

(* The recursion of Chain has a solution, whatever the links. *)
LEMMA WalkIs ==
  ASSUME NEW n \in Members, Null \notin Data
  PROVE  /\ Walk(n)[Null] = {}
         /\ \A d \in Data : Walk(n)[d] = {d} \cup Walk(n)[n[d]]
<1> DEFINE Closed(T) == \A x \in T : n[x] # Null => n[x] \in T
           R(d) == {e \in Data : \A T \in SUBSET Data : d \in T /\ Closed(T) => e \in T}
           f == [d \in Infos!Pointers |-> IF d = Null THEN {} ELSE R(d)]
<1>1. \A d \in Data : n[d] \in Data \cup {Null}
  BY DEF Members, Infos!Pointers
<1>2. ASSUME NEW d \in Data PROVE Closed(R(d)) /\ d \in R(d)
  <2>1. d \in R(d)
    OBVIOUS
  <2>2. ASSUME NEW x \in R(d), n[x] # Null PROVE n[x] \in R(d)
    <3>1. n[x] \in Data
      BY <1>1, <2>2
    <3>2. ASSUME NEW T \in SUBSET Data, d \in T, Closed(T) PROVE n[x] \in T
      BY <2>2, <3>2
    <3> QED
      BY <3>1, <3>2
  <2> QED
    BY <2>1, <2>2
<1>3. ASSUME NEW d \in Data PROVE R(d) = {d} \cup f[n[d]]
  <2>1. n[d] \in Infos!Pointers
    BY <1>1 DEF Infos!Pointers
  <2>2. CASE n[d] = Null
    <3>1. f[n[d]] = {}
      BY <2>1, <2>2
    <3>2. Closed({d})
      BY <2>2
    <3>3. R(d) \subseteq {d}
      BY <3>2
    <3> QED
      BY <1>2, <3>1, <3>3
  <2>3. CASE n[d] # Null
    <3>1. n[d] \in Data
      BY <1>1, <2>3
    <3>2. f[n[d]] = R(n[d])
      BY <2>1, <2>3
    <3> DEFINE T == {d} \cup R(n[d])
    <3>3. T \in SUBSET Data
      OBVIOUS
    <3>4. Closed(T) /\ d \in T
      BY <1>2, <3>1
    <3>5. R(d) \subseteq T
      BY <3>3, <3>4
    <3>6. ASSUME NEW e \in R(n[d]) PROVE e \in R(d)
      <4>1. n[d] \in R(d)
        BY <1>2, <2>3
      <4>2. R(d) \in SUBSET Data /\ Closed(R(d))
        BY <1>2
      <4> QED
        BY <3>6, <4>1, <4>2
    <3> QED
      BY <1>2, <3>2, <3>5, <3>6
  <2> QED
    BY <2>2, <2>3
<1>4. f = [d \in Infos!Pointers |-> IF d = Null THEN {} ELSE {d} \cup f[n[d]]]
  <2> DEFINE g == [d \in Infos!Pointers |-> IF d = Null THEN {} ELSE {d} \cup f[n[d]]]
  <2>1. ASSUME NEW d \in Infos!Pointers PROVE f[d] = g[d]
    BY <1>3 DEF Infos!Pointers
  <2> QED
    BY <2>1
<1> HIDE DEF f
<1>5. Walk(n) = [d \in Infos!Pointers |->
                   IF d = Null THEN {} ELSE {d} \cup Walk(n)[n[d]]]
  BY <1>4 DEF Walk
<1> DEFINE w == Walk(n)
<1>6. w = [d \in Infos!Pointers |-> IF d = Null THEN {} ELSE {d} \cup w[n[d]]]
  BY <1>5
<1> HIDE DEF w
<1>7. \A d \in Infos!Pointers : w[d] = IF d = Null THEN {} ELSE {d} \cup w[n[d]]
  BY ONLY <1>6
<1> QED
  BY <1>7 DEF w, Infos!Pointers

(* It has the objects of a list, and no others. *)
LEMMA WalkOfList ==
  ASSUME NEW n \in Members, NEW b, NEW S \in SUBSET Data, NEW head,
         NEW rank \in [Data -> Nat], Null \notin Data, ListOf(head, S, b, n, rank)
  PROVE  Walk(n)[head] = S
<1> DEFINE w == Walk(n)
<1>1. w[Null] = {} /\ \A d \in Data : w[d] = {d} \cup w[n[d]]
  BY WalkIs
<1> HIDE DEF w
<1> DEFINE Inside(d) == /\ w[d] \subseteq S
                        /\ \A x \in w[d] : n[x] # Null => n[x] \in w[d]
<1>2. ASSUME NEW d \in S, n[d] # Null => Inside(n[d]) PROVE Inside(d)
  <2>1. d \in Data /\ w[d] = {d} \cup w[n[d]]
    BY <1>1
  <2>2. CASE n[d] = Null
    <3>1. w[d] = {d}
      BY <1>1, <2>1, <2>2
    <3> QED
      BY <2>2, <3>1
  <2>3. CASE n[d] # Null
    <3>1. n[d] \in S
      BY <2>3 DEF ListOf
    <3>2. n[d] \in w[n[d]]
      BY <1>1, <3>1
    <3> QED
      BY <1>2, <2>1, <2>3, <3>2
  <2> QED
    BY <2>2, <2>3
<1>3. ASSUME NEW d \in S PROVE Inside(d)
  <2> DEFINE Bad == {e \in S : ~Inside(e)}
             M == {rank[e] : e \in Bad}
  <2> SUFFICES ASSUME Bad # {} PROVE FALSE
    OBVIOUS
  <2>1. M \subseteq Nat /\ M # {}
    OBVIOUS
  <2> HIDE DEF M
  <2>2. PICK m \in M : \A k \in M : m <= k
    BY <2>1, Least
  <2>3. PICK e \in Bad : \A u \in Bad : rank[e] <= rank[u]
    BY <2>2 DEF M
  <2>4. n[e] # Null => n[e] \in S /\ rank[n[e]] < rank[e]
    BY DEF ListOf
  <2>5. n[e] # Null => rank[n[e]] \in Nat /\ rank[e] \in Nat
    BY <2>4
  <2>6. n[e] # Null => n[e] \notin Bad
    BY <2>3, <2>4, <2>5
  <2>7. n[e] # Null => Inside(n[e])
    BY <2>4, <2>6
  <2> QED
    BY <1>2, <2>7
<1>4. ASSUME NEW e \in S PROVE e \in w[head]
  <2>1. head \in S
    BY DEF ListOf
  <2> DEFINE Bad == {u \in S : u \notin w[head]}
             M == {rank[head] - rank[u] : u \in Bad}
  <2> SUFFICES ASSUME Bad # {} PROVE FALSE
    OBVIOUS
  <2>2. \A u \in S : rank[u] \in Nat /\ rank[u] <= rank[head]
    BY DEF ListOf
  <2>3. M \subseteq Nat /\ M # {}
    BY <2>1, <2>2
  <2> HIDE DEF M
  <2>4. PICK m \in M : \A k \in M : m <= k
    BY <2>3, Least
  <2>5. PICK u \in Bad : m = rank[head] - rank[u]
    BY <2>4 DEF M
  <2>6. u # head
    BY <1>1, <2>1
  <2>7. b[u] \in S /\ n[b[u]] = u /\ u # Null /\ rank[u] < rank[b[u]]
    BY <2>6 DEF ListOf
  <2>8. b[u] \notin Bad
    <3>1. ASSUME b[u] \in Bad PROVE FALSE
      <4>1. m <= rank[head] - rank[b[u]]
        BY <2>4, <3>1 DEF M
      <4> QED
        BY <2>1, <2>2, <2>5, <2>7, <4>1
    <3> QED
      BY <3>1
  <2> QED
    BY <1>3, <2>1, <2>7, <2>8
<1>5. CASE S = {}
  BY <1>1, <1>5 DEF ListOf, w
<1>6. CASE S # {}
  <2>1. head \in S
    BY <1>6 DEF ListOf
  <2> QED
    BY <1>3, <1>4, <2>1 DEF w
<1> QED
  BY <1>5, <1>6

LEMMA EmptyList == ASSUME NEW b, NEW n, NEW rank PROVE ListOf(Null, {}, b, n, rank)
  BY DEF ListOf

(* Only the links of its own objects matter to a list. *)
LEMMA OtherList ==
  ASSUME NEW S, NEW head, NEW b, NEW n, NEW rank, ListOf(head, S, b, n, rank),
         NEW b2, NEW n2, NEW rank2,
         \A d \in S : b2[d] = b[d] /\ n2[d] = n[d] /\ rank2[d] = rank[d]
  PROVE  ListOf(head, S, b2, n2, rank2)
  BY DEF ListOf

(* A new first object. *)
LEMMA PushFront ==
  ASSUME NEW S \in SUBSET Data, NEW head, NEW b \in Members, NEW n \in Members,
         NEW rank \in [Data -> Nat], ListOf(head, S, b, n, rank), Null \notin Data,
         NEW d \in Data \ S, NEW b2 \in Members, NEW n2 \in Members,
         NEW rank2 \in [Data -> Nat],
         \A e \in S : /\ b2[e] = IF e = head THEN d ELSE b[e]
                      /\ n2[e] = n[e] /\ rank2[e] = rank[e],
         b2[d] = Null, n2[d] = head, head # Null => rank2[d] = rank[head] + 1
  PROVE  ListOf(d, S \cup {d}, b2, n2, rank2)
<1>1. CASE S = {}
  BY <1>1 DEF ListOf
<1>2. CASE S # {}
  <2>1. head \in S /\ head # Null /\ \A e \in S : rank[e] \in Nat
    BY <1>2 DEF ListOf
  <2>2. rank2[head] < rank2[d]
    BY <2>1
  <2>3. \A e \in S : rank2[e] <= rank2[d]
    BY <2>1 DEF ListOf
  <2>4. ASSUME NEW e \in S
        PROVE  /\ b2[e] \in S \cup {d} /\ n2[e] \in S \cup {Null}
               /\ b2[e] # Null /\ n2[b2[e]] = e
               /\ n2[e] # Null => b2[n2[e]] = e /\ rank2[n2[e]] < rank2[e]
    <3>1. CASE e = head
      BY <2>1, <3>1 DEF ListOf
    <3>2. CASE e # head
      BY <2>1, <3>2 DEF ListOf
    <3> QED
      BY <3>1, <3>2
  <2> QED
    BY <2>1, <2>2, <2>3, <2>4 DEF ListOf
<1> QED
  BY <1>1, <1>2

(* An object is taken out. *)
LEMMA Unlink ==
  ASSUME NEW S \in SUBSET Data, NEW head, NEW b \in Members, NEW n \in Members,
         NEW rank \in [Data -> Nat], ListOf(head, S, b, n, rank), Null \notin Data,
         NEW d \in S, NEW b2 \in Members, NEW n2 \in Members,
         \A e \in S \ {d} : /\ b2[e] = IF e = n[d] THEN b[d] ELSE b[e]
                            /\ n2[e] = IF e = b[d] THEN n[d] ELSE n[e]
  PROVE  ListOf(IF b[d] = Null THEN n[d] ELSE head, S \ {d}, b2, n2, rank)
<1> DEFINE head2 == IF b[d] = Null THEN n[d] ELSE head
           T == S \ {d}
<1>1. \A e \in S : rank[e] \in Nat /\ e \in Data /\ e # Null
  OBVIOUS
<1>2. b[d] # d /\ n[d] # d
  BY <1>1 DEF ListOf
<1> DEFINE Begins == /\ head2 = Null <=> T = {}
                     /\ T # {} => head2 \in T /\ \A e \in T : rank[e] <= rank[head2]
<1>a. ASSUME d # head PROVE Begins
  BY <1>1, <1>2, <1>a DEF ListOf
<1>b. ASSUME d = head, T = {} PROVE Begins
  BY <1>1, <1>2, <1>b DEF ListOf
(* The first object's successor is the one with the highest rank of the rest. *)
<1>c. ASSUME d = head, T # {} PROVE Begins
  <2> DEFINE M == {rank[d] - rank[e] : e \in T}
  <2>1. \A e \in T : rank[e] \in Nat /\ rank[e] <= rank[d]
    BY <1>1, <1>c DEF ListOf
  <2>2. M \subseteq Nat /\ M # {}
    BY <1>1, <1>c, <2>1
  <2> HIDE DEF M
  <2>3. PICK m \in M : \A k \in M : m <= k
    BY <2>2, Least
  <2>4. PICK u \in T : m = rank[d] - rank[u]
    BY <2>3 DEF M
  <2>5. \A e \in T : rank[e] <= rank[u]
    <3> TAKE e \in T
    <3>1. m <= rank[d] - rank[e]
      BY <2>3 DEF M
    <3> QED
      BY <1>1, <2>1, <2>4, <3>1
  <2>6. b[u] \in S /\ n[b[u]] = u /\ rank[u] < rank[b[u]]
    BY <1>1, <1>c DEF ListOf
  <2>7. b[u] = d
    <3>1. rank[u] \in Nat /\ rank[b[u]] \in Nat
      BY <1>1, <2>6
    <3> QED
      BY <2>5, <2>6, <3>1
  <2>8. b[d] = Null /\ n[d] = u
    BY <1>c, <2>6, <2>7 DEF ListOf
  <2> QED
    BY <1>1, <2>5, <2>8
<1>3. head2 = Null <=> T = {}
  BY <1>a, <1>b, <1>c
<1>4. T # {} => head2 \in T /\ \A e \in T : rank[e] <= rank[head2]
  BY <1>a, <1>b, <1>c
<1>5. ASSUME NEW e \in T PROVE b2[e] \in T \cup {Null} /\ n2[e] \in T \cup {Null}
  BY <1>1, <1>2 DEF ListOf
<1>6. ASSUME NEW e \in T PROVE b2[e] = Null <=> e = head2
  BY <1>1, <1>2 DEF ListOf
<1>7. ASSUME NEW e \in T PROVE b2[e] # Null => n2[b2[e]] = e
  BY <1>1, <1>2 DEF ListOf
<1>8. ASSUME NEW e \in T, n2[e] # Null PROVE b2[n2[e]] = e /\ rank[n2[e]] < rank[e]
  BY <1>1, <1>2, <1>8 DEF ListOf
<1> QED
  BY <1>3, <1>4, <1>5, <1>6, <1>7, <1>8 DEF ListOf

-----------------------------------------------------------------------------
(* The lists of ConnectionsManager *)

InfosTyped ==
  /\ newInfos \in Infos!Pointers /\ oldInfos \in Infos!Pointers
  /\ infoBefore \in Members /\ infoNext \in Members
  /\ deleting \in BOOLEAN

TwoLists(old, new, rank) ==
  /\ old \cap new = {}
  /\ ListOf(oldInfos, old, infoBefore, infoNext, rank)
  /\ ListOf(newInfos, new, infoBefore, infoNext, rank)

InfosInv ==
  /\ InfosTyped
  /\ \E old, new \in SUBSET Data : \E rank \in [Data -> Nat] : TwoLists(old, new, rank)

(* What IdleTable sees of them. *)
LEMMA TableIs ==
  ASSUME NEW old \in SUBSET Data, NEW new \in SUBSET Data, NEW rank \in [Data -> Nat],
         Null \notin Data
  PROVE  /\ InfosTyped /\ TwoLists(old, new, rank) =>
              Infos!Listed = old \cup new /\ Infos!Chain[newInfos] = new
                /\ Infos!Chain[oldInfos] = old
         /\ InfosTyped' /\ TwoLists(old, new, rank)' =>
              Infos!Listed' = old \cup new /\ (Infos!Chain[newInfos])' = new
<1>1. Infos!Chain = Walk(infoNext)
  BY DEF Infos!Chain, Walk
<1>2. Infos!Chain' = Walk(infoNext')
  BY DEF Infos!Chain, Walk
<1>3. ASSUME InfosTyped, TwoLists(old, new, rank)
      PROVE  Infos!Listed = old \cup new /\ Infos!Chain[newInfos] = new
                /\ Infos!Chain[oldInfos] = old
  BY <1>1, <1>3, WalkOfList DEF InfosTyped, TwoLists, Infos!Listed
<1>4. ASSUME InfosTyped', TwoLists(old, new, rank)'
      PROVE  Infos!Listed' = old \cup new /\ (Infos!Chain[newInfos])' = new
  BY <1>2, <1>4, WalkOfList DEF InfosTyped, TwoLists, Infos!Listed
<1> QED
  BY <1>3, <1>4

LEMMA SetIs ==
  ASSUME NEW m \in Members, NEW x \in Infos!Pointers, NEW v \in Infos!Pointers,
         Null \notin Data
  PROVE  /\ Infos!Set(m, x, v) \in Members
         /\ \A e \in Data : Infos!Set(m, x, v)[e] = IF e = x THEN v ELSE m[e]
  BY DEF Infos!Set, Members, Infos!Pointers

(* An object leaves the list it is in, the other list stays. *)
LEMMA TakenOut ==
  ASSUME InfosTyped, NEW old \in SUBSET Data, NEW new \in SUBSET Data,
         NEW rank \in [Data -> Nat], TwoLists(old, new, rank), Null \notin Data,
         NEW d \in old \cup new, NEW b2 \in Members, NEW n2 \in Members,
         \A e \in (old \cup new) \ {d} :
            /\ b2[e] = IF e = infoNext[d] THEN infoBefore[d] ELSE infoBefore[e]
            /\ n2[e] = IF e = infoBefore[d] THEN infoNext[d] ELSE infoNext[e]
  PROVE  /\ ListOf(IF infoBefore[d] = Null /\ oldInfos = d THEN infoNext[d] ELSE oldInfos,
                   old \ {d}, b2, n2, rank)
         /\ ListOf(IF infoBefore[d] = Null /\ newInfos = d THEN infoNext[d] ELSE newInfos,
                   new \ {d}, b2, n2, rank)
<1> DEFINE first(head) == IF infoBefore[d] = Null /\ head = d THEN infoNext[d] ELSE head
<1>1. ASSUME NEW S \in SUBSET Data, NEW head, NEW T \in SUBSET Data, S \cap T = {},
             S \cup T = old \cup new,
             ListOf(head, S, infoBefore, infoNext, rank), d \in S
      PROVE  ListOf(first(head), S \ {d}, b2, n2, rank)
  <2>1. infoBefore[d] = Null <=> d = head
    BY <1>1 DEF ListOf
  <2>2. \A e \in S \ {d} :
          /\ b2[e] = IF e = infoNext[d] THEN infoBefore[d] ELSE infoBefore[e]
          /\ n2[e] = IF e = infoBefore[d] THEN infoNext[d] ELSE infoNext[e]
    BY <1>1
  <2>3. infoBefore \in Members /\ infoNext \in Members
    BY DEF InfosTyped
  <2>4. ListOf(IF infoBefore[d] = Null THEN infoNext[d] ELSE head, S \ {d}, b2, n2, rank)
    BY <1>1, <2>2, <2>3, Unlink
  <2> QED
    BY <2>1, <2>4
<1>2. ASSUME NEW S \in SUBSET Data, NEW head, NEW T \in SUBSET Data, S \cap T = {},
             S \cup T = old \cup new, NEW head2,
             ListOf(head, S, infoBefore, infoNext, rank),
             ListOf(head2, T, infoBefore, infoNext, rank), d \in T
      PROVE  ListOf(first(head), S \ {d}, b2, n2, rank)
  <2>1. S \ {d} = S /\ head # d
    BY <1>2 DEF ListOf
  <2>2. infoNext[d] \in T \cup {Null} /\ infoBefore[d] \in T \cup {Null}
    BY <1>2 DEF ListOf
  <2>3. \A e \in S : b2[e] = infoBefore[e] /\ n2[e] = infoNext[e]
    BY <1>2, <2>1, <2>2
  <2> QED
    BY <1>2, <2>1, <2>3, OtherList
<1> QED
  BY <1>1, <1>2 DEF TwoLists

LEMMA InfosStep ==
  ASSUME Null \notin Data, InfosInv, [Infos!Next]_infoVars
  PROVE  InfosInv' /\ [Infos!Table!Next]_(Infos!Table!vars)
<1> DEFINE present == Infos!Listed
           active == Infos!Chain[newInfos]
           Goal == InfosInv' /\ [Infos!Table!Next]_(Infos!Table!vars)
<1>1. PICK old \in SUBSET Data, new \in SUBSET Data, rank \in [Data -> Nat] :
        TwoLists(old, new, rank)
  BY DEF InfosInv
<1>2. /\ InfosTyped /\ old \cap new = {}
      /\ ListOf(oldInfos, old, infoBefore, infoNext, rank)
      /\ ListOf(newInfos, new, infoBefore, infoNext, rank)
  BY <1>1 DEF InfosInv, TwoLists
<1>3. present = old \cup new /\ active = new
  BY <1>1, <1>2, TableIs
<1>a. ASSUME NEW old2 \in SUBSET Data, NEW new2 \in SUBSET Data,
             NEW rank2 \in [Data -> Nat], InfosTyped', old2 \cap new2 = {},
             ListOf(oldInfos', old2, infoBefore', infoNext', rank2),
             ListOf(newInfos', new2, infoBefore', infoNext', rank2)
      PROVE  InfosInv' /\ present' = old2 \cup new2 /\ active' = new2
  <2>1. TwoLists(old2, new2, rank2)'
    BY <1>a DEF TwoLists
  <2>2. present' = old2 \cup new2 /\ active' = new2
    BY <1>a, <2>1, TableIs
  <2> QED
    BY <1>a, <2>1, <2>2 DEF InfosInv
<1>0. Null \notin Data /\ infoBefore \in Members /\ infoNext \in Members
  BY <1>2 DEF InfosTyped
<1>4. /\ newInfos \in Data \cup {Null} /\ oldInfos \in Data \cup {Null}
      /\ infoBefore \in Members /\ infoNext \in Members /\ deleting \in BOOLEAN
      /\ \A d \in Data : infoBefore[d] \in Infos!Pointers /\ infoNext[d] \in Infos!Pointers
      /\ newInfos \in Infos!Pointers /\ Null \in Infos!Pointers
      /\ \A d \in Data : d \in Infos!Pointers
  BY <1>2 DEF InfosTyped, Members, Infos!Pointers
(* d is put in front of newInfos, after it was taken out if it was listed. *)
<1>b. ASSUME NEW d \in Data, NEW b1 \in Members, NEW n1 \in Members,
             ListOf(oldInfos', old \ {d}, b1, n1, rank), newInfos # d,
             ListOf(newInfos, new \ {d}, b1, n1, rank),
             infoBefore' = [Infos!Set(b1, newInfos, d) EXCEPT ![d] = Null],
             infoNext' = [n1 EXCEPT ![d] = newInfos], newInfos' = d,
             oldInfos' \in Infos!Pointers, deleting' = deleting
      PROVE  InfosInv' /\ present' = old \cup new \cup {d} /\ active' = new \cup {d}
  <2> DEFINE rank2 == [rank EXCEPT ![d] = IF newInfos = Null THEN 0 ELSE rank[newInfos] + 1]
             S == new \ {d}
  <2>1. rank2 \in [Data -> Nat] /\ \A e \in Data \ {d} : rank2[e] = rank[e]
    BY <1>4
  <2>2. newInfos # Null => rank2[d] = rank[newInfos] + 1
    BY <1>4
  <2> HIDE DEF rank2
  <2>3. /\ infoBefore' \in Members /\ infoNext' \in Members
        /\ infoBefore'[d] = Null /\ infoNext'[d] = newInfos
        /\ \A e \in Data \ {d} : /\ infoBefore'[e] = IF e = newInfos THEN d ELSE b1[e]
                                 /\ infoNext'[e] = n1[e]
    <3>1. /\ Infos!Set(b1, newInfos, d) \in Members
          /\ \A e \in Data : Infos!Set(b1, newInfos, d)[e] = IF e = newInfos THEN d ELSE b1[e]
      BY <1>4, SetIs
    <3> QED
      BY <1>4, <1>b, <3>1 DEF Members, Infos!Pointers
  <2>4. InfosTyped'
    BY <1>2, <1>b, <2>3 DEF InfosTyped, Infos!Pointers
  <2>5. ListOf(d, S \cup {d}, infoBefore', infoNext', rank2)
    <3>1. /\ S \in SUBSET Data /\ d \in Data \ S
          /\ ListOf(newInfos, S, b1, n1, rank)
      BY <1>b
    <3>2. \A e \in S : /\ infoBefore'[e] = IF e = newInfos THEN d ELSE b1[e]
                       /\ infoNext'[e] = n1[e] /\ rank2[e] = rank[e]
      BY <2>1, <2>3
    <3>3. infoBefore' \in Members /\ infoNext' \in Members
          /\ infoBefore'[d] = Null /\ infoNext'[d] = newInfos
      BY <2>3
    <3> HIDE DEF S
    <3> QED
      BY <2>1, <2>2, <3>1, <3>2, <3>3, PushFront
  <2>6. newInfos \notin old \ {d}
    BY <1>2, <1>b DEF ListOf
  <2>7. ListOf(oldInfos', old \ {d}, infoBefore', infoNext', rank2)
    <3>1. \A e \in old \ {d} : /\ infoBefore'[e] = b1[e] /\ infoNext'[e] = n1[e]
                               /\ rank2[e] = rank[e]
      BY <2>1, <2>3, <2>6
    <3>2. ListOf(oldInfos', old \ {d}, b1, n1, rank)
      BY <1>b
    <3> QED
      BY ONLY <3>1, <3>2, OtherList
  <2>8. InfosInv' /\ present' = (old \ {d}) \cup (S \cup {d}) /\ active' = S \cup {d}
    <3>1. /\ old \ {d} \in SUBSET Data /\ S \cup {d} \in SUBSET Data
          /\ (old \ {d}) \cap (S \cup {d}) = {}
      BY <1>2
    <3>2. ListOf(newInfos', S \cup {d}, infoBefore', infoNext', rank2)
      BY <1>b, <2>5
    <3> HIDE DEF S, present, active
    <3> QED
      BY <1>a, <2>1, <2>4, <2>7, <3>1, <3>2
  <2> QED
    BY <2>8
(* d is taken out. *)
<1>c. ASSUME NEW d \in old \cup new, Infos!RemoveInner(d), deleting' = deleting
      PROVE  InfosInv' /\ present' = (old \cup new) \ {d} /\ active' = new \ {d}
  <2>1. /\ infoBefore' \in Members /\ infoNext' \in Members
        /\ \A e \in Data : /\ infoBefore'[e] = IF e = infoNext[d] THEN infoBefore[d] ELSE infoBefore[e]
                           /\ infoNext'[e] = IF e = infoBefore[d] THEN infoNext[d] ELSE infoNext[e]
    <3>1. infoNext[d] \in Infos!Pointers /\ infoBefore[d] \in Infos!Pointers
      BY <1>4, <1>c
    <3>2. /\ infoBefore' = Infos!Set(infoBefore, infoNext[d], infoBefore[d])
          /\ infoNext' = Infos!Set(infoNext, infoBefore[d], infoNext[d])
      BY <1>c DEF Infos!RemoveInner
    <3>3. /\ Infos!Set(infoBefore, infoNext[d], infoBefore[d]) \in Members
          /\ \A e \in Data : Infos!Set(infoBefore, infoNext[d], infoBefore[d])[e]
                             = IF e = infoNext[d] THEN infoBefore[d] ELSE infoBefore[e]
      BY ONLY <1>0, <3>1, SetIs
    <3>4. /\ Infos!Set(infoNext, infoBefore[d], infoNext[d]) \in Members
          /\ \A e \in Data : Infos!Set(infoNext, infoBefore[d], infoNext[d])[e]
                             = IF e = infoBefore[d] THEN infoNext[d] ELSE infoNext[e]
      BY ONLY <1>0, <3>1, SetIs
    <3> QED
      BY <3>2, <3>3, <3>4
  <2> DEFINE first(head) == IF infoBefore[d] = Null /\ head = d THEN infoNext[d] ELSE head
  <2>2. oldInfos' = first(oldInfos) /\ newInfos' = first(newInfos)
    <3>1. oldInfos = d => newInfos # d
      BY <1>2, <1>c DEF ListOf
    <3> QED
      BY <1>c, <3>1 DEF Infos!RemoveInner
  <2>3. /\ ListOf(first(oldInfos), old \ {d}, infoBefore', infoNext', rank)
        /\ ListOf(first(newInfos), new \ {d}, infoBefore', infoNext', rank)
    BY <1>1, <1>2, <2>1, TakenOut
  <2>4. InfosTyped'
    BY <1>2, <1>4, <1>c, <2>1, <2>2 DEF InfosTyped, Infos!Pointers
  <2> QED
    BY <1>2, <1>a, <2>2, <2>3, <2>4
<1> HIDE DEF present, active
<1>5. ASSUME NEW d \in Data, Infos!Add(d) PROVE Goal
  <2>1. d \notin old \cup new
    BY <1>3, <1>5 DEF Infos!Add, present
  <2>2. InfosInv' /\ present' = old \cup new \cup {d} /\ active' = new \cup {d}
    <3>1. old \ {d} = old /\ new \ {d} = new /\ newInfos # d
      BY <1>2, <2>1 DEF ListOf
    <3>2. /\ infoBefore' = [Infos!Set(infoBefore, newInfos, d) EXCEPT ![d] = Null]
          /\ infoNext' = [infoNext EXCEPT ![d] = newInfos]
          /\ newInfos' = d /\ deleting' = deleting /\ oldInfos' = oldInfos
      BY <1>5 DEF Infos!Add
    <3>3. /\ ListOf(oldInfos', old \ {d}, infoBefore, infoNext, rank)
          /\ ListOf(newInfos, new \ {d}, infoBefore, infoNext, rank)
      BY <1>2, <3>1, <3>2
    <3>4. oldInfos' \in Infos!Pointers
      BY <1>2, <3>2 DEF InfosTyped
    <3> HIDE DEF Goal
    <3> QED
      BY <1>0, <1>b, <3>1, <3>2, <3>3, <3>4
  <2>3. Infos!Table!Join(d)
    BY <1>3, <1>5, <2>1, <2>2 DEF Infos!Table!Join, Infos!Add, present, active
  <2> QED
    BY <2>2, <2>3 DEF Infos!Table!Next
<1>6. ASSUME NEW d \in Data, Infos!ToNew(d) PROVE Goal
  <2>1. d \in old \cup new /\ deleting' = deleting /\ ~deleting
    BY <1>3, <1>6 DEF Infos!ToNew, present
  <2>2. InfosInv' /\ present' = old \cup new \cup {d} /\ active' = new \cup {d}
    <3>1. CASE Infos!ToNewInside(d)
      <4> DEFINE b1 == Infos!Set(infoBefore, infoNext[d], infoBefore[d])
                 n1 == [infoNext EXCEPT ![infoBefore[d]] = infoNext[d]]
      <4>1. infoBefore[d] \in Data /\ infoBefore[d] # Null
        BY <1>4, <3>1 DEF Infos!ToNewInside, Infos!Pointers
      <4>2. /\ b1 \in Members /\ n1 \in Members
            /\ \A e \in Data : /\ b1[e] = IF e = infoNext[d] THEN infoBefore[d] ELSE infoBefore[e]
                               /\ n1[e] = IF e = infoBefore[d] THEN infoNext[d] ELSE infoNext[e]
        <5>1. n1 \in Members
                /\ \A e \in Data : n1[e] = IF e = infoBefore[d] THEN infoNext[d] ELSE infoNext[e]
          BY <1>4, <4>1 DEF Members
        <5> HIDE DEF n1
        <5>2. infoNext[d] \in Infos!Pointers /\ infoBefore[d] \in Infos!Pointers
          BY <1>4
        <5>3. /\ b1 \in Members
              /\ \A e \in Data : b1[e] = IF e = infoNext[d] THEN infoBefore[d] ELSE infoBefore[e]
          BY ONLY <1>0, <5>2, SetIs
        <5> HIDE DEF b1
        <5> QED
          BY <5>1, <5>3
      <4>3. /\ infoBefore' = Infos!Set([b1 EXCEPT ![d] = Null], newInfos, d)
            /\ infoNext' = [infoNext EXCEPT ![infoBefore[d]] = infoNext[d], ![d] = newInfos]
            /\ newInfos' = d /\ oldInfos' = oldInfos
        BY <3>1 DEF Infos!ToNewInside
      <4> HIDE DEF b1
      <4>4. newInfos # d /\ oldInfos # d
        BY <1>2, <2>1, <4>1 DEF ListOf
      <4>5. infoBefore' = [Infos!Set(b1, newInfos, d) EXCEPT ![d] = Null]
        BY <1>4, <4>2, <4>3, <4>4 DEF Infos!Set, Members
      <4>6. infoNext' = [n1 EXCEPT ![d] = newInfos]
        BY <4>3
      <4> HIDE DEF n1
      <4>7. /\ ListOf(oldInfos, old \ {d}, b1, n1, rank)
            /\ ListOf(newInfos, new \ {d}, b1, n1, rank)
        <5>1. \A e \in (old \cup new) \ {d} :
                 /\ b1[e] = IF e = infoNext[d] THEN infoBefore[d] ELSE infoBefore[e]
                 /\ n1[e] = IF e = infoBefore[d] THEN infoNext[d] ELSE infoNext[e]
          BY <4>2
        <5>2. d \in old \cup new /\ InfosTyped /\ b1 \in Members /\ n1 \in Members
          BY <1>2, <2>1, <4>2
        <5>3. /\ ListOf(IF infoBefore[d] = Null /\ oldInfos = d THEN infoNext[d] ELSE oldInfos,
                        old \ {d}, b1, n1, rank)
              /\ ListOf(IF infoBefore[d] = Null /\ newInfos = d THEN infoNext[d] ELSE newInfos,
                        new \ {d}, b1, n1, rank)
          BY ONLY <1>0, <1>1, <5>1, <5>2, TakenOut
        <5> QED
          BY <4>1, <5>3
      <4> QED
        BY <1>2, <1>b, <2>1, <4>2, <4>3, <4>4, <4>5, <4>6, <4>7 DEF InfosTyped
    <3>2. CASE Infos!ToNewFirst(d)
      <4> DEFINE b1 == Infos!Set(infoBefore, infoNext[d], Null)
      <4>1. /\ infoBefore[d] = Null /\ oldInfos = d
            /\ infoBefore' = Infos!Set(Infos!Set(infoBefore, infoNext[d], Null), newInfos, d)
            /\ infoNext' = [infoNext EXCEPT ![d] = newInfos]
            /\ newInfos' = d /\ oldInfos' = infoNext[d]
        BY <3>2 DEF Infos!ToNewFirst
      <4>2. newInfos # d /\ d \in old /\ infoNext[d] # d
        BY <1>2, <2>1, <4>1 DEF ListOf
      <4>3. /\ b1 \in Members
            /\ \A e \in Data : b1[e] = IF e = infoNext[d] THEN infoBefore[d] ELSE infoBefore[e]
        <5>1. infoNext[d] \in Infos!Pointers /\ Null \in Infos!Pointers
          BY <1>4
        <5>2. /\ b1 \in Members
              /\ \A e \in Data : b1[e] = IF e = infoNext[d] THEN Null ELSE infoBefore[e]
          BY ONLY <1>0, <5>1, SetIs
        <5> HIDE DEF b1
        <5> QED
          BY <4>1, <5>2
      <4>4. infoBefore' = Infos!Set(b1, newInfos, d)
        BY <4>1
      <4> HIDE DEF b1
      <4>5. b1[d] = Null
        BY <4>1, <4>2, <4>3
      <4>6. infoBefore' = [Infos!Set(b1, newInfos, d) EXCEPT ![d] = Null]
        <5> DEFINE b3 == Infos!Set(b1, newInfos, d)
        <5>1. b3 \in Members /\ b3[d] = Null
          <6>1. newInfos \in Infos!Pointers /\ d \in Infos!Pointers /\ d \in Data
            BY <1>4
          <6>2. b1 \in Members
            BY <4>3
          <6>3. /\ b3 \in Members
                /\ b3[d] = IF d = newInfos THEN d ELSE b1[d]
            BY ONLY <1>0, <6>1, <6>2, SetIs
          <6> QED
            BY <4>2, <4>5, <6>3
        <5> HIDE DEF b3
        <5>2. b3 = [b3 EXCEPT ![d] = Null]
          BY <5>1 DEF Members
        <5> QED
          BY <4>4, <5>2 DEF b3
      <4>7. /\ ListOf(infoNext[d], old \ {d}, b1, infoNext, rank)
            /\ ListOf(newInfos, new \ {d}, b1, infoNext, rank)
        <5>1. \A e \in (old \cup new) \ {d} :
                 /\ b1[e] = IF e = infoNext[d] THEN infoBefore[d] ELSE infoBefore[e]
                 /\ infoNext[e] = IF e = infoBefore[d] THEN infoNext[d] ELSE infoNext[e]
          BY <4>1, <4>3
        <5>2. d \in old \cup new /\ InfosTyped /\ b1 \in Members
          BY <1>2, <2>1, <4>3
        <5>3. /\ ListOf(IF infoBefore[d] = Null /\ oldInfos = d THEN infoNext[d] ELSE oldInfos,
                        old \ {d}, b1, infoNext, rank)
              /\ ListOf(IF infoBefore[d] = Null /\ newInfos = d THEN infoNext[d] ELSE newInfos,
                        new \ {d}, b1, infoNext, rank)
          BY ONLY <1>0, <1>1, <5>1, <5>2, TakenOut
        <5> QED
          BY <4>1, <4>2, <5>3
      <4> QED
        BY <1>4, <1>b, <2>1, <4>1, <4>2, <4>3, <4>6, <4>7
    <3>3. CASE Infos!ToNewStays(d)
      <4>1. /\ infoBefore[d] = Null /\ oldInfos # d
            /\ UNCHANGED <<newInfos, oldInfos, infoBefore, infoNext>>
        BY <3>3 DEF Infos!ToNewStays
      <4>2. d \in new
        BY <1>2, <2>1, <4>1 DEF ListOf
      <4>3. InfosTyped'
        BY <1>2, <2>1, <4>1 DEF InfosTyped, Infos!Pointers
      <4> QED
        BY <1>2, <1>a, <4>1, <4>2, <4>3
    <3> QED
      BY <1>6, <3>1, <3>2, <3>3 DEF Infos!ToNew
  <2>3. Infos!Table!Touch(d)
    BY <1>3, <2>1, <2>2 DEF Infos!Table!Touch, present, active
  <2> QED
    BY <2>2, <2>3 DEF Infos!Table!Next
<1>7. ASSUME NEW d \in Data, Infos!Remove(d) PROVE Goal
  <2>1. d \in old \cup new /\ deleting' = deleting /\ ~deleting
    BY <1>3, <1>7 DEF Infos!Remove, present
  <2>2. InfosInv' /\ present' = (old \cup new) \ {d} /\ active' = new \ {d}
    BY <1>7, <1>c, <2>1 DEF Infos!Remove
  <2>3. Infos!Table!Leave({d}) /\ {d} \in SUBSET Infos!Listed
    BY <1>3, <2>1, <2>2 DEF Infos!Table!Leave, present, active
  <2> QED
    BY <2>2, <2>3 DEF Infos!Table!Next
<1>8. ASSUME Infos!DeleteAllClients PROVE Goal
  <2>1. /\ ~deleting /\ deleting' = deleting
        /\ oldInfos' = Null /\ newInfos' = Null
        /\ infoBefore' = infoBefore /\ infoNext' = infoNext
    BY <1>8 DEF Infos!DeleteAllClients
  <2>2. InfosTyped'
    BY <1>2, <2>1 DEF InfosTyped, Infos!Pointers
  <2>3. InfosInv' /\ present' = {} /\ active' = {}
    <3>1. \A b, n \in Members : ListOf(Null, {}, b, n, rank)
      BY EmptyList
    <3>2. InfosInv' /\ present' = {} \cup {} /\ active' = {}
      BY <1>4, <1>a, <2>1, <2>2, <3>1
    <3> QED
      BY <3>2
  <2>4. Infos!Table!Leave(Infos!Listed)
    BY <1>3, <2>1, <2>3 DEF Infos!Table!Leave, present, active
  <2> QED
    BY <2>3, <2>4 DEF Infos!Table!Next
<1>9. ASSUME Infos!DeleteBegins PROVE Goal
  <2>1. /\ ~deleting /\ deleting' = TRUE
        /\ UNCHANGED <<newInfos, oldInfos, infoBefore, infoNext>>
    BY <1>9 DEF Infos!DeleteBegins
  <2>2. InfosTyped'
    BY <1>2, <2>1 DEF InfosTyped, Infos!Pointers
  <2>3. InfosInv' /\ present' = old \cup new /\ active' = new
    BY <1>2, <1>a, <2>1, <2>2
  <2>4. Infos!Table!CheckBegin
    BY <1>3, <2>1, <2>3 DEF Infos!Table!CheckBegin, present, active
  <2> QED
    BY <2>3, <2>4 DEF Infos!Table!Next
<1>10. ASSUME Infos!DeleteFirst PROVE Goal
  <2>1. /\ deleting /\ deleting' = deleting /\ oldInfos # Null
        /\ Infos!RemoveInner(oldInfos)
    BY <1>10 DEF Infos!DeleteFirst
  <2>2. oldInfos \in old /\ oldInfos \notin new /\ oldInfos \in Data
    BY <1>2, <2>1 DEF ListOf
  <2>3. InfosInv' /\ present' = (old \cup new) \ {oldInfos} /\ active' = new \ {oldInfos}
    BY <1>c, <2>1, <2>2
  <2>4. Infos!Table!Expire(oldInfos)
    BY <1>3, <2>1, <2>2, <2>3 DEF Infos!Table!Expire, present, active
  <2> QED
    BY <2>2, <2>3, <2>4 DEF Infos!Table!Next
<1>11. ASSUME Infos!DeleteEnds PROVE Goal
  <2>1. /\ deleting /\ deleting' = FALSE /\ oldInfos = Null
        /\ oldInfos' = newInfos /\ newInfos' = Null
        /\ infoBefore' = infoBefore /\ infoNext' = infoNext
    BY <1>11 DEF Infos!DeleteEnds
  <2>2. InfosTyped' /\ old = {}
    BY <1>2, <2>1 DEF InfosTyped, Infos!Pointers, ListOf
  <2>3. InfosInv' /\ present' = new /\ active' = {}
    <3>1. \A b, n \in Members : ListOf(Null, {}, b, n, rank)
      BY EmptyList
    <3>2. InfosInv' /\ present' = new \cup {} /\ active' = {}
      BY <1>2, <1>4, <1>a, <2>1, <2>2, <3>1
    <3> QED
      BY <3>2
  <2>4. Infos!Table!CheckEnd
    BY <1>3, <2>1, <2>2, <2>3 DEF Infos!Table!CheckEnd, present, active
  <2> QED
    BY <2>3, <2>4 DEF Infos!Table!Next
<1>12. ASSUME UNCHANGED infoVars PROVE Goal
  <2>1. UNCHANGED <<newInfos, oldInfos, infoBefore, infoNext, deleting>>
    BY <1>12 DEF infoVars
  <2>2. InfosTyped'
    BY <1>2, <2>1 DEF InfosTyped, Infos!Pointers
  <2>3. InfosInv' /\ present' = old \cup new /\ active' = new
    BY <1>2, <1>a, <2>1, <2>2
  <2> QED
    BY <1>3, <2>1, <2>3 DEF Infos!Table!vars, present, active
<1> QED
  BY <1>5, <1>6, <1>7, <1>8, <1>9, <1>10, <1>11, <1>12 DEF Infos!Next

LEMMA InfosBegin == Null \notin Data /\ Infos!Init => InfosInv /\ Infos!Table!Init
<1> SUFFICES ASSUME Null \notin Data, Infos!Init PROVE InfosInv /\ Infos!Table!Init
  OBVIOUS
<1> DEFINE rank == [d \in Data |-> 0]
<1>1. newInfos = Null /\ oldInfos = Null /\ deleting = FALSE /\ InfosTyped
  BY DEF Infos!Init, InfosTyped, Members, Infos!Pointers
<1>2. TwoLists({}, {}, rank)
  BY <1>1, EmptyList DEF TwoLists
<1>3. rank \in [Data -> Nat] /\ {} \in SUBSET Data
  OBVIOUS
<1> HIDE DEF rank
<1>4. InfosInv
  BY <1>1, <1>2, <1>3 DEF InfosInv
<1>5. Infos!Listed = {} /\ Infos!Chain[newInfos] = {}
  BY <1>1, <1>2, <1>3, TableIs
<1> QED
  BY <1>1, <1>4, <1>5 DEF Infos!Table!Init

(* What LinksAgree says is a part of the invariant. *)
LEMMA InfosAgree == Null \notin Data /\ InfosInv => Infos!LinksAgree
<1> SUFFICES ASSUME Null \notin Data, InfosInv PROVE Infos!LinksAgree
  OBVIOUS
<1>1. PICK old \in SUBSET Data, new \in SUBSET Data, rank \in [Data -> Nat] :
        TwoLists(old, new, rank)
  BY DEF InfosInv
<1>2. /\ Infos!Listed = old \cup new
      /\ Infos!Chain[newInfos] = new /\ Infos!Chain[oldInfos] = old
  BY <1>1, TableIs DEF InfosInv
<1>3. ASSUME NEW d \in old \cup new
      PROVE  /\ {infoBefore[d], infoNext[d]} \subseteq old \cup new \cup {Null}
             /\ infoBefore[d] = Null <=> d \in {oldInfos, newInfos}
             /\ infoBefore[d] # Null => infoNext[infoBefore[d]] = d
             /\ infoNext[d] # Null => infoBefore[infoNext[d]] = d
  BY <1>1 DEF TwoLists, ListOf
<1>4. old \cap new = {}
  BY <1>1 DEF TwoLists
<1> QED
  BY <1>2, <1>3, <1>4 DEF Infos!LinksAgree

(***************************************************************************)
(* The two lists of ConnectionsManager, for any number of clients: their   *)
(* links always agree, and moving, removing and checking by pointers does  *)
(* what IdleTable says of the connections.                                 *)
(***************************************************************************)
THEOREM InfosKeepTheTable == Spec => ImplementsIdleTable
<1>1. Null \notin Data
  BY PartsAssumption DEF Infos!InfoListsAssumption
<1>2. Init => InfosInv /\ Infos!Table!Init
  BY <1>1, InfosBegin DEF Init
<1>3. InfosInv /\ [Next]_vars => InfosInv' /\ [Infos!Table!Next]_(Infos!Table!vars)
  <2> SUFFICES ASSUME InfosInv, [Next]_vars
               PROVE  InfosInv' /\ [Infos!Table!Next]_(Infos!Table!vars)
    OBVIOUS
  <2>1. [Infos!Next]_infoVars
    BY DEF Next, vars
  <2> QED
    BY <1>1, <2>1, InfosStep
<1>4. InfosInv => Infos!LinksAgree
  BY <1>1, InfosAgree
<1> QED
  BY <1>2, <1>3, <1>4, PTL DEF Spec, ImplementsIdleTable, Infos!ImplementsIdleTable,
     Infos!Table!Spec

-----------------------------------------------------------------------------
(* The path tree *)

Paths == Tree!Paths
Above(p, n) == SubSeq(p, 1, n)

(* Every node hangs on the root. *)
Rooted(tree) ==
  /\ tree \subseteq Paths /\ <<>> \in tree
  /\ \A q \in tree : \A n \in 0..Len(q) : Above(q, n) \in tree

ChildsIn(tree, p) == {q \in tree : Len(q) = Len(p) + 1 /\ Above(q, Len(p)) = p}

(* No node outlives what it was made for. *)
TreeInv ==
  /\ Rooted(nodes)
  /\ at \in [nodes -> Targets \cup {None}]
  /\ \A q \in nodes : q # <<>> /\ at[q] = None => ChildsIn(nodes, q) # {}

LEMMA PathIs ==
  ASSUME Depth \in Nat, NEW p \in Paths
  PROVE  /\ p \in Seq(Names) /\ Len(p) \in Nat /\ Len(p) <= Depth
         /\ Above(p, Len(p)) = p /\ Above(p, 0) = <<>>
         /\ Len(p) = 0 <=> p = <<>>
         /\ \A n \in 0..Len(p) : /\ Above(p, n) \in Paths /\ Len(Above(p, n)) = n
                               /\ \A m \in 0..n : Above(Above(p, n), m) = Above(p, m)
<1>1. PICK d \in 0..Depth : p \in [1..d -> Names]
  BY DEF Paths, Tree!Paths
<1>2. p \in Seq(Names) /\ Len(p) = d /\ d \in Nat /\ d <= Depth
  BY <1>1
<1>3. \A i \in 1..d : p[i] \in Names
  BY <1>1
<1>4. ASSUME NEW n \in 0..d
      PROVE  /\ Above(p, n) \in Seq(Names) /\ Len(Above(p, n)) = n
             /\ \A i \in 1..n : Above(p, n)[i] = p[i]
  BY <1>2, <1>3, SubSeqProperties DEF Above
<1>5. ASSUME NEW n \in 0..d PROVE Above(p, n) \in Paths
  <2>1. Above(p, n) \in [1..n -> Names] /\ n \in 0..Depth
    BY <1>2, <1>4
  <2> QED
    BY <2>1 DEF Paths, Tree!Paths
<1>6. ASSUME NEW n \in 0..d, NEW m \in 0..n PROVE Above(Above(p, n), m) = Above(p, m)
  <2> DEFINE q == Above(p, n)
  <2>1. q \in Seq(Names) /\ Len(q) = n /\ \A i \in 1..n : q[i] = p[i]
    BY <1>4
  <2> HIDE DEF q
  <2>2. /\ Above(q, m) \in Seq(Names) /\ Len(Above(q, m)) = m
        /\ \A i \in 1..m : Above(q, m)[i] = q[i]
    BY <2>1, SubSeqProperties DEF Above
  <2>3. /\ Above(p, m) \in Seq(Names) /\ Len(Above(p, m)) = m
        /\ \A i \in 1..m : Above(p, m)[i] = p[i]
    BY <1>2, <1>4
  <2>4. \A i \in 1..m : Above(q, m)[i] = Above(p, m)[i]
    BY <2>1, <2>2, <2>3
  <2> QED
    BY <2>2, <2>3, <2>4, SeqEqual DEF q
<1>7. Above(p, Len(p)) = p
  <2>1. /\ Above(p, d) \in Seq(Names) /\ Len(Above(p, d)) = d
        /\ \A i \in 1..d : Above(p, d)[i] = p[i]
    BY <1>2, <1>4
  <2> QED
    BY <1>2, <2>1, SeqEqual
<1>8. Above(p, 0) = <<>> /\ (Len(p) = 0 <=> p = <<>>)
  <2>1. Len(Above(p, 0)) = 0 /\ Above(p, 0) \in Seq(Names)
    BY <1>2, <1>4
  <2> QED
    BY <1>2, <2>1, EmptySeq
<1> QED
  BY <1>2, <1>4, <1>5, <1>6, <1>7, <1>8

ReachIn(tree, p) ==
  CHOOSE n \in 0..Len(p) :
    /\ \A m \in 0..n : Above(p, m) \in tree
    /\ n < Len(p) => Above(p, n + 1) \notin tree

(* The walk comes to the end of the path exactly if it is a node. *)
LEMMA ReachIs ==
  ASSUME Depth \in Nat, NEW p \in Paths, NEW tree, Rooted(tree)
  PROVE  /\ ReachIn(tree, p) \in 0..Len(p)
         /\ \A m \in 0..ReachIn(tree, p) : Above(p, m) \in tree
         /\ ReachIn(tree, p) < Len(p) => Above(p, ReachIn(tree, p) + 1) \notin tree
         /\ ReachIn(tree, p) = Len(p) <=> p \in tree
<1>1. Len(p) \in Nat /\ Above(p, Len(p)) = p /\ Above(p, 0) = <<>>
  BY PathIs
<1> DEFINE Ends(n) == /\ \A m \in 0..n : Above(p, m) \in tree
                      /\ n < Len(p) => Above(p, n + 1) \notin tree
<1>2. \E n \in 0..Len(p) : Ends(n)
  <2> DEFINE Missing == {m \in 0..Len(p) : Above(p, m) \notin tree}
  <2>1. CASE Missing = {}
    BY <1>1, <2>1
  <2>2. CASE Missing # {}
    <3>1. Missing \subseteq Nat
      BY <1>1
    <3>2. PICK k \in Missing : \A m \in Missing : k <= m
      BY <2>2, <3>1, Least
    <3>3. k \in 0..Len(p) /\ k # 0
      BY <1>1 DEF Rooted
    <3>4. k - 1 \in 0..Len(p) /\ k - 1 + 1 = k
      BY <1>1, <3>3
    <3>5. ASSUME NEW m \in 0..k - 1 PROVE Above(p, m) \in tree
      BY <1>1, <3>2, <3>3
    <3> QED
      BY <3>2, <3>4, <3>5
  <2> QED
    BY <2>1, <2>2
<1> DEFINE r == ReachIn(tree, p)
<1>3. /\ r \in 0..Len(p)
      /\ \A m \in 0..r : Above(p, m) \in tree
      /\ r < Len(p) => Above(p, r + 1) \notin tree
  <2>1. r = CHOOSE n \in 0..Len(p) : Ends(n)
    BY DEF ReachIn
  <2> HIDE DEF r, Ends
  <2>2. r \in 0..Len(p) /\ Ends(r)
    BY <1>2, <2>1
  <2> QED
    BY <2>2 DEF Ends
<1> HIDE DEF r
<1>4. r = Len(p) <=> p \in tree
  <2>1. ASSUME r = Len(p) PROVE p \in tree
    BY <1>1, <1>3, <2>1
  <2>2. ASSUME p \in tree, r # Len(p) PROVE FALSE
    <3>1. r < Len(p) /\ r + 1 \in 0..Len(p)
      BY <1>1, <1>3, <2>2
    <3> QED
      BY <1>3, <2>2, <3>1 DEF Rooted
  <2> QED
    BY <2>1, <2>2
<1> QED
  BY <1>3, <1>4 DEF r

Found(tree, target, p) == IF p \in tree THEN target[p] ELSE None

LEMMA TargetIs ==
  ASSUME Depth \in Nat, NEW p \in Paths
  PROVE  /\ Rooted(nodes) => Tree!GetTarget(p) = Found(nodes, at, p)
         /\ Rooted(nodes') => Tree!GetTarget(p)' = Found(nodes', at', p)
<1>1. Tree!Reach(p) = ReachIn(nodes, p) /\ Tree!Reach(p)' = ReachIn(nodes', p)
  BY DEF Tree!Reach, ReachIn, Tree!Above, Above
<1>2. Rooted(nodes) => (Tree!Reach(p) = Len(p) <=> p \in nodes)
  BY <1>1, ReachIs
<1>3. Rooted(nodes') => (Tree!Reach(p)' = Len(p) <=> p \in nodes')
  BY <1>1, ReachIs
<1>4. Tree!GetTarget(p)' = IF Tree!Reach(p)' = Len(p) THEN at'[p] ELSE None
  BY DEF Tree!GetTarget
<1> QED
  BY <1>2, <1>3, <1>4 DEF Tree!GetTarget, Found

(* A tree is bare exactly if nothing is registered. *)
LEMMA EmptyIs ==
  ASSUME Depth \in Nat, NEW tree, Rooted(tree), NEW target,
         \A q \in tree : q # <<>> /\ target[q] = None => ChildsIn(tree, q) # {}
  PROVE  target[<<>>] = None /\ ChildsIn(tree, <<>>) = {}
           <=> \A p \in Paths : Found(tree, target, p) = None
<1>1. ASSUME target[<<>>] = None, ChildsIn(tree, <<>>) = {}, NEW p \in tree
      PROVE  target[p] = None
  <2>1. p \in Paths /\ Len(p) \in Nat
    BY PathIs DEF Rooted
  <2>2. CASE Len(p) = 0
    BY <1>1, <2>1, <2>2, PathIs
  <2>3. CASE Len(p) # 0
    <3>1. 1 \in 0..Len(p) /\ 0 \in 0..1
      BY <2>1, <2>3
    <3>2. Above(p, 1) \in tree /\ Len(Above(p, 1)) = 1
          /\ Above(Above(p, 1), 0) = Above(p, 0) /\ Above(p, 0) = <<>>
      BY <2>1, <3>1, PathIs DEF Rooted
    <3>3. Len(<<>>) = 0
      OBVIOUS
    <3>4. Above(p, 1) \in ChildsIn(tree, <<>>)
      BY <3>2, <3>3 DEF ChildsIn
    <3> QED
      BY <1>1, <3>4
  <2> QED
    BY <2>2, <2>3
<1>2. ASSUME \A p \in Paths : Found(tree, target, p) = None
      PROVE  target[<<>>] = None /\ ChildsIn(tree, <<>>) = {}
  <2>1. \A q \in tree : target[q] = None
    BY <1>2 DEF Rooted, Found
  <2>2. ASSUME ChildsIn(tree, <<>>) # {} PROVE FALSE
    <3> DEFINE Inner == {q \in tree : q # <<>>}
               M == {Depth - Len(q) : q \in Inner}
    <3>1. \A q \in Inner : Len(q) \in Nat /\ Len(q) <= Depth
      BY PathIs DEF Rooted
    <3>2. PICK c \in ChildsIn(tree, <<>>) : TRUE
      BY <2>2
    <3>3. c \in tree /\ Len(c) = 1
      BY DEF ChildsIn
    <3>4. c \in Inner
      BY <3>3
    <3>5. M \subseteq Nat /\ M # {}
      BY <3>1, <3>4
    <3> HIDE DEF M
    <3>6. PICK m \in M : \A k \in M : m <= k
      BY <3>5, Least
    <3>7. PICK q \in Inner : m = Depth - Len(q)
      BY <3>6 DEF M
    <3>8. PICK e \in ChildsIn(tree, q) : TRUE
      BY <2>1
    <3>9. e \in tree /\ Len(e) = Len(q) + 1
      BY DEF ChildsIn
    <3>10. e \in Inner
      <4>1. Len(<<>>) = 0
        OBVIOUS
      <4> QED
        BY <3>1, <3>7, <3>9, <4>1
    <3>11. m <= Depth - Len(e)
      BY <3>6, <3>10 DEF M
    <3> QED
      BY <3>1, <3>7, <3>9, <3>11
  <2> QED
    BY <2>1, <2>2 DEF Rooted
<1> QED
  BY <1>1, <1>2 DEF Found

(***************************************************************************)
(* The nodes on the way to p, from the m-th on, that nothing needs any     *)
(* more: no targets, and no childs but the next of them.                   *)
(***************************************************************************)
Useless(tree, target, p, far, m) ==
  \A k \in m..far :
    /\ target[Above(p, k)] = None
    /\ \A q \in ChildsIn(tree, Above(p, k)) : k < far /\ q = Above(p, k + 1)

(* What the way back erases. *)
LEMMA PrunedIs ==
  ASSUME Depth \in Nat, Rooted(nodes), NEW p \in Paths, NEW kept
  PROVE  Tree!Pruned(p, kept) =
           {Above(p, m) : m \in {k \in 1..Tree!Reach(p) :
                                   Useless(nodes, kept, p, Tree!Reach(p), k)}}
<1> DEFINE far == Tree!Reach(p)
           step(g, n) == IF n > far THEN {}
                         ELSE IF /\ kept[Above(p, n)] = None
                                 /\ ChildsIn(nodes, Above(p, n)) \subseteq g[n + 1]
                         THEN g[n + 1] \cup {Above(p, n)} ELSE g[n + 1]
           Places == 1..(Len(p) + 1)
           way(n) == {Above(p, m) : m \in {k \in n..far : Useless(nodes, kept, p, far, k)}}
           f == [n \in Places |-> way(n)]
<1>1. far = ReachIn(nodes, p)
  BY DEF Tree!Reach, ReachIn, Tree!Above, Above
<1>2. /\ Len(p) \in Nat /\ far \in 0..Len(p) /\ far \in Nat
      /\ \A m \in 0..far : Above(p, m) \in nodes /\ Len(Above(p, m)) = m
  <2>1. Len(p) \in Nat /\ \A m \in 0..Len(p) : Len(Above(p, m)) = m
    BY PathIs
  <2>2. far \in 0..Len(p) /\ \A m \in 0..far : Above(p, m) \in nodes
    BY <1>1, ReachIs
  <2> QED
    BY <2>1, <2>2
<1> HIDE DEF far
<1>3. \A n \in 0..far - 1 : Above(p, n + 1) \in ChildsIn(nodes, Above(p, n))
  <2> TAKE n \in 0..far - 1
  <2>1. n \in 0..far /\ n + 1 \in 0..far /\ n + 1 \in 0..Len(p) /\ n \in 0..n + 1
    BY <1>2
  <2>2. Len(Above(p, n + 1)) = n + 1 /\ Len(Above(p, n)) = n /\ Above(p, n + 1) \in nodes
    BY <1>2, <2>1
  <2>3. Above(Above(p, n + 1), n) = Above(p, n)
    BY <2>1, PathIs
  <2> QED
    BY <2>2, <2>3 DEF ChildsIn
(* The set is a solution, *)
<1>4. ASSUME NEW n \in Places PROVE f[n] = step(f, n)
  <2>1. f[n] = way(n)
    OBVIOUS
  <2>2. CASE n > far
    <3>1. n..far = {}
      BY <1>2, <2>2
    <3> QED
      BY <2>1, <2>2, <3>1
  <2>3. CASE ~(n > far)
    <3>1. n \in 1..far /\ n + 1 \in Places /\ f[n + 1] = way(n + 1)
      BY <1>2, <2>3
    <3>2. n..far = {n} \cup (n + 1)..far
      BY <1>2, <3>1
    <3>3. way(n) = way(n + 1) \cup
                     (IF Useless(nodes, kept, p, far, n) THEN {Above(p, n)} ELSE {})
      BY <3>2
    <3>4. ASSUME Useless(nodes, kept, p, far, n)
          PROVE  /\ kept[Above(p, n)] = None
                 /\ ChildsIn(nodes, Above(p, n)) \subseteq way(n + 1)
      <4>1. n \in n..far
        BY <3>1
      <4>2. ASSUME NEW q \in ChildsIn(nodes, Above(p, n)) PROVE q \in way(n + 1)
        <5>1. n < far /\ q = Above(p, n + 1)
          BY <3>4, <4>1, <4>2 DEF Useless
        <5>2. n + 1 \in (n + 1)..far /\ (n + 1)..far \subseteq n..far
          BY <1>2, <3>1, <5>1
        <5>3. Useless(nodes, kept, p, far, n + 1)
          BY <3>4, <5>2 DEF Useless
        <5> QED
          BY <5>1, <5>2, <5>3
      <4> QED
        BY <3>4, <4>1, <4>2 DEF Useless
    <3>5. ASSUME kept[Above(p, n)] = None, ChildsIn(nodes, Above(p, n)) \subseteq way(n + 1)
          PROVE  Useless(nodes, kept, p, far, n)
      <4>1. ASSUME NEW q \in ChildsIn(nodes, Above(p, n)) PROVE n < far /\ q = Above(p, n + 1)
        <5>1. PICK m \in (n + 1)..far : q = Above(p, m)
          BY <3>5, <4>1
        <5>2. m \in 0..far /\ n \in 0..far
          BY <1>2, <3>1
        <5>3. Len(q) = m /\ Len(q) = n + 1
          BY <1>2, <4>1, <5>1, <5>2 DEF ChildsIn
        <5> QED
          BY <1>2, <3>1, <5>1, <5>3
      <4>2. ASSUME n < far PROVE Useless(nodes, kept, p, far, n + 1)
        <5>1. n \in 0..far - 1
          BY <1>2, <3>1, <4>2
        <5>2. Above(p, n + 1) \in way(n + 1)
          BY <1>3, <3>5, <5>1
        <5>3. PICK m \in (n + 1)..far : Above(p, n + 1) = Above(p, m)
                                        /\ Useless(nodes, kept, p, far, m)
          BY <5>2
        <5>4. m \in 0..far /\ n + 1 \in 0..far
          BY <1>2, <3>1, <4>2
        <5>5. m = n + 1
          BY <1>2, <5>3, <5>4
        <5> QED
          BY <5>3, <5>5
      <4>3. ASSUME NEW k \in n..far
            PROVE  /\ kept[Above(p, k)] = None
                   /\ \A q \in ChildsIn(nodes, Above(p, k)) : k < far /\ q = Above(p, k + 1)
        <5>1. CASE k = n
          BY <3>5, <4>1, <5>1
        <5>2. CASE k # n
          <6>1. k \in (n + 1)..far /\ n < far
            BY <1>2, <3>1, <4>3, <5>2
          <6> QED
            BY <4>2, <6>1 DEF Useless
        <5> QED
          BY <5>1, <5>2
      <4> QED
        BY <4>3 DEF Useless
    <3> HIDE DEF f, way
    <3> QED
      BY <2>1, <2>3, <3>1, <3>3, <3>4, <3>5
  <2> QED
    BY <2>2, <2>3
(* and the only one. *)
<1> DEFINE g == CHOOSE g : g = [n \in Places |-> step(g, n)]
<1>5. Tree!Pruned(p, kept) = g[1]
  BY DEF Tree!Pruned, Tree!Above, Tree!Childs, Above, ChildsIn, far
<1> HIDE DEF way
<1>6. f = [n \in Places |-> step(f, n)]
  <2> DEFINE h == [n \in Places |-> step(f, n)]
  <2>1. \A n \in Places : f[n] = h[n]
    BY <1>4
  <2> QED
    BY <2>1
<1> HIDE DEF f
<1>7. g = [n \in Places |-> step(g, n)]
  BY <1>6
<1> HIDE DEF g
<1>8. \A n \in Places : g[n] = step(g, n)
  BY ONLY <1>7
<1>9. \A n \in Places : g[n] = f[n]
  <2> DEFINE Bad == {n \in Places : g[n] # f[n]}
             M == {Len(p) + 1 - n : n \in Bad}
  <2> SUFFICES ASSUME Bad # {} PROVE FALSE
    OBVIOUS
  <2>1. M \subseteq Nat /\ M # {}
    BY <1>2
  <2> HIDE DEF M
  <2>2. PICK m \in M : \A k \in M : m <= k
    BY <2>1, Least
  <2>3. PICK n \in Bad : m = Len(p) + 1 - n
    BY <2>2 DEF M
  <2>4. CASE n > far
    BY <1>4, <1>8, <2>3, <2>4
  <2>5. CASE ~(n > far)
    <3>1. n + 1 \in Places
      BY <1>2, <2>5
    <3>2. n + 1 \notin Bad
      <4>1. ASSUME n + 1 \in Bad PROVE FALSE
        <5>1. m <= Len(p) + 1 - (n + 1)
          BY <2>2, <4>1 DEF M
        <5> QED
          BY <1>2, <2>3, <5>1
      <4> QED
        BY <4>1
    <3>3. g[n + 1] = f[n + 1]
      BY <3>1, <3>2
    <3>4. g[n] = step(g, n) /\ f[n] = step(f, n)
      BY <1>4, <1>8
    <3> QED
      BY <2>3, <3>3, <3>4
  <2> QED
    BY <2>4, <2>5
<1>10. 1 \in Places
  BY <1>2
<1>11. Tree!Pruned(p, kept) = way(1)
  BY <1>5, <1>9, <1>10 DEF f
<1> QED
  BY <1>11 DEF way, far

LEMMA InsertKeepsTree ==
  ASSUME Tree!PathTreeAssumption, TreeInv, NEW p \in Paths, NEW t \in Targets,
         Tree!InsertTarget(p, t)
  PROVE  /\ TreeInv'
         /\ \A q \in Paths :
              Found(nodes', at', q) =
                IF q = p /\ Found(nodes, at, p) = None THEN t ELSE Found(nodes, at, q)
<1> DEFINE way == {Above(p, n) : n \in 0..Len(p)}
<1>1. Depth \in Nat /\ t # None /\ Rooted(nodes)
  BY DEF Tree!PathTreeAssumption, TreeInv
<1>2. /\ Len(p) \in Nat /\ Above(p, Len(p)) = p
      /\ \A n \in 0..Len(p) : /\ Above(p, n) \in Paths /\ Len(Above(p, n)) = n
                             /\ \A m \in 0..n : Above(Above(p, n), m) = Above(p, m)
  BY <1>1, PathIs
<1>3. Tree!GetTarget(p) = Found(nodes, at, p)
  BY <1>1, TargetIs
<1>4. /\ nodes' = nodes \cup way
      /\ at' = [q \in nodes' |-> IF q = p /\ Found(nodes, at, p) = None THEN t
                                ELSE IF q \in nodes THEN at[q] ELSE None]
  BY <1>3 DEF Tree!InsertTarget, Tree!Above, Above
<1>5. p \in way
  BY <1>2
<1>6. Rooted(nodes')
  <2>1. nodes' \subseteq Paths /\ <<>> \in nodes'
    BY <1>1, <1>2, <1>4 DEF Rooted
  <2>2. ASSUME NEW q \in nodes', NEW n \in 0..Len(q) PROVE Above(q, n) \in nodes'
    <3>1. CASE q \in nodes
      BY <1>1, <1>4, <3>1 DEF Rooted
    <3>2. CASE q \in way
      <4>1. PICK k \in 0..Len(p) : q = Above(p, k)
        BY <3>2
      <4>2. n \in 0..k /\ n \in 0..Len(p)
        BY <1>2, <4>1
      <4>3. Above(q, n) = Above(p, n)
        BY <1>2, <4>1, <4>2
      <4> QED
        BY <1>4, <4>2, <4>3
    <3> QED
      BY <1>4, <3>1, <3>2
  <2> QED
    BY <2>1, <2>2 DEF Rooted
<1>7. at' \in [nodes' -> Targets \cup {None}]
  BY <1>4 DEF TreeInv
<1>8. ASSUME NEW q \in nodes', q # <<>>, at'[q] = None PROVE ChildsIn(nodes', q) # {}
  <2>1. q # p
    <3>1. ASSUME q = p PROVE FALSE
      <4>1. Found(nodes, at, p) # None
        BY <1>1, <1>4, <1>8, <3>1
      <4>2. p \in nodes /\ at[p] = None
        BY <1>4, <1>8, <3>1, <4>1 DEF Found
      <4> QED
        BY <4>1, <4>2 DEF Found
    <3> QED
      BY <3>1
  <2>2. CASE q \in nodes
    <3>1. at[q] = None
      BY <1>4, <1>8, <2>1, <2>2
    <3>2. ChildsIn(nodes, q) # {}
      BY <1>8, <2>2, <3>1 DEF TreeInv
    <3> QED
      BY <1>4, <3>2 DEF ChildsIn
  <2>3. CASE q \notin nodes
    <3>1. PICK n \in 0..Len(p) : q = Above(p, n)
      BY <1>4, <2>3
    <3>2. n # Len(p)
      BY <1>2, <2>1, <3>1
    <3>3. n + 1 \in 0..Len(p) /\ n \in 0..n + 1
      BY <1>2, <3>2
    <3>4. Len(q) = n /\ Len(Above(p, n + 1)) = n + 1 /\ Above(Above(p, n + 1), n) = q
      BY <1>2, <3>1, <3>3
    <3>5. Above(p, n + 1) \in nodes'
      BY <1>4, <3>3
    <3>6. Above(p, n + 1) \in ChildsIn(nodes', q)
      BY <3>4, <3>5 DEF ChildsIn
    <3> QED
      BY <3>6
  <2> QED
    BY <2>2, <2>3
<1>9. TreeInv'
  BY <1>6, <1>7, <1>8 DEF TreeInv
<1>10. ASSUME NEW q \in Paths
       PROVE  Found(nodes', at', q) =
                IF q = p /\ Found(nodes, at, p) = None THEN t ELSE Found(nodes, at, q)
  <2>1. CASE q \in nodes'
    <3>1. at'[q] = IF q = p /\ Found(nodes, at, p) = None THEN t
                   ELSE IF q \in nodes THEN at[q] ELSE None
      BY <1>4, <2>1
    <3> HIDE DEF way
    <3> QED
      BY <2>1, <3>1 DEF Found
  <2>2. CASE q \notin nodes'
    <3>1. q \notin nodes /\ q # p
      BY <1>4, <1>5, <2>2
    <3> QED
      BY <2>2, <3>1 DEF Found
  <2> QED
    BY <2>1, <2>2
<1> QED
  BY <1>9, <1>10

LEMMA RemoveKeepsTree ==
  ASSUME Tree!PathTreeAssumption, TreeInv, NEW p \in Paths, Tree!RemoveTarget(p)
  PROVE  /\ TreeInv'
         /\ \A q \in Paths :
              Found(nodes', at', q) = IF q = p THEN None ELSE Found(nodes, at, q)
<1> DEFINE far == Tree!Reach(p)
           kept == IF far = Len(p) THEN [at EXCEPT ![p] = None] ELSE at
           erased(m) == m \in 1..far /\ Useless(nodes, kept, p, far, m)
           gone == {Above(p, m) : m \in {k \in 1..far : Useless(nodes, kept, p, far, k)}}
<1>1. Depth \in Nat /\ Rooted(nodes) /\ at \in [nodes -> Targets \cup {None}]
  BY DEF Tree!PathTreeAssumption, TreeInv
<1>2. nodes' = nodes \ gone /\ at' = [q \in nodes' |-> kept[q]]
  <2>1. Tree!Pruned(p, kept) = gone
    BY <1>1, PrunedIs
  <2>2. /\ nodes' = nodes \ Tree!Pruned(p, kept)
        /\ at' = [q \in nodes' |-> kept[q]]
    BY DEF Tree!RemoveTarget
  <2> QED
    BY <2>1, <2>2
<1>3. far = ReachIn(nodes, p)
  BY DEF Tree!Reach, ReachIn, Tree!Above, Above
<1>4. /\ Len(p) \in Nat /\ far \in 0..Len(p) /\ far \in Nat /\ Above(p, Len(p)) = p
      /\ far = Len(p) <=> p \in nodes
      /\ \A m \in 0..far : Above(p, m) \in nodes /\ Len(Above(p, m)) = m
  <2>1. Len(p) \in Nat /\ Above(p, Len(p)) = p /\ \A m \in 0..Len(p) : Len(Above(p, m)) = m
    BY <1>1, PathIs
  <2>2. /\ far \in 0..Len(p) /\ \A m \in 0..far : Above(p, m) \in nodes
        /\ far = Len(p) <=> p \in nodes
    BY <1>1, <1>3, ReachIs
  <2> QED
    BY <2>1, <2>2
<1> HIDE DEF far
<1>5. /\ kept \in [nodes -> Targets \cup {None}]
      /\ \A q \in nodes : kept[q] = IF q = p THEN None ELSE at[q]
  BY <1>1, <1>4
<1> HIDE DEF kept
(* All that lies below a node that is erased is erased, too. *)
<1>6. ASSUME NEW q \in nodes, NEW n \in 0..Len(q), Above(q, n) \in gone PROVE q \in gone
  <2>1. PICK m \in 1..far : Above(q, n) = Above(p, m) /\ Useless(nodes, kept, p, far, m)
    BY <1>6
  <2>2. /\ Len(q) \in Nat /\ Above(q, Len(q)) = q
        /\ \A k \in 0..Len(q) : /\ Len(Above(q, k)) = k /\ Above(q, k) \in nodes
                               /\ \A l \in 0..k : Above(Above(q, k), l) = Above(q, l)
    <3>1. q \in Paths
      BY <1>1 DEF Rooted
    <3> QED
      BY <1>1, <3>1, PathIs DEF Rooted
  <2>3. m = n
    BY <1>4, <2>1, <2>2
  <2> DEFINE Bad == {k \in n..Len(q) : ~(k <= far /\ Above(q, k) = Above(p, k))}
  <2>4. ASSUME Bad # {} PROVE FALSE
    <3>1. Bad \subseteq Nat
      BY <2>2
    <3>2. PICK k \in Bad : \A l \in Bad : k <= l
      BY <2>4, <3>1, Least
    <3>3. k # n
      BY <1>4, <2>1, <2>3
    <3>4. k \in Nat /\ k \in n..Len(q) /\ k - 1 \in n..Len(q) /\ ~(k <= k - 1)
          /\ k - 1 \in 0..k /\ k \in 0..Len(q) /\ k - 1 + 1 = k
      BY <2>2, <3>3
    <3>5. k - 1 <= far /\ Above(q, k - 1) = Above(p, k - 1)
      BY <3>2, <3>4
    <3>6. k - 1 \in m..far
      BY <1>4, <2>3, <3>4, <3>5
    <3>7. Len(Above(q, k)) = k /\ Above(q, k) \in nodes
          /\ Above(Above(q, k), k - 1) = Above(q, k - 1)
      BY <2>2, <3>4
    <3>8. Len(Above(p, k - 1)) = k - 1
      BY <1>4, <3>6
    <3>9. Above(q, k) \in ChildsIn(nodes, Above(p, k - 1))
      BY <3>4, <3>5, <3>7, <3>8 DEF ChildsIn
    <3>10. k - 1 < far /\ Above(q, k) = Above(p, k - 1 + 1)
      BY <2>1, <3>6, <3>9 DEF Useless
    <3> QED
      BY <1>4, <3>2, <3>4, <3>10
  <2>5. Len(q) \in n..Len(q)
    BY <2>2
  <2>6. Len(q) <= far /\ q = Above(p, Len(q))
    BY <2>2, <2>4, <2>5
  <2>7. Len(q) \in m..far /\ Len(q)..far \subseteq m..far /\ Len(q) \in 1..far
    BY <1>4, <2>2, <2>3, <2>5, <2>6
  <2>8. Useless(nodes, kept, p, far, Len(q))
    BY <2>1, <2>7 DEF Useless
  <2> QED
    BY <2>6, <2>7, <2>8
<1>7. ASSUME NEW q \in gone PROVE q \in nodes /\ q # <<>> /\ kept[q] = None
  <2>1. PICK m \in 1..far : q = Above(p, m) /\ Useless(nodes, kept, p, far, m)
    BY <1>7
  <2>2. m \in m..far /\ m \in 0..far /\ m # 0
    BY <1>4
  <2>3. kept[q] = None
    BY <2>1, <2>2 DEF Useless
  <2>4. Len(<<>>) = 0
    OBVIOUS
  <2> QED
    BY <1>4, <2>1, <2>2, <2>3, <2>4
<1>8. Rooted(nodes')
  <2>1. nodes' \subseteq Paths /\ <<>> \in nodes'
    BY <1>1, <1>2, <1>7 DEF Rooted
  <2>2. ASSUME NEW q \in nodes', NEW n \in 0..Len(q) PROVE Above(q, n) \in nodes'
    BY <1>1, <1>2, <1>6, <2>2 DEF Rooted
  <2> QED
    BY <2>1, <2>2 DEF Rooted
<1>9. at' \in [nodes' -> Targets \cup {None}]
  BY <1>2, <1>5
<1>10. ASSUME NEW q \in nodes', q # <<>>, at'[q] = None, ChildsIn(nodes', q) = {}
       PROVE  FALSE
  <2>1. q \in nodes /\ q \notin gone /\ kept[q] = None
    BY <1>2, <1>10
  <2>2. ChildsIn(nodes, q) \subseteq gone
    BY <1>2, <1>10 DEF ChildsIn
  <2>3. Len(q) \in Nat /\ Len(q) # 0
    <3>1. q \in Paths
      BY <1>1, <2>1 DEF Rooted
    <3> QED
      BY <1>1, <1>10, <3>1, PathIs
  (* The node is on the way to p, *)
  <2>4. Len(q) <= far /\ q = Above(p, Len(q))
    <3>1. CASE q = p
      BY <1>4, <2>1, <3>1
    <3>2. CASE q # p
      <4>1. at[q] = None
        BY <1>5, <2>1, <3>2
      <4>2. PICK c \in ChildsIn(nodes, q) : TRUE
        BY <1>10, <2>1, <4>1 DEF TreeInv
      <4>3. PICK m \in 1..far : c = Above(p, m)
        BY <2>2, <4>2
      <4>4. Len(c) = Len(q) + 1 /\ Above(c, Len(q)) = q
        BY <4>2 DEF ChildsIn
      <4>5. m \in 0..far /\ m \in 0..Len(p)
        BY <1>4
      <4>6. Len(c) = m
        BY <1>4, <4>3, <4>5
      <4>7. Len(q) \in 0..m /\ Len(q) <= far
        BY <1>4, <2>3, <4>4, <4>6
      <4>8. Above(Above(p, m), Len(q)) = Above(p, Len(q))
        BY <1>1, <4>5, <4>7, PathIs
      <4> QED
        BY <4>3, <4>4, <4>7, <4>8
    <3> QED
      BY <3>1, <3>2
  <2> DEFINE n == Len(q)
  <2>5. n \in 1..far
    BY <1>4, <2>3, <2>4
  (* and nothing needs it, so that it is gone. *)
  <2>6. ASSUME NEW c \in ChildsIn(nodes, q)
        PROVE  n < far /\ c = Above(p, n + 1) /\ Useless(nodes, kept, p, far, n + 1)
    <3>1. PICK m \in 1..far : c = Above(p, m) /\ Useless(nodes, kept, p, far, m)
      BY <2>2, <2>6
    <3>2. Len(c) = n + 1 /\ Len(c) = m
      BY <1>4, <2>6, <3>1 DEF ChildsIn
    <3> QED
      BY <1>4, <2>5, <3>1, <3>2
  <2>7. n < far => Useless(nodes, kept, p, far, n + 1)
    <3> SUFFICES ASSUME n < far PROVE Useless(nodes, kept, p, far, n + 1)
      OBVIOUS
    <3>1. n + 1 \in 0..far /\ n \in 0..n + 1 /\ n + 1 \in 0..Len(p)
      BY <1>4, <2>5
    <3>2. Len(Above(p, n + 1)) = n + 1 /\ Above(p, n + 1) \in nodes
      BY <1>4, <3>1
    <3>3. Above(Above(p, n + 1), n) = q
      BY <1>1, <2>4, <3>1, PathIs
    <3>4. Above(p, n + 1) \in ChildsIn(nodes, q)
      BY <3>2, <3>3 DEF ChildsIn
    <3> QED
      BY <2>6, <3>4
  <2>8. Useless(nodes, kept, p, far, n)
    <3> SUFFICES ASSUME NEW k \in n..far
                 PROVE  /\ kept[Above(p, k)] = None
                        /\ \A c \in ChildsIn(nodes, Above(p, k)) :
                              k < far /\ c = Above(p, k + 1)
      BY DEF Useless
    <3>1. CASE k = n
      BY <2>1, <2>4, <2>6, <3>1
    <3>2. CASE k # n
      <4>1. k \in (n + 1)..far /\ n < far
        BY <1>4, <2>5, <3>2
      <4> QED
        BY <2>7, <4>1 DEF Useless
    <3> QED
      BY <3>1, <3>2
  <2> QED
    BY <2>1, <2>4, <2>5, <2>8
<1>11. TreeInv'
  BY <1>8, <1>9, <1>10 DEF TreeInv
<1>12. ASSUME NEW q \in Paths
       PROVE  Found(nodes', at', q) = IF q = p THEN None ELSE Found(nodes, at, q)
  <2>1. CASE q \in nodes'
    BY <1>2, <1>5, <2>1 DEF Found
  <2>2. CASE q \in gone
    BY <1>2, <1>5, <1>7, <2>2 DEF Found
  <2>3. CASE q \notin nodes
    BY <1>2, <2>3 DEF Found
  <2> QED
    BY <1>2, <2>1, <2>2, <2>3
<1> QED
  BY <1>11, <1>12

LEMMA TreeStep ==
  ASSUME Tree!PathTreeAssumption, TreeInv, [Tree!Next]_treeVars
  PROVE  TreeInv' /\ [Tree!Registry!Next]_(Tree!Registry!vars)
<1> DEFINE target == [p \in Tree!Paths |-> Tree!GetTarget(p)]
           empty == Tree!IsEmpty
           all == [p \in Paths |-> Found(nodes, at, p)]
<1>1. Depth \in Nat /\ None \notin Targets
  BY DEF Tree!PathTreeAssumption
<1>2. target = all
  BY <1>1, TargetIs DEF TreeInv, Paths
<1>3. ASSUME TreeInv' PROVE target' = all'
  <2>1. \A p \in Paths : Tree!GetTarget(p)' = Found(nodes', at', p)
    BY <1>1, <1>3, TargetIs DEF TreeInv
  <2> QED
    BY <2>1 DEF Paths, Found
<1>4. ASSUME TreeInv' PROVE empty' = (\A p \in Paths : all'[p] = None)
  <2>1. empty' = (at'[<<>>] = None /\ ChildsIn(nodes', <<>>) = {})
    BY DEF Tree!IsEmpty, Tree!Childs, ChildsIn, Above
  <2>2. /\ Rooted(nodes')
        /\ \A q \in nodes' : q # <<>> /\ at'[q] = None => ChildsIn(nodes', q) # {}
    BY <1>4 DEF TreeInv
  <2>3. at'[<<>>] = None /\ ChildsIn(nodes', <<>>) = {}
          <=> \A p \in Paths : Found(nodes', at', p) = None
    BY <1>1, <2>2, EmptyIs
  <2>4. \A p \in Paths : all'[p] = Found(nodes', at', p)
    BY DEF Found
  <2> HIDE DEF all, empty
  <2> QED
    BY <2>1, <2>3, <2>4
<1> HIDE DEF target, empty
<1>5. ASSUME NEW p \in Paths, NEW t \in Targets, Tree!InsertTarget(p, t)
      PROVE  TreeInv' /\ Tree!Registry!Next
  <2>1. /\ TreeInv'
        /\ \A q \in Paths :
             Found(nodes', at', q) =
               IF q = p /\ Found(nodes, at, p) = None THEN t ELSE Found(nodes, at, q)
    BY <1>5, InsertKeepsTree
  <2>2. all' = IF all[p] = None THEN [all EXCEPT ![p] = t] ELSE all
    BY <2>1 DEF Found
  <2>3. target' = IF target[p] = None THEN [target EXCEPT ![p] = t] ELSE target
    BY <1>2, <1>3, <2>1, <2>2
  <2>4. empty' = \A q \in Paths : target'[q] = None
    BY <1>3, <1>4, <2>1
  <2>5. Tree!Registry!Insert(p, t)
    BY <2>3 DEF Tree!Registry!Insert, target
  <2> QED
    BY <2>1, <2>4, <2>5 DEF Tree!Registry!Next, target, empty, Paths
<1>6. ASSUME NEW p \in Paths, Tree!RemoveTarget(p)
      PROVE  TreeInv' /\ Tree!Registry!Next
  <2>1. /\ TreeInv'
        /\ \A q \in Paths :
             Found(nodes', at', q) = IF q = p THEN None ELSE Found(nodes, at, q)
    BY <1>6, RemoveKeepsTree
  <2>2. all' = [all EXCEPT ![p] = None]
    BY <2>1 DEF Found
  <2>3. target' = [target EXCEPT ![p] = None]
    BY <1>2, <1>3, <2>1, <2>2
  <2>4. empty' = \A q \in Paths : target'[q] = None
    BY <1>3, <1>4, <2>1
  <2>5. Tree!Registry!Remove(p)
    BY <2>3 DEF Tree!Registry!Remove, target
  <2> QED
    BY <2>1, <2>4, <2>5 DEF Tree!Registry!Next, target, empty, Paths
<1>7. ASSUME UNCHANGED treeVars
      PROVE  TreeInv' /\ UNCHANGED Tree!Registry!vars
  <2>1. nodes' = nodes /\ at' = at
    BY <1>7 DEF treeVars
  <2>2. TreeInv'
    BY <2>1 DEF TreeInv
  <2>3. Tree!IsEmpty' = Tree!IsEmpty
    BY <2>1 DEF Tree!IsEmpty, Tree!Childs
  <2>4. target' = target
    BY <1>2, <1>3, <2>1, <2>2
  <2> QED
    BY <2>2, <2>3, <2>4 DEF Tree!Registry!vars, target
<1> QED
  BY <1>5, <1>6, <1>7 DEF Tree!Next, Paths

LEMMA TreeBegins ==
  Tree!PathTreeAssumption /\ Tree!Init => TreeInv /\ Tree!Registry!Init
<1> SUFFICES ASSUME Tree!PathTreeAssumption, Tree!Init
             PROVE  TreeInv /\ Tree!Registry!Init
  OBVIOUS
<1>1. Depth \in Nat /\ nodes = {<<>>} /\ at = [p \in {<<>>} |-> None]
  BY DEF Tree!PathTreeAssumption, Tree!Init
<1>2. <<>> \in Paths
  <2>1. <<>> \in [1..0 -> Names] /\ 0 \in 0..Depth
    BY <1>1
  <2> QED
    BY <2>1 DEF Paths, Tree!Paths
<1>3. Rooted(nodes)
  <2>1. \A n \in 0..Len(<<>>) : n = 0
    OBVIOUS
  <2>2. Above(<<>>, 0) = <<>>
    BY <1>1, <1>2, PathIs
  <2> QED
    BY <1>1, <1>2, <2>1, <2>2 DEF Rooted
<1>4. TreeInv
  BY <1>1, <1>3 DEF TreeInv
<1>5. \A p \in Paths : Found(nodes, at, p) = None
  BY <1>1 DEF Found
<1>6. [p \in Tree!Paths |-> Tree!GetTarget(p)] = [p \in Tree!Paths |-> None]
  BY <1>1, <1>3, <1>5, TargetIs DEF Paths
<1>7. Tree!IsEmpty = TRUE
  <2>1. Tree!IsEmpty = (at[<<>>] = None /\ ChildsIn(nodes, <<>>) = {})
    BY DEF Tree!IsEmpty, Tree!Childs, ChildsIn, Above
  <2>2. at[<<>>] = None /\ ChildsIn(nodes, <<>>) = {}
    BY <1>1, <1>3, <1>4, <1>5, EmptyIs DEF TreeInv
  <2> QED
    BY <2>1, <2>2
<1> QED
  BY <1>4, <1>6, <1>7 DEF Tree!Registry!Init

(***************************************************************************)
(* The path tree, for paths of any length: inserting and removing, with    *)
(* the nodes that are made and pruned, does what PathRegistry says of a    *)
(* map, and the tree is empty exactly when nothing is registered.          *)
(***************************************************************************)
THEOREM TreeIsMap == Spec => ImplementsRegistry
<1>1. Tree!PathTreeAssumption
  BY PartsAssumption
<1>2. Init => TreeInv /\ Tree!Registry!Init
  BY <1>1, TreeBegins DEF Init
<1>3. TreeInv /\ [Next]_vars => TreeInv' /\ [Tree!Registry!Next]_(Tree!Registry!vars)
  <2> SUFFICES ASSUME TreeInv, [Next]_vars
               PROVE  TreeInv' /\ [Tree!Registry!Next]_(Tree!Registry!vars)
    OBVIOUS
  <2>1. [Tree!Next]_treeVars
    BY DEF Next, vars
  <2> QED
    BY <1>1, <2>1, TreeStep
<1> QED
  BY <1>2, <1>3, PTL DEF Spec, ImplementsRegistry, Tree!ImplementsRegistry,
     Tree!Registry!Spec

-----------------------------------------------------------------------------
(* The list of Timer *)

Distinct(q) == \A i, j \in 1..Len(q) : q[i] = q[j] => i = j

Elements(q) == {q[i] : i \in 1..Len(q)}

Neighbour(q, i) == IF i \in 1..Len(q) THEN q[i] ELSE Null

(* The members of l are those of the list q. *)
IsList(l, q) ==
  /\ l \in Timer!List /\ q \in Seq(Timers) /\ Distinct(q)
  /\ l.timeouts = Neighbour(q, 1)
  /\ \A i \in 1..Len(q) :
       /\ l.links[q[i]].before = Neighbour(q, i - 1)
       /\ l.links[q[i]].next = Neighbour(q, i + 1)
  /\ \A t \in Timers \ Elements(q) : l.links[t] = Timer!Unlinked

(* TimerList!Order and the walk of LastNotLater, as functions of the links. *)
OrderFrom(k) ==
  CHOOSE from :
    from = [t \in Timers \cup {Null} |->
              IF t = Null THEN <<>> ELSE <<t>> \o from[k[t].next]]

WalkFrom(k, due, t) ==
  CHOOSE walk :
    walk = [b \in Timers |->
              LET n == k[b].next
              IN IF n # Null /\ due[n] <= due[t] THEN walk[n] ELSE b]

(* q from its i-th element on *)
Rest(q, i) == [j \in 1..Len(q) - i + 1 |-> q[i + j - 1]]

(* A sequence is its i-th element and what comes after it. *)
LEMMA RestIs ==
  ASSUME NEW S, NEW q \in Seq(S)
  PROVE  /\ Rest(q, 1) = q /\ Rest(q, Len(q) + 1) = <<>>
         /\ \A i \in 1..Len(q) : <<q[i]>> \o Rest(q, i + 1) = Rest(q, i)
<1>1. Len(q) \in Nat /\ q = [j \in 1..Len(q) |-> q[j]] /\ \A i \in 1..Len(q) : q[i] \in S
  OBVIOUS
<1>2. Rest(q, 1) = q
  <2>1. Len(q) - 1 + 1 = Len(q) /\ \A j \in 1..Len(q) : 1 + j - 1 = j
    BY <1>1
  <2>2. Rest(q, 1) = [j \in 1..Len(q) |-> q[j]]
    BY <2>1 DEF Rest
  <2> QED
    BY <1>1, <2>2
<1>3. Rest(q, Len(q) + 1) = <<>>
  <2>1. 1..Len(q) - (Len(q) + 1) + 1 = {}
    BY <1>1
  <2> QED
    BY <2>1 DEF Rest
<1>4. ASSUME NEW i \in 1..Len(q) PROVE <<q[i]>> \o Rest(q, i + 1) = Rest(q, i)
  <2> DEFINE m == Len(q) - i
             r == Rest(q, i + 1)
  <2>1. m \in Nat /\ Len(q) - (i + 1) + 1 = m /\ Len(q) - i + 1 = m + 1
    BY <1>1
  <2>2. r = [j \in 1..m |-> q[i + 1 + j - 1]]
    BY <2>1 DEF Rest
  <2>3. \A j \in 1..m : q[i + 1 + j - 1] \in S /\ q[i + 1 + j - 1] = q[i + j]
    <3> TAKE j \in 1..m
    <3>1. i + 1 + j - 1 \in 1..Len(q) /\ i + 1 + j - 1 = i + j
      BY <1>1
    <3> QED
      BY <1>1, <3>1
  <2> HIDE DEF r
  <2>4. r \in Seq(S) /\ Len(r) = m /\ \A j \in 1..m : r[j] = q[i + j]
    BY <2>1, <2>2, <2>3
  <2>5. <<q[i]>> \in Seq(S) /\ Len(<<q[i]>>) = 1 /\ <<q[i]>>[1] = q[i]
    BY <1>1
  <2> HIDE DEF m
  <2>6. /\ <<q[i]>> \o r \in Seq(S) /\ Len(<<q[i]>> \o r) = 1 + m
        /\ \A j \in 1..1 + m : (<<q[i]>> \o r)[j] = IF j <= 1 THEN <<q[i]>>[j] ELSE r[j - 1]
    BY <2>4, <2>5, ConcatProperties
  <2>7. \A j \in 1..m + 1 : (<<q[i]>> \o r)[j] = q[i + j - 1]
    <3> TAKE j \in 1..m + 1
    <3>1. CASE j = 1
      BY <2>1, <2>5, <2>6, <3>1
    <3>2. CASE j # 1
      <4>1. j - 1 \in 1..m /\ i + (j - 1) = i + j - 1 /\ ~(j <= 1) /\ j \in 1..1 + m
        BY <2>1, <3>2
      <4> QED
        BY <2>4, <2>6, <4>1
    <3> QED
      BY <3>1, <3>2
  <2>8. <<q[i]>> \o r = [j \in 1..m + 1 |-> (<<q[i]>> \o r)[j]]
    BY <2>1, <2>6
  <2>9. Rest(q, i) = [j \in 1..m + 1 |-> q[i + j - 1]]
    BY <2>1 DEF Rest
  <2>10. <<q[i]>> \o r = Rest(q, i)
    BY <2>7, <2>8, <2>9
  <2> QED
    BY <2>10 DEF r
<1> QED
  BY <1>2, <1>3, <1>4

Place(q, t) == CHOOSE i \in 1..Len(q) : q[i] = t

(* Every element of a list has one place. *)
LEMMA PlaceIs ==
  ASSUME NEW q, Distinct(q)
  PROVE  /\ \A i \in 1..Len(q) : Place(q, q[i]) = i
         /\ \A t \in Elements(q) : Place(q, t) \in 1..Len(q) /\ q[Place(q, t)] = t
  BY DEF Distinct, Elements, Place

(* What holds at the end of a list, and at i when it holds at i + 1. *)
LEMMA Downwards ==
  ASSUME NEW n \in Nat, NEW G \in SUBSET (1..n), n >= 1 => n \in G,
         \A i \in 1..n : i + 1 \in G => i \in G
  PROVE  \A i \in 1..n : i \in G
<1> DEFINE Bad == {i \in 1..n : i \notin G}
           M == {n - i : i \in Bad}
<1> SUFFICES ASSUME Bad # {} PROVE FALSE
  OBVIOUS
<1>1. M \subseteq Nat /\ M # {}
  OBVIOUS
<1> HIDE DEF M
<1>2. PICK m \in M : \A k \in M : m <= k
  BY <1>1, Least
<1>3. PICK i \in Bad : m = n - i
  BY <1>2 DEF M
<1>4. i # n /\ i + 1 \in 1..n
  BY <1>3
<1>5. i + 1 \in Bad
  BY <1>3, <1>4
<1>6. m <= n - (i + 1)
  BY <1>2, <1>5 DEF M
<1> QED
  BY <1>3, <1>6

(* The members of a list that runs from the first pointer on are its elements. *)
LEMMA OrderIs ==
  ASSUME NEW l, NEW q, IsList(l, q), Null \notin Timers
  PROVE  OrderFrom(l.links)[l.timeouts] = q
<1> DEFINE k == l.links
           P == Timers \cup {Null}
           f == [t \in P |-> IF t = Null THEN <<>>
                             ELSE IF t \in Elements(q) THEN Rest(q, Place(q, t)) ELSE <<t>>]
<1>1. q \in Seq(Timers) /\ Distinct(q) /\ Len(q) \in Nat /\ \A i \in 1..Len(q) : q[i] \in Timers
  BY DEF IsList
<1>2. /\ Rest(q, 1) = q /\ Rest(q, Len(q) + 1) = <<>>
      /\ \A i \in 1..Len(q) : <<q[i]>> \o Rest(q, i + 1) = Rest(q, i)
  BY <1>1, RestIs
<1>3. \A i \in 1..Len(q) : k[q[i]].next = Neighbour(q, i + 1)
  BY DEF IsList
<1>4. \A i \in 1..Len(q) : Neighbour(q, i + 1) = IF i = Len(q) THEN Null ELSE q[i + 1]
  BY <1>1 DEF Neighbour
<1>5. ASSUME NEW t \in Timers PROVE f[t] = <<t>> \o f[k[t].next]
  <2>1. CASE t \in Elements(q)
    <3>1. PICK i \in 1..Len(q) : t = q[i]
      BY <2>1 DEF Elements
    <3>2. f[t] = Rest(q, i)
      BY <1>1, <2>1, <3>1, PlaceIs
    <3>3. f[k[t].next] = Rest(q, i + 1)
      <4>1. CASE i = Len(q)
        BY <1>2, <1>3, <1>4, <3>1, <4>1
      <4>2. CASE i # Len(q)
        <5>1. i + 1 \in 1..Len(q) /\ k[t].next = q[i + 1]
          BY <1>1, <1>3, <1>4, <3>1, <4>2
        <5>2. q[i + 1] \in Timers /\ q[i + 1] \in Elements(q) /\ Place(q, q[i + 1]) = i + 1
          BY <1>1, <5>1, PlaceIs DEF Elements
        <5> QED
          BY <5>1, <5>2
      <4> QED
        BY <4>1, <4>2
    <3> HIDE DEF f, k
    <3> QED
      BY <1>2, <3>1, <3>2, <3>3
  <2>2. CASE t \notin Elements(q)
    <3>1. k[t].next = Null
      BY <2>2 DEF IsList, Timer!Unlinked
    <3>2. f[t] = <<t>> /\ f[k[t].next] = <<>>
      BY <2>2, <3>1
    <3>3. <<t>> \o <<>> = <<t>>
      BY <<t>> \in Seq(Timers), ConcatEmptySeq
    <3> QED
      BY <3>2, <3>3
  <2> QED
    BY <2>1, <2>2
<1>6. f = [t \in P |-> IF t = Null THEN <<>> ELSE <<t>> \o f[k[t].next]]
  <2> DEFINE g == [t \in P |-> IF t = Null THEN <<>> ELSE <<t>> \o f[k[t].next]]
  <2>1. ASSUME NEW t \in P PROVE f[t] = g[t]
    BY <1>5
  <2> QED
    BY <2>1
<1> HIDE DEF f
<1> DEFINE w == OrderFrom(k)
<1>7. w = [t \in P |-> IF t = Null THEN <<>> ELSE <<t>> \o w[k[t].next]]
  BY <1>6 DEF OrderFrom
<1> HIDE DEF w
<1>8. w[Null] = <<>> /\ \A t \in Timers : w[t] = <<t>> \o w[k[t].next]
  BY <1>7
<1> DEFINE G == {i \in 1..Len(q) : w[q[i]] = Rest(q, i)}
<1>9. ASSUME NEW i \in 1..Len(q), i = Len(q) \/ i + 1 \in G PROVE i \in G
  <2>1. w[q[i]] = <<q[i]>> \o w[k[q[i]].next]
    BY <1>1, <1>8
  <2>2. w[k[q[i]].next] = Rest(q, i + 1)
    <3>1. CASE i = Len(q)
      BY <1>2, <1>3, <1>4, <1>8, <3>1
    <3>2. CASE i # Len(q)
      BY <1>3, <1>4, <1>9, <3>2
    <3> QED
      BY <3>1, <3>2
  <2> QED
    BY <1>2, <2>1, <2>2
<1>10. \A i \in 1..Len(q) : i \in G
  <2>1. G \in SUBSET (1..Len(q))
    OBVIOUS
  <2>2. Len(q) >= 1 => Len(q) \in G
    BY <1>1, <1>9
  <2>3. \A i \in 1..Len(q) : i + 1 \in G => i \in G
    BY <1>9
  <2> HIDE DEF G
  <2> QED
    BY <1>1, <2>1, <2>2, <2>3, Downwards
<1>11. CASE Len(q) = 0
  <2>1. l.timeouts = Null /\ q = <<>>
    BY <1>1, <1>11 DEF IsList, Neighbour
  <2> QED
    BY <1>8, <2>1 DEF w
<1>12. CASE Len(q) # 0
  <2>1. l.timeouts = q[1] /\ 1 \in 1..Len(q)
    BY <1>1, <1>12 DEF IsList, Neighbour
  <2>2. w[q[1]] = Rest(q, 1)
    BY <1>10, <2>1
  <2> QED
    BY <1>2, <2>1, <2>2 DEF w
<1> QED
  BY <1>11, <1>12

(* The walk of Timer::Add ends before the first timer that is due later. *)
LEMMA LastIs ==
  ASSUME NEW l, NEW q, IsList(l, q), Null \notin Timers,
         NEW due \in [Timers -> Nat], NEW t \in Timers, NEW p \in 2..Len(q) + 1,
         \A j \in 1..p - 1 : due[q[j]] <= due[t],
         p <= Len(q) => due[q[p]] > due[t]
  PROVE  Timer!LastNotLater(l, due, t) = q[p - 1]
<1> DEFINE k == l.links
           n == Len(q)
           Stops(i) == i = n \/ due[q[i + 1]] > due[t]
           K(i) == {j \in i..n : Stops(j)}
           First(M) == CHOOSE m \in M : \A j \in M : m <= j
           f == [b \in Timers |-> IF b \in Elements(q) THEN q[First(K(Place(q, b)))] ELSE b]
           Goes(b) == k[b].next # Null /\ due[k[b].next] <= due[t]
<1>1. /\ q \in Seq(Timers) /\ Distinct(q) /\ n \in Nat
      /\ \A i \in 1..n : q[i] \in Timers
      /\ \A i \in 1..n : due[q[i]] \in Nat
      /\ due[t] \in Nat
  BY DEF IsList
<1>2. \A i \in 1..n : k[q[i]].next = IF i = n THEN Null ELSE q[i + 1]
  BY <1>1 DEF IsList, Neighbour
<1>3. ASSUME NEW i \in 1..n PROVE Stops(i) <=> ~Goes(q[i])
  <2>1. CASE i = n
    BY <1>2, <2>1
  <2>2. CASE i # n
    <3>1. i + 1 \in 1..n
      BY <1>1, <2>2
    <3>2. q[i + 1] \in Timers /\ due[q[i + 1]] \in Nat
      BY <1>1, <3>1
    <3> QED
      BY <1>1, <1>2, <2>2, <3>2
  <2> QED
    BY <2>1, <2>2
<1> HIDE DEF Stops
<1>4. ASSUME NEW i \in 1..n, Stops(i) PROVE First(K(i)) = i
  <2>1. i \in K(i) /\ \A j \in K(i) : i <= j /\ j \in Int
    BY <1>1, <1>4
  <2> HIDE DEF K
  <2>2. \A m \in K(i) : (\A j \in K(i) : m <= j) => m = i
    BY <2>1
  <2> QED
    BY <2>1, <2>2
<1>5. ASSUME NEW i \in 1..n, ~Stops(i) PROVE i + 1 \in 1..n /\ K(i) = K(i + 1)
  <2>1. i # n
    BY <1>5 DEF Stops
  <2>2. i + 1 \in 1..n /\ i..n = {i} \cup ((i + 1)..n)
    BY <1>1, <2>1
  <2> QED
    BY <1>5, <2>2
<1> HIDE DEF K, First
<1>6. ASSUME NEW b \in Timers PROVE f[b] = IF Goes(b) THEN f[k[b].next] ELSE b
  <2>1. CASE b \in Elements(q)
    <3>1. PICK i \in 1..n : b = q[i]
      BY <2>1 DEF Elements
    <3>2. f[b] = q[First(K(i))]
      BY <1>1, <2>1, <3>1, PlaceIs
    <3>3. CASE Stops(i)
      BY <1>3, <1>4, <3>1, <3>2, <3>3
    <3>4. CASE ~Stops(i)
      <4>1. i + 1 \in 1..n /\ K(i) = K(i + 1) /\ i # n
        BY <1>1, <1>5, <3>4
      <4>2. k[b].next = q[i + 1]
        BY <1>2, <3>1, <4>1
      <4>3. q[i + 1] \in Timers /\ q[i + 1] \in Elements(q) /\ Place(q, q[i + 1]) = i + 1
        BY <1>1, <4>1, PlaceIs DEF Elements
      <4>4. f[q[i + 1]] = q[First(K(i + 1))]
        BY <4>3
      <4> QED
        BY <1>3, <3>1, <3>2, <3>4, <4>1, <4>2, <4>4
    <3> QED
      BY <3>3, <3>4
  <2>2. CASE b \notin Elements(q)
    <3>1. k[b].next = Null
      BY <2>2 DEF IsList, Timer!Unlinked
    <3> QED
      BY <2>2, <3>1
  <2> QED
    BY <2>1, <2>2
<1>7. f = [b \in Timers |-> IF Goes(b) THEN f[k[b].next] ELSE b]
  <2> DEFINE g == [b \in Timers |-> IF Goes(b) THEN f[k[b].next] ELSE b]
  <2>1. ASSUME NEW b \in Timers PROVE f[b] = g[b]
    BY <1>6
  <2> QED
    BY <2>1
<1> HIDE DEF f
<1> DEFINE w == WalkFrom(k, due, t)
<1>8. w = [b \in Timers |-> IF Goes(b) THEN w[k[b].next] ELSE b]
  BY <1>7 DEF WalkFrom
<1> HIDE DEF w
<1>9. \A b \in Timers : w[b] = IF Goes(b) THEN w[k[b].next] ELSE b
  BY <1>8
<1> HIDE DEF Goes
<1> DEFINE m == p - 1
           G == {i \in 1..m : w[q[i]] = q[m]}
<1>10. m \in 1..n /\ 1 \in 1..m
  BY <1>1
<1>11. m \in G
  <2>1. Stops(m)
    <3>1. p - 1 = n \/ (p <= n /\ (p - 1) + 1 = p)
      BY <1>1
    <3> QED
      BY <3>1 DEF Stops
  <2> QED
    BY <1>1, <1>3, <1>9, <1>10, <2>1
<1>12. ASSUME NEW i \in 1..m, i + 1 \in G PROVE i \in G
  <2>1. i + 1 \in 1..m /\ i \in 1..n /\ i # n /\ i + 1 \in 1..n
    BY <1>1, <1>10, <1>12
  <2>2. due[q[i + 1]] <= due[t] /\ due[q[i + 1]] \in Nat
    BY <1>1, <2>1
  <2>3. ~Stops(i)
    BY <1>1, <2>1, <2>2 DEF Stops
  <2>4. Goes(q[i]) /\ k[q[i]].next = q[i + 1] /\ q[i] \in Timers
    BY <1>1, <1>2, <1>3, <2>1, <2>3
  <2> QED
    BY <1>9, <1>12, <2>4
<1>13. \A i \in 1..m : i \in G
  <2>1. G \in SUBSET (1..m) /\ m \in Nat
    BY <1>10
  <2> HIDE DEF G, m
  <2> QED
    BY <1>11, <1>12, <2>1, Downwards
<1>14. w[q[1]] = q[m]
  BY <1>10, <1>13
<1>15. l.timeouts = q[1]
  BY <1>1, <1>10 DEF IsList, Neighbour
<1>16. Timer!LastNotLater(l, due, t) = WalkFrom(k, due, t)[l.timeouts]
  BY DEF Timer!LastNotLater, WalkFrom
<1> QED
  BY <1>14, <1>15, <1>16 DEF w

(* What an insertion at p makes of a sequence, and a removal at p. *)
Inserts(q, p, t, r) ==
  /\ Len(r) = Len(q) + 1
  /\ \A i \in 1..Len(r) : r[i] = IF i < p THEN q[i] ELSE IF i = p THEN t ELSE q[i - 1]

Drops(q, p, r) ==
  /\ Len(r) = Len(q) - 1
  /\ \A i \in 1..Len(r) : r[i] = IF i < p THEN q[i] ELSE q[i + 1]

(* The library's insertion, element by element. *)
LEMMA InsertAtIs ==
  ASSUME NEW S, NEW q \in Seq(S), NEW p \in 1..Len(q) + 1, NEW t \in S
  PROVE  /\ Timer!Queue!InsertAt(q, p, t) \in Seq(S)
         /\ Inserts(q, p, t, Timer!Queue!InsertAt(q, p, t))
<1> DEFINE front == SubSeq(q, 1, p - 1)
           back  == SubSeq(q, p, Len(q))
           left  == front \o <<t>>
           n == Len(q)
<1>1. n \in Nat /\ p \in Int /\ \A i \in 1..n : q[i] \in S
  BY LenProperties
<1>2. /\ front \in Seq(S) /\ Len(front) = p - 1
      /\ \A i \in 1..p - 1 : front[i] = q[i]
  <2>1. \A i \in 1..p - 1 : q[i] \in S
    BY <1>1
  <2> QED
    BY <1>1, <2>1, SubSeqProperties
<1>3. /\ back \in Seq(S) /\ Len(back) = n - p + 1
      /\ \A i \in 1..n - p + 1 : back[i] = q[p + i - 1]
  <2>1. \A i \in p..n : q[i] \in S
    BY <1>1
  <2> QED
    BY <1>1, <2>1, SubSeqProperties
<1>4. <<t>> \in Seq(S) /\ Len(<<t>>) = 1 /\ <<t>>[1] = t
  OBVIOUS
<1>5. Timer!Queue!InsertAt(q, p, t) = left \o back
  BY DEF Timer!Queue!InsertAt
<1> HIDE DEF front, back
<1>6. /\ left \in Seq(S) /\ Len(left) = p
      /\ \A i \in 1..p : left[i] = IF i < p THEN q[i] ELSE t
  <2>1. /\ left \in Seq(S) /\ Len(left) = Len(front) + 1
        /\ \A i \in 1..Len(front) + 1 :
             left[i] = IF i <= Len(front) THEN front[i] ELSE <<t>>[i - Len(front)]
    BY <1>2, <1>4, ConcatProperties
  <2> HIDE DEF left
  <2>2. Len(front) + 1 = p
    BY <1>1, <1>2
  <2>3. ASSUME NEW i \in 1..p PROVE left[i] = IF i < p THEN q[i] ELSE t
    <3>1. CASE i < p
      <4>1. i \in 1..p - 1 /\ i <= Len(front) /\ i \in 1..Len(front) + 1
        BY <1>1, <2>2, <3>1
      <4> QED
        BY <1>2, <2>1, <3>1, <4>1
    <3>2. CASE i = p
      <4>1. ~(i <= Len(front)) /\ i - Len(front) = 1 /\ i \in 1..Len(front) + 1
        BY <1>1, <1>2, <3>2
      <4> QED
        BY <1>4, <2>1, <3>2, <4>1
    <3> QED
      BY <1>1, <3>1, <3>2
  <2> QED
    BY <2>1, <2>2, <2>3
<1> HIDE DEF left
<1>7. /\ left \o back \in Seq(S) /\ Len(left \o back) = n + 1
      /\ \A i \in 1..n + 1 :
           (left \o back)[i] = IF i <= p THEN left[i] ELSE back[i - p]
  <2>1. /\ left \o back \in Seq(S)
        /\ Len(left \o back) = Len(left) + Len(back)
        /\ \A i \in 1..Len(left) + Len(back) :
             (left \o back)[i] = IF i <= Len(left) THEN left[i] ELSE back[i - Len(left)]
    BY <1>3, <1>6, ConcatProperties
  <2> QED
    BY <1>1, <1>3, <1>6, <2>1
<1>8. ASSUME NEW i \in 1..n + 1
      PROVE  (left \o back)[i] = IF i < p THEN q[i] ELSE IF i = p THEN t ELSE q[i - 1]
  <2>1. CASE i <= p
    BY <1>1, <1>6, <1>7, <2>1
  <2>2. CASE i > p
    <3>1. i - p \in 1..n - p + 1 /\ p + (i - p) - 1 = i - 1
      BY <1>1, <2>2
    <3> QED
      BY <1>1, <1>3, <1>7, <2>2, <3>1
  <2>3. i <= p \/ i > p
    BY <1>1
  <2> QED
    BY <2>1, <2>2, <2>3
<1> QED
  BY <1>5, <1>7, <1>8 DEF Inserts

(* The library's deletion, element by element. *)
LEMMA RemoveAtIs ==
  ASSUME NEW S, NEW q \in Seq(S), NEW p \in 1..Len(q)
  PROVE  /\ Timer!Queue!RemoveAt(q, p) \in Seq(S)
         /\ Drops(q, p, Timer!Queue!RemoveAt(q, p))
<1> DEFINE front == SubSeq(q, 1, p - 1)
           back  == SubSeq(q, p + 1, Len(q))
           n == Len(q)
<1>1. n \in Nat /\ p \in Int /\ \A i \in 1..n : q[i] \in S
  BY LenProperties
<1>2. /\ front \in Seq(S) /\ Len(front) = p - 1
      /\ \A i \in 1..p - 1 : front[i] = q[i]
  <2>1. \A i \in 1..p - 1 : q[i] \in S
    BY <1>1
  <2> QED
    BY <1>1, <2>1, SubSeqProperties
<1>3. /\ back \in Seq(S) /\ Len(back) = n - p
      /\ \A i \in 1..n - p : back[i] = q[p + i]
  <2>1. \A i \in p + 1..n : q[i] \in S
    BY <1>1
  <2>2. /\ back \in Seq(S)
        /\ Len(back) = IF p + 1 <= n THEN n - (p + 1) + 1 ELSE 0
        /\ \A i \in 1..n - (p + 1) + 1 : back[i] = q[p + 1 + i - 1]
    BY <1>1, <2>1, SubSeqProperties
  <2> HIDE DEF back
  <2> QED
    BY <1>1, <2>2
<1>4. Timer!Queue!RemoveAt(q, p) = front \o back
  BY DEF Timer!Queue!RemoveAt
<1> HIDE DEF front, back
<1>5. /\ front \o back \in Seq(S) /\ Len(front \o back) = n - 1
      /\ \A i \in 1..n - 1 :
           (front \o back)[i] = IF i <= p - 1 THEN front[i] ELSE back[i - (p - 1)]
  <2>1. /\ front \o back \in Seq(S)
        /\ Len(front \o back) = Len(front) + Len(back)
        /\ \A i \in 1..Len(front) + Len(back) :
             (front \o back)[i] = IF i <= Len(front) THEN front[i] ELSE back[i - Len(front)]
    BY <1>2, <1>3, ConcatProperties
  <2> QED
    BY <1>1, <1>2, <1>3, <2>1
<1>6. ASSUME NEW i \in 1..n - 1
      PROVE  (front \o back)[i] = IF i < p THEN q[i] ELSE q[i + 1]
  <2>1. CASE i < p
    BY <1>1, <1>2, <1>5, <2>1
  <2>2. CASE i >= p
    <3>1. i - (p - 1) \in 1..n - p /\ p + (i - (p - 1)) = i + 1
      BY <1>1, <2>2
    <3> QED
      BY <1>1, <1>3, <1>5, <2>2, <3>1
  <2>3. i < p \/ i >= p
    BY <1>1
  <2> QED
    BY <2>1, <2>2, <2>3
<1> QED
  BY <1>4, <1>5, <1>6 DEF Drops

(* The place where Timer::Add puts a timer, and only that one. *)
Fits(q, due, t, p) ==
  /\ p \in 1..Len(q) + 1
  /\ \A j \in 1..p - 1 : due[q[j]] <= due[t]
  /\ p <= Len(q) => due[q[p]] > due[t]

(* There is always a place for a timer: the walk of Timer::Add stops. *)
LEMMA PositionIs ==
  ASSUME NEW q \in Seq(Timers), NEW due \in [Timers -> Nat], NEW t \in Timers
  PROVE  Fits(q, due, t, Timer!Queue!AddPosition(q, due, t))
<1> DEFINE n == Len(q)
           Later == {i \in 1..n + 1 : i <= n => due[q[i]] > due[t]}
<1>1. n \in Nat /\ \A i \in 1..n : q[i] \in Timers /\ due[q[i]] \in Nat
  BY LenProperties
<1>2. Later \subseteq Nat /\ Later # {}
  <2>1. n + 1 \in Later
    BY <1>1
  <2> QED
    BY <1>1, <2>1
<1> HIDE DEF Later
<1>3. PICK p \in Later : \A i \in Later : p <= i
  BY <1>2, Least
<1> USE DEF Later
<1>4. \A j \in 1..p - 1 : due[q[j]] <= due[t]
  <2> TAKE j \in 1..p - 1
  <2>1. j \in 1..n /\ j < p /\ p \in Int
    BY <1>1
  <2>2. j \notin Later
    BY <1>3, <2>1
  <2>3. due[q[j]] \in Nat /\ due[t] \in Nat
    BY <1>1, <2>1
  <2> QED
    BY <1>1, <2>1, <2>2, <2>3
<1>5. \E i \in 1..n + 1 : /\ \A j \in 1..i - 1 : due[q[j]] <= due[t]
                          /\ i <= n => due[q[i]] > due[t]
  BY <1>4
<1>6. Timer!Queue!AddPosition(q, due, t)
        = CHOOSE i \in 1..n + 1 : /\ \A j \in 1..i - 1 : due[q[j]] <= due[t]
                                  /\ i <= n => due[q[i]] > due[t]
  BY DEF Timer!Queue!AddPosition
<1> QED
  BY <1>5, <1>6 DEF Fits

Link == [before : Timers \cup {Null}, next : Timers \cup {Null}]

(* The neighbours in a list are elements of it, or there is none. *)
LEMMA NeighbourIs ==
  ASSUME NEW l, NEW q, IsList(l, q), Null \notin Timers
  PROVE  /\ q \in Seq(Timers) /\ Len(q) \in Nat
         /\ \A i \in 1..Len(q) : q[i] \in Timers /\ q[i] \in Elements(q)
         /\ \A i \in Int : Neighbour(q, i) \in Elements(q) \cup {Null}
         /\ \A i \in 1..Len(q), j \in Int : q[i] = Neighbour(q, j) <=> i = j
         /\ Neighbour(q, 0) = Null /\ Neighbour(q, Len(q) + 1) = Null
         /\ Elements(q) \subseteq Timers /\ Null \notin Elements(q)
<1>1. q \in Seq(Timers) /\ Len(q) \in Nat
  BY DEF IsList
<1>2. \A i \in 1..Len(q) : q[i] \in Timers
  BY <1>1
<1>3. \A i, j \in 1..Len(q) : q[i] = q[j] => i = j
  BY DEF IsList, Distinct
<1> QED
  BY <1>1, <1>2, <1>3 DEF Neighbour, Elements

(* A timer is put between two neighbours, or first, or last. *)
LEMMA PutIn ==
  ASSUME NEW l, NEW q, IsList(l, q), Null \notin Timers,
         NEW t \in Timers \ Elements(q), NEW p \in 1..Len(q) + 1,
         NEW r \in Seq(Timers), Inserts(q, p, t, r), NEW l2 \in Timer!List,
         l2.timeouts = IF p = 1 THEN t ELSE l.timeouts,
         \A u \in Timers :
           /\ l2.links[u].before = IF u = t THEN Neighbour(q, p - 1)
                                   ELSE IF u = Neighbour(q, p) THEN t
                                   ELSE l.links[u].before
           /\ l2.links[u].next = IF u = t THEN Neighbour(q, p)
                                 ELSE IF u = Neighbour(q, p - 1) THEN t
                                 ELSE l.links[u].next
  PROVE  IsList(l2, r)
<1> DEFINE n == Len(q)
<1>1. /\ n \in Nat
      /\ \A i \in 1..n : q[i] \in Timers /\ q[i] # t
      /\ \A i \in Int : Neighbour(q, i) # t
      /\ \A i \in 1..n, j \in Int : q[i] = Neighbour(q, j) <=> i = j
      /\ Neighbour(q, 0) = Null /\ Neighbour(q, n + 1) = Null
  BY NeighbourIs
<1>2. p \in 1..n + 1 /\ p \in Int
  BY <1>1
<1>3. /\ Len(r) = n + 1
      /\ \A i \in 1..n + 1 : r[i] = IF i < p THEN q[i] ELSE IF i = p THEN t ELSE q[i - 1]
  BY DEF Inserts
<1>4. ASSUME NEW i \in 0..n + 2
      PROVE  Neighbour(r, i) = IF i < p THEN Neighbour(q, i)
                               ELSE IF i = p THEN t ELSE Neighbour(q, i - 1)
  <2>1. CASE i = 0
    BY <1>1, <1>2, <1>3, <2>1 DEF Neighbour
  <2>2. CASE i = n + 2
    <3>1. ~(i \in 1..Len(r)) /\ ~(i - 1 \in 1..Len(q)) /\ ~(i < p) /\ i # p
      BY <1>1, <1>2, <1>3, <2>2
    <3> QED
      BY <3>1 DEF Neighbour
  <2>3. CASE i \in 1..n + 1
    <3>1. i \in 1..Len(r)
      BY <1>3, <2>3
    <3>2. i < p => i \in 1..Len(q)
      BY <1>1, <1>2, <2>3
    <3>3. i > p => i - 1 \in 1..Len(q)
      BY <1>1, <1>2, <2>3
    <3>4. i < p \/ i = p \/ (i > p /\ ~(i < p) /\ i # p)
      BY <1>2
    <3> QED
      BY <1>3, <2>3, <3>1, <3>2, <3>3, <3>4 DEF Neighbour
  <2> QED
    BY <1>1, <2>1, <2>2, <2>3
<1>5. \A i \in 1..n : /\ l.links[q[i]].before = Neighbour(q, i - 1)
                      /\ l.links[q[i]].next = Neighbour(q, i + 1)
  BY DEF IsList
<1>6. ASSUME NEW i \in 1..n + 1
      PROVE  /\ l2.links[r[i]].before = Neighbour(r, i - 1)
             /\ l2.links[r[i]].next = Neighbour(r, i + 1)
  <2>1. CASE i < p
    <3>1. i \in 1..n /\ r[i] = q[i] /\ q[i] \in Timers /\ q[i] # t
      BY <1>1, <1>2, <1>3, <2>1
    <3>2. q[i] # Neighbour(q, p) /\ (q[i] = Neighbour(q, p - 1) <=> i = p - 1)
      BY <1>1, <1>2, <2>1, <3>1
    <3>3. Neighbour(r, i - 1) = Neighbour(q, i - 1)
      BY <1>1, <1>2, <1>4, <2>1
    <3>4. Neighbour(r, i + 1) = IF i = p - 1 THEN t ELSE Neighbour(q, i + 1)
      BY <1>1, <1>2, <1>4, <2>1
    <3> QED
      BY <1>5, <3>1, <3>2, <3>3, <3>4
  <2>2. CASE i = p
    <3>1. r[i] = t
      BY <1>2, <1>3, <2>2
    <3>2. Neighbour(r, i - 1) = Neighbour(q, p - 1)
      BY <1>1, <1>2, <1>4, <2>2
    <3>3. Neighbour(r, i + 1) = Neighbour(q, p)
      <4>1. i + 1 \in 0..n + 2 /\ ~(i + 1 < p) /\ i + 1 # p /\ (i + 1) - 1 = p
        BY <1>1, <1>2, <2>2
      <4> QED
        BY <1>4, <4>1
    <3> QED
      BY <3>1, <3>2, <3>3
  <2>3. CASE i > p
    <3>1. i - 1 \in 1..n /\ r[i] = q[i - 1] /\ q[i - 1] \in Timers /\ q[i - 1] # t
      BY <1>1, <1>2, <1>3, <2>3
    <3>2. q[i - 1] # Neighbour(q, p - 1) /\ (q[i - 1] = Neighbour(q, p) <=> i - 1 = p)
      BY <1>1, <1>2, <2>3, <3>1
    <3>3. Neighbour(r, i - 1) = IF i - 1 = p THEN t ELSE Neighbour(q, (i - 1) - 1)
      BY <1>1, <1>2, <1>4, <2>3
    <3>4. Neighbour(r, i + 1) = Neighbour(q, (i - 1) + 1)
      <4>1. i + 1 \in 0..n + 2 /\ ~(i + 1 < p) /\ i + 1 # p /\ (i + 1) - 1 = (i - 1) + 1
        BY <1>1, <1>2, <2>3
      <4> QED
        BY <1>4, <4>1
    <3>5. /\ l.links[q[i - 1]].before = Neighbour(q, (i - 1) - 1)
          /\ l.links[q[i - 1]].next = Neighbour(q, (i - 1) + 1)
      BY <1>5, <3>1
    <3> QED
      BY <3>1, <3>2, <3>3, <3>4, <3>5
  <2>4. i < p \/ i = p \/ i > p
    BY <1>2
  <2> QED
    BY <2>1, <2>2, <2>3, <2>4
<1>7. ASSUME NEW u \in Timers \ Elements(r) PROVE l2.links[u] = Timer!Unlinked
  <2>1. u # t
    <3>1. r[p] = t /\ p \in 1..Len(r)
      BY <1>2, <1>3
    <3> QED
      BY <3>1 DEF Elements
  <2>2. u \notin Elements(q)
    <3>1. ASSUME NEW i \in 1..n, q[i] = u PROVE FALSE
      <4>1. CASE i < p
        <5>1. r[i] = u /\ i \in 1..Len(r)
          BY <1>1, <1>2, <1>3, <3>1, <4>1
        <5> QED
          BY <5>1 DEF Elements
      <4>2. CASE i >= p
        <5>1. i + 1 \in 1..n + 1 /\ ~(i + 1 < p) /\ i + 1 # p /\ (i + 1) - 1 = i
          BY <1>1, <1>2, <4>2
        <5>2. r[i + 1] = u /\ i + 1 \in 1..Len(r)
          BY <1>3, <3>1, <5>1
        <5> QED
          BY <5>2 DEF Elements
      <4> QED
        BY <1>2, <4>1, <4>2
    <3> QED
      BY <3>1 DEF Elements
  <2>3. u # Neighbour(q, p) /\ u # Neighbour(q, p - 1)
    <3>1. p - 1 \in Int /\ \A i \in Int : Neighbour(q, i) \in Elements(q) \cup {Null}
      BY <1>2, NeighbourIs
    <3> QED
      BY <1>2, <2>2, <3>1
  <2>4. l.links[u] = Timer!Unlinked
    BY <2>2 DEF IsList
  <2>5. l2.links[u].before = Null /\ l2.links[u].next = Null
    BY <2>1, <2>3, <2>4 DEF Timer!Unlinked
  <2>6. l2.links[u] \in Link
    BY DEF Timer!List, Link
  <2> QED
    BY <2>5, <2>6 DEF Link, Timer!Unlinked
<1>8. Distinct(r)
  <2> SUFFICES ASSUME NEW i \in 1..n + 1, NEW j \in 1..n + 1, r[i] = r[j] PROVE i = j
    BY <1>3 DEF Distinct
  <2>1. \A a, b \in 1..n : q[a] = q[b] => a = b
    BY DEF IsList, Distinct
  <2>2. \A a \in 1..n + 1 : /\ a < p => a \in 1..n /\ r[a] = q[a]
                            /\ a = p => r[a] = t
                            /\ a > p => a - 1 \in 1..n /\ r[a] = q[a - 1]
    <3> TAKE a \in 1..n + 1
    <3>1. a < p => a \in 1..n
      BY <1>1, <1>2
    <3>2. a > p => a - 1 \in 1..n /\ ~(a < p) /\ a # p
      BY <1>1, <1>2
    <3> QED
      BY <1>2, <1>3, <3>1, <3>2
  <2>3. ASSUME NEW a \in 1..n + 1, NEW b \in 1..n + 1, a < b, r[a] = r[b] PROVE FALSE
    <3>1. CASE b < p
      BY <1>2, <2>1, <2>2, <2>3, <3>1
    <3>2. CASE b = p
      BY <1>1, <1>2, <2>2, <2>3, <3>2
    <3>3. CASE b > p /\ a < p
      BY <1>2, <2>1, <2>2, <2>3, <3>3
    <3>4. CASE b > p /\ a = p
      BY <1>1, <2>2, <3>4, <2>3
    <3>5. CASE b > p /\ a > p
      BY <1>2, <2>1, <2>2, <2>3, <3>5
    <3> QED
      BY <1>2, <3>1, <3>2, <3>3, <3>4, <3>5
  <2> QED
    BY <2>3
<1>9. l2.timeouts = Neighbour(r, 1)
  <2>1. l.timeouts = Neighbour(q, 1)
    BY DEF IsList
  <2>2. Neighbour(r, 1) = IF 1 < p THEN Neighbour(q, 1) ELSE t
    BY <1>1, <1>2, <1>4
  <2> QED
    BY <1>2, <2>1, <2>2
<1> QED
  BY <1>3, <1>6, <1>7, <1>8, <1>9 DEF IsList

(* A timer is taken out from between its neighbours. *)
LEMMA TakeOut ==
  ASSUME NEW l, NEW q, IsList(l, q), Null \notin Timers,
         NEW p \in 1..Len(q), NEW r \in Seq(Timers), Drops(q, p, r),
         NEW l2 \in Timer!List,
         l2.timeouts = IF p = 1 THEN Neighbour(q, p + 1) ELSE l.timeouts,
         \A u \in Timers :
           /\ l2.links[u].before = IF u = q[p] THEN Null
                                   ELSE IF u = Neighbour(q, p + 1) THEN Neighbour(q, p - 1)
                                   ELSE l.links[u].before
           /\ l2.links[u].next = IF u = q[p] THEN Null
                                 ELSE IF u = Neighbour(q, p - 1) THEN Neighbour(q, p + 1)
                                 ELSE l.links[u].next
  PROVE  IsList(l2, r) /\ q[p] \notin Elements(r)
<1> DEFINE n == Len(q)
<1>1. /\ n \in Nat
      /\ \A i \in 1..n : q[i] \in Timers
      /\ \A i \in 1..n, j \in Int : q[i] = Neighbour(q, j) <=> i = j
      /\ Neighbour(q, 0) = Null /\ Neighbour(q, n + 1) = Null
  BY NeighbourIs
<1>0. \A i, j \in 1..n : q[i] = q[j] => i = j
  BY DEF IsList, Distinct
<1>2. p \in 1..n /\ p \in Int
  BY <1>1
<1>3. /\ Len(r) = n - 1
      /\ \A i \in 1..n - 1 : r[i] = IF i < p THEN q[i] ELSE q[i + 1]
  BY DEF Drops
<1>4. ASSUME NEW i \in 0..n
      PROVE  Neighbour(r, i) = IF i < p THEN Neighbour(q, i) ELSE Neighbour(q, i + 1)
  <2>1. CASE i = 0
    BY <1>1, <1>2, <1>3, <2>1 DEF Neighbour
  <2>2. CASE i = n
    <3>1. ~(i \in 1..Len(r)) /\ ~(i + 1 \in 1..Len(q)) /\ ~(i < p)
      BY <1>1, <1>2, <1>3, <2>2
    <3> QED
      BY <3>1 DEF Neighbour
  <2>3. CASE i \in 1..n - 1
    <3>1. i \in 1..Len(r) /\ i \in 1..Len(q) /\ i + 1 \in 1..Len(q)
      BY <1>1, <1>3, <2>3
    <3> QED
      BY <1>3, <2>3, <3>1 DEF Neighbour
  <2> QED
    BY <1>1, <2>1, <2>2, <2>3
<1>5. \A i \in 1..n : /\ l.links[q[i]].before = Neighbour(q, i - 1)
                      /\ l.links[q[i]].next = Neighbour(q, i + 1)
  BY DEF IsList
<1>6. ASSUME NEW i \in 1..n - 1
      PROVE  /\ l2.links[r[i]].before = Neighbour(r, i - 1)
             /\ l2.links[r[i]].next = Neighbour(r, i + 1)
  <2>1. CASE i < p
    <3>1. i \in 1..n /\ r[i] = q[i] /\ q[i] \in Timers /\ q[i] # q[p]
      BY <1>1, <1>2, <1>3, <2>1
    <3>2. q[i] # Neighbour(q, p + 1) /\ (q[i] = Neighbour(q, p - 1) <=> i = p - 1)
      BY <1>1, <1>2, <2>1, <3>1
    <3>3. Neighbour(r, i - 1) = Neighbour(q, i - 1)
      BY <1>1, <1>2, <1>4, <2>1
    <3>4. Neighbour(r, i + 1) = IF i = p - 1 THEN Neighbour(q, p + 1) ELSE Neighbour(q, i + 1)
      <4>1. i + 1 \in 0..n /\ (i = p - 1 <=> ~(i + 1 < p)) /\ (i = p - 1 => i + 1 = p)
        BY <1>1, <1>2, <2>1
      <4> QED
        BY <1>4, <4>1
    <3> QED
      BY <1>5, <3>1, <3>2, <3>3, <3>4
  <2>2. CASE i >= p
    <3>1. i + 1 \in 1..n /\ r[i] = q[i + 1] /\ q[i + 1] \in Timers /\ q[i + 1] # q[p]
      BY <1>1, <1>2, <1>3, <2>2
    <3>2. q[i + 1] # Neighbour(q, p - 1) /\ (q[i + 1] = Neighbour(q, p + 1) <=> i = p)
      BY <1>1, <1>2, <2>2, <3>1
    <3>3. Neighbour(r, i - 1) = IF i = p THEN Neighbour(q, p - 1) ELSE Neighbour(q, (i + 1) - 1)
      <4>1. i - 1 \in 0..n /\ (i = p <=> i - 1 < p) /\ (i - 1) + 1 = (i + 1) - 1
        BY <1>1, <1>2, <2>2
      <4> QED
        BY <1>4, <4>1
    <3>4. Neighbour(r, i + 1) = Neighbour(q, (i + 1) + 1)
      <4>1. i + 1 \in 0..n /\ ~(i + 1 < p)
        BY <1>1, <1>2, <2>2
      <4> QED
        BY <1>4, <4>1
    <3>5. /\ l.links[q[i + 1]].before = Neighbour(q, (i + 1) - 1)
          /\ l.links[q[i + 1]].next = Neighbour(q, (i + 1) + 1)
      BY <1>5, <3>1
    <3> QED
      BY <3>1, <3>2, <3>3, <3>4, <3>5
  <2>3. i < p \/ i >= p
    BY <1>2
  <2> QED
    BY <2>1, <2>2, <2>3
<1>7. ASSUME NEW u \in Timers \ Elements(r) PROVE l2.links[u] = Timer!Unlinked
  <2>1. l2.links[u] \in Link
    BY DEF Timer!List, Link
  <2>2. CASE u = q[p]
    BY <2>1, <2>2 DEF Link, Timer!Unlinked
  <2>3. CASE u # q[p]
    <3>1. u \notin Elements(q)
      <4>1. ASSUME NEW i \in 1..n, q[i] = u PROVE FALSE
        <5>1. CASE i < p
          <6>1. r[i] = u /\ i \in 1..Len(r)
            BY <1>1, <1>2, <1>3, <4>1, <5>1
          <6> QED
            BY <6>1 DEF Elements
        <5>2. CASE i > p
          <6>1. i - 1 \in 1..n - 1 /\ ~(i - 1 < p) /\ (i - 1) + 1 = i
            BY <1>1, <1>2, <5>2
          <6>2. r[i - 1] = u /\ i - 1 \in 1..Len(r)
            BY <1>3, <4>1, <6>1
          <6> QED
            BY <6>2 DEF Elements
        <5> QED
          BY <1>2, <2>3, <4>1, <5>1, <5>2
      <4> QED
        BY <4>1 DEF Elements
    <3>2. u # Neighbour(q, p + 1) /\ u # Neighbour(q, p - 1)
      <4>1. p - 1 \in Int /\ p + 1 \in Int
             /\ \A i \in Int : Neighbour(q, i) \in Elements(q) \cup {Null}
        BY <1>2, NeighbourIs
      <4> QED
        BY <3>1, <4>1
    <3>3. l.links[u] = Timer!Unlinked
      BY <3>1 DEF IsList
    <3>4. l2.links[u].before = Null /\ l2.links[u].next = Null
      BY <2>3, <3>2, <3>3 DEF Timer!Unlinked
    <3> QED
      BY <2>1, <3>4 DEF Link, Timer!Unlinked
  <2> QED
    BY <2>2, <2>3
<1>8. \A i \in 1..n - 1 : \E a \in 1..n : r[i] = q[a] /\ a = IF i < p THEN i ELSE i + 1
  <2> TAKE i \in 1..n - 1
  <2>1. i \in 1..n /\ i + 1 \in 1..n
    BY <1>1
  <2> QED
    BY <1>3, <2>1
<1>9. Distinct(r)
  <2> SUFFICES ASSUME NEW i \in 1..n - 1, NEW j \in 1..n - 1, r[i] = r[j] PROVE i = j
    BY <1>3 DEF Distinct
  <2>1. PICK a \in 1..n : r[i] = q[a] /\ a = IF i < p THEN i ELSE i + 1
    BY <1>8
  <2>2. PICK b \in 1..n : r[j] = q[b] /\ b = IF j < p THEN j ELSE j + 1
    BY <1>8
  <2>3. q[a] = q[b]
    BY ONLY r[i] = r[j], <2>1, <2>2
  <2>4. a = b
    BY ONLY <1>0, <2>3, a \in 1..n, b \in 1..n
  <2>5. (IF i < p THEN i ELSE i + 1) = (IF j < p THEN j ELSE j + 1)
    BY <2>1, <2>2, <2>4
  <2> QED
    BY <1>2, <2>5
<1>10. q[p] \notin Elements(r)
  <2> SUFFICES ASSUME NEW i \in 1..n - 1, r[i] = q[p] PROVE FALSE
    BY <1>3 DEF Elements
  <2>1. PICK a \in 1..n : r[i] = q[a] /\ a = IF i < p THEN i ELSE i + 1
    BY <1>8
  <2>2. a = p
    BY <1>0, <1>2, <2>1
  <2> QED
    BY <1>2, <2>1, <2>2
<1>11. l2.timeouts = Neighbour(r, 1)
  <2>1. l.timeouts = Neighbour(q, 1)
    BY DEF IsList
  <2>2. 1 \in 0..n /\ (p = 1 <=> ~(1 < p)) /\ (p = 1 => p + 1 = 1 + 1)
    BY <1>1, <1>2
  <2> QED
    BY <1>4, <2>1, <2>2
<1> QED
  BY <1>3, <1>6, <1>7, <1>9, <1>10, <1>11 DEF IsList

Links == [Timers -> Link]

(* Writing one member before, or one member next, changes nothing else. *)
LEMMA SetBeforeIs ==
  ASSUME NEW k \in Links, NEW x \in Timers \cup {Null}, NEW b \in Timers \cup {Null},
         Null \notin Timers
  PROVE  /\ Timer!SetBefore(k, x, b) \in Links
         /\ \A u \in Timers :
              /\ Timer!SetBefore(k, x, b)[u].before = IF u = x THEN b ELSE k[u].before
              /\ Timer!SetBefore(k, x, b)[u].next = k[u].next
<1>1. CASE x = Null
  BY <1>1 DEF Timer!SetBefore
<1>2. CASE x # Null
  <2> DEFINE k2 == [k EXCEPT ![x] = [@ EXCEPT !.before = b]]
  <2>1. Timer!SetBefore(k, x, b) = k2
    BY <1>2 DEF Timer!SetBefore
  <2>2. x \in Timers /\ \A u \in Timers : k[u] \in Link
    BY <1>2 DEF Links
  <2>3. [k[x] EXCEPT !.before = b] = [before |-> b, next |-> k[x].next]
    BY <2>2 DEF Link
  <2>4. k2 \in Links
    BY <2>2, <2>3 DEF Links, Link
  <2>5. \A u \in Timers : k2[u] = IF u = x THEN [before |-> b, next |-> k[x].next] ELSE k[u]
    BY <2>2, <2>3 DEF Links
  <2> HIDE DEF k2
  <2> QED
    BY <2>1, <2>4, <2>5
<1> QED
  BY <1>1, <1>2

LEMMA SetNextIs ==
  ASSUME NEW k \in Links, NEW x \in Timers, NEW y \in Timers \cup {Null}
  PROVE  /\ [k EXCEPT ![x].next = y] \in Links
         /\ \A u \in Timers :
              /\ [k EXCEPT ![x].next = y][u].before = k[u].before
              /\ [k EXCEPT ![x].next = y][u].next = IF u = x THEN y ELSE k[u].next
<1> DEFINE k2 == [k EXCEPT ![x].next = y]
<1>1. \A u \in Timers : k[u] \in Link
  BY DEF Links
<1>2. [k[x] EXCEPT !.next = y] = [before |-> k[x].before, next |-> y]
  BY <1>1 DEF Link
<1>3. k2 = [k EXCEPT ![x] = [k[x] EXCEPT !.next = y]]
  OBVIOUS
<1> HIDE DEF k2
<1>4. k2 \in Links
  BY <1>1, <1>2, <1>3 DEF Links, Link
<1>5. \A u \in Timers : k2[u] = IF u = x THEN [before |-> k[x].before, next |-> y] ELSE k[u]
  BY <1>1, <1>2, <1>3 DEF Links
<1> QED
  BY <1>4, <1>5 DEF k2

(* Timer::Add puts a timer where TimerQueue does. *)
LEMMA AddToIs ==
  ASSUME NEW l, NEW q, IsList(l, q), Null \notin Timers,
         NEW due \in [Timers -> Nat], NEW t \in Timers \ Elements(q)
  PROVE  IsList(Timer!AddTo(l, due, t), Timer!Queue!Added(q, due, t))
<1> DEFINE p == Timer!Queue!AddPosition(q, due, t)
           r == Timer!Queue!Added(q, due, t)
           l2 == Timer!AddTo(l, due, t)
           P == Timers \cup {Null}
<1>1. /\ q \in Seq(Timers) /\ Len(q) \in Nat
      /\ \A i \in 1..Len(q) : q[i] \in Timers
      /\ \A i \in Int : Neighbour(q, i) \in P
      /\ \A i \in 1..Len(q) : q[i] # t
      /\ \A i \in Int : Neighbour(q, i) # t
      /\ Neighbour(q, 0) = Null /\ Neighbour(q, Len(q) + 1) = Null
  BY NeighbourIs
<1>2. Fits(q, due, t, p)
  BY <1>1, PositionIs
<1>3. r \in Seq(Timers) /\ Inserts(q, p, t, r)
  BY <1>1, <1>2, InsertAtIs DEF Fits, Timer!Queue!Added
<1> HIDE DEF p, r
<1>4. /\ p \in 1..Len(q) + 1 /\ p \in Int
      /\ \A j \in 1..p - 1 : due[q[j]] <= due[t]
      /\ p <= Len(q) => due[q[p]] > due[t]
  BY <1>1, <1>2 DEF Fits
<1>5. /\ l.timeouts = Neighbour(q, 1) /\ l.links \in Links /\ l.timeouts \in P
      /\ l = [timeouts |-> l.timeouts, links |-> l.links]
      /\ l.links[t].before = Null /\ l.links[t].next = Null
  BY DEF IsList, Timer!List, Links, Link, Timer!Unlinked
<1> DEFINE Right == /\ l2 \in Timer!List
                    /\ l2.timeouts = IF p = 1 THEN t ELSE l.timeouts
                    /\ \A u \in Timers :
                         /\ l2.links[u].before = IF u = t THEN Neighbour(q, p - 1)
                                                 ELSE IF u = Neighbour(q, p) THEN t
                                                 ELSE l.links[u].before
                         /\ l2.links[u].next = IF u = t THEN Neighbour(q, p)
                                               ELSE IF u = Neighbour(q, p - 1) THEN t
                                               ELSE l.links[u].next
<1>6. ASSUME NEW head \in P, NEW k \in Links
      PROVE  [timeouts |-> head, links |-> k] \in Timer!List
  BY DEF Timer!List, Links, Link
<1>7. ASSUME l.timeouts = Null PROVE Right
  <2>1. Len(q) = 0
    BY <1>1, <1>5, <1>7 DEF Neighbour
  <2>2. p = 1 /\ Neighbour(q, p) = Null /\ Neighbour(q, p - 1) = Null
    BY <1>1, <1>4, <2>1
  <2>3. l2 = [timeouts |-> t, links |-> l.links]
    BY <1>5, <1>7 DEF Timer!AddTo
  <2>4. l2 \in Timer!List
    BY <1>5, <1>6, <2>3
  <2> HIDE DEF l2
  <2>5. l2.timeouts = t /\ l2.links = l.links
    BY <2>3
  <2>6. \A u \in Timers : u # Null
    OBVIOUS
  <2> QED
    BY ONLY <1>5, <2>2, <2>4, <2>5, <2>6
<1>8. ASSUME l.timeouts # Null, due[l.timeouts] > due[t] PROVE Right
  <2>1. 1 \in 1..Len(q) /\ l.timeouts = q[1] /\ q[1] \in Timers
    BY <1>1, <1>5, <1>8 DEF Neighbour
  <2>2. p = 1
    <3>1. ASSUME 1 \in 1..p - 1 PROVE FALSE
      <4>1. due[q[1]] <= due[t] /\ due[q[1]] \in Nat /\ due[t] \in Nat
        BY <1>4, <2>1, <3>1
      <4> QED
        BY <1>8, <2>1, <4>1
    <3> QED
      BY <1>4, <3>1
  <2>3. Neighbour(q, p) = q[1] /\ Neighbour(q, p - 1) = Null
    BY <1>1, <2>1, <2>2 DEF Neighbour
  <2> DEFINE k1 == [l.links EXCEPT ![t].next = q[1]]
             k2 == Timer!SetBefore(k1, q[1], t)
  <2>4. l2 = [timeouts |-> t, links |-> k2]
    BY <1>8, <2>1 DEF Timer!AddTo
  <2>5. /\ k1 \in Links
        /\ \A u \in Timers : /\ k1[u].before = l.links[u].before
                             /\ k1[u].next = IF u = t THEN q[1] ELSE l.links[u].next
    BY <1>5, <2>1, SetNextIs
  <2> HIDE DEF k1
  <2>6. /\ k2 \in Links
        /\ \A u \in Timers : /\ k2[u].before = IF u = q[1] THEN t ELSE k1[u].before
                             /\ k2[u].next = k1[u].next
    <3>1. q[1] \in P /\ t \in P /\ Null \notin Timers
      BY <2>1
    <3> QED
      BY ONLY <2>5, <3>1, SetBeforeIs
  <2> HIDE DEF k2, l2
  <2>7. l2 \in Timer!List
    BY <1>6, <2>4, <2>6
  <2>8. l2.timeouts = t /\ l2.links = k2
    BY <2>4
  <2>9. q[1] # t
    BY <1>1, <2>1
  <2>10. \A u \in Timers : u # Null
    OBVIOUS
  <2>11. ASSUME NEW u \in Timers
         PROVE  /\ k2[u].before = IF u = t THEN Null ELSE IF u = q[1] THEN t
                                  ELSE l.links[u].before
                /\ k2[u].next = IF u = t THEN q[1] ELSE l.links[u].next
    BY ONLY <1>5, <2>5, <2>6, <2>9, <2>11
  <2> QED
    BY ONLY <2>2, <2>3, <2>7, <2>8, <2>10, <2>11
<1>9. ASSUME l.timeouts # Null, ~(due[l.timeouts] > due[t]) PROVE Right
  <2>1. 1 \in 1..Len(q) /\ l.timeouts = q[1] /\ q[1] \in Timers
    BY <1>1, <1>5, <1>9 DEF Neighbour
  <2>2. due[q[1]] \in Nat /\ due[t] \in Nat /\ due[q[1]] <= due[t]
    BY <1>9, <2>1
  <2>3. p \in 2..Len(q) + 1
    <3>1. p # 1
      BY <1>1, <1>4, <2>1, <2>2
    <3> QED
      BY <1>4, <3>1
  <2>4. Timer!LastNotLater(l, due, t) = q[p - 1]
    BY <1>4, <2>3, LastIs
  <2>5. p - 1 \in 1..Len(q) /\ q[p - 1] = Neighbour(q, p - 1) /\ (p - 1) + 1 = p
    BY <1>1, <1>4, <2>3 DEF Neighbour
  <2>6. q[p - 1] \in Timers /\ l.links[q[p - 1]].next = Neighbour(q, p)
    BY <1>1, <2>5 DEF IsList
  <2> DEFINE b == q[p - 1]
             n == Neighbour(q, p)
             k0 == [l.links EXCEPT ![t] = [before |-> b, next |-> n]]
             k1 == [k0 EXCEPT ![b].next = t]
             k2 == Timer!SetBefore(k1, n, t)
  <2>7. l2 = [timeouts |-> l.timeouts, links |-> k2]
    <3>1. l2 = [l EXCEPT !.links = k2]
      BY <1>9, <2>4, <2>6 DEF Timer!AddTo
    <3> HIDE DEF l2, k2
    <3> QED
      BY <1>5, <3>1
  <2>8. n \in P /\ b \in Timers /\ b # t /\ n # t
    BY <1>1, <1>4, <2>5, <2>6
  <2>9. b # n
    <3>1. p - 1 \in 1..Len(q) /\ p \in Int
            /\ \A i \in 1..Len(q), j \in Int : q[i] = Neighbour(q, j) <=> i = j
      BY <1>4, <2>5, NeighbourIs
    <3>2. p - 1 # p
      BY <1>4
    <3> QED
      BY <3>1, <3>2
  <2> HIDE DEF b, n, l2
  <2>10. /\ k0 \in Links
         /\ \A u \in Timers : k0[u] = IF u = t THEN [before |-> b, next |-> n] ELSE l.links[u]
    BY <1>5, <2>8 DEF Links, Link
  <2> HIDE DEF k0
  <2>11. /\ k1 \in Links
         /\ \A u \in Timers : /\ k1[u].before = k0[u].before
                              /\ k1[u].next = IF u = b THEN t ELSE k0[u].next
    BY <2>8, <2>10, SetNextIs
  <2> HIDE DEF k1
  <2>12. /\ k2 \in Links
         /\ \A u \in Timers : /\ k2[u].before = IF u = n THEN t ELSE k1[u].before
                              /\ k2[u].next = k1[u].next
    <3>1. t \in P /\ Null \notin Timers /\ n \in P /\ k1 \in Links
      BY <2>8, <2>11
    <3> QED
      BY ONLY <3>1, SetBeforeIs
  <2> HIDE DEF k2
  <2>13. l2 \in Timer!List
    BY <1>5, <1>6, <2>7, <2>12
  <2>14. l2.timeouts = l.timeouts /\ l2.links = k2 /\ p # 1
    BY <2>3, <2>7
  <2>15. b = Neighbour(q, p - 1) /\ n = Neighbour(q, p)
    BY <2>5 DEF b, n
  <2>16. ASSUME NEW u \in Timers
         PROVE  /\ k2[u].before = IF u = t THEN b ELSE IF u = n THEN t ELSE l.links[u].before
                /\ k2[u].next = IF u = t THEN n ELSE IF u = b THEN t ELSE l.links[u].next
    BY <2>8, <2>9, <2>10, <2>11, <2>12
  <2> QED
    BY ONLY <2>13, <2>14, <2>15, <2>16
<1> HIDE DEF Right
<1>10. Right
  BY <1>7, <1>8, <1>9
<1> HIDE DEF l2
<1>11. IsList(l2, r)
  BY <1>3, <1>4, <1>10, PutIn DEF Right
<1> QED
  BY <1>11 DEF l2, r

(* Timer::Remove takes a timer out. *)
LEMMA RemoveFromIs ==
  ASSUME NEW l, NEW q, IsList(l, q), Null \notin Timers, NEW t \in Elements(q)
  PROVE  /\ IsList(Timer!RemoveFrom(l, t), Timer!Queue!Removed(q, t))
         /\ t \notin Elements(Timer!Queue!Removed(q, t))
<1> DEFINE p == Place(q, t)
           r == Timer!Queue!Removed(q, t)
           l2 == Timer!RemoveFrom(l, t)
           P == Timers \cup {Null}
           b == Neighbour(q, p - 1)
           n == Neighbour(q, p + 1)
<1>1. /\ q \in Seq(Timers) /\ Len(q) \in Nat
      /\ \A i \in Int : Neighbour(q, i) \in P
      /\ \A i \in 1..Len(q), j \in Int : q[i] = Neighbour(q, j) <=> i = j
      /\ Neighbour(q, 0) = Null
      /\ t \in Timers
  BY NeighbourIs
<1>2. p \in 1..Len(q) /\ q[p] = t
  BY PlaceIs DEF IsList
<1>3. r \in Seq(Timers) /\ Drops(q, p, r)
  <2>1. r = Timer!Queue!RemoveAt(q, p)
    BY DEF Timer!Queue!Removed, Timer!Queue!PositionOf, Place
  <2> HIDE DEF r, p
  <2> QED
    BY <1>1, <1>2, <2>1, RemoveAtIs
<1> HIDE DEF p, r
<1>4. p \in Int /\ p - 1 \in Int /\ p + 1 \in Int /\ p - 1 # p /\ p + 1 # p /\ p - 1 # p + 1
  BY <1>1, <1>2
<1>5. /\ l.timeouts = Neighbour(q, 1) /\ l.links \in Links /\ l.timeouts \in P
      /\ l = [timeouts |-> l.timeouts, links |-> l.links]
  BY DEF IsList, Timer!List, Links, Link
<1>6. l.links[t].before = b /\ l.links[t].next = n
  BY <1>2 DEF IsList
<1>7. b \in P /\ n \in P /\ b # t /\ n # t
  BY <1>1, <1>2, <1>4
<1>8. b = Null <=> p = 1
  <2>1. p # 1 => p - 1 \in 1..Len(q)
    BY <1>1, <1>2
  <2>2. p = 1 => p - 1 = 0
    OBVIOUS
  <2>3. \A i \in 1..Len(q) : q[i] # Null
    BY <1>1
  <2> QED
    BY <1>1, <2>1, <2>2, <2>3 DEF Neighbour
<1>9. b # Null => b # n
  <2>1. b # Null => p - 1 \in 1..Len(q) /\ b = q[p - 1]
    BY DEF Neighbour
  <2> QED
    BY <1>1, <1>4, <2>1
<1> HIDE DEF b, n
(* the links before t's own are cleared *)
<1> DEFINE k0 == IF b # Null THEN [l.links EXCEPT ![b].next = n] ELSE l.links
           k1 == Timer!SetBefore(k0, n, b)
           head == IF b # Null THEN l.timeouts ELSE n
           k2 == [k1 EXCEPT ![t] = [before |-> Null, next |-> Null]]
<1>10. l2 = [timeouts |-> head, links |-> k2]
  <2>1. CASE b # Null
    <3> DEFINE k == Timer!SetBefore([l.links EXCEPT ![b].next = n], n, b)
    <3>1. l2 = [[l EXCEPT !.links = k] EXCEPT !.links[t] = [before |-> Null, next |-> Null]]
      BY <1>6, <2>1 DEF Timer!RemoveFrom
    <3>2. k1 = k
      BY <2>1
    <3> HIDE DEF l2, k, k1
    <3>3. [l EXCEPT !.links = k] = [timeouts |-> l.timeouts, links |-> k]
      BY <1>5
    <3>4. l2 = [timeouts |-> l.timeouts,
                links |-> [k EXCEPT ![t] = [before |-> Null, next |-> Null]]]
      BY <3>1, <3>3
    <3> QED
      BY <2>1, <3>2, <3>4
  <2>2. CASE b = Null
    <3>1. l2 = [[timeouts |-> n, links |-> k1] EXCEPT !.links[t] = [before |-> Null, next |-> Null]]
      BY <1>6, <2>2 DEF Timer!RemoveFrom
    <3> HIDE DEF l2, k1
    <3> QED
      BY <2>2, <3>1
  <2> QED
    BY <2>1, <2>2
<1> HIDE DEF l2
<1>11. /\ k0 \in Links
       /\ \A u \in Timers : /\ k0[u].before = l.links[u].before
                            /\ k0[u].next = IF u = b THEN n ELSE l.links[u].next
  <2>1. CASE b # Null
    <3>1. b \in Timers
      BY <1>7, <2>1
    <3> QED
      BY <1>5, <1>7, <2>1, <3>1, SetNextIs
  <2>2. CASE b = Null
    BY <1>5, <2>2
  <2> QED
    BY <2>1, <2>2
<1> HIDE DEF k0
<1>12. /\ k1 \in Links
       /\ \A u \in Timers : /\ k1[u].before = IF u = n THEN b ELSE k0[u].before
                            /\ k1[u].next = k0[u].next
  BY <1>7, <1>11, SetBeforeIs
<1> HIDE DEF k1
<1>13. /\ k2 \in Links
       /\ \A u \in Timers : k2[u] = IF u = t THEN [before |-> Null, next |-> Null] ELSE k1[u]
  BY <1>1, <1>12 DEF Links, Link
<1> HIDE DEF k2
<1>14. head \in P /\ head = IF p = 1 THEN n ELSE l.timeouts
  BY <1>5, <1>7, <1>8
<1> HIDE DEF head
<1>15. l2 \in Timer!List
  BY <1>10, <1>13, <1>14 DEF Timer!List, Links, Link
<1>16. l2.timeouts = IF p = 1 THEN n ELSE l.timeouts
  BY <1>10, <1>14
<1>17. ASSUME NEW u \in Timers
       PROVE  /\ l2.links[u].before = IF u = q[p] THEN Null ELSE IF u = n THEN b
                                      ELSE l.links[u].before
              /\ l2.links[u].next = IF u = q[p] THEN Null ELSE IF u = b THEN n
                                    ELSE l.links[u].next
  <2>1. l2.links = k2
    BY <1>10
  <2> QED
    BY <1>2, <1>11, <1>12, <1>13, <2>1
<1>18. IsList(l2, r) /\ q[p] \notin Elements(r)
  BY <1>2, <1>3, <1>15, <1>16, <1>17, TakeOut DEF b, n
<1> QED
  BY <1>2, <1>18 DEF l2, r

(* What ThreadFunction does after a callback is what TimerQueue does. *)
LEMMA MoveFirstIs ==
  ASSUME NEW l, NEW q, IsList(l, q), Null \notin Timers,
         NEW due \in [Timers -> Nat], q # <<>>
  PROVE  IsList(Timer!MoveFirst(l, due), Timer!Queue!Rescheduled(q, due))
<1>1. /\ q \in Seq(Timers) /\ Len(q) \in Nat /\ Len(q) # 0 /\ q[1] \in Elements(q)
      /\ Elements(q) \subseteq Timers
  BY NeighbourIs
<1>2. l.timeouts = q[1] /\ l.links[q[1]].next = Neighbour(q, 2)
  BY <1>1 DEF IsList, Neighbour
<1>3. Neighbour(q, 2) # Null <=> Len(q) > 1
  <2>1. Len(q) > 1 => 2 \in 1..Len(q) /\ q[2] \in Timers
    BY <1>1
  <2> QED
    BY <1>1, <2>1 DEF Neighbour
<1>4. Len(q) > 1 => Neighbour(q, 2) = q[2]
  BY <1>1 DEF Neighbour
<1>5. CASE Len(q) > 1 /\ due[q[2]] < due[q[1]]
  <2>1. Timer!MoveFirst(l, due) = Timer!AddTo(Timer!RemoveFrom(l, q[1]), due, q[1])
    BY <1>2, <1>3, <1>4, <1>5 DEF Timer!MoveFirst
  <2>2. Timer!Queue!Rescheduled(q, due)
          = Timer!Queue!Added(Timer!Queue!Removed(q, q[1]), due, q[1])
    BY <1>5 DEF Timer!Queue!Rescheduled
  <2>3. /\ IsList(Timer!RemoveFrom(l, q[1]), Timer!Queue!Removed(q, q[1]))
        /\ q[1] \in Timers \ Elements(Timer!Queue!Removed(q, q[1]))
    BY <1>1, RemoveFromIs
  <2>4. IsList(Timer!AddTo(Timer!RemoveFrom(l, q[1]), due, q[1]),
               Timer!Queue!Added(Timer!Queue!Removed(q, q[1]), due, q[1]))
    BY <2>3, AddToIs
  <2> QED
    BY <2>1, <2>2, <2>4
<1>6. CASE ~(Len(q) > 1 /\ due[q[2]] < due[q[1]])
  <2>1. Timer!MoveFirst(l, due) = l
    BY <1>2, <1>3, <1>4, <1>6 DEF Timer!MoveFirst
  <2>2. Timer!Queue!Rescheduled(q, due) = q
    BY <1>6 DEF Timer!Queue!Rescheduled
  <2> QED
    BY <2>1, <2>2
<1> QED
  BY <1>5, <1>6

TimerInv ==
  /\ nextTimeout \in [Timers -> Nat]
  /\ \E q \in Seq(Timers) : IsList(Timer!list, q)

(* What TimerQueue sees of the pointers. *)
LEMMA QueueIs ==
  ASSUME Null \notin Timers, NEW q
  PROVE  /\ IsList(Timer!list, q) => Timer!Order = q
         /\ IsList(Timer!list', q) => Timer!Order' = q
<1>1. ASSUME IsList(Timer!list, q) PROVE Timer!Order = q
  <2>1. OrderFrom(Timer!list.links)[Timer!list.timeouts] = q
    BY <1>1, OrderIs
  <2>2. Timer!Order = OrderFrom(links)[timeouts]
    BY DEF Timer!Order, OrderFrom
  <2> QED
    BY <2>1, <2>2 DEF Timer!list
<1>2. ASSUME IsList(Timer!list', q) PROVE Timer!Order' = q
  <2> DEFINE l == Timer!list'
  <2>0. l = [timeouts |-> timeouts', links |-> links']
    BY DEF Timer!list
  <2> HIDE DEF l
  <2>1. OrderFrom(l.links)[l.timeouts] = q
    <3>1. IsList(l, q)
      BY <1>2 DEF l
    <3> QED
      BY <3>1, OrderIs
  <2>2. Timer!Order' = OrderFrom(links')[timeouts']
    BY DEF Timer!Order, OrderFrom
  <2> QED
    BY <2>0, <2>1, <2>2
<1> QED
  BY <1>1, <1>2

(* A timer is listed exactly when it is an element. *)
LEMMA ListedIs ==
  ASSUME Null \notin Timers, NEW q, IsList(Timer!list, q), NEW t \in Timers
  PROVE  /\ Timer!Listed(t) <=> t \in Elements(q)
         /\ Timer!Queue!ToSet(q) = Elements(q)
<1>1. /\ q \in Seq(Timers) /\ Len(q) \in Nat
      /\ \A i \in 1..Len(q) : q[i] \in Timers
      /\ timeouts = Neighbour(q, 1)
      /\ \A i \in 1..Len(q) : links[q[i]].before = Neighbour(q, i - 1)
      /\ \A u \in Timers \ Elements(q) : links[u] = Timer!Unlinked
  BY DEF IsList, Timer!list
<1>2. ASSUME t \notin Elements(q) PROVE ~Timer!Listed(t)
  <2>1. t # timeouts
    BY <1>1, <1>2 DEF Neighbour, Elements
  <2>2. links[t].before = Null
    BY <1>1, <1>2 DEF Timer!Unlinked
  <2> QED
    BY <2>1, <2>2 DEF Timer!Listed
<1>3. ASSUME t \in Elements(q) PROVE Timer!Listed(t)
  <2>1. PICK i \in 1..Len(q) : q[i] = t
    BY <1>3 DEF Elements
  <2>2. CASE i = 1
    BY <1>1, <2>1, <2>2 DEF Timer!Listed, Neighbour
  <2>3. CASE i # 1
    <3>1. i - 1 \in 1..Len(q)
      BY <1>1, <2>3
    <3>2. links[t].before = q[i - 1] /\ q[i - 1] # Null
      BY <1>1, <2>1, <3>1 DEF Neighbour
    <3> QED
      BY <3>2 DEF Timer!Listed
  <2> QED
    BY <2>2, <2>3
<1>4. Timer!Queue!ToSet(q) = Elements(q)
  BY <1>1 DEF Timer!Queue!ToSet, Elements
<1> QED
  BY <1>2, <1>3, <1>4

(* Every operation keeps the pointers a list and is one of TimerQueue's. *)
LEMMA TimerStep ==
  ASSUME Timer!TimerListAssumption, TimerInv, [Timer!Next]_timerVars
  PROVE  TimerInv' /\ [Timer!Queue!Next]_(Timer!Queue!vars)
<1> DEFINE order == Timer!Order
           Goal == TimerInv' /\ [Timer!Queue!Next]_(Timer!Queue!vars)
<1>1. PICK q \in Seq(Timers) : IsList(Timer!list, q)
  BY DEF TimerInv
<1>2. /\ Null \notin Timers /\ Durations \subseteq Nat /\ MaxDue \in Nat
      /\ nextTimeout \in [Timers -> Nat] /\ order = q
  BY <1>1, QueueIs DEF TimerInv, Timer!TimerListAssumption
<1>3. /\ Timer!list = [timeouts |-> timeouts, links |-> links]
      /\ links \in Links
      /\ \A u \in Timers \ Elements(q) : links[u] = Timer!Unlinked
  BY <1>1 DEF Timer!list, IsList, Timer!List, Links, Link
(* The lists that the operations return are those of TimerQueue. *)
<1>4. ASSUME NEW l, NEW r, IsList(l, r), Timer!SetList(l), nextTimeout' \in [Timers -> Nat]
      PROVE  TimerInv' /\ order' = r
  <2>1. Timer!list' = l
    <3>1. l \in Timer!List
      BY <1>4 DEF IsList
    <3>2. l = [timeouts |-> l.timeouts, links |-> l.links]
      BY <3>1 DEF Timer!List
    <3>3. Timer!list' = [timeouts |-> timeouts', links |-> links']
      BY DEF Timer!list
    <3>4. timeouts' = l.timeouts /\ links' = l.links
      BY <1>4 DEF Timer!SetList
    <3> QED
      BY <3>2, <3>3, <3>4
  <2>2. IsList(Timer!list', r) /\ r \in Seq(Timers)
    BY <1>4, <2>1 DEF IsList
  <2>3. order' = r
    BY <1>2, <2>2, QueueIs
  <2> QED
    BY <1>4, <2>2, <2>3 DEF TimerInv
<1> HIDE DEF order
<1>5. ASSUME NEW t \in Timers, NEW d \in 0..MaxDue, Timer!Construct(t, d) PROVE Goal
  <2>1. t \notin Elements(q) /\ t \notin Timer!Queue!ToSet(q)
    BY <1>1, <1>2, <1>5, ListedIs DEF Timer!Construct
  <2>2. nextTimeout' = [nextTimeout EXCEPT ![t] = d] /\ nextTimeout' \in [Timers -> Nat]
    BY <1>2, <1>5 DEF Timer!Construct
  <2>3. [Timer!list EXCEPT !.links[t] = Timer!Unlinked] = Timer!list
    <3>1. [links EXCEPT ![t] = Timer!Unlinked] = links
      BY <1>3, <2>1 DEF Links
    <3> QED
      BY <1>3, <3>1
  <2>4. Timer!SetList(Timer!AddTo(Timer!list, nextTimeout', t))
    BY <1>5, <2>3 DEF Timer!Construct
  <2>5. IsList(Timer!AddTo(Timer!list, nextTimeout', t),
               Timer!Queue!Added(q, nextTimeout', t))
    BY <1>1, <1>2, <2>1, <2>2, AddToIs
  <2>6. TimerInv' /\ order' = Timer!Queue!Added(q, nextTimeout', t)
    BY <1>4, <2>2, <2>4, <2>5
  <2>7. Timer!Queue!Join(t, d)
    BY <1>2, <2>1, <2>2, <2>6 DEF Timer!Queue!Join, order
  <2> QED
    BY <2>6, <2>7 DEF Timer!Queue!Next
<1>6. ASSUME NEW t \in Timers, Timer!Destroy(t) PROVE Goal
  <2>1. t \in Elements(q) /\ t \in Timer!Queue!ToSet(q)
    BY <1>1, <1>2, <1>6, ListedIs DEF Timer!Destroy
  <2>2. nextTimeout' = nextTimeout /\ Timer!SetList(Timer!RemoveFrom(Timer!list, t))
    BY <1>6 DEF Timer!Destroy
  <2>3. IsList(Timer!RemoveFrom(Timer!list, t), Timer!Queue!Removed(q, t))
    BY <1>1, <1>2, <2>1, RemoveFromIs
  <2>4. TimerInv' /\ order' = Timer!Queue!Removed(q, t)
    BY <1>2, <1>4, <2>2, <2>3
  <2>5. Timer!Queue!Leave(t)
    BY <1>2, <2>1, <2>2, <2>4 DEF Timer!Queue!Leave, order
  <2> QED
    BY <2>4, <2>5 DEF Timer!Queue!Next
<1>7. ASSUME NEW d \in Durations, Timer!Fired(d) PROVE Goal
  <2>1. q # <<>> /\ timeouts = q[1] /\ q[1] \in Timers
    BY <1>1, <1>3, <1>7 DEF Timer!Fired, IsList, Neighbour
  <2>2. /\ nextTimeout[q[1]] + d <= MaxDue
        /\ nextTimeout' = [nextTimeout EXCEPT ![q[1]] = @ + d]
        /\ Timer!SetList(Timer!MoveFirst(Timer!list, nextTimeout'))
    BY <1>7, <2>1 DEF Timer!Fired
  <2>3. nextTimeout' \in [Timers -> Nat]
    BY <1>2, <2>1, <2>2
  <2>4. IsList(Timer!MoveFirst(Timer!list, nextTimeout'),
               Timer!Queue!Rescheduled(q, nextTimeout'))
    BY <1>1, <1>2, <2>1, <2>3, MoveFirstIs
  <2>5. TimerInv' /\ order' = Timer!Queue!Rescheduled(q, nextTimeout')
    BY <1>4, <2>2, <2>3, <2>4
  <2>6. Timer!Queue!Fire(d)
    BY <1>2, <2>1, <2>2, <2>5 DEF Timer!Queue!Fire, order
  <2> QED
    BY <2>5, <2>6 DEF Timer!Queue!Next
<1>8. ASSUME UNCHANGED timerVars PROVE Goal
  <2>1. UNCHANGED <<timeouts, links, nextTimeout>>
    BY <1>8 DEF timerVars
  <2>2. Timer!list' = Timer!list
    BY <2>1 DEF Timer!list
  <2>3. TimerInv'
    BY <2>1, <2>2 DEF TimerInv
  <2>4. order' = order
    BY <2>1 DEF order, Timer!Order
  <2> QED
    BY <2>1, <2>3, <2>4 DEF Timer!Queue!vars, order
<1> QED
  BY <1>5, <1>6, <1>7, <1>8 DEF Timer!Next

(* No timer is listed at first. *)
LEMMA TimerBegins ==
  Timer!TimerListAssumption /\ Timer!Init => TimerInv /\ Timer!Queue!Init
<1> SUFFICES ASSUME Timer!TimerListAssumption, Timer!Init
             PROVE  TimerInv /\ Timer!Queue!Init
  OBVIOUS
<1>1. /\ Null \notin Timers /\ timeouts = Null
      /\ links = [t \in Timers |-> Timer!Unlinked]
      /\ nextTimeout = [t \in Timers |-> 0]
  BY DEF Timer!TimerListAssumption, Timer!Init
<1>2. IsList(Timer!list, <<>>)
  <2>1. Timer!list \in Timer!List
    BY <1>1 DEF Timer!list, Timer!List, Timer!Unlinked
  <2> QED
    BY <1>1, <2>1 DEF IsList, Timer!list, Distinct, Neighbour
<1>3. Timer!Order = <<>>
  BY <1>1, <1>2, QueueIs
<1>4. TimerInv
  <2>1. nextTimeout \in [Timers -> Nat]
    BY <1>1
  <2>2. <<>> \in Seq(Timers)
    BY <1>2 DEF IsList
  <2>3. \E q \in Seq(Timers) : IsList(Timer!list, q)
    BY <1>2, <2>2
  <2> QED
    BY <2>1, <2>3 DEF TimerInv
<1> QED
  BY <1>1, <1>3, <1>4 DEF Timer!Queue!Init

(* The pointers of a list agree with each other. *)
LEMMA TimersAgree ==
  Timer!TimerListAssumption /\ TimerInv => Timer!LinksAgree
<1> SUFFICES ASSUME Timer!TimerListAssumption, TimerInv PROVE Timer!LinksAgree
  OBVIOUS
<1>0. Null \notin Timers
  BY DEF Timer!TimerListAssumption
<1>1. PICK q \in Seq(Timers) : IsList(Timer!list, q)
  BY DEF TimerInv
<1>2. /\ Timer!list \in Timer!List /\ timeouts = Neighbour(q, 1)
      /\ \A i \in 1..Len(q) : /\ links[q[i]].before = Neighbour(q, i - 1)
                              /\ links[q[i]].next = Neighbour(q, i + 1)
      /\ \A u \in Timers \ Elements(q) : links[u] = Timer!Unlinked
  BY <1>1 DEF IsList, Timer!list
<1>3. /\ Len(q) \in Nat
      /\ \A i \in 1..Len(q) : q[i] \in Timers
      /\ \A i \in 1..Len(q), j \in Int : q[i] = Neighbour(q, j) <=> i = j
      /\ Neighbour(q, 0) = Null
  BY <1>0, <1>1, NeighbourIs
<1>4. ASSUME NEW t \in Timers, NEW u \in Timers, links[t].next = u
      PROVE  links[u].before = t
  <2>1. t \in Elements(q)
    BY <1>0, <1>2, <1>4 DEF Timer!Unlinked
  <2>2. PICK i \in 1..Len(q) : t = q[i]
    BY <2>1 DEF Elements
  <2>3. u = Neighbour(q, i + 1)
    BY <1>2, <1>4, <2>2
  <2>4. i + 1 \in 1..Len(q) /\ u = q[i + 1] /\ (i + 1) - 1 = i
    BY <1>0, <2>3 DEF Neighbour
  <2>5. links[u].before = Neighbour(q, i)
    BY <1>2, <2>4
  <2> QED
    BY <2>2, <2>5 DEF Neighbour
<1>5. ASSUME NEW t \in Timers, NEW u \in Timers, links[u].before = t
      PROVE  links[t].next = u
  <2>1. u \in Elements(q)
    BY <1>0, <1>2, <1>5 DEF Timer!Unlinked
  <2>2. PICK i \in 1..Len(q) : u = q[i]
    BY <2>1 DEF Elements
  <2>3. t = Neighbour(q, i - 1)
    BY <1>2, <1>5, <2>2
  <2>4. i - 1 \in 1..Len(q) /\ t = q[i - 1] /\ (i - 1) + 1 = i
    BY <1>0, <2>3 DEF Neighbour
  <2>5. links[t].next = Neighbour(q, i)
    BY <1>2, <2>4
  <2> QED
    BY <2>2, <2>5 DEF Neighbour
<1>6. ASSUME timeouts # Null PROVE links[timeouts].before = Null
  <2>1. 1 \in 1..Len(q) /\ timeouts = q[1]
    BY <1>2, <1>6 DEF Neighbour
  <2> QED
    BY <1>2, <1>3, <2>1
<1>7. ASSUME NEW t \in Timers, ~Timer!Listed(t) PROVE links[t] = Timer!Unlinked
  BY <1>0, <1>1, <1>2, <1>7, ListedIs
<1> QED
  BY <1>2, <1>4, <1>5, <1>6, <1>7 DEF Timer!LinksAgree

(***************************************************************************)
(* The list of timers, pointer by pointer, for every number of timers: its *)
(* pointers agree after every operation, and Timer::Add, Timer::Remove and *)
(* the move of a timer that has fired do to the order of the timers what   *)
(* TimerQueue says, which Timer.tla is built on.                           *)
(***************************************************************************)
THEOREM TimersKeepTheirOrder == Spec => ImplementsTimerQueue
<1>1. Timer!TimerListAssumption
  BY PartsAssumption
<1>2. Init => TimerInv /\ Timer!Queue!Init
  BY <1>1, TimerBegins DEF Init
<1>3. TimerInv /\ [Next]_vars => TimerInv' /\ [Timer!Queue!Next]_(Timer!Queue!vars)
  <2> SUFFICES ASSUME TimerInv, [Next]_vars
               PROVE  TimerInv' /\ [Timer!Queue!Next]_(Timer!Queue!vars)
    OBVIOUS
  <2>1. [Timer!Next]_timerVars
    BY DEF Next, vars
  <2> QED
    BY <1>1, <2>1, TimerStep
<1>4. TimerInv => Timer!LinksAgree
  BY <1>1, TimersAgree
<1> QED
  BY <1>2, <1>3, <1>4, PTL DEF Spec, ImplementsTimerQueue,
     Timer!ImplementsTimerQueue, Timer!Queue!Spec
=============================================================================
