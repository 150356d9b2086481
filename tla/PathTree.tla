------------------------------ MODULE PathTree ------------------------------
(***************************************************************************)
(* General/PathTree.hpp: the nodes of a tree, each with its childs by name *)
(* and a target.  A node is known by its path from the root.  Every call   *)
(* holds the tree's mutex and is one action.                               *)
(***************************************************************************)
EXTENDS Naturals, Sequences

CONSTANTS
  Names,   \* the elements of a path
  Depth,   \* bound: the length of a path
  Targets, \* the registered objects
  None     \* NOT_FOUND, the null pointer

PathTreeAssumption == Depth \in Nat /\ None \notin Targets

VARIABLES
  nodes, \* the nodes that exist, the root <<>> among them
  at     \* at[p]: the target of node p

vars == <<nodes, at>>

Paths == UNION {[1..n -> Names] : n \in 0..Depth}

Childs(p) == {q \in nodes : Len(q) = Len(p) + 1 /\ SubSeq(q, 1, Len(p)) = p}

(* The first n elements. *)
Above(p, n) == SubSeq(p, 1, n)

(* How far the walk from the root along p gets. *)
Reach(p) ==
  CHOOSE n \in 0..Len(p) :
    /\ \A m \in 0..n : Above(p, m) \in nodes
    /\ n < Len(p) => Above(p, n + 1) \notin nodes

GetTarget(p) == IF Reach(p) = Len(p) THEN at[p] ELSE None

(* The nodes missing on the way are made; a target is not replaced. *)
InsertTarget(p, t) ==
  /\ nodes' = nodes \cup {Above(p, n) : n \in 0..Len(p)}
  /\ at' = [q \in nodes' |->
              IF q = p /\ GetTarget(p) = None THEN t
              ELSE IF q \in nodes THEN at[q] ELSE None]

(* Mutant of Pruned: a node is erased although it has childs left. *)
PrunedWhole(p, kept) ==
  LET gone[n \in 1..(Len(p) + 1)] ==
        IF n > Reach(p) THEN {}
        ELSE IF kept[Above(p, n)] = None
          THEN {q \in nodes : Len(q) >= n /\ Above(q, n) = Above(p, n)}
          ELSE gone[n + 1]
  IN  gone[1]

(***************************************************************************)
(* On the way back from the end of the walk: each node but the root that   *)
(* has neither a target nor childs any more.                               *)
(***************************************************************************)
Pruned(p, kept) ==
  LET gone[n \in 1..(Len(p) + 1)] ==
        IF n > Reach(p) THEN {}
        ELSE LET q == Above(p, n)
             IN  IF kept[q] = None /\ Childs(q) \subseteq gone[n + 1]
                 THEN gone[n + 1] \cup {q} ELSE gone[n + 1]
  IN  gone[1]

RemoveTarget(p) ==
  LET kept == IF Reach(p) = Len(p) THEN [at EXCEPT ![p] = None] ELSE at
  IN  /\ nodes' = nodes \ Pruned(p, kept)
      /\ at' = [q \in nodes' |-> kept[q]]

IsEmpty == at[<<>>] = None /\ Childs(<<>>) = {}

Init == nodes = {<<>>} /\ at = [p \in {<<>>} |-> None]

Next == \E p \in Paths : RemoveTarget(p) \/ \E t \in Targets : InsertTarget(p, t)

Spec == Init /\ [][Next]_vars

-----------------------------------------------------------------------------
(***************************************************************************)
(* The walks along the nodes are look-ups in a map: no insertion or        *)
(* removal on one path, with the nodes it makes and prunes, is seen on     *)
(* another, and IsEmpty holds exactly if nothing is registered, so no node *)
(* outlives what it was made for.                                          *)
(***************************************************************************)
Registry == INSTANCE PathRegistry WITH
              target <- [p \in Paths |-> GetTarget(p)], empty <- IsEmpty

ImplementsRegistry == Registry!Spec
=============================================================================
