---------------------------- MODULE PathRegistry ----------------------------
(***************************************************************************)
(* What a PathTree promises its callers: a map from paths to targets, and  *)
(* whether it is empty.                                                    *)
(***************************************************************************)
CONSTANTS
  Paths,   \* the paths the callers use
  Targets, \* what they register
  None     \* NOT_FOUND

VARIABLES
  target, \* target[p]: what GetTarget returns for p
  empty   \* what IsEmpty returns

vars == <<target, empty>>

(* A path that has a target keeps it: the first one registered wins. *)
Insert(p, t) == target' = IF target[p] = None THEN [target EXCEPT ![p] = t]
                          ELSE target

Remove(p) == target' = [target EXCEPT ![p] = None]

(* Removed, or never registered: the tree says it is empty. *)
Init == target = [p \in Paths |-> None] /\ empty = TRUE

Next ==
  /\ \E p \in Paths : Remove(p) \/ \E t \in Targets : Insert(p, t)
  /\ empty' = \A p \in Paths : target'[p] = None

Spec == Init /\ [][Next]_vars
=============================================================================
