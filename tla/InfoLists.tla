----------------------------- MODULE InfoLists ------------------------------
(***************************************************************************)
(* The two intrusive doubly linked lists of ConnectionsManager.cpp,        *)
(* pointer by pointer: newInfos, oldInfos, and the members before and next *)
(* of the EpollData objects.  Every operation holds infoListMutex, the     *)
(* timer's DeleteOldClients for all of its loop.  The module               *)
(* ConnectionsManager has the threads, and sets in place of the lists.     *)
(***************************************************************************)
EXTENDS FiniteSets

CONSTANTS
  Data,  \* the addresses of EpollData objects; one may be used again
  Null   \* the null pointer

InfoListsAssumption == IsFiniteSet(Data) /\ Null \notin Data

VARIABLES
  newInfos, oldInfos, \* the first EpollData of each list
  before, next,       \* the members of the EpollData objects
  deleting            \* DeleteOldClients is in its loop

vars == <<newInfos, oldInfos, before, next, deleting>>

Pointers == Data \cup {Null}

(* x->before = b, or x->next = n, unless x is the null pointer. *)
Set(member, x, value) ==
  IF x = Null THEN member ELSE [member EXCEPT ![x] = value]

(* The objects from d on. *)
Chain ==
  LET from[d \in Pointers] == IF d = Null THEN {} ELSE {d} \cup from[next[d]]
  IN  from

Listed == Chain[oldInfos] \cup Chain[newInfos]

-----------------------------------------------------------------------------
(* Add: new EpollData, and the list part *)
Add(d) ==
  /\ ~deleting
  /\ d \notin Listed
  /\ before' = [Set(before, newInfos, d) EXCEPT ![d] = Null]
  /\ next' = [next EXCEPT ![d] = newInfos]
  /\ newInfos' = d
  /\ UNCHANGED <<oldInfos, deleting>>

(***************************************************************************)
(* ToNew, for an object with a predecessor, in either list.  (The first    *)
(* object of newInfos may be d's predecessor: its next was set before d's  *)
(* was, and newInfos->before is set last.)                                 *)
(***************************************************************************)
ToNewInside(d) ==
  /\ before[d] # Null
  /\ LET unlinked == Set(before, next[d], before[d])
     IN  before' = Set([unlinked EXCEPT ![d] = Null], newInfos, d)
  /\ next' = [next EXCEPT ![before[d]] = next[d], ![d] = newInfos]
  /\ newInfos' = d
  /\ UNCHANGED oldInfos

(* For the first object of oldInfos. *)
ToNewFirst(d) ==
  /\ before[d] = Null
  /\ oldInfos = d
  /\ oldInfos' = next[d]
  /\ before' = Set(Set(before, next[d], Null), newInfos, d)
  /\ next' = [next EXCEPT ![d] = newInfos]
  /\ newInfos' = d

(* The first object of newInfos stays where it is. *)
ToNewStays(d) ==
  /\ before[d] = Null
  /\ oldInfos # d
  /\ UNCHANGED <<newInfos, oldInfos, before, next>>

ToNew(d) ==
  /\ ~deleting
  /\ d \in Listed
  /\ ToNewInside(d) \/ ToNewFirst(d) \/ ToNewStays(d)
  /\ UNCHANGED deleting

(* RemoveInner; then the object is deleted. *)
RemoveInner(d) ==
  /\ next' = Set(next, before[d], next[d])
  /\ oldInfos' = IF before[d] = Null /\ oldInfos = d THEN next[d] ELSE oldInfos
  /\ newInfos' = IF before[d] = Null /\ oldInfos # d /\ newInfos = d
                 THEN next[d] ELSE newInfos
  /\ before' = Set(before, next[d], before[d])

Remove(d) == ~deleting /\ d \in Listed /\ RemoveInner(d) /\ UNCHANGED deleting

(* DeleteAllClients: both loops to their end. *)
DeleteAllClients ==
  /\ ~deleting
  /\ Listed # {}
  /\ oldInfos' = Null /\ newInfos' = Null
  /\ UNCHANGED <<before, next, deleting>>

DeleteBegins ==
  /\ ~deleting
  /\ deleting' = TRUE
  /\ UNCHANGED <<newInfos, oldInfos, before, next>>

(* Mutant of DeleteFirst: the loop runs over the other list. *)
DeleteFirstNew ==
  /\ deleting
  /\ newInfos # Null
  /\ RemoveInner(newInfos)
  /\ UNCHANGED deleting

DeleteFirst ==
  /\ deleting
  /\ oldInfos # Null
  /\ RemoveInner(oldInfos)
  /\ UNCHANGED deleting

DeleteEnds ==
  /\ deleting
  /\ oldInfos = Null
  /\ oldInfos' = newInfos
  /\ newInfos' = Null
  /\ deleting' = FALSE
  /\ UNCHANGED <<before, next>>

Init ==
  /\ newInfos = Null /\ oldInfos = Null
  /\ before = [d \in Data |-> Null]
  /\ next = [d \in Data |-> Null]
  /\ deleting = FALSE

Next ==
  \/ \E d \in Data : Add(d) \/ ToNew(d) \/ Remove(d)
  \/ DeleteAllClients \/ DeleteBegins \/ DeleteFirst \/ DeleteEnds

Spec == Init /\ [][Next]_vars

-----------------------------------------------------------------------------
(***************************************************************************)
(* The lists are lists: they have no object in common, their first objects *)
(* have no predecessor, every other object is its predecessor's successor, *)
(* and no member of a listed object points at one that was deleted.  One   *)
(* pointer that ToNew forgets would let a later RemoveInner write into a   *)
(* deleted object, or cut off half a list.                                 *)
(***************************************************************************)
LinksAgree ==
  /\ Chain[oldInfos] \cap Chain[newInfos] = {}
  /\ \A d \in Listed :
       /\ {before[d], next[d]} \subseteq Listed \cup {Null}
       /\ before[d] = Null <=> d \in {oldInfos, newInfos}
       /\ before[d] # Null => next[before[d]] = d
       /\ next[d] # Null => before[next[d]] = d

(***************************************************************************)
(* The pointers do what IdleTable says of the connections: newInfos are    *)
(* those active since the last check, and a check removes the others.      *)
(***************************************************************************)
Table == INSTANCE IdleTable WITH Clients <- Data, present <- Listed,
                                 active <- Chain[newInfos],
                                 checking <- deleting

ImplementsIdleTable == Table!Spec
=============================================================================
