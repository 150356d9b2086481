----------------------------- MODULE TimerQueue -----------------------------
(***************************************************************************)
(* The list of System/Timer.cpp as a sequence sorted by deadline, with the *)
(* three changes the code makes to it.  TimerList implements this module;  *)
(* Timer is built on the same operators of TimerOrder.                     *)
(***************************************************************************)
EXTENDS TimerOrder

CONSTANTS
  Timers,     \* the Timer objects
  Durations,  \* their intervals
  MaxDue      \* bound: the latest deadline

VARIABLES
  queue,  \* the timers on the list, first due first
  due     \* due[t], meaningful while t is on the list

vars == <<queue, due>>

Init == queue = <<>> /\ due = [t \in Timers |-> 0]

(* A constructor: t is due at d and takes its place. *)
Join(t, d) ==
  /\ t \notin ToSet(queue)
  /\ due' = [due EXCEPT ![t] = d]
  /\ queue' = Added(queue, due', t)

(* A destructor: t leaves, the others keep their order. *)
Leave(t) ==
  /\ t \in ToSet(queue)
  /\ queue' = Removed(queue, t)
  /\ UNCHANGED due

(* The first timer has fired: it is due later and takes its new place. *)
Fire(d) ==
  /\ queue # <<>>
  /\ due[queue[1]] + d <= MaxDue
  /\ due' = [due EXCEPT ![queue[1]] = @ + d]
  /\ queue' = Rescheduled(queue, due')

Next ==
  \/ \E t \in Timers, d \in 0..MaxDue : Join(t, d)
  \/ \E t \in Timers : Leave(t)
  \/ \E d \in Durations : Fire(d)

Spec == Init /\ [][Next]_vars

=============================================================================
