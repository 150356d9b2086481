----------------------------- MODULE TimerOrder -----------------------------
(***************************************************************************)
(* The order in which System/Timer.cpp keeps its timers: the doubly linked *)
(* list that starts at Timer::timeouts, seen as the sequence of the timers *)
(* on it.  TimerList.tla shows that the pointer operations of the code     *)
(* compute exactly these operators.                                        *)
(***************************************************************************)
EXTENDS Naturals, Sequences, SequencesExt

(***************************************************************************)
(* Timer::Add stops before the first timer that is due strictly later, so  *)
(* timers that are due at the same time keep the order of their insertion. *)
(***************************************************************************)
AddPosition(queue, due, t) ==
  CHOOSE i \in 1..Len(queue) + 1 :
    /\ \A j \in 1..i - 1 : due[queue[j]] <= due[t]
    /\ i <= Len(queue) => due[queue[i]] > due[t]

Added(queue, due, t) == InsertAt(queue, AddPosition(queue, due, t), t)

PositionOf(queue, t) == CHOOSE i \in 1..Len(queue) : queue[i] = t

Removed(queue, t) == RemoveAt(queue, PositionOf(queue, t))

(* Mutant of Rescheduled: the timer that fired keeps its place. *)
RescheduledNever(queue, due) == queue

(* Mutant of Rescheduled: added again without being taken out. *)
RescheduledTwice(queue, due) ==
  IF Len(queue) > 1 /\ due[queue[2]] < due[queue[1]]
    THEN Added(queue, due, queue[1])
    ELSE queue

(***************************************************************************)
(* What ThreadFunction does after the first timer's deadline was moved: it *)
(* is taken out and added again only when its successor is due earlier.    *)
(***************************************************************************)
Rescheduled(queue, due) ==
  IF Len(queue) > 1 /\ due[queue[2]] < due[queue[1]]
    THEN Added(Removed(queue, queue[1]), due, queue[1])
    ELSE queue

IsSortedBy(queue, due) ==
  \A i, j \in 1..Len(queue) : i < j => due[queue[i]] <= due[queue[j]]

=============================================================================
