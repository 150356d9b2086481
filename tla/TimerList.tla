----------------------------- MODULE TimerList ------------------------------
(***************************************************************************)
(* The intrusive doubly linked list of System/Timer.cpp, pointer by        *)
(* pointer: Timer::timeouts and the members before and next.  Every        *)
(* operation runs under mut_list, so each is one action here; Timer.tla    *)
(* has the threads.                                                        *)
(***************************************************************************)
EXTENDS Naturals, Sequences

CONSTANTS
  Timers,     \* the Timer objects (their addresses)
  Durations,  \* the intervals
  MaxDue,     \* bound: the latest deadline
  Null        \* the null pointer

TimerListAssumption ==
  /\ Null \notin Timers
  /\ Durations \subseteq Nat
  /\ MaxDue \in Nat

VARIABLES
  timeouts,    \* the first timer
  links,       \* links[t]: the members before and next of t
  nextTimeout  \* when t is due

vars == <<timeouts, links, nextTimeout>>

(* The static and the members that Add and Remove work on. *)
List == [timeouts : Timers \cup {Null},
         links : [Timers -> [before : Timers \cup {Null},
                             next : Timers \cup {Null}]]]

(* Mutant of LastNotLater: a new timer goes before those due when it is. *)
LastEarlier(l, due, t) ==
  LET walk[b \in Timers] ==
        LET n == l.links[b].next
        IN IF n # Null /\ due[n] < due[t] THEN walk[n] ELSE b
  IN walk[l.timeouts]

(***************************************************************************)
(* The loop of Timer::Add: from the first timer on while the next one is   *)
(* not due later.                                                          *)
(***************************************************************************)
LastNotLater(l, due, t) ==
  LET walk[b \in Timers] ==
        LET n == l.links[b].next
        IN IF n # Null /\ due[n] <= due[t] THEN walk[n] ELSE b
  IN walk[l.timeouts]

(* x->before = b, unless x is the null pointer. *)
SetBefore(links_, x, b) ==
  IF x = Null THEN links_ ELSE [links_ EXCEPT ![x].before = b]

AddTo(l, due, t) ==
  IF l.timeouts = Null
    THEN [l EXCEPT !.timeouts = t]
  ELSE IF due[l.timeouts] > due[t]
    THEN [timeouts |-> t,
          links |-> SetBefore([l.links EXCEPT ![t].next = l.timeouts],
                              l.timeouts, t)]
  ELSE LET b == LastNotLater(l, due, t)
           n == l.links[b].next
       IN [l EXCEPT !.links =
             SetBefore([@ EXCEPT ![t] = [before |-> b, next |-> n],
                                 ![b].next = t],
                       n, t)]

RemoveFrom(l, t) ==
  LET b == l.links[t].before
      n == l.links[t].next
      unlinked == IF b # Null
                    THEN [l EXCEPT !.links = SetBefore([@ EXCEPT ![b].next = n], n, b)]
                    ELSE [timeouts |-> n, links |-> SetBefore(l.links, n, Null)]
  IN [unlinked EXCEPT !.links[t] = [before |-> Null, next |-> Null]]

(* The end of ThreadFunction's loop body. *)
MoveFirst(l, due) ==
  LET n == l.links[l.timeouts].next
  IN IF n # Null /\ due[n] < due[l.timeouts]
       THEN AddTo(RemoveFrom(l, l.timeouts), due, l.timeouts)
       ELSE l

-----------------------------------------------------------------------------

list == [timeouts |-> timeouts, links |-> links]

SetList(l) == timeouts' = l.timeouts /\ links' = l.links

Unlinked == [before |-> Null, next |-> Null]

Listed(t) == t = timeouts \/ links[t].before # Null

(* Timer::Timer, for an object that is not alive. *)
Construct(t, d) ==
  /\ ~Listed(t)
  /\ nextTimeout' = [nextTimeout EXCEPT ![t] = d]
  /\ SetList(AddTo([list EXCEPT !.links[t] = Unlinked], nextTimeout', t))

(* Timer::~Timer *)
Destroy(t) ==
  /\ Listed(t)
  /\ SetList(RemoveFrom(list, t))
  /\ UNCHANGED nextTimeout

(* ThreadFunction: the first timer's callback has returned. *)
Fired(d) ==
  /\ timeouts # Null
  /\ nextTimeout[timeouts] + d <= MaxDue
  /\ nextTimeout' = [nextTimeout EXCEPT ![timeouts] = @ + d]
  /\ SetList(MoveFirst(list, nextTimeout'))

Init ==
  /\ timeouts = Null
  /\ links = [t \in Timers |-> Unlinked]
  /\ nextTimeout = [t \in Timers |-> 0]

Next ==
  \/ \E t \in Timers, d \in 0..MaxDue : Construct(t, d)
  \/ \E t \in Timers : Destroy(t)
  \/ \E d \in Durations : Fired(d)

Spec == Init /\ [][Next]_vars

-----------------------------------------------------------------------------
(* Properties *)

(***************************************************************************)
(* The pointers agree: a timer's successor points back at it, its          *)
(* predecessor points forward, and the first timer has no predecessor.  A  *)
(* pointer left over from a destroyed neighbour would be followed later.   *)
(***************************************************************************)
LinksAgree ==
  /\ list \in List
  /\ \A t, u \in Timers : links[t].next = u <=> links[u].before = t
  /\ timeouts # Null => links[timeouts].before = Null
  /\ \A t \in Timers : ~Listed(t) => links[t] = Unlinked

(* The timers in the order in which the next pointers reach them. *)
Order ==
  LET from[t \in Timers \cup {Null}] ==
        IF t = Null THEN <<>> ELSE <<t>> \o from[links[t].next]
  IN from[timeouts]

(***************************************************************************)
(* The pointer operations compute TimerQueue's: insertion behind the       *)
(* timers that are not due later, removal from any place, and the move of  *)
(* a timer that has fired.                                                 *)
(***************************************************************************)
Queue == INSTANCE TimerQueue WITH queue <- Order, due <- nextTimeout

ImplementsTimerQueue == Queue!Spec

=============================================================================
