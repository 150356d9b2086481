---------------------------- MODULE TimerService ----------------------------
(***************************************************************************)
(* What System/Timer promises its users: a set of registered timers, each  *)
(* with the time its callback is due; callbacks run one at a time, never   *)
(* early, earliest deadline first; a callback that has returned is due     *)
(* again later; and a timer leaves only while no callback runs.  Threads,  *)
(* locks and the list do not appear.                                       *)
(***************************************************************************)
EXTENDS Naturals, Functions

CONSTANTS
  Timers,  \* the timers
  Times,   \* when a callback may be due
  Nobody   \* firing, when no callback runs

VARIABLES
  now,    \* the clock
  due,    \* due[t] for every registered timer t
  firing  \* the timer whose callback runs, or Nobody

vars == <<now, due, firing>>

Init == now = 0 /\ due = <<>> /\ firing = Nobody

Register(t) ==
  /\ t \notin DOMAIN due
  /\ firing = Nobody
  /\ \E d \in Times :
       due' = [u \in DOMAIN due \cup {t} |-> IF u = t THEN d ELSE due[u]]
  /\ UNCHANGED <<now, firing>>

Unregister(t) ==
  /\ t \in DOMAIN due
  /\ firing = Nobody
  /\ due' = Restrict(due, DOMAIN due \ {t})
  /\ UNCHANGED <<now, firing>>

Start(t) ==
  /\ firing = Nobody
  /\ t \in DOMAIN due
  /\ due[t] <= now
  /\ \A u \in DOMAIN due : due[t] <= due[u]
  /\ firing' = t
  /\ UNCHANGED <<now, due>>

Finish ==
  /\ firing # Nobody
  /\ firing' = Nobody
  /\ \E d \in Times : d > due[firing] /\ due' = [due EXCEPT ![firing] = d]
  /\ UNCHANGED now

Tick == now' = now + 1 /\ UNCHANGED <<due, firing>>

Next ==
  \/ \E t \in Timers : Register(t) \/ Unregister(t) \/ Start(t)
  \/ Finish
  \/ Tick

Spec ==
  /\ Init
  /\ [][Next]_vars
  /\ WF_vars(\E t \in Timers : Start(t))
  /\ WF_vars(Finish)

=============================================================================
