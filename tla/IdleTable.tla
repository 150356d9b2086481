------------------------------ MODULE IdleTable ------------------------------
(***************************************************************************)
(* What ConnectionsManager promises about inactive connections             *)
(* (CONNECTION_TIMEOUT): a check is performed at intervals, and "all       *)
(* connections that were inactive since the last check before get          *)
(* removed".  A connection may go at any time for other reasons, but for   *)
(* idleness only if it was not active since the last check, and no check   *)
(* ends before every such connection is gone.                              *)
(***************************************************************************)
CONSTANT Clients

VARIABLES
  present,  \* the connections the manager serves
  active,   \* those that were added or had an event since the last check
  checking  \* is a check going on?

vars == <<present, active, checking>>

Init == present = {} /\ active = {} /\ checking = FALSE

Join(c) ==
  /\ ~checking
  /\ c \notin present
  /\ present' = present \cup {c}
  /\ active' = active \cup {c}
  /\ UNCHANGED checking

Touch(c) ==
  /\ ~checking
  /\ c \in present
  /\ active' = active \cup {c}
  /\ UNCHANGED <<present, checking>>

(* An error, the peer's hang-up, or the end of the manager. *)
Leave(cs) ==
  /\ ~checking
  /\ present' = present \ cs
  /\ active' = active \ cs
  /\ UNCHANGED checking

CheckBegin == ~checking /\ checking' = TRUE /\ UNCHANGED <<present, active>>

Expire(c) ==
  /\ checking
  /\ c \in present \ active
  /\ present' = present \ {c}
  /\ UNCHANGED <<active, checking>>

CheckEnd ==
  /\ checking
  /\ present \subseteq active
  /\ active' = {}
  /\ checking' = FALSE
  /\ UNCHANGED present

Next ==
  \/ \E c \in Clients : Join(c) \/ Touch(c) \/ Expire(c)
  \/ \E cs \in SUBSET present : Leave(cs)
  \/ CheckBegin \/ CheckEnd

Spec == Init /\ [][Next]_vars
=============================================================================
