------------------------------ MODULE Signals -------------------------------
(***************************************************************************)
(* System/Signal: objects whose targets are called when the process gets a *)
(* signal.  Threads construct and destroy them; a signal interrupts one of *)
(* the threads, whatever it is doing, and its handler runs there, with the *)
(* same mutex as the constructors, the destructors and the other handlers. *)
(***************************************************************************)
EXTENDS Naturals, Sequences

CONSTANTS
  Objects,    \* bound: the Signals of the program, each constructed once
  Types,      \* SignalType, but for None
  Threads,    \* the threads of the process
  MaxSignals, \* bound: the signals it gets
  Nobody      \* mut is free

VARIABLES
  lists,     \* lists[t]: the objects of type t
  installed, \* the types whose handler is not the default one
  alive,     \* the objects between constructor and destructor, with types
  doing,     \* doing[th]: the call that holds, or waits for, mut
  handling,  \* handling[th]: the handlers on top of it, the running one first
  mut,       \* the thread that holds it
  count,     \* how many signals there were
  fate       \* "runs", "killed" by a signal, "undefined" by a dead object

vars == <<lists, installed, alive, doing, handling, mut, count, fate>>

NoCall == [name |-> "none", object |-> "none"]

(* A thread goes on with its own code when no handler is on top. *)
Runs(th) == fate = "runs" /\ handling[th] = <<>>

Construct(th, o, t) ==
  /\ Runs(th)
  /\ doing[th] = NoCall
  /\ \A u \in Types : \A i \in DOMAIN lists[u] : lists[u][i] # o
  /\ \A u \in Threads : doing[u].object # o
  /\ mut = Nobody
  /\ mut' = th
  /\ doing' = [doing EXCEPT ![th] = [name |-> "construct", object |-> o, type |-> t]]
  /\ UNCHANGED <<lists, installed, alive, handling, count, fate>>

(* Mutant of Install: the list is looked at when the object is in it. *)
InstallLate(t) == UNCHANGED installed

(* signal(), by the first object of a type *)
Install(t) == installed' = IF lists[t] = <<>> THEN installed \union {t} ELSE installed

(* The member sigType is not set: it keeps the value None. *)
Constructed(th) ==
  /\ Runs(th)
  /\ doing[th].name = "construct"
  /\ LET o == doing[th].object
         t == doing[th].type
     IN  /\ Install(t)
         /\ lists' = [lists EXCEPT ![t] = Append(@, o)]
         /\ alive' = [p \in DOMAIN alive \union {o} |-> IF p = o THEN t ELSE alive[p]]
  /\ mut' = Nobody
  /\ doing' = [doing EXCEPT ![th] = NoCall]
  /\ UNCHANGED <<handling, count, fate>>

Destroy(th, o) ==
  /\ Runs(th)
  /\ doing[th] = NoCall
  /\ o \in DOMAIN alive
  /\ \A u \in Threads : doing[u].object # o
  /\ mut = Nobody
  /\ mut' = th
  /\ doing' = [doing EXCEPT ![th] = [name |-> "destroy", object |-> o]]
  /\ UNCHANGED <<lists, installed, alive, handling, count, fate>>

(* The switch of the destructor finds None, whatever the type was. *)
Destroyed(th) ==
  /\ Runs(th)
  /\ doing[th].name = "destroy"
  /\ alive' = [p \in DOMAIN alive \ {doing[th].object} |-> alive[p]]
  /\ mut' = Nobody
  /\ doing' = [doing EXCEPT ![th] = NoCall]
  /\ UNCHANGED <<lists, installed, handling, count, fate>>

(* signal() masks a type while its handler runs, and no other. *)
Masked(th) == {handling[th][i].type : i \in DOMAIN handling[th]}

(* The default action of all these signals ends the process. *)
Raise(th, t) ==
  /\ fate = "runs"
  /\ t \notin Masked(th)
  /\ count < MaxSignals
  /\ count' = count + 1
  /\ IF t \in installed
     THEN /\ handling' = [handling EXCEPT ![th] =
                            <<[at |-> "lock", type |-> t, left |-> <<>>]>> \o @]
          /\ UNCHANGED fate
     ELSE fate' = "killed" /\ UNCHANGED handling
  /\ UNCHANGED <<lists, installed, alive, doing, mut>>

Handles(th, place) ==
  fate = "runs" /\ handling[th] # <<>> /\ Head(handling[th]).at = place

(* fireSigABRT and the others *)
Fire(th) ==
  /\ Handles(th, "lock")
  /\ mut = Nobody
  /\ mut' = th
  /\ handling' = [handling EXCEPT ![th][1].at = "loop",
                                  ![th][1].left = lists[Head(handling[th]).type]]
  /\ UNCHANGED <<lists, installed, alive, doing, count, fate>>

Target(th) ==
  /\ Handles(th, "loop")
  /\ Head(handling[th]).left # <<>>
  /\ fate' = IF Head(Head(handling[th]).left) \in DOMAIN alive THEN fate ELSE "undefined"
  /\ handling' = [handling EXCEPT ![th][1].left = Tail(@)]
  /\ UNCHANGED <<lists, installed, alive, doing, mut, count>>

Fired(th) ==
  /\ Handles(th, "loop")
  /\ Head(handling[th]).left = <<>>
  /\ mut' = Nobody
  /\ handling' = [handling EXCEPT ![th] = Tail(@)]
  /\ UNCHANGED <<lists, installed, alive, doing, count, fate>>

Init ==
  /\ lists = [t \in Types |-> <<>>]
  /\ installed = {}
  /\ alive = [o \in {} |-> 0]
  /\ doing = [th \in Threads |-> NoCall]
  /\ handling = [th \in Threads |-> <<>>]
  /\ mut = Nobody /\ count = 0 /\ fate = "runs"

Step(th) == Constructed(th) \/ Destroyed(th) \/ Fire(th) \/ Target(th) \/ Fired(th)

Next ==
  \E th \in Threads :
    \/ Step(th)
    \/ \E o \in Objects : Destroy(th, o) \/ \E t \in Types : Construct(th, o, t)
    \/ \E t \in Types : Raise(th, t)

(* A thread that can go on does so, and gets a mutex that is free. *)
Fairness == \A th \in Threads : WF_vars(Step(th))

Spec == Init /\ [][Next]_vars /\ Fairness

-----------------------------------------------------------------------------

(***************************************************************************)
(* A handler waits for the mutex that its own thread holds: it interrupted *)
(* a constructor, a destructor, or the handler of another type.            *)
(***************************************************************************)
Locked ==
  \E th \in Threads :
    handling[th] # <<>> /\ Head(handling[th]).at = "lock" /\ mut = th

(***************************************************************************)
(* Every Signal is called by the signals of its type: the process is not   *)
(* killed by a signal there is an object for, each handler calls all that  *)
(* exist when it begins, and all end, those that interrupted one another   *)
(* before they had the mutex too, unless one is Locked or has met an       *)
(* object that is no more.                                                 *)
(***************************************************************************)
SignalsReachTargets ==
  /\ [](\A o \in DOMAIN alive : \E i \in DOMAIN lists[alive[o]] : lists[alive[o]][i] = o)
  /\ [](\A o \in DOMAIN alive : alive[o] \in installed)
  /\ \A th \in Threads :
       handling[th] # <<>> ~> handling[th] = <<>> \/ Locked \/ fate # "runs"

(* No target is called after the destructor of its Signal. *)
OnlyLivingAreCalled == fate # "undefined"

(***************************************************************************)
(* A signal may come at any time.  Violated, also when every Signal was    *)
(* constructed before the first signal and none is ever destroyed: a       *)
(* second signal, of another type, interrupts the handler that has mut.    *)
(***************************************************************************)
HandlersDoNotBlock == ~Locked
=============================================================================
