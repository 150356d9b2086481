-------------------------------- MODULE Timer --------------------------------
(***************************************************************************)
(* System/Timer.cpp: periodic callbacks served by one background thread.   *)
(*                                                                         *)
(* Every Timer object is constructed and destroyed by some client thread;  *)
(* call[t] is where that thread is inside t's constructor or destructor.   *)
(* The thread that runs ThreadFunction exists only while some timer does.  *)
(* The object t may be constructed again after its destruction: it then    *)
(* stands for another object at the same address.                          *)
(***************************************************************************)
EXTENDS TimerOrder, FiniteSets

CONSTANTS
  Timers,     \* the Timer objects
  Durations,  \* the intervals the clients ask for
  MaxTime,    \* bound: the clock stops here
  Nobody      \* the owner of a free mutex, the subject of no callback

ASSUME TimersAssumption ==
  /\ IsFiniteSet(Timers)
  /\ Durations \subseteq Nat \ {0}
  /\ MaxTime \in Nat
  /\ Nobody \notin Timers

VARIABLES
  now,           \* std::chrono::system_clock
  timeouts,      \* the list of timers, first due first
  nextTimeout,   \* nextTimeout[t], meaningful while t exists
  duration,      \* duration[t], meaningful while t exists
  call,          \* where t's constructor or destructor is
  mut_startstop, \* the timer whose constructor or destructor holds it
  thread,        \* where the timer thread is; "off" iff timerThread == 0
  sleepUntil,    \* the deadline the thread handed to wait_until
  firing         \* the timer whose callback runs

vars == <<now, timeouts, nextTimeout, duration, call, mut_startstop,
          thread, sleepUntil, firing>>

CallStates == {"none", "ctor", "ctorAdd", "ctorStart", "ctorNotify",
               "live", "dtor", "dtorRemove", "dtorCheck", "dtorJoin"}
ThreadStates == {"off", "lock", "waiting", "relock", "callback", "done"}

(***************************************************************************)
(* mut_list is held across steps only by the timer thread, while it runs a *)
(* callback: every other critical section over it is one action.           *)
(***************************************************************************)
ListUnlocked == thread # "callback"

Listed == {timeouts[i] : i \in 1..Len(timeouts)}

Goto(t, from, to) == call[t] = from /\ call' = [call EXCEPT ![t] = to]

Unlock == mut_startstop' = Nobody

(***************************************************************************)
(* condition.notify_one(): only a thread inside wait_until is woken.       *)
(***************************************************************************)
Notify == thread' = IF thread = "waiting" THEN "relock" ELSE thread

-----------------------------------------------------------------------------
(* Timer::Timer *)

CtorBegin(t, d) ==
  /\ Goto(t, "none", "ctor")
  /\ nextTimeout' = [nextTimeout EXCEPT ![t] = now + d]
  /\ duration' = [duration EXCEPT ![t] = d]
  /\ UNCHANGED <<now, timeouts, mut_startstop, thread, sleepUntil, firing>>

CtorLock(t) ==
  /\ Goto(t, "ctor", "ctorAdd")
  /\ mut_startstop = Nobody
  /\ mut_startstop' = t
  /\ UNCHANGED <<now, timeouts, nextTimeout, duration, thread, sleepUntil,
                 firing>>

CtorAdd(t) ==
  /\ Goto(t, "ctorAdd", "ctorStart")
  /\ ListUnlocked
  /\ timeouts' = Added(timeouts, nextTimeout, t)
  /\ UNCHANGED <<now, nextTimeout, duration, mut_startstop, thread,
                 sleepUntil, firing>>

(* Mutant of CtorStart: an earlier deadline does not wake the thread. *)
CtorStartSilent(t) ==
  /\ Goto(t, "ctorStart", "live")
  /\ thread' = IF thread = "off" THEN "lock" ELSE thread
  /\ Unlock
  /\ UNCHANGED <<now, timeouts, nextTimeout, duration, sleepUntil, firing>>

(***************************************************************************)
(* No timer thread yet: start one.  Otherwise look, without mut_list, at   *)
(* the first timer: only when it is the new one must the thread be woken.  *)
(***************************************************************************)
CtorStart(t) ==
  \/ /\ thread = "off"
     /\ Goto(t, "ctorStart", "live")
     /\ thread' = "lock"
     /\ Unlock
     /\ UNCHANGED <<now, timeouts, nextTimeout, duration, sleepUntil, firing>>
  \/ /\ thread # "off"
     /\ Goto(t, "ctorStart", "ctorNotify")
     /\ timeouts[1] = t
     /\ UNCHANGED <<now, timeouts, nextTimeout, duration, mut_startstop,
                    thread, sleepUntil, firing>>
  \/ /\ thread # "off"
     /\ Goto(t, "ctorStart", "live")
     /\ timeouts[1] # t
     /\ Unlock
     /\ UNCHANGED <<now, timeouts, nextTimeout, duration, thread, sleepUntil,
                    firing>>

CtorNotify(t) ==
  /\ Goto(t, "ctorNotify", "live")
  /\ Notify
  /\ Unlock
  /\ UNCHANGED <<now, timeouts, nextTimeout, duration, sleepUntil, firing>>

-----------------------------------------------------------------------------
(* Timer::~Timer *)

DtorBegin(t) ==
  /\ Goto(t, "live", "dtor")
  /\ UNCHANGED <<now, timeouts, nextTimeout, duration, mut_startstop, thread,
                 sleepUntil, firing>>

DtorLock(t) ==
  /\ Goto(t, "dtor", "dtorRemove")
  /\ mut_startstop = Nobody
  /\ mut_startstop' = t
  /\ UNCHANGED <<now, timeouts, nextTimeout, duration, thread, sleepUntil,
                 firing>>

(* Mutant of DtorRemove: the list is changed without mut_list. *)
DtorRemoveUnlocked(t) ==
  /\ Goto(t, "dtorRemove", "dtorCheck")
  /\ timeouts' = Removed(timeouts, t)
  /\ UNCHANGED <<now, nextTimeout, duration, mut_startstop, thread,
                 sleepUntil, firing>>

DtorRemove(t) ==
  /\ Goto(t, "dtorRemove", "dtorCheck")
  /\ ListUnlocked
  /\ timeouts' = Removed(timeouts, t)
  /\ UNCHANGED <<now, nextTimeout, duration, mut_startstop, thread,
                 sleepUntil, firing>>

(* Mutant of DtorCheck: join without notify. *)
DtorCheckSilent(t) ==
  /\ Goto(t, "dtorCheck", IF timeouts = <<>> THEN "dtorJoin" ELSE "none")
  /\ mut_startstop' = IF timeouts = <<>> THEN t ELSE Nobody
  /\ UNCHANGED <<now, timeouts, nextTimeout, duration, thread, sleepUntil,
                 firing>>

(***************************************************************************)
(* The last timer wakes the thread and waits for it; the look at timeouts  *)
(* is without mut_list.                                                    *)
(***************************************************************************)
DtorCheck(t) ==
  \/ /\ timeouts = <<>>
     /\ Goto(t, "dtorCheck", "dtorJoin")
     /\ Notify
     /\ UNCHANGED <<now, timeouts, nextTimeout, duration, mut_startstop,
                    sleepUntil, firing>>
  \/ /\ timeouts # <<>>
     /\ Goto(t, "dtorCheck", "none")
     /\ Unlock
     /\ UNCHANGED <<now, timeouts, nextTimeout, duration, thread, sleepUntil,
                    firing>>

(* Mutant of DtorJoin: timerThread is not reset after the join. *)
DtorJoinKeepsThread(t) ==
  /\ Goto(t, "dtorJoin", "none")
  /\ thread = "done"
  /\ Unlock
  /\ UNCHANGED <<now, timeouts, nextTimeout, duration, thread, sleepUntil,
                 firing>>

DtorJoin(t) ==
  /\ Goto(t, "dtorJoin", "none")
  /\ thread = "done"
  /\ thread' = "off"
  /\ Unlock
  /\ UNCHANGED <<now, timeouts, nextTimeout, duration, sleepUntil, firing>>

-----------------------------------------------------------------------------
(* Timer::ThreadFunction *)

(***************************************************************************)
(* The top of the loop: with mut_list, either return or go to sleep until  *)
(* the first deadline; wait_until gives mut_list back.                     *)
(***************************************************************************)
ThreadLoop ==
  /\ thread = "lock"
  /\ IF timeouts = <<>>
       THEN /\ thread' = "done"
            /\ UNCHANGED sleepUntil
       ELSE /\ thread' = "waiting"
            /\ sleepUntil' = nextTimeout[timeouts[1]]
  /\ UNCHANGED <<now, timeouts, nextTimeout, duration, call, mut_startstop,
                 firing>>

ThreadTimeout ==
  /\ thread = "waiting"
  /\ sleepUntil <= now
  /\ thread' = "relock"
  /\ UNCHANGED <<now, timeouts, nextTimeout, duration, call, mut_startstop,
                 sleepUntil, firing>>

(* A condition variable may wake its waiter without any reason. *)
ThreadSpuriousWake ==
  /\ thread = "waiting"
  /\ sleepUntil > now
  /\ thread' = "relock"
  /\ UNCHANGED <<now, timeouts, nextTimeout, duration, call, mut_startstop,
                 sleepUntil, firing>>

(* Mutant of ThreadWake: every wake-up counts as the deadline. *)
ThreadWakeEager ==
  /\ thread = "relock"
  /\ thread' = IF timeouts = <<>> THEN "done" ELSE "callback"
  /\ firing' = IF timeouts = <<>> THEN Nobody ELSE timeouts[1]
  /\ UNCHANGED <<now, timeouts, nextTimeout, duration, call, mut_startstop,
                 sleepUntil>>

(***************************************************************************)
(* Back from wait_until with mut_list: return, enter the first timer's     *)
(* callback if it is due, or go round again.                               *)
(***************************************************************************)
ThreadWake ==
  /\ thread = "relock"
  /\ \/ /\ timeouts = <<>>
        /\ thread' = "done"
        /\ UNCHANGED <<firing, timeouts>>
     \/ /\ timeouts # <<>>
        /\ nextTimeout[timeouts[1]] <= now
        /\ thread' = "callback"
        /\ firing' = timeouts[1]
        /\ UNCHANGED timeouts
     \/ /\ timeouts # <<>>
        /\ nextTimeout[timeouts[1]] > now
        /\ thread' = "lock"
        /\ timeouts' = Rescheduled(timeouts, nextTimeout)
        /\ UNCHANGED firing
  /\ UNCHANGED <<now, nextTimeout, duration, call, mut_startstop, sleepUntil>>

(***************************************************************************)
(* The callback returns: the deadline moves by one duration (not to now +  *)
(* duration) and the timer moves behind those due earlier.                 *)
(***************************************************************************)
ThreadCallbackEnd ==
  /\ thread = "callback"
  /\ thread' = "lock"
  /\ firing' = Nobody
  /\ nextTimeout' = [nextTimeout EXCEPT ![timeouts[1]] = @ + duration[timeouts[1]]]
  /\ timeouts' = Rescheduled(timeouts, nextTimeout')
  /\ UNCHANGED <<now, duration, call, mut_startstop, sleepUntil>>

-----------------------------------------------------------------------------

Tick ==
  /\ now < MaxTime
  /\ now' = now + 1
  /\ UNCHANGED <<timeouts, nextTimeout, duration, call, mut_startstop, thread,
                 sleepUntil, firing>>

Init ==
  /\ now = 0
  /\ timeouts = <<>>
  /\ nextTimeout = [t \in Timers |-> 0]
  /\ duration = [t \in Timers |-> 0]
  /\ call = [t \in Timers |-> "none"]
  /\ mut_startstop = Nobody
  /\ thread = "off"
  /\ sleepUntil = 0
  /\ firing = Nobody

ThreadStep ==
  ThreadLoop \/ ThreadTimeout \/ ThreadWake \/ ThreadCallbackEnd

CallStep(t) ==
  \/ CtorLock(t)
  \/ CtorAdd(t)
  \/ CtorStart(t)
  \/ CtorNotify(t)
  \/ DtorLock(t)
  \/ DtorRemove(t)
  \/ DtorCheck(t)
  \/ DtorJoin(t)

CallBegin(t) == DtorBegin(t) \/ \E d \in Durations : CtorBegin(t, d)

Next ==
  \/ \E t \in Timers : CallBegin(t) \/ CallStep(t)
  \/ ThreadStep
  \/ ThreadSpuriousWake
  \/ Tick

Spec == Init /\ [][Next]_vars

(***************************************************************************)
(* Fairness.  The timer thread takes its next step whenever it can (it may *)
(* always be able to: see ListUnlocked) and every callback returns; a      *)
(* spurious wake-up may never come.  A client inside a constructor or      *)
(* destructor goes on, and is not passed over forever for a mutex that     *)
(* becomes free again and again (strong fairness).  No client has to       *)
(* construct or destroy anything, and the clock need not advance.          *)
(***************************************************************************)
Fairness == WF_vars(ThreadStep) /\ \A t \in Timers : SF_vars(CallStep(t))

FairSpec == Spec /\ Fairness

-----------------------------------------------------------------------------
(* Properties *)

(***************************************************************************)
(* The values the variables may take, and no timer twice on the list.      *)
(***************************************************************************)
TypeOK ==
  /\ now \in 0..MaxTime
  /\ timeouts \in Seq(Timers)
  /\ \A i, j \in 1..Len(timeouts) : timeouts[i] = timeouts[j] => i = j
  /\ nextTimeout \in [Timers -> Nat]
  /\ duration \in [Timers -> Durations \cup {0}]
  /\ call \in [Timers -> CallStates]
  /\ mut_startstop \in Timers \cup {Nobody}
  /\ thread \in ThreadStates
  /\ sleepUntil \in Nat
  /\ firing \in Timers \cup {Nobody}

(* The timers between their Add and their Remove. *)
Registered ==
  {t \in Timers : call[t] \in {"ctorStart", "ctorNotify", "live", "dtor",
                               "dtorRemove"}}

(***************************************************************************)
(* ~Timer is a barrier: once the destructor has taken the timer off the    *)
(* list its callback neither runs nor will run, so what the callback       *)
(* captured (a ConnectionsManager, a ClientProvider) may be destroyed.     *)
(***************************************************************************)
CallbackOnlyWhileRegistered ==
  thread = "callback" => firing \in Registered

(***************************************************************************)
(* The list is sorted by deadline in every state, whatever was added,      *)
(* removed or fired: the head alone tells the thread how long to sleep.    *)
(***************************************************************************)
ListSorted == IsSortedBy(timeouts, nextTimeout)

(***************************************************************************)
(* No lost wake-up: a thread asleep past the first deadline, or with       *)
(* nothing left to wait for, is about to be notified by the constructor or *)
(* destructor that holds mut_startstop, although that one looked at        *)
(* timeouts without mut_list.                                              *)
(***************************************************************************)
NoLostWakeup ==
  thread = "waiting" =>
    \/ /\ timeouts # <<>>
       /\ sleepUntil <= nextTimeout[timeouts[1]]
    \/ \E t \in Timers :
         /\ mut_startstop = t
         /\ call[t] \in {"ctorStart", "ctorNotify", "dtorCheck"}

(***************************************************************************)
(* Between constructors and destructors the thread exists exactly while a  *)
(* timer does, and it has not returned from ThreadFunction.                *)
(***************************************************************************)
ThreadIffTimers ==
  mut_startstop = Nobody =>
    /\ thread = "off" <=> timeouts = <<>>
    /\ thread # "done"

(***************************************************************************)
(* A registered timer that is due gets its callback, or is destroyed.      *)
(***************************************************************************)
DueTimerFires ==
  \A t \in Timers :
    (t \in Listed /\ nextTimeout[t] <= now)
      ~> (t \notin Listed \/ nextTimeout[t] > now)

(***************************************************************************)
(* Every constructor and destructor that was called returns: nobody waits  *)
(* forever for mut_startstop, mut_list or the join of the thread.          *)
(***************************************************************************)
CallsReturn ==
  \A t \in Timers : call[t] \notin {"none", "live"} ~> call[t] \in {"none", "live"}

(***************************************************************************)
(* The threads, locks and the list together keep the promise of            *)
(* TimerService.                                                           *)
(***************************************************************************)
Service == INSTANCE TimerService
  WITH due <- [t \in Registered |-> nextTimeout[t]],
       Times <- {n + d : n \in 0..MaxTime, d \in Durations}

ImplementsTimerService == Service!Spec

=============================================================================
