----------------------------- MODULE ThreadPool -----------------------------
(***************************************************************************)
(* The worker threads of System/IO/Network/ConnectionsManager.cpp and the  *)
(* two calls that change their number.                                     *)
(*                                                                         *)
(* AddThreads and RemoveThreads talk to one worker at a time through       *)
(* communicationVariable, under communicationMutex: a new worker reads its *)
(* own list iterator there, a stopping worker leaves its iterator there.   *)
(* A worker is stopped by a write to eventSock, which some worker fetches  *)
(* from epoll.  What the workers do with the clients' events is the        *)
(* subject of ConnectionsManager; here it is Serve.                        *)
(***************************************************************************)
EXTENDS Naturals, FiniteSetsExt

CONSTANTS
  Workers,    \* the threads the system can hold at once
  Callers,    \* the threads that call AddThreads and RemoveThreads
  MaxThreads, \* bound: the largest n of a call
  Nobody      \* no worker, no caller

ASSUME ThreadPoolAssumption ==
  /\ MaxThreads \in Nat
  /\ Nobody \notin Workers \cup Callers

VARIABLES
  workerThreadList,      \* the workers whose std::thread is in the list
  worker,                \* where ThreadPoolFunction is, per worker
  myIterator,            \* its local variable: which list node it is
  communicationVariable, \* the list node of the worker that last spoke
  communicationMutex,    \* the caller that holds it from step to step
  workerThreadListMutex, \* the caller inside AddThreads or RemoveThreads
  call,                  \* the caller's call: which one, and where it is
  n,                     \* the threads it has still to add or to remove
  eventSock,             \* the eventfd: written, reported to epoll, registered
  spurious               \* auxiliary: has a wait ended without a notification?

vars == <<workerThreadList, worker, myIterator, communicationVariable,
          communicationMutex, workerThreadListMutex, call, n, eventSock,
          spurious>>

pool == <<workerThreadList, worker, myIterator, communicationVariable>>
locks == <<communicationMutex, workerThreadListMutex>>

(***************************************************************************)
(* "none": no such thread.  In "epoll" it waits for events, in "stopping"  *)
(* it has fetched the event of eventSock and wants communicationMutex; in  *)
(* both it holds epollMutex.  After "lastPass" the function returns.       *)
(***************************************************************************)
WorkerStates == {"none", "start", "loop", "epoll", "serve", "stopping",
                 "lastPass", "exited"}
Kinds == {"none", "add", "remove"}
Places == {"outside", "lock", "loop", "wait", "woken", "join"}

EpollMutexFree == \A w \in Workers : worker[w] \notin {"epoll", "stopping"}

Move(w, from, to) == worker[w] = from /\ worker' = [worker EXCEPT ![w] = to]

At(c, kind, place) == call[c] = [kind |-> kind, place |-> place]
Goto(c, place) == call' = [call EXCEPT ![c].place = place]

(***************************************************************************)
(* communicationCondition.notify_one(): at most one caller waits on it.    *)
(***************************************************************************)
Notify ==
  call' = [c \in Callers |->
             IF call[c].place = "wait" THEN [call[c] EXCEPT !.place = "woken"]
                                       ELSE call[c]]

-----------------------------------------------------------------------------
(* What AddThreads and RemoveThreads share *)

CallBegin(c, kind, k) ==
  /\ call[c].kind = "none"
  /\ call' = [call EXCEPT ![c] = [kind |-> kind, place |-> "lock"]]
  /\ n' = [n EXCEPT ![c] = k]
  /\ UNCHANGED <<pool, locks, eventSock, spurious>>

(***************************************************************************)
(* Both mutexes.  RemoveThreads removes no more threads than there are.    *)
(***************************************************************************)
CallLock(c) ==
  /\ call[c].place = "lock"
  /\ workerThreadListMutex = Nobody
  /\ communicationMutex = Nobody
  /\ workerThreadListMutex' = c
  /\ communicationMutex' = c
  /\ Goto(c, "loop")
  /\ n' = [n EXCEPT ![c] = IF call[c].kind = "remove"
                           THEN Min({@, Cardinality(workerThreadList)})
                           ELSE @]
  /\ UNCHANGED <<pool, eventSock, spurious>>

(* A condition variable may wake its waiter without any reason. *)
CallSpuriousWakeup(c) ==
  /\ call[c].place = "wait"
  /\ Goto(c, "woken")
  /\ spurious' = TRUE
  /\ UNCHANGED <<pool, locks, n, eventSock>>

Return(c) ==
  /\ call' = [call EXCEPT ![c] = [kind |-> "none", place |-> "outside"]]
  /\ workerThreadListMutex' = Nobody
  /\ communicationMutex' = Nobody
  /\ n' = [n EXCEPT ![c] = 0]

-----------------------------------------------------------------------------
(* AddThreads *)

(* Mutant of AddOne: the next thread is created without waiting. *)
AddOneHasty(c) ==
  /\ At(c, "add", "loop")
  /\ n[c] > 0
  /\ \E w \in Workers \ workerThreadList :
       /\ Move(w, "none", "start")
       /\ workerThreadList' = workerThreadList \cup {w}
       /\ communicationVariable' = w
  /\ n' = [n EXCEPT ![c] = @ - 1]
  /\ UNCHANGED <<myIterator, locks, call, eventSock, spurious>>

AddOne(c) ==
  /\ At(c, "add", "loop")
  /\ n[c] > 0
  /\ \E w \in Workers \ workerThreadList :
       /\ Move(w, "none", "start")
       /\ workerThreadList' = workerThreadList \cup {w}
       /\ communicationVariable' = w
  /\ Goto(c, "wait")
  /\ communicationMutex' = Nobody
  /\ UNCHANGED <<myIterator, workerThreadListMutex, n, eventSock, spurious>>

(* std::thread throws when the system has no thread left. *)
AddThrows(c) ==
  /\ At(c, "add", "loop")
  /\ n[c] > 0
  /\ workerThreadList = Workers
  /\ Return(c)
  /\ UNCHANGED <<pool, eventSock, spurious>>

AddWoken(c) ==
  /\ At(c, "add", "woken")
  /\ communicationMutex = Nobody
  /\ communicationMutex' = c
  /\ Goto(c, "loop")
  /\ n' = [n EXCEPT ![c] = @ - 1]
  /\ UNCHANGED <<pool, workerThreadListMutex, eventSock, spurious>>

AddReturn(c) ==
  /\ At(c, "add", "loop")
  /\ n[c] = 0
  /\ Return(c)
  /\ UNCHANGED <<pool, eventSock, spurious>>

-----------------------------------------------------------------------------
(* RemoveThreads *)

(* Mutant of RemoveOne: the requests are written without waiting between. *)
RemoveOneAtOnce(c) ==
  /\ At(c, "remove", "loop")
  /\ n[c] > 0
  /\ eventSock' = [eventSock EXCEPT !.val = @ + 1,
                                     !.ready = eventSock.registered]
  /\ IF n[c] > 1
     THEN /\ n' = [n EXCEPT ![c] = @ - 1]
          /\ UNCHANGED <<call, communicationMutex>>
     ELSE /\ Goto(c, "wait")
          /\ communicationMutex' = Nobody
          /\ UNCHANGED n
  /\ UNCHANGED <<pool, workerThreadListMutex, spurious>>

(***************************************************************************)
(* eventfd_write: epoll reports the (edge-triggered) event if eventSock is *)
(* registered.                                                             *)
(***************************************************************************)
RemoveOne(c) ==
  /\ At(c, "remove", "loop")
  /\ n[c] > 0
  /\ eventSock' = [eventSock EXCEPT !.val = @ + 1,
                                     !.ready = eventSock.registered]
  /\ Goto(c, "wait")
  /\ communicationMutex' = Nobody
  /\ UNCHANGED <<pool, workerThreadListMutex, n, spurious>>

RemoveWoken(c) ==
  /\ At(c, "remove", "woken")
  /\ communicationMutex = Nobody
  /\ communicationMutex' = c
  /\ Goto(c, "join")
  /\ UNCHANGED <<pool, workerThreadListMutex, n, eventSock, spurious>>

RemoveJoin(c) ==
  /\ At(c, "remove", "join")
  /\ communicationVariable \in workerThreadList
  /\ Move(communicationVariable, "exited", "none")
  /\ workerThreadList' = workerThreadList \ {communicationVariable}
  /\ Goto(c, "loop")
  /\ myIterator' = [myIterator EXCEPT ![communicationVariable] = Nobody]
  /\ n' = [n EXCEPT ![c] = @ - 1]
  /\ UNCHANGED <<communicationVariable, locks, eventSock, spurious>>

(***************************************************************************)
(* When the last worker is gone eventSock leaves the epoll instance.       *)
(***************************************************************************)
RemoveReturn(c) ==
  /\ At(c, "remove", "loop")
  /\ n[c] = 0
  /\ Return(c)
  /\ eventSock' = IF workerThreadList = {}
                  THEN [eventSock EXCEPT !.registered = FALSE, !.ready = FALSE]
                  ELSE eventSock
  /\ UNCHANGED <<pool, spurious>>

-----------------------------------------------------------------------------
(* ThreadPoolFunction *)

WorkerStart(w) ==
  /\ Move(w, "start", "loop")
  /\ communicationMutex = Nobody
  /\ myIterator' = [myIterator EXCEPT ![w] = communicationVariable]
  /\ Notify
  /\ UNCHANGED <<workerThreadList, communicationVariable, locks, n, eventSock,
                 spurious>>

WorkerPoll(w) ==
  /\ Move(w, "loop", "epoll")
  /\ EpollMutexFree
  /\ UNCHANGED <<workerThreadList, myIterator, communicationVariable, locks,
                 call, n, eventSock, spurious>>

(***************************************************************************)
(* epoll_wait returns events of clients and listeners only; epollMutex is  *)
(* released and their handlers run.                                        *)
(***************************************************************************)
WorkerServe(w) ==
  /\ Move(w, "epoll", "serve")
  /\ UNCHANGED <<workerThreadList, myIterator, communicationVariable, locks,
                 call, n, eventSock, spurious>>

WorkerServed(w) ==
  /\ Move(w, "serve", "loop")
  /\ UNCHANGED <<workerThreadList, myIterator, communicationVariable, locks,
                 call, n, eventSock, spurious>>

(* epoll_wait returns the event of eventSock, perhaps among others. *)
WorkerFetchesStop(w) ==
  /\ Move(w, "epoll", "stopping")
  /\ eventSock.ready
  /\ eventSock' = [eventSock EXCEPT !.ready = FALSE]
  /\ UNCHANGED <<workerThreadList, myIterator, communicationVariable, locks,
                 call, n, spurious>>

(* Mutant of WorkerStop: the caller is not notified. *)
WorkerStopSilent(w) ==
  /\ Move(w, "stopping", "lastPass")
  /\ communicationMutex = Nobody
  /\ eventSock' = [eventSock EXCEPT !.val = 0]
  /\ communicationVariable' = myIterator[w]
  /\ UNCHANGED <<workerThreadList, myIterator, locks, call, n, spurious>>

(***************************************************************************)
(* Whatever eventfd_read returns the worker stops; it names itself to the  *)
(* caller, releases epollMutex and handles the rest of its events.         *)
(***************************************************************************)
WorkerStop(w) ==
  /\ Move(w, "stopping", "lastPass")
  /\ communicationMutex = Nobody
  /\ eventSock' = [eventSock EXCEPT !.val = 0]
  /\ communicationVariable' = myIterator[w]
  /\ Notify
  /\ UNCHANGED <<workerThreadList, myIterator, locks, n, spurious>>

WorkerExit(w) ==
  /\ Move(w, "lastPass", "exited")
  /\ UNCHANGED <<workerThreadList, myIterator, communicationVariable, locks,
                 call, n, eventSock, spurious>>

-----------------------------------------------------------------------------
Init ==
  /\ workerThreadList = {}
  /\ worker = [w \in Workers |-> "none"]
  /\ myIterator = [w \in Workers |-> Nobody]
  /\ communicationVariable = Nobody
  /\ communicationMutex = Nobody
  /\ workerThreadListMutex = Nobody
  /\ call = [c \in Callers |-> [kind |-> "none", place |-> "outside"]]
  /\ n = [c \in Callers |-> 0]
  /\ eventSock = [val |-> 0, ready |-> FALSE, registered |-> TRUE]
  /\ spurious = FALSE

CallStep(c) ==
  \/ CallLock(c)
  \/ AddOne(c) \/ AddThrows(c) \/ AddWoken(c) \/ AddReturn(c)
  \/ RemoveOne(c) \/ RemoveWoken(c) \/ RemoveJoin(c) \/ RemoveReturn(c)

WorkerStep(w) ==
  \/ WorkerStart(w) \/ WorkerPoll(w) \/ WorkerServed(w)
  \/ WorkerFetchesStop(w) \/ WorkerStop(w) \/ WorkerExit(w)

Next ==
  \/ \E c \in Callers, kind \in {"add", "remove"}, k \in 1..MaxThreads :
       CallBegin(c, kind, k)
  \/ \E c \in Callers : CallStep(c) \/ CallSpuriousWakeup(c)
  \/ \E w \in Workers : WorkerStep(w) \/ WorkerServe(w)

Spec == Init /\ [][Next]_vars

(***************************************************************************)
(* The callers and the workers run, and get their mutexes: strong fairness *)
(* for the waits of a caller on the mutexes and of a worker on a mutex it  *)
(* shares with others.  epoll_wait reports a ready descriptor however many *)
(* others are ready: strong fairness of WorkerFetchesStop for the workers  *)
(* together, no fairness of WorkerServe, the arrival of clients' events.   *)
(***************************************************************************)
Fairness ==
  /\ \A c \in Callers : SF_vars(CallStep(c))
  /\ \A w \in Workers : SF_vars(WorkerStep(w) /\ ~WorkerFetchesStop(w))
  /\ SF_vars(\E w \in Workers : WorkerFetchesStop(w))

FairSpec == Spec /\ Fairness

-----------------------------------------------------------------------------
(***************************************************************************)
(* The counters stay within the bounds of a call, and a mutex has one      *)
(* owner, a caller that is inside its call.                                *)
(***************************************************************************)
TypeOK ==
  /\ workerThreadList \subseteq Workers
  /\ worker \in [Workers -> WorkerStates]
  /\ myIterator \in [Workers -> Workers \cup {Nobody}]
  /\ communicationVariable \in Workers \cup {Nobody}
  /\ communicationMutex \in {workerThreadListMutex, Nobody}
  /\ workerThreadListMutex \in Callers \cup {Nobody}
  /\ call \in [Callers -> [kind : Kinds, place : Places]]
  /\ n \in [Callers -> 0..MaxThreads]
  /\ eventSock \in [val : Nat, ready : BOOLEAN, registered : BOOLEAN]
  /\ spurious \in BOOLEAN

(***************************************************************************)
(* "Fetch worker threads own iterator for identification": past that block *)
(* a worker knows which list node it is, although one variable serves all  *)
(* workers and both calls.  (Not after a spurious wake-up: AddThreads then *)
(* writes communicationVariable again before the worker has read it.)      *)
(***************************************************************************)
WorkerKnowsItself ==
  ~spurious =>
    \A w \in Workers : worker[w] \notin {"none", "start"} => myIterator[w] = w

(***************************************************************************)
(* RemoveThreads joins and erases a thread that is on its way out: joining *)
(* any other one would block with both mutexes held.                       *)
(***************************************************************************)
JoinsTheStopped ==
  \A c \in Callers : ~spurious /\ At(c, "remove", "join")
     => /\ communicationVariable \in workerThreadList
        /\ worker[communicationVariable] \in {"lastPass", "exited"}

(***************************************************************************)
(* Every running thread has its std::thread in the list (the destructor of *)
(* the ConnectionsManager joins what it finds there) and every list entry  *)
(* has a thread.                                                           *)
(***************************************************************************)
EveryWorkerIsListed ==
  workerThreadList = {w \in Workers : worker[w] # "none"}

(* The list and the workers agree on who is who; types are kept. *)
WorkersAreKnown == TypeOK /\ WorkerKnowsItself /\ EveryWorkerIsListed

(***************************************************************************)
(* A worker leaves the pool only for a call of RemoveThreads that waits    *)
(* for it: requests neither pile up in eventSock nor stop two workers.     *)
(***************************************************************************)
LeavesOnRequest ==
  LET Leaving == {w \in Workers :
                    worker[w] \in {"stopping", "lastPass", "exited"}}
      Removing == {c \in Callers :
                     /\ call[c].kind = "remove"
                     /\ call[c].place \in {"wait", "woken", "join"}}
  IN  Cardinality(Leaving) + (IF eventSock.ready THEN 1 ELSE 0)
        <= Cardinality(Removing)

(* Who stops was asked to, and who is joined is who stops. *)
StopsOnlyOnRequest == LeavesOnRequest /\ JoinsTheStopped

(***************************************************************************)
(* Every call of AddThreads and RemoveThreads returns, as long as the pool *)
(* was never emptied (then eventSock is out of epoll, see                  *)
(* RemoveThreadsReturns) and no wake-up was spurious.                      *)
(***************************************************************************)
CallsReturn ==
  \A c \in Callers : call[c].kind # "none"
     ~> (call[c].kind = "none" \/ ~eventSock.registered \/ spurious)

(***************************************************************************)
(* ConnectionsManager.hpp says of RemoveThreads: "Removes n threads from   *)
(* the thread pool".  Violated: once a call has emptied the pool, later    *)
(* workers never hear of a stop request, as AddEventSock is called by the  *)
(* constructor only.                                                       *)
(***************************************************************************)
RemoveThreadsReturns ==
  \A c \in Callers : call[c].kind = "remove" ~> call[c].kind = "none"
=============================================================================
