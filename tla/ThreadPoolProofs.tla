-------------------------- MODULE ThreadPoolProofs --------------------------
(***************************************************************************)
(* Proofs that the invariants of ThreadPool hold for every set of workers, *)
(* every set of callers and every number of threads a call may ask for.    *)
(***************************************************************************)
EXTENDS ThreadPool, FiniteSetTheorems, TLAPS

-----------------------------------------------------------------------------
(* The inductive invariant *)

(* The list is emptied and filled one thread at a time. *)
FiniteList == IsFiniteSet(workerThreadList)

(* Only RemoveThreads joins; who waits still has a thread to wait for. *)
KindAndPlace ==
  \A c \in Callers :
    /\ call[c].kind = "none" <=> call[c].place = "outside"
    /\ call[c].place = "join" => call[c].kind = "remove"
    /\ call[c].place \in {"wait", "woken", "join"} => n[c] > 0

Inside == {"loop", "wait", "woken", "join"}

(* The mutexes belong to the one call past CallLock; a wait releases one. *)
OwnerIsInside ==
  \A c \in Callers :
    /\ workerThreadListMutex = c <=> call[c].place \in Inside
    /\ communicationMutex = c <=> call[c].place \in {"loop", "join"}

Leaving == {w \in Workers : worker[w] \in {"stopping", "lastPass", "exited"}}

(* One request at a time is under way: in epoll or with one worker. *)
OneRequest ==
  /\ \A v, w \in Leaving : v = w
  /\ eventSock.ready => Leaving = {}
  /\ eventSock.ready \/ Leaving # {} =>
       \E c \in Callers : /\ call[c].kind = "remove"
                          /\ call[c].place \in {"wait", "woken", "join"}

(* A thread that has not read its iterator yet finds it where it looks. *)
StartIsAnnounced ==
  ~spurious =>
    \A w \in Workers : worker[w] = "start" =>
      /\ communicationVariable = w
      /\ \E c \in Callers : At(c, "add", "wait")

(* A worker that has left its iterator there has notified the caller. *)
StopIsAnnounced ==
  ~spurious =>
    \A w \in Workers : worker[w] \in {"lastPass", "exited"} =>
      /\ communicationVariable = w
      /\ \E c \in Callers : At(c, "remove", "woken") \/ At(c, "remove", "join")

(* The caller that wakes up finds the iterator of a worker that stopped. *)
JoinsWhoStopped ==
  \A c \in Callers :
    ~spurious /\ (At(c, "remove", "woken") \/ At(c, "remove", "join")) =>
      /\ communicationVariable \in workerThreadList
      /\ worker[communicationVariable] \in {"lastPass", "exited"}

Inv ==
  /\ TypeOK
  /\ FiniteList
  /\ EveryWorkerIsListed
  /\ KindAndPlace
  /\ OwnerIsInside
  /\ OneRequest
  /\ StartIsAnnounced
  /\ StopIsAnnounced
  /\ WorkerKnowsItself
  /\ JoinsWhoStopped

-----------------------------------------------------------------------------

LEMMA InvInit == Init => Inv
<1> SUFFICES ASSUME Init PROVE Inv
  OBVIOUS
<1>1. TypeOK
  <2>1. call \in [Callers -> [kind : Kinds, place : Places]]
    BY DEF Init, Kinds, Places
  <2>2. n \in [Callers -> 0..MaxThreads]
    BY ThreadPoolAssumption DEF Init
  <2> QED
    BY <2>1, <2>2 DEF Init, TypeOK, WorkerStates
<1>2. FiniteList
  BY FS_EmptySet DEF Init, FiniteList
<1>3. KindAndPlace /\ OwnerIsInside
  BY ThreadPoolAssumption DEF Init, KindAndPlace, OwnerIsInside, Inside
<1>4. EveryWorkerIsListed /\ OneRequest
  BY DEF Init, EveryWorkerIsListed, OneRequest, Leaving
<1>5. StartIsAnnounced /\ StopIsAnnounced /\ WorkerKnowsItself /\ JoinsWhoStopped
  BY DEF Init, StartIsAnnounced, StopIsAnnounced, WorkerKnowsItself,
         JoinsWhoStopped, At
<1> QED
  BY <1>1, <1>2, <1>3, <1>4, <1>5 DEF Inv

(* The mutex of the list lets one caller at a time into its call. *)
LEMMA OneCallerInside ==
  ASSUME Inv, NEW c \in Callers, NEW d \in Callers,
         call[c].place \in Inside, call[d].place \in Inside
  PROVE  c = d
  BY DEF Inv, OwnerIsInside

(* The size of a set of which no two members differ. *)
LEMMA AtMostOne ==
  ASSUME NEW S, \A x, y \in S : x = y
  PROVE  /\ IsFiniteSet(S)
         /\ Cardinality(S) \in {0, 1}
         /\ S = {} => Cardinality(S) = 0
         /\ S # {} => Cardinality(S) = 1
<1>1. CASE S = {}
  BY <1>1, FS_EmptySet
<1>2. CASE S # {}
  <2>1. PICK x : S = {x}
    BY <1>2
  <2> QED
    BY <1>2, <2>1, FS_Singleton
<1> QED
  BY <1>1, <1>2

(* RemoveThreads takes no more threads from the list than it holds. *)
LEMMA RemovableThreads ==
  ASSUME Inv, NEW k \in 0..MaxThreads
  PROVE  Min({k, Cardinality(workerThreadList)}) \in 0..MaxThreads
<1> DEFINE m == Cardinality(workerThreadList)
<1>1. m \in Nat
  BY FS_CardinalityType DEF Inv, FiniteList
<1>2. \E x \in {k, m} : \A y \in {k, m} : x <= y
  BY <1>1
<1>3. Min({k, m}) \in {k, m} /\ Min({k, m}) <= k
  BY <1>1, <1>2 DEF Min
<1> QED
  BY <1>1, <1>3, ThreadPoolAssumption

LEMMA InvStep == Inv /\ [Next]_vars => Inv'
<1> SUFFICES ASSUME Inv, [Next]_vars PROVE Inv'
  OBVIOUS
<1>1. ASSUME NEW c \in Callers, NEW kind \in {"add", "remove"}, NEW k \in 1..MaxThreads,
             CallBegin(c, kind, k)
      PROVE  Inv'
  <2>1. TypeOK'
    BY <1>1 DEF Inv, CallBegin, pool, locks, TypeOK, Kinds, Places
  <2>2. FiniteList'
    BY <1>1 DEF Inv, CallBegin, pool, FiniteList
  <2>3. EveryWorkerIsListed'
    BY <1>1 DEF Inv, CallBegin, pool, EveryWorkerIsListed
  <2>4. KindAndPlace'
    BY <1>1 DEF Inv, CallBegin, KindAndPlace
  <2>5. OwnerIsInside'
    BY <1>1 DEF Inv, CallBegin, locks, OwnerIsInside, KindAndPlace, Inside
  <2>6. OneRequest'
    BY <1>1 DEF Inv, CallBegin, pool, OneRequest, Leaving
  <2>7. StartIsAnnounced'
    BY <1>1 DEF Inv, CallBegin, pool, StartIsAnnounced, At
  <2>8. StopIsAnnounced'
    BY <1>1 DEF Inv, CallBegin, pool, StopIsAnnounced, At
  <2>9. WorkerKnowsItself'
    BY <1>1 DEF Inv, CallBegin, pool, WorkerKnowsItself
  <2>10. JoinsWhoStopped'
    BY <1>1 DEF Inv, CallBegin, pool, JoinsWhoStopped, At
  <2> QED
    BY <2>1, <2>2, <2>3, <2>4, <2>5, <2>6, <2>7, <2>8, <2>9, <2>10 DEF Inv
<1>2. ASSUME NEW c \in Callers, CallLock(c) PROVE Inv'
  <2>1. TypeOK'
    <3>1. n' \in [Callers -> 0..MaxThreads]
      BY <1>2, RemovableThreads DEF Inv, TypeOK, CallLock
    <3> QED
      BY <1>2, <3>1 DEF Inv, TypeOK, CallLock, Goto, pool, Places
  <2>2. FiniteList'
    BY <1>2 DEF Inv, CallLock, Goto, pool, FiniteList
  <2>3. EveryWorkerIsListed'
    BY <1>2 DEF Inv, CallLock, Goto, pool, EveryWorkerIsListed
  <2>4. KindAndPlace'
    BY <1>2 DEF Inv, CallLock, Goto, KindAndPlace
  <2>5. OwnerIsInside'
    BY <1>2, ThreadPoolAssumption
      DEF Inv, CallLock, Goto, OwnerIsInside, KindAndPlace, Inside, TypeOK
  <2>6. OneRequest'
    BY <1>2 DEF Inv, CallLock, Goto, pool, OneRequest, Leaving
  <2>7. StartIsAnnounced'
    BY <1>2 DEF Inv, CallLock, Goto, pool, StartIsAnnounced, At
  <2>8. StopIsAnnounced'
    BY <1>2 DEF Inv, CallLock, Goto, pool, StopIsAnnounced, At
  <2>9. WorkerKnowsItself'
    BY <1>2 DEF Inv, CallLock, Goto, pool, WorkerKnowsItself
  <2>10. JoinsWhoStopped'
    BY <1>2 DEF Inv, CallLock, Goto, pool, JoinsWhoStopped, At
  <2> QED
    BY <2>1, <2>2, <2>3, <2>4, <2>5, <2>6, <2>7, <2>8, <2>9, <2>10 DEF Inv
<1>3. ASSUME NEW c \in Callers, CallSpuriousWakeup(c) PROVE Inv'
  <2>1. TypeOK'
    BY <1>3 DEF Inv, CallSpuriousWakeup, Goto, pool, locks, TypeOK, Places
  <2>2. FiniteList'
    BY <1>3 DEF Inv, CallSpuriousWakeup, Goto, pool, FiniteList
  <2>3. EveryWorkerIsListed'
    BY <1>3 DEF Inv, CallSpuriousWakeup, Goto, pool, EveryWorkerIsListed
  <2>4. KindAndPlace'
    BY <1>3 DEF Inv, CallSpuriousWakeup, Goto, KindAndPlace
  <2>5. OwnerIsInside'
    BY <1>3 DEF Inv, CallSpuriousWakeup, Goto, locks, OwnerIsInside, Inside
  <2>6. OneRequest'
    BY <1>3 DEF Inv, CallSpuriousWakeup, Goto, pool, OneRequest, Leaving
  <2>7. StartIsAnnounced'
    BY <1>3 DEF Inv, CallSpuriousWakeup, Goto, StartIsAnnounced
  <2>8. StopIsAnnounced'
    BY <1>3 DEF Inv, CallSpuriousWakeup, Goto, StopIsAnnounced
  <2>9. WorkerKnowsItself'
    BY <1>3 DEF Inv, CallSpuriousWakeup, Goto, WorkerKnowsItself
  <2>10. JoinsWhoStopped'
    BY <1>3 DEF Inv, CallSpuriousWakeup, Goto, JoinsWhoStopped
  <2> QED
    BY <2>1, <2>2, <2>3, <2>4, <2>5, <2>6, <2>7, <2>8, <2>9, <2>10 DEF Inv
<1>4. ASSUME NEW c \in Callers, AddOne(c) PROVE Inv'
  <2>1. TypeOK'
    BY <1>4 DEF Inv, AddOne, Goto, Move, TypeOK, WorkerStates, Places
  <2>2. FiniteList'
    BY <1>4, FS_AddElement DEF Inv, FiniteList, AddOne
  <2>3. EveryWorkerIsListed'
    BY <1>4 DEF Inv, AddOne, Goto, Move, EveryWorkerIsListed, TypeOK
  <2>4. KindAndPlace'
    BY <1>4 DEF Inv, AddOne, At, Goto, Move, KindAndPlace
  <2>5. OwnerIsInside'
    BY <1>4, ThreadPoolAssumption
      DEF Inv, AddOne, At, Goto, Move, OwnerIsInside, KindAndPlace, Inside,
          TypeOK
  <2>6. OneRequest'
    BY <1>4 DEF Inv, AddOne, Goto, Move, OneRequest, Leaving
  <2>7. StartIsAnnounced'
    BY <1>4
      DEF Inv, AddOne, At, Goto, Move, StartIsAnnounced, TypeOK, OwnerIsInside,
          Inside
  <2>8. StopIsAnnounced'
    BY <1>4
      DEF Inv, AddOne, At, Goto, Move, StopIsAnnounced, OwnerIsInside, Inside
  <2>9. WorkerKnowsItself'
    BY <1>4 DEF Inv, AddOne, Goto, Move, WorkerKnowsItself
  <2>10. JoinsWhoStopped'
    BY <1>4
      DEF Inv, AddOne, At, Goto, Move, JoinsWhoStopped, OwnerIsInside, Inside
  <2> QED
    BY <2>1, <2>2, <2>3, <2>4, <2>5, <2>6, <2>7, <2>8, <2>9, <2>10 DEF Inv
<1>5. ASSUME NEW c \in Callers, AddThrows(c) PROVE Inv'
  <2>1. TypeOK'
    BY <1>5, ThreadPoolAssumption
      DEF Inv, AddThrows, Return, pool, TypeOK, Kinds, Places
  <2>2. FiniteList'
    BY <1>5 DEF Inv, AddThrows, pool, FiniteList
  <2>3. EveryWorkerIsListed'
    BY <1>5 DEF Inv, AddThrows, pool, EveryWorkerIsListed
  <2>4. KindAndPlace'
    BY <1>5 DEF Inv, AddThrows, At, Return, KindAndPlace
  <2>5. OwnerIsInside'
    BY <1>5, ThreadPoolAssumption
      DEF Inv, AddThrows, At, Return, OwnerIsInside, KindAndPlace, Inside,
          TypeOK
  <2>6. OneRequest'
    BY <1>5 DEF Inv, AddThrows, At, Return, pool, OneRequest, Leaving
  <2>7. StartIsAnnounced'
    BY <1>5 DEF Inv, AddThrows, At, Return, pool, StartIsAnnounced
  <2>8. StopIsAnnounced'
    BY <1>5 DEF Inv, AddThrows, At, Return, pool, StopIsAnnounced
  <2>9. WorkerKnowsItself'
    BY <1>5 DEF Inv, AddThrows, pool, WorkerKnowsItself
  <2>10. JoinsWhoStopped'
    BY <1>5 DEF Inv, AddThrows, At, Return, pool, JoinsWhoStopped
  <2> QED
    BY <2>1, <2>2, <2>3, <2>4, <2>5, <2>6, <2>7, <2>8, <2>9, <2>10 DEF Inv
<1>6. ASSUME NEW c \in Callers, AddWoken(c) PROVE Inv'
  <2>1. TypeOK'
    BY <1>6, ThreadPoolAssumption
      DEF Inv, AddWoken, At, Goto, pool, TypeOK, Places, KindAndPlace,
          OwnerIsInside, Inside
  <2>2. FiniteList'
    BY <1>6 DEF Inv, AddWoken, Goto, pool, FiniteList
  <2>3. EveryWorkerIsListed'
    BY <1>6 DEF Inv, AddWoken, Goto, pool, EveryWorkerIsListed
  <2>4. KindAndPlace'
    BY <1>6 DEF Inv, AddWoken, At, Goto, KindAndPlace, TypeOK
  <2>5. OwnerIsInside'
    BY <1>6 DEF Inv, AddWoken, At, Goto, OwnerIsInside, Inside, TypeOK
  <2>6. OneRequest'
    BY <1>6 DEF Inv, AddWoken, At, Goto, pool, OneRequest, Leaving
  <2>7. StartIsAnnounced'
    BY <1>6 DEF Inv, AddWoken, At, Goto, pool, StartIsAnnounced
  <2>8. StopIsAnnounced'
    BY <1>6 DEF Inv, AddWoken, At, Goto, pool, StopIsAnnounced
  <2>9. WorkerKnowsItself'
    BY <1>6 DEF Inv, AddWoken, Goto, pool, WorkerKnowsItself
  <2>10. JoinsWhoStopped'
    BY <1>6 DEF Inv, AddWoken, At, Goto, pool, JoinsWhoStopped
  <2> QED
    BY <2>1, <2>2, <2>3, <2>4, <2>5, <2>6, <2>7, <2>8, <2>9, <2>10 DEF Inv
<1>7. ASSUME NEW c \in Callers, AddReturn(c) PROVE Inv'
  <2>1. TypeOK'
    BY <1>7 DEF Inv, AddReturn, Return, pool, TypeOK, Kinds, Places
  <2>2. FiniteList'
    BY <1>7 DEF Inv, AddReturn, pool, FiniteList
  <2>3. EveryWorkerIsListed'
    BY <1>7 DEF Inv, AddReturn, pool, EveryWorkerIsListed
  <2>4. KindAndPlace'
    BY <1>7 DEF Inv, AddReturn, Return, KindAndPlace
  <2>5. OwnerIsInside'
    BY <1>7, ThreadPoolAssumption
      DEF Inv, AddReturn, At, Return, OwnerIsInside, KindAndPlace, Inside,
          TypeOK
  <2>6. OneRequest'
    BY <1>7 DEF Inv, AddReturn, At, Return, pool, OneRequest, Leaving
  <2>7. StartIsAnnounced'
    BY <1>7 DEF Inv, AddReturn, At, Return, pool, StartIsAnnounced
  <2>8. StopIsAnnounced'
    BY <1>7 DEF Inv, AddReturn, At, Return, pool, StopIsAnnounced
  <2>9. WorkerKnowsItself'
    BY <1>7 DEF Inv, AddReturn, pool, WorkerKnowsItself
  <2>10. JoinsWhoStopped'
    BY <1>7 DEF Inv, AddReturn, At, Return, pool, JoinsWhoStopped
  <2> QED
    BY <2>1, <2>2, <2>3, <2>4, <2>5, <2>6, <2>7, <2>8, <2>9, <2>10 DEF Inv
<1>8. ASSUME NEW c \in Callers, RemoveOne(c) PROVE Inv'
  <2>1. TypeOK'
    <3>1. eventSock' \in [val : Nat, ready : BOOLEAN, registered : BOOLEAN]
      <4>1. eventSock.val + 1 \in Nat /\ eventSock.registered \in BOOLEAN
        BY DEF Inv, TypeOK
      <4>2. eventSock' = [val |-> eventSock.val + 1, ready |-> eventSock.registered,
                          registered |-> eventSock.registered]
        BY <1>8 DEF Inv, TypeOK, RemoveOne
      <4> QED
        BY <4>1, <4>2
    <3>2. call' \in [Callers -> [kind : Kinds, place : Places]]
      BY <1>8 DEF Inv, TypeOK, RemoveOne, Goto, Places
    <3> QED
      BY <1>8, <3>1, <3>2 DEF Inv, TypeOK, RemoveOne, pool
  <2>2. FiniteList'
    BY <1>8 DEF Inv, RemoveOne, Goto, pool, FiniteList
  <2>3. EveryWorkerIsListed'
    BY <1>8 DEF Inv, RemoveOne, Goto, pool, EveryWorkerIsListed
  <2>4. KindAndPlace'
    BY <1>8 DEF Inv, RemoveOne, At, Goto, KindAndPlace
  <2>5. OwnerIsInside'
    BY <1>8, ThreadPoolAssumption
      DEF Inv, RemoveOne, At, Goto, pool, OwnerIsInside, KindAndPlace, Inside,
          TypeOK
  <2>6. OneRequest'
    BY <1>8
      DEF Inv, RemoveOne, At, Goto, pool, OneRequest, Leaving, TypeOK,
          OwnerIsInside, Inside
  <2>7. StartIsAnnounced'
    BY <1>8 DEF Inv, RemoveOne, At, Goto, pool, StartIsAnnounced, KindAndPlace
  <2>8. StopIsAnnounced'
    BY <1>8 DEF Inv, RemoveOne, At, Goto, pool, StopIsAnnounced
  <2>9. WorkerKnowsItself'
    BY <1>8 DEF Inv, RemoveOne, Goto, pool, WorkerKnowsItself
  <2>10. JoinsWhoStopped'
    BY <1>8 DEF Inv, RemoveOne, At, Goto, pool, JoinsWhoStopped
  <2> QED
    BY <2>1, <2>2, <2>3, <2>4, <2>5, <2>6, <2>7, <2>8, <2>9, <2>10 DEF Inv
<1>9. ASSUME NEW c \in Callers, RemoveWoken(c) PROVE Inv'
  <2>1. TypeOK'
    BY <1>9
      DEF Inv, RemoveWoken, At, Goto, pool, TypeOK, Places, OwnerIsInside,
          Inside
  <2>2. FiniteList'
    BY <1>9 DEF Inv, RemoveWoken, Goto, pool, FiniteList
  <2>3. EveryWorkerIsListed'
    BY <1>9 DEF Inv, RemoveWoken, Goto, pool, EveryWorkerIsListed
  <2>4. KindAndPlace'
    BY <1>9 DEF Inv, RemoveWoken, At, Goto, KindAndPlace
  <2>5. OwnerIsInside'
    BY <1>9 DEF Inv, RemoveWoken, At, Goto, OwnerIsInside, Inside, TypeOK
  <2>6. OneRequest'
    BY <1>9 DEF Inv, RemoveWoken, Goto, pool, OneRequest, Leaving
  <2>7. StartIsAnnounced'
    BY <1>9 DEF Inv, RemoveWoken, At, Goto, pool, StartIsAnnounced
  <2>8. StopIsAnnounced'
    BY <1>9 DEF Inv, RemoveWoken, At, Goto, pool, StopIsAnnounced
  <2>9. WorkerKnowsItself'
    BY <1>9 DEF Inv, RemoveWoken, Goto, pool, WorkerKnowsItself
  <2>10. JoinsWhoStopped'
    BY <1>9 DEF Inv, RemoveWoken, Goto, pool, JoinsWhoStopped
  <2> QED
    BY <2>1, <2>2, <2>3, <2>4, <2>5, <2>6, <2>7, <2>8, <2>9, <2>10 DEF Inv
<1>10. ASSUME NEW c \in Callers, RemoveJoin(c) PROVE Inv'
  <2>1. TypeOK'
    BY <1>10, ThreadPoolAssumption
      DEF Inv, RemoveJoin, At, Goto, Move, locks, TypeOK, WorkerStates, Places,
          KindAndPlace
  <2>2. FiniteList'
    BY <1>10, FS_RemoveElement DEF Inv, FiniteList, RemoveJoin
  <2>3. EveryWorkerIsListed'
    BY <1>10 DEF Inv, RemoveJoin, Goto, Move, EveryWorkerIsListed, TypeOK
  <2>4. KindAndPlace'
    BY <1>10 DEF Inv, RemoveJoin, At, Goto, Move, KindAndPlace, TypeOK
  <2>5. OwnerIsInside'
    BY <1>10 DEF Inv, RemoveJoin, At, Goto, Move, locks, OwnerIsInside, Inside
  <2>6. OneRequest'
    BY <1>10 DEF Inv, RemoveJoin, Goto, Move, OneRequest, Leaving, TypeOK
  <2>7. StartIsAnnounced'
    BY <1>10 DEF Inv, RemoveJoin, Goto, Move, StartIsAnnounced
  <2>8. StopIsAnnounced'
    BY <1>10 DEF Inv, RemoveJoin, Goto, Move, StopIsAnnounced, TypeOK
  <2>9. WorkerKnowsItself'
    BY <1>10 DEF Inv, RemoveJoin, Goto, Move, WorkerKnowsItself, TypeOK
  <2>10. JoinsWhoStopped'
    BY <1>10
      DEF Inv, RemoveJoin, At, Goto, Move, JoinsWhoStopped, TypeOK,
          OwnerIsInside, Inside
  <2> QED
    BY <2>1, <2>2, <2>3, <2>4, <2>5, <2>6, <2>7, <2>8, <2>9, <2>10 DEF Inv
<1>11. ASSUME NEW c \in Callers, RemoveReturn(c) PROVE Inv'
  <2>1. TypeOK'
    BY <1>11 DEF Inv, RemoveReturn, Return, pool, TypeOK, Kinds, Places
  <2>2. FiniteList'
    BY <1>11 DEF Inv, RemoveReturn, pool, FiniteList
  <2>3. EveryWorkerIsListed'
    BY <1>11 DEF Inv, RemoveReturn, pool, EveryWorkerIsListed
  <2>4. KindAndPlace'
    BY <1>11 DEF Inv, RemoveReturn, Return, KindAndPlace
  <2>5. OwnerIsInside'
    BY <1>11, ThreadPoolAssumption
      DEF Inv, RemoveReturn, At, Return, OwnerIsInside, KindAndPlace, Inside,
          TypeOK
  <2>6. OneRequest'
    BY <1>11 DEF Inv, RemoveReturn, At, Return, pool, OneRequest, Leaving
  <2>7. StartIsAnnounced'
    BY <1>11 DEF Inv, RemoveReturn, At, Return, pool, StartIsAnnounced
  <2>8. StopIsAnnounced'
    BY <1>11 DEF Inv, RemoveReturn, At, Return, pool, StopIsAnnounced
  <2>9. WorkerKnowsItself'
    BY <1>11 DEF Inv, RemoveReturn, pool, WorkerKnowsItself
  <2>10. JoinsWhoStopped'
    BY <1>11 DEF Inv, RemoveReturn, At, Return, pool, JoinsWhoStopped
  <2> QED
    BY <2>1, <2>2, <2>3, <2>4, <2>5, <2>6, <2>7, <2>8, <2>9, <2>10 DEF Inv
<1>12. ASSUME NEW w \in Workers, WorkerStart(w) PROVE Inv'
  <2>1. TypeOK'
    BY <1>12
      DEF Inv, WorkerStart, Move, Notify, locks, TypeOK, WorkerStates, Places
  <2>2. FiniteList'
    BY <1>12 DEF Inv, WorkerStart, Move, FiniteList
  <2>3. EveryWorkerIsListed'
    BY <1>12 DEF Inv, WorkerStart, Move, EveryWorkerIsListed
  <2>4. KindAndPlace'
    BY <1>12 DEF Inv, WorkerStart, Move, Notify, KindAndPlace
  <2>5. OwnerIsInside'
    BY <1>12 DEF Inv, WorkerStart, Move, Notify, locks, OwnerIsInside, Inside
  <2>6. OneRequest'
    BY <1>12 DEF Inv, WorkerStart, Move, Notify, OneRequest, Leaving
  <2>7. StartIsAnnounced'
    BY <1>12 DEF Inv, WorkerStart, Move, StartIsAnnounced, TypeOK
  <2>8. StopIsAnnounced'
    <3>1. ~spurious => \A v \in Workers : worker[v] \notin {"lastPass", "exited"}
      BY <1>12 DEF Inv, WorkerStart, Move, StartIsAnnounced, StopIsAnnounced
    <3> QED
      BY <1>12, <3>1 DEF Inv, WorkerStart, Move, StopIsAnnounced
  <2>9. WorkerKnowsItself'
    BY <1>12
      DEF Inv, WorkerStart, Move, WorkerKnowsItself, StartIsAnnounced, TypeOK
  <2>10. JoinsWhoStopped'
    <3>1. ~spurious => \E d \in Callers : At(d, "add", "wait")
      BY <1>12 DEF Inv, WorkerStart, Move, StartIsAnnounced
    <3>2. ~spurious => \A c \in Callers :
                         call[c].place \in Inside => call[c].kind = "add"
      BY <3>1, OneCallerInside DEF At, Inside
    <3>3. \A c \in Callers : /\ call'[c].kind = call[c].kind
                             /\ call'[c].place \in Inside => call[c].place \in Inside
      BY <1>12 DEF Inv, WorkerStart, Notify, Inside
    <3> QED
      BY <1>12, <3>2, <3>3 DEF JoinsWhoStopped, WorkerStart, At, Inside
  <2> QED
    BY <2>1, <2>2, <2>3, <2>4, <2>5, <2>6, <2>7, <2>8, <2>9, <2>10 DEF Inv
<1>13. ASSUME NEW w \in Workers, WorkerPoll(w) PROVE Inv'
  <2>1. TypeOK'
    BY <1>13 DEF Inv, WorkerPoll, Move, locks, TypeOK, WorkerStates
  <2>2. FiniteList'
    BY <1>13 DEF Inv, WorkerPoll, Move, FiniteList
  <2>3. EveryWorkerIsListed'
    BY <1>13 DEF Inv, WorkerPoll, Move, EveryWorkerIsListed
  <2>4. KindAndPlace'
    BY <1>13 DEF Inv, WorkerPoll, Move, KindAndPlace
  <2>5. OwnerIsInside'
    BY <1>13 DEF Inv, WorkerPoll, Move, locks, OwnerIsInside
  <2>6. OneRequest'
    BY <1>13 DEF Inv, WorkerPoll, Move, OneRequest, Leaving
  <2>7. StartIsAnnounced'
    BY <1>13 DEF Inv, WorkerPoll, Move, StartIsAnnounced, At
  <2>8. StopIsAnnounced'
    BY <1>13 DEF Inv, WorkerPoll, Move, StopIsAnnounced, At
  <2>9. WorkerKnowsItself'
    BY <1>13 DEF Inv, WorkerPoll, Move, WorkerKnowsItself
  <2>10. JoinsWhoStopped'
    BY <1>13 DEF Inv, WorkerPoll, Move, JoinsWhoStopped, At
  <2> QED
    BY <2>1, <2>2, <2>3, <2>4, <2>5, <2>6, <2>7, <2>8, <2>9, <2>10 DEF Inv
<1>14. ASSUME NEW w \in Workers, WorkerServe(w) PROVE Inv'
  <2>1. TypeOK'
    BY <1>14 DEF Inv, WorkerServe, Move, locks, TypeOK, WorkerStates
  <2>2. FiniteList'
    BY <1>14 DEF Inv, WorkerServe, Move, FiniteList
  <2>3. EveryWorkerIsListed'
    BY <1>14 DEF Inv, WorkerServe, Move, EveryWorkerIsListed
  <2>4. KindAndPlace'
    BY <1>14 DEF Inv, WorkerServe, Move, KindAndPlace
  <2>5. OwnerIsInside'
    BY <1>14 DEF Inv, WorkerServe, Move, locks, OwnerIsInside
  <2>6. OneRequest'
    BY <1>14 DEF Inv, WorkerServe, Move, OneRequest, Leaving
  <2>7. StartIsAnnounced'
    BY <1>14 DEF Inv, WorkerServe, Move, StartIsAnnounced, At
  <2>8. StopIsAnnounced'
    BY <1>14 DEF Inv, WorkerServe, Move, StopIsAnnounced, At
  <2>9. WorkerKnowsItself'
    BY <1>14 DEF Inv, WorkerServe, Move, WorkerKnowsItself
  <2>10. JoinsWhoStopped'
    BY <1>14 DEF Inv, WorkerServe, Move, JoinsWhoStopped, At
  <2> QED
    BY <2>1, <2>2, <2>3, <2>4, <2>5, <2>6, <2>7, <2>8, <2>9, <2>10 DEF Inv
<1>15. ASSUME NEW w \in Workers, WorkerServed(w) PROVE Inv'
  <2>1. TypeOK'
    BY <1>15 DEF Inv, WorkerServed, Move, locks, TypeOK, WorkerStates
  <2>2. FiniteList'
    BY <1>15 DEF Inv, WorkerServed, Move, FiniteList
  <2>3. EveryWorkerIsListed'
    BY <1>15 DEF Inv, WorkerServed, Move, EveryWorkerIsListed
  <2>4. KindAndPlace'
    BY <1>15 DEF Inv, WorkerServed, Move, KindAndPlace
  <2>5. OwnerIsInside'
    BY <1>15 DEF Inv, WorkerServed, Move, locks, OwnerIsInside
  <2>6. OneRequest'
    BY <1>15 DEF Inv, WorkerServed, Move, OneRequest, Leaving
  <2>7. StartIsAnnounced'
    BY <1>15 DEF Inv, WorkerServed, Move, StartIsAnnounced, At
  <2>8. StopIsAnnounced'
    BY <1>15 DEF Inv, WorkerServed, Move, StopIsAnnounced, At
  <2>9. WorkerKnowsItself'
    BY <1>15 DEF Inv, WorkerServed, Move, WorkerKnowsItself
  <2>10. JoinsWhoStopped'
    BY <1>15 DEF Inv, WorkerServed, Move, JoinsWhoStopped, At
  <2> QED
    BY <2>1, <2>2, <2>3, <2>4, <2>5, <2>6, <2>7, <2>8, <2>9, <2>10 DEF Inv
<1>16. ASSUME NEW w \in Workers, WorkerFetchesStop(w) PROVE Inv'
  <2>1. TypeOK'
    BY <1>16 DEF Inv, WorkerFetchesStop, Move, locks, TypeOK, WorkerStates
  <2>2. FiniteList'
    BY <1>16 DEF Inv, WorkerFetchesStop, Move, FiniteList
  <2>3. EveryWorkerIsListed'
    BY <1>16 DEF Inv, WorkerFetchesStop, Move, EveryWorkerIsListed
  <2>4. KindAndPlace'
    BY <1>16 DEF Inv, WorkerFetchesStop, Move, KindAndPlace
  <2>5. OwnerIsInside'
    BY <1>16 DEF Inv, WorkerFetchesStop, Move, locks, OwnerIsInside
  <2>6. OneRequest'
    BY <1>16 DEF Inv, WorkerFetchesStop, Move, OneRequest, Leaving
  <2>7. StartIsAnnounced'
    BY <1>16 DEF Inv, WorkerFetchesStop, Move, StartIsAnnounced, At
  <2>8. StopIsAnnounced'
    BY <1>16 DEF Inv, WorkerFetchesStop, Move, StopIsAnnounced, At
  <2>9. WorkerKnowsItself'
    BY <1>16 DEF Inv, WorkerFetchesStop, Move, WorkerKnowsItself
  <2>10. JoinsWhoStopped'
    BY <1>16 DEF Inv, WorkerFetchesStop, Move, JoinsWhoStopped, At
  <2> QED
    BY <2>1, <2>2, <2>3, <2>4, <2>5, <2>6, <2>7, <2>8, <2>9, <2>10 DEF Inv
<1>17. ASSUME NEW w \in Workers, WorkerStop(w) PROVE Inv'
  <2>1. TypeOK'
    BY <1>17
      DEF Inv, WorkerStop, Move, Notify, locks, TypeOK, WorkerStates, Places
  <2>2. FiniteList'
    BY <1>17 DEF Inv, WorkerStop, Move, FiniteList
  <2>3. EveryWorkerIsListed'
    BY <1>17 DEF Inv, WorkerStop, Move, EveryWorkerIsListed
  <2>4. KindAndPlace'
    BY <1>17 DEF Inv, WorkerStop, Move, Notify, KindAndPlace
  <2>5. OwnerIsInside'
    BY <1>17 DEF Inv, WorkerStop, Move, Notify, locks, OwnerIsInside, Inside
  <2>6. OneRequest'
    BY <1>17 DEF Inv, WorkerStop, Move, Notify, OneRequest, Leaving
  <2>7. StartIsAnnounced'
    <3>1. \E c \in Callers : /\ call[c].kind = "remove"
                            /\ call[c].place \in {"wait", "woken", "join"}
      BY <1>17 DEF Inv, OneRequest, Leaving, WorkerStop, Move
    <3>2. ~spurious => \A v \in Workers : worker[v] # "start"
      BY <3>1, OneCallerInside DEF Inv, StartIsAnnounced, At, Inside
    <3> QED
      BY <1>17, <3>2 DEF Inv, WorkerStop, Move, StartIsAnnounced
  <2>8. StopIsAnnounced'
    <3>1. \E c \in Callers : /\ call[c].kind = "remove"
                            /\ call[c].place \in {"wait", "woken", "join"}
      BY <1>17 DEF Inv, OneRequest, Leaving, WorkerStop, Move
    <3>2. PICK c \in Callers : /\ call[c].kind = "remove"
                             /\ call[c].place \in {"wait", "woken", "join"}
      BY <3>1
    <3>3. At(c, "remove", "woken")' \/ At(c, "remove", "join")'
      <4>1. call[c] = [kind |-> "remove", place |-> call[c].place]
        BY <3>2 DEF Inv, TypeOK
      <4>2. call'[c] = IF call[c].place = "wait"
                       THEN [call[c] EXCEPT !.place = "woken"] ELSE call[c]
        BY <1>17 DEF WorkerStop, Notify
      <4> QED
        BY <3>2, <4>1, <4>2 DEF At
    <3>4. \A v \in Workers : worker'[v] \in {"lastPass", "exited"} => v = w
      BY <1>17 DEF Inv, OneRequest, Leaving, WorkerStop, Move
    <3>5. ~spurious => communicationVariable' = w
      BY <1>17 DEF Inv, WorkerKnowsItself, WorkerStop, Move
    <3> QED
      BY <1>17, <3>3, <3>4, <3>5 DEF StopIsAnnounced, WorkerStop
  <2>9. WorkerKnowsItself'
    BY <1>17 DEF Inv, WorkerStop, Move, WorkerKnowsItself
  <2>10. JoinsWhoStopped'
    <3>1. ~spurious => communicationVariable' = w
      BY <1>17 DEF Inv, WorkerKnowsItself, WorkerStop, Move
    <3>2. w \in workerThreadList' /\ worker'[w] = "lastPass"
      BY <1>17 DEF Inv, TypeOK, EveryWorkerIsListed, WorkerStop, Move
    <3> QED
      BY <1>17, <3>1, <3>2 DEF JoinsWhoStopped, WorkerStop
  <2> QED
    BY <2>1, <2>2, <2>3, <2>4, <2>5, <2>6, <2>7, <2>8, <2>9, <2>10 DEF Inv
<1>18. ASSUME NEW w \in Workers, WorkerExit(w) PROVE Inv'
  <2>1. TypeOK'
    BY <1>18 DEF Inv, WorkerExit, Move, locks, TypeOK, WorkerStates
  <2>2. FiniteList'
    BY <1>18 DEF Inv, WorkerExit, Move, FiniteList
  <2>3. EveryWorkerIsListed'
    BY <1>18 DEF Inv, WorkerExit, Move, EveryWorkerIsListed
  <2>4. KindAndPlace'
    BY <1>18 DEF Inv, WorkerExit, Move, KindAndPlace
  <2>5. OwnerIsInside'
    BY <1>18 DEF Inv, WorkerExit, Move, locks, OwnerIsInside
  <2>6. OneRequest'
    BY <1>18 DEF Inv, WorkerExit, Move, OneRequest, Leaving
  <2>7. StartIsAnnounced'
    BY <1>18 DEF Inv, WorkerExit, Move, StartIsAnnounced, At
  <2>8. StopIsAnnounced'
    BY <1>18 DEF Inv, WorkerExit, Move, StopIsAnnounced, At
  <2>9. WorkerKnowsItself'
    BY <1>18 DEF Inv, WorkerExit, Move, WorkerKnowsItself
  <2>10. JoinsWhoStopped'
    BY <1>18 DEF Inv, WorkerExit, Move, JoinsWhoStopped, At
  <2> QED
    BY <2>1, <2>2, <2>3, <2>4, <2>5, <2>6, <2>7, <2>8, <2>9, <2>10 DEF Inv
<1>19. CASE UNCHANGED vars
  BY <1>19
    DEF vars, Inv, TypeOK, FiniteList, EveryWorkerIsListed, KindAndPlace,
        OwnerIsInside, OneRequest, StartIsAnnounced, StopIsAnnounced,
        WorkerKnowsItself, JoinsWhoStopped, Leaving, At
<1> QED
  BY <1>1, <1>2, <1>3, <1>4, <1>5, <1>6, <1>7, <1>8, <1>9, <1>10, <1>11, <1>12,
     <1>13, <1>14, <1>15, <1>16, <1>17, <1>18, <1>19
    DEF Next, CallStep, WorkerStep

(* The invariant holds in every state a behaviour of Spec reaches. *)
THEOREM InvariantHolds == Spec => []Inv
<1> QED
  BY InvInit, InvStep, PTL DEF Spec

(***************************************************************************)
(* The list and the workers agree on who is who, in every reachable state: *)
(* ThreadPoolFunction fetches its own iterator from communicationVariable, *)
(* and AddThreads and RemoveThreads keep one list entry per thread.        *)
(***************************************************************************)
THEOREM PoolAgrees == Spec => []WorkersAreKnown
<1>1. Inv => WorkersAreKnown
  BY DEF Inv, WorkersAreKnown
<1> QED
  BY <1>1, InvariantHolds, PTL

(***************************************************************************)
(* A worker leaves the pool only for a call of RemoveThreads that waits    *)
(* for it, and unless a wake-up was spurious that call joins the worker    *)
(* that left: the numbers of workers that leave and of requests under way  *)
(* never exceed the number of calls that asked.                            *)
(***************************************************************************)
THEOREM RemovalIsExact == Spec => []StopsOnlyOnRequest
<1> DEFINE Removing == {c \in Callers :
                          /\ call[c].kind = "remove"
                          /\ call[c].place \in {"wait", "woken", "join"}}
           Pending == IF eventSock.ready THEN 1 ELSE 0
<1>1. Inv => LeavesOnRequest
  <2> SUFFICES ASSUME Inv PROVE Cardinality(Leaving) + Pending <= Cardinality(Removing)
    BY DEF LeavesOnRequest, Leaving
  <2>1. \A c, d \in Removing : c = d
    BY OneCallerInside DEF Inside
  <2>2. /\ IsFiniteSet(Removing)
        /\ Cardinality(Removing) \in Nat
        /\ Removing # {} => Cardinality(Removing) = 1
    BY <2>1, AtMostOne
  <2>3. /\ Cardinality(Leaving) \in {0, 1}
        /\ Leaving = {} => Cardinality(Leaving) = 0
    BY AtMostOne DEF Inv, OneRequest
  <2>4. eventSock.ready \/ Leaving # {} => Removing # {}
    BY DEF Inv, OneRequest
  <2>5. eventSock.ready => Leaving = {}
    BY DEF Inv, OneRequest
  <2> QED
    BY <2>2, <2>3, <2>4, <2>5
<1>2. Inv => JoinsTheStopped
  BY DEF Inv, JoinsWhoStopped, JoinsTheStopped
<1> QED
  BY <1>1, <1>2, InvariantHolds, PTL DEF StopsOnlyOnRequest
=============================================================================
