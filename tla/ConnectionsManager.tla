------------------------- MODULE ConnectionsManager -------------------------
(***************************************************************************)
(* System/IO/Network/ConnectionsManager.cpp: worker threads fetch events   *)
(* from one epoll instance under epollMutex and run the clients' handlers  *)
(* outside it, while the timer thread removes the clients that were idle.  *)
(*                                                                         *)
(* A client c stands for the ClientInfo object and the EpollData object    *)
(* that owns it.  The EpollData exists exactly while c is in one of the    *)
(* two lists; the ClientInfo, and its socket, exist while the EpollData or *)
(* a worker's shared_ptr refers to it.  The lists are sets here: InfoLists *)
(* shows that the pointer code keeps them so.                              *)
(*                                                                         *)
(* `undefined' records that a deleted EpollData object was used.  What the *)
(* program does from then on is not defined, and the model stops.          *)
(***************************************************************************)
EXTENDS Naturals, Sequences, FiniteSets

CONSTANTS
  Clients,    \* the ClientInfo objects, one per connection
  Fds,        \* the file descriptors the process can still open
  Workers,    \* the threads of the pool
  MaxEvents,  \* MAXEVENTS
  Handshakes, \* is the listener an HttpsListener?
  Nascent,    \* the owner of a socket before a ClientInfo has it
  Lost,       \* and of one that nobody is left to close
  None        \* no client, no file descriptor

ASSUME ConnectionsAssumption ==
  /\ IsFiniteSet(Clients)
  /\ MaxEvents \in Nat \ {0}
  /\ Handshakes \in BOOLEAN
  /\ None \notin Clients \cup Fds \cup {Nascent, Lost}
  /\ Nascent # Lost /\ {Nascent, Lost} \cap Clients = {}

VARIABLES
  newInfos, oldInfos, \* the clients with and without activity since the check
  recent,    \* auxiliary: the clients with activity since the last check
  sockfd,    \* ClientInfo::fd, a copy that outlives the socket
  file,      \* the kernel's file table: owner, epoll registration, edges
  backlog,   \* connections nobody has accepted yet
  connected, \* bound: the connections made so far, at most one per client
  incoming,  \* the edge of the listening socket, not fetched yet
  pc,        \* where ThreadPoolFunction is, per worker
  events,    \* the events the worker fetched and has not looked at
  moving,    \* the client ToNew is called for
  infoData,  \* the clients whose handlers it is to call, in order
  accepting, \* does the worker have an event of the listener to handle?
  shaking,   \* the socket whose TLS handshake it is waiting for
  adding,    \* the client its accept loop hands to Add
  checking,  \* the timer thread is inside DeleteOldClients
  phase,     \* "up", in the destructor "stopping", after it "down"
  undefined  \* a deleted EpollData object was used

network == <<backlog, connected, incoming>>
worker == <<pc, events, moving, infoData, accepting, shaking, adding>>
lists == <<newInfos, oldInfos, recent>>
vars == <<lists, sockfd, file, network, worker, checking, phase, undefined>>

Listed == newInfos \cup oldInfos
EpollMutexFree == \A w \in Workers : pc[w] \notin {"dispatch", "toNew"}

(* Mutant of InfoListMutexFree: infoListMutex is not locked. *)
NoInfoListMutex == TRUE

InfoListMutexFree == ~checking

(***************************************************************************)
(* The file table.  A closed file has no owner and leaves epoll; epoll     *)
(* reports a file's edge once, as an error if the peer has hung up.        *)
(***************************************************************************)
Closed == [owner |-> None, epoll |-> None, edge |-> "none", hungUp |-> FALSE]
Free == {f \in Fds : file[f].owner = None}
Open(c) == sockfd[c] # None /\ file[sockfd[c]].owner = c
CloseAll(cs) ==
  [f \in Fds |-> IF file[f].owner \in cs THEN Closed ELSE file[f]]
EdgeOf(f) == IF file[f].hungUp THEN "err" ELSE "io"

(***************************************************************************)
(* The shared_ptrs to a client: of its EpollData, and of the workers.      *)
(***************************************************************************)
HeldBy(w) == {infoData[w][i] : i \in 1..Len(infoData[w])}
Held(ws) == UNION {HeldBy(w) : w \in ws}

Goto(w, from, to) == pc[w] = from /\ pc' = [pc EXCEPT ![w] = to]

-----------------------------------------------------------------------------
(* The network *)

Connect ==
  /\ connected < Cardinality(Clients)
  /\ connected' = connected + 1
  /\ backlog' = backlog + 1
  /\ incoming' = TRUE
  /\ UNCHANGED <<lists, sockfd, file, worker, checking, phase, undefined>>

(* Data arrives, or data sent makes room for more. *)
Traffic(f) ==
  /\ file[f].epoll # None
  /\ file[f].edge = "none"
  /\ file' = [file EXCEPT ![f].edge = EdgeOf(f)]
  /\ UNCHANGED <<lists, sockfd, network, worker, checking, phase, undefined>>

HangUp(f) ==
  /\ file[f].owner # None
  /\ ~file[f].hungUp
  /\ file' = [file EXCEPT ![f].hungUp = TRUE,
                          ![f].edge = IF file[f].epoll = None THEN "none"
                                                              ELSE "err"]
  /\ UNCHANGED <<lists, sockfd, network, worker, checking, phase, undefined>>

-----------------------------------------------------------------------------
(* ThreadPoolFunction: the critical section over epollMutex *)

Poll(w) ==
  /\ Goto(w, "loop", "dispatch")
  /\ EpollMutexFree
  /\ \E fs \in SUBSET {f \in Fds : file[f].edge # "none"},
        listener \in {FALSE, incoming} :
       /\ Cardinality(fs) + (IF listener THEN 1 ELSE 0) \in 1..MaxEvents
       /\ events' = [events EXCEPT ![w] =
                       {[client |-> file[f].epoll, kind |-> file[f].edge] :
                          f \in fs}]
       /\ file' = [f \in Fds |-> IF f \in fs
                                 THEN [file[f] EXCEPT !.edge = "none"]
                                 ELSE file[f]]
       /\ accepting' = [accepting EXCEPT ![w] = listener]
       /\ incoming' = (incoming /\ ~listener)
  /\ UNCHANGED <<lists, sockfd, backlog, connected, moving, infoData, shaking,
                 adding, checking, phase, undefined>>

(* The event's data pointer is dangling: the EpollData was deleted. *)
DispatchDangling(w) ==
  /\ pc[w] = "dispatch"
  /\ \E e \in events[w] : e.client \notin Listed
  /\ undefined' = TRUE
  /\ UNCHANGED <<lists, sockfd, file, network, worker, checking, phase>>

(***************************************************************************)
(* The worker takes a shared_ptr, then waits for infoListMutex in ToNew.   *)
(***************************************************************************)
DispatchIo(w) ==
  \E e \in events[w] :
    /\ Goto(w, "dispatch", "toNew")
    /\ e.kind = "io"
    /\ e.client \in Listed
    /\ events' = [events EXCEPT ![w] = @ \ {e}]
    /\ infoData' = [infoData EXCEPT ![w] = Append(@, e.client)]
    /\ moving' = [moving EXCEPT ![w] = e.client]
    /\ UNCHANGED <<lists, sockfd, file, network, accepting, shaking, adding,
                   checking, phase, undefined>>

(* Mutant of ToNew: the client is not taken out of oldInfos. *)
ToNewTwice(w) ==
  /\ Goto(w, "toNew", "dispatch")
  /\ InfoListMutexFree
  /\ undefined' = (moving[w] \notin Listed)
  /\ newInfos' = newInfos \cup {moving[w]}
  /\ recent' = recent \cup {moving[w]}
  /\ moving' = [moving EXCEPT ![w] = None]
  /\ UNCHANGED <<oldInfos, sockfd, file, network, events, infoData, accepting,
                 shaking, adding, checking, phase>>

ToNew(w) ==
  /\ Goto(w, "toNew", "dispatch")
  /\ InfoListMutexFree
  /\ \/ /\ moving[w] \in Listed
        /\ newInfos' = newInfos \cup {moving[w]}
        /\ oldInfos' = oldInfos \ {moving[w]}
        /\ recent' = recent \cup {moving[w]}
        /\ UNCHANGED undefined
     \/ /\ moving[w] \notin Listed
        /\ undefined' = TRUE
        /\ UNCHANGED lists
  /\ moving' = [moving EXCEPT ![w] = None]
  /\ UNCHANGED <<sockfd, file, network, events, infoData, accepting, shaking,
                 adding, checking, phase>>

(***************************************************************************)
(* delete d: the EpollData goes and its shared_ptr with it.                *)
(***************************************************************************)
Delete(c) ==
  /\ newInfos' = newInfos \ {c}
  /\ oldInfos' = oldInfos \ {c}
  /\ recent' = recent \ {c}

(***************************************************************************)
(* Remove, for an error or a hang-up.  events[i].data.fd is a part of the  *)
(* data pointer, no descriptor: EPOLL_CTL_DEL fails, and the file leaves   *)
(* epoll only if this was the last reference and it gets closed.           *)
(***************************************************************************)
DispatchError(w) ==
  \E e \in events[w] :
    /\ pc[w] = "dispatch"
    /\ e.kind = "err"
    /\ e.client \in Listed
    /\ InfoListMutexFree
    /\ events' = [events EXCEPT ![w] = @ \ {e}]
    /\ Delete(e.client)
    /\ file' = CloseAll({e.client} \ Held(Workers))
    /\ UNCHANGED <<sockfd, network, pc, moving, infoData, accepting, shaking,
                   adding, checking, phase, undefined>>

DispatchDone(w) ==
  /\ Goto(w, "dispatch", "handle")
  /\ events[w] = {}
  /\ UNCHANGED <<lists, sockfd, file, network, events, moving, infoData,
                 accepting, shaking, adding, checking, phase, undefined>>

-----------------------------------------------------------------------------
(* ThreadPoolFunction: handlers and the accept loop *)

(* The handler of the first client closes its socket. *)
HandlerCloses(w) ==
  /\ pc[w] = "handle"
  /\ infoData[w] # <<>>
  /\ Open(Head(infoData[w]))
  /\ file' = CloseAll({Head(infoData[w])})
  /\ UNCHANGED <<lists, sockfd, network, worker, checking, phase, undefined>>

(* Mutant of HandlerReturns: the shared_ptr is not reset. *)
HandlerReturnsHolding(w) ==
  /\ pc[w] = "handle"
  /\ infoData[w] # <<>>
  /\ infoData' = [infoData EXCEPT ![w] = Tail(@)]
  /\ UNCHANGED <<lists, sockfd, file, network, pc, events, moving, accepting,
                 shaking, adding, checking, phase, undefined>>

(***************************************************************************)
(* infoData[i].reset(): the last reference destroys the ClientInfo, which  *)
(* closes its socket.                                                      *)
(***************************************************************************)
HandlerReturns(w) ==
  /\ pc[w] = "handle"
  /\ infoData[w] # <<>>
  /\ infoData' = [infoData EXCEPT ![w] = Tail(@)]
  /\ file' = CloseAll({Head(infoData[w])} \ (Listed \cup Held(Workers \ {w})))
  /\ UNCHANGED <<lists, sockfd, network, pc, events, moving, accepting,
                 shaking, adding, checking, phase, undefined>>

Handled(w) ==
  /\ Goto(w, "handle", IF accepting[w] THEN "accept" ELSE "loop")
  /\ infoData[w] = <<>>
  /\ UNCHANGED <<lists, sockfd, file, network, events, moving, infoData,
                 accepting, shaking, adding, checking, phase, undefined>>

(* HttpListener::Accept returns the ClientInfo of a new connection. *)
Accept(w) ==
  /\ ~Handshakes
  /\ Goto(w, "accept", "add")
  /\ backlog > 0
  /\ backlog' = backlog - 1
  /\ \E f \in Free, c \in {d \in Clients : sockfd[d] = None} :
       /\ sockfd' = [sockfd EXCEPT ![c] = f]
       /\ file' = [file EXCEPT ![f] = [Closed EXCEPT !.owner = c]]
       /\ adding' = [adding EXCEPT ![w] = c]
  /\ UNCHANGED <<lists, connected, incoming, events, moving, infoData,
                 accepting, shaking, checking, phase, undefined>>

(***************************************************************************)
(* HttpsListener::Accept: the new socket blocks, and so does SSL_accept,   *)
(* until the peer has done its part of the handshake.                      *)
(***************************************************************************)
AcceptTls(w) ==
  /\ Handshakes
  /\ Goto(w, "accept", "handshake")
  /\ backlog > 0
  /\ backlog' = backlog - 1
  /\ \E f \in Free :
       /\ file' = [file EXCEPT ![f] = [Closed EXCEPT !.owner = Nascent]]
       /\ shaking' = [shaking EXCEPT ![w] = f]
  /\ UNCHANGED <<lists, sockfd, connected, incoming, events, moving, infoData,
                 accepting, adding, checking, phase, undefined>>

HandshakeSucceeds(w) ==
  /\ Goto(w, "handshake", "add")
  /\ \E c \in {d \in Clients : sockfd[d] = None} :
       /\ sockfd' = [sockfd EXCEPT ![c] = shaking[w]]
       /\ file' = [file EXCEPT ![shaking[w]].owner = c]
       /\ adding' = [adding EXCEPT ![w] = c]
  /\ shaking' = [shaking EXCEPT ![w] = None]
  /\ UNCHANGED <<lists, network, events, moving, infoData, accepting,
                 checking, phase, undefined>>

(***************************************************************************)
(* Accept returns 0, and the accept loop ends.  The new descriptor was in  *)
(* a local variable: it stays open, and nobody knows it any more.          *)
(***************************************************************************)
HandshakeFails(w) ==
  /\ Goto(w, "handshake", "loop")
  /\ file' = [file EXCEPT ![shaking[w]].owner = Lost]
  /\ shaking' = [shaking EXCEPT ![w] = None]
  /\ accepting' = [accepting EXCEPT ![w] = FALSE]
  /\ UNCHANGED <<lists, sockfd, network, events, moving, infoData, adding,
                 checking, phase, undefined>>

HandshakeAborted(w) ==
  shaking[w] # None /\ file[shaking[w]].hungUp /\ HandshakeFails(w)

(***************************************************************************)
(* accept fails when nobody waits and when the process has no descriptor   *)
(* left: the accept loop ends.                                             *)
(***************************************************************************)
AcceptFails(w) ==
  /\ Goto(w, "accept", "loop")
  /\ backlog = 0 \/ Free = {}
  /\ accepting' = [accepting EXCEPT ![w] = FALSE]
  /\ UNCHANGED <<lists, sockfd, file, network, events, moving, infoData,
                 shaking, adding, checking, phase, undefined>>

(* Mutant of AddClient: one Accept per event of the listener. *)
AddClientOnce(w) ==
  LET c == adding[w]  f == sockfd[c] IN
  /\ Goto(w, "add", "loop")
  /\ InfoListMutexFree
  /\ file' = [file EXCEPT ![f].epoll = c, ![f].edge = EdgeOf(f)]
  /\ newInfos' = newInfos \cup {c}
  /\ recent' = recent \cup {c}
  /\ adding' = [adding EXCEPT ![w] = None]
  /\ UNCHANGED <<oldInfos, sockfd, network, events, moving, infoData,
                 accepting, shaking, checking, phase, undefined>>

(***************************************************************************)
(* Add: the file enters epoll and the client newInfos; a new file can be   *)
(* written to, which is its first edge.                                    *)
(***************************************************************************)
AddClient(w) ==
  LET c == adding[w]  f == sockfd[c] IN
  /\ Goto(w, "add", "accept")
  /\ InfoListMutexFree
  /\ file' = [file EXCEPT ![f].epoll = c, ![f].edge = EdgeOf(f)]
  /\ newInfos' = newInfos \cup {c}
  /\ recent' = recent \cup {c}
  /\ adding' = [adding EXCEPT ![w] = None]
  /\ UNCHANGED <<oldInfos, sockfd, network, events, moving, infoData,
                 accepting, shaking, checking, phase, undefined>>

(* Mutant of AddFails: the EpollData is not deleted. *)
AddFailsQuietly(w) ==
  /\ Goto(w, "add", "accept")
  /\ InfoListMutexFree
  /\ adding' = [adding EXCEPT ![w] = None]
  /\ UNCHANGED <<lists, sockfd, file, network, events, moving, infoData,
                 accepting, shaking, checking, phase, undefined>>

(* EPOLL_CTL_ADD fails: the EpollData, and with it the client, is deleted. *)
AddFails(w) ==
  /\ Goto(w, "add", "accept")
  /\ InfoListMutexFree
  /\ file' = CloseAll({adding[w]})
  /\ adding' = [adding EXCEPT ![w] = None]
  /\ UNCHANGED <<lists, sockfd, network, events, moving, infoData, accepting,
                 shaking, checking, phase, undefined>>

-----------------------------------------------------------------------------
(* The timer thread: DeleteOldClients, holding infoListMutex throughout *)

CheckBegin ==
  /\ ~checking
  /\ checking' = TRUE
  /\ UNCHANGED <<lists, sockfd, file, network, worker, phase, undefined>>

(***************************************************************************)
(* RemoveInner(fd, d): the descriptor kept in the ClientInfo leaves epoll, *)
(* whatever file it denotes by now.                                        *)
(***************************************************************************)
CheckRemoves ==
  \E c \in oldInfos :
    /\ checking
    /\ Delete(c)
    /\ file' = [f \in Fds |->
                  IF file[f].owner \in {c} \ Held(Workers) THEN Closed
                  ELSE IF f = sockfd[c]
                  THEN [file[f] EXCEPT !.epoll = None, !.edge = "none"]
                  ELSE file[f]]
    /\ UNCHANGED <<sockfd, network, worker, checking, phase, undefined>>

(* Mutant of CheckEnd: infoListMutex is not released. *)
CheckEndLocked ==
  /\ checking
  /\ oldInfos = {}
  /\ oldInfos' = newInfos
  /\ newInfos' = {}
  /\ recent' = {}
  /\ UNCHANGED <<checking, sockfd, file, network, worker, phase, undefined>>

CheckEnd ==
  /\ checking
  /\ oldInfos = {}
  /\ oldInfos' = newInfos
  /\ newInfos' = {}
  /\ recent' = {}
  /\ checking' = FALSE
  /\ UNCHANGED <<sockfd, file, network, worker, phase, undefined>>

-----------------------------------------------------------------------------
(* The destructor *)

Stop ==
  /\ phase = "up"
  /\ phase' = "stopping"
  /\ UNCHANGED <<lists, sockfd, file, network, worker, checking, undefined>>

(* RemoveThreads, see ThreadPool: a worker ends between two passes. *)
WorkerExits(w) ==
  /\ Goto(w, "loop", "exited")
  /\ phase = "stopping"
  /\ EpollMutexFree
  /\ UNCHANGED <<lists, sockfd, file, network, events, moving, infoData,
                 accepting, shaking, adding, checking, phase, undefined>>

(* DeleteAllClients, once all workers are joined. *)
DeleteAllClients ==
  /\ phase = "stopping"
  /\ \A w \in Workers : pc[w] = "exited"
  /\ InfoListMutexFree
  /\ phase' = "down"
  /\ newInfos' = {} /\ oldInfos' = {} /\ recent' = {}
  /\ file' = CloseAll(Listed)
  /\ UNCHANGED <<sockfd, network, worker, checking, undefined>>

-----------------------------------------------------------------------------
Init ==
  /\ newInfos = {} /\ oldInfos = {} /\ recent = {}
  /\ sockfd = [c \in Clients |-> None]
  /\ file = [f \in Fds |-> Closed]
  /\ backlog = 0 /\ connected = 0 /\ incoming = FALSE
  /\ pc = [w \in Workers |-> "loop"]
  /\ events = [w \in Workers |-> {}]
  /\ moving = [w \in Workers |-> None]
  /\ infoData = [w \in Workers |-> <<>>]
  /\ accepting = [w \in Workers |-> FALSE]
  /\ shaking = [w \in Workers |-> None]
  /\ adding = [w \in Workers |-> None]
  /\ checking = FALSE
  /\ phase = "up"
  /\ undefined = FALSE

Environment == Connect \/ \E f \in Fds : Traffic(f) \/ HangUp(f)

WorkerStep(w) ==
  \/ Poll(w) \/ WorkerExits(w)
  \/ DispatchDangling(w) \/ DispatchIo(w) \/ ToNew(w) \/ DispatchError(w)
  \/ DispatchDone(w)
  \/ HandlerReturns(w) \/ Handled(w)
  \/ Accept(w) \/ AcceptTls(w) \/ AcceptFails(w)
  \/ AddClient(w) \/ AddFails(w)

CheckStep == CheckBegin \/ CheckRemoves \/ CheckEnd

Next ==
  /\ ~undefined
  /\ \/ Environment
     \/ \E w \in Workers : \/ WorkerStep(w) \/ HandlerCloses(w)
                           \/ HandshakeSucceeds(w) \/ HandshakeFails(w)
     \/ CheckStep
     \/ Stop \/ DeleteAllClients

Spec == Init /\ [][Next]_vars

(***************************************************************************)
(* The timer calls DeleteOldClients again and again (see Timer) and gets   *)
(* infoListMutex; the workers run and get their mutexes; handlers return.  *)
(* epoll's list of ready files is a queue, so neither the listener's event *)
(* nor the request to stop waits behind the clients' events for ever.  The *)
(* destructor gets infoListMutex, which the timer thread holds only now    *)
(* and then.  SSL_accept returns when the peer has hung up.  Nothing else  *)
(* is assumed of the network, and a handler need not close its socket.     *)
(***************************************************************************)
Fairness ==
  /\ WF_vars(~undefined /\ CheckStep)
  /\ \A w \in Workers : /\ SF_vars(~undefined /\ WorkerStep(w))
                        /\ SF_vars(~undefined /\ WorkerExits(w))
                        /\ WF_vars(~undefined /\ HandshakeAborted(w))
  /\ SF_vars(~undefined /\ \E w \in Workers : Poll(w) /\ accepting'[w])
  /\ SF_vars(~undefined /\ DeleteAllClients)

FairSpec == Spec /\ Fairness

-----------------------------------------------------------------------------
WorkerPlaces == {"loop", "dispatch", "toNew", "handle", "accept",
                 "handshake", "add", "exited"}
File == [owner : Clients \cup {Nascent, Lost, None}, epoll : Clients \cup {None},
         edge : {"none", "io", "err"}, hungUp : BOOLEAN]
Event == [client : Clients, kind : {"io", "err"}]

TypeOK ==
  /\ newInfos \subseteq Clients
  /\ oldInfos \subseteq Clients
  /\ recent \subseteq Clients
  /\ sockfd \in [Clients -> Fds \cup {None}]
  /\ file \in [Fds -> File]
  /\ backlog \in 0..Cardinality(Clients)
  /\ connected \in backlog..Cardinality(Clients)
  /\ incoming \in BOOLEAN
  /\ pc \in [Workers -> WorkerPlaces]
  /\ events \in [Workers -> SUBSET Event]
  /\ moving \in [Workers -> Clients \cup {None}]
  /\ infoData \in [Workers -> Seq(Clients)]
  /\ accepting \in [Workers -> BOOLEAN]
  /\ shaking \in [Workers -> Fds \cup {None}]
  /\ adding \in [Workers -> Clients \cup {None}]
  /\ checking \in BOOLEAN
  /\ phase \in {"up", "stopping", "down"}
  /\ undefined \in BOOLEAN

(***************************************************************************)
(* A client is in at most one of the lists, so RemoveInner and ToNew find  *)
(* it where its links say, and newInfos holds exactly those that were      *)
(* active since the last check, which the next one spares.  Types are kept.*)
(***************************************************************************)
ListsAgree == TypeOK /\ newInfos \cap oldInfos = {} /\ newInfos = recent

(***************************************************************************)
(* A client that owns an open file is in a list, or a worker still has to  *)
(* add it or to finish its handler.                                        *)
(***************************************************************************)
OpenIsListed ==
  \A f \in Fds : file[f].owner \in Clients
     => \/ file[f].owner \in Listed \cup Held(Workers)
        \/ \E w \in Workers : adding[w] = file[f].owner

(* A socket that has no client yet is in the hands of a worker. *)
NascentIsShaken ==
  \A f \in Fds : file[f].owner = Nascent => \E w \in Workers : shaking[w] = f

(***************************************************************************)
(* After the destructor no client is left, and no socket is open but those *)
(* whose handshake failed.                                                 *)
(***************************************************************************)
DownMeansClosed ==
  phase = "down" =>
    Listed = {} /\ \A f \in Fds : file[f].owner \in {None, Lost}

(***************************************************************************)
(* Only a failed handshake leaks a socket, be it while the server runs or  *)
(* when it has ended: any other belongs to a client that somebody holds,   *)
(* who will close it, or to a handshake that goes on.                      *)
(***************************************************************************)
NoLeakedSocket == OpenIsListed /\ NascentIsShaken /\ DownMeansClosed

(***************************************************************************)
(* The checks remove what was inactive, all of it, and nothing else.       *)
(***************************************************************************)
Table == INSTANCE IdleTable WITH present <- Listed, active <- recent

ImplementsIdleTable == Table!Spec

(***************************************************************************)
(* A connection whose peer has hung up is closed in the end, whatever      *)
(* became of its event.                                                    *)
(***************************************************************************)
HungUpIsClosed ==
  \A c \in Clients :
    (Open(c) /\ file[sockfd[c]].hungUp) ~> (~Open(c) \/ undefined)

(***************************************************************************)
(* A client whose handler has closed the socket, of which epoll reports    *)
(* nothing any more, is deleted nevertheless.                              *)
(***************************************************************************)
ClosedIsDeleted ==
  \A c \in Clients :
    (c \in Listed /\ ~Open(c)) ~> (c \notin Listed \/ undefined)

(* A dead connection is reclaimed: its socket, and then its object. *)
DeadIsReclaimed == HungUpIsClosed /\ ClosedIsDeleted

(***************************************************************************)
(* While descriptors last, the edge of the listener leads to an empty      *)
(* backlog: no connection that arrives during the accept loop is           *)
(* forgotten.  (HttpListener; see ConnectionIsAccepted.)                   *)
(***************************************************************************)
BacklogIsServed ==
  incoming ~> (backlog = 0 \/ Free = {} \/ phase # "up" \/ undefined)

(***************************************************************************)
(* The destructor returns, unless a worker waits for a handshake.          *)
(***************************************************************************)
StopEnds ==
  phase = "stopping"
    ~> (phase = "down" \/ undefined \/ \E w \in Workers : pc[w] = "handshake")

-----------------------------------------------------------------------------
(***************************************************************************)
(* "Ensure that only one thread can manipulate epoll data at once", says   *)
(* the comment on epollMutex.  Violated: the timer thread deletes          *)
(* EpollData objects without it, between epoll_wait and their use.         *)
(***************************************************************************)
EpollDataIsExclusive == ~undefined

(***************************************************************************)
(* "Remove socket from epoll and delete its EpollData object", says the    *)
(* comment on the error branch.  Violated: the socket stays registered,    *)
(* with the deleted object, while a handler of the client runs.            *)
(***************************************************************************)
RegisteredHasEpollData ==
  \A f \in Fds : file[f].epoll # None => file[f].epoll \in Listed

(***************************************************************************)
(* "Adds a new ClientInfo to wait for events on its socket", says          *)
(* ConnectionsManager.hpp of Add.  Violated: the removal of an older       *)
(* client takes the descriptor it once had, now another client's socket,   *)
(* out of epoll.                                                           *)
(***************************************************************************)
ListedIsWaitedFor ==
  \A c \in Listed : Open(c) => file[sockfd[c]].epoll = c

(***************************************************************************)
(* "Adds a new Listener to wait for new connections", says the header of   *)
(* Add.  Violated: the first Accept that returns 0 ends the accept loop,   *)
(* also for a failed handshake, and the edge that announced the other      *)
(* waiting connections is spent.                                           *)
(***************************************************************************)
ConnectionIsAccepted ==
  backlog > 0 ~> \/ backlog = 0 \/ phase # "up" \/ undefined
                 \/ \E w \in Workers : pc[w] = "handshake"

(***************************************************************************)
(* What holds with a plain listener does not hold with a HttpsListener:    *)
(* violated, a handshake that fails costs the process a descriptor.        *)
(***************************************************************************)
NothingIsLost == \A f \in Fds : file[f].owner # Lost

(***************************************************************************)
(* "stops all worker threads and cleans up everything in the               *)
(* ConnectionsManager", says the header of the destructor.  Violated: a    *)
(* worker that waits for a peer's handshake cannot be stopped, and the     *)
(* destructor waits for it without limit.                                  *)
(***************************************************************************)
DestructorReturns == phase = "stopping" ~> (phase = "down" \/ undefined)
=============================================================================
