---------------------- MODULE ConnectionsManagerProofs ----------------------
(***************************************************************************)
(* Proofs about ConnectionsManager for all sets of clients, descriptors    *)
(* and workers: the two lists agree, no socket leaks, and what happens to  *)
(* the lists is what IdleTable promises.                                   *)
(***************************************************************************)
EXTENDS ConnectionsManager, FiniteSetTheorems, SequenceTheorems, TLAPS

-----------------------------------------------------------------------------
(* The inductive invariant *)

(* epoll reports edges of the files that are registered with it. *)
EdgesAreRegistered ==
  \A f \in Fds : file[f].epoll = None => file[f].edge = "none"

(* A client gets a socket first and a list afterwards. *)
ListsMatch ==
  /\ newInfos \cap oldInfos = {}
  /\ newInfos = recent
  /\ \A c \in Listed : sockfd[c] # None

(* The client a worker has accepted is its own until it is in the list. *)
AddingIsNew ==
  /\ \A w \in Workers : adding[w] # None =>
       adding[w] \notin Listed /\ sockfd[adding[w]] # None
  /\ \A v, w \in Workers : adding[v] = adding[w] /\ adding[v] # None => v = w

(* What a worker has in hand where. *)
PlacesFit ==
  \A w \in Workers :
    /\ adding[w] # None <=> pc[w] = "add"
    /\ shaking[w] # None <=> pc[w] = "handshake"
    /\ pc[w] \in {"loop", "accept", "handshake", "add", "exited"} => infoData[w] = <<>>

(* Who refers to a client's socket: a list, a handler or the accept loop. *)
Known(c) == c \in Listed \/ \E w \in Workers : c \in HeldBy(w) \/ adding[w] = c

OwnersAreKnown == \A f \in Fds : file[f].owner \in Clients => Known(file[f].owner)

(* DeleteAllClients comes after the last worker, and leaves nothing. *)
DownIsQuiet ==
  phase = "down" =>
    /\ \A w \in Workers : pc[w] = "exited"
    /\ Listed = {}
    /\ \A f \in Fds : file[f].owner \notin Clients

Inv ==
  /\ TypeOK
  /\ EdgesAreRegistered
  /\ ListsMatch
  /\ AddingIsNew
  /\ PlacesFit
  /\ OwnersAreKnown
  /\ DownIsQuiet

-----------------------------------------------------------------------------
(* What the steps do to the file table and to the workers' references *)

LEMMA ClientsAreCounted == Cardinality(Clients) \in Nat
  BY ConnectionsAssumption, FS_CardinalityType

LEMMA ClosedIsFile ==
  /\ Closed \in File
  /\ Closed.owner = None /\ Closed.epoll = None /\ Closed.edge = "none"
  BY DEF Closed, File

LEMMA OwnedIsFile ==
  ASSUME NEW c \in Clients \cup {Nascent}
  PROVE  /\ [Closed EXCEPT !.owner = c] \in File
         /\ [Closed EXCEPT !.owner = c].owner = c
         /\ [Closed EXCEPT !.owner = c].edge = "none"
  BY DEF Closed, File

(* The members that epoll and the network change. *)
LEMMA SpentIsFile ==
  ASSUME NEW g \in File
  PROVE  /\ [g EXCEPT !.edge = "none"] \in File
         /\ [g EXCEPT !.edge = "none"].owner = g.owner
         /\ [g EXCEPT !.edge = "none"].edge = "none"
  BY DEF File

LEMMA GivenIsFile ==
  ASSUME NEW g \in File, NEW c \in Clients \cup {Lost}
  PROVE  /\ [g EXCEPT !.owner = c] \in File
         /\ [g EXCEPT !.owner = c].owner = c
         /\ [g EXCEPT !.owner = c].epoll = g.epoll
         /\ [g EXCEPT !.owner = c].edge = g.edge
  BY DEF File

(* The end of a handshake gives its socket to c, and does nothing else to it. *)
LEMMA ShakenFiles ==
  ASSUME Inv, NEW w \in Workers, pc[w] = "handshake", NEW c \in Clients \cup {Lost},
         file' = [file EXCEPT ![shaking[w]].owner = c]
  PROVE  /\ shaking[w] \in Fds
         /\ file' \in [Fds -> File]
         /\ EdgesAreRegistered'
         /\ file'[shaking[w]].owner = c
         /\ \A f \in Fds \ {shaking[w]} : file'[f] = file[f]
<1>1. shaking[w] \in Fds
  BY DEF Inv, TypeOK, PlacesFit
<1> DEFINE new == [file[shaking[w]] EXCEPT !.owner = c]
<1>2. file[shaking[w]] \in File /\ file \in [Fds -> File]
  BY <1>1 DEF Inv, TypeOK
<1>3. /\ new \in File /\ new.owner = c
      /\ new.epoll = file[shaking[w]].epoll /\ new.edge = file[shaking[w]].edge
  BY <1>2, GivenIsFile
<1>4. file' = [file EXCEPT ![shaking[w]] = new]
  BY <1>1, <1>2
<1> HIDE DEF new
<1> QED
  BY <1>1, <1>2, <1>3, <1>4 DEF Inv, EdgesAreRegistered

(* Descriptors are closed, and the other files are left alone. *)
LEMMA ClosingFiles ==
  ASSUME Inv, NEW cs, file' = CloseAll(cs)
  PROVE  /\ file' \in [Fds -> File]
         /\ EdgesAreRegistered'
         /\ \A f \in Fds : /\ file[f].owner \in cs => file'[f].owner = None
                           /\ file[f].owner \notin cs => file'[f] = file[f]
<1>1. \A f \in Fds : file'[f] = IF file[f].owner \in cs THEN Closed ELSE file[f]
  BY DEF CloseAll
<1>2. file' \in [Fds -> File]
  BY ClosedIsFile DEF Inv, TypeOK, CloseAll
<1> QED
  BY <1>1, <1>2, ClosedIsFile DEF Inv, EdgesAreRegistered

(* The client of the accept loop has a socket. *)
LEMMA AcceptedIsClient ==
  ASSUME Inv, NEW w \in Workers, pc[w] = "add"
  PROVE  adding[w] \in Clients /\ sockfd[adding[w]] \in Fds
  BY DEF Inv, TypeOK, PlacesFit, AddingIsNew

(* EPOLL_CTL_ADD *)
LEMMA AddedToEpoll ==
  ASSUME Inv, NEW c \in Clients, NEW f \in Fds,
         file' = [file EXCEPT ![f].epoll = c, ![f].edge = EdgeOf(f)]
  PROVE  /\ file' \in [Fds -> File]
         /\ file'[f].epoll = c
         /\ \A g \in Fds : /\ file'[g].owner = file[g].owner
                           /\ g # f => file'[g] = file[g]
<1> DEFINE new == [file[f] EXCEPT !.epoll = c, !.edge = EdgeOf(f)]
<1>1. EdgeOf(f) \in {"none", "io", "err"} /\ file[f] \in File
  BY DEF EdgeOf, Inv, TypeOK
<1>2. new \in File /\ new.owner = file[f].owner /\ new.epoll = c
  BY <1>1 DEF File
<1>3. file' = [file EXCEPT ![f] = new]
  BY DEF Inv, TypeOK
<1> HIDE DEF new
<1> QED
  BY <1>2, <1>3 DEF Inv, TypeOK

(* RemoveInner of a client that was idle *)
LEMMA CheckedFiles ==
  ASSUME Inv, CheckRemoves
  PROVE  /\ file' \in [Fds -> File]
         /\ EdgesAreRegistered'
         /\ \E c \in oldInfos :
              /\ Delete(c)
              /\ \A f \in Fds : file'[f].owner =
                   IF file[f].owner \in {c} \ Held(Workers) THEN None ELSE file[f].owner
<1>1. PICK c \in oldInfos :
        /\ Delete(c)
        /\ file' = [f \in Fds |->
                      IF file[f].owner \in {c} \ Held(Workers) THEN Closed
                      ELSE IF f = sockfd[c]
                      THEN [file[f] EXCEPT !.epoll = None, !.edge = "none"]
                      ELSE file[f]]
  BY DEF CheckRemoves
<1>2. ASSUME NEW f \in Fds
      PROVE  /\ file'[f] \in File
             /\ file'[f].epoll = None => file'[f].edge = "none"
             /\ file'[f].owner =
                  IF file[f].owner \in {c} \ Held(Workers) THEN None ELSE file[f].owner
  <2> DEFINE off == [file[f] EXCEPT !.epoll = None, !.edge = "none"]
             last == file[f].owner \in {c} \ Held(Workers)
  <2>1. file[f] \in File /\ (file[f].epoll = None => file[f].edge = "none")
    BY DEF Inv, TypeOK, EdgesAreRegistered
  <2>2. off \in File /\ off.owner = file[f].owner /\ off.edge = "none"
    BY <2>1 DEF File
  <2>3. file'[f] = IF last THEN Closed ELSE IF f = sockfd[c] THEN off ELSE file[f]
    BY <1>1
  <2> HIDE DEF off, last
  <2>4. /\ file'[f] \in File
        /\ file'[f].epoll = None => file'[f].edge = "none"
        /\ file'[f].owner = IF last THEN None ELSE file[f].owner
    BY <2>1, <2>2, <2>3, ClosedIsFile
  <2> QED
    BY <2>4 DEF last
<1>3. file' \in [Fds -> File]
  BY <1>1, <1>2
<1> QED
  BY <1>1, <1>2, <1>3 DEF EdgesAreRegistered

(* No owner is new, and whoever still owns a socket is still known. *)
LEMMA OwnersStayKnown ==
  ASSUME Inv, NEW gone,
         \A f \in Fds :
           \/ file'[f].owner = None
           \/ file'[f].owner = file[f].owner /\ file[f].owner \notin gone,
         \A c \in Clients \ gone : Known(c) => Known(c)'
  PROVE  OwnersAreKnown'
<1> SUFFICES ASSUME NEW f \in Fds, file'[f].owner \in Clients
             PROVE  Known(file[f].owner)'
  BY DEF OwnersAreKnown
<1>1. file'[f].owner = file[f].owner /\ file[f].owner \in Clients \ gone
  BY ConnectionsAssumption
<1>2. PICK c \in Clients \ gone : c = file'[f].owner /\ Known(c)
  BY <1>1 DEF Inv, OwnersAreKnown
<1>3. Known(c)'
  BY <1>2
<1> QED
  BY <1>2, <1>3 DEF Known

LEMMA NobodyIsForgotten ==
  ASSUME Inv,
         \A f \in Fds : file'[f].owner = file[f].owner,
         \A c \in Clients : Known(c) => Known(c)'
  PROVE  OwnersAreKnown'
<1> SUFFICES ASSUME NEW f \in Fds, file[f].owner \in Clients
             PROVE  Known(file[f].owner)'
  BY DEF OwnersAreKnown, Known
<1> PICK c \in Clients : c = file[f].owner
  OBVIOUS
<1>1. Known(c)'
  BY DEF Inv, OwnersAreKnown
<1> QED
  BY <1>1 DEF Known

(* The accept loop gives client c its socket. *)
LEMMA NewOwnerIsKnown ==
  ASSUME Inv, NEW w \in Workers, adding[w] = None, NEW c \in Clients,
         adding' = [adding EXCEPT ![w] = c],
         infoData' = infoData, UNCHANGED lists,
         \A f \in Fds : file'[f].owner \in {file[f].owner, c}
  PROVE  OwnersAreKnown'
<1>1. Known(c)'
  BY DEF Inv, TypeOK, Known
<1>2. ASSUME NEW d \in Clients, Known(d) PROVE Known(d)'
  <2>1. CASE \E v \in Workers : adding[v] = d
    BY <2>1, ConnectionsAssumption DEF Inv, TypeOK, Known
  <2> QED
    BY <1>2, <2>1 DEF Known, lists, Listed, HeldBy
<1>3. ASSUME NEW f \in Fds, NEW o \in Clients, o = file'[f].owner PROVE Known(o)'
  <2>1. CASE o = file[f].owner
    BY <1>2, <2>1 DEF Inv, OwnersAreKnown
  <2> QED
    BY <1>1, <1>3, <2>1
<1> QED
  BY <1>3 DEF OwnersAreKnown, Known

(* A step that moves no reference and gives no client a socket. *)
LEMMA OwnersUnmoved ==
  ASSUME Inv, newInfos' \cup oldInfos' = Listed, infoData' = infoData, adding' = adding,
         \A f \in Fds : file'[f].owner \in Clients => file'[f].owner = file[f].owner
  PROVE  OwnersAreKnown'
  BY DEF Inv, OwnersAreKnown, Known, Listed, HeldBy

(* A worker that does anything has not been joined by the destructor. *)
LEMMA WorkersKeepItUp ==
  ASSUME Inv, NEW w \in Workers, pc[w] # "exited", phase' = phase
  PROVE  DownIsQuiet'
  BY DEF Inv, DownIsQuiet

(* A shared_ptr more, and one less. *)
LEMMA TakingKeeps ==
  ASSUME Inv, NEW w \in Workers, NEW c \in Clients,
         infoData' = [infoData EXCEPT ![w] = Append(@, c)]
  PROVE  \A v \in Workers : HeldBy(v) \subseteq HeldBy(v)'
<1>1. infoData[w] \in Seq(Clients)
  BY DEF Inv, TypeOK
<1>2. /\ Len(Append(infoData[w], c)) = Len(infoData[w]) + 1
      /\ \A i \in 1..Len(infoData[w]) : Append(infoData[w], c)[i] = infoData[w][i]
      /\ Len(infoData[w]) \in Nat
  BY <1>1, AppendProperties, LenProperties
<1>3. HeldBy(w) \subseteq HeldBy(w)'
  <2>1. infoData'[w] = Append(infoData[w], c)
    BY DEF Inv, TypeOK
  <2> QED
    BY <1>2, <2>1 DEF HeldBy
<1>4. \A v \in Workers \ {w} : HeldBy(v)' = HeldBy(v)
  BY DEF Inv, TypeOK, HeldBy
<1> QED
  BY <1>3, <1>4

LEMMA ReleasingKeeps ==
  ASSUME Inv, NEW w \in Workers, infoData[w] # <<>>,
         infoData' = [infoData EXCEPT ![w] = Tail(@)]
  PROVE  HeldBy(w) \subseteq HeldBy(w)' \cup {Head(infoData[w])}
<1>1. infoData[w] \in Seq(Clients) /\ infoData'[w] = Tail(infoData[w])
  BY DEF Inv, TypeOK
<1> DEFINE s == infoData[w]
<1>2. /\ Len(s) \in Nat /\ Len(Tail(s)) = Len(s) - 1
      /\ Head(s) = s[1]
      /\ \A i \in 1..Len(Tail(s)) : Tail(s)[i] = s[i + 1]
  BY <1>1, HeadTailProperties, LenProperties
<1>3. ASSUME NEW i \in 1..Len(s) PROVE s[i] \in HeldBy(w)' \cup {Head(s)}
  <2>1. CASE i = 1
    BY <1>2, <2>1
  <2>2. CASE i # 1
    <3>1. i - 1 \in 1..Len(Tail(s)) /\ Tail(s)[i - 1] = s[i]
      BY <1>2, <2>2
    <3> QED
      BY <1>1, <3>1 DEF HeldBy
  <2> QED
    BY <2>1, <2>2
<1> QED
  BY <1>3 DEF HeldBy

(* Once the workers are gone, who owns a socket is in a list. *)
LEMMA EndIsClosed ==
  ASSUME Inv, \A w \in Workers : pc[w] = "exited"
  PROVE  \A f \in Fds : file[f].owner \in Clients => file[f].owner \in Listed
<1>1. \A w \in Workers : HeldBy(w) = {} /\ adding[w] = None
  BY EmptySeq DEF Inv, PlacesFit, HeldBy
<1> QED
  BY <1>1, ConnectionsAssumption DEF Inv, OwnersAreKnown, Known

LEMMA DeletingCloses ==
  ASSUME Inv, DeleteAllClients
  PROVE  \A f \in Fds : file'[f].owner \notin Clients
<1>1. \A f \in Fds : file[f].owner \in Clients => file[f].owner \in Listed
  BY EndIsClosed DEF DeleteAllClients
<1>2. \A f \in Fds : /\ file[f].owner \in Listed => file'[f].owner = None
                     /\ file[f].owner \notin Listed => file'[f] = file[f]
  BY ClosingFiles DEF DeleteAllClients
<1> QED
  BY <1>1, <1>2, ConnectionsAssumption

LEMMA InvInit == Init => Inv
<1> SUFFICES ASSUME Init PROVE Inv
  OBVIOUS
<1>1. TypeOK
  <2>1. infoData \in [Workers -> Seq(Clients)]
    BY EmptySeq DEF Init
  <2>2. file \in [Fds -> File]
    BY ClosedIsFile DEF Init
  <2>3. backlog \in 0..Cardinality(Clients) /\ connected \in backlog..Cardinality(Clients)
    BY ClientsAreCounted DEF Init
  <2>4. events \in [Workers -> SUBSET Event]
    BY DEF Init
  <2> QED
    BY <2>1, <2>2, <2>3, <2>4 DEF Init, TypeOK, WorkerPlaces
<1>2. EdgesAreRegistered
  BY DEF Init, EdgesAreRegistered, Closed
<1>3. ListsMatch /\ AddingIsNew /\ PlacesFit
  BY DEF Init, ListsMatch, AddingIsNew, PlacesFit, Listed
<1>4. OwnersAreKnown
  BY ConnectionsAssumption, ClosedIsFile DEF Init, OwnersAreKnown
<1>5. DownIsQuiet
  BY DEF Init, DownIsQuiet
<1> QED
  BY <1>1, <1>2, <1>3, <1>4, <1>5 DEF Inv

LEMMA InvStep == Inv /\ [Next]_vars => Inv'
<1> SUFFICES ASSUME Inv, [Next]_vars PROVE Inv'
  OBVIOUS
<1>1. CASE Connect
  <2>1. TypeOK'
    <3>1. backlog' \in 0..Cardinality(Clients) /\ connected' \in backlog'..Cardinality(Clients)
      BY <1>1, ClientsAreCounted DEF Inv, TypeOK, Connect
    <3> QED
      BY <1>1, <3>1 DEF Inv, TypeOK, Connect, lists, worker
  <2>2. EdgesAreRegistered'
    BY <1>1, ConnectionsAssumption DEF Inv, Connect, lists, network, worker,
       EdgesAreRegistered, TypeOK, File
  <2>3. ListsMatch'
    BY <1>1, ConnectionsAssumption DEF Inv, Connect, lists, network, worker,
       ListsMatch, AddingIsNew, PlacesFit, TypeOK, Listed
  <2>4. AddingIsNew'
    BY <1>1, ConnectionsAssumption DEF Inv, Connect, lists, network, worker,
       AddingIsNew, ListsMatch, PlacesFit, TypeOK, Listed
  <2>5. PlacesFit'
    BY <1>1, ConnectionsAssumption DEF Inv, Connect, lists, network, worker,
       PlacesFit, TypeOK
  <2>6. OwnersAreKnown'
    BY <1>1, OwnersUnmoved DEF Inv, TypeOK, Listed, Connect, lists, network, worker
  <2>7. DownIsQuiet'
    BY <1>1, ConnectionsAssumption DEF Inv, Connect, lists, network, worker,
       DownIsQuiet, Listed
  <2> QED
    BY <2>1, <2>2, <2>3, <2>4, <2>5, <2>6, <2>7 DEF Inv
<1>2. ASSUME NEW f \in Fds, Traffic(f) PROVE Inv'
  <2>1. TypeOK'
    <3>1. file' \in [Fds -> File]
      BY <1>2, ClosedIsFile DEF Inv, TypeOK, File, EdgeOf, Traffic, lists, network,
         worker, Closed, AddingIsNew, PlacesFit
    <3> QED
      BY <1>2, <3>1 DEF Inv, TypeOK, WorkerPlaces, Traffic, lists, network, worker
  <2>2. EdgesAreRegistered'
    BY <1>2, ConnectionsAssumption DEF Inv, Traffic, lists, network, worker,
       EdgesAreRegistered, TypeOK, File
  <2>3. ListsMatch'
    BY <1>2, ConnectionsAssumption DEF Inv, Traffic, lists, network, worker,
       ListsMatch, AddingIsNew, PlacesFit, TypeOK, Listed
  <2>4. AddingIsNew'
    BY <1>2, ConnectionsAssumption DEF Inv, Traffic, lists, network, worker,
       AddingIsNew, ListsMatch, PlacesFit, TypeOK, Listed
  <2>5. PlacesFit'
    BY <1>2, ConnectionsAssumption DEF Inv, Traffic, lists, network, worker,
       PlacesFit, TypeOK
  <2>6. OwnersAreKnown'
    BY <1>2, OwnersUnmoved DEF Inv, TypeOK, Listed, Traffic, lists, network, worker
  <2>7. DownIsQuiet'
    BY <1>2, ConnectionsAssumption DEF Inv, Traffic, lists, network, worker,
       DownIsQuiet, Listed
  <2> QED
    BY <2>1, <2>2, <2>3, <2>4, <2>5, <2>6, <2>7 DEF Inv
<1>3. ASSUME NEW f \in Fds, HangUp(f) PROVE Inv'
  <2>1. TypeOK'
    <3>1. file' \in [Fds -> File]
      BY <1>3, ClosedIsFile DEF Inv, TypeOK, File, EdgeOf, HangUp, lists, network,
         worker, Closed, AddingIsNew, PlacesFit
    <3> QED
      BY <1>3, <3>1 DEF Inv, TypeOK, WorkerPlaces, HangUp, lists, network, worker
  <2>2. EdgesAreRegistered'
    BY <1>3, ConnectionsAssumption DEF Inv, HangUp, lists, network, worker,
       EdgesAreRegistered, TypeOK, File
  <2>3. ListsMatch'
    BY <1>3, ConnectionsAssumption DEF Inv, HangUp, lists, network, worker,
       ListsMatch, AddingIsNew, PlacesFit, TypeOK, Listed
  <2>4. AddingIsNew'
    BY <1>3, ConnectionsAssumption DEF Inv, HangUp, lists, network, worker,
       AddingIsNew, ListsMatch, PlacesFit, TypeOK, Listed
  <2>5. PlacesFit'
    BY <1>3, ConnectionsAssumption DEF Inv, HangUp, lists, network, worker,
       PlacesFit, TypeOK
  <2>6. OwnersAreKnown'
    BY <1>3, OwnersUnmoved DEF Inv, TypeOK, Listed, HangUp, lists, network, worker
  <2>7. DownIsQuiet'
    <3>1. \A g \in Fds : file'[g].owner = file[g].owner
      BY <1>3 DEF Inv, TypeOK, HangUp
    <3> QED
      BY <1>3, <3>1 DEF Inv, DownIsQuiet, Listed, HangUp, lists, worker
  <2> QED
    BY <2>1, <2>2, <2>3, <2>4, <2>5, <2>6, <2>7 DEF Inv
<1>4. ASSUME NEW w \in Workers, Poll(w) PROVE Inv'
  <2>1. TypeOK'
    <3>1. PICK fs \in SUBSET Fds :
            file' = [f \in Fds |-> IF f \in fs THEN [file[f] EXCEPT !.edge = "none"]
                                             ELSE file[f]]
      BY <1>4 DEF Poll
    <3>2. ASSUME NEW f \in Fds PROVE file'[f] \in File
      <4>1. file[f] \in File
        BY DEF Inv, TypeOK
      <4>2. [file[f] EXCEPT !.edge = "none"] \in File
        BY <4>1, SpentIsFile
      <4> QED
        BY <3>1, <4>1, <4>2
    <3>3. file' \in [Fds -> File]
      BY <3>1, <3>2
    <3>4. events' \in [Workers -> SUBSET Event]
      BY <1>4 DEF Inv, TypeOK, File, Event, Poll, EdgesAreRegistered
    <3>5. accepting' \in [Workers -> BOOLEAN] /\ incoming' \in BOOLEAN
      <4>1. PICK listener \in {FALSE, incoming} :
              /\ accepting' = [accepting EXCEPT ![w] = listener]
              /\ incoming' = (incoming /\ ~listener)
        BY <1>4 DEF Poll
      <4>2. listener \in BOOLEAN /\ incoming' \in BOOLEAN
        BY <4>1 DEF Inv, TypeOK
      <4> QED
        BY <4>1, <4>2 DEF Inv, TypeOK
    <3>6. pc' \in [Workers -> WorkerPlaces]
      BY <1>4 DEF Inv, TypeOK, Poll, Goto, WorkerPlaces
    <3> QED
      BY <1>4, <3>3, <3>4, <3>5, <3>6 DEF Inv, TypeOK, Poll, lists
  <2>2. EdgesAreRegistered'
    BY <1>4, ConnectionsAssumption DEF Inv, Poll, Goto, lists, network, worker,
       EdgesAreRegistered, TypeOK, File
  <2>3. ListsMatch'
    BY <1>4, ConnectionsAssumption DEF Inv, Poll, Goto, lists, network, worker,
       ListsMatch, AddingIsNew, PlacesFit, TypeOK, Listed
  <2>4. AddingIsNew'
    BY <1>4, ConnectionsAssumption DEF Inv, Poll, Goto, lists, network, worker,
       AddingIsNew, ListsMatch, PlacesFit, TypeOK, Listed
  <2>5. PlacesFit'
    BY <1>4, ConnectionsAssumption DEF Inv, Poll, Goto, lists, network, worker,
       PlacesFit, TypeOK
  <2>6. OwnersAreKnown'
    BY <1>4, OwnersUnmoved DEF Inv, TypeOK, Listed, Poll, Goto, lists, network, worker
  <2>7. DownIsQuiet'
    BY <1>4, WorkersKeepItUp DEF Poll, Goto
  <2> QED
    BY <2>1, <2>2, <2>3, <2>4, <2>5, <2>6, <2>7 DEF Inv
<1>5. ASSUME NEW w \in Workers, WorkerExits(w) PROVE Inv'
  <2>1. TypeOK'
    BY <1>5, ConnectionsAssumption DEF Inv, WorkerExits, Goto, lists, network,
       worker, TypeOK, WorkerPlaces
  <2>2. EdgesAreRegistered'
    BY <1>5, ConnectionsAssumption DEF Inv, WorkerExits, Goto, lists, network,
       worker, EdgesAreRegistered, TypeOK, File
  <2>3. ListsMatch'
    BY <1>5, ConnectionsAssumption DEF Inv, WorkerExits, Goto, lists, network,
       worker, ListsMatch, AddingIsNew, PlacesFit, TypeOK, Listed
  <2>4. AddingIsNew'
    BY <1>5, ConnectionsAssumption DEF Inv, WorkerExits, Goto, lists, network,
       worker, AddingIsNew, ListsMatch, PlacesFit, TypeOK, Listed
  <2>5. PlacesFit'
    BY <1>5, ConnectionsAssumption DEF Inv, WorkerExits, Goto, lists, network,
       worker, PlacesFit, TypeOK
  <2>6. OwnersAreKnown'
    BY <1>5, OwnersUnmoved DEF Inv, TypeOK, Listed, WorkerExits, Goto, lists,
       network, worker
  <2>7. DownIsQuiet'
    BY <1>5, WorkersKeepItUp DEF WorkerExits, Goto
  <2> QED
    BY <2>1, <2>2, <2>3, <2>4, <2>5, <2>6, <2>7 DEF Inv
<1>6. ASSUME NEW w \in Workers, DispatchDangling(w) PROVE Inv'
  <2>1. TypeOK'
    BY <1>6, ConnectionsAssumption DEF Inv, DispatchDangling, lists, network,
       worker, TypeOK, WorkerPlaces
  <2>2. EdgesAreRegistered'
    BY <1>6, ConnectionsAssumption DEF Inv, DispatchDangling, lists, network,
       worker, EdgesAreRegistered, TypeOK, File
  <2>3. ListsMatch'
    BY <1>6, ConnectionsAssumption DEF Inv, DispatchDangling, lists, network,
       worker, ListsMatch, AddingIsNew, PlacesFit, TypeOK, Listed
  <2>4. AddingIsNew'
    BY <1>6, ConnectionsAssumption DEF Inv, DispatchDangling, lists, network,
       worker, AddingIsNew, ListsMatch, PlacesFit, TypeOK, Listed
  <2>5. PlacesFit'
    BY <1>6, ConnectionsAssumption DEF Inv, DispatchDangling, lists, network,
       worker, PlacesFit, TypeOK
  <2>6. OwnersAreKnown'
    BY <1>6, OwnersUnmoved DEF Inv, TypeOK, Listed, DispatchDangling, lists,
       network, worker
  <2>7. DownIsQuiet'
    BY <1>6, WorkersKeepItUp DEF DispatchDangling
  <2> QED
    BY <2>1, <2>2, <2>3, <2>4, <2>5, <2>6, <2>7 DEF Inv
<1>7. ASSUME NEW w \in Workers, DispatchIo(w) PROVE Inv'
  <2>1. TypeOK'
    <3>1. infoData' \in [Workers -> Seq(Clients)]
      BY <1>7, AppendProperties DEF Inv, TypeOK, Event, DispatchIo
    <3> QED
      BY <1>7, <3>1 DEF Inv, TypeOK, Event, DispatchIo, Goto, lists, network,
         WorkerPlaces
  <2>2. EdgesAreRegistered'
    BY <1>7, ConnectionsAssumption DEF Inv, DispatchIo, Goto, lists, network,
       worker, EdgesAreRegistered, TypeOK, File
  <2>3. ListsMatch'
    BY <1>7, ConnectionsAssumption DEF Inv, DispatchIo, Goto, lists, network,
       worker, ListsMatch, AddingIsNew, PlacesFit, TypeOK, Listed
  <2>4. AddingIsNew'
    BY <1>7, ConnectionsAssumption DEF Inv, DispatchIo, Goto, lists, network,
       worker, AddingIsNew, ListsMatch, PlacesFit, TypeOK, Listed
  <2>5. PlacesFit'
    BY <1>7, ConnectionsAssumption DEF Inv, DispatchIo, Goto, lists, network,
       worker, PlacesFit, TypeOK
  <2>6. OwnersAreKnown'
    <3>1. PICK e \in events[w] : infoData' = [infoData EXCEPT ![w] = Append(@, e.client)]
      BY <1>7 DEF DispatchIo
    <3>2. e.client \in Clients
      BY <3>1 DEF Inv, TypeOK, Event
    <3>3. \A v \in Workers : HeldBy(v) \subseteq HeldBy(v)'
      BY <3>1, <3>2, TakingKeeps
    <3>4. \A c \in Clients : Known(c) => Known(c)'
      BY <1>7, <3>3 DEF Known, Listed, DispatchIo, lists
    <3>5. \A f \in Fds : file'[f].owner = file[f].owner
      BY <1>7 DEF DispatchIo
    <3> QED
      BY <3>4, <3>5, NobodyIsForgotten
  <2>7. DownIsQuiet'
    BY <1>7, WorkersKeepItUp DEF DispatchIo, Goto
  <2> QED
    BY <2>1, <2>2, <2>3, <2>4, <2>5, <2>6, <2>7 DEF Inv
<1>8. ASSUME NEW w \in Workers, ToNew(w) PROVE Inv'
  <2>1. TypeOK'
    <3>1. newInfos' \subseteq Clients /\ oldInfos' \subseteq Clients /\ recent' \subseteq Clients
      BY <1>8 DEF Inv, TypeOK, ToNew, lists, Listed
    <3>2. moving' \in [Workers -> Clients \cup {None}] /\ undefined' \in BOOLEAN
      BY <1>8 DEF Inv, TypeOK, ToNew
    <3> QED
      BY <1>8, <3>1, <3>2 DEF Inv, TypeOK, ToNew, Goto, WorkerPlaces, network
  <2>2. EdgesAreRegistered'
    BY <1>8, ConnectionsAssumption DEF Inv, ToNew, Goto, lists, network, worker,
       EdgesAreRegistered, TypeOK, File
  <2>3. ListsMatch'
    BY <1>8, ConnectionsAssumption DEF Inv, ToNew, Goto, lists, network, worker,
       ListsMatch, AddingIsNew, PlacesFit, TypeOK, Listed
  <2>4. AddingIsNew'
    BY <1>8, ConnectionsAssumption DEF Inv, ToNew, Goto, lists, network, worker,
       AddingIsNew, ListsMatch, PlacesFit, TypeOK, Listed
  <2>5. PlacesFit'
    BY <1>8, ConnectionsAssumption DEF Inv, ToNew, Goto, lists, network, worker,
       PlacesFit, TypeOK
  <2>6. OwnersAreKnown'
    BY <1>8, OwnersUnmoved DEF Inv, TypeOK, Listed, ToNew, Goto, lists, network, worker
  <2>7. DownIsQuiet'
    BY <1>8, WorkersKeepItUp DEF ToNew, Goto
  <2> QED
    BY <2>1, <2>2, <2>3, <2>4, <2>5, <2>6, <2>7 DEF Inv
<1>9. ASSUME NEW w \in Workers, DispatchError(w) PROVE Inv'
  <2>1. TypeOK'
    <3>0. PICK e \in events[w] : /\ e.client \in Clients
                               /\ events' = [events EXCEPT ![w] = @ \ {e}]
                               /\ Delete(e.client)
                               /\ file' = CloseAll({e.client} \ Held(Workers))
      <4>1. events[w] \subseteq Event
        BY DEF Inv, TypeOK
      <4> QED
        BY <1>9, <4>1 DEF Event, DispatchError
    <3>1. file' \in [Fds -> File]
      BY <3>0, ClosingFiles
    <3> QED
      BY <1>9, <3>0, <3>1 DEF Inv, TypeOK, DispatchError, Delete, network
  <2>2. EdgesAreRegistered'
    BY <1>9, ClosingFiles DEF DispatchError
  <2>3. ListsMatch'
    BY <1>9, ConnectionsAssumption DEF Inv, DispatchError, Delete, lists, network,
       worker, ListsMatch, AddingIsNew, PlacesFit, TypeOK, Listed
  <2>4. AddingIsNew'
    BY <1>9, ConnectionsAssumption DEF Inv, DispatchError, Delete, lists, network,
       worker, AddingIsNew, ListsMatch, PlacesFit, TypeOK, Listed
  <2>5. PlacesFit'
    BY <1>9, ConnectionsAssumption DEF Inv, DispatchError, Delete, lists, network,
       worker, PlacesFit, TypeOK
  <2>6. OwnersAreKnown'
    <3>0. PICK e \in events[w] : /\ e.client \in Clients
                               /\ events' = [events EXCEPT ![w] = @ \ {e}]
                               /\ Delete(e.client)
                               /\ file' = CloseAll({e.client} \ Held(Workers))
      <4>1. events[w] \subseteq Event
        BY DEF Inv, TypeOK
      <4> QED
        BY <1>9, <4>1 DEF Event, DispatchError
    <3> DEFINE gone == {e.client} \ Held(Workers)
    <3>1. ASSUME NEW c \in Clients \ gone, Known(c) PROVE Known(c)'
      <4>1. CASE c \in Held(Workers)
        BY <1>9, <4>1 DEF Held, HeldBy, Known, DispatchError
      <4>2. CASE c # e.client
        BY <1>9, <3>0, <3>1, <4>2 DEF Known, Listed, HeldBy, DispatchError, Delete
      <4> QED
        BY <4>1, <4>2
    <3>2. \A f \in Fds :
            \/ file'[f].owner = None
            \/ file'[f].owner = file[f].owner /\ file[f].owner \notin gone
      BY <3>0, ClosingFiles
    <3> QED
      BY <3>1, <3>2, OwnersStayKnown
  <2>7. DownIsQuiet'
    BY <1>9, WorkersKeepItUp DEF DispatchError
  <2> QED
    BY <2>1, <2>2, <2>3, <2>4, <2>5, <2>6, <2>7 DEF Inv
<1>10. ASSUME NEW w \in Workers, DispatchDone(w) PROVE Inv'
  <2>1. TypeOK'
    BY <1>10, ConnectionsAssumption DEF Inv, DispatchDone, Goto, lists, network,
       worker, TypeOK, WorkerPlaces
  <2>2. EdgesAreRegistered'
    BY <1>10, ConnectionsAssumption DEF Inv, DispatchDone, Goto, lists, network,
       worker, EdgesAreRegistered, TypeOK, File
  <2>3. ListsMatch'
    BY <1>10, ConnectionsAssumption DEF Inv, DispatchDone, Goto, lists, network,
       worker, ListsMatch, AddingIsNew, PlacesFit, TypeOK, Listed
  <2>4. AddingIsNew'
    BY <1>10, ConnectionsAssumption DEF Inv, DispatchDone, Goto, lists, network,
       worker, AddingIsNew, ListsMatch, PlacesFit, TypeOK, Listed
  <2>5. PlacesFit'
    BY <1>10, ConnectionsAssumption DEF Inv, DispatchDone, Goto, lists, network,
       worker, PlacesFit, TypeOK
  <2>6. OwnersAreKnown'
    BY <1>10, OwnersUnmoved DEF Inv, TypeOK, Listed, DispatchDone, Goto, lists,
       network, worker
  <2>7. DownIsQuiet'
    BY <1>10, WorkersKeepItUp DEF DispatchDone, Goto
  <2> QED
    BY <2>1, <2>2, <2>3, <2>4, <2>5, <2>6, <2>7 DEF Inv
<1>11. ASSUME NEW w \in Workers, HandlerCloses(w) PROVE Inv'
  <2>1. TypeOK'
    BY <1>11, ClosingFiles DEF Inv, TypeOK, HandlerCloses, lists, network, worker,
       WorkerPlaces
  <2>2. EdgesAreRegistered'
    BY <1>11, ClosingFiles DEF HandlerCloses
  <2>3. ListsMatch'
    BY <1>11, ConnectionsAssumption DEF Inv, HandlerCloses, lists, network, worker,
       ListsMatch, AddingIsNew, PlacesFit, TypeOK, Listed
  <2>4. AddingIsNew'
    BY <1>11, ConnectionsAssumption DEF Inv, HandlerCloses, lists, network, worker,
       AddingIsNew, ListsMatch, PlacesFit, TypeOK, Listed
  <2>5. PlacesFit'
    BY <1>11, ConnectionsAssumption DEF Inv, HandlerCloses, lists, network, worker,
       PlacesFit, TypeOK
  <2>6. OwnersAreKnown'
    BY <1>11, ClosingFiles, ConnectionsAssumption, OwnersUnmoved DEF HandlerCloses,
       lists, Listed, worker
  <2>7. DownIsQuiet'
    BY <1>11, WorkersKeepItUp DEF HandlerCloses
  <2> QED
    BY <2>1, <2>2, <2>3, <2>4, <2>5, <2>6, <2>7 DEF Inv
<1>12. ASSUME NEW w \in Workers, HandlerReturns(w) PROVE Inv'
  <2>1. TypeOK'
    <3>1. infoData' \in [Workers -> Seq(Clients)]
      BY <1>12, HeadTailProperties DEF Inv, TypeOK, HandlerReturns
    <3>2. file' \in [Fds -> File]
      BY <1>12, ClosingFiles DEF HandlerReturns
    <3> QED
      BY <1>12, <3>1, <3>2 DEF Inv, TypeOK, HandlerReturns, lists, network
  <2>2. EdgesAreRegistered'
    BY <1>12, ClosingFiles DEF HandlerReturns
  <2>3. ListsMatch'
    BY <1>12, ConnectionsAssumption DEF Inv, HandlerReturns, lists, network, worker,
       ListsMatch, AddingIsNew, PlacesFit, TypeOK, Listed
  <2>4. AddingIsNew'
    BY <1>12, ConnectionsAssumption DEF Inv, HandlerReturns, lists, network, worker,
       AddingIsNew, ListsMatch, PlacesFit, TypeOK, Listed
  <2>5. PlacesFit'
    BY <1>12, ConnectionsAssumption DEF Inv, HandlerReturns, lists, network, worker,
       PlacesFit, TypeOK
  <2>6. OwnersAreKnown'
    <3> DEFINE head == Head(infoData[w])
               gone == {head} \ (Listed \cup Held(Workers \ {w}))
    <3>1. \A v \in Workers \ {w} : HeldBy(v)' = HeldBy(v)
      BY <1>12 DEF HandlerReturns, HeldBy
    <3>2. HeldBy(w) \subseteq HeldBy(w)' \cup {head}
      BY <1>12, ReleasingKeeps DEF HandlerReturns
    <3>3. ASSUME NEW c \in Clients \ gone, Known(c) PROVE Known(c)'
      <4>1. CASE c \in Listed \/ \E v \in Workers : adding[v] = c
        BY <1>12, <4>1 DEF HandlerReturns, lists, Known, Listed
      <4>2. CASE \E v \in Workers \ {w} : c \in HeldBy(v)
        BY <3>1, <4>2 DEF Known
      <4>3. CASE c \in HeldBy(w) /\ c \notin Listed /\ \A v \in Workers \ {w} : c \notin HeldBy(v)
        <5>1. c # head
          BY <4>3 DEF Held
        <5> QED
          BY <3>2, <4>3, <5>1 DEF Known
      <4> QED
        BY <3>3, <4>1, <4>2, <4>3 DEF Known
    <3>4. \A f \in Fds :
            \/ file'[f].owner = None
            \/ file'[f].owner = file[f].owner /\ file[f].owner \notin gone
      BY <1>12, ClosingFiles DEF HandlerReturns
    <3> QED
      BY <3>3, <3>4, OwnersStayKnown
  <2>7. DownIsQuiet'
    BY <1>12, WorkersKeepItUp DEF HandlerReturns
  <2> QED
    BY <2>1, <2>2, <2>3, <2>4, <2>5, <2>6, <2>7 DEF Inv
<1>13. ASSUME NEW w \in Workers, Handled(w) PROVE Inv'
  <2>1. TypeOK'
    BY <1>13, ConnectionsAssumption DEF Inv, Handled, Goto, lists, network, worker,
       TypeOK, WorkerPlaces
  <2>2. EdgesAreRegistered'
    BY <1>13, ConnectionsAssumption DEF Inv, Handled, Goto, lists, network, worker,
       EdgesAreRegistered, TypeOK, File
  <2>3. ListsMatch'
    BY <1>13, ConnectionsAssumption DEF Inv, Handled, Goto, lists, network, worker,
       ListsMatch, AddingIsNew, PlacesFit, TypeOK, Listed
  <2>4. AddingIsNew'
    BY <1>13, ConnectionsAssumption DEF Inv, Handled, Goto, lists, network, worker,
       AddingIsNew, ListsMatch, PlacesFit, TypeOK, Listed
  <2>5. PlacesFit'
    BY <1>13, ConnectionsAssumption DEF Inv, Handled, Goto, lists, network, worker,
       PlacesFit, TypeOK
  <2>6. OwnersAreKnown'
    BY <1>13, OwnersUnmoved DEF Inv, TypeOK, Listed, Handled, Goto, lists, network,
       worker
  <2>7. DownIsQuiet'
    BY <1>13, WorkersKeepItUp DEF Handled, Goto
  <2> QED
    BY <2>1, <2>2, <2>3, <2>4, <2>5, <2>6, <2>7 DEF Inv
<1>14. ASSUME NEW w \in Workers, Accept(w) PROVE Inv'
  <2>1. TypeOK'
    <3>1. file' \in [Fds -> File]
      <4>1. PICK f \in Fds, c \in Clients : file' = [file EXCEPT ![f] = [Closed EXCEPT !.owner = c]]
        BY <1>14 DEF Accept, Free
      <4>2. [Closed EXCEPT !.owner = c] \in File
        BY OwnedIsFile
      <4> QED
        BY <4>1, <4>2 DEF Inv, TypeOK
    <3>2. backlog' \in 0..Cardinality(Clients) /\ connected \in backlog'..Cardinality(Clients)
      BY <1>14, ClientsAreCounted DEF Inv, TypeOK, Accept
    <3> QED
      BY <1>14, <3>1, <3>2 DEF Inv, TypeOK, Accept, Free, Goto, WorkerPlaces, lists
  <2>2. EdgesAreRegistered'
    <3>1. PICK f \in Fds, c \in Clients : file' = [file EXCEPT ![f] = [Closed EXCEPT !.owner = c]]
      BY <1>14 DEF Accept, Free
    <3> QED
      BY <3>1, OwnedIsFile DEF Inv, TypeOK, EdgesAreRegistered
  <2>3. ListsMatch'
    BY <1>14, ConnectionsAssumption DEF Inv, Accept, Goto, lists, network, worker,
       ListsMatch, AddingIsNew, PlacesFit, TypeOK, Listed
  <2>4. AddingIsNew'
    <3>1. PICK c \in Clients : /\ sockfd[c] = None
                             /\ adding' = [adding EXCEPT ![w] = c]
                             /\ \E f \in Fds : sockfd' = [sockfd EXCEPT ![c] = f]
      BY <1>14 DEF Accept, Free
    <3> QED
      BY <1>14, <3>1, ConnectionsAssumption DEF Inv, TypeOK, AddingIsNew,
         ListsMatch, Listed, Accept, lists
  <2>5. PlacesFit'
    BY <1>14, ConnectionsAssumption DEF Inv, Accept, Goto, lists, network, worker,
       PlacesFit, TypeOK
  <2>6. OwnersAreKnown'
    <3>1. adding[w] = None
      BY <1>14 DEF Inv, PlacesFit, Accept, Goto
    <3>2. PICK f \in Fds, c \in Clients :
            /\ file' = [file EXCEPT ![f] = [Closed EXCEPT !.owner = c]]
            /\ adding' = [adding EXCEPT ![w] = c]
      BY <1>14 DEF Accept, Free
    <3>3. \A g \in Fds : file'[g].owner \in {file[g].owner, c}
      BY <3>2, OwnedIsFile DEF Inv, TypeOK
    <3> QED
      BY <1>14, <3>1, <3>2, <3>3, NewOwnerIsKnown DEF Accept
  <2>7. DownIsQuiet'
    BY <1>14, WorkersKeepItUp DEF Accept, Goto
  <2> QED
    BY <2>1, <2>2, <2>3, <2>4, <2>5, <2>6, <2>7 DEF Inv
<1>15. ASSUME NEW w \in Workers, AcceptTls(w) PROVE Inv'
  <2>1. TypeOK'
    <3>1. file' \in [Fds -> File]
      <4>1. PICK f \in Fds : file' = [file EXCEPT ![f] = [Closed EXCEPT !.owner = Nascent]]
        BY <1>15 DEF AcceptTls, Free
      <4>2. [Closed EXCEPT !.owner = Nascent] \in File
        BY OwnedIsFile
      <4> QED
        BY <4>1, <4>2 DEF Inv, TypeOK
    <3>2. backlog' \in 0..Cardinality(Clients) /\ connected \in backlog'..Cardinality(Clients)
      BY <1>15, ClientsAreCounted DEF Inv, TypeOK, AcceptTls
    <3> QED
      BY <1>15, <3>1, <3>2 DEF Inv, TypeOK, AcceptTls, Goto, Free, WorkerPlaces, lists
  <2>2. EdgesAreRegistered'
    <3>1. PICK f \in Fds : file' = [file EXCEPT ![f] = [Closed EXCEPT !.owner = Nascent]]
      BY <1>15 DEF AcceptTls, Free
    <3> QED
      BY <3>1, OwnedIsFile DEF Inv, TypeOK, EdgesAreRegistered
  <2>3. ListsMatch'
    BY <1>15, ConnectionsAssumption DEF Inv, AcceptTls, Goto, lists, network,
       worker, ListsMatch, AddingIsNew, PlacesFit, TypeOK, Listed
  <2>4. AddingIsNew'
    BY <1>15, ConnectionsAssumption DEF Inv, AcceptTls, Goto, lists, network,
       worker, AddingIsNew, ListsMatch, PlacesFit, TypeOK, Listed
  <2>5. PlacesFit'
    <3>1. \E f \in Fds : f # None /\ shaking' = [shaking EXCEPT ![w] = f]
      BY <1>15, ConnectionsAssumption DEF AcceptTls, Free
    <3> QED
      BY <1>15, <3>1 DEF Inv, TypeOK, PlacesFit, AcceptTls, Goto
  <2>6. OwnersAreKnown'
    <3>1. PICK f \in Fds : file' = [file EXCEPT ![f] = [Closed EXCEPT !.owner = Nascent]]
      BY <1>15 DEF AcceptTls, Free
    <3>2. \A g \in Fds : file'[g].owner \in Clients => file'[g].owner = file[g].owner
      BY <3>1, OwnedIsFile, ConnectionsAssumption DEF Inv, TypeOK
    <3> QED
      BY <1>15, <3>2, OwnersUnmoved DEF Listed, AcceptTls, lists
  <2>7. DownIsQuiet'
    BY <1>15, WorkersKeepItUp DEF AcceptTls, Goto
  <2> QED
    BY <2>1, <2>2, <2>3, <2>4, <2>5, <2>6, <2>7 DEF Inv
<1>16. ASSUME NEW w \in Workers, HandshakeSucceeds(w) PROVE Inv'
  <2>1. TypeOK'
    <3>1. file' \in [Fds -> File]
      <4>1. shaking[w] \in Fds /\ file[shaking[w]] \in File
        BY <1>16 DEF Inv, TypeOK, PlacesFit, HandshakeSucceeds, Goto
      <4>2. PICK c \in Clients : file' = [file EXCEPT ![shaking[w]].owner = c]
        BY <1>16 DEF HandshakeSucceeds
      <4>3. [file[shaking[w]] EXCEPT !.owner = c] \in File
        BY <4>1, GivenIsFile
      <4> QED
        BY <4>1, <4>2, <4>3 DEF Inv, TypeOK
    <3> QED
      BY <1>16, <3>1 DEF Inv, TypeOK, HandshakeSucceeds, Goto, WorkerPlaces, lists,
         network
  <2>2. EdgesAreRegistered'
    BY <1>16, ConnectionsAssumption DEF Inv, HandshakeSucceeds, Goto, lists,
       network, worker, EdgesAreRegistered, TypeOK, File
  <2>3. ListsMatch'
    BY <1>16, ConnectionsAssumption DEF Inv, HandshakeSucceeds, Goto, lists,
       network, worker, ListsMatch, AddingIsNew, PlacesFit, TypeOK, Listed
  <2>4. AddingIsNew'
    BY <1>16, ConnectionsAssumption DEF Inv, HandshakeSucceeds, Goto, lists,
       network, worker, AddingIsNew, ListsMatch, PlacesFit, TypeOK, Listed
  <2>5. PlacesFit'
    BY <1>16, ConnectionsAssumption DEF Inv, HandshakeSucceeds, Goto, lists,
       network, worker, PlacesFit, TypeOK
  <2>6. OwnersAreKnown'
    <3>1. adding[w] = None /\ shaking[w] \in Fds
      BY <1>16 DEF Inv, TypeOK, PlacesFit, HandshakeSucceeds, Goto
    <3>2. PICK c \in Clients : /\ file' = [file EXCEPT ![shaking[w]].owner = c]
                             /\ adding' = [adding EXCEPT ![w] = c]
      BY <1>16 DEF HandshakeSucceeds
    <3>3. \A g \in Fds : file'[g].owner \in {file[g].owner, c}
      <4>1. [file[shaking[w]] EXCEPT !.owner = c].owner = c
        BY <3>1, GivenIsFile DEF Inv, TypeOK
      <4> QED
        BY <3>1, <3>2, <4>1 DEF Inv, TypeOK
    <3> QED
      BY <1>16, <3>1, <3>2, <3>3, NewOwnerIsKnown DEF HandshakeSucceeds
  <2>7. DownIsQuiet'
    BY <1>16, WorkersKeepItUp DEF HandshakeSucceeds, Goto
  <2> QED
    BY <2>1, <2>2, <2>3, <2>4, <2>5, <2>6, <2>7 DEF Inv
<1>17. ASSUME NEW w \in Workers, HandshakeFails(w) PROVE Inv'
  <2>0. /\ shaking[w] \in Fds
        /\ file' \in [Fds -> File]
        /\ EdgesAreRegistered'
        /\ file'[shaking[w]].owner = Lost
        /\ \A f \in Fds \ {shaking[w]} : file'[f] = file[f]
    BY <1>17, ShakenFiles DEF HandshakeFails, Goto
  <2>1. TypeOK'
    BY <1>17, <2>0, ConnectionsAssumption DEF Inv, HandshakeFails, Goto, lists,
       network, TypeOK, WorkerPlaces
  <2>2. EdgesAreRegistered'
    BY <2>0
  <2>3. ListsMatch'
    BY <1>17, ConnectionsAssumption DEF Inv, HandshakeFails, Goto, lists, network,
       worker, ListsMatch, AddingIsNew, PlacesFit, TypeOK, Listed
  <2>4. AddingIsNew'
    BY <1>17, ConnectionsAssumption DEF Inv, HandshakeFails, Goto, lists, network,
       worker, AddingIsNew, ListsMatch, PlacesFit, TypeOK, Listed
  <2>5. PlacesFit'
    BY <1>17, ConnectionsAssumption DEF Inv, HandshakeFails, Goto, lists, network,
       worker, PlacesFit, TypeOK
  <2>6. OwnersAreKnown'
    <3>1. \A f \in Fds : file'[f].owner \in Clients => file'[f].owner = file[f].owner
      BY <2>0, ConnectionsAssumption
    <3> QED
      BY <1>17, <3>1, OwnersUnmoved DEF Listed, HandshakeFails, lists
  <2>7. DownIsQuiet'
    BY <1>17, WorkersKeepItUp DEF HandshakeFails, Goto
  <2> QED
    BY <2>1, <2>2, <2>3, <2>4, <2>5, <2>6, <2>7 DEF Inv
<1>18. ASSUME NEW w \in Workers, AcceptFails(w) PROVE Inv'
  <2>1. TypeOK'
    BY <1>18, ConnectionsAssumption DEF Inv, AcceptFails, Goto, lists, network,
       worker, TypeOK, WorkerPlaces
  <2>2. EdgesAreRegistered'
    BY <1>18, ConnectionsAssumption DEF Inv, AcceptFails, Goto, lists, network,
       worker, EdgesAreRegistered, TypeOK, File
  <2>3. ListsMatch'
    BY <1>18, ConnectionsAssumption DEF Inv, AcceptFails, Goto, lists, network,
       worker, ListsMatch, AddingIsNew, PlacesFit, TypeOK, Listed
  <2>4. AddingIsNew'
    BY <1>18, ConnectionsAssumption DEF Inv, AcceptFails, Goto, lists, network,
       worker, AddingIsNew, ListsMatch, PlacesFit, TypeOK, Listed
  <2>5. PlacesFit'
    BY <1>18, ConnectionsAssumption DEF Inv, AcceptFails, Goto, lists, network,
       worker, PlacesFit, TypeOK
  <2>6. OwnersAreKnown'
    BY <1>18, OwnersUnmoved DEF Inv, TypeOK, Listed, AcceptFails, Goto, lists,
       network, worker
  <2>7. DownIsQuiet'
    BY <1>18, WorkersKeepItUp DEF AcceptFails, Goto
  <2> QED
    BY <2>1, <2>2, <2>3, <2>4, <2>5, <2>6, <2>7 DEF Inv
<1>19. ASSUME NEW w \in Workers, AddClient(w) PROVE Inv'
  <2>1. TypeOK'
    <3>1. adding[w] \in Clients /\ sockfd[adding[w]] \in Fds
      BY <1>19, AcceptedIsClient DEF AddClient, Goto
    <3>2. file' \in [Fds -> File]
      BY <1>19, <3>1, AddedToEpoll DEF AddClient
    <3>3. newInfos' \subseteq Clients /\ recent' \subseteq Clients
      BY <1>19, <3>1 DEF Inv, TypeOK, AddClient
    <3> QED
      BY <1>19, <3>2, <3>3 DEF Inv, TypeOK, AddClient, Goto, WorkerPlaces, network
  <2>2. EdgesAreRegistered'
    <3>1. adding[w] \in Clients /\ sockfd[adding[w]] \in Fds
      BY <1>19, AcceptedIsClient DEF AddClient, Goto
    <3>2. /\ file'[sockfd[adding[w]]].epoll = adding[w]
          /\ \A g \in Fds \ {sockfd[adding[w]]} : file'[g] = file[g]
      BY <1>19, <3>1, AddedToEpoll DEF AddClient
    <3> QED
      BY <3>1, <3>2, ConnectionsAssumption DEF Inv, EdgesAreRegistered
  <2>3. ListsMatch'
    BY <1>19, ConnectionsAssumption DEF Inv, AddClient, Goto, lists, network,
       worker, ListsMatch, AddingIsNew, PlacesFit, TypeOK, Listed
  <2>4. AddingIsNew'
    BY <1>19, ConnectionsAssumption DEF Inv, AddClient, Goto, lists, network,
       worker, AddingIsNew, ListsMatch, PlacesFit, TypeOK, Listed
  <2>5. PlacesFit'
    BY <1>19, ConnectionsAssumption DEF Inv, AddClient, Goto, lists, network,
       worker, PlacesFit, TypeOK
  <2>6. OwnersAreKnown'
    <3>1. adding[w] \in Clients /\ sockfd[adding[w]] \in Fds
      BY <1>19, AcceptedIsClient DEF AddClient, Goto
    <3>2. \A c \in Clients : Known(c) => Known(c)'
      <4>1. ASSUME NEW c \in Clients, NEW v \in Workers, adding[v] = c PROVE Known(c)'
        <5>1. CASE v = w
          BY <1>19, <4>1, <5>1 DEF AddClient, Known, Listed
        <5>2. CASE v # w
          BY <1>19, <4>1, <5>2 DEF Inv, TypeOK, AddClient, Known
        <5> QED
          BY <5>1, <5>2
      <4> QED
        BY <1>19, <4>1 DEF AddClient, Known, Listed, HeldBy
    <3>3. \A f \in Fds : file'[f].owner = file[f].owner
      BY <1>19, <3>1, AddedToEpoll DEF AddClient
    <3> QED
      BY <3>2, <3>3, NobodyIsForgotten
  <2>7. DownIsQuiet'
    BY <1>19, WorkersKeepItUp DEF AddClient, Goto
  <2> QED
    BY <2>1, <2>2, <2>3, <2>4, <2>5, <2>6, <2>7 DEF Inv
<1>20. ASSUME NEW w \in Workers, AddFails(w) PROVE Inv'
  <2>1. TypeOK'
    BY <1>20, ClosingFiles DEF Inv, TypeOK, AddFails, Goto, lists, network, worker,
       WorkerPlaces
  <2>2. EdgesAreRegistered'
    BY <1>20, ClosingFiles DEF AddFails
  <2>3. ListsMatch'
    BY <1>20, ConnectionsAssumption DEF Inv, AddFails, Goto, lists, network, worker,
       ListsMatch, AddingIsNew, PlacesFit, TypeOK, Listed
  <2>4. AddingIsNew'
    BY <1>20, ConnectionsAssumption DEF Inv, AddFails, Goto, lists, network, worker,
       AddingIsNew, ListsMatch, PlacesFit, TypeOK, Listed
  <2>5. PlacesFit'
    BY <1>20, ConnectionsAssumption DEF Inv, AddFails, Goto, lists, network, worker,
       PlacesFit, TypeOK
  <2>6. OwnersAreKnown'
    <3>1. \A c \in Clients \ {adding[w]} : Known(c) => Known(c)'
      BY <1>20 DEF Inv, TypeOK, AddFails, lists, Known, Listed, HeldBy
    <3>2. \A f \in Fds :
            \/ file'[f].owner = None
            \/ file'[f].owner = file[f].owner /\ file[f].owner \notin {adding[w]}
      BY <1>20, ClosingFiles DEF AddFails
    <3> QED
      BY <3>1, <3>2, OwnersStayKnown
  <2>7. DownIsQuiet'
    BY <1>20, WorkersKeepItUp DEF AddFails, Goto
  <2> QED
    BY <2>1, <2>2, <2>3, <2>4, <2>5, <2>6, <2>7 DEF Inv
<1>21. CASE CheckBegin
  <2>1. TypeOK'
    BY <1>21, ConnectionsAssumption DEF Inv, CheckBegin, lists, network, worker,
       TypeOK, WorkerPlaces
  <2>2. EdgesAreRegistered'
    BY <1>21, ConnectionsAssumption DEF Inv, CheckBegin, lists, network, worker,
       EdgesAreRegistered, TypeOK, File
  <2>3. ListsMatch'
    BY <1>21, ConnectionsAssumption DEF Inv, CheckBegin, lists, network, worker,
       ListsMatch, AddingIsNew, PlacesFit, TypeOK, Listed
  <2>4. AddingIsNew'
    BY <1>21, ConnectionsAssumption DEF Inv, CheckBegin, lists, network, worker,
       AddingIsNew, ListsMatch, PlacesFit, TypeOK, Listed
  <2>5. PlacesFit'
    BY <1>21, ConnectionsAssumption DEF Inv, CheckBegin, lists, network, worker,
       PlacesFit, TypeOK
  <2>6. OwnersAreKnown'
    BY <1>21, OwnersUnmoved DEF Inv, TypeOK, Listed, CheckBegin, lists, network, worker
  <2>7. DownIsQuiet'
    BY <1>21, ConnectionsAssumption DEF Inv, CheckBegin, lists, network, worker,
       DownIsQuiet, Listed
  <2> QED
    BY <2>1, <2>2, <2>3, <2>4, <2>5, <2>6, <2>7 DEF Inv
<1>22. CASE CheckRemoves
  <2>1. TypeOK'
    <3>1. file' \in [Fds -> File]
      BY <1>22, CheckedFiles
    <3>2. newInfos' \subseteq newInfos /\ oldInfos' \subseteq oldInfos /\ recent' \subseteq recent
      BY <1>22, CheckedFiles DEF Delete
    <3>3. UNCHANGED <<sockfd, network, worker, checking, phase, undefined>>
      BY <1>22 DEF CheckRemoves
    <3> QED
      BY <3>1, <3>2, <3>3 DEF Inv, TypeOK, worker, network
  <2>2. EdgesAreRegistered'
    BY <1>22, CheckedFiles
  <2>3. ListsMatch'
    <3>1. \E c \in oldInfos : Delete(c)
      BY <1>22 DEF CheckRemoves
    <3>2. sockfd' = sockfd
      BY <1>22 DEF CheckRemoves
    <3> QED
      BY <3>1, <3>2 DEF Inv, ListsMatch, Listed, Delete
  <2>4. AddingIsNew'
    BY <1>22 DEF Inv, AddingIsNew, Listed, CheckRemoves, Delete, worker
  <2>5. PlacesFit'
    BY <1>22, ConnectionsAssumption DEF Inv, CheckRemoves, Delete, lists, network,
       worker, PlacesFit, TypeOK
  <2>6. OwnersAreKnown'
    <3>1. PICK c \in oldInfos :
            /\ Delete(c)
            /\ \A f \in Fds : file'[f].owner =
                 IF file[f].owner \in {c} \ Held(Workers) THEN None ELSE file[f].owner
      BY <1>22, CheckedFiles
    <3> DEFINE gone == {c} \ Held(Workers)
    <3>2. ASSUME NEW d \in Clients \ gone, Known(d) PROVE Known(d)'
      <4>0. infoData' = infoData /\ adding' = adding
        BY <1>22 DEF CheckRemoves, worker
      <4>1. CASE d \in Held(Workers)
        BY <4>0, <4>1 DEF Held, HeldBy, Known
      <4>2. CASE d # c
        BY <3>1, <3>2, <4>0, <4>2 DEF Known, Listed, HeldBy, Delete
      <4> QED
        BY <4>1, <4>2
    <3>3. \A f \in Fds :
            \/ file'[f].owner = None
            \/ file'[f].owner = file[f].owner /\ file[f].owner \notin gone
      BY <3>1, ConnectionsAssumption
    <3> QED
      BY <3>2, <3>3, OwnersStayKnown
  <2>7. DownIsQuiet'
    BY <1>22, ConnectionsAssumption DEF Inv, CheckRemoves, Delete, lists, network,
       worker, DownIsQuiet, Listed
  <2> QED
    BY <2>1, <2>2, <2>3, <2>4, <2>5, <2>6, <2>7 DEF Inv
<1>23. CASE CheckEnd
  <2>1. TypeOK'
    BY <1>23, ConnectionsAssumption DEF Inv, CheckEnd, lists, network, worker,
       TypeOK, WorkerPlaces
  <2>2. EdgesAreRegistered'
    BY <1>23, ConnectionsAssumption DEF Inv, CheckEnd, lists, network, worker,
       EdgesAreRegistered, TypeOK, File
  <2>3. ListsMatch'
    BY <1>23, ConnectionsAssumption DEF Inv, CheckEnd, lists, network, worker,
       ListsMatch, AddingIsNew, PlacesFit, TypeOK, Listed
  <2>4. AddingIsNew'
    BY <1>23, ConnectionsAssumption DEF Inv, CheckEnd, lists, network, worker,
       AddingIsNew, ListsMatch, PlacesFit, TypeOK, Listed
  <2>5. PlacesFit'
    BY <1>23, ConnectionsAssumption DEF Inv, CheckEnd, lists, network, worker,
       PlacesFit, TypeOK
  <2>6. OwnersAreKnown'
    BY <1>23, OwnersUnmoved DEF Inv, TypeOK, Listed, CheckEnd, lists, network, worker
  <2>7. DownIsQuiet'
    BY <1>23, ConnectionsAssumption DEF Inv, CheckEnd, lists, network, worker,
       DownIsQuiet, Listed
  <2> QED
    BY <2>1, <2>2, <2>3, <2>4, <2>5, <2>6, <2>7 DEF Inv
<1>24. CASE Stop
  <2>1. TypeOK'
    BY <1>24, ConnectionsAssumption DEF Inv, Stop, lists, network, worker, TypeOK,
       WorkerPlaces
  <2>2. EdgesAreRegistered'
    BY <1>24, ConnectionsAssumption DEF Inv, Stop, lists, network, worker,
       EdgesAreRegistered, TypeOK, File
  <2>3. ListsMatch'
    BY <1>24, ConnectionsAssumption DEF Inv, Stop, lists, network, worker,
       ListsMatch, AddingIsNew, PlacesFit, TypeOK, Listed
  <2>4. AddingIsNew'
    BY <1>24, ConnectionsAssumption DEF Inv, Stop, lists, network, worker,
       AddingIsNew, ListsMatch, PlacesFit, TypeOK, Listed
  <2>5. PlacesFit'
    BY <1>24, ConnectionsAssumption DEF Inv, Stop, lists, network, worker,
       PlacesFit, TypeOK
  <2>6. OwnersAreKnown'
    BY <1>24, OwnersUnmoved DEF Inv, TypeOK, Listed, Stop, lists, network, worker
  <2>7. DownIsQuiet'
    BY <1>24, ConnectionsAssumption DEF Inv, Stop, lists, network, worker,
       DownIsQuiet, Listed
  <2> QED
    BY <2>1, <2>2, <2>3, <2>4, <2>5, <2>6, <2>7 DEF Inv
<1>25. CASE DeleteAllClients
  <2>1. TypeOK'
    BY <1>25, ClosingFiles DEF Inv, TypeOK, DeleteAllClients, lists, network,
       worker, WorkerPlaces
  <2>2. EdgesAreRegistered'
    BY <1>25, ClosingFiles DEF DeleteAllClients
  <2>3. ListsMatch'
    BY <1>25, ConnectionsAssumption DEF Inv, DeleteAllClients, lists, network,
       worker, ListsMatch, AddingIsNew, PlacesFit, TypeOK, Listed
  <2>4. AddingIsNew'
    BY <1>25, ConnectionsAssumption DEF Inv, DeleteAllClients, lists, network,
       worker, AddingIsNew, ListsMatch, PlacesFit, TypeOK, Listed
  <2>5. PlacesFit'
    BY <1>25, ConnectionsAssumption DEF Inv, DeleteAllClients, lists, network,
       worker, PlacesFit, TypeOK
  <2>6. OwnersAreKnown'
    BY <1>25, DeletingCloses DEF OwnersAreKnown
  <2>7. DownIsQuiet'
    BY <1>25, DeletingCloses DEF DownIsQuiet, DeleteAllClients, Listed, worker
  <2> QED
    BY <2>1, <2>2, <2>3, <2>4, <2>5, <2>6, <2>7 DEF Inv
<1>26. CASE UNCHANGED vars
  <2>1. TypeOK' /\ EdgesAreRegistered' /\ ListsMatch' /\ AddingIsNew' /\ PlacesFit' /\ DownIsQuiet'
    BY <1>26 DEF Inv, vars, lists, network, worker, TypeOK, EdgesAreRegistered,
       ListsMatch, AddingIsNew, PlacesFit, DownIsQuiet, Listed
  <2>2. OwnersAreKnown'
    BY <1>26, OwnersUnmoved DEF vars, lists, network, worker, Listed
  <2> QED
    BY <2>1, <2>2 DEF Inv
<1> QED
  BY <1>1, <1>2, <1>3, <1>4, <1>5, <1>6, <1>7, <1>8, <1>9, <1>10, <1>11, <1>12,
     <1>13, <1>14, <1>15, <1>16, <1>17, <1>18, <1>19, <1>20, <1>21, <1>22, <1>23, <1>24,
     <1>25, <1>26
  DEF Next, Environment, WorkerStep, CheckStep

-----------------------------------------------------------------------------
(* The invariant holds. *)
THEOREM InvariantHolds == Spec => []Inv
  BY InvInit, InvStep, PTL DEF Spec

(***************************************************************************)
(* ToNew, Add, RemoveInner and the two threads that run them keep every    *)
(* client in at most one of the lists, and newInfos to those that were     *)
(* active since the last check, however they interleave.                   *)
(***************************************************************************)
THEOREM ListsStayConsistent == Spec => []ListsAgree
<1>1. Inv => ListsAgree
  BY DEF Inv, ListsMatch, ListsAgree
<1> QED
  BY <1>1, InvariantHolds, PTL

(* A step that starts and ends no handshake. *)
LEMMA ShakingUnmoved ==
  ASSUME NascentIsShaken, shaking' = shaking,
         \A f \in Fds : file'[f].owner = Nascent => file[f].owner = Nascent
  PROVE  NascentIsShaken'
  BY DEF NascentIsShaken

(* Who closes files makes none of them nascent. *)
LEMMA ClosingIsUnmoved ==
  ASSUME Inv, NascentIsShaken, shaking' = shaking, NEW cs, file' = CloseAll(cs)
  PROVE  NascentIsShaken'
<1>1. \A f \in Fds : file'[f].owner = Nascent => file[f].owner = Nascent
  BY ClosingFiles, ConnectionsAssumption
<1> QED
  BY <1>1, ShakingUnmoved

(* The end of a handshake leaves the sockets of the others. *)
LEMMA ShakenIsGiven ==
  ASSUME Inv, NascentIsShaken, NEW w \in Workers, pc[w] = "handshake",
         NEW c \in Clients \cup {Lost},
         file' = [file EXCEPT ![shaking[w]].owner = c],
         shaking' = [shaking EXCEPT ![w] = None]
  PROVE  NascentIsShaken'
<1> SUFFICES ASSUME NEW f \in Fds, file'[f].owner = Nascent
             PROVE  \E v \in Workers : shaking'[v] = f
  BY DEF NascentIsShaken
<1>1. f # shaking[w] /\ file[f].owner = Nascent
  BY ShakenFiles, ConnectionsAssumption
<1>2. PICK v \in Workers : shaking[v] = f
  BY <1>1 DEF NascentIsShaken
<1> QED
  BY <1>1, <1>2 DEF Inv, TypeOK

LEMMA ShakingInit == Init => NascentIsShaken
  BY ConnectionsAssumption, ClosedIsFile DEF Init, NascentIsShaken

LEMMA ShakingStep == Inv /\ NascentIsShaken /\ [Next]_vars => NascentIsShaken'
<1> SUFFICES ASSUME Inv, NascentIsShaken, [Next]_vars PROVE NascentIsShaken'
  OBVIOUS
<1>1. CASE Connect \/ CheckBegin \/ CheckEnd \/ Stop \/ UNCHANGED vars
  BY <1>1, ShakingUnmoved DEF Connect, CheckBegin, CheckEnd, Stop, vars, worker
<1>2. ASSUME NEW f \in Fds, Traffic(f) \/ HangUp(f) PROVE NascentIsShaken'
  <2>1. ASSUME NEW g \in Fds PROVE file'[g].owner = file[g].owner
    <3>1. file \in [Fds -> File]
      BY DEF Inv, TypeOK
    <3>2. CASE Traffic(f)
      BY <3>1, <3>2 DEF Traffic, File
    <3>3. CASE HangUp(f)
      BY <3>1, <3>3 DEF HangUp, File
    <3> QED
      BY <1>2, <3>2, <3>3
  <2> QED
    BY <1>2, <2>1, ShakingUnmoved DEF Traffic, HangUp, worker
<1>3. ASSUME NEW w \in Workers, Poll(w) PROVE NascentIsShaken'
  <2>1. PICK fs \in SUBSET Fds :
          file' = [f \in Fds |-> IF f \in fs THEN [file[f] EXCEPT !.edge = "none"]
                                           ELSE file[f]]
    BY <1>3 DEF Poll
  <2>2. \A f \in Fds : file'[f].owner = file[f].owner
    BY <2>1, SpentIsFile DEF Inv, TypeOK
  <2> QED
    BY <1>3, <2>2, ShakingUnmoved DEF Poll
<1>4. ASSUME NEW w \in Workers,
             \/ WorkerExits(w) \/ DispatchDangling(w) \/ DispatchIo(w) \/ ToNew(w)
             \/ DispatchDone(w) \/ Handled(w) \/ AcceptFails(w)
      PROVE  NascentIsShaken'
  BY <1>4, ShakingUnmoved DEF WorkerExits, DispatchDangling, DispatchIo, ToNew,
     DispatchDone, Handled, AcceptFails, worker
<1>5. ASSUME NEW w \in Workers, DispatchError(w) \/ HandlerReturns(w)
      PROVE  NascentIsShaken'
  BY <1>5, ClosingIsUnmoved DEF DispatchError, HandlerReturns
<1>6. ASSUME NEW w \in Workers, HandlerCloses(w) \/ AddFails(w)
      PROVE  NascentIsShaken'
  BY <1>6, ClosingIsUnmoved DEF HandlerCloses, AddFails, worker
<1>7. ASSUME NEW w \in Workers, Accept(w) PROVE NascentIsShaken'
  <2>1. PICK f \in Fds, c \in Clients : file' = [file EXCEPT ![f] = [Closed EXCEPT !.owner = c]]
    BY <1>7 DEF Accept, Free
  <2>2. \A g \in Fds : file'[g].owner = Nascent => file[g].owner = Nascent
    BY <2>1, OwnedIsFile, ConnectionsAssumption DEF Inv, TypeOK
  <2> QED
    BY <1>7, <2>2, ShakingUnmoved DEF Accept
<1>8. ASSUME NEW w \in Workers, AcceptTls(w) PROVE NascentIsShaken'
  <2>1. PICK f \in Fds : /\ file' = [file EXCEPT ![f] = [Closed EXCEPT !.owner = Nascent]]
                         /\ shaking' = [shaking EXCEPT ![w] = f]
    BY <1>8 DEF AcceptTls, Free
  <2>2. shaking[w] = None
    BY <1>8 DEF Inv, PlacesFit, AcceptTls, Goto
  <2>3. ASSUME NEW g \in Fds, file'[g].owner = Nascent
        PROVE  \E v \in Workers : shaking'[v] = g
    <3>1. CASE g = f
      BY <2>1, <3>1 DEF Inv, TypeOK
    <3>2. CASE g # f
      <4>1. file[g].owner = Nascent
        BY <2>1, <2>3, <3>2 DEF Inv, TypeOK
      <4>2. PICK v \in Workers : shaking[v] = g
        BY <4>1 DEF NascentIsShaken
      <4>3. v # w
        BY <2>2, <4>2, ConnectionsAssumption
      <4> QED
        BY <2>1, <4>2, <4>3 DEF Inv, TypeOK
    <3> QED
      BY <3>1, <3>2
  <2> QED
    BY <2>3 DEF NascentIsShaken
<1>9. ASSUME NEW w \in Workers, HandshakeSucceeds(w) \/ HandshakeFails(w)
      PROVE  NascentIsShaken'
  <2>1. PICK c \in Clients \cup {Lost} :
          file' = [file EXCEPT ![shaking[w]].owner = c]
    BY <1>9 DEF HandshakeSucceeds, HandshakeFails
  <2> QED
    BY <1>9, <2>1, ShakenIsGiven DEF HandshakeSucceeds, HandshakeFails, Goto
<1>10. ASSUME NEW w \in Workers, AddClient(w) PROVE NascentIsShaken'
  <2>1. adding[w] \in Clients /\ sockfd[adding[w]] \in Fds
    BY <1>10, AcceptedIsClient DEF AddClient, Goto
  <2>2. \A f \in Fds : file'[f].owner = file[f].owner
    BY <1>10, <2>1, AddedToEpoll DEF AddClient
  <2> QED
    BY <1>10, <2>2, ShakingUnmoved DEF AddClient
<1>11. CASE CheckRemoves
  <2>1. \A f \in Fds : file'[f].owner \in {None, file[f].owner}
    BY <1>11, CheckedFiles
  <2>2. \A f \in Fds : file'[f].owner = Nascent => file[f].owner = Nascent
    BY <2>1, ConnectionsAssumption
  <2> QED
    BY <1>11, <2>2, ShakingUnmoved DEF CheckRemoves, worker
<1>12. CASE DeleteAllClients
  BY <1>12, ClosingIsUnmoved DEF DeleteAllClients, worker
<1> QED
  BY <1>1, <1>2, <1>3, <1>4, <1>5, <1>6, <1>7, <1>8, <1>9, <1>10, <1>11, <1>12
  DEF Next, Environment, WorkerStep, CheckStep

(***************************************************************************)
(* The one way a socket gets lost is a handshake that fails: HandshakeFails*)
(* is the only step that gives one to Lost.  On every other path, the error*)
(* paths of Add and of the dispatch included, an open socket belongs to a  *)
(* client that a list, a handler or the accept loop holds, or to a worker  *)
(* that waits for its handshake; the destructor closes the rest.           *)
(***************************************************************************)
THEOREM SocketsDoNotLeak == Spec => []NoLeakedSocket
<1>1. ASSUME Inv PROVE OpenIsListed
  BY <1>1 DEF Inv, OwnersAreKnown, Known, OpenIsListed, Held
<1>2. ASSUME Inv, NascentIsShaken PROVE DownMeansClosed
  <2> SUFFICES ASSUME phase = "down"
               PROVE  Listed = {} /\ \A f \in Fds : file[f].owner \in {None, Lost}
    BY DEF DownMeansClosed
  <2>1. Listed = {} /\ \A f \in Fds : file[f].owner \notin Clients
    BY <1>2 DEF Inv, DownIsQuiet
  <2>2. \A w \in Workers : shaking[w] = None
    BY <1>2 DEF Inv, DownIsQuiet, PlacesFit
  <2>3. \A f \in Fds : file[f].owner # Nascent
    BY <1>2, <2>2, ConnectionsAssumption DEF NascentIsShaken
  <2>4. \A f \in Fds : file[f].owner \in Clients \cup {Nascent, Lost, None}
    BY <1>2 DEF Inv, TypeOK, File
  <2> QED
    BY <2>1, <2>3, <2>4
<1>3. Inv /\ NascentIsShaken => NoLeakedSocket
  BY <1>1, <1>2 DEF NoLeakedSocket
<1>4. Spec => []NascentIsShaken
  BY ShakingInit, ShakingStep, InvariantHolds, PTL DEF Spec
<1> QED
  BY <1>3, <1>4, InvariantHolds, PTL

-----------------------------------------------------------------------------
(* The refinement of IdleTable *)

LEMMA TableInit == Init => Table!Init
  BY DEF Init, Table!Init, Listed

LEMMA TableStep == Inv /\ [Next]_vars => [Table!Next]_(Table!vars)
<1> SUFFICES ASSUME Inv, [Next]_vars
             PROVE  Table!Next \/ UNCHANGED Table!vars
  OBVIOUS
<1>1. CASE UNCHANGED <<lists, checking>>
  BY <1>1 DEF Table!vars, lists, Listed
<1>2. ASSUME NEW w \in Workers, ToNew(w) PROVE Table!Next \/ UNCHANGED Table!vars
  <2>1. CASE moving[w] \in Listed
    <3>1. moving[w] \in Clients
      BY <2>1 DEF Inv, TypeOK, Listed
    <3>2. Table!Touch(moving[w])
      BY <1>2, <2>1 DEF ToNew, InfoListMutexFree, Table!Touch, Listed
    <3> QED
      BY <3>1, <3>2 DEF Table!Next
  <2>2. CASE moving[w] \notin Listed
    BY <1>1, <1>2, <2>2 DEF ToNew
  <2> QED
    BY <2>1, <2>2
<1>3. ASSUME NEW w \in Workers, DispatchError(w) PROVE Table!Next
  <2>1. PICK c \in Listed : Delete(c)
    BY <1>3 DEF DispatchError
  <2>2. Table!Leave({c})
    BY <1>3, <2>1 DEF DispatchError, InfoListMutexFree, Delete, Table!Leave, Listed
  <2> QED
    BY <2>1, <2>2 DEF Table!Next
<1>4. ASSUME NEW w \in Workers, AddClient(w) PROVE Table!Next
  <2>1. adding[w] \in Clients \ Listed
    BY <1>4, AcceptedIsClient, ConnectionsAssumption DEF Inv, AddingIsNew,
       AddClient, Goto
  <2>2. Table!Join(adding[w])
    BY <1>4, <2>1 DEF AddClient, InfoListMutexFree, Table!Join, Listed
  <2> QED
    BY <2>1, <2>2 DEF Table!Next
<1>5. CASE CheckBegin
  BY <1>5 DEF CheckBegin, lists, Listed, Table!CheckBegin, Table!Next
<1>6. CASE CheckRemoves
  <2>1. PICK c \in oldInfos : Delete(c)
    BY <1>6 DEF CheckRemoves
  <2>2. c \in Clients /\ c \in Listed \ recent
    BY DEF Inv, TypeOK, ListsMatch, Listed
  <2>3. Table!Expire(c)
    <3>1. checking /\ UNCHANGED checking
      BY <1>6 DEF CheckRemoves
    <3>2. newInfos' = newInfos \ {c} /\ oldInfos' = oldInfos \ {c} /\ recent' = recent
      BY <2>1, <2>2 DEF Delete
    <3> QED
      BY <2>2, <3>1, <3>2 DEF Table!Expire, Listed
  <2> QED
    BY <2>2, <2>3 DEF Table!Next
<1>7. CASE CheckEnd
  BY <1>7 DEF Inv, ListsMatch, CheckEnd, Listed, Table!CheckEnd, Table!Next
<1>8. CASE DeleteAllClients
  <2>1. Table!Leave(Listed)
    BY <1>8 DEF Inv, ListsMatch, DeleteAllClients, InfoListMutexFree, Table!Leave,
       Listed
  <2> QED
    BY <2>1 DEF Table!Next
<1>9. ASSUME Environment \/ Stop \/ UNCHANGED vars PROVE UNCHANGED <<lists, checking>>
  BY <1>9 DEF Environment, Connect, Traffic, HangUp, Stop, vars
<1>10. ASSUME NEW w \in Workers,
              \/ Poll(w) \/ WorkerExits(w) \/ DispatchDangling(w) \/ DispatchIo(w)
              \/ DispatchDone(w) \/ HandlerReturns(w) \/ Handled(w) \/ HandlerCloses(w)
       PROVE  UNCHANGED <<lists, checking>>
  BY <1>10 DEF Poll, WorkerExits, DispatchDangling, DispatchIo, DispatchDone,
               HandlerReturns, Handled, HandlerCloses
<1>11. ASSUME NEW w \in Workers,
              \/ Accept(w) \/ AcceptTls(w) \/ AcceptFails(w) \/ AddFails(w)
              \/ HandshakeSucceeds(w) \/ HandshakeFails(w)
       PROVE  UNCHANGED <<lists, checking>>
  BY <1>11 DEF Accept, AcceptTls, AcceptFails, AddFails, HandshakeSucceeds,
     HandshakeFails
<1> QED
  BY <1>1, <1>2, <1>3, <1>4, <1>5, <1>6, <1>7, <1>8, <1>9, <1>10, <1>11
  DEF Next, WorkerStep, CheckStep

(***************************************************************************)
(* However events, accepts and the timer's checks interleave, what the     *)
(* manager does to its two lists is what IdleTable promises: a check       *)
(* removes every client that was inactive since the last one and no other. *)
(***************************************************************************)
THEOREM ChecksKeepTheirPromise == Spec => ImplementsIdleTable
  BY TableInit, TableStep, InvariantHolds, PTL DEF Spec, ImplementsIdleTable, Table!Spec
=============================================================================
