# PeoplezServerLib in TLA+

PeoplezServerLib is a C++ library for HTTP servers: one epoll instance served by
a pool of worker threads, HTTP connections with pipelining and keep-alive,
periodic timers, preloaded resources, and the strings, parsers and tables that
all of this is written with. These modules model its concurrent core, the
protocol of a connection, the memory of its strings, and its text functions; TLC
checks them on small instances, and TLAPS proves the central properties of timer,
thread pool, connections, HTTP connection, messages, resources, strings, the
intrusive lists, the path tree and the parsing of integers for all instances.

All paths below are relative to `src/src/Peoplez/`.

## 1. The system

| Component | State | Operations |
|---|---|---|
| `System/Timer.cpp` | static: the sorted list `timeouts`, `mut_list`, `mut_startstop`, `condition`, `timerThread` | constructor, destructor, `ThreadFunction` |
| `System/IO/Network/ConnectionsManager.cpp`, the pool | `workerThreadList`, `communicationVariable` with its mutex and condition, `eventSock` | `AddThreads`, `RemoveThreads`, the parts of `ThreadPoolFunction` that start and stop |
| the same, the connections | the epoll instance, the lists `newInfos` and `oldInfos` of `EpollData` objects, `infoListMutex`, `epollMutex` | `Add`, the loop of `ThreadPoolFunction` (fetch, `ToNew`, `Remove`, handlers, accept), `DeleteOldClients`, the destructor |
| `System/IO/Network/Socket.cpp`, `SecureSocket.cpp`, `ClientInfo.hpp`, `Listener.hpp` | a descriptor, an SSL object | `Send`, `Recv`, `Close` |
| `Services/Http/HttpListener.cpp`, `HttpsListener.cpp`, `HttpsListenerSNI.cpp` | the listening socket, certificates | `Accept`, with the TLS handshake |
| `Services/Http/HttpClientInfo.cpp` | the `HttpContext` with both buffers, `Status`, `mut` | `MessageReceivableCB`, `MessageSendableCB` and what they call |
| `Services/Http/HttpContext.cpp`, `HttpRequest.cpp`, `HttpResponse.cpp` | one request and its response, used again for the next | `HandleHeader`, `HandleBody`, `Reset`, `GetResponseText` |
| `System/Resources/` | a sorted vector of `ResourceHolderPreloaded`, each with content, hash and two times | `Initialize`, `GetResource` |
| `Services/Clients/` | the maps of sessions and of users, under a shared mutex | `AddClient`, `GetClient`, `RemoveClient`, `Contains`, `TimerTimeout` |
| `General/PathTree.hpp` | a tree of targets, under a shared mutex | `InsertTarget`, `GetTarget`, `RemoveTarget` |
| `String/PeoplezString.*` | reference-counted data shared by copies | appends, `Resize`, `ToUnique`, searches, `Split`, compression |
| `String/Parsing/`, `PeoplezStringBuilder*` | none, or one builder | conversion of integers, concatenation |
| `System/Commandline/`, `System/Signal.cpp`, `System/Arguments/`, `System/Logging/`, `System/IO/Database/` | a command tree, lists of signal handlers, arguments, a log, database connections | see the sources |
| `Services/Http/HttpFunctions.cpp`, `HttpCookie`, `General/Mime*`, `Math`, `FileOperations`, enums | none | tables and pure functions |

How they interact:

* A `Listener`'s `Accept` makes a `ClientInfo` with its own socket;
  `ConnectionsManager::Add` puts it into an `EpollData` object, epoll and
  `newInfos`. A worker that fetches an event copies the `shared_ptr`, moves the
  client to `newInfos` (`ToNew`), leaves the epoll critical section and calls
  the client's `MessageReceivableCB` or `MessageSendableCB`.
* `ConnectionsManager` has a `Timer` whose callback `DeleteOldClients` removes
  `oldInfos` and makes `newInfos` the new `oldInfos`; `ClientProvider` has
  another. Both callbacks run in the one timer thread, under `mut_list`.
* `HttpClientInfo` reads the socket, lets `HttpContext` parse, calls the
  application's `HttpRequestHandler::ProcessRequest`, and sends. Handlers use
  `ResourceManager`, `ClientProvider` and `PathTree` from several workers.
* The locks are taken in this order only: `epollMutex` before
  `communicationMutex` and before `infoListMutex`, `workerThreadListMutex`
  before `communicationMutex`, `mut_startstop` before `mut_list` before
  `infoListMutex`.

What is hard: edge-triggered events (one that is dropped never comes back),
descriptors that are reused while copies of their numbers survive, objects that
one thread deletes while another has a pointer, condition variables without
predicates, two threads in one connection, a context that is used again for the
next request, partial sends, and limits that end a loop early. `PROJECT.json`
lists these hazards, each at its line.

What makes each component correct:

* **Timer**: after the destructor has taken a timer off the list its callback
  does not run; the list is sorted; no wake-up is lost; the thread exists
  exactly while a timer does; due timers fire and calls return.
* **Pool**: a worker knows its own list entry; `RemoveThreads` joins threads
  that stop, as many as asked for; both calls return.
* **Connections**: a client is in one list; a check removes exactly those
  without activity since the check before; every socket is closed in the end
  (but for failed handshakes, section 6);
  no deleted object is used; a waiting connection is accepted; the destructor
  returns.
* **HTTP connection**: the responses are those to the requests, whole, once and
  in order; nothing that was received is forgotten, and nothing is left in the
  kernel without an event; a closed connection stays quiet.
* **Resources**: one holder per file, found again; what is returned was the
  file's content within the timeout.
* **Messages**: what the handler sees and what is sent belongs to this request;
  the first error decides on the status; a body is announced as it is encoded.
* **Strings**: a block lives as long as its owners; writing one string changes
  no other; an append appends.
* **Text functions**: searches find the first match and stay inside the text;
  cuts lose nothing; what is written can be read; numbers are right at every
  limit; minifying keeps the words and counts what it erases.
* **Path tree**: a map. **Command line**: lines are processed in order and
  `Close` returns. **Signals**: every object is called, and only while it lives.

## 2. The modules

| Module | Models |
|---|---|
| `TimerOrder` | `Add`, `Remove` and the move of a fired timer, on sequences |
| `TimerQueue` | what the list promises: a set of timers, the first of which fires |
| `TimerList` | the pointers `before`, `next`, `timeouts`; implements `TimerQueue` |
| `TimerService` | what `Timer` promises: callbacks of registered timers that are due |
| `Timer` | constructor, destructor and thread with both mutexes and the condition; implements `TimerService` |
| `TimerProofs`, `ThreadPoolProofs`, `ConnectionsManagerProofs`, `HttpConnectionProofs`, `ResourcesProofs`, `HttpMessageProofs`, `StringsProofs` | the theorems about the module they are named after |
| `PartsProofs` | the theorems about `InfoLists`, `TimerList` and `PathTree`, as `MCParts` composes them |
| `ThreadPool` | `AddThreads`, `RemoveThreads`, start and stop of workers |
| `IdleTable` | what the two lists promise: idle clients expire at a check |
| `InfoLists` | the pointers of the two lists; implements `IdleTable` |
| `ConnectionsManager` | workers, timer thread, destructor, listener and kernel; implements `IdleTable` |
| `MCConnections` | the symmetry for TLC |
| `HttpConversation` | what a connection promises: the answers to the requests in order |
| `HttpConnection` | `HttpClientInfo` with its context, several workers, kernel buffers and client; implements `HttpConversation` |
| `MCHttpConnection` | the requests for TLC |
| `Resources` | `ResourceManager`, its holders, the files and the clock |
| `HttpMessage` | the members of `HttpContext`, `HttpRequest` and `HttpResponse` over several requests: header fields, the calls of the handler, what is written, `Clean` |
| `Tables` | file types, extensions, mime types, methods, status descriptions |
| `Requests` | the URI, the choice of a language, the lines of a body of several parts |
| `Strings` | the handles, counters and blocks of `PeoplezString` |
| `Texts` | its searches, comparisons, cuts and encodings, as functions on sequences of bytes |
| `Numbers` | `String/Parsing`, both implementations of `ToInt` |
| `Builder` | `PeoplezStringBuilder`: a text with keywords and their values |
| `Minifier` | `HttpFunctions::Shorten` for HTML, CSS and scripts |
| `Arguments` | the words of the command line of the program |
| `PathRegistry`, `PathTree` | a map from paths to targets, and the tree of nodes that implements it |
| `CommandLine` | the thread that reads commands, `select`, `std::cin` and `Close` |
| `Signals` | the lists of `Signal`, its handlers and their mutex |
| `MCStrings`, `MCTexts`, `MCParts` | the symmetry of the strings; the machine that writes every short text; five small parts side by side |

`Requests`, `Numbers`, `Builder`, `Arguments` and `Minifier` are operators
without state; `Texts` is below all of them and `Tables` below `HttpMessage`.
`MCTexts` checks them on every short text, and besides, in behaviours of their own,
the exchanges of `HttpMessage`. `MCParts` composes `InfoLists`, `TimerList`, `PathTree`, `CommandLine` and `Signals`, of
which one moves in each behaviour.

Names of variables, actions and constants follow the source. A critical section
without a call that blocks is one action; code outside of a mutex is cut where
another thread can see the difference. `pc`, `call`, `worker` and `thread` say
where a thread is.

**Timer.** `timeouts` is a sequence in `Timer` and pointers in `TimerList`, both
computed from the same operators or shown to agree. `CtorBegin` to `CtorNotify`
and `DtorBegin` to `DtorJoin` are the constructor and destructor between their
lock operations; the reads of `timeouts` without `mut_list` (lines 67 and 80)
are actions of their own. The thread sleeps in `wait_until` with the deadline it
read, may wake for no reason, and holds `mut_list` through a callback. The clock
stops at `MaxTime`.

**ThreadPool.** A list entry is named by its thread, so an iterator is a worker.
`eventSock` is the counter, the event that epoll has yet to report, and whether
it is registered. A wake-up without notification is recorded in `spurious`.

**ConnectionsManager.** `file` is the kernel's table: for each descriptor the
client that owns the socket, the client whose `EpollData` is registered with it,
and the pending edge. `sockfd` is `ClientInfo::fd`, which stays when the socket
is closed and its number used again. The owner of a socket that is in a handshake
is `Nascent`; if the handshake fails it is `Lost`, and stays so, since `Accept`
returns without closing it. A handler is what it may do to the
connection: close the socket or not. `undefined` is set when a deleted
`EpollData` object is used; the model stops there, because nothing is known of
the program from then on. One listener is registered throughout.

**HttpConnection.** The stream is cut into pieces, so that headers, the end of a
header and bodies can be split anywhere. A request says whether it is well
formed, its method, `Connection: close`, the length of its header, its
`Content-Length`, and the type of its body; a response says which request, which
status and which body the handler saw. `response` is what has been decided of it
until `Reset`, with the rules of `SetStatusCode`; so a timeout that finds a
response on its way has that one written again (`again` remembers whose it was),
and a handler that throws leaves its response to the next request. `pc` names the
function of `HttpClientInfo` that runs, as all calls are tail calls. `edge` and
`nospace` are what the kernel owes the connection.

**Resources.** All of a call is under `resourceMutex`, so the model has one call
at a time; the files change between its system calls. A version stands for a
content and its hash (the hash is taken to be injective). `stat` of a file that
is missing leaves the fields to chance, as the code does not look at its result.
`open` may fail of any file (no descriptor is left). A file leaves `calm` for
good once it could not be read, was written while it was read, or was written
twice in one second: `FreshEnough` speaks of the others, and the code really
keeps such a file's old content until the next modification.

**HttpMessage.** A value is the number of the request it came with, so that what
survives `Clean` is seen by its number. `phase` is where `HttpContext` is; a
header field is which member it sets and whether it can be read; a call of the
handler is one of the setters with any status. A handler that throws
(`HandlerThrows`) leaves request and response as they are, and the next request is
read into them; `since` is the first request since the last `Reset`. The timeout
for slow requests comes while a request is awaited, and also while a response is
being sent (`TooSlow`). `HttpConnection` has the same
functions as parts of its steps, abstracted to what decides the flow; here one
request follows the other, and the fields are complete.

**Strings.** A block is its counter and its bytes, with `Junk` where nothing was
written; an object is block, offset, length and the size it believes the block
to have. The counter is the number of owners less one, as in the code, and may
run below zero (2^64 - 1 there), which leaves the block for good. Each member
function is an action with the calls it makes; the private ones that return a
new handle (`ToUnique`, `Resize`, `Clear`) are operators on heap and handle.
`malloc` finds a block. A string is not assigned to itself, and one that was
moved from is only destroyed: both are undefined in the code.

**Text functions.** A text is a sequence of bytes; a function that can read
behind its end gets the memory and the length apart. Loops are recursive
functions. Positions count from 1, `NPOS` is 0. The minifier's functions take a
position and return it with the number of erased characters, as the code does
through a pointer. Keywords (`<style`, `function`, boundaries) are single
characters or lines.

**CommandLine.** Lines are numbered as they are typed; `buffer` is what
`std::cin` has read ahead. From a pipe a line may come in two parts; `begun` is
where its beginning lies, in the descriptor or in `std::cin`. The end of the input
is not modelled.

**Signals.** A signal interrupts a thread wherever it is, and its handler runs
on top of what it interrupted, with the mutex that may be held there: a
constructor, a destructor or another handler. `handling` is the stack of handlers
of a thread; `signal()` masks a type while its own handler runs (`Masked`), and no
other.

## 3. The runs

All bounds are in the `.cfg` files. Deadlock is not checked where the
environment may stop (no more requests, no more connections, all threads gone).

| Run | Instance | Shows |
|---|---|---|
| `timer` | 2 timers, intervals 1 and 2, clock to 3, with fairness | the five invariants, due timers fire, calls return, `TimerService` is implemented |
| `pool` | 2 workers, 2 callers, up to 2 threads per call, with fairness | identification, joining and the number of stopped threads; calls return |
| `connections_safety` | 3 connections, 2 descriptors, 2 workers, TLS listener | lists, sockets and references are consistent, `IdleTable` is implemented |
| `connections_live` | 2 connections, 2 descriptors, 1 worker, plain listener, with fairness | dead connections are reclaimed, the backlog is served, the destructor returns |
| `connections_deaf` | 2 connections, 2 descriptors, 2 workers | violation, see section 6 |
| `http_pipelined` | 3 requests in a row, of which up to 2 are slow or make the handler throw, 2 workers, receive buffer 4, send buffer 3, responses of 2 pieces | the promise of `HttpConversation`; nothing is forgotten in a buffer or the kernel, nothing answered twice but what a timeout has written again, closed is quiet |
| `http_one_by_one` | 15 kinds of request, 2 of them one after the other, chunks of 3 and a header limit of 4 pieces, send buffer smaller than a response, with fairness | the promise for every kind, and every request is answered |
| `http_sendable` | 2 requests in a row, send buffer 1, with fairness | violation, see section 6 |
| `resources` | 2 files, 2 versions, 4 seconds, timeout of 2 | one holder per file, found again; fresh enough |
| `strings` | 2 strings, 3 blocks of up to 3 bytes, 2 characters | blocks are owned, copies independent, appends append |
| `texts` | every text of 4 to 7 characters over 3 to 8 characters that matter to the function; 2 requests with a header field and up to 2 calls each, a success, a redirection, 304 and an error, timeouts, handlers that throw | the text functions against independent definitions; nothing outlives a response that was sent, the first error is sent, the encoding fits the body |
| `parts` | 4 objects and 4 timers in the lists; paths of up to 2 of 2 names with 2 targets; 3 lines, whole or in parts, 1 interrupted `select`, 2 lines read ahead, with fairness; 2 signal objects of 2 types, 2 threads, 2 signals, one on top of the other or not, with fairness | `IdleTable`, `TimerQueue` and `PathRegistry` are implemented, the links agree; lines are processed and `Close` returns; signals reach their targets |

Why the bounds are enough for the interesting cases:

* Two timers meet in every order of deadlines and of constructor, destructor and
  callback, and with intervals 1 and 2 a fired timer must be moved or not; the
  theorems cover every number of timers. `TimerList` needs more timers for
  insertion and removal in the middle, and has them.
* Two workers and two callers allow a stop that is fetched while another worker
  holds `epollMutex`, and two calls that contend.
* Three connections over two descriptors force a number to be used again while
  the first owner's object is still listed; with four `EpollData` objects both
  lists can have a first, an inner and a last element.
* With three requests in a row there is one being answered, one in the input
  buffer and one in the kernel; a chunk (`Step`) may end in every part of a
  request; the send buffer holds less than two responses, or less than one, so
  that sends are partial and the edge for sending is needed. A chunk of three
  pieces is longer than the end of a header, so that a header over the limit can
  arrive whole in the step that takes it over (`LongGet`) and is then read.
* In four seconds with a timeout of two a holder is used before, at and after
  the end of its timeout, and set up again.
* Two strings share a block, part and meet in a third one while each still has
  its own; in three bytes there is room for a text that was cut at its front,
  its rest and an append that fits or does not.
* An alphabet has the characters a function tells apart and one it does not; the
  lengths let two matches overlap, meet at a border or lie inside each other
  (`\r\n\r\n` twice, two escapes, three parts of a body, a comment inside a
  tag). Integers of six bits have their limits at two digits of every base.
* Two requests show what `Clean` leaves, and two calls, with the refusals and
  timeouts that follow them, a first code, an error and another error.
* Two objects share or do not share a type; the second signal comes while the
  first one is handled on another thread or on the same, and at every step of a
  constructor.

Fairness, and why the code justifies it:

* `Timer`, `ThreadPool`: threads run, callbacks return, and no thread is passed
  over for ever for a mutex that becomes free again and again (strong fairness
  of the steps that lock). Nobody has to call anything and the clock need not
  advance; spurious wake-ups need not come.
* `ThreadPool`: epoll reports a ready descriptor however many others are ready
  (its ready list is a queue), so some worker fetches the event of `eventSock`.
* `ConnectionsManager`: the same for the listener's event; workers run and
  handlers return; the timer thread checks again and again (`DueTimerFires`);
  `SSL_accept` returns when the peer has hung up, but not when it is silent.
* `HttpConnection`: workers run, the client reads what was sent and sends what
  it has begun.
* `CommandLine`: the reading thread and the one in `Close` go on when they can;
  nobody has to type, and no signal has to come.
* `Signals`: a thread goes on when it can, and gets a mutex that is free. (With
  the bound on signals weak fairness is enough: a mutex is not taken and
  released for ever.)

Every property of a passing run has a mutant in `PROJECT.json`: an operator next
to the definition it replaces, with a plausible slip (`Mutant of ...`), which
makes TLC refute the property.

## 4. The proofs

Each of seven modules has its theorems in a module of its own (`...Proofs`), and
`PartsProofs` has those about three small parts. In the seven there is one
theorem `InvariantHolds`, `Spec => []Inv`, from which the others are read off,
and none of the properties is inductive alone. TLC has checked every part of an
`Inv` on the component's run before it was proved. In the proof that
a step keeps it there is one case per action, and in that one step per part that
the action can disturb.

**Timer**, for every finite set of timers, every set of positive intervals and
every bound of the clock (`TimersAssumption`):

* `TypeCorrect`: the types; in particular no timer is on the list twice.
* `DestructorIsABarrier`: the callback that runs belongs to a timer whose
  destructor has not got `mut_list` yet.
* `ListStaysSorted`: the list is sorted by deadline in every state.
* `NoWakeupIsLost`: a thread that sleeps past the first deadline is about to be
  notified.
* `ThreadLivesWithTimers`: between constructors and destructors the thread
  exists exactly while a timer does.
* `TimersAreServed`: `Timer` implements `TimerService` but for its fairness.

`Inv` adds who is inside which lock: at most one constructor or destructor is
past `mut_startstop`, and it is its owner; the list has exactly the timers
between their `Add` and their `Remove`; the timer whose callback runs is the
head; the thread's state and the presence of timers go together, with the
exception of the owner's steps; and a sleeping thread whose deadline is too late
has an owner that will notify it. That last part is why the unlocked reads of
`timeouts` are harmless: only the owner can bring a deadline nearer or empty the
list, and the thread itself only moves the head back. The refinement needs
`DeadlinesFit` as well: a deadline was computed from a time that has been, with
an interval that the service allows, and a callback that runs is due. The first
lemmas say what `Added`, `Removed` and `Rescheduled` of `TimerOrder` do to a
sequence without repetitions: which elements it has, that there are still no
repetitions, and that it stays sorted.

**ThreadPool**, for any workers, callers and number of threads per call:

* `PoolAgrees` (`WorkersAreKnown`): every thread that runs has one entry in the
  list and, unless a wake-up was spurious, knows its own.
* `RemovalIsExact` (`StopsOnlyOnRequest`): no more threads leave than callers
  wait for, and, unless a wake-up was spurious, the one that is joined leaves.

`communicationVariable` and the condition have no predicate, so `Inv` has to say
who may be meant by them at every moment: `EveryWorkerIsListed`, `KindAndPlace`
and `OwnerIsInside` tie the callers to the mutexes; `OneRequest` says that a
stop is in one place, as a count of `eventSock`, its event, or a worker on its
way out; `StartIsAnnounced` and `StopIsAnnounced`, that whoever waits is owed
exactly the announcement of the last worker that started or stops.

**ConnectionsManager**, for any clients, descriptors, workers, size of a batch
of events, with and without TLS:

* `ListsStayConsistent` (`ListsAgree`), `SocketsDoNotLeak` (`NoLeakedSocket`),
* `ChecksKeepTheirPromise`: the implementation of `IdleTable`, all of it
  (`IdleTable` has no fairness).

`Inv` relates the kernel's table of descriptors, the lists and the workers:
edges exist for registered descriptors only; the lists are disjoint and
`newInfos` is what was active; a client that `Add` is at work on is in no list;
a worker's place tells which locks and references it has; every open descriptor
is owned by a client that is listed, held by a worker or being added, or is in the
handshake of a worker, or was lost by a handshake that failed; and once the
destructor is through with the workers nobody is inside. So `NoLeakedSocket` does
not say that nothing leaks, but that nothing else does: the descriptor of a failed
TLS handshake stays open for good (section 6), also when the destructor is done. (A connection
that was found deleted under a worker stops the model, see section 2, and the
theorems say nothing about what would come then.)

**HttpConnection**, for any set of requests, any lengths of buffers, headers,
bodies and responses, any number of workers, with and without pipelining:

* `NothingIsForgotten`: if nobody is at work, no request that could be handled
  lies in `InputBuffer`, and nothing in the kernel without an event under way.
* `ClosedStaysQuiet`, of connections on which nobody was too slow and no handler
  threw (a timeout puts its error into the buffer of a closed connection, too).
* `NobodyIsAnsweredTwice`, of all connections: the one answer that is given twice
  is one that a timeout found on its way, and it is the last of the connection.
* `ProgressHolds`: whose turn it is, and where in the stream the next request
  begins.
* `PromiseIsKept` (`KeepsItsPromise`): `HttpConnection` implements
  `HttpConversation`, for requests that fit (see below).

`Base` says what each function of `HttpClientInfo` finds when it is called,
although these conditions are established several calls before: only one worker
is behind `mut`, `HeaderReceived` is called with the end of a header in the
buffer, `BodyReceived` with the whole body, `outputBuffer` is empty exactly if
`status` is not `SEND`. `Handled` is about the search that starts where the last
one ended (`arg`): no end of a header lies in the part that is not searched
again. `Ordered` is about the stream: what is in `InputBuffer`, in the kernel
and with the client, one behind the other, is in the order of the requests, each
with one header in front, and all that was answered lies before; if an answer was
written `again`, it is the last one, and the connection will be closed. `Watched` is the
receive loop: what is left in the kernel was announced by an edge since, or the
iterations that are left are enough for it.

`NothingIsForgotten` has a hypothesis, `BufferFits`: the receive buffer of the
kernel is at most what the loop may read, `ReceiveBuffer <= RecvLimit * Step`.
It cannot be left out: with `Step` 3 TLC shows that a loop that ends by its limit
leaves text in the kernel without an edge. The code satisfies it with the
defaults of Linux: the loop reads up to (16384 + 5242880) / 2000 = 2629 chunks
of 2000 bytes, 5.2 MB, and a receive buffer (`tcp_rmem`) may grow to 6 MB, about
half of which is payload. A kernel that is configured otherwise, or smaller
values of `MAX_BODY_LENGTH`, break it.

`Handled`, and with it the theorem, speaks of connections on which no handler
has thrown (`calm`). The attempt to prove it of all failed for a reason in the
code: when `ProcessRequest` throws, `MessageReceivableCB` ends with the response
to the error, and a request that has already come completely stays in
`InputBuffer` until the client sends more; TLC finds it with `Step` 4.

`Progress` is what the implementation of `HttpConversation` needs besides `Inv`:
there is a request `m` whose turn it is, and `Turn` says what has become of it.
Its header is looked for (`Front`), or it was accepted and its body is in front
of the stream (`InBody`), or it is with the handler (`Ready`), or the end of its
response is in `outputBuffer` (`Sending`); all that was delivered before is what
`Script` says of the requests up to `m`. Every turn fixes what the stream goes on
with: `Follows(asked, s, m)` says that `s` is what the client sends of the
requests from `m` on, each whole, by the places at which they begin. The chunks
of `Recv` and the partial sends change nothing in this: the stream is what lies
in `InputBuffer`, in the kernel and with the client, taken together. What makes
a turn end is arithmetic of these places: `FoundIsHead` shows that the end of a
header that the search finds is the end of the header of `m`, although the
search starts in the middle; `HeaderIsRead` and `BodyIsFront` that what is cut
off is exactly this request.

`PromiseIsKept` has a hypothesis, `RequestsFit`: headers are shorter than
`MAX_HEADER_LENGTH`, and a `POST` says of which type its body is. The second cannot
be left out: a body without a type is read by the type of the request before
(section 6). Of a header as long as the limit, or longer, `HttpConversation` only
promises that the request is answered or turned away (`TurnedAway`), since that
depends on how its last pieces come together; this is checked, in the run
`http_one_by_one`, and not proved. The promise does not speak of connections on
which a request was too slow or a handler threw (`calm`).

**HttpMessage**, for any set of codes:

* `FirstErrorWins` (`StatusIsFirstError`), `NothingIsLeftBehind`
  (`MessagesAreSeparate`), `CompressionIsAnnounced` (`EncodingFitsBody`).

`Inv` says of every member whether it is a default or came with a request since the
last `Reset` (`Unanswered`), and of the response which of the calls so far has
decided it. When no handler throws, the only such request is the one at hand;
after a throw the next request does get what was left, and the theorem says that
this ends with the next response that is sent.

**Strings**, for any finite set of strings, any blocks, characters and lengths:

* `MemoryIsSafe` (`BlocksAreOwned`), `CopiesStayIndependent`
  (`CopiesAreIndependent`), `AppendIsExact` (`AppendsAtTheEnd`).

`Inv` is `Consistent`: every string reads a part of a block that lives, knows its
size, and each counter is the number of its readers less one. (A block that nobody
reads, whose counter is then -1, is allowed for: the code leaves such blocks
behind, see section 6. What `MemoryIsSafe` excludes is that a block is deleted
under a reader, or is not deleted by the last one that gives it up through the
counter.) The three are
proved through one notion, `Sound`, of what a function may do to heap and handle;
each of the private functions (`Resize`, `ToUnique`, `Clear`) is shown to be
sound, and soundness to keep `Inv` and the texts of all other strings, by
counting the readers of every block. The proof takes from the model that memory
never runs out (`InBounds` keeps one block free).

**Numbers** (in `StringsProofs`), for texts of any length, every base and types of
any width:

* `IntegersAreExact`: `IntegersAreRead`, which the run `texts` checks as a part of
  `ConversionsAgree`. Each of the six functions `ToInt` gives the number that the
  digits say if the type has it, and an exception otherwise.
* `WrittenIsRead`: what `ToCStringBase10` writes of an integer is read as this
  integer by each of them, if the type has it.

The types are given by their limits, and those that are computed in two halves by
the limit of a half, `2 * h`: with 2^32 it is the code's `uint64_t` and `int64_t`,
with 8 it is small enough for TLC. A loop is shown to have a result by going up
its positions (`LoopRuns`, `Upwards`); what it has after `i` digits is the value of
these, or an error if one of them is no digit or one of the values so far is not
between the limits (`AccumulateIs`, `HalvesAccumulate`). A value that was too
large stays so (`ValuesGrow`), so an error in the middle is one in the end; with
halves, the upper one overflows exactly when the number does (`HalvesAre`). The
digits of a number are computed from the last one, by induction on the number
(`DigitsAre`), and another digit behind a text makes ten times its value and the
digit (`ValueOfMore`).

**Texts** (in `StringsProofs`), for texts of any length:

* `UrlsAreKept`: what `ConversionsAgree` says of URLs. A text without blanks fills
  the length that `EncodeUrl` counts before it writes, and `DecodeUrl` gives it
  back; a text that `DecodeUrl` does not refuse gets two bytes shorter for every
  escape and consists of bytes.
* `HtmlIsHarmless`: what it says of HTML. If no character comes in more bytes than
  it needs, no byte that `EncodeHtml` writes means something to a browser but the
  `&#` that begins a number; and if no character is cut off at the end, six bytes
  for each one that is read are enough memory.

`EncodeUrl` writes one code behind the other (`EncodeIs`, `CodesStay`), and
`DecodeUrl` is a recursion from the front, whose solution is built from the back
(`BackwardRuns`, `DecodeIs`). Decoding what was encoded reads from the start of a
code to the start of the next (`CodesAreRead`), and so, from the back again, the
rest of the text (`UrlsComeBack`). The lengths are a count of escapes
(`CodesAreCounted`, `DecodingFits`). `EncodeHtml` is a recursion of the same kind
(`EncodedHtmlIs`), of which each character writes a piece that is harmless and
short enough for its width (`CharsAre`, `WrittenIsHarmless`), and pieces stay
harmless one behind the other (`HarmlessTogether`).

**Resources**, for any files, versions, times and timeout:

* `BisectionIsCorrect` (`BisectionFinds`): a holder is found in a vector of any
  length, or else the place that keeps it sorted. The loop is a recursive
  function: that it exists is proved by induction on the distance of its two
  bounds, and so is what it returns. (The induction is one over the natural
  numbers by a least counterexample, as the library's theorems for it cannot be
  used.)
* `CopiesAreFresh` (`FreshEnough`): what is used was the file's content less
  than `RESOURCE_TIMEOUT` before the call. `Inv` says of every copy of a file
  that changes calmly, whether it is in use or not: it was never read; or it is
  the content, with its time of modification; or it was until after the last look
  at the file, and the file's time of modification is later now. That is why
  seconds are enough: an older copy never has the time of the newer content.

**Lists and path tree**, for any number of objects, timers and targets, and paths
of any length:

* `InfosKeepTheTable` (`ImplementsIdleTable`): the two lists of `EpollData`
  objects. The invariant says that the objects are two disjoint lists, in which
  `before` and `next` undo each other and some rank falls from the first object
  on, so that none runs in a circle. `Add`, `ToNew`, `Remove` and the loop of
  `DeleteOldClients` are shown to keep this, link by link.
* `TimersKeepTheirOrder` (`ImplementsTimerQueue`): the list of timers. The
  invariant is a sequence without repetitions of which `before` and `next` of
  every timer are the neighbours; a timer that is not in it has no links. `Add`
  is the insertion behind the last timer that is not later, `Remove` the removal.
* `TreeIsMap` (`ImplementsRegistry`): the invariant `TreeInv` says that every
  prefix of a node is a node, that a target is one or missing, and that every
  node without a target has a child, except the root. Inserting establishes the
  prefixes, pruning the last part: it takes the longest run of nodes that are
  good for nothing, from the removed target up, and no other.

The walks along pointers and the way back from a removed target are recursive
functions, of which a definition alone says nothing; each is shown to have a
solution, and the solution to be the list, or the node, that is meant.

What is assumed of the constants is in the modules (`...Assumption`): finite
sets, lengths that are not negative, a `Step`, buffers and a timeout that are not
zero, names that are ordered, marks that are no members. All of them are values
the code has.

Only model-checked are

* all liveness, and the fairness of `TimerService`, which need `ENABLED`;
* `CommandLine` and `Signals` (run `parts`), whose properties are liveness;
* `TextsAgree`, `MinifierKeeps`, `RequestIsRead` and what `ConversionsAgree` says
  of arguments: what functions compute from a text, each an induction over that
  text that would have to be set up by hand as those for `ToInt`, URLs and HTML
  are (`Minifier` moreover has recursive operators, which the prover does not
  take).

## 5. What is not modelled, and the plan

Parts that are not modelled:

* `Services/Clients/`: `AddClient` of a user without a session dereferences
  `users.end()` (`ClientProvider.cpp:162`), which is every user's first call. No
  state with a client is reachable in a defined way, and a model of what follows
  would be one of another program.
* `System/Logging/` (lines written under a mutex), `System/IO/Database/` (the
  library of the database does the work), `General/Math` and the memory helpers.
* `HttpFunctions::ReadFile` and `IdentifyLanguage`, the text of a cookie, the
  layout of the response text, the result of `Compress` (zlib), the hash and the
  stream operators of `PeoplezString`, the deep copies of `PeoplezStringBuilder`.
* `CommandManager::Add`: nothing calls it, so the tree of commands is empty.
* Certificates and the choice among them; adding listeners while the server
  runs; failures of `fcntl` (`ConnectionsManager::Add` then leaks the client,
  line 182); the build without `DIRECT_TIMEOUT`; the reset that TCP sends when a
  socket is closed with data unread (`HttpClientInfo.cpp:349`); the callbacks of
  timers (one that constructs or destroys a `Timer` would wait for itself,
  `Timer.cpp:145`; none in the library does).
* A factory of per-thread products that throws (`ConnectionsManager.cpp:516`): the
  worker then ends through the `catch` of line 660 without a request to stop, and
  stays in the list, so that `RemoveThreads` waits for it. The factory is the
  application's.
* Failures of `malloc`: `PeoplezString` decrements the counter before it
  allocates (`ToUnique`, line 654), so the counter stays one too low.

The order of the work:

1. *Done.* The timer; the pool; the connections; the HTTP connection; resources;
   the first theorems.
2. *Done.* Strings; the text functions, conversions and tables; requests and
   responses field by field; the minifier; the path tree; the command line,
   signals and arguments.
3. *Done.* The theorems of section 4.
4. *Done.* `HttpConnection` implements `HttpConversation`, with the place where
   each request begins in the stream as the missing part of the invariant; the
   lists and the path tree implement what they promise; `ToInt` is exact, and what
   is written or encoded is read again.
5. Adding and removing listeners while the server runs; the deep copies of
   `PeoplezStringBuilder`.

## 6. Where the code does something else than it says

Two disagreements have a run of their own:

* `connections_deaf`: `RemoveInner` takes the descriptor number kept in
  `ClientInfo::fd` out of epoll (line 373). If the handler has closed the socket
  and the number has been used again, it takes another client out of epoll, and
  that one waits until it is timed out.
* `http_sendable`: if an event says both readable and writable, only
  `MessageReceivableCB` is called (`ConnectionsManager.cpp:626`). The edge is
  spent, and a response that was sent in part is not continued.

The others are stated next to the models, at the end of each module, and are
refuted by TLC when they are added to a configuration of that module:

* `RemoveThreadsReturns` (`ThreadPool`): emptying the pool takes `eventSock` out
  of epoll for good; threads added later cannot be removed.
* `WorkerKnowsItself` without its condition: after a spurious wake-up
  `AddThreads` writes `communicationVariable` again before the first worker has
  read it.
* `EpollDataIsExclusive` (`ConnectionsManager`): the timer thread deletes
  `EpollData` objects with `infoListMutex` only, between a worker's `epoll_wait`
  and its use of the event.
* `RegisteredHasEpollData`: the error branch passes `events[i].data.fd`, which
  is a part of the pointer in the same union, so the socket stays registered
  with the deleted object while another worker's handler runs.
* `ConnectionIsAccepted` (with TLS): a failed handshake looks like an empty
  backlog, and the connections that wait get no further event.
* `NothingIsLost` (with TLS): `HttpsListener::Accept` returns from a failed
  handshake without closing the descriptor or freeing the SSL object
  (`HttpsListener.cpp:127`).
* `DestructorReturns` (with TLS): a worker in a handshake with a silent peer
  cannot be stopped.
* `ResetIsComplete` (`HttpConnection`, with the requests `Untyped`):
  `HttpRequest::Clean` keeps the content type of the request before.
* `MaxHeaderIsKept` (with the requests `Long`, `Step` 3 and `MaxHeader` 4, or as in
  `http_one_by_one`): the limit of the header is tested only while the end of the
  header is missing (`HttpClientInfo.cpp:122`), so a header that is longer is read if its end comes
  in the same chunk.
* `TimeoutSetsError` (with the instance of `http_pipelined`): a timeout sets status
  408 and sends the response (`HttpClientInfo.cpp:263`). If a response is on its way
  with which a handler has reported an error, `SetStatusCode` refuses the 408, and
  the handler's response is sent a second time, from its start, behind the part that
  was sent before. (With a response of status 200 the 408 carries that one's body.)
* `OnlyOwnersNotModified` (`Resources`): a client without a copy is told "not
  modified" of a file that could never be read, whose hash is 0.
* `ContentIsTheFiles`: a file that is replaced between `stat` and `read` is
  delivered in part, or with uninitialised memory behind it.
* `AppendAppends` (`Strings`): an append that makes a cut string grow loses text,
  because `ToUnique` and `Resize` compare the offset and the new size
  (`PeoplezString.cpp:410`, `:648`).
* `NoBlockIsLost` (`Strings`): the same lines leave the block of a lone owner behind
  when the offset is large.
* `TagIsOwn` (`HttpMessage`): `HttpResponse::Clean`, "Resets everything to
  default", keeps the entity tag, the compression and `KeepAlive`.
* `ThrownIsForgotten` (`HttpMessage`): when a handler throws, request and response
  are not reset (`HttpClientInfo.cpp:234`), and the next request gets the fields it
  does not have itself and, unless its handler sets another, the body.
* `CloseIsHeard` (`CommandLine`): a line that was begun and not ended, or a signal,
  lets `getline` wait (`CommandManager.cpp:145`), and `Close` with it.
* `HandlersDoNotBlock` (`Signals`): a handler takes `mut`, which may be held by what
  it interrupted: a constructor, a destructor, or the handler of another type, which
  `signal()` does not mask (`Signal.cpp:121`).
* `OnlyLivingAreCalled`: `~Signal` switches on `sigType`, which is `None` in
  every object (`Signal.hpp:61`), so nothing is taken off the lists, and a
  signal calls the target of an object that is no more.
* `BufferIsHandled` without `calm`, and `SocketIsRead` without `BufferFits`
  (`HttpConnection`): section 4 says when a request waits although it has come.

Others were met while the functions were translated; the models do what the code
does, and the properties are stated so that they leave these cases out:

* Strings: `Compress` hands `REALLOC` a pointer eight bytes into its block, and
  the length it returns is that of the last step only.
* Searching: `FindDoubleNewLine` reads up to three bytes behind the length that
  is valid. A keyword of `PeoplezStringBuilder` is also searched for inside the
  one before it.
* Numbers: `ToCStringBase10` returns the length without the sign; the 64-bit
  `ToInt` without overflow tests accepts `++1` and `-+1`.
* URIs: an authority is cut off where there are *no* two slashes (`http:foo`),
  and not where there are; `CONNECT` is always refused. `EncodeUrl` also escapes
  digits.
* `EncodeHtml` takes the number of a character from all of its bytes and, if that
  is one to be left alone, writes the last byte (`PeoplezString.cpp:823`): a `<`
  behind the byte 193 is written as it is. A character that is cut off at the end
  is read beyond it (line 800).
* Bodies of several parts: the names and types of the parts are lost; a boundary
  followed by any two characters ends the body; the first line of a content is
  not compared with the boundary.
* `Accept-Language`: blanks behind a comma are not taken away, so such a language
  is never found.
* Files: the extensions `bpx`, `icb`, `pix` and `sgi` are never found.
* Responses: with a header field of the handler's the loop over `Headers` does
  not end; `SetRedict` with 302 or 308 writes no `Location`; a refused call of
  `SetOther` still resets type and tag; 304 is sent with a body; `OPTIONS *`
  calls `exit(1)`; the content type, boundary and host of a request survive.
* Command line: lines that `std::cin` has read ahead wait for the
  next input; a line of 1000 characters sets `failbit` for good; `stopfd` is
  never read, so that a thread started after `Close` ends at once.
* Arguments: a value that is missing is ignored, and a name in its place is read
  as the value.
* `PathTree` has copy operations that do not compile when they are used.
