# RCF in iTunesSpeechBridge: a TLA+ verification project

The iTunesSpeechBridge repository is a small Objective-C program (it asks iTunes
for its library and prints it) together with a complete copy of RCF, a C++
framework for remote calls. Nearly all of the repository's logic, and all of its
concurrency, is RCF: a server with pools of threads, asynchronous transports,
sessions that read, invoke and reply, timers that ping clients back, services
for object creation, publishing and file transfer, and client stubs with
blocking and asynchronous calls. This project specifies that logic in TLA+,
model-checks it with TLC and proves the most important invariants with TLAPS.

Modules are written from the source. `PROJECT.json` maps every definition of a
module to the lines it models, names the configurations and what each shows, the
hazards of the code and the properties aimed at them, and the theorems.

    cd tla
    tlc -workers 2 -config RcfSession.cfg MCRcfSession.tla   # one run
    tlapm RcfServer_proof.tla                                # one proof


## 1. Inventory

### The parts of the system

| part | source (under src/RCF/) | state | operations |
|---|---|---|---|
| server | src/RCF/RcfServer.cpp | mOpened, mStarted, mServerThreadsStopFlag, mServices, mJoinFunctors, the stub map; three mutexes | open, start, startInThisThread, stop, close, addService, removeService, waitForStartEvent, waitForStopEvent, bind, unbind |
| thread pools | src/RCF/ThreadManager.cpp | the map of threads, mBusyCount, mStarted, a pointer to the caller's stop flag | start, stop, repeatTask, launchThread, notifyBusy, notifyReady |
| asio server transport | src/RCF/AsioServerTransport.cpp, TcpAsioServerTransport.cpp, UnixLocalServerTransport.cpp | mSessions, mStopFlag, mConnectionLimit, the acceptor, the queue of the demuxer; per connection mState, buffers, mCloseAfterWrite | open, start an accept, onAccept, onReadWrite, close |
| session | src/RCF/RcfSession.cpp and the end of RcfServer.cpp | mIoState, queued reply, mStopCallInProgress, callbacks, ping back interval and time stamp | onReadCompleted, processRequest, sendSessionResponse, onWriteCompleted, sendPingBack |
| ping backs | src/RCF/PingBackService.cpp, Heap.hpp | timer heap of weak sessions, own stop flag | registerSession, unregisterSession, cycle, stop |
| asynchronous replies | include/RCF/Amd.hpp | the session and its parameters | construction inside a call, commit from any thread |
| object factory | src/RCF/ObjectFactoryService.cpp, Token.cpp | map of tokens to stubs with time stamps, space of tokens | createObject, deleteObject, addObject, cycleCleanup |
| publish/subscribe | src/RCF/PublishingService.cpp, SubscriptionService.cpp, MulticastClientTransport.cpp | topics, list of subscribers with an added and a removed list, subscriptions | beginPublish, publish, subscribe, endSubscribe, drop |
| session time-outs | src/RCF/SessionTimeoutService.cpp | the list of sessions being scanned | cycle |
| client stub | src/RCF/ClientStub.cpp | mConnected, transport, filters, tries, ping back policy, batch, futures | call, connect, asynchronous steps, cancel, sendBatch |
| client transports | src/RCF/ConnectionOrientedClientTransport.cpp, BsdClientTransport.cpp, TcpClientTransport.cpp, Udp, UnixLocal, pipes | descriptor, read state, asynchronous queue | connect, send, receive, disconnect, timed waits |
| asynchronous client calls | src/RCF/AmiThreadPool.cpp | the pool's queue and thread, per-call completion | start, cancel, completion callbacks |
| requests and versions | src/RCF/MethodInvocation.cpp | header fields | encode and decode of requests and responses, version negotiation |
| filters | src/RCF/AsyncFilter.cpp, FilterService.cpp, Zlib..., OpenSsl..., Schannel.cpp, SspiFilter.cpp | stacks of filters, handshakes, buffers | read, write, completions, requestTransportFilters |
| file transfer | src/RCF/FileTransferService.cpp, FileUpload, FileDownload | table of uploads and downloads | begin, chunk, trim |
| buffers and pools | src/RCF/ByteBuffer.cpp, ObjectPool.cpp, ThreadLocalCache.cpp | reference-counted buffers, caches | slice, share, get, put |
| datagrams | src/RCF/UdpServerTransport.cpp | one socket, one session per packet | cycle |
| Windows transports | src/RCF/IocpServerTransport.cpp, TcpIocp..., Win32NamedPipe... | mIocpAutoPtr, mQueuedAccepts, mSessions, an acceptor thread | cycleAccepts, stopAccepts, cycle, open, close |
| locks, timers, time | include/RCF/util/Platform/... | counters of readers and writers | read_write_mutex, current time |
| serialization | src/SF, include/SF | streams and registries | archives |
| bridge | src/iTunesSpeechBridge.m | arrays of names | read, sort, print |

### How they interact

* The application's threads call the server: open, start, stop and the rest.
  `start` tells every service (onServerOpen, onServerStart), then starts each
  task of each service on the task's own pool.
* A pool's threads repeat a task: the transport's task runs handlers of its
  demuxer, the services' tasks look at timers. The server's stop flag, passed by
  reference, and the services' own flags are all that ends them.
* The transport's handlers call into the session: a read that completes becomes
  onReadCompleted, a write onWriteCompleted. The session calls back to post the
  next read or write, so each connection is a loop of handlers.
* Everything else that writes to a connection does so beside that loop: the ping
  back thread while a call is in progress, an Amd object that commits a reply on
  an application thread, a subscription that ends, a publisher. `mIoState` under
  mIoStateMutex is what keeps two writes from overlapping.
* Sessions are held by the pending handlers of their connection only; services
  keep weak pointers.

### What is hard here, and what would make each part correct

| part | hazards | correct means |
|---|---|---|
| session | two writers of one connection, a write that completes between two critical sections, a late ping back, a reply from another thread | one posted operation at a time; every request answered once, by its own reply; the session reads again; completion callbacks after the reply; no call into a servant whose subscription ended |
| thread pool | threads retire and are launched while start and stop run; a failing launch; counts that are read after the lock was left | a spare thread while all work, count within its bounds, no thread and no task after stop |
| asio transport | a client that hangs up while it is accepted, limits checked after the next accept is out, restart | one accept is outstanding, the limit is kept, close ends |
| Windows accepts | a count and a set under two mutexes, accepts counted after they are posted, a notification without the mutex, destructors that count down | the limit is kept, a running server has an accept pending, stop returns |
| server | start, stop and close of several threads with two lock orders, services added or removed while the server starts, waits, restarts | a started server is open; every service of a started server has its thread; none runs in a stopped one; every call returns; waiters are woken |
| object factory | tokens returned twice, cleanup that races a call | a token names one object at most |
| publish/subscribe | a subscriber is added or lost during a publish; a subscription ends from inside its own callback | each publish reaches every connected subscriber once; no callback after endSubscribe; no self-deadlock |
| client stub | retries on the next endpoint, a reply after a time-out, ping backs in place of replies, cancel | one outcome per call; a late reply never answers another call |
| filters | partial reads and writes, handshakes | bytes come out as they went in |
| timers | 32-bit milliseconds that wrap | order is kept while entries lie within half the range |

`PROJECT.json` lists each hazard at its line with the properties that cover it.


## 2. Plan

The order is that of importance to a program that uses RCF; every step is done.

1. `RcfSession`, `RequestReply`: the request cycle of one server session against
   everything that writes beside it, and the abstract exchange it implements.
2. `DynamicThreadPool`: the pool that runs the handlers.
3. `AsioServerTransport`: accept loop, limit, close.
4. `RcfServer`: life cycle, services, waits.
5. `PingBackService`: the timer heap, the clock that wraps, the cycle of the service.
6. `ClientCall`, `RemoteCall`: a stub's calls over connections that break, composed
   with the server's end as `RequestReply` has it, and the abstract call that the
   composition implements.
7. `AsyncCall`: asynchronous calls, with the threads and mutexes they meet.
8. `ObjectFactory`, `FileTransfer`: tokens, their reuse, and the uploads built on them.
9. `PublishSubscribe`: a publisher, its subscribers and the connections between.
10. `SspiFilter`: two filters, the two transports above them and the wire between.
11. `IocpServerTransport`: the accept side of the Windows transports.

Modules extend each other where code does: `FileTransfer` has the variables and
actions of `ObjectFactory` and adds its own, `RcfSessionInv` adds the invariant to
`RcfSession`, `FileTransferInv` to `FileTransfer`, `PublishSubscribeInv` to `PublishSubscribe`,
`ClientCallInv` to `ClientCall`, `AsyncCallInv` to `AsyncCall`, `SspiFilterInv` to
`SspiFilter`. The abstract specifications,
`RequestReply` and `RemoteCall`, are
instantiated with a refinement mapping (`Exchange`, `Promise`) by the modules
that implement them. Each `*_proof` module extends its component and TLAPS; the
proofs about `FileTransfer` and `PublishSubscribe` are together in `Services_proof`, those
about `PingBackService` and `AsyncCall`, the users of timer heaps, in `Timers_proof`, those
about `AsioServerTransport` and `SspiFilter`, what lies below sessions and calls, in
`Transports_proof` (so the initial states and steps of `AsyncCall` are `AsyncInit` and
`AsyncNext`, those of `SspiFilter` are `FilterInit` and `FilterNext`).


## 3. What is modelled

### RcfSession.tla: a session and its connection

The state is `mIoState`, the queue of one reply that `sendSessionResponse` fills
when a ping back is on the wire, what is posted on the connection, the request in
progress, the timer entries of the ping back service and the control state of
each worker, of the application thread that commits an asynchronous reply, of the
ping back thread and of a subscription that ends. There is one action for each
critical section or handler: `OnReadCompleted`, `DecodeRequest`, `RegisterEntry`,
`Invoke`, `Unregister`, `SendReply`, `QueueReply`, `PingBackCompleted`,
`SendQueued`, `ReplyCompleted`, `SetReading`, ... onWriteCompleted leaves its lock
between deciding and posting, so it is several actions. Which request asks for
ping backs, is oneway or is answered asynchronously is a constant set of kinds
(`PeerKinds`). A request whose servant throws a std::exception ends as one that returns
(`InvokeReturn`). Anything else that is thrown meets the scope guard of processRequest,
which replies whether or not an Amd has taken the reply over (`InvokeThrows`); in that
last case the peer gets two replies (section 5), and `AmdThrows`, FALSE in the run, says
whether servants do that.

`RequestReply.tla` is what the client sees: a request, then its reply, with ping
backs between, and nothing else. `RcfSessionInv.tla` has the inductive invariant,
apart from the specification so that both can be read.

Abstractions: a request is its number; contents and serialization are left out;
fire times of timer entries are replaced by the entries' identity (a popped entry
is any registered one), so an entry fires at any time. An asynchronous reply
(`Amd`) is supported by the Windows transport only, whose session states call the
same handlers; the model gives it to the common session. One session is modelled:
sessions share no state but the services' heaps. A thread that something other than a
std::exception leaves ends (the bundled thread library catches it, thread.cpp:101 of
RcfBoostThreads); the model takes the thread that serves in its place for the same
worker. After the guard's reply the Amd has no parameters any more: commit() with the
result would use a null pointer, commit() with an exception replies again, which is what
`AmdCommit` does. Bounds: `MaxRequests`, `MaxEntries`.

### DynamicThreadPool.tla: threads of a pool

The state is the map of threads, `mBusyCount`, `mStarted` and the control state
of each thread in repeatTask and of the caller that starts and stops the pool.
`notifyBusy` and `notifyReady` are the hooks a task calls around its work.
`Events` names what else may happen: "early" (a request is served while start() is
still launching threads) and "throws" (an exception leaves a run of the task, so
that notifyReady is not called). Not modelled: an exception that is no std::exception,
which repeatTask does not catch either; its thread ends without leaving the map and the
count. Bound: `MaxStarts`.

### AsioServerTransport.tla: accepting and closing

A session has a phase (accepting, checking, live, rejecting, ...), which is the
step its handler is in, because the next accept is issued before the limit is
checked, so handlers of several connections interleave. `Faults` names what the
environment may do: "peerGone" (a client hangs up while it is accepted),
"acceptError" (an accept fails) and "restart" (the server is stopped and started
again without a close). The code does not recover from any of the three (section
5), so `faulted` remembers the first, and `OneAccept`, `LimitHolds` and
`AcceptsAgain` are claimed until then; `CloseEnds` is claimed throughout.

### IocpServerTransport.tla: accepting on Windows

Another design for the same task: a thread of its own (`acceptor`, where it is in
cycleAccepts and generateAccepts) keeps a stock of accepts pending, and the threads
of the pool take completions in any order. `mQueuedAccepts` is the count of
the stock and `mSessions` the set the limit is checked by, each under a mutex of its
own; `phase` says for each session state which step of its life is next. An accept
is posted (`PostAccept`) before it is counted (`CountAccept`), a completion counts
down and checks the limit in one critical section (`OnAccept`), and the
destructors of a session state are two steps (`DestroyAccepting`, `Unregister`).
The count is unsigned, with `Modulus` values. `server` is how far stop() is:
`StopAccepts` is the stop functor of the acceptor, `Close` what onServerStop does
when all threads are joined.

`Faults` are a client whose address is refused ("denied"), an accept that throws,
a client connection the application converts into a session, and an Amd that is
committed only when its connection is over ("held"). `past` remembers them, as well
as two races: "early", an accept that completes before it is counted, and "missed",
a notification of stopAccepts that comes before the acceptor waits. Each property
names those it is not claimed for; section 5 shows that it has to.

Not in the model: messages, which are RcfSession's; a transport without a port,
whose acceptor only waits; reflection; named pipes, whose server keeps its own count
and recycles sessions. Seen on the way: onCompletion drops mThisPtr without a
lock (IocpServerTransport.cpp:930), which may be that of an operation another thread has
just begun. Bounds: `Sessions`, `MaxFaults`; a connection is converted, and a
session held, once.

### RcfServer.tla: the life of a server

`Callers` are application threads, each in one call with its own program counter;
the mutexes are their owners. The services are started and stopped from
the copies of the table that the code makes. A service has one task with
a FixedThreadPool of one thread, which is what TaskEntry makes. `OwnFlag` are the
services whose stop functor raises a flag of their own; `Resets` those of them
that take it down in onServerStop. The server's transport is a service outside
OwnFlag: only the server's flag ends its thread. The calls the application makes
are chosen by the constant `Ops`, so that a run can leave out what a known defect
(section 5) breaks.

Not in the model: the start callback, the map of stubs, `stop` called by one of
the server's own threads (it joins itself).

### PingBackService.tla: the timer heap, the clock and the cycle

`mTimerHeap` is the set of entries, `mBaseTimeMs` what their order is measured
from, `now` the clock of `Modulus` values. `RegisterSession` and `StoreEntry` are
the two steps of registerForPingBacks, `ClearEntry` and `UnregisterSession` those
of unregisterForPingBacks; the thread goes through `Rebase`, `PopExpiredEntry`,
`SendPingBack`, `AddNextEntry`, `NothingExpired`, `Sleep` and `Wake`. A session
is here its call and `mPingBackTimerEntry.first`; the writing of the ping back is
in RcfSession.

Abstractions and bounds:

* The vector with std::push_heap and pop_heap is a set with a least element. That
  is right only while no two entries change places: RebaseKeepsOrder, which is
  proved, is what the code needs as well.
* `Second` stands for three constants of 1000 ms: the time to the first ping, the
  least interval and the longest sleep (the functor of the task is called with
  1000). `Slack` is the 10 s and `RebaseAfter` the hour of rebase(). Their real
  values satisfy `ClockAssumption`; the ones of the run do so at about a
  hundred-millionth of the size.
* Time passes in a sleep; while the thread is awake, or late to wake up, it passes
  for `MaxDelay` ticks at most. The mutex of the heap is held within one action.
* `PromptSessions`: if it is TRUE, a session stores its entry before that entry
  expires. It bounds what CallHasEntry is claimed for (section 5 says why) and
  nothing else.
* The code computes the clock from whole seconds outside Windows, so it steps by
  1000. Such a step is `Second` ticks with no step of a thread between, for which
  `MaxDelay` has to be that long: the proofs allow it, the run does not.
* The stop flag of the service is in RcfServer (`OwnFlag`), not here.

### ClientCall.tla: a stub's calls, its connections and the server's answers

One application thread makes calls and connects (`op`, `phase`, `io`: where it is
in ClientStub::call, in connecting or in the negotiation of filters). The state
of the stub is `mConnected`, `mRcfRuntimeVersion`, `mTries`, the request and
`mEncodedByteBuffers`, for the caller's stub and for the copy of it that asks the
server for filters. A message goes in two parts (`pos`), so a time-out, a lost
connection or a cancel can come between; `half` and `cut` say that a stream ends
or begins within a message, which is the framing of both directions.

The server's end of each connection is what `RequestReply` promises of a session,
with decodeRequest's refusals, ping backs and the filters it has granted; that
RcfSession keeps that promise is checked and proved there. `RemoteCall.tla` is
what the caller is promised: a call is executed at most once, and one that
returns has been executed before. The mapping (`Promise`) reads the caller's
results and the server's executions; `KeepsPromise` is the refinement. `ClientCallInv.tla`
has the inductive invariant behind the proofs (section 6).

`Connects` says when the application calls connect() explicitly; "clean" leaves out
the one case in which that goes wrong (section 5). The version numbers matter by
their header version and their order only; the run's client is newer than its
server, so that every first call is refused and tried again. Not here: batches
(sendBatch), datagrams, several endpoints, calls on one stub from several threads
(the stub is not made for them), user data. Bounds: `MaxCalls`, `MaxConns`,
`MaxPings`.

### AsyncCall.tla: asynchronous calls

`taken` and `holds` give each of the three threads of AmiThreadPool what it handles
and the mutex it has; `ops` are overlapped operations, `heap` timer entries;
`gen` numbers the OverlappedAmi objects, since close() makes a new one and
handlers of the old ones may still be waiting (the invariant of the proofs is in `AsyncCallInv`). The application calls,
cancels and disconnects meanwhile; disconnect() is two steps, since it holds one mutex while it
waits for the other (`Detach`).

Abstractions: the timer of a call does not expire while the call that sets it is
still running; the timer's handler is one action, with its mutex. Only Windows
builds have this code: elsewhere it asserts. Not modelled: asynchronous oneway
calls, connectAsync and waits for filters, start and stop of the pool, and two
hazards outside the calls themselves: cancel() of a transport that no stub is
bound to dereferences a null pointer, and callAsync does not signal a waiting
thread where it throws (Marshal.hpp:1485), so that thread waits on. Bounds:
`MaxCalls`, `MaxAppOps`, `MaxPings`.

### ObjectFactory.tla, FileTransfer.tla: tokens, objects, uploads

`mAvailableTokens` and `mStubMap` are the service's, `sweep` and `taken` its
clean-up, `pc`, `newToken`, `ref` and `cached` the thread that serves a client's
request, `token` and `mine` what the client believes. Taking a token and filling
the map are two actions (`NewObject`, `AddObject`), as are dropping an object and
returning its token (`SweepObject`, `SweepReturn`); a request holds a reference
between finding an object and ending. `Age` lets an object's time-out pass.

FileTransfer adds the uploads, their files on disk, the client's loop and its
reconnections. `streamPos` is where the stream of an upload stands and `file` what has
got to the disk: the chunks, each with the client that sent it and its place. That the
two differ is the point: the stream accepts a chunk (`Accept`) and either it gets to the
file (`ToFile`) or the failure shows at once (`WriteFails`), when tellp is asked for the
next chunk (`Refuse`), or where nothing looks at it, in the tellp after the write or in
close (`FlushFails`, FileTransferService.cpp:441 and :444); `unnoticed` remembers that.
The name of a temporary file is drawn and tested in one step (`PrepareUpload`) and
opened in another (`OpenUpload`): `tested` is what the test has seen, `Found` the files
that may have got the same name since, `path` whose file an upload writes to, and opening
a file empties it for all who have it open (`Truncate`). An upload is named by its token,
and a client that comes back over a new session finds it by that. A chunk from any other
session than the first one's is refused (`ConcurrentUpload`), and so is one for another
place than where the stream stands (`AtOffset`). The inductive invariant is in
`FileTransferInv`.

A token is given again after its object has timed out; that is the design. What
is claimed is that nobody is mixed up by it: a client reaches its own object until
its time-out, and a complete file has the chunks of one client, all of them, each in its
place. The time-out of an object is taken to be longer than a thread needs from storing
an upload to finding it, within one request (`Passes`, FileTransferService.cpp:364-380).

`StaleDeletes` is FALSE in the run: clients delete before the time-out (section 5).
`SameNames` is FALSE: no two threads draw the same name between one's test and its open.
Nothing in the code sees to that (where rand() has a state for each thread, as in
Microsoft's library, threads even begin with equal sequences); section 5 shows what
happens otherwise, and there the model keeps a file while a stream has it open, although
elsewhere than on Windows the destructor of the one upload removes the other's file.
One client reconnects; all files have one size. Uploads without a token (they are
found by their session), downloads and session objects are not modelled.
Seen on the way and not modelled: a file without bytes uploads nothing;
downloadFile can go round without reading (ClientStub.cpp:866-905); createObject
notifies its callback without the mutex; removeStubFactory erases end() if the
name is not there (ObjectFactoryService.cpp:288); locateStubEntryPtr throws
outside of the try block (RcfServer.cpp:1178); a service of no tokens divides by
zero. Bounds: `MaxObjects`, `Chunks`, `MaxUploads` (an upload begins
only while there have been fewer), `MaxFailing` (the
stream of the first object may fail; the safety properties hold with all three as well,
in 7.4 million states).

### PublishSubscribe.tla: publisher, subscribers, connections

The publisher has its sessions (`session`), the list `mClientTransports` and, during
send(), the list that is visited (`sending`) and what stays of it (`sent`). A
subscriber's application subscribes and ends (`phase`, `conn`), while its session
reads (`reading`) and calls the object (`calling`). SessionTimeoutService is the
action `Disconnect`: it closes the socket of a subscribed session at any time.

Abstractions: one topic and one publishing thread; a message is its number; a
connection takes `Window` messages; what a subscriber has not read is lost when it
closes. `ReusesFds` and `Resubscribes` are FALSE in the run: each is a defect
(section 5). Seen on the way and not modelled: sessions outlive the transport
they post on (SubscriptionService.cpp:111, AsioServerTransport.cpp:752,
SessionTimeoutService.cpp:86); endSubscribe out of the object's own call waits for
itself (:276); onDisconnect may run after endSubscribe has returned; publish() uses
a reference into the map of topics after leaving its mutex
(PublishingService.cpp:44). Bounds: `MaxConns`, `MaxPublished`.

### SspiFilter.tla: authentication and protection

Each end has a filter (`filter`, with the names of SspiFilter's members) between
the transport above (`user`) and the socket below. All calls between them are
actions that do what the code does until it returns; reads and writes below take
any number of units, and a unit stands for a few bytes. Schannel differs in how
it frames (records instead of blocks with a length, so a read may take in the
beginning of the next record, `remaining`) and in how its handshake ends.

The security functions of the operating system are external: tokens go by turns, a
refused one fails. A failing call leaves the size of its output token as it was;
if it did not, a client would go on as if accepted (SspiFilter.cpp:1560). Not
modelled: credentials, certificates, impersonation, the limit on recursion (which
is also set for asynchronous clients, comment at SspiFilter.cpp:630), the reset of
a filter for a new connection, the byte that a server with asio writes when it refuses
a first Schannel token (the placeholder of resizeWriteBuffer(0), SspiFilter.cpp:940;
the assertion at :658 then fails), a client that refuses its server, blocks of no
length (they would loop in completeReadBlock) and reads into no buffer by message
filters. What a client's length is compared with includes the overhead of the
protection, so a message just within the limit is refused (SspiFilter.cpp:845);
the model does the same. Bounds: `MaxCalls`, `MaxAborts`, the packages of the run.


## 4. Runs

The bounds are small because what can race is a pair or a triple of threads, or
two ends of a connection.

| run | asks | instance |
|---|---|---|
| RcfSession | the assertions on mIoState, one operation at a time, a quiet servant after endSubscribe, callbacks after the reply, refinement of RequestReply, timer entries go away (liveness), without ping backs every request is answered and the session reads again (liveness) | two workers, two requests of every kind: one can be in its end while the next is read; three timer entries: one of each request and a renewed one; `uses` says whether the client of the connection sends oneway requests or asks for ping backs |
| ThreadPool | a spare thread while it runs, quiet after stop, stop ends (liveness) | three threads, target one, at most two, so that a thread retires and one is launched in its place; tasks that throw; two starts |
| PingBackTimers | ping backs in time, no call loses its entry | two sessions with an interval of a second or more, a clock of 21 ticks that wraps between any two steps |
| AsioAccepts | one accept, limit kept, the server accepts again (liveness), each until a fault; close ends (liveness) | six connections, limit two: the limit, one more, handlers in between; every fault |
| IocpAccepts | limit kept, the server accepts again (liveness), stop returns (liveness), but for the races and faults named | four session states, limit one, a stock of two: one accept beyond the limit and one more; every fault, one at a time |
| ServerLifecycle | services of a started server run, a stopped one is quiet, every call returns (liveness) | three callers, a transport in the table and a service added by a call |
| ServerAll | a started server is open and no waiter misses its event | two callers, two services, removal, start in the caller's thread, waits |
| ClientCalls | streams in step, nothing owed to the next call, filters agree, at most one execution (refinement of RemoteCall), calls end (liveness) | two calls, two connections, oneway or not, filters, one ping back, a server one version older |
| AsyncCalls | a call ends once, by its own operation or timer, and ends (liveness) | two calls of each kind, one cancel or disconnect, every answer |
| Objects | a token in one place, a client reaches its object, uploads intact, tokens come back (liveness) | two clients, two tokens, three objects: one token is used again; files of two chunks, two uploads at a time, the stream of the first object may fail anywhere, a client whose connection ends |
| PubSub | messages in order and whole, no call after endSubscribe, the publisher learns of each subscriber that goes (liveness) | two subscribers, two connections, two messages |
| FilteredCalls | what comes out is what went in, a client goes on only if accepted, each call ends (liveness) | two calls, handshakes of one to four tokens, the first or the third refused, Schannel, blocks over the limit, one aborted operation |

Each property has a mutant in `PROJECT.json`: a change of a mapped definition, of the
kind a slip in that code would be, with which its run finds it violated.

Three configurations have a VIEW. ServerLifecycle and ServerAll leave out the
operation and the argument of a call that has returned, which no action reads
again. PingBackTimers gives all times as distances from `now`: actions and
properties compare differences only, so states that differ by a shift of all times
behave alike. The sessions of that run are symmetric, and it has no liveness
property. The other symmetries of the MC modules are for larger instances without
liveness.

Deadlock is checked in PingBackTimers and AsioAccepts. It is off in the others,
where callers that have made their calls, a session that has ended, or clients
that have used up their bound are proper ends; there the liveness properties say
that nobody is stuck before.

### Fairness

* Session: weak fairness of each worker's and each sender's next step, of the
  completion of posted writes, of the application's commit of an asynchronous
  reply (an Amd object that is never committed is the application's fault) and of
  the ping back cycle. The client is not fair: it need not send anything.
* Thread pool: weak fairness of every thread and of the caller of stop, and strong
  fairness of the return of a run of the task: requests may keep coming, but the timer that
  the task arms stops the demuxer. Work arrives or does not.
* Asio: weak fairness of handlers of connections, of aborted accepts and of the
  drain of the demuxer in close.
* Windows accepts: weak fairness of the acceptor, of handlers once they have
  begun, and of each step of stop(). Clients need not connect or leave, and nobody
  need call start() or stop().
* Server: strong fairness of every caller, because a mutex that is released and
  taken over and over is not starved for ever on the platforms the code supports,
  and a step that waits for a mutex is enabled only while nobody holds it. Which
  calls are made is up to the callers.
* Client call: weak fairness of the thread in the stub and of its time-out
  (mEndTimeMs is compared with the clock in every wait). Nothing of the server or
  the network: a call ends without them.
* Asynchronous call: weak fairness of the threads of the pool, of the timer, of
  disconnect's wait, and of some completion of an operation under way, as answer or as
  failure. `CallsEnd` makes two exceptions, both defects (section 5).
* Objects: weak fairness of the sweep, a thread of the server. Clients need not do
  anything.
* Publish and subscribe: weak fairness of the threads that serve the publisher's
  sessions; the subscriber and the publishing thread do as they like.
* Filters: operations below complete, transports above go on with what a filter
  hands them, and the application replies.


## 5. Findings

All of the following are properties of the modules that TLC finds violated. To see
one, change the constants of the named configuration and make the property its
only one (with `faulted` taken out of it where the table says so).

| configuration and change | property | the code |
|---|---|---|
| RcfSession, SPECIFICATION Spec of RcfSession.tla, PeerKinds = {"pinged"}, MaxRequests = 1, MaxEntries = 2 | QueuedBehindPingBack | a reply queued between the two critical sections of onWriteCompleted is never sent (RcfServer.cpp:877 and :880) |
| RcfSession, SPECIFICATION Spec of RcfSession.tla, PeerKinds = {"pinged", "oneway"} | OneOperation | onWriteCompleted of a oneway request finds mIoState Idle and sets Reading after it has left the lock; a late ping back takes the connection in between, and both post on it, against the assertion of AsioSessionState::postWrite |
| RcfSession, AmdThrows = TRUE | ExchangeSpec, IoStateAssertions | a servant that has created an Amd and throws something other than a std::exception is answered by the scope guard of processRequest (RcfServer.cpp:1185, :995), which does not look at mAutoSend, and again when the Amd is committed; the second answer also fails the assertion on mIoState (:979) |
| ThreadPool, TargetCount = 2, Events = {"early"} | CountsInRange | a request that is served while start() still launches threads makes the pool launch one too many |
| ThreadPool, TargetCount = 2, Events = {"throws"} | CountsInRange | an exception skips notifyReady, so a thread that ends while stop() works stays counted as busy |
| ThreadPool | AllJoined | a thread that retires leaves the map at once and may still run its deinit functors after stop() has returned |
| PingBackTimers, Intervals = {1, 7}, Modulus = 31, Slack = 3, RebaseAfter = 6 | InTime | rebase() puts the base ten seconds before the top; where that is ahead of new entries they wrap around, and a first ping waits behind an entry of a long interval (Heap.hpp:149) |
| PingBackTimers, Sessions = {s1}, PromptSessions = FALSE | CallHasEntry | the entry is in the heap before it is in mPingBackTimerEntry; if the clock reaches it in between, it is dropped and the call goes without ping backs (RcfSession.cpp:258) |
| AsioAccepts, without `faulted` | OneAccept | a client that hangs up at the wrong moment ends the chain of accepts (TcpAsioServerTransport.cpp:123), and so does an accept that fails, against the comments at AsioServerTransport.cpp:184 and :464 |
| AsioAccepts, Faults = {"restart"}, without `faulted` | RejectsOnlyAtLimit | each restart leaves one more accept pending (AsioServerTransport.cpp:965), which the limit then counts as a connection |
| AsioAccepts, Faults = {}, Limit = 1, five sessions | LimitAssertion | the assertion on the number of sessions in onAccept does not hold while several handlers are in it |
| IocpAccepts, Faults = {} | LimitKept | an accept that completes before generateAccepts has counted it takes the unsigned count below zero, and the check of the limit, made where the count is 0, is skipped (TcpIocpServerTransport.cpp:161 and :742) |
| IocpAccepts, Faults = {} | RejectsOnlyAtLimit | the count lags behind the accepts that are pending, so a client can be turned away before the limit is reached |
| IocpAccepts, Faults = {"denied"} or {"throws"} | StaysOpen | a refused client is counted down twice, by implOnAccept and by the destructor (:154, :58), an accept that failed once without having been counted: the acceptor takes the count for a full stock and waits for ever |
| IocpAccepts, Faults = {} | NoMissedStop | stopAccepts sets its flag and notifies without the mutex (:709), so the acceptor may begin to wait afterwards: stop() joins it for ever |
| IocpAccepts, Faults = {"held"} | CloseFindsSessions | close() locks the weak pointer of a session state whose destruction an Amd has begun and uses the null pointer (IocpServerTransport.cpp:910) |
| ServerAll, Ops = {"open", "start", "stop", "close", "add"}, Initial <- First | ThreadsAfterOpen | a service added to a running server is started and never told that the server opened |
| ServerAll | StoppedWithFlag, QuietWhenStopped | removing a transport from a running server waits for a thread nobody tells to stop; a service removed while the server starts gets a thread nobody joins |
| ServerLifecycle, Ops = {"start", "stop", "close"} | NoLockUp | start() locks mStartedMutex and then mOpenedMutex, close() the other way round: they can wait for each other for ever |
| ServerLifecycle, Resets = {} | ServicesRun | the ping back and the time-out service take their stop flags down in onServiceAdded only, so they do not run after a restart |
| ServerAll, Ops = {"start", "stop", "runHere"} | NoThrow | startInThisThread() without a functor leaves an empty functor behind, and every stop() throws |
| ServerAll, Ops = {"stop", "runHereJoined"} | RunnerJoined | stop() misses a thread that has yet to register its functor |
| ClientCalls, Connects = "any" | NothingOwed | a request that could not be sent stays in mEncodedByteBuffers, and an explicit connect() sends it before the first call |
| ClientCalls, AutoVersioning = FALSE | NothingOwed | a client that is newer than its server and does not try again leaves the refusal of a oneway call on the connection; the next call takes it for its own and leaves its own behind, and so on |
| AsyncCalls, AppOps = {} | NoStrayTimer | the assertion of onTimerExpired fails: a timer that has expired while the call ended finds no reason for it |
| Objects, StaleDeletes = TRUE | Reachable | deleteObject does not check whose object the token names by now: a delete after the time-out destroys another client's object (ObjectFactoryService.cpp:165), which ObjectFactoryService.hpp:171 promises to keep |
| Objects, SameNames = TRUE | UploadIntact | two uploads that draw the same name before either opens its file share one file: the second open empties it (FileTransferService.cpp:252-256), even if the first upload is complete by then |
| PubSub, ReusesFds = TRUE | InOrder | the multicast transport writes to the descriptor of a session that the time-out service has closed, which may be another connection's by then (BsdClientTransport.cpp:429) |
| PubSub, Resubscribes = TRUE | NoCallAfterEnd | an object subscribed anew after a lost connection takes over the entry of the old subscription (SubscriptionService.cpp:143), whose session may still call it after endSubscribe, against the comment at :271 |
| FilteredCalls, Transport = "asio" | ExchangeEnds | a server that refuses a Schannel client writes an empty block; asio's transport does not close the connection on that, as Schannel.cpp:301-303 expects, so both ends wait |

The passing configurations leave out what one of these breaks, and only that. Where
no configuration can leave it out, the property says so itself:

* `NothingOwed` is claimed of servers that accept oneway requests: a refused one is
  answered, and the next call reads that answer as its own (RcfServer.cpp:794).
* `CallsEnd` of AsyncCall is claimed of calls without a ping back, which takes the
  call's timer away (Marshal.cpp:331), and unless disconnect() and a handler have
  taken each other's mutex (`LockedUp`, ConnectionOrientedClientTransport.cpp:948).
* `LimitHolds`, `AcceptsAgain` and `StopReturns` of the Windows transport each
  name the events above after which they are not claimed; all of them happen in the run.
* `UploadIntact` is claimed of uploads whose stream has had no failure where
  uploadChunkImpl does not look (`unnoticed`): in close, whose result is not tested before
  mCompleted is set, or in the tellp after the write, which gets the buffer to the file
  and, where it fails, leaves the upload incomplete while the client has its Ok
  (FileTransferService.cpp:438-448). The first makes findUploadedFile hand out a short
  file, which it promises not to (FileTransferService.hpp:93); the run has both.
* `CallsReturn` of the server is claimed unless `LockedUp`, the finding NoLockUp.

ClientCall also does, as the code does: with a message filter the control messages
go unfiltered and are refused (MethodInvocation.cpp:696), for which
`MessageFilters` is FALSE; a failed negotiation forgets the transport's filters
(Marshal.cpp:176-188); a request with header version 3 is accepted
(MethodInvocation.cpp:192); a failed connect() leaves mConnected set.


## 6. Proofs

All theorems are about the specification with arbitrary constants that satisfy the
ASSUMEs of its module.

* `RcfSession_proof`: types and a quiet servant for every instance. With `NoMix`
  (ping backs and oneway requests do not meet on a connection; the run's `uses` sees to
  the same) and `~AmdThrows` (section 5 shows why either is needed): the inductive invariant of `RcfSessionInv`, and from it that one operation
  is posted at a time, that the assertions on mIoState hold, that callbacks follow
  their reply, and that the session implements `RequestReply`
  (`ExchangeImplemented`: each step maps to a step of the exchange or a stutter).
  The invariant says who may touch the connection: exactly one of the posted
  operation, a worker between its sections, or the holder of the request.
* `DynamicThreadPool_proof`: without "early" types, a spare thread while the pool
  runs, quiet after stop, an empty map when stop has joined, and the bounds of the
  counts while the pool runs (`CountsWhileRunning`); with no event at all the
  bounds at any time (`CountsInRange`). The counting goes by cardinalities of the
  sets of threads at each step.
* `Transports_proof`, accepting: until a fault one accept is outstanding, the
  limit is kept and nobody is turned away early; with any fault the limit is
  exceeded by one at most (`LimitNearly`). The invariant counts the connections in
  phases: the size of mSessions is the number of handlers, live, rejected and
  accepting ones, and the check with == is safe because a session is counted before
  the next check can pass.
* `IocpServerTransport_proof`: for any limit, stock of accepts and number of
  session states, the limit is kept while the count of accepts is right, and is
  exceeded by one at most whatever becomes of the count, converted connections
  excepted. Two parts of the invariant carry it: what is registered and what is
  planned never exceed Limit + 1 (`RoomKept`), since a session state leaves only for good
  and generateAccepts plans from what is registered; and the count is the number of
  pending accepts less the one not yet counted (`CountRight`). A client
  is let in either while another accept is pending, which has the place over the
  limit, or with the count at 0 and the size checked (`AcceptKeepsLimit`).
* `RcfServer_proof`: for any number of callers, any services and every call, a
  started server is open (`OpenInv`: who holds which mutex and what it has seen:
  close() reaches its end only when no start() is past its open()); and nobody sleeps
  through the notification of a stop (`NoLostWakeUpHolds`; a waiter found the flag down
  under the mutex under which it is raised, `WaitersKnown`). If no
  service is removed, no internal thread runs between a stop and the next start
  (`ThreadsKnown`: the running threads are in the table, and behind a stop()
  that works they are among the services still to be joined). If services are only
  added (`AddOnly`) and each thread takes its stop flag down itself, a started server
  runs every service of its table (`ServicesRunHolds`): each has its
  thread, or the start() in progress has yet to come to it (`StopsKnown`), or its own addService
  has yet to launch it (`LaunchesKnown`), which is decided under the mutex of the table.
  Section 5 shows what happens without either hypothesis.
* `Timers_proof`, ping backs: for any clock, any number of sessions and any delays that
  `ClockAssumption` allows. A call in progress keeps its timer entry, whatever
  intervals the clients ask for, if sessions store their entries in time
  (`CallHasEntryHolds`, from the invariant `CallInv`). If no interval is longer
  than `Slack + Second` (`ShortIntervals`; section 5 shows why), the order of the
  heap is the order of time, moving the base keeps it, and no ping back is late by
  more than twice `MaxDelay`. The invariant `IInv` bounds the signed distance from the
  base to now (`Lag`) and from now to each entry (`Ahead`); their sum is an entry's
  key, is never negative and does not change while time passes. Unsigned
  differences are reduced to these by lemmas about `Minus` and `Plus`.
* `Services_proof`, publishing and subscribing (`PublishSubscribeInv`): after endSubscribe the object is not called, for any
  number of subscribers, connections and messages, if objects are subscribed again
  only after endSubscribe (`~Resubscribes`; section 5 shows why). NoCallAfterEnd is
  not inductive: the invariant adds which stages of a subscription have a
  connection (`Stages`), that the connection is the subscriber's own (`OwnConn`) and that
  only the current one can be calling (`Current`), which is where mStopCallInProgress
  comes in: whoever sets it waits for the call, whoever reads afterwards sees it.
* `Services_proof`, order: whatever subscribers come and go, each hears what is
  published, in order and without a gap, from its first message on (`InOrderHolds`), if
  a descriptor is not used again while the list has it (`~ReusesFds`; section 5 shows
  what happens then). The invariant follows a message from the list to the
  subscriber. What a connection carries and what its subscriber has heard form one chain
  of successive numbers (`Chain`); the chain ends with the last message published, or
  the session is one that the publication in progress has yet to come to, which lacks
  exactly that message (`UpToDate`); each session is in the list, in what
  is being worked through, or in neither, but never in two (`Lists`); and a descriptor belongs
  to the session it was given to (`Descriptors`), so that whatever is written to it
  lands at the end of that session's own chain (`SentBy`).
* `Services_proof`, file transfer: for any number of clients, tokens, objects, chunks and sessions,
  if clients delete before the time-out (`~StaleDeletes`; section 5 shows why), a token
  is in one place and a client reaches its object; and if no two threads draw the same
  name at a time (`~SameNames`), a complete file is what its client has sent, unless its
  stream has failed unnoticed (`UploadIntactHolds`). The invariant is in `FileTransferInv`. Under its token a client may
  find the object of somebody else, once its own has timed out; what keeps files
  apart is that it then finds none of its own (`Finds`), that the first chunk does find
  its own, and that a file with a chunk belongs to a session of its owner (`Files`).
  So whoever passes the check of FileTransferService.cpp:396 for a file that has been
  begun is its owner, and whoever passes it for an empty one, with the first chunk, too.
  The disk is a second invariant on top of that (`DiskInv`): an upload has a file of its
  own (`OwnFiles`), in which are the owner's chunks up to where the stream stands (`Intact`).
  Failures elsewhere, and all that happens to tokens and sessions, leave it alone.
* `ClientCall_proof`: for any number of calls, connections and ping backs, any
  versions of client and server, with and without filters, oneway calls and the
  retry of a refused version, if connect() never sends what an earlier call has left
  (`Connects # "any"`; section 5 shows why): both ends put the transport filters on between the
  same two messages (`FiltersAgreeHolds`), and the calls implement `RemoteCall`
  (`PromiseKept`: each step starts, executes, returns or ends one call, or is a stutter).
  Each call finds a stream that is in step and on which nothing is owed
  (`StreamCleanHolds`), if refused calls are tried again or no call is oneway
  (`RefusalsRetried`). The invariant of `ClientCallInv` says what a connection
  carries in each place of the stub (`Exchange`): while the client waits, its request is
  the last on the connection, or with the servant, or answered by the last message
  (`Awaits`); otherwise there are only refusals and requests that nobody waits for (`Quiet`).
  A call is executed once because at most one copy of it can still be accepted, over
  all the connections it has been sent on (`OneCopy`), none once it has been executed,
  and none while it can still be sent again (`Untouched`): a second try
  is made only of a request the server cannot have accepted. The filters agree because
  a request for filters is the last message without them (`Switch`), and the client
  sends nothing before it has read the answer (`Agreed`).
* `Timers_proof`, asynchronous calls: for any number of calls of each kind, whatever the
  server sends and whenever the application cancels, disconnects or calls again from a
  callback, a call is ended once, by an operation or timer of its own
  (`EndedOnceHolds`). EndedOnce is not inductive: `AsyncInv` adds that a handler at work has the
  mutex of the current OverlappedAmi to itself and handles what was started with
  it (`Mutexes`), that at most one operation can still be heard of, which is the current
  call's, and none once that call has ended or while waitAsync has only a timer
  (`OneHeard`), that a callback still in the stub is one that has not run, of the current
  call (`Callbacks`), and that the transport's timer entry is the current call's: the timer
  outlives its call, and what keeps it from ending the next one is that this one sets another.

* `Transports_proof`, filters: for any packages (handshakes of any number of tokens, any
  overhead of the protection), any lengths of headers, tokens and messages, any token
  refused, whatever the reads and writes below move and wherever they stop, what comes
  out of an end is what the other has written, in order and once (`DeliveredHolds`), and a
  client goes on only if the server has accepted it (`AgreementHolds`). The invariant
  `FilterInv` is about what is on its way into an end (`Stream`): what its filter has
  read and not dealt with, what is on the wire and what the other filter still has to
  write, unit by unit. In the handshake that is nothing, one token (`Asked`,
  `AnsweredBy`) or the server's own block (`Verdict`), and the state of either end
  follows from which it is; nothing of the application's is on its way
  before both ends have a context (`Handshake`). Afterwards it is a run of whole blocks,
  apart from the first, which may have been read in part, whose data continue what has
  been delivered and end with what has been sent (`DataStream`): a read that ends
  inside a block or takes in the beginning of the next, and a read of the application's
  served out of a decrypted block, move units between the parts of the stream and
  leave the whole as it was. What it says of a filter and of the way into it holds
  while that end has its connection open: a filter that throws takes down its own end only.
  `TotalAssumption` (a message that has buffers, none of them empty, is not empty) follows from
  `ConstantsAssumption` by an induction over the message, which is beyond the prover;
  TLC evaluates it.

The invariants that carry these proofs (`TypeOK`, `IInv`, `OpenInv`, `CallInv`, `FilterInv`
and their parts) were model-checked before they were proved; a run need not repeat
that. Every invariant that a run checks is proved. What stays with TLC is
liveness, which the prover cannot do (the temporal properties of section 4 under
fairness), and whatever section 5 says of configurations that violate a theorem's hypotheses.


## 7. Not modelled

`components` in PROJECT.json lists every part with its status and reason.

* Windows server transports: the accept side is modelled. Their session states read
  and write messages by the handlers that RcfSession has, and what a filter sees
  of them is in SspiFilter; reflection and named pipes are left out.
* Datagrams: one socket, one packet at a time, no connection and no state to keep in
  step. Local sockets and named pipes for clients differ from TCP in calls to the
  operating system.
* Zlib and OpenSSL filters: buffers around an external library, with a loop of
  reads and writes much as SspiFilter's. One thing was seen: a read served out
  of leftover data does not set mBytesRequested (ZlibCompressionFilter.cpp:168-171),
  which matters to reads into no buffer only.
* Client batches, remote call contexts, endpoint broker: thin layers above calls that are
  modelled.
* The read-write mutex and the pools of buffers: used by the parts above as if correct.
* Without state of its own, vendored or generated: Boost.Threads, the marshalling
  templates and preprocessor code (Idl.hpp, most of Marshal.hpp), serialization (SF),
  endpoints, logging, errors, command lines and test support.
* External: the handshakes and ciphers of OpenSSL and of Windows, the codec of zlib.
* The bridge itself: a sequential program that sorts and prints names.
