----------------------------- MODULE AsyncCall -----------------------------
(***************************************************************************)
(* Asynchronous calls of a client stub, as built for Windows: requests and *)
(* answers are overlapped operations, whose completions the threads of     *)
(* AmiThreadPool.cpp handle, and a wait has an entry in its timer heap.    *)
(* A handler runs under the mutex of the OverlappedAmi its operation or    *)
(* timer was started with.  close() detaches that object from the          *)
(* transport and makes a new one: `gen' numbers them.                      *)
(***************************************************************************)
EXTENDS Naturals, FiniteSets

CONSTANTS Kinds,      \* the calls made: of {"callback", "future", "wait"}
          AppOps,     \* what the application does meanwhile: of {"cancel", "disconnect"}
          Answers,    \* what the server sends: of {"answer", "mismatch", "ping", "garbage"}
          MaxCalls, MaxAppOps, MaxPings   \* bounds

ASSUME ConstantsAssumption ==
    /\ Kinds \subseteq {"callback", "future", "wait"}
    /\ AppOps \subseteq {"cancel", "disconnect"}
    /\ Answers \subseteq {"answer", "mismatch", "ping", "garbage"}
    /\ {MaxCalls, MaxAppOps, MaxPings} \subseteq Nat

Calls == 1 .. MaxCalls
Pool == {"io", "connect", "timer"}      \* the threads of AmiThreadPool
Threads == Pool \cup {"app"}
None == [kind |-> "none", gen |-> 0, call |-> 0]

VARIABLES
    \* ClientStub
    mConnected, mAsyncTimerReason, mAsyncTimerEntry, mAsyncCallback, mSignalled, mTries,
    \* ConnectionOrientedClientTransport
    gen,         \* number of its OverlappedAmi
    open,        \* ~mClosed
    bound,       \* mClientStubCallbackPtr is set
    mTimerEntry,
    \* the operating system and AmiThreadPool
    ops,         \* overlapped operations under way
    heap,        \* mTimerHeap
    taken,       \* what each thread of the pool handles: an operation or an entry
    holds,       \* the OverlappedAmi whose mutex a thread has, 0 if none
    inCallback,  \* the call whose callback the thread runs, 0 if none
    \* the application
    app,         \* "idle", or "detaching": in disconnect(), with mOverlappedPtrMutex
    ncalls, kindOf, appOps, pings,
    ran,         \* how often the callback of a call has run
    dropped,     \* calls that disconnect() has ended
    endedBy      \* the call whose operation or timer has ended a call, 0 if none has

stubVars == <<mConnected, mAsyncTimerReason, mAsyncTimerEntry, mAsyncCallback, mSignalled, mTries>>
timerVars == <<mAsyncTimerReason, mAsyncTimerEntry, mTimerEntry, heap>>
connVars == <<gen, open, bound, mConnected>>
threadVars == <<taken, holds, inCallback>>
appVars == <<app, ncalls, kindOf, appOps>>
endVars == <<mAsyncCallback, mSignalled, ran, dropped, endedBy>>
asyncVars == <<timerVars, connVars, threadVars, appVars, endVars, mTries, ops, pings>>

AsyncInit ==
    /\ mConnected = FALSE /\ mAsyncTimerReason = "None" /\ mAsyncTimerEntry = None
    /\ mAsyncCallback = 0 /\ mSignalled = FALSE /\ mTries = 0
    /\ gen = 1 /\ open = FALSE /\ bound = FALSE /\ mTimerEntry = None
    /\ ops = {} /\ heap = {}
    /\ taken = [t \in Pool |-> None]
    /\ holds = [t \in Threads |-> 0] /\ inCallback = [t \in Threads |-> 0]
    /\ app = "idle" /\ ncalls = 0 /\ kindOf = [c \in Calls |-> "none"]
    /\ appOps = 0 /\ pings = 0
    /\ ran = [c \in Calls |-> 0] /\ dropped = {} /\ endedBy = [c \in Calls |-> 0]

-----------------------------------------------------------------------------
(***************************************************************************)
(* Parts of the handlers                                                   *)
(***************************************************************************)

\* The mutex of OverlappedAmi g is not another thread's.
Free(g, t) == \A u \in Threads \ {t} : holds[u] # g

\* A new entry: its time and its OverlappedAmi tell it apart from the others.
NewEntry(reason, c, g) ==
    [kind |-> "timer", gen |-> g, call |-> c, reason |-> reason, try |-> mTries']

\* Mutant of SetTimer: the entry is not added to the heap when another is killed.
SetTimerOnce(reason, c, g, killed) ==
    LET e == NewEntry(reason, c, g)
    IN  /\ mAsyncTimerReason' = reason
        /\ heap' = IF killed = {} THEN heap \cup {e} ELSE heap \ killed
        /\ mAsyncTimerEntry' = e /\ mTimerEntry' = e

\* setTimer for call c: AmiThreadPool has the entry, and the stub and the
\* transport remember it.  The entries `killed' have been removed before.
SetTimer(reason, c, g, killed) ==
    LET e == NewEntry(reason, c, g)
    IN  /\ mAsyncTimerReason' = reason
        /\ heap' = (heap \ killed) \cup {e}
        /\ mAsyncTimerEntry' = e /\ mTimerEntry' = e

\* killTimer.
KillTimer(reason) ==
    /\ mAsyncTimerReason' = reason /\ mAsyncTimerEntry' = None
    /\ heap' = heap \ {mAsyncTimerEntry} /\ UNCHANGED mTimerEntry

\* Overlapped operations for call c.  The look-up of the server's name is part
\* of the first.
IssueConnect(c, g) == ops' = ops \cup {[kind |-> "connect", gen |-> g, call |-> c]}
IssueWrite(c, g) == ops' = ops \cup {[kind |-> "write", gen |-> g, call |-> c]}
IssueRead(c, g) == ops' = ops \cup {[kind |-> "read", gen |-> g, call |-> c]}

\* Thread t has what it has taken behind it and leaves the mutex.
Leave(t) ==
    /\ holds' = [holds EXCEPT ![t] = 0]
    /\ taken' = [u \in Pool |-> IF u = t THEN None ELSE taken[u]]

\* The callback, if there is one, keeps the mutex.
RunOrLeave(t) ==
    IF mAsyncCallback = 0
    THEN Leave(t) /\ UNCHANGED <<inCallback, ran>>
    ELSE /\ inCallback' = [inCallback EXCEPT ![t] = mAsyncCallback]
         /\ ran' = [ran EXCEPT ![mAsyncCallback] = @ + 1]
         /\ UNCHANGED <<taken, holds>>

\* Mutant of End: the callback stays in the stub.
EndKeepsCallback(t, by) ==
    /\ mSignalled' = TRUE /\ UNCHANGED mAsyncCallback
    /\ endedBy' = [endedBy EXCEPT ![ncalls] = IF @ = 0 THEN by ELSE @]
    /\ RunOrLeave(t) /\ UNCHANGED dropped

\* The call under way has ended: the callback is taken out and run.
End(t, by) ==
    /\ mAsyncCallback' = 0 /\ mSignalled' = TRUE
    /\ endedBy' = [endedBy EXCEPT ![ncalls] = IF @ = 0 THEN by ELSE @]
    /\ RunOrLeave(t) /\ UNCHANGED dropped

\* close(): the OverlappedAmi is detached, and closing the socket ends its
\* operations, which nobody hears of.
Close ==
    /\ gen' = gen + 1 /\ open' = FALSE /\ bound' = (bound /\ ~open)
    /\ mConnected' = FALSE

\* ClientStub::onError of anything but a RemoteException.  `reason' is what
\* mAsyncTimerReason is by then.
OnError(t, by, reason) ==
    /\ Close
    /\ IF mAsyncTimerEntry = None
       THEN mAsyncTimerReason' = reason /\ UNCHANGED <<mAsyncTimerEntry, mTimerEntry, heap>>
       ELSE KillTimer("None")
    /\ End(t, by)

-----------------------------------------------------------------------------
(***************************************************************************)
(* Calls                                                                   *)
(***************************************************************************)

\* As far as the application can know: ready(), or the callback has run.
Over(c) == IF kindOf[c] = "future" THEN endedBy[c] # 0 \/ c \in dropped
                                   ELSE ran[c] > 0 \/ c \in dropped

\* A call by the application, or by a callback, when the last one is over.
Begin(t, kind) ==
    /\ ncalls < MaxCalls /\ app = "idle"
    /\ t # "app" => inCallback[t] # 0
    /\ ncalls > 0 => Over(ncalls)
    /\ ncalls' = ncalls + 1 /\ kindOf' = [kindOf EXCEPT ![ncalls + 1] = kind]
    /\ UNCHANGED <<app, appOps, pings, dropped>>

\* The callback is kept in the stub until the call has ended.
KeepCallback(kind) ==
    /\ mAsyncCallback' = IF kind = "future" THEN 0 ELSE ncalls + 1
    /\ UNCHANGED <<ran, endedBy, inCallback>>

\* waitAsync.
WaitAsync(t) ==
    /\ Begin(t, "wait") /\ KeepCallback("wait") /\ UNCHANGED mTries
    /\ SetTimer("Wait", ncalls + 1, gen, {}) /\ bound' = TRUE
    /\ UNCHANGED <<gen, open, mConnected, mSignalled, ops, taken, holds>>

\* The stub is connected and the peer has not closed: the request is written.
CallWrite(t, kind) ==
    /\ kind # "wait" /\ mConnected /\ Begin(t, kind) /\ KeepCallback(kind)
    /\ mSignalled' = FALSE /\ mTries' = 0
    /\ SetTimer("Write", ncalls + 1, gen, {}) /\ IssueWrite(ncalls + 1, gen)
    /\ UNCHANGED <<connVars, taken, holds>>

\* A new connection.  disconnect() has closed the transport before.
CallConnect(t, kind) ==
    /\ kind # "wait" /\ Free(gen, t) /\ Begin(t, kind) /\ KeepCallback(kind)
    /\ mSignalled' = FALSE /\ mTries' = 0
    /\ SetTimer("Connect", ncalls + 1, gen + 1, {}) /\ IssueConnect(ncalls + 1, gen + 1)
    /\ gen' = gen + 1 /\ open' = TRUE /\ bound' = TRUE
    /\ UNCHANGED <<mConnected, taken, holds>>

\* The callback is run by the thread that calls.
RunAtOnce(t, kind) ==
    /\ mAsyncCallback' = 0
    /\ IF kind = "future"
       THEN UNCHANGED <<ran, inCallback>>
       ELSE /\ ran' = [ran EXCEPT ![ncalls + 1] = @ + 1]
            /\ inCallback' = [inCallback EXCEPT ![t] = ncalls + 1]
    /\ UNCHANGED <<taken, holds>>

\* The connection cannot be begun: onError, without the mutex.
CallFails(t, kind) ==
    /\ kind # "wait" /\ Free(gen, t) /\ Begin(t, kind) /\ RunAtOnce(t, kind)
    /\ mSignalled' = TRUE /\ mTries' = 0
    /\ endedBy' = [endedBy EXCEPT ![ncalls + 1] = ncalls + 1]
    /\ mAsyncTimerReason' = "None" /\ mAsyncTimerEntry' = None
    /\ mTimerEntry' = NewEntry("Connect", ncalls + 1, gen + 1)
    /\ gen' = gen + 2 /\ open' = FALSE /\ bound' = FALSE /\ mConnected' = FALSE
    /\ UNCHANGED <<heap, ops>>

\* connect() throws once it has set its timer: callAsync runs the callback, but
\* the call is not signalled and the timer stays.
CallThrows(t, kind) ==
    /\ kind # "wait" /\ Free(gen, t) /\ Begin(t, kind) /\ RunAtOnce(t, kind)
    /\ mSignalled' = FALSE /\ mTries' = 0
    /\ endedBy' = [endedBy EXCEPT ![ncalls + 1] = IF kind = "future" THEN 0 ELSE ncalls + 1]
    /\ SetTimer("Connect", ncalls + 1, gen + 1, {})
    /\ gen' = gen + 1 /\ open' = TRUE /\ bound' = TRUE
    /\ UNCHANGED <<mConnected, ops>>

-----------------------------------------------------------------------------
(***************************************************************************)
(* The threads of AmiThreadPool                                            *)
(***************************************************************************)

\* A thread takes an operation that has completed, or failed.
Take(t, o) ==
    /\ taken[t] = None
    /\ ops' = ops \ {o} /\ taken' = [taken EXCEPT ![t] = o]
    /\ UNCHANGED <<timerVars, connVars, holds, inCallback, appVars, endVars, mTries, pings>>

CycleIo == \E o \in ops : o.kind # "connect" /\ Take("io", o)
CycleConnect == \E o \in ops : o.kind = "connect" /\ Take("connect", o)

\* An entry has expired.
CycleTimer ==
    \E e \in heap :
        /\ taken["timer"] = None
        /\ heap' = heap \ {e} /\ taken' = [taken EXCEPT !["timer"] = e]
        /\ UNCHANGED <<mAsyncTimerReason, mAsyncTimerEntry, mTimerEntry, connVars, holds,
                       inCallback, appVars, endVars, mTries, ops, pings>>

\* The mutex is taken; a detached OverlappedAmi has no transport to tell.
Enter(t) ==
    /\ taken[t] # None /\ holds[t] = 0 /\ inCallback[t] = 0 /\ Free(taken[t].gen, t)
    /\ IF taken[t].gen = gen
       THEN holds' = [holds EXCEPT ![t] = gen] /\ UNCHANGED taken
       ELSE Leave(t)
    /\ UNCHANGED <<timerVars, connVars, inCallback, appVars, endVars, mTries, ops, pings>>

\* The handler has the mutex.
Handles(t, kind) == taken[t].kind = kind /\ holds[t] # 0 /\ inCallback[t] = 0

\* What a handler needs mOverlappedPtrMutex for it does not get while the
\* application detaches.
MayDetach == app # "detaching"

\* onConnectCompleted(false).
OnConnectCompleted ==
    /\ Handles("connect", "connect") /\ MayDetach
    /\ mConnected' = TRUE /\ UNCHANGED mTries
    /\ SetTimer("Write", ncalls, gen, {mAsyncTimerEntry}) /\ IssueWrite(ncalls, gen)
    /\ Leave("connect")
    /\ UNCHANGED <<gen, open, bound, inCallback, appVars, endVars, pings>>

\* onSendCompleted and receive(): the timer goes on.
OnSendCompleted ==
    /\ Handles("io", "write") /\ MayDetach
    /\ mAsyncTimerReason' = "Read" /\ IssueRead(ncalls, gen)
    /\ Leave("io")
    /\ UNCHANGED <<mAsyncTimerEntry, mTimerEntry, heap, connVars, inCallback, appVars,
                   endVars, mTries, pings>>

\* onReceiveCompleted of an answer, an exception, or a mismatch after a retry.
OnAnswer ==
    /\ Handles("io", "read") /\ {"answer", "mismatch"} \cap Answers # {}
    /\ KillTimer("None") /\ End("io", taken["io"].call)
    /\ UNCHANGED <<connVars, appVars, mTries, ops, pings>>

\* onReceiveCompleted of a version mismatch: send() once more, on a new
\* connection if the peer has closed this one.
OnMismatch ==
    /\ Handles("io", "read") /\ "mismatch" \in Answers /\ mTries = 0 /\ MayDetach
    /\ mTries' = 1
    /\ \/ /\ SetTimer("Write", ncalls, gen, {mAsyncTimerEntry}) /\ IssueWrite(ncalls, gen)
          /\ UNCHANGED connVars
       \/ /\ SetTimer("Connect", ncalls, gen + 1, {mAsyncTimerEntry})
          /\ IssueConnect(ncalls, gen + 1)
          /\ gen' = gen + 1 /\ UNCHANGED <<open, bound, mConnected>>
    /\ Leave("io")
    /\ UNCHANGED <<inCallback, appVars, endVars, pings>>

\* onReceiveCompleted of a ping back: the timer has been killed, and receive()
\* sets no other.
OnPingBack ==
    /\ Handles("io", "read") /\ "ping" \in Answers /\ pings < MaxPings /\ MayDetach
    /\ pings' = pings + 1
    /\ KillTimer("Read") /\ IssueRead(ncalls, gen)
    /\ Leave("io")
    /\ UNCHANGED <<connVars, inCallback, appVars, endVars, mTries>>

\* onReceiveCompleted of a message that does not decode.
OnGarbage ==
    /\ Handles("io", "read") /\ "garbage" \in Answers /\ MayDetach
    /\ OnError("io", taken["io"].call, "None")
    /\ UNCHANGED <<appVars, mTries, ops, pings>>

\* An operation has failed.
OnFailure(t) ==
    /\ \E kind \in {"connect", "write", "read"} : Handles(t, kind)
    /\ MayDetach /\ OnError(t, taken[t].call, mAsyncTimerReason)
    /\ UNCHANGED <<appVars, mTries, ops, pings>>

\* Mutant of OnTimerExpired: the entry is not compared with the transport's.
OnTimerExpiredAny ==
    /\ Handles("timer", "timer")
    /\ CASE mAsyncTimerReason = "None" ->
              Leave("timer") /\ UNCHANGED <<timerVars, connVars, inCallback, endVars>>
         [] mAsyncTimerReason = "Wait" ->
              /\ KillTimer("None") /\ End("timer", taken["timer"].call)
              /\ UNCHANGED connVars
         [] OTHER -> MayDetach /\ OnError("timer", taken["timer"].call, "None")
    /\ UNCHANGED <<appVars, mTries, ops, pings>>

\* onTimerExpired of the transport and of the stub.  (None is an assertion.)
OnTimerExpired ==
    /\ Handles("timer", "timer")
    /\ IF taken["timer"] # mTimerEntry
       THEN Leave("timer") /\ UNCHANGED <<timerVars, connVars, inCallback, endVars>>
       ELSE CASE mAsyncTimerReason = "None" ->
                   Leave("timer") /\ UNCHANGED <<timerVars, connVars, inCallback, endVars>>
              [] mAsyncTimerReason = "Wait" ->
                   /\ KillTimer("None") /\ End("timer", taken["timer"].call)
                   /\ UNCHANGED connVars
              [] OTHER -> MayDetach /\ OnError("timer", taken["timer"].call, "None")
    /\ UNCHANGED <<appVars, mTries, ops, pings>>

\* A callback returns.
Return(t) ==
    /\ inCallback[t] # 0 /\ inCallback' = [inCallback EXCEPT ![t] = 0]
    /\ Leave(t)
    /\ UNCHANGED <<timerVars, connVars, appVars, endVars, mTries, ops, pings>>

-----------------------------------------------------------------------------
(***************************************************************************)
(* The application, while a call is under way                              *)
(***************************************************************************)

\* cancel().  The transport must be bound; the code asserts that it is.
Cancel ==
    /\ "cancel" \in AppOps /\ appOps < MaxAppOps /\ app = "idle" /\ inCallback["app"] = 0
    /\ appOps' = appOps + 1
    /\ bound /\ Free(gen, "app")
    /\ OnError("app", ncalls, mAsyncTimerReason)
    /\ UNCHANGED <<app, ncalls, kindOf, mTries, ops, pings>>

\* disconnect(), which the destructor calls, too: detachOverlappedPtr takes
\* mOverlappedPtrMutex and then the mutex of the OverlappedAmi.
Disconnect ==
    /\ "disconnect" \in AppOps /\ appOps < MaxAppOps /\ app = "idle" /\ inCallback["app"] = 0
    /\ appOps' = appOps + 1 /\ app' = "detaching"
    /\ UNCHANGED <<timerVars, connVars, threadVars, ncalls, kindOf, endVars, mTries, ops, pings>>

Detach ==
    /\ app = "detaching" /\ Free(gen, "app")
    /\ app' = "idle" /\ Close /\ mAsyncCallback' = 0
    /\ dropped' = IF ncalls > 0 /\ endedBy[ncalls] = 0 THEN dropped \cup {ncalls} ELSE dropped
    /\ UNCHANGED <<timerVars, threadVars, ncalls, kindOf, appOps, mSignalled, ran, endedBy, mTries,
                   ops, pings>>

-----------------------------------------------------------------------------
ConnectThread == CycleConnect \/ Enter("connect") \/ OnConnectCompleted
                 \/ OnFailure("connect") \/ Return("connect")
IoThread == CycleIo \/ Enter("io") \/ OnSendCompleted \/ OnAnswer \/ OnMismatch
            \/ OnPingBack \/ OnGarbage \/ OnFailure("io") \/ Return("io")
TimerThread == CycleTimer \/ Enter("timer") \/ OnTimerExpired \/ Return("timer")

AsyncNext ==
    \/ \E t \in Threads, kind \in Kinds :
           (kind = "wait" /\ WaitAsync(t)) \/ CallWrite(t, kind)
           \/ CallConnect(t, kind) \/ CallFails(t, kind) \/ CallThrows(t, kind)
    \/ ConnectThread \/ IoThread \/ TimerThread
    \/ Cancel \/ Disconnect \/ Detach \/ Return("app")

AsyncSpec == AsyncInit /\ [][AsyncNext]_asyncVars

\* The threads of the pool run, a timer expires, and disconnect() goes on when
\* it gets its mutex.  An operation need never complete.
AsyncFairSpec ==
    /\ AsyncSpec /\ WF_asyncVars(TimerThread) /\ WF_asyncVars(Detach)
    /\ \A t \in {"io", "connect"} : WF_asyncVars(Enter(t)) /\ WF_asyncVars(Return(t))
    /\ WF_asyncVars(OnConnectCompleted \/ OnFailure("connect"))
    /\ WF_asyncVars(OnSendCompleted \/ OnAnswer \/ OnMismatch \/ OnPingBack \/ OnGarbage
               \/ OnFailure("io"))

-----------------------------------------------------------------------------
(***************************************************************************)
(* Properties                                                              *)
(***************************************************************************)

\* A call is ended once, by an operation or timer of its own and never by one
\* that an earlier call has left behind (mpTransport, mTimerEntry): a callback
\* runs once, and never for a call that disconnect() has ended.
EndedOnce ==
    \A c \in Calls : /\ endedBy[c] \in {0, c}
                     /\ ran[c] <= (IF c \in dropped THEN 0 ELSE 1)

\* A handler never finds an expired timer of the transport without a reason
\* (RCF_ASSERT in ClientStub::onTimerExpired).
NoStrayTimer ==
    Handles("timer", "timer") /\ taken["timer"] = mTimerEntry => mAsyncTimerReason # "None"

\* The application has mOverlappedPtrMutex and waits for a handler, which has
\* the other mutex and waits for that one.
LockedUp == app = "detaching" /\ \E t \in Pool : holds[t] = gen

\* Every call ends, unless the two lock each other up, or a ping back has taken
\* the timer away.
CallsEnd ==
    \A c \in Calls : (c <= ncalls) ~> (endedBy[c] # 0 \/ c \in dropped \/ pings > 0 \/ []LockedUp)
=============================================================================
