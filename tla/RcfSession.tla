----------------------------- MODULE RcfSession -----------------------------
(***************************************************************************)
(* One server side session of RCF: the RcfSession object, the transport    *)
(* session that reads and writes for it (AsioSessionState, reduced to what *)
(* it has posted), the worker threads that run its completion handlers,    *)
(* the thread of the ping back service with its timer heap, an application *)
(* thread that commits asynchronous replies (Amd.hpp), and a subscriber    *)
(* that ends its subscription while calls come in.                         *)
(*                                                                         *)
(* A step is what a thread does between two points where another thread    *)
(* can interfere: one critical section of mIoStateMutex, mMutex or of the  *)
(* timer heap, one call of the proactor, or one call of the servant.       *)
(* pc[t] names the step thread t takes next.                               *)
(***************************************************************************)
EXTENDS Integers, Sequences

CONSTANTS Workers,            \* threads that run the demuxer (AsioServerTransport::cycle)
          App,                \* the thread that commits asynchronous replies
          Pinger,             \* the ping back service's thread
          NoThread,
          HasPingBackService, \* RcfServer::getPingBackServicePtr() is not null
          PeerKinds,          \* the kinds of request the peer sends (see Kinds)
          AmdThrows,          \* a servant that keeps an Amd may throw no std::exception
          MaxRequests,        \* bound: requests the peer sends
          MaxEntries          \* bound: ping back timer entries ever created

(* What the peer sends.  "pinged" is a twoway call that asks for ping     *)
(* backs, "callback" one whose servant adds an OnWriteCompletedCallback   *)
(* (RequestSubscription, RequestTransportFilters), "convert" one that     *)
(* also turns the connection into a client transport; "mismatch" does not *)
(* decode because the peer's runtime is newer; "close" is the control     *)
(* message of a peer that disconnects.                                    *)
Kinds == {"oneway", "twoway", "pinged", "callback", "convert", "mismatch", "close"}

ASSUME ThreadsAssumption == /\ App \notin Workers
                            /\ Pinger \notin Workers \cup {App}
                            /\ NoThread \notin Workers \cup {App}
ASSUME ServiceAssumption == HasPingBackService \in BOOLEAN
ASSUME PeerAssumption == PeerKinds \subseteq Kinds /\ AmdThrows \in BOOLEAN
ASSUME BoundsAssumption  == MaxRequests \in Nat /\ MaxEntries \in Nat

VARIABLES mIoState,            \* who owns the connection, by RcfSession's book
          mQueuedSendBuffers,  \* reply parked behind a ping back, or NoMsg
          mPingBackTimerEntry, \* entry the session believes is in the heap, or 0
          mAutoSend,           \* the worker sends the reply itself
          mStopCallInProgress, \* the subscription of this session has ended
          callMutex,           \* owner of mStopCallInProgressMutex
          callbackOf,          \* request that added an OnWriteCompletedCallback, or 0
          mCloseSessionAfterWrite,
          mState,              \* what the transport session has posted
          writing,             \* message handed to the last postWrite
          closed,              \* postClose was called
          mRequest,            \* kind of the request being served
          reqNo,               \* number of requests decoded so far
          mTimerHeap,          \* the ping back service's heap, as a set of fire times
          lastEntry,           \* last fire time handed out
          amd,                 \* the servant kept an Amd object: reply to be committed
          pc, buf, ent,        \* per thread: next step, message and timer entry at hand
          replies,             \* history: replies delivered to the peer, in order
          ran                  \* history: requests whose callback has run

ioVars == <<mIoState, mQueuedSendBuffers>>
requestVars == <<mRequest, reqNo, mAutoSend, amd>>
callbackVars == <<callbackOf, mCloseSessionAfterWrite>>
callVars == <<mStopCallInProgress, callMutex>>
transportVars == <<mState, writing, closed>>
timerVars == <<mTimerHeap, lastEntry>>
historyVars == <<replies, ran>>
vars == <<ioVars, requestVars, callbackVars, callVars, mPingBackTimerEntry,
          transportVars, timerVars, historyVars, pc, buf, ent>>

-----------------------------------------------------------------------------
Threads == Workers \cup {App}
All == Threads \cup {Pinger}

\* A message is 0 (none), the number of the request it replies to, or PingBack.
NoMsg    == 0
PingBack == -1
Replies  == 1..MaxRequests
Messages == Replies \cup {NoMsg, PingBack}

IoStates == {"Idle", "Reading", "Writing", "WritingPingBack"}
Steps == {"idle", "onReadCompleted", "lockCall", "registerHeap", "registerEntry",
          "invoke", "invokeReturn", "unregister", "heapRemove", "send",
          "postWrite", "onWriteCompleted", "pingBackWritten", "setReading",
          "postRead", "checkEntry", "checkIo", "postPingBack", "heapAdd"}

SessionTypes ==
    /\ mIoState \in IoStates
    /\ mQueuedSendBuffers \in Replies \cup {NoMsg}
    /\ mAutoSend \in BOOLEAN
    /\ mStopCallInProgress \in BOOLEAN
    /\ callMutex \in Workers \cup {NoThread}
    /\ callbackOf \in 0..MaxRequests
    /\ mCloseSessionAfterWrite \in BOOLEAN
    /\ mRequest \in Kinds
    /\ reqNo \in 0..MaxRequests
    /\ amd \in BOOLEAN
    /\ mState \in {"Accepting", "Ready", "Reading", "Writing", "Failed"}
    /\ writing \in Messages
    /\ closed \in BOOLEAN

TimerTypes ==
    /\ mPingBackTimerEntry \in 0..MaxEntries
    /\ lastEntry \in 0..MaxEntries
    /\ mTimerHeap \subseteq 0..MaxEntries
    /\ ent \in [All -> 0..MaxEntries]

ThreadTypes ==
    /\ pc \in [All -> Steps]
    /\ buf \in [All -> Messages]

HistoryTypes ==
    /\ replies \in Seq(Replies)
    /\ ran \subseteq Replies

TypeOK == SessionTypes /\ TimerTypes /\ ThreadTypes /\ HistoryTypes

\* The session waits for a connection.
Init ==
    /\ mIoState = "Idle"
    /\ mQueuedSendBuffers = NoMsg
    /\ mPingBackTimerEntry = 0
    /\ mAutoSend = FALSE
    /\ mStopCallInProgress = FALSE
    /\ callMutex = NoThread
    /\ callbackOf = 0
    /\ mCloseSessionAfterWrite = FALSE
    /\ mState = "Accepting"
    /\ writing = NoMsg
    /\ closed = FALSE
    /\ mRequest = "twoway"
    /\ reqNo = 0
    /\ mTimerHeap = {}
    /\ lastEntry = 0
    /\ amd = FALSE
    /\ pc = [t \in All |-> "idle"]
    /\ buf = [t \in All |-> NoMsg]
    /\ ent = [t \in All |-> 0]
    /\ replies = <<>>
    /\ ran = {}

Oneway == mRequest = "oneway"
\* The guard of registerForPingBacks and unregisterForPingBacks.
WantsPingBacks == mRequest = "pinged"

Goto(t, step) == pc' = [pc EXCEPT ![t] = step]

\* The handler returns; a worker that holds mStopCallInProgressMutex leaves its scope.
Return(t) == /\ Goto(t, "idle")
             /\ callMutex' = IF callMutex = t THEN NoThread ELSE callMutex

-----------------------------------------------------------------------------
(* The transport. *)

\* onAccept starts the session by faking a completed write.
OnAccept(w) ==
    /\ mState = "Accepting" /\ pc[w] = "idle"
    /\ mState' = "Ready"
    /\ Goto(w, "onWriteCompleted")
    /\ buf' = [buf EXCEPT ![w] = NoMsg]
    /\ UNCHANGED <<mPingBackTimerEntry, writing, closed, ent, requestVars,
                   ioVars, callbackVars, callVars, timerVars, historyVars>>

\* The last byte of a request arrives and a worker picks up the completion.
ReadCompletes(w) ==
    /\ mState = "Reading" /\ pc[w] = "idle" /\ reqNo < MaxRequests
    /\ mState' = "Ready"
    /\ Goto(w, "onReadCompleted")
    /\ UNCHANGED <<mPingBackTimerEntry, writing, closed, buf, ent, requestVars,
                   ioVars, callbackVars, callVars, timerVars, historyVars>>

\* The last byte of a message leaves and a worker picks up the completion.
WriteCompletes(w) ==
    /\ mState = "Writing" /\ pc[w] = "idle"
    /\ mState' = "Ready"
    /\ replies' = IF writing \in Replies THEN Append(replies, writing) ELSE replies
    /\ Goto(w, "onWriteCompleted")
    /\ buf' = [buf EXCEPT ![w] = writing]
    /\ UNCHANGED <<mPingBackTimerEntry, writing, closed, ran, ent, requestVars,
                   ioVars, callbackVars, callVars, timerVars>>

\* The peer is gone: the completion carries an error and is dropped.
IoFails ==
    /\ mState \in {"Reading", "Writing"}
    /\ mState' = "Failed"
    /\ UNCHANGED <<mPingBackTimerEntry, writing, closed, pc, buf, ent,
                   requestVars, ioVars, callbackVars, callVars, timerVars,
                   historyVars>>

Posted(what) == mState' = IF closed THEN "Failed" ELSE what

PostRead(t) ==
    /\ pc[t] = "postRead"
    /\ Posted("Reading")
    /\ Return(t)
    /\ UNCHANGED <<mStopCallInProgress, mPingBackTimerEntry, writing, closed,
                   buf, ent, requestVars, ioVars, callbackVars, timerVars,
                   historyVars>>

PostWrite(t) ==
    /\ pc[t] = "postWrite"
    /\ Posted("Writing")
    /\ writing' = buf[t]
    /\ Return(t)
    /\ UNCHANGED <<mStopCallInProgress, mPingBackTimerEntry, closed, buf, ent,
                   requestVars, ioVars, callbackVars, timerVars, historyVars>>

-----------------------------------------------------------------------------
(* RcfSession::onReadCompleted and processRequest, on a worker. *)

OnReadCompleted(w) ==
    /\ pc[w] = "onReadCompleted"
    /\ mIoState' = "Idle"
    /\ Goto(w, "lockCall")
    /\ UNCHANGED <<mQueuedSendBuffers, mPingBackTimerEntry, buf, ent,
                   requestVars, transportVars, callbackVars, callVars,
                   timerVars, historyVars>>

\* The subscription has ended: the request is not even decoded.
DropRequest(w) ==
    /\ pc[w] = "lockCall" /\ callMutex = NoThread /\ mStopCallInProgress
    /\ Goto(w, "idle")
    /\ UNCHANGED <<mPingBackTimerEntry, buf, ent, requestVars, transportVars,
                   ioVars, callbackVars, callVars, timerVars, historyVars>>

\* Where a decoded request goes: a version mismatch straight to the reply; a
\* ping (function id -1), and a request that throws before the servant runs
\* (no stub, no ping back service, all threads busy), to the end of processRequest.
FirstSteps(kind) ==
    CASE kind = "mismatch" -> {"send"}
      [] kind = "pinged"   -> {"unregister"} \cup (IF HasPingBackService THEN {"registerHeap"} ELSE {})
      [] OTHER             -> {"unregister", "invoke"}

\* Faulty variant: mAutoSend keeps its value from the request before.
DecodeRequestStale(w) ==
    /\ pc[w] = "lockCall" /\ callMutex = NoThread /\ ~mStopCallInProgress
    /\ reqNo < MaxRequests
    /\ reqNo' = reqNo + 1
    /\ \E kind \in PeerKinds \ {"close"} :
          mRequest' = kind /\ (\E step \in FirstSteps(kind) : Goto(w, step))
    /\ callMutex' = w
    /\ UNCHANGED <<amd, mAutoSend, mStopCallInProgress, mPingBackTimerEntry, buf,
                   ent, transportVars, ioVars, callbackVars, timerVars,
                   historyVars>>

DecodeRequest(w) ==
    /\ pc[w] = "lockCall" /\ callMutex = NoThread /\ ~mStopCallInProgress
    /\ reqNo < MaxRequests
    /\ reqNo' = reqNo + 1
    /\ \E kind \in PeerKinds \ {"close"} :
          /\ mRequest' = kind
          /\ mAutoSend' = IF kind = "mismatch" THEN mAutoSend ELSE TRUE
          /\ \E step \in FirstSteps(kind) : Goto(w, step)
    /\ callMutex' = w
    /\ UNCHANGED <<amd, mStopCallInProgress, mPingBackTimerEntry, buf, ent,
                   transportVars, ioVars, callbackVars, timerVars,
                   historyVars>>

\* A close request: postClose, and nothing is posted any more.  (A request that does
\* not decode at all ends the same way: the handler throws, the session posts
\* nothing and goes with its last reference.)
DecodeClose(w) ==
    /\ pc[w] = "lockCall" /\ callMutex = NoThread /\ ~mStopCallInProgress
    /\ "close" \in PeerKinds /\ reqNo < MaxRequests
    /\ reqNo' = reqNo + 1
    /\ mRequest' = "close"
    /\ closed' = TRUE
    /\ Goto(w, "idle")
    /\ UNCHANGED <<mAutoSend, amd, mPingBackTimerEntry, mState, writing, buf,
                   ent, ioVars, callbackVars, callVars, timerVars,
                   historyVars>>

\* registerForPingBacks: the entry goes into the heap before the session knows of it.
RegisterHeap(w) ==
    /\ pc[w] = "registerHeap" /\ lastEntry < MaxEntries
    /\ lastEntry' = lastEntry + 1
    /\ mTimerHeap' = mTimerHeap \cup {lastEntry + 1}
    /\ ent' = [ent EXCEPT ![w] = lastEntry + 1]
    /\ Goto(w, "registerEntry")
    /\ UNCHANGED <<mPingBackTimerEntry, buf, requestVars, transportVars,
                   ioVars, callbackVars, callVars, historyVars>>

RegisterEntry(w) ==
    /\ pc[w] = "registerEntry"
    /\ mPingBackTimerEntry' = ent[w]
    /\ \E step \in {"invoke", "unregister"} : Goto(w, step)  \* notifyBusy may throw
    /\ UNCHANGED <<buf, ent, requestVars, transportVars, ioVars, callbackVars,
                   callVars, timerVars, historyVars>>

\* The servant runs; "convert" is convertRcfSessionToRcfClient with closeSession.
Invoke(w) ==
    /\ pc[w] = "invoke"
    /\ callbackOf' = IF mRequest \in {"callback", "convert"} THEN reqNo ELSE callbackOf
    /\ mCloseSessionAfterWrite' = (mCloseSessionAfterWrite \/ mRequest = "convert")
    /\ Goto(w, "invokeReturn")
    /\ UNCHANGED <<mPingBackTimerEntry, buf, ent, requestVars, transportVars,
                   ioVars, callVars, timerVars, historyVars>>

\* The servant keeps an Amd object, which takes over the reply.
InvokeAmd(w) ==
    /\ pc[w] = "invoke" /\ mRequest \in {"twoway", "pinged", "oneway"}
    /\ mAutoSend' = FALSE
    /\ amd' = TRUE
    /\ Goto(w, "invokeReturn")
    /\ UNCHANGED <<mRequest, reqNo, mPingBackTimerEntry, buf, ent,
                   transportVars, ioVars, callbackVars, callVars, timerVars,
                   historyVars>>

\* Faulty variant: the scope guard is not dismissed and replies as well.
InvokeReturnGuarded(w) ==
    /\ pc[w] = "invokeReturn"
    /\ Goto(w, "unregister")
    /\ UNCHANGED <<mPingBackTimerEntry, buf, ent, requestVars, transportVars,
                   ioVars, callbackVars, callVars, timerVars, historyVars>>

\* if (mAutoSend) sendResponse(), with or without a std::exception.
InvokeReturn(w) ==
    /\ pc[w] = "invokeReturn"
    /\ IF mAutoSend THEN Goto(w, "unregister") /\ UNCHANGED callMutex
                    ELSE Return(w)
    /\ UNCHANGED <<mStopCallInProgress, mPingBackTimerEntry, buf, ent,
                   requestVars, transportVars, ioVars, callbackVars, timerVars,
                   historyVars>>

\* Something that is no std::exception leaves the servant: the scope guard has not
\* been dismissed and replies, whether or not an Amd object has taken over the reply.
InvokeThrows(w) ==
    /\ pc[w] = "invokeReturn" /\ (mAutoSend \/ AmdThrows)
    /\ Goto(w, "unregister")
    /\ UNCHANGED <<mPingBackTimerEntry, buf, ent, requestVars, transportVars,
                   ioVars, callbackVars, callVars, timerVars, historyVars>>

\* AmdImpl::commit, on the application's thread.
AmdCommit ==
    /\ amd /\ pc[App] = "idle"
    /\ amd' = FALSE
    /\ Goto(App, "unregister")
    /\ UNCHANGED <<mRequest, reqNo, mAutoSend, mPingBackTimerEntry, buf, ent,
                   transportVars, ioVars, callbackVars, callVars, timerVars,
                   historyVars>>

-----------------------------------------------------------------------------
(* RcfSession::sendSessionResponse, on the thread that ends the request. *)

\* Faulty variant: the entry is taken out of the heap but not forgotten.
UnregisterKeeps(t) ==
    /\ pc[t] = "unregister"
    /\ ent' = [ent EXCEPT ![t] = mPingBackTimerEntry]
    /\ Goto(t, IF mPingBackTimerEntry # 0 THEN "heapRemove" ELSE "send")
    /\ UNCHANGED <<mPingBackTimerEntry, buf, requestVars, transportVars, ioVars,
                   callbackVars, callVars, timerVars, historyVars>>

\* First half of unregisterForPingBacks: forget the entry.
Unregister(t) ==
    /\ pc[t] = "unregister"
    /\ IF WantsPingBacks
       THEN /\ ent' = [ent EXCEPT ![t] = mPingBackTimerEntry]
            /\ mPingBackTimerEntry' = 0
            /\ Goto(t, IF mPingBackTimerEntry # 0 THEN "heapRemove" ELSE "send")
       ELSE Goto(t, "send") /\ UNCHANGED <<ent, mPingBackTimerEntry>>
    /\ UNCHANGED <<buf, requestVars, transportVars, ioVars, callbackVars,
                   callVars, timerVars, historyVars>>

\* Second half: take it out of the heap, if it is there.
HeapRemove(t) ==
    /\ pc[t] = "heapRemove"
    /\ mTimerHeap' = mTimerHeap \ {ent[t]}
    /\ Goto(t, "send")
    /\ UNCHANGED <<mPingBackTimerEntry, lastEntry, buf, ent, requestVars,
                   transportVars, ioVars, callbackVars, callVars, historyVars>>

\* Faulty variant: a oneway request ends without the fake completion.
SendOnewayReturns(t) ==
    /\ pc[t] = "send" /\ Oneway
    /\ Return(t)
    /\ UNCHANGED <<mStopCallInProgress, mPingBackTimerEntry, buf, ent, requestVars,
                   transportVars, ioVars, callbackVars, timerVars, historyVars>>

\* A oneway request has no reply: its end is treated as a completed write.
SendOneway(t) ==
    /\ pc[t] = "send" /\ Oneway
    /\ buf' = [buf EXCEPT ![t] = NoMsg]
    /\ Goto(t, "onWriteCompleted")
    /\ UNCHANGED <<mPingBackTimerEntry, ent, requestVars, transportVars,
                   ioVars, callbackVars, callVars, timerVars, historyVars>>

\* The reply takes the connection if it is free ...
SendReply(t) ==
    /\ pc[t] = "send" /\ ~Oneway /\ mIoState = "Idle"
    /\ mIoState' = "Writing"
    /\ buf' = [buf EXCEPT ![t] = reqNo]
    /\ Goto(t, "postWrite")
    /\ UNCHANGED <<mQueuedSendBuffers, mPingBackTimerEntry, ent, requestVars,
                   transportVars, callbackVars, callVars, timerVars,
                   historyVars>>

\* ... and is parked behind the ping back that has it otherwise.
QueueReply(t) ==
    /\ pc[t] = "send" /\ ~Oneway /\ mIoState # "Idle"
    /\ mQueuedSendBuffers' = reqNo
    /\ Return(t)
    /\ UNCHANGED <<mIoState, mStopCallInProgress, mPingBackTimerEntry, buf,
                   ent, requestVars, transportVars, callbackVars, timerVars,
                   historyVars>>

-----------------------------------------------------------------------------
(* RcfSession::onWriteCompleted, on a worker or, for a oneway request, on   *)
(* the thread that ends it.                                                 *)

\* Faulty variant: the queue is copied and not cleared.
PingBackCompletedCopies(t) ==
    /\ pc[t] = "onWriteCompleted" /\ mIoState = "WritingPingBack"
    /\ buf' = [buf EXCEPT ![t] = mQueuedSendBuffers]
    /\ Goto(t, "pingBackWritten")
    /\ UNCHANGED <<ioVars, mPingBackTimerEntry, ent, requestVars, transportVars,
                   callbackVars, callVars, timerVars, historyVars>>

\* Faulty variant: the callbacks run after every completed write.
PingBackRunsCallbacks(t) ==
    /\ pc[t] = "onWriteCompleted" /\ mIoState = "WritingPingBack"
    /\ buf' = [buf EXCEPT ![t] = mQueuedSendBuffers]
    /\ mQueuedSendBuffers' = NoMsg
    /\ ran' = IF callbackOf = 0 THEN ran ELSE ran \cup {callbackOf}
    /\ callbackOf' = 0
    /\ Goto(t, "pingBackWritten")
    /\ UNCHANGED <<mIoState, mCloseSessionAfterWrite, mPingBackTimerEntry, replies,
                   ent, requestVars, transportVars, callVars, timerVars>>

\* A ping back went out: take what was parked behind it.
PingBackCompleted(t) ==
    /\ pc[t] = "onWriteCompleted" /\ mIoState = "WritingPingBack"
    /\ buf' = [buf EXCEPT ![t] = mQueuedSendBuffers]
    /\ mQueuedSendBuffers' = NoMsg
    /\ Goto(t, "pingBackWritten")
    /\ UNCHANGED <<mIoState, mPingBackTimerEntry, ent, requestVars,
                   transportVars, callbackVars, callVars, timerVars,
                   historyVars>>

\* The lock has been released and is taken again to leave WritingPingBack.
SendQueued(t) ==
    /\ pc[t] = "pingBackWritten" /\ buf[t] # NoMsg
    /\ mIoState' = "Writing"
    /\ Goto(t, "postWrite")
    /\ UNCHANGED <<mQueuedSendBuffers, mPingBackTimerEntry, buf, ent,
                   requestVars, transportVars, callbackVars, callVars,
                   timerVars, historyVars>>

NothingQueued(t) ==
    /\ pc[t] = "pingBackWritten" /\ buf[t] = NoMsg
    /\ mIoState' = "Idle"
    /\ Return(t)
    /\ UNCHANGED <<mQueuedSendBuffers, mStopCallInProgress,
                   mPingBackTimerEntry, buf, ent, requestVars, transportVars,
                   callbackVars, timerVars, historyVars>>

\* Any other write: run the callbacks, then read the next request unless the
\* connection now belongs to a client transport.
ReplyCompleted(t) ==
    /\ pc[t] = "onWriteCompleted" /\ mIoState # "WritingPingBack"
    /\ ran' = IF callbackOf = 0 THEN ran ELSE ran \cup {callbackOf}
    /\ callbackOf' = 0
    /\ IF mCloseSessionAfterWrite THEN Return(t)
                                  ELSE Goto(t, "setReading") /\ UNCHANGED callMutex
    /\ UNCHANGED <<mCloseSessionAfterWrite, mStopCallInProgress,
                   mPingBackTimerEntry, replies, buf, ent, requestVars,
                   transportVars, ioVars, timerVars>>

SetReading(t) ==
    /\ pc[t] = "setReading"
    /\ mIoState' = "Reading"
    /\ Goto(t, "postRead")
    /\ UNCHANGED <<mQueuedSendBuffers, mPingBackTimerEntry, buf, ent,
                   requestVars, transportVars, callbackVars, callVars,
                   timerVars, historyVars>>

-----------------------------------------------------------------------------
(* PingBackService::cycle and RcfSession::sendPingBack, on its thread. *)

PopExpiredEntry ==
    /\ pc[Pinger] = "idle"
    /\ \E e \in mTimerHeap : mTimerHeap' = mTimerHeap \ {e}
    /\ Goto(Pinger, "checkEntry")
    /\ UNCHANGED <<mPingBackTimerEntry, lastEntry, buf, ent, requestVars,
                   transportVars, ioVars, callbackVars, callVars, historyVars>>

\* Faulty variant: cycle ignores that sendPingBack returned false.
EntryGoneReadded ==
    /\ pc[Pinger] = "checkEntry" /\ mPingBackTimerEntry = 0
    /\ Goto(Pinger, "heapAdd")
    /\ UNCHANGED <<mPingBackTimerEntry, buf, ent, requestVars, transportVars, ioVars,
                   callbackVars, callVars, timerVars, historyVars>>

\* The request has ended: no ping back and no next entry.
EntryGone ==
    /\ pc[Pinger] = "checkEntry" /\ mPingBackTimerEntry = 0
    /\ Goto(Pinger, "idle")
    /\ UNCHANGED <<mPingBackTimerEntry, buf, ent, requestVars, transportVars,
                   ioVars, callbackVars, callVars, timerVars, historyVars>>

RenewEntry ==
    /\ pc[Pinger] = "checkEntry" /\ mPingBackTimerEntry # 0
    /\ lastEntry < MaxEntries
    /\ lastEntry' = lastEntry + 1
    /\ ent' = [ent EXCEPT ![Pinger] = lastEntry + 1]
    /\ mPingBackTimerEntry' = lastEntry + 1
    /\ Goto(Pinger, "checkIo")
    /\ UNCHANGED <<mTimerHeap, buf, requestVars, transportVars, ioVars,
                   callbackVars, callVars, historyVars>>

\* Faulty variant: a ping back takes the connection from a reply being written.
TakeConnectionUnchecked ==
    /\ pc[Pinger] = "checkIo"
    /\ mIoState' = "WritingPingBack" /\ Goto(Pinger, "postPingBack")
    /\ UNCHANGED <<mQueuedSendBuffers, mPingBackTimerEntry, buf, ent, requestVars,
                   transportVars, callbackVars, callVars, timerVars, historyVars>>

TakeConnection ==
    /\ pc[Pinger] = "checkIo"
    /\ IF mIoState = "Idle"
       THEN mIoState' = "WritingPingBack" /\ Goto(Pinger, "postPingBack")
       ELSE UNCHANGED mIoState /\ Goto(Pinger, "heapAdd")
    /\ UNCHANGED <<mQueuedSendBuffers, mPingBackTimerEntry, buf, ent,
                   requestVars, transportVars, callbackVars, callVars,
                   timerVars, historyVars>>

PostPingBack ==
    /\ pc[Pinger] = "postPingBack"
    /\ Posted("Writing")
    /\ writing' = PingBack
    /\ Goto(Pinger, "heapAdd")
    /\ UNCHANGED <<mPingBackTimerEntry, closed, buf, ent, requestVars, ioVars,
                   callbackVars, callVars, timerVars, historyVars>>

HeapAdd ==
    /\ pc[Pinger] = "heapAdd"
    /\ mTimerHeap' = mTimerHeap \cup {ent[Pinger]}
    /\ Goto(Pinger, "idle")
    /\ UNCHANGED <<mPingBackTimerEntry, lastEntry, buf, ent, requestVars,
                   transportVars, ioVars, callbackVars, callVars, historyVars>>

-----------------------------------------------------------------------------
\* Faulty variant: the flag is set without mStopCallInProgressMutex.
EndSubscribeUnlocked ==
    /\ ~mStopCallInProgress
    /\ mStopCallInProgress' = TRUE
    /\ UNCHANGED <<callMutex, mPingBackTimerEntry, pc, buf, ent, requestVars,
                   transportVars, ioVars, callbackVars, timerVars, historyVars>>

\* SubscriptionService::endSubscribeNamed, on the subscriber's thread.
EndSubscribe ==
    /\ callMutex = NoThread /\ ~mStopCallInProgress
    /\ mStopCallInProgress' = TRUE
    /\ UNCHANGED <<callMutex, mPingBackTimerEntry, pc, buf, ent, requestVars,
                   transportVars, ioVars, callbackVars, timerVars,
                   historyVars>>

Completion(w) == OnAccept(w) \/ ReadCompletes(w) \/ WriteCompletes(w)

Process(w) ==
    \/ OnReadCompleted(w) \/ DropRequest(w) \/ DecodeRequest(w) \/ DecodeClose(w)
    \/ RegisterHeap(w) \/ RegisterEntry(w)
    \/ Invoke(w) \/ InvokeAmd(w) \/ InvokeReturn(w) \/ InvokeThrows(w)

Finish(t) ==
    \/ Unregister(t) \/ HeapRemove(t)
    \/ SendOneway(t) \/ SendReply(t) \/ QueueReply(t)
    \/ PingBackCompleted(t) \/ SendQueued(t) \/ NothingQueued(t)
    \/ ReplyCompleted(t) \/ SetReading(t)
    \/ PostRead(t) \/ PostWrite(t)

Cycle ==
    \/ PopExpiredEntry \/ EntryGone \/ RenewEntry
    \/ TakeConnection \/ PostPingBack \/ HeapAdd

Next ==
    \/ \E w \in Workers : Completion(w) \/ Process(w)
    \/ \E t \in Threads : Finish(t)
    \/ AmdCommit
    \/ Cycle
    \/ IoFails
    \/ EndSubscribe

Spec == Init /\ [][Next]_vars

\* Threads are scheduled, servants and Amd objects answer, posted writes
\* complete or fail.  Nothing makes the peer send a request.
Fairness ==
    /\ \A w \in Workers : WF_vars(Process(w))
    /\ \A t \in Threads : WF_vars(Finish(t))
    /\ WF_vars(\E w \in Workers : OnAccept(w) \/ WriteCompletes(w))
    /\ WF_vars(AmdCommit)
    /\ WF_vars(Cycle)

FairSpec == Spec /\ Fairness

-----------------------------------------------------------------------------
(* The assertions on mIoState and mPingBackTimerEntry hold whenever they   *)
(* are evaluated: a completed read finds Reading, a reply finds Idle or a  *)
(* ping back on its way, a completed write never finds Reading, and no     *)
(* entry of an earlier request is left when a request registers.           *)
IoStateAssertions ==
    /\ \A t \in Threads :
          /\ pc[t] = "onReadCompleted" => mIoState = "Reading"
          /\ pc[t] = "send" /\ ~Oneway => mIoState \in {"Idle", "WritingPingBack"}
          /\ pc[t] = "onWriteCompleted" => mIoState # "Reading"
          /\ pc[t] = "registerEntry" => mPingBackTimerEntry = 0

Posting(t) == pc[t] \in {"postRead", "postWrite", "postPingBack"}

(* AsioSessionState has one state and one set of buffers, so a session may *)
(* not post while an operation is outstanding or another thread is about   *)
(* to post: the ping back thread and the workers exclude each other        *)
(* through mIoState alone (the assertion in AsioSessionState::postWrite).  *)
OneOperation ==
    \A t \in All : Posting(t) =>
        /\ mState \in {"Ready", "Failed"}
        /\ \A u \in All \ {t} : ~Posting(u)

(* Once endSubscribeNamed has returned, the subscriber may delete the      *)
(* object it bound: no worker is in the servant or on its way there.       *)
ServantQuiet ==
    mStopCallInProgress =>
        \A w \in Workers : pc[w] \notin {"registerHeap", "registerEntry", "invoke"}

Replied(n) == \E i \in DOMAIN replies : replies[i] = n

(* A callback that turns the connection over (a subscriber's transport, a  *)
(* new transport filter) runs only after the reply to the request that     *)
(* added it went out: the completion of a ping back never triggers it.     *)
CallbackAfterReply == \A n \in ran : Replied(n)

(* The comment in onWriteCompleted: a completed ping back sends the reply  *)
(* that was queued behind it, so a queued reply always has a ping back     *)
(* before it.                                                              *)
QueuedBehindPingBack == mQueuedSendBuffers # NoMsg => mIoState = "WritingPingBack"

Broken == closed \/ mState = "Failed"

(* Timer entries do not outlive the requests they were made for: once no   *)
(* request is registered for good, the heap of the service runs empty,     *)
(* although an entry can be added after its request was unregistered.      *)
HeapDrains == <>[](mPingBackTimerEntry = 0) => <>[](mTimerHeap = {})

(* The session serves requests one at a time and replies at most once to   *)
(* each, in order.                                                         *)
Exchange == INSTANCE RequestReply WITH
                request <- reqNo,
                wantsReply <- (reqNo > 0 /\ mRequest \notin {"oneway", "close"})
ExchangeSpec == Exchange!Spec

=============================================================================
