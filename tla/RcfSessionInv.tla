--------------------------- MODULE RcfSessionInv ---------------------------
(***************************************************************************)
(* The inductive invariant behind the safety properties of RcfSession.     *)
(*                                                                         *)
(* A session has one request under way at a time.  Its "turn" is with the  *)
(* transport (a posted read or reply), with a thread, with an Amd object,  *)
(* or with a reply queued behind a ping back; TurnUnique says it is never  *)
(* in two places.  Beside it at most one ping back is under way, and       *)
(* PingUnique says the same of it.  IoStateAgrees ties the two to          *)
(* mIoState, which is all the code has to keep them apart.                 *)
(***************************************************************************)
EXTENDS RcfSession

\* Ping backs and oneway requests do not meet on one connection.
NoMix == ~HasPingBackService \/ "pinged" \notin PeerKinds \/ "oneway" \notin PeerKinds

PingBacks == HasPingBackService /\ "pinged" \in PeerKinds

\* Threads whose next step belongs to the request, by what mIoState must be then.
Reads(t) == pc[t] \in {"onReadCompleted", "postRead"}
IsReplying(t) == \/ pc[t] = "postWrite"
                 \/ pc[t] = "onWriteCompleted" /\ buf[t] \in Replies
Starts(t) == pc[t] = "onWriteCompleted" /\ buf[t] = NoMsg  \* accepted, or oneway done
Serves(t) == \/ pc[t] \in {"lockCall", "registerHeap", "registerEntry", "invoke",
                           "unregister", "heapRemove", "send"}
             \/ pc[t] = "invokeReturn" /\ mAutoSend
Unparks(t) == pc[t] = "pingBackWritten" /\ buf[t] # NoMsg

HasTurn(t) == \/ Reads(t) \/ IsReplying(t) \/ Starts(t) \/ Serves(t) \/ Unparks(t)
              \/ pc[t] = "setReading"

ReadPosted  == mState = "Reading"
ReplyPosted == mState = "Writing" /\ writing # PingBack
TransportHasTurn == mState = "Accepting" \/ ReadPosted \/ ReplyPosted
Queued == mQueuedSendBuffers # NoMsg

TurnUnique ==
    /\ \A t \in Threads : HasTurn(t) =>
          ~TransportHasTurn /\ ~amd /\ ~Queued /\ (\A u \in Threads \ {t} : ~HasTurn(u))
    /\ TransportHasTurn => ~amd /\ ~Queued
    /\ amd => ~Queued

\* Where a ping back is under way.
Pinged(t) == \/ pc[t] = "onWriteCompleted" /\ buf[t] = PingBack
             \/ pc[t] = "pingBackWritten"
PingPosted  == mState = "Writing" /\ writing = PingBack
PingPending == pc[Pinger] = "postPingBack"

PingUnique ==
    /\ \A t \in Threads : Pinged(t) =>
          ~PingPosted /\ ~PingPending /\ (\A u \in Threads \ {t} : ~Pinged(u))
    /\ PingPosted => ~PingPending

IoStateAgrees ==
    /\ \A t \in Threads :
          /\ Reads(t) => mIoState = "Reading"
          /\ IsReplying(t) => mIoState = "Writing"
          /\ Starts(t) => mIoState = "Idle"
          /\ Serves(t) => mIoState \in {"Idle", "WritingPingBack"}
          /\ pc[t] = "setReading" => mIoState \in {"Idle", "Writing"}
          /\ Pinged(t) => mIoState = "WritingPingBack"
    /\ mState = "Accepting" => mIoState = "Idle"
    /\ ReadPosted => mIoState = "Reading"
    /\ ReplyPosted => mIoState = "Writing"
    /\ amd \/ Queued => mIoState \in {"Idle", "WritingPingBack"}
    /\ PingPosted \/ PingPending => mIoState = "WritingPingBack"

\* Before the first request, and where the peer never asks for them, nothing
\* about ping backs happens.
NoPings == /\ mTimerHeap = {} /\ mPingBackTimerEntry = 0 /\ pc[Pinger] = "idle"
           /\ mIoState # "WritingPingBack"
PingsQuiet ==
    /\ reqNo = 0 \/ ~PingBacks => NoPings
    /\ mState = "Accepting" => reqNo = 0
    /\ reqNo = 0 => mRequest = "twoway"
    /\ \A t \in Threads :
          /\ Starts(t) => reqNo = 0 \/ Oneway
          /\ pc[t] = "setReading" /\ mIoState = "Idle" => reqNo = 0 \/ Oneway
          /\ Serves(t) /\ pc[t] # "lockCall" => reqNo > 0
          /\ pc[t] \in {"registerHeap", "registerEntry"} => PingBacks
    /\ PingBacks => ~Oneway
    /\ amd \/ Queued => reqNo > 0

\* The session has an entry only while the request that registered runs.
EntryOwned ==
    /\ mPingBackTimerEntry # 0 => mRequest = "pinged"
    /\ TransportHasTurn \/ Queued => mPingBackTimerEntry = 0
    /\ \A t \in Threads : pc[t] \in {"registerHeap", "registerEntry"} => mRequest = "pinged"
    /\ \A t \in Threads :
          HasTurn(t) /\ pc[t] \notin {"invoke", "invokeReturn", "unregister"}
             => mPingBackTimerEntry = 0

MutexHeld ==
    /\ \A w \in Workers :
          pc[w] \in {"registerHeap", "registerEntry", "invoke", "invokeReturn"}
             => callMutex = w
    /\ pc[App] \notin {"onReadCompleted", "lockCall", "registerHeap", "registerEntry",
                       "invoke", "invokeReturn"}
    /\ \A t \in Threads : pc[t] \notin {"checkEntry", "checkIo", "postPingBack", "heapAdd"}
    /\ pc[Pinger] \in {"idle", "checkEntry", "checkIo", "postPingBack", "heapAdd"}
    
WantsReply == reqNo > 0 /\ mRequest \notin {"oneway", "close"}

\* Replies go to the request under way, once.
RepliesAgree ==
    /\ \A i \in DOMAIN replies : replies[i] <= reqNo
    /\ \A t \in Threads :
          /\ pc[t] = "postWrite" \/ Unparks(t)
                => buf[t] = reqNo /\ WantsReply /\ ~Replied(reqNo)
          /\ pc[t] = "onWriteCompleted" /\ buf[t] \in Replies
                => buf[t] = reqNo /\ Replied(reqNo)
          /\ Serves(t) /\ pc[t] # "lockCall" => mRequest # "close" /\ ~Replied(reqNo)
          /\ Reads(t) \/ pc[t] \in {"lockCall", "setReading"}
                => (WantsReply => Replied(reqNo))
    /\ amd => mRequest # "close" /\ ~Replied(reqNo)
    /\ Queued => mQueuedSendBuffers = reqNo /\ WantsReply /\ ~Replied(reqNo)
    /\ ReplyPosted => writing = reqNo /\ WantsReply /\ ~Replied(reqNo)
    /\ ReadPosted => (WantsReply => Replied(reqNo))

\* A callback waits for the reply to the request that added it.
CallbacksAgree ==
    /\ callbackOf # 0 => callbackOf = reqNo /\ mRequest \in {"callback", "convert"}
    /\ ReadPosted => callbackOf = 0
    /\ \A t \in Threads :
          Reads(t) \/ pc[t] \in {"lockCall", "setReading"} => callbackOf = 0
    /\ CallbackAfterReply

Exclusion == MutexHeld /\ TurnUnique /\ PingUnique
Agreement == IoStateAgrees /\ PingsQuiet /\ EntryOwned
Delivery  == RepliesAgree /\ CallbacksAgree

IInv == TypeOK /\ Exclusion /\ Agreement /\ Delivery
=============================================================================
