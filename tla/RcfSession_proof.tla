-------------------------- MODULE RcfSession_proof --------------------------
(***************************************************************************)
(* Proofs about RcfSession: its type invariant and ServantQuiet without    *)
(* any condition, and, for connections on which ping backs and oneway      *)
(* requests do not meet (NoMix) and servants that throw std::exceptions    *)
(* only once they have created an Amd (~AmdThrows), the other safety       *)
(* properties the runs check and the implementation of RequestReply, from  *)
(* the inductive invariant IInv of RcfSessionInv.                          *)
(***************************************************************************)
EXTENDS RcfSessionInv, TLAPS

USE DEF Threads, All, NoMsg, PingBack, Replies, Messages

\* What an append adds to the set of replied requests.
LEMMA AppendReplied ==
    ASSUME NEW S, NEW s \in Seq(S), NEW e \in S, NEW n
    PROVE  /\ Append(s, e) \in Seq(S)
           /\ (\E i \in DOMAIN Append(s, e) : Append(s, e)[i] = n)
                 <=> (\E i \in DOMAIN s : s[i] = n) \/ n = e
<1> DEFINE r == Append(s, e)
<1>1. /\ r \in Seq(S) /\ Len(s) \in Nat /\ Len(r) = Len(s) + 1
      /\ DOMAIN s = 1..Len(s) /\ DOMAIN r = 1..Len(r)
  OBVIOUS
<1>2. r[Len(s) + 1] = e /\ \A i \in 1..Len(s) : r[i] = s[i]
  OBVIOUS
<1>3. ASSUME NEW i \in DOMAIN r, r[i] = n
      PROVE  (\E j \in DOMAIN s : s[j] = n) \/ n = e
  <2>1. i \in 1..Len(s) \/ i = Len(s) + 1
    BY <1>1
  <2>2. QED
    BY <1>1, <1>2, <1>3, <2>1
<1>4. ASSUME (\E j \in DOMAIN s : s[j] = n) \/ n = e
      PROVE  \E i \in DOMAIN r : r[i] = n
  <2>1. CASE n = e
    BY <1>1, <1>2, <2>1
  <2>2. CASE \E j \in DOMAIN s : s[j] = n
    <3>1. PICK j \in DOMAIN s : s[j] = n
      BY <2>2
    <3>2. j \in DOMAIN r /\ r[j] = n
      BY <1>1, <1>2, <3>1
    <3>3. QED
      BY <3>2
  <2>3. QED
    BY <1>4, <2>1, <2>2
<1>5. QED
  BY <1>1, <1>3, <1>4

LEMMA RepliedAppend ==
    ASSUME replies \in Seq(Replies), reqNo \in Replies,
           replies' = Append(replies, reqNo)
    PROVE  \A m : Replied(m)' <=> Replied(m) \/ m = reqNo
<1> SUFFICES ASSUME NEW m PROVE Replied(m)' <=> Replied(m) \/ m = reqNo
  OBVIOUS
<1>1. (\E i \in DOMAIN Append(replies, reqNo) : Append(replies, reqNo)[i] = m)
         <=> (\E i \in DOMAIN replies : replies[i] = m) \/ m = reqNo
  BY AppendReplied
<1>2. QED
  BY <1>1 DEF Replied

-----------------------------------------------------------------------------
LEMMA TypeInit == Init => TypeOK
<1> SUFFICES ASSUME Init PROVE TypeOK
  OBVIOUS
<1> USE ThreadsAssumption, BoundsAssumption DEF Init, IoStates, Steps, Kinds
<1>1. SessionTypes
  <2>1. /\ mIoState \in IoStates /\ mState = "Accepting" /\ mRequest \in Kinds
        /\ mQueuedSendBuffers \in Replies \cup {NoMsg} /\ writing \in Messages
    OBVIOUS
  <2>2. /\ callMutex \in Workers \cup {NoThread}
        /\ callbackOf \in 0..MaxRequests /\ reqNo \in 0..MaxRequests
    OBVIOUS
  <2>3. QED
    BY <2>1, <2>2 DEF SessionTypes
<1>2. TimerTypes /\ ThreadTypes
  BY DEF TimerTypes, ThreadTypes
<1>3. HistoryTypes
  BY DEF HistoryTypes
<1>4. QED
  BY <1>1, <1>2, <1>3 DEF TypeOK

LEMMA TypeNext == TypeOK /\ [Next]_vars => TypeOK'
<1> SUFFICES ASSUME TypeOK, [Next]_vars PROVE TypeOK'
  OBVIOUS
<1> USE ThreadsAssumption, BoundsAssumption, PeerAssumption
    DEF TypeOK, SessionTypes, TimerTypes, ThreadTypes, HistoryTypes, IoStates,
        Steps, Kinds, Goto, Return, Posted, requestVars, ioVars, callbackVars,
        callVars, transportVars, timerVars, historyVars
<1>1. ASSUME NEW w \in Workers, OnAccept(w) PROVE TypeOK'
  <2>1. SessionTypes' /\ TimerTypes'
    BY <1>1 DEF OnAccept
  <2>2. ThreadTypes' /\ HistoryTypes'
    BY <1>1 DEF OnAccept
  <2>3. QED
    BY <2>1, <2>2
<1>2. ASSUME NEW w \in Workers, ReadCompletes(w) PROVE TypeOK'
  <2>1. SessionTypes' /\ TimerTypes'
    BY <1>2 DEF ReadCompletes
  <2>2. ThreadTypes' /\ HistoryTypes'
    BY <1>2 DEF ReadCompletes
  <2>3. QED
    BY <2>1, <2>2
<1>3. ASSUME NEW w \in Workers, WriteCompletes(w) PROVE TypeOK'
  <2>1. SessionTypes' /\ TimerTypes' /\ ThreadTypes'
    BY <1>3 DEF WriteCompletes
  <2>2. HistoryTypes'
    <3>1. CASE writing \in Replies
      <4>1. replies' = Append(replies, writing)
        BY <1>3, <3>1 DEF WriteCompletes
      <4>2. QED
        BY <1>3, <3>1, <4>1, AppendReplied DEF WriteCompletes
    <3>2. CASE writing \notin Replies
      BY <1>3, <3>2 DEF WriteCompletes
    <3>3. QED
      BY <3>1, <3>2
  <2>3. QED
    BY <2>1, <2>2
<1>4. ASSUME NEW w \in Workers, OnReadCompleted(w) PROVE TypeOK'
  <2>1. SessionTypes' /\ TimerTypes'
    BY <1>4 DEF OnReadCompleted
  <2>2. ThreadTypes' /\ HistoryTypes'
    BY <1>4 DEF OnReadCompleted
  <2>3. QED
    BY <2>1, <2>2
<1>5. ASSUME NEW w \in Workers, DropRequest(w) PROVE TypeOK'
  <2>1. SessionTypes' /\ TimerTypes'
    BY <1>5 DEF DropRequest
  <2>2. ThreadTypes' /\ HistoryTypes'
    BY <1>5 DEF DropRequest
  <2>3. QED
    BY <2>1, <2>2
<1>6. ASSUME NEW w \in Workers, DecodeRequest(w) PROVE TypeOK'
  <2>1. mAutoSend' \in BOOLEAN
    BY <1>6 DEF DecodeRequest
  <2>2. reqNo' \in 0..MaxRequests /\ mRequest' \in Kinds
    BY <1>6 DEF DecodeRequest
  <2>3. SessionTypes'
    BY <1>6, <2>1, <2>2 DEF DecodeRequest
  <2>4. TimerTypes' /\ HistoryTypes'
    BY <1>6 DEF DecodeRequest
  <2>5. ThreadTypes'
    BY <1>6 DEF DecodeRequest, FirstSteps
  <2>6. QED
    BY <2>3, <2>4, <2>5
<1>7. ASSUME NEW w \in Workers, DecodeClose(w) PROVE TypeOK'
  <2>1. SessionTypes' /\ TimerTypes'
    BY <1>7 DEF DecodeClose
  <2>2. ThreadTypes' /\ HistoryTypes'
    BY <1>7 DEF DecodeClose
  <2>3. QED
    BY <2>1, <2>2
<1>8. ASSUME NEW w \in Workers, RegisterHeap(w) PROVE TypeOK'
  <2>1. SessionTypes' /\ TimerTypes'
    BY <1>8 DEF RegisterHeap
  <2>2. ThreadTypes' /\ HistoryTypes'
    BY <1>8 DEF RegisterHeap
  <2>3. QED
    BY <2>1, <2>2
<1>9. ASSUME NEW w \in Workers, RegisterEntry(w) PROVE TypeOK'
  <2>1. SessionTypes' /\ TimerTypes'
    BY <1>9 DEF RegisterEntry
  <2>2. ThreadTypes' /\ HistoryTypes'
    BY <1>9 DEF RegisterEntry
  <2>3. QED
    BY <2>1, <2>2
<1>10. ASSUME NEW w \in Workers, Invoke(w) PROVE TypeOK'
  <2>1. SessionTypes' /\ TimerTypes'
    BY <1>10 DEF Invoke
  <2>2. ThreadTypes' /\ HistoryTypes'
    BY <1>10 DEF Invoke
  <2>3. QED
    BY <2>1, <2>2
<1>11. ASSUME NEW w \in Workers, InvokeAmd(w) PROVE TypeOK'
  <2>1. amd' \in BOOLEAN /\ mAutoSend' \in BOOLEAN
    BY <1>11 DEF InvokeAmd
  <2>2. SessionTypes'
    BY <1>11, <2>1 DEF InvokeAmd
  <2>3. TimerTypes' /\ ThreadTypes' /\ HistoryTypes'
    BY <1>11 DEF InvokeAmd
  <2>4. QED
    BY <2>2, <2>3
<1>12. ASSUME NEW w \in Workers, InvokeReturn(w) PROVE TypeOK'
  <2>1. SessionTypes' /\ TimerTypes'
    BY <1>12 DEF InvokeReturn
  <2>2. ThreadTypes' /\ HistoryTypes'
    BY <1>12 DEF InvokeReturn
  <2>3. QED
    BY <2>1, <2>2
<1>13. ASSUME NEW t \in Threads, Unregister(t) PROVE TypeOK'
  <2>1. SessionTypes' /\ TimerTypes'
    BY <1>13 DEF Unregister
  <2>2. ThreadTypes' /\ HistoryTypes'
    BY <1>13 DEF Unregister
  <2>3. QED
    BY <2>1, <2>2
<1>14. ASSUME NEW t \in Threads, HeapRemove(t) PROVE TypeOK'
  <2>1. mTimerHeap' \subseteq 0..MaxEntries
    BY <1>14 DEF HeapRemove
  <2>2. SessionTypes' /\ TimerTypes'
    BY <1>14, <2>1 DEF HeapRemove
  <2>3. ThreadTypes' /\ HistoryTypes'
    BY <1>14 DEF HeapRemove
  <2>4. QED
    BY <2>2, <2>3
<1>15. ASSUME NEW t \in Threads, SendOneway(t) PROVE TypeOK'
  <2>1. SessionTypes' /\ TimerTypes'
    BY <1>15 DEF SendOneway
  <2>2. ThreadTypes' /\ HistoryTypes'
    BY <1>15 DEF SendOneway
  <2>3. QED
    BY <2>1, <2>2
<1>16. ASSUME NEW t \in Threads, SendReply(t) PROVE TypeOK'
  <2>1. SessionTypes' /\ TimerTypes'
    BY <1>16 DEF SendReply
  <2>2. ThreadTypes' /\ HistoryTypes'
    BY <1>16 DEF SendReply
  <2>3. QED
    BY <2>1, <2>2
<1>17. ASSUME NEW t \in Threads, QueueReply(t) PROVE TypeOK'
  <2>1. SessionTypes' /\ TimerTypes'
    BY <1>17 DEF QueueReply
  <2>2. ThreadTypes' /\ HistoryTypes'
    BY <1>17 DEF QueueReply
  <2>3. QED
    BY <2>1, <2>2
<1>18. ASSUME NEW t \in Threads, PingBackCompleted(t) PROVE TypeOK'
  <2>1. SessionTypes' /\ TimerTypes'
    BY <1>18 DEF PingBackCompleted
  <2>2. ThreadTypes' /\ HistoryTypes'
    BY <1>18 DEF PingBackCompleted
  <2>3. QED
    BY <2>1, <2>2
<1>19. ASSUME NEW t \in Threads, SendQueued(t) PROVE TypeOK'
  <2>1. SessionTypes' /\ TimerTypes'
    BY <1>19 DEF SendQueued
  <2>2. ThreadTypes' /\ HistoryTypes'
    BY <1>19 DEF SendQueued
  <2>3. QED
    BY <2>1, <2>2
<1>20. ASSUME NEW t \in Threads, NothingQueued(t) PROVE TypeOK'
  <2>1. SessionTypes' /\ TimerTypes'
    BY <1>20 DEF NothingQueued
  <2>2. ThreadTypes' /\ HistoryTypes'
    BY <1>20 DEF NothingQueued
  <2>3. QED
    BY <2>1, <2>2
<1>21. ASSUME NEW t \in Threads, ReplyCompleted(t) PROVE TypeOK'
  <2>1. SessionTypes' /\ TimerTypes'
    BY <1>21 DEF ReplyCompleted
  <2>2. ThreadTypes' /\ HistoryTypes'
    BY <1>21 DEF ReplyCompleted
  <2>3. QED
    BY <2>1, <2>2
<1>22. ASSUME NEW t \in Threads, SetReading(t) PROVE TypeOK'
  <2>1. SessionTypes' /\ TimerTypes'
    BY <1>22 DEF SetReading
  <2>2. ThreadTypes' /\ HistoryTypes'
    BY <1>22 DEF SetReading
  <2>3. QED
    BY <2>1, <2>2
<1>23. ASSUME NEW t \in Threads, PostRead(t) PROVE TypeOK'
  <2>1. SessionTypes' /\ TimerTypes'
    BY <1>23 DEF PostRead
  <2>2. ThreadTypes' /\ HistoryTypes'
    BY <1>23 DEF PostRead
  <2>3. QED
    BY <2>1, <2>2
<1>24. ASSUME NEW t \in Threads, PostWrite(t) PROVE TypeOK'
  <2>1. SessionTypes' /\ TimerTypes'
    BY <1>24 DEF PostWrite
  <2>2. ThreadTypes' /\ HistoryTypes'
    BY <1>24 DEF PostWrite
  <2>3. QED
    BY <2>1, <2>2
<1>25. ASSUME PopExpiredEntry PROVE TypeOK'
  <2>1. SessionTypes' /\ TimerTypes'
    BY <1>25 DEF PopExpiredEntry
  <2>2. ThreadTypes' /\ HistoryTypes'
    BY <1>25 DEF PopExpiredEntry
  <2>3. QED
    BY <2>1, <2>2
<1>26. ASSUME EntryGone PROVE TypeOK'
  <2>1. SessionTypes' /\ TimerTypes'
    BY <1>26 DEF EntryGone
  <2>2. ThreadTypes' /\ HistoryTypes'
    BY <1>26 DEF EntryGone
  <2>3. QED
    BY <2>1, <2>2
<1>27. ASSUME RenewEntry PROVE TypeOK'
  <2>1. SessionTypes' /\ TimerTypes'
    BY <1>27 DEF RenewEntry
  <2>2. ThreadTypes' /\ HistoryTypes'
    BY <1>27 DEF RenewEntry
  <2>3. QED
    BY <2>1, <2>2
<1>28. ASSUME TakeConnection PROVE TypeOK'
  <2>1. SessionTypes' /\ TimerTypes'
    BY <1>28 DEF TakeConnection
  <2>2. ThreadTypes' /\ HistoryTypes'
    BY <1>28 DEF TakeConnection
  <2>3. QED
    BY <2>1, <2>2
<1>29. ASSUME PostPingBack PROVE TypeOK'
  <2>1. SessionTypes' /\ TimerTypes'
    BY <1>29 DEF PostPingBack
  <2>2. ThreadTypes' /\ HistoryTypes'
    BY <1>29 DEF PostPingBack
  <2>3. QED
    BY <2>1, <2>2
<1>30. ASSUME HeapAdd PROVE TypeOK'
  <2>1. ent[Pinger] \in 0..MaxEntries
    OBVIOUS
  <2>2. mTimerHeap' \subseteq 0..MaxEntries
    BY <1>30, <2>1 DEF HeapAdd
  <2>3. SessionTypes' /\ TimerTypes'
    BY <1>30, <2>2 DEF HeapAdd
  <2>4. ThreadTypes' /\ HistoryTypes'
    BY <1>30 DEF HeapAdd
  <2>5. QED
    BY <2>3, <2>4
<1>31. ASSUME AmdCommit PROVE TypeOK'
  <2>1. amd' \in BOOLEAN
    BY <1>31 DEF AmdCommit
  <2>2. SessionTypes'
    BY <1>31, <2>1 DEF AmdCommit
  <2>3. TimerTypes' /\ ThreadTypes' /\ HistoryTypes'
    BY <1>31 DEF AmdCommit
  <2>4. QED
    BY <2>2, <2>3
<1>32. ASSUME IoFails PROVE TypeOK'
  <2>1. SessionTypes' /\ TimerTypes'
    BY <1>32 DEF IoFails
  <2>2. ThreadTypes' /\ HistoryTypes'
    BY <1>32 DEF IoFails
  <2>3. QED
    BY <2>1, <2>2
<1>33. ASSUME EndSubscribe PROVE TypeOK'
  <2>1. SessionTypes' /\ TimerTypes'
    BY <1>33 DEF EndSubscribe
  <2>2. ThreadTypes' /\ HistoryTypes'
    BY <1>33 DEF EndSubscribe
  <2>3. QED
    BY <2>1, <2>2
<1>34. CASE UNCHANGED vars
  BY <1>34 DEF vars
<1>35. ASSUME NEW w \in Workers, InvokeThrows(w) PROVE TypeOK'
  <2>1. SessionTypes' /\ TimerTypes'
    BY <1>35 DEF InvokeThrows
  <2>2. ThreadTypes' /\ HistoryTypes'
    BY <1>35 DEF InvokeThrows
  <2>3. QED
    BY <2>1, <2>2
<1>36. QED
  BY <1>1, <1>2, <1>3, <1>4, <1>5, <1>6, <1>7, <1>8, <1>9, <1>10, <1>11, <1>12,
     <1>13, <1>14, <1>15, <1>16, <1>17, <1>18, <1>19, <1>20, <1>21, <1>22,
     <1>23, <1>24, <1>25, <1>26, <1>27, <1>28, <1>29, <1>30, <1>31, <1>32,
     <1>33, <1>34, <1>35 DEF Next, Completion, Process, Finish, Cycle

(* Every variable of a session keeps its type, for any number of workers,  *)
(* requests and timer entries.                                             *)
THEOREM TypeCorrect == Spec => []TypeOK
  BY TypeInit, TypeNext, PTL DEF Spec

-----------------------------------------------------------------------------
LEMMA IndInit == Init => IInv
<1> SUFFICES ASSUME Init PROVE IInv
  OBVIOUS
<1> USE ThreadsAssumption, BoundsAssumption
    DEF Init, HasTurn, Reads, IsReplying, Starts, Serves, Unparks, ReadPosted,
        ReplyPosted, TransportHasTurn, Queued, Pinged, PingPosted, PingPending,
        NoPings, WantsReply, Oneway, Replied
<1>1. TypeOK
  BY TypeInit
<1>2. Exclusion
  BY DEF Exclusion, MutexHeld, TurnUnique, PingUnique
<1>3. Agreement
  BY DEF Agreement, IoStateAgrees, PingsQuiet, EntryOwned
<1>4. Delivery
  BY DEF Delivery, RepliesAgree, CallbacksAgree, CallbackAfterReply
<1>5. QED
  BY <1>1, <1>2, <1>3, <1>4 DEF IInv

LEMMA IndNext == NoMix /\ ~AmdThrows /\ IInv /\ [Next]_vars => IInv'
<1> SUFFICES ASSUME NoMix, ~AmdThrows, IInv, [Next]_vars PROVE IInv'
  OBVIOUS
<1> TypeOK'
  BY TypeNext DEF IInv
<1> USE ThreadsAssumption, BoundsAssumption, PeerAssumption
    DEF IInv, TypeOK, SessionTypes, ThreadTypes, Exclusion, MutexHeld,
        TurnUnique, PingUnique, Agreement, IoStateAgrees, PingsQuiet,
        EntryOwned, Delivery, HasTurn, Reads, IsReplying, Starts, Serves,
        Unparks, ReadPosted, ReplyPosted, TransportHasTurn, Queued, Pinged,
        PingPosted, PingPending, NoPings, WantsReply, Oneway, WantsPingBacks,
        Goto, Return, Posted, requestVars, ioVars, callbackVars, callVars,
        transportVars, timerVars, historyVars
<1>1. ASSUME NEW w \in Workers, OnAccept(w) PROVE IInv'
  <2>1. Exclusion'
    BY <1>1 DEF OnAccept
  <2>2. Agreement'
    BY <1>1
    DEF OnAccept, PingBacks, NoMix, TimerTypes, RepliesAgree
  <2>3. Delivery'
    BY <1>1
    DEF OnAccept, RepliesAgree, CallbacksAgree, Replied, CallbackAfterReply,
        HistoryTypes
  <2>4. QED
    BY <2>1, <2>2, <2>3
<1>2. ASSUME NEW w \in Workers, ReadCompletes(w) PROVE IInv'
  <2>1. Exclusion'
    BY <1>2 DEF ReadCompletes
  <2>2. Agreement'
    BY <1>2
    DEF ReadCompletes, PingBacks, NoMix, TimerTypes, RepliesAgree
  <2>3. Delivery'
    BY <1>2
    DEF ReadCompletes, RepliesAgree, CallbacksAgree, Replied, CallbackAfterReply,
        HistoryTypes
  <2>4. QED
    BY <2>1, <2>2, <2>3
<1>3. ASSUME NEW w \in Workers, WriteCompletes(w) PROVE IInv'
  <2>1. Exclusion'
    BY <1>3 DEF WriteCompletes
  <2>2. Agreement'
    BY <1>3
    DEF WriteCompletes, PingBacks, NoMix, TimerTypes, RepliesAgree
  <2>3. Delivery'
    <3>1. CASE writing = PingBack
      BY <1>3, <3>1
      DEF WriteCompletes, RepliesAgree, CallbacksAgree, Replied,
          CallbackAfterReply, HistoryTypes
    <3>2. CASE writing # PingBack
      <4>1. writing = reqNo /\ reqNo \in Replies /\ WantsReply
        BY <1>3, <3>2 DEF WriteCompletes, RepliesAgree
      <4>2. replies' = Append(replies, reqNo)
        BY <1>3, <4>1 DEF WriteCompletes
      <4>3. \A m : Replied(m)' <=> Replied(m) \/ m = reqNo
        BY <4>1, <4>2, RepliedAppend DEF HistoryTypes
      <4>4. \A i \in DOMAIN replies' : replies'[i] <= reqNo
        BY <4>1, <4>2 DEF RepliesAgree, HistoryTypes
      <4>5. RepliesAgree'
        BY <1>3, <4>1, <4>3, <4>4 DEF WriteCompletes, RepliesAgree
      <4>6. CallbacksAgree'
        BY <1>3, <4>1, <4>3 DEF WriteCompletes, CallbacksAgree, CallbackAfterReply
      <4>7. QED
        BY <4>5, <4>6
    <3>3. QED
      BY <3>1, <3>2
  <2>4. QED
    BY <2>1, <2>2, <2>3
<1>4. ASSUME NEW w \in Workers, OnReadCompleted(w) PROVE IInv'
  <2>1. Exclusion'
    BY <1>4 DEF OnReadCompleted
  <2>2. Agreement'
    BY <1>4
    DEF OnReadCompleted, PingBacks, NoMix, TimerTypes, RepliesAgree
  <2>3. Delivery'
    BY <1>4
    DEF OnReadCompleted, RepliesAgree, CallbacksAgree, Replied, CallbackAfterReply,
        HistoryTypes
  <2>4. QED
    BY <2>1, <2>2, <2>3
<1>5. ASSUME NEW w \in Workers, DropRequest(w) PROVE IInv'
  <2>1. Exclusion'
    BY <1>5 DEF DropRequest
  <2>2. Agreement'
    BY <1>5
    DEF DropRequest, PingBacks, NoMix, TimerTypes, RepliesAgree
  <2>3. Delivery'
    BY <1>5
    DEF DropRequest, RepliesAgree, CallbacksAgree, Replied, CallbackAfterReply,
        HistoryTypes
  <2>4. QED
    BY <2>1, <2>2, <2>3
<1>6. ASSUME NEW w \in Workers, DecodeRequest(w) PROVE IInv'
  <2>1. Exclusion'
    BY <1>6 DEF DecodeRequest, FirstSteps
  <2>2. Agreement'
    BY <1>6
    DEF DecodeRequest, FirstSteps, PingBacks, NoMix, TimerTypes, RepliesAgree
  <2>3. Delivery'
    BY <1>6
    DEF DecodeRequest, FirstSteps, RepliesAgree, CallbacksAgree, Replied, CallbackAfterReply,
        HistoryTypes
  <2>4. QED
    BY <2>1, <2>2, <2>3
<1>7. ASSUME NEW w \in Workers, DecodeClose(w) PROVE IInv'
  <2>1. Exclusion'
    BY <1>7 DEF DecodeClose
  <2>2. Agreement'
    BY <1>7
    DEF DecodeClose, PingBacks, NoMix, TimerTypes, RepliesAgree
  <2>3. Delivery'
    BY <1>7
    DEF DecodeClose, RepliesAgree, CallbacksAgree, Replied, CallbackAfterReply,
        HistoryTypes
  <2>4. QED
    BY <2>1, <2>2, <2>3
<1>8. ASSUME NEW w \in Workers, RegisterHeap(w) PROVE IInv'
  <2>1. Exclusion'
    BY <1>8 DEF RegisterHeap
  <2>2. Agreement'
    BY <1>8
    DEF RegisterHeap, PingBacks, NoMix, TimerTypes, RepliesAgree
  <2>3. Delivery'
    BY <1>8
    DEF RegisterHeap, RepliesAgree, CallbacksAgree, Replied, CallbackAfterReply,
        HistoryTypes
  <2>4. QED
    BY <2>1, <2>2, <2>3
<1>9. ASSUME NEW w \in Workers, RegisterEntry(w) PROVE IInv'
  <2>1. Exclusion'
    BY <1>9 DEF RegisterEntry
  <2>2. Agreement'
    BY <1>9
    DEF RegisterEntry, PingBacks, NoMix, TimerTypes, RepliesAgree
  <2>3. Delivery'
    BY <1>9
    DEF RegisterEntry, RepliesAgree, CallbacksAgree, Replied, CallbackAfterReply,
        HistoryTypes
  <2>4. QED
    BY <2>1, <2>2, <2>3
<1>10. ASSUME NEW w \in Workers, Invoke(w) PROVE IInv'
  <2>1. Exclusion'
    BY <1>10 DEF Invoke
  <2>2. Agreement'
    BY <1>10
    DEF Invoke, PingBacks, NoMix, TimerTypes, RepliesAgree
  <2>3. Delivery'
    BY <1>10
    DEF Invoke, RepliesAgree, CallbacksAgree, Replied, CallbackAfterReply,
        HistoryTypes
  <2>4. QED
    BY <2>1, <2>2, <2>3
<1>11. ASSUME NEW w \in Workers, InvokeAmd(w) PROVE IInv'
  <2>1. Exclusion'
    BY <1>11 DEF InvokeAmd
  <2>2. Agreement'
    BY <1>11
    DEF InvokeAmd, PingBacks, NoMix, TimerTypes, RepliesAgree
  <2>3. Delivery'
    BY <1>11
    DEF InvokeAmd, RepliesAgree, CallbacksAgree, Replied, CallbackAfterReply,
        HistoryTypes
  <2>4. QED
    BY <2>1, <2>2, <2>3
<1>12. ASSUME NEW w \in Workers, InvokeReturn(w) PROVE IInv'
  <2>1. Exclusion'
    BY <1>12 DEF InvokeReturn
  <2>2. Agreement'
    BY <1>12
    DEF InvokeReturn, PingBacks, NoMix, TimerTypes, RepliesAgree
  <2>3. Delivery'
    BY <1>12
    DEF InvokeReturn, RepliesAgree, CallbacksAgree, Replied, CallbackAfterReply,
        HistoryTypes
  <2>4. QED
    BY <2>1, <2>2, <2>3
<1>13. ASSUME NEW t \in Threads, Unregister(t) PROVE IInv'
  <2>1. Exclusion'
    BY <1>13 DEF Unregister
  <2>2. Agreement'
    BY <1>13
    DEF Unregister, PingBacks, NoMix, TimerTypes, RepliesAgree
  <2>3. Delivery'
    BY <1>13
    DEF Unregister, RepliesAgree, CallbacksAgree, Replied, CallbackAfterReply,
        HistoryTypes
  <2>4. QED
    BY <2>1, <2>2, <2>3
<1>14. ASSUME NEW t \in Threads, HeapRemove(t) PROVE IInv'
  <2>1. Exclusion'
    BY <1>14 DEF HeapRemove
  <2>2. Agreement'
    BY <1>14
    DEF HeapRemove, PingBacks, NoMix, TimerTypes, RepliesAgree
  <2>3. Delivery'
    BY <1>14
    DEF HeapRemove, RepliesAgree, CallbacksAgree, Replied, CallbackAfterReply,
        HistoryTypes
  <2>4. QED
    BY <2>1, <2>2, <2>3
<1>15. ASSUME NEW t \in Threads, SendOneway(t) PROVE IInv'
  <2>1. Exclusion'
    BY <1>15 DEF SendOneway
  <2>2. Agreement'
    BY <1>15
    DEF SendOneway, PingBacks, NoMix, TimerTypes, RepliesAgree
  <2>3. Delivery'
    BY <1>15
    DEF SendOneway, RepliesAgree, CallbacksAgree, Replied, CallbackAfterReply,
        HistoryTypes
  <2>4. QED
    BY <2>1, <2>2, <2>3
<1>16. ASSUME NEW t \in Threads, SendReply(t) PROVE IInv'
  <2>1. Exclusion'
    BY <1>16 DEF SendReply
  <2>2. Agreement'
    BY <1>16
    DEF SendReply, PingBacks, NoMix, TimerTypes, RepliesAgree
  <2>3. Delivery'
    BY <1>16
    DEF SendReply, RepliesAgree, CallbacksAgree, Replied, CallbackAfterReply,
        HistoryTypes
  <2>4. QED
    BY <2>1, <2>2, <2>3
<1>17. ASSUME NEW t \in Threads, QueueReply(t) PROVE IInv'
  <2>1. Exclusion'
    BY <1>17 DEF QueueReply
  <2>2. Agreement'
    BY <1>17
    DEF QueueReply, PingBacks, NoMix, TimerTypes, RepliesAgree
  <2>3. Delivery'
    BY <1>17
    DEF QueueReply, RepliesAgree, CallbacksAgree, Replied, CallbackAfterReply,
        HistoryTypes
  <2>4. QED
    BY <2>1, <2>2, <2>3
<1>18. ASSUME NEW t \in Threads, PingBackCompleted(t) PROVE IInv'
  <2>1. Exclusion'
    BY <1>18 DEF PingBackCompleted
  <2>2. Agreement'
    BY <1>18
    DEF PingBackCompleted, PingBacks, NoMix, TimerTypes, RepliesAgree
  <2>3. Delivery'
    BY <1>18
    DEF PingBackCompleted, RepliesAgree, CallbacksAgree, Replied, CallbackAfterReply,
        HistoryTypes
  <2>4. QED
    BY <2>1, <2>2, <2>3
<1>19. ASSUME NEW t \in Threads, SendQueued(t) PROVE IInv'
  <2>1. Exclusion'
    BY <1>19 DEF SendQueued
  <2>2. Agreement'
    BY <1>19
    DEF SendQueued, PingBacks, NoMix, TimerTypes, RepliesAgree
  <2>3. Delivery'
    BY <1>19
    DEF SendQueued, RepliesAgree, CallbacksAgree, Replied, CallbackAfterReply,
        HistoryTypes
  <2>4. QED
    BY <2>1, <2>2, <2>3
<1>20. ASSUME NEW t \in Threads, NothingQueued(t) PROVE IInv'
  <2>1. Exclusion'
    BY <1>20 DEF NothingQueued
  <2>2. Agreement'
    BY <1>20
    DEF NothingQueued, PingBacks, NoMix, TimerTypes, RepliesAgree
  <2>3. Delivery'
    BY <1>20
    DEF NothingQueued, RepliesAgree, CallbacksAgree, Replied, CallbackAfterReply,
        HistoryTypes
  <2>4. QED
    BY <2>1, <2>2, <2>3
<1>21. ASSUME NEW t \in Threads, ReplyCompleted(t) PROVE IInv'
  <2>1. Exclusion'
    BY <1>21 DEF ReplyCompleted
  <2>2. Agreement'
    BY <1>21
    DEF ReplyCompleted, PingBacks, NoMix, TimerTypes, RepliesAgree
  <2>3. Delivery'
    BY <1>21
    DEF ReplyCompleted, RepliesAgree, CallbacksAgree, Replied, CallbackAfterReply,
        HistoryTypes
  <2>4. QED
    BY <2>1, <2>2, <2>3
<1>22. ASSUME NEW t \in Threads, SetReading(t) PROVE IInv'
  <2>1. Exclusion'
    BY <1>22 DEF SetReading
  <2>2. Agreement'
    BY <1>22
    DEF SetReading, PingBacks, NoMix, TimerTypes, RepliesAgree
  <2>3. Delivery'
    BY <1>22
    DEF SetReading, RepliesAgree, CallbacksAgree, Replied, CallbackAfterReply,
        HistoryTypes
  <2>4. QED
    BY <2>1, <2>2, <2>3
<1>23. ASSUME NEW t \in Threads, PostRead(t) PROVE IInv'
  <2>1. Exclusion'
    BY <1>23 DEF PostRead
  <2>2. Agreement'
    BY <1>23
    DEF PostRead, PingBacks, NoMix, TimerTypes, RepliesAgree
  <2>3. Delivery'
    BY <1>23
    DEF PostRead, RepliesAgree, CallbacksAgree, Replied, CallbackAfterReply,
        HistoryTypes
  <2>4. QED
    BY <2>1, <2>2, <2>3
<1>24. ASSUME NEW t \in Threads, PostWrite(t) PROVE IInv'
  <2>1. Exclusion'
    BY <1>24 DEF PostWrite
  <2>2. Agreement'
    BY <1>24
    DEF PostWrite, PingBacks, NoMix, TimerTypes, RepliesAgree
  <2>3. Delivery'
    BY <1>24
    DEF PostWrite, RepliesAgree, CallbacksAgree, Replied, CallbackAfterReply,
        HistoryTypes
  <2>4. QED
    BY <2>1, <2>2, <2>3
<1>25. ASSUME PopExpiredEntry PROVE IInv'
  <2>1. Exclusion'
    BY <1>25 DEF PopExpiredEntry
  <2>2. Agreement'
    BY <1>25
    DEF PopExpiredEntry, PingBacks, NoMix, TimerTypes, RepliesAgree
  <2>3. Delivery'
    BY <1>25
    DEF PopExpiredEntry, RepliesAgree, CallbacksAgree, Replied, CallbackAfterReply,
        HistoryTypes
  <2>4. QED
    BY <2>1, <2>2, <2>3
<1>26. ASSUME EntryGone PROVE IInv'
  <2>1. Exclusion'
    BY <1>26 DEF EntryGone
  <2>2. Agreement'
    BY <1>26
    DEF EntryGone, PingBacks, NoMix, TimerTypes, RepliesAgree
  <2>3. Delivery'
    BY <1>26
    DEF EntryGone, RepliesAgree, CallbacksAgree, Replied, CallbackAfterReply,
        HistoryTypes
  <2>4. QED
    BY <2>1, <2>2, <2>3
<1>27. ASSUME RenewEntry PROVE IInv'
  <2>1. Exclusion'
    BY <1>27 DEF RenewEntry
  <2>2. Agreement'
    BY <1>27
    DEF RenewEntry, PingBacks, NoMix, TimerTypes, RepliesAgree
  <2>3. Delivery'
    BY <1>27
    DEF RenewEntry, RepliesAgree, CallbacksAgree, Replied, CallbackAfterReply,
        HistoryTypes
  <2>4. QED
    BY <2>1, <2>2, <2>3
<1>28. ASSUME TakeConnection PROVE IInv'
  <2>1. Exclusion'
    BY <1>28 DEF TakeConnection
  <2>2. Agreement'
    BY <1>28
    DEF TakeConnection, PingBacks, NoMix, TimerTypes, RepliesAgree
  <2>3. Delivery'
    BY <1>28
    DEF TakeConnection, RepliesAgree, CallbacksAgree, Replied, CallbackAfterReply,
        HistoryTypes
  <2>4. QED
    BY <2>1, <2>2, <2>3
<1>29. ASSUME PostPingBack PROVE IInv'
  <2>1. Exclusion'
    BY <1>29 DEF PostPingBack
  <2>2. Agreement'
    BY <1>29
    DEF PostPingBack, PingBacks, NoMix, TimerTypes, RepliesAgree
  <2>3. Delivery'
    BY <1>29
    DEF PostPingBack, RepliesAgree, CallbacksAgree, Replied, CallbackAfterReply,
        HistoryTypes
  <2>4. QED
    BY <2>1, <2>2, <2>3
<1>30. ASSUME HeapAdd PROVE IInv'
  <2>1. Exclusion'
    BY <1>30 DEF HeapAdd
  <2>2. Agreement'
    BY <1>30
    DEF HeapAdd, PingBacks, NoMix, TimerTypes, RepliesAgree
  <2>3. Delivery'
    BY <1>30
    DEF HeapAdd, RepliesAgree, CallbacksAgree, Replied, CallbackAfterReply,
        HistoryTypes
  <2>4. QED
    BY <2>1, <2>2, <2>3
<1>31. ASSUME AmdCommit PROVE IInv'
  <2>1. Exclusion'
    BY <1>31 DEF AmdCommit
  <2>2. Agreement'
    BY <1>31
    DEF AmdCommit, PingBacks, NoMix, TimerTypes, RepliesAgree
  <2>3. Delivery'
    BY <1>31
    DEF AmdCommit, RepliesAgree, CallbacksAgree, Replied, CallbackAfterReply,
        HistoryTypes
  <2>4. QED
    BY <2>1, <2>2, <2>3
<1>32. ASSUME IoFails PROVE IInv'
  <2>1. Exclusion'
    BY <1>32 DEF IoFails
  <2>2. Agreement'
    BY <1>32
    DEF IoFails, PingBacks, NoMix, TimerTypes, RepliesAgree
  <2>3. Delivery'
    BY <1>32
    DEF IoFails, RepliesAgree, CallbacksAgree, Replied, CallbackAfterReply,
        HistoryTypes
  <2>4. QED
    BY <2>1, <2>2, <2>3
<1>33. ASSUME EndSubscribe PROVE IInv'
  <2>1. Exclusion'
    BY <1>33 DEF EndSubscribe
  <2>2. Agreement'
    BY <1>33
    DEF EndSubscribe, PingBacks, NoMix, TimerTypes, RepliesAgree
  <2>3. Delivery'
    BY <1>33
    DEF EndSubscribe, RepliesAgree, CallbacksAgree, Replied, CallbackAfterReply,
        HistoryTypes
  <2>4. QED
    BY <2>1, <2>2, <2>3
<1>34. CASE UNCHANGED vars
  BY <1>34
  DEF vars, TimerTypes, HistoryTypes, RepliesAgree, CallbacksAgree, Replied,
      CallbackAfterReply, PingBacks
<1>35. ASSUME NEW w \in Workers, InvokeThrows(w) PROVE IInv'
  <2>1. Exclusion'
    BY <1>35 DEF InvokeThrows
  <2>2. Agreement'
    BY <1>35 DEF InvokeThrows, PingBacks, NoMix, TimerTypes, RepliesAgree
  <2>3. Delivery'
    BY <1>35
    DEF InvokeThrows, RepliesAgree, CallbacksAgree, Replied, CallbackAfterReply,
        HistoryTypes
  <2>4. QED
    BY <2>1, <2>2, <2>3
<1>36. QED
  BY <1>1, <1>2, <1>3, <1>4, <1>5, <1>6, <1>7, <1>8, <1>9, <1>10, <1>11, <1>12,
     <1>13, <1>14, <1>15, <1>16, <1>17, <1>18, <1>19, <1>20, <1>21, <1>22,
     <1>23, <1>24, <1>25, <1>26, <1>27, <1>28, <1>29, <1>30, <1>31, <1>32,
     <1>33, <1>34, <1>35 DEF Next, Completion, Process, Finish, Cycle

-----------------------------------------------------------------------------
LEMMA Inductive == ASSUME NoMix, ~AmdThrows PROVE Spec => []IInv
  BY NoMix, ~AmdThrows, IndInit, IndNext, PTL DEF Spec

(* Where ping backs and oneway requests do not meet, and no scope guard    *)
(* replies in place of an Amd, no read or write is posted while another    *)
(* operation of the session is outstanding: the assertion in               *)
(* AsioSessionState::postWrite cannot fail.                                *)
THEOREM OneOperationHolds == ASSUME NoMix, ~AmdThrows PROVE Spec => []OneOperation
<1>1. IInv => OneOperation
  <2> SUFFICES ASSUME IInv, NEW t \in All, Posting(t)
               PROVE  /\ mState \in {"Ready", "Failed"}
                      /\ \A u \in All \ {t} : ~Posting(u)
    BY DEF OneOperation
  <2> USE DEF IInv, TypeOK, SessionTypes, Exclusion, MutexHeld, TurnUnique, PingUnique,
          Agreement, IoStateAgrees, PingsQuiet, NoPings, Posting, HasTurn, Reads,
          IsReplying, ReadPosted, ReplyPosted, TransportHasTurn, PingPosted, PingPending
  <2>1. CASE t = Pinger
    BY <2>1
  <2>2. CASE t # Pinger
    BY <2>2
  <2>3. QED
    BY <2>1, <2>2
<1>2. QED
  BY NoMix, ~AmdThrows, <1>1, Inductive, PTL

(* There, too, every assertion about mIoState and mPingBackTimerEntry      *)
(* holds where it is evaluated.                                            *)
THEOREM IoStateAssertionsHold == ASSUME NoMix, ~AmdThrows PROVE Spec => []IoStateAssertions
<1>1. IInv => IoStateAssertions
  BY DEF IInv, TypeOK, SessionTypes, IoStates, IoStateAssertions, Agreement,
         IoStateAgrees, EntryOwned, ThreadTypes, HasTurn, Reads, IsReplying, Starts,
         Serves, Pinged
<1>2. QED
  BY NoMix, ~AmdThrows, <1>1, Inductive, PTL

(* A callback that hands the connection over never runs before the reply   *)
(* to the request that added it was delivered.                             *)
THEOREM CallbackAfterReplyHolds == ASSUME NoMix, ~AmdThrows PROVE Spec => []CallbackAfterReply
<1>1. IInv => CallbackAfterReply
  BY DEF IInv, Delivery, CallbacksAgree
<1>2. QED
  BY NoMix, ~AmdThrows, <1>1, Inductive, PTL

-----------------------------------------------------------------------------
(* Once endSubscribeNamed has returned, no worker is in the servant: from  *)
(* the mutex alone, with any mix of requests.                              *)
THEOREM ServantQuietHolds == Spec => []ServantQuiet
<1> DEFINE Inv == TypeOK /\ MutexHeld /\ ServantQuiet
<1>1. Init => Inv
  BY TypeInit, ThreadsAssumption DEF Init, MutexHeld, ServantQuiet
<1>2. Inv /\ [Next]_vars => Inv'
  <2> SUFFICES ASSUME Inv, [Next]_vars PROVE MutexHeld' /\ ServantQuiet'
    BY TypeNext
  <2> USE ThreadsAssumption DEF TypeOK, ThreadTypes, MutexHeld, ServantQuiet, Goto, Return,
          requestVars, ioVars, callbackVars, callVars, transportVars
  <2>1. ASSUME NEW w \in Workers, Completion(w) PROVE MutexHeld' /\ ServantQuiet'
    BY <2>1 DEF Completion, OnAccept, ReadCompletes, WriteCompletes
  <2>2. ASSUME NEW w \in Workers, Process(w) PROVE MutexHeld' /\ ServantQuiet'
    <3>1. CASE DecodeRequest(w)
      BY <3>1 DEF DecodeRequest, FirstSteps
    <3>2. CASE OnReadCompleted(w) \/ DropRequest(w) \/ DecodeClose(w)
      BY <3>2 DEF OnReadCompleted, DropRequest, DecodeClose
    <3>3. CASE RegisterHeap(w) \/ RegisterEntry(w)
      BY <3>3 DEF RegisterHeap, RegisterEntry
    <3>4. CASE Invoke(w) \/ InvokeAmd(w) \/ InvokeReturn(w) \/ InvokeThrows(w)
      BY <3>4 DEF Invoke, InvokeAmd, InvokeReturn, InvokeThrows
    <3>5. QED
      BY <2>2, <3>1, <3>2, <3>3, <3>4 DEF Process
  <2>3. ASSUME NEW t \in Threads, Finish(t) PROVE MutexHeld' /\ ServantQuiet'
    BY <2>3 DEF Finish, Unregister, HeapRemove, SendOneway, SendReply, QueueReply,
       PingBackCompleted, SendQueued, NothingQueued, ReplyCompleted, SetReading,
       PostRead, PostWrite
  <2>4. CASE AmdCommit
    BY <2>4 DEF AmdCommit
  <2>5. CASE Cycle
    BY <2>5 DEF Cycle, PopExpiredEntry, EntryGone, RenewEntry, TakeConnection,
       PostPingBack, HeapAdd
  <2>6. CASE IoFails \/ EndSubscribe \/ UNCHANGED vars
    BY <2>6 DEF IoFails, EndSubscribe, vars
  <2>7. QED
    BY <2>1, <2>2, <2>3, <2>4, <2>5, <2>6 DEF Next
<1>3. QED
  BY <1>1, <1>2, PTL DEF Spec

-----------------------------------------------------------------------------
LEMMA ExchangeInit == Init => Exchange!Init
  BY DEF Init, Exchange!Init

LEMMA ExchangeNext == IInv /\ [Next]_vars => [Exchange!Next]_(Exchange!vars)
<1> SUFFICES ASSUME IInv, [Next]_vars PROVE [Exchange!Next]_(Exchange!vars)
  OBVIOUS
<1> USE DEF IInv, TypeOK, SessionTypes, Delivery, RepliesAgree, WantsReply, Replied,
        Exchange!Next, Exchange!vars, Exchange!Replied
<1>1. ASSUME NEW w \in Workers, DecodeRequest(w) \/ DecodeClose(w) PROVE Exchange!Take
  BY <1>1, BoundsAssumption
  DEF DecodeRequest, DecodeClose, Exchange!Take, requestVars, historyVars
<1>2. ASSUME NEW w \in Workers, WriteCompletes(w), writing # PingBack
      PROVE  Exchange!Reply
  BY <1>2 DEF WriteCompletes, ReplyPosted, Exchange!Reply, requestVars
<1>3. ASSUME NEW w \in Workers, WriteCompletes(w), writing = PingBack
      PROVE  UNCHANGED Exchange!vars
  BY <1>3 DEF WriteCompletes, requestVars
<1> USE DEF requestVars, historyVars
<1>4. ASSUME NEW w \in Workers, OnAccept(w) \/ ReadCompletes(w)
      PROVE  UNCHANGED Exchange!vars
  BY <1>4 DEF OnAccept, ReadCompletes
<1>5. ASSUME NEW w \in Workers, Process(w), ~DecodeRequest(w), ~DecodeClose(w)
      PROVE  UNCHANGED Exchange!vars
  BY <1>5 DEF Process, OnReadCompleted, DropRequest, RegisterHeap, RegisterEntry,
     Invoke, InvokeAmd, InvokeReturn, InvokeThrows
<1>6. ASSUME NEW t \in Threads, Finish(t) PROVE UNCHANGED Exchange!vars
  BY <1>6 DEF Finish, Unregister, HeapRemove, SendOneway, SendReply, QueueReply,
     PingBackCompleted, SendQueued, NothingQueued, ReplyCompleted, SetReading,
     PostRead, PostWrite
<1>7. CASE Cycle
  BY <1>7 DEF Cycle, PopExpiredEntry, EntryGone, RenewEntry, TakeConnection,
     PostPingBack, HeapAdd
<1>8. CASE AmdCommit \/ IoFails \/ EndSubscribe \/ UNCHANGED vars
  BY <1>8 DEF AmdCommit, IoFails, EndSubscribe, vars
<1>9. QED
  BY <1>1, <1>2, <1>3, <1>4, <1>5, <1>6, <1>7, <1>8 DEF Next, Completion

(* A session implements RequestReply: requests are taken one at a time and *)
(* each gets at most one reply, before the next is taken.  The hypothesis  *)
(* on AmdThrows is needed: the reply of the scope guard that               *)
(* processRequest has not dismissed and the commit of the Amd would be two *)
(* replies to one request.                                                 *)
THEOREM ExchangeImplemented == ASSUME NoMix, ~AmdThrows PROVE Spec => ExchangeSpec
<1>1. Spec => Exchange!Init /\ [][Exchange!Next]_(Exchange!vars)
  BY NoMix, ~AmdThrows, Inductive, ExchangeInit, ExchangeNext, PTL DEF Spec
<1>2. QED
  BY <1>1, PTL DEF ExchangeSpec, Exchange!Spec
=============================================================================
