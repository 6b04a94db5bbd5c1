---------------------- MODULE DynamicThreadPool_proof ----------------------
(***************************************************************************)
(* Proofs about DynamicThreadPool, for any number of threads and starts:   *)
(* where no request is served before start() has returned, the pool keeps  *)
(* a spare thread as long as it may grow and stop() leaves no thread in    *)
(* the task; and its counters stay in range if no exception leaves a run   *)
(* of the task.                                                            *)
(***************************************************************************)
EXTENDS DynamicThreadPool, FiniteSetTheorems, TLAPS

\* Cardinalities of sets of threads.
LEMMA CardFacts ==
    ASSUME NEW S \in SUBSET Threads, NEW t \in Threads
    PROVE  /\ Cardinality(S) \in Nat
           /\ Cardinality(S \cup {t}) = IF t \in S THEN Cardinality(S) ELSE Cardinality(S) + 1
           /\ Cardinality(S \ {t}) = IF t \in S THEN Cardinality(S) - 1 ELSE Cardinality(S)
<1>1. IsFiniteSet(S)
  BY ThreadsFinite, FS_Subset
<1>2. Cardinality(S) \in Nat
  BY <1>1, FS_CardinalityType
<1>3. Cardinality(S \cup {t}) = IF t \in S THEN Cardinality(S) ELSE Cardinality(S) + 1
  BY <1>1, FS_AddElement
<1>4. Cardinality(S \ {t}) = IF t \in S THEN Cardinality(S) - 1 ELSE Cardinality(S)
  BY <1>1, FS_RemoveElement
<1>5. QED
  BY <1>2, <1>3, <1>4

LEMMA CardSubset ==
    ASSUME NEW S, NEW T \in SUBSET Threads, S \subseteq T
    PROVE  Cardinality(S) \in Nat /\ Cardinality(T) \in Nat
           /\ Cardinality(S) <= Cardinality(T)
<1>1. IsFiniteSet(T) /\ IsFiniteSet(S)
  BY ThreadsFinite, FS_Subset
<1>2. QED
  BY <1>1, FS_Subset, FS_CardinalityType

Places == ThreadPlaces /\ CallerPlaces /\ BusyThreads
Counts == BusyCount /\ Sizes /\ SpareThread

LEMMA IndInit == Init => IInv
<1> SUFFICES ASSUME Init PROVE IInv
  OBVIOUS
<1>1. TypeOK
  <2>1. stopFlag \in BOOLEAN
    BY DEF Init
  <2>2. starts \in 0..MaxStarts /\ mBusyCount \in Nat
    BY StartsAssumption DEF Init
  <2>3. QED
    BY <2>1, <2>2 DEF Init, TypeOK, Steps
<1>2. ThreadPlaces /\ CallerPlaces /\ BusyThreads
  BY DEF Init, ThreadPlaces, CallerPlaces, BusyThreads, Alive
<1>3. Cardinality({}) = 0
  BY FS_EmptySet
<1>4. BusyCount /\ Sizes /\ SpareThread
  BY <1>3, CountsAssumption DEF Init, BusyCount, Sizes, SpareThread, Started
<1>5. QED
  BY <1>1, <1>2, <1>4 DEF IInv

LEMMA IndNext == "early" \notin Events /\ IInv /\ [Next]_vars => IInv'
<1> SUFFICES ASSUME "early" \notin Events, IInv, [Next]_vars PROVE IInv'
  OBVIOUS
<1>a. TypeOK /\ Places /\ Counts
  BY DEF IInv, Places, Counts
<1>b. /\ Cardinality(mBusy) \in Nat /\ Cardinality(mThreads) \in Nat
      /\ Cardinality(mBusy) <= Cardinality(mThreads)
  BY <1>a, CardSubset DEF TypeOK, Places, BusyThreads
<1>c. \A t \in Threads :
         /\ Cardinality(mBusy \cup {t})
               = IF t \in mBusy THEN Cardinality(mBusy) ELSE Cardinality(mBusy) + 1
         /\ Cardinality(mBusy \ {t})
               = IF t \in mBusy THEN Cardinality(mBusy) - 1 ELSE Cardinality(mBusy)
         /\ Cardinality(mThreads \cup {t})
               = IF t \in mThreads THEN Cardinality(mThreads) ELSE Cardinality(mThreads) + 1
         /\ Cardinality(mThreads \ {t})
               = IF t \in mThreads THEN Cardinality(mThreads) - 1 ELSE Cardinality(mThreads)
  BY <1>a, CardFacts DEF TypeOK
<1>d. Cardinality({}) = 0
  BY FS_EmptySet
<1>e. \A t \in Threads : Cardinality(mBusy \ {t}) \in Nat /\ Cardinality(mThreads \ {t}) \in Nat
  BY <1>a, CardFacts DEF TypeOK
<1>f. \A t \in mThreads : Cardinality(mBusy \cup {t}) <= Cardinality(mThreads)
  BY <1>a, CardSubset DEF TypeOK, Places, BusyThreads
<1> USE <1>a, CountsAssumption, StartsAssumption
    DEF TypeOK, Places, Counts, ThreadPlaces, CallerPlaces, BusyThreads, BusyCount,
        Sizes, SpareThread, Started, Alive, Steps, At, Goto, Arrives, CountBusy,
        AllBusy, StayOrGo, Free, poolVars, threadVars, callerVars
<1>1. ASSUME Start PROVE (TypeOK /\ Places /\ Counts)'
  <2>1. TypeOK'
    BY <1>1, <1>b DEF Start
  <2>2. (ThreadPlaces /\ CallerPlaces)'
    BY <1>1 DEF Start
  <2>3. BusyThreads'
    BY <1>1 DEF Start
  <2>4. Counts'
    BY <1>1, <1>b, <1>c, <1>d DEF Start
  <2>5. QED
    BY <2>1, <2>2, <2>3, <2>4
<1>2. ASSUME Insert PROVE (TypeOK /\ Places /\ Counts)'
  <2>1. TypeOK'
    BY <1>2, <1>b DEF Insert
  <2>2. (ThreadPlaces /\ CallerPlaces)'
    BY <1>2 DEF Insert
  <2>3. BusyThreads'
    BY <1>2 DEF Insert
  <2>a. PICK t \in Threads : launching = {t}
    BY <1>2 DEF Insert
  <2>b. mThreads' = mThreads \cup {t} /\ Cardinality(mThreads') = Cardinality(mThreads) + 1
    BY <1>2, <1>c, <2>a DEF Insert
  <2>4. Counts'
    BY <1>2, <1>b, <1>d, <2>b DEF Insert
  <2>5. QED
    BY <2>1, <2>2, <2>3, <2>4
<1>3. ASSUME SetStopFlag PROVE (TypeOK /\ Places /\ Counts)'
  <2>1. TypeOK'
    BY <1>3, <1>b DEF SetStopFlag
  <2>2. (ThreadPlaces /\ CallerPlaces)'
    BY <1>3 DEF SetStopFlag
  <2>3. BusyThreads'
    BY <1>3 DEF SetStopFlag
  <2>4. Counts'
    BY <1>3, <1>b, <1>c, <1>d DEF SetStopFlag
  <2>5. QED
    BY <2>1, <2>2, <2>3, <2>4
<1>4. ASSUME Snapshot PROVE (TypeOK /\ Places /\ Counts)'
  <2>1. TypeOK'
    BY <1>4, <1>b DEF Snapshot
  <2>2. (ThreadPlaces /\ CallerPlaces)'
    BY <1>4 DEF Snapshot
  <2>3. BusyThreads'
    BY <1>4 DEF Snapshot
  <2>4. Counts'
    BY <1>4, <1>b, <1>c, <1>d DEF Snapshot
  <2>5. QED
    BY <2>1, <2>2, <2>3, <2>4
<1>5. ASSUME Stopped PROVE (TypeOK /\ Places /\ Counts)'
  <2>1. TypeOK'
    BY <1>5, <1>b DEF Stopped
  <2>2. (ThreadPlaces /\ CallerPlaces)'
    BY <1>5 DEF Stopped
  <2>3. BusyThreads'
    BY <1>5 DEF Stopped
  <2>4. Counts'
    BY <1>5, <1>b, <1>c, <1>d DEF Stopped
  <2>5. QED
    BY <2>1, <2>2, <2>3, <2>4
<1>6. ASSUME NEW t \in Threads, Create(t) PROVE (TypeOK /\ Places /\ Counts)'
  <2>1. TypeOK'
    BY <1>6, <1>b DEF Create
  <2>2. (ThreadPlaces /\ CallerPlaces)'
    BY <1>6 DEF Create
  <2>3. BusyThreads'
    BY <1>6 DEF Create
  <2>4. Counts'
    BY <1>6, <1>b, <1>c, <1>d DEF Create
  <2>5. QED
    BY <2>1, <2>2, <2>3, <2>4
<1>7. ASSUME NEW t \in Threads, Join(t) PROVE (TypeOK /\ Places /\ Counts)'
  <2>1. TypeOK'
    BY <1>7, <1>b DEF Join
  <2>2. (ThreadPlaces /\ CallerPlaces)'
    BY <1>7 DEF Join
  <2>3. BusyThreads'
    BY <1>7 DEF Join
  <2>4. Counts'
    BY <1>7, <1>b, <1>c, <1>d DEF Join
  <2>5. QED
    BY <2>1, <2>2, <2>3, <2>4
<1>8. ASSUME NEW t \in Threads, InitThread(t) PROVE (TypeOK /\ Places /\ Counts)'
  <2>1. TypeOK'
    BY <1>8, <1>b DEF InitThread
  <2>2. (ThreadPlaces /\ CallerPlaces)'
    BY <1>8 DEF InitThread
  <2>3. BusyThreads'
    BY <1>8 DEF InitThread
  <2>4. Counts'
    BY <1>8, <1>b, <1>c, <1>d DEF InitThread
  <2>5. QED
    BY <2>1, <2>2, <2>3, <2>4
<1>9. ASSUME NEW t \in Threads, Loop(t) PROVE (TypeOK /\ Places /\ Counts)'
  <2>1. TypeOK'
    BY <1>9, <1>b DEF Loop
  <2>2. (ThreadPlaces /\ CallerPlaces)'
    BY <1>9 DEF Loop
  <2>3. BusyThreads'
    BY <1>9 DEF Loop
  <2>4. Counts'
    BY <1>9, <1>b, <1>c, <1>d DEF Loop
  <2>5. QED
    BY <2>1, <2>2, <2>3, <2>4
<1>10. ASSUME NEW t \in Threads, ServeFirst(t) PROVE (TypeOK /\ Places /\ Counts)'
  <2>1. TypeOK'
    BY <1>10, <1>b DEF ServeFirst
  <2>2. (ThreadPlaces /\ CallerPlaces)'
    BY <1>10 DEF ServeFirst
  <2>3. BusyThreads'
    BY <1>10 DEF ServeFirst
  <2>a. t \in mThreads /\ t \notin mBusy
    BY <1>10 DEF ServeFirst
  <2>d. mBusy' = mBusy \cup {t} /\ Cardinality(mBusy') = Cardinality(mBusy) + 1
        /\ Cardinality(mBusy') <= Cardinality(mThreads) /\ mBusyCount' = mBusyCount + 1
    BY <1>10, <1>b, <1>c, <1>f, <2>a DEF ServeFirst
  <2>4. Counts'
    BY <1>10, <1>b, <2>d DEF ServeFirst
  <2>5. QED
    BY <2>1, <2>2, <2>3, <2>4
<1>11. ASSUME NEW t \in Threads, GrowPool(t) PROVE (TypeOK /\ Places /\ Counts)'
  <2>1. TypeOK'
    BY <1>11, <1>b DEF GrowPool
  <2>2. (ThreadPlaces /\ CallerPlaces)'
    BY <1>11 DEF GrowPool
  <2>3. BusyThreads'
    BY <1>11 DEF GrowPool
  <2>a. t \in mThreads /\ t \notin mBusy
    BY <1>11 DEF GrowPool
  <2>b. PICK new \in Free : mThreads' = mThreads \cup {new}
    BY <1>11 DEF GrowPool
  <2>c. Cardinality(mThreads') = Cardinality(mThreads) + 1
    BY <1>c, <2>b
  <2>d. mBusy' = mBusy \cup {t} /\ Cardinality(mBusy') = Cardinality(mBusy) + 1
        /\ Cardinality(mBusy') <= Cardinality(mThreads) /\ mBusyCount' = mBusyCount + 1
    BY <1>11, <1>b, <1>c, <1>f, <2>a DEF GrowPool
  <2>4. Counts'
    BY <1>11, <1>b, <2>d, <2>b, <2>c DEF GrowPool
  <2>5. QED
    BY <2>1, <2>2, <2>3, <2>4
<1>12. ASSUME NEW t \in Threads, AtLimit(t) PROVE (TypeOK /\ Places /\ Counts)'
  <2>1. TypeOK'
    BY <1>12, <1>b DEF AtLimit
  <2>2. (ThreadPlaces /\ CallerPlaces)'
    BY <1>12 DEF AtLimit
  <2>3. BusyThreads'
    BY <1>12 DEF AtLimit
  <2>4. Counts'
    BY <1>12, <1>b, <1>c, <1>d DEF AtLimit
  <2>5. QED
    BY <2>1, <2>2, <2>3, <2>4
<1>13. ASSUME NEW t \in Threads, ServeNext(t) PROVE (TypeOK /\ Places /\ Counts)'
  <2>1. TypeOK'
    BY <1>13, <1>b DEF ServeNext
  <2>2. (ThreadPlaces /\ CallerPlaces)'
    BY <1>13 DEF ServeNext
  <2>3. BusyThreads'
    BY <1>13 DEF ServeNext
  <2>4. Counts'
    BY <1>13, <1>b, <1>c, <1>d DEF ServeNext
  <2>5. QED
    BY <2>1, <2>2, <2>3, <2>4
<1>14. ASSUME NEW t \in Threads, ServantReturns(t) PROVE (TypeOK /\ Places /\ Counts)'
  <2>1. TypeOK'
    BY <1>14, <1>b DEF ServantReturns
  <2>2. (ThreadPlaces /\ CallerPlaces)'
    BY <1>14 DEF ServantReturns
  <2>3. BusyThreads'
    BY <1>14 DEF ServantReturns
  <2>4. Counts'
    BY <1>14, <1>b, <1>c, <1>d DEF ServantReturns
  <2>5. QED
    BY <2>1, <2>2, <2>3, <2>4
<1>15. ASSUME NEW t \in Threads, TaskReturns(t) PROVE (TypeOK /\ Places /\ Counts)'
  <2>1. TypeOK'
    BY <1>15, <1>b DEF TaskReturns
  <2>2. (ThreadPlaces /\ CallerPlaces)'
    BY <1>15 DEF TaskReturns
  <2>3. BusyThreads'
    BY <1>15 DEF TaskReturns
  <2>4. Counts'
    BY <1>15, <1>b, <1>c, <1>d DEF TaskReturns
  <2>5. QED
    BY <2>1, <2>2, <2>3, <2>4
<1>16. ASSUME NEW t \in Threads, TaskThrows(t) PROVE (TypeOK /\ Places /\ Counts)'
  <2>1. TypeOK'
    BY <1>16, <1>b DEF TaskThrows
  <2>2. (ThreadPlaces /\ CallerPlaces)'
    BY <1>16 DEF TaskThrows
  <2>3. BusyThreads'
    BY <1>16 DEF TaskThrows
  <2>4. Counts'
    BY <1>16, <1>b, <1>c, <1>d DEF TaskThrows
  <2>5. QED
    BY <2>1, <2>2, <2>3, <2>4
<1>17. ASSUME NEW t \in Threads, NotifyReady(t) PROVE (TypeOK /\ Places /\ Counts)'
  <2>1. TypeOK'
    <3>a. ASSUME t \in mBusy PROVE mBusyCount' \in Nat
      <4>1. Cardinality(mBusy) - 1 \in Nat /\ Cardinality(mBusy) <= mBusyCount
        BY <1>17, <1>c, <1>e, <3>a
      <4>2. mBusyCount' = mBusyCount - 1
        BY <1>17, <3>a DEF NotifyReady
      <4>3. QED
        BY <1>b, <4>1, <4>2
    <3>b. ASSUME t \notin mBusy PROVE mBusyCount' \in Nat
      BY <1>17, <3>b DEF NotifyReady
    <3>1. mBusyCount' \in Nat
      BY <3>a, <3>b
    <3>2. QED
      BY <1>17, <3>1 DEF NotifyReady
  <2>2. (ThreadPlaces /\ CallerPlaces)'
    BY <1>17 DEF NotifyReady
  <2>3. BusyThreads'
    BY <1>17 DEF NotifyReady
  <2>4. Counts'
    <3>1. Cardinality(mBusy') = IF t \in mBusy THEN Cardinality(mBusy) - 1 ELSE Cardinality(mBusy)
      BY <1>17, <1>c DEF NotifyReady
    <3>2. Cardinality(mBusy') \in Nat /\ mBusyCount' \in Nat
      BY <1>17, <1>e, <2>1 DEF NotifyReady
    <3>3. BusyCount' /\ Sizes'
      BY <1>17, <1>b, <3>1, <3>2 DEF NotifyReady
    <3>4. SpareThread'
      BY <1>17, <1>b, <3>1, <3>2 DEF NotifyReady
    <3>5. QED
      BY <3>3, <3>4
  <2>5. QED
    BY <2>1, <2>2, <2>3, <2>4
<1>18. ASSUME NEW t \in Threads, IdleCheck(t) PROVE (TypeOK /\ Places /\ Counts)'
  <2>1. CASE UNCHANGED <<mThreads, retired>>
    <3>1. TypeOK' /\ ThreadPlaces' /\ CallerPlaces'
      BY <1>18, <2>1 DEF IdleCheck
    <3>2. BusyThreads' /\ Counts'
      BY <1>18, <2>1 DEF IdleCheck
    <3>3. QED
      BY <3>1, <3>2
  <2>2. CASE /\ mBusyCount < Cardinality(mThreads) - 1 /\ TargetCount < Cardinality(mThreads)
             /\ mThreads' = mThreads \ {t} /\ retired' = retired \cup {t}
    <3>1. /\ pc[t] = "idleCheck" /\ pc' = [pc EXCEPT ![t] = "loop"]
          /\ UNCHANGED <<stopFlag, mBusyCount, mBusy, callerVars>>
      BY <1>18 DEF IdleCheck
    <3>2. t \notin mBusy /\ caller \notin {"launching", "inserting"} /\ t \in mThreads
      BY <1>b, <2>2, <3>1
    <3>3. TypeOK'
      BY <2>2, <3>1
    <3>4. ThreadPlaces'
      BY <2>2, <3>1, <3>2
    <3>5. CallerPlaces' /\ BusyThreads'
      BY <2>2, <3>1, <3>2
    <3>6. Cardinality(mThreads') = Cardinality(mThreads) - 1
      BY <1>c, <2>2, <3>2
    <3>7. Counts'
      BY <1>b, <2>2, <3>1, <3>2, <3>6
    <3>8. QED
      BY <3>3, <3>4, <3>5, <3>7
  <2>3. QED
    BY <1>18, <2>1, <2>2 DEF IdleCheck
<1>19. ASSUME NEW t \in Threads, Deinit(t) PROVE (TypeOK /\ Places /\ Counts)'
  <2>1. TypeOK'
    BY <1>19, <1>b DEF Deinit
  <2>2. (ThreadPlaces /\ CallerPlaces)'
    BY <1>19 DEF Deinit
  <2>3. BusyThreads'
    BY <1>19 DEF Deinit
  <2>4. Counts'
    BY <1>19, <1>b, <1>c, <1>d DEF Deinit
  <2>5. QED
    BY <2>1, <2>2, <2>3, <2>4
<1>20. ASSUME NEW t \in Threads, Erase(t) PROVE (TypeOK /\ Places /\ Counts)'
  <2>1. TypeOK'
    BY <1>20, <1>b DEF Erase
  <2>2. (ThreadPlaces /\ CallerPlaces)'
    BY <1>20 DEF Erase
  <2>3. BusyThreads'
    BY <1>20 DEF Erase
  <2>4. ASSUME t \in mThreads PROVE Counts'
    <3>1. stopFlag /\ stopFlag' /\ ("throws" \notin Events => t \notin mBusy)
      BY <1>20, <2>4 DEF Erase
    <3>2. Cardinality(mBusy \ {t}) <= Cardinality(mBusy)
      BY <1>a, CardSubset DEF TypeOK
    <3>3. Cardinality(mThreads \ {t}) <= Cardinality(mThreads)
      BY <1>a, CardSubset DEF TypeOK
    <3>4. t \notin mBusy => mBusy \ {t} = mBusy
      OBVIOUS
    <3>5. mBusy' = mBusy \ {t} /\ mThreads' = mThreads \ {t}
          /\ UNCHANGED <<stopFlag, mBusyCount, caller>>
      BY <1>20 DEF Erase
    <3>a. Cardinality(mBusy \ {t}) \in Nat /\ Cardinality(mThreads \ {t}) \in Nat
      BY <1>20, <1>e
    <3>6. BusyCount'
      BY <1>b, <3>1, <3>2, <3>4, <3>5, <3>a
    <3>7. Sizes' /\ SpareThread'
      BY <1>b, <3>1, <3>3, <3>5, <3>a
    <3>8. QED
      BY <3>6, <3>7
  <2>5. ASSUME t \notin mThreads PROVE Counts'
    <3>1. mBusy' = mBusy /\ mThreads' = mThreads /\ UNCHANGED <<stopFlag, mBusyCount, caller>>
      BY <1>20, <2>5 DEF Erase
    <3>2. QED
      BY <3>1
  <2>6. QED
    BY <2>1, <2>2, <2>3, <2>4, <2>5
<1> HIDE DEF TypeOK, Places, Counts
<1>21. ASSUME UNCHANGED vars PROVE (TypeOK /\ Places /\ Counts)'
  <2>1. TypeOK'
    BY <1>21 DEF vars, TypeOK
  <2>2. Places'
    BY <1>21 DEF vars, Places
  <2>3. Counts'
    BY <1>21 DEF vars, Counts
  <2>4. QED
    BY <2>1, <2>2, <2>3
<1>22. (TypeOK /\ Places /\ Counts)'
  BY <1>1, <1>2, <1>3, <1>4, <1>5, <1>6, <1>7, <1>8, <1>9, <1>10, <1>11, <1>12, <1>13,
     <1>14, <1>15, <1>16, <1>17, <1>18, <1>19, <1>20, <1>21
     DEF Next, Caller, Run
<1>23. QED
  BY <1>22 DEF IInv, Places, Counts

LEMMA Inductive == ASSUME "early" \notin Events PROVE Spec => []IInv
<1>1. QED
  BY IndInit, IndNext, PTL DEF Spec

\* Every variable keeps its type; in particular mBusyCount, which is unsigned,
\* never counts below zero.
THEOREM TypeCorrect == ASSUME "early" \notin Events PROVE Spec => []TypeOK
<1>1. IInv => TypeOK
  BY DEF IInv
<1>2. QED
  BY <1>1, Inductive, PTL

\* While the server runs and the pool may grow, a thread is free for the next
\* request, whatever the threads do (notifyBusy, notifyReady).
THEOREM SpareThreadHolds == ASSUME "early" \notin Events PROVE Spec => []SpareThread
<1>1. IInv => SpareThread
  BY DEF IInv
<1>2. QED
  BY <1>1, Inductive, PTL

\* After stop() no thread is in the task or can enter it again.
THEOREM QuietAfterStopHolds == ASSUME "early" \notin Events PROVE Spec => []QuietAfterStop
<1>1. IInv => QuietAfterStop
  BY DEF IInv, TypeOK, ThreadPlaces, CallerPlaces, QuietAfterStop, Alive, Steps
<1>2. QED
  BY <1>1, Inductive, PTL

\* The assertion on mThreads at the end of stop() holds.
THEOREM MapEmptyWhenJoinedHolds ==
    ASSUME "early" \notin Events PROVE Spec => []MapEmptyWhenJoined
<1>1. IInv => MapEmptyWhenJoined
  BY DEF IInv, CallerPlaces, MapEmptyWhenJoined
<1>2. QED
  BY <1>1, Inductive, PTL

\* While the pool runs its counters are right, although exceptions leave
\* the task.
THEOREM CountsWhileRunningHold ==
    ASSUME "early" \notin Events PROVE Spec => []CountsWhileRunning
<1>1. IInv => CountsWhileRunning
  <2> SUFFICES ASSUME IInv, caller # "out", ~stopFlag PROVE CountsInRange
    BY DEF CountsWhileRunning
  <2>1. Cardinality(mBusy) <= Cardinality(mThreads) /\ mBusyCount = Cardinality(mBusy)
    BY CardSubset DEF IInv, TypeOK, BusyThreads, BusyCount
  <2>2. QED
    BY <2>1, CardSubset DEF IInv, TypeOK, BusyThreads, Sizes, CountsInRange
<1>2. QED
  BY <1>1, Inductive, PTL

\* The assertions on mBusyCount and on the size of the pool hold if no
\* exception leaves a run of the task either.
THEOREM CountsInRangeHolds == ASSUME Events = {} PROVE Spec => []CountsInRange
<1>1. IInv => CountsInRange
  <2> SUFFICES ASSUME IInv PROVE CountsInRange
    OBVIOUS
  <2>1. Cardinality(mBusy) <= Cardinality(mThreads) /\ mBusyCount = Cardinality(mBusy)
    BY CardSubset DEF IInv, TypeOK, BusyThreads, BusyCount
  <2>2. QED
    BY <2>1, CardSubset DEF IInv, TypeOK, BusyThreads, Sizes, CountsInRange
<1>2. Spec => []IInv
  BY Inductive
<1>3. QED
  BY <1>1, <1>2, PTL
=============================================================================
