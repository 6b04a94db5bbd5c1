---------------------------- MODULE Timers_proof ----------------------------
(***************************************************************************)
(* Proofs about the two users of timer heaps.                              *)
(*   PingBackService: with intervals of at most Slack + Second             *)
(* (ShortIntervals) the inductive invariant IInv holds, and from it that   *)
(* the heap is in the order of time, on any clock that wraps around and    *)
(* with any delays of the thread within MaxDelay.                          *)
(*   AsyncCall: the inductive invariant AsyncInv, and from it that a timer *)
(* or an operation ends no call but its own.                               *)
(***************************************************************************)
EXTENDS PingBackService, AsyncCallInv, TLAPS

LEMMA Constants ==
    /\ Modulus \in Nat /\ Second \in Nat /\ Second > 0 /\ Slack \in Nat
    /\ RebaseAfter \in Nat /\ MaxDelay \in Nat /\ MaxTimeout \in Nat
    /\ Slack + 2 * MaxDelay <= RebaseAfter
    /\ RebaseAfter + Slack + 2 * Second + 4 * MaxDelay < MaxTimeout
    /\ MaxTimeout + 2 * MaxDelay <= Modulus
<1>1. MaxTimeout \in Int
  BY ClockAssumption DEF MaxTimeout
<1>2. QED
  BY <1>1, ClockAssumption, IntervalsAssumption

-----------------------------------------------------------------------------
\* Unsigned arithmetic and signed distances.

LEMMA Closed ==
    ASSUME NEW a \in Times, NEW d \in Times
    PROVE  Minus(a, d) \in Times /\ Plus(a, d) \in Times
BY Constants DEF Times, Minus, Plus

LEMMA Distances ==
    ASSUME TypeOK
    PROVE  /\ Lag \in Int /\ Oldest \in Nat /\ Furthest \in Nat
           /\ \A t \in Times : Ahead(t) \in Int
BY Constants DEF TypeOK, Times, Minus, Ahead, Lag, Oldest, Furthest

\* A time that is made from now is that far ahead.
LEMMA FromNow ==
    ASSUME TypeOK, NEW d \in Nat, d <= Furthest
    PROVE  Plus(now, d) \in Times /\ Ahead(Plus(now, d)) = d
BY Constants DEF TypeOK, Times, Minus, Plus, Ahead, Furthest

\* Time that passes brings every time nearer and leaves the base behind.
LEMMA TimePasses ==
    ASSUME TypeOK, now' = Plus(now, 1), NEW t \in Times,
           1 - 2 * MaxDelay <= Ahead(t), Ahead(t) <= Furthest
    PROVE  Ahead(t)' = Ahead(t) - 1
BY Constants DEF TypeOK, Times, Minus, Plus, Ahead, Furthest

LEMMA LagGrows ==
    ASSUME TypeOK, now' = Plus(now, 1), UNCHANGED mBaseTimeMs,
           -Second <= Lag, Lag < Oldest
    PROVE  Lag' = Lag + 1
BY Constants DEF TypeOK, Times, Minus, Plus, Lag, Oldest

\* In range, the key of an entry is its distance from the base.
LEMMA KeyOf ==
    ASSUME TypeOK, -Second <= Lag, Lag <= Oldest, NEW t \in Times,
           Ahead(t) <= Furthest, Ahead(t) >= -2 * MaxDelay, Lag + Ahead(t) >= 0
    PROVE  Minus(t, mBaseTimeMs) = Lag + Ahead(t)
BY Constants DEF TypeOK, Times, Minus, Ahead, Lag, Oldest, Furthest

\* Where the base goes, seen from now.
LEMMA LagOfNewBase ==
    ASSUME TypeOK, NEW t \in Times, mBaseTimeMs' = Minus(t, Slack), UNCHANGED now,
           Ahead(t) <= Furthest, Ahead(t) >= -2 * MaxDelay
    PROVE  Lag' = Slack - Ahead(t)
BY Constants DEF TypeOK, Times, Minus, Ahead, Lag, Oldest, Furthest

LEMMA SameInstant ==
    ASSUME UNCHANGED <<now, mBaseTimeMs>>
    PROVE  Lag' = Lag /\ \A t : Ahead(t)' = Ahead(t)
BY DEF Lag, Ahead, Minus

-----------------------------------------------------------------------------
\* Types, and the base and the heap at the start.

LEMMA TypeInit == Init => TypeOK
<1> SUFFICES ASSUME Init PROVE TypeOK
  OBVIOUS
<1>1. mBaseTimeMs \in Times
  BY Constants DEF Init, Times, Minus
<1>2. QED
  BY <1>1, Constants DEF Init, TypeOK, Times

LEMMA NewFireTimes ==
    ASSUME TypeOK
    PROVE  /\ FirstFire \in Times
           /\ \A i \in Intervals : NextFire(i) \in Times
<1>1. Second \in Times
  BY Constants DEF Times
<1>2. ASSUME NEW i \in Intervals PROVE NextInterval(i) \in Times
  BY <1>1, ClockAssumption, IntervalsAssumption DEF NextInterval, Times
<1>3. QED
  BY <1>1, <1>2, Closed DEF FirstFire, NextFire, TypeOK

LEMMA TypeStep == TypeOK /\ [Next]_vars => TypeOK'
<1> SUFFICES ASSUME TypeOK, [Next]_vars PROVE TypeOK'
  OBVIOUS
<1>1. ASSUME NEW s \in Sessions, RegisterSession(s) PROVE TypeOK'
  BY <1>1, NewFireTimes, Constants DEF RegisterSession, TypeOK, Entries
<1>a. ASSUME NEW s \in Sessions, StoreEntry(s) \/ ClearEntry(s) PROVE TypeOK'
  BY <1>a, Constants DEF StoreEntry, ClearEntry, TypeOK, Times, heapVars
<1>2. ASSUME NEW s \in Sessions, UnregisterSession(s) PROVE TypeOK'
  BY <1>2, Constants DEF UnregisterSession, TypeOK, Entries, Times
<1>3. CASE Rebase
  <2>1. Slack \in Times
    BY Constants DEF Times
  <2>2. mBaseTimeMs' \in Times
    BY <1>3, <2>1, Closed DEF Rebase, TypeOK, Entries
  <2>3. QED
    BY <1>3, <2>2 DEF Rebase, TypeOK, sessionVars
<1>4. ASSUME NEW e \in mTimerHeap, PopExpiredEntry(e) PROVE TypeOK'
  BY <1>4 DEF PopExpiredEntry, TypeOK, heapVars, sessionVars
<1>5. ASSUME NEW s \in Sessions, NEW i \in Intervals, SendPingBack(s, i) PROVE TypeOK'
  BY <1>5, NewFireTimes DEF SendPingBack, TypeOK, Entries, heapVars
<1>6. CASE AddNextEntry
  BY <1>6 DEF AddNextEntry, TypeOK, sessionVars
<1>7. CASE NothingExpired
  <2>1. ASSUME NEW t \in Times PROVE GenerateTimeoutMs(t) \in Nat
    BY Closed DEF GenerateTimeoutMs, TypeOK, Times
  <2>2. \A e \in mTimerHeap : NextEntryTimeoutMs(e) \in 0..Second
    BY <2>1, Constants DEF NextEntryTimeoutMs, TypeOK, Entries
  <2>3. left' \in 0..Second
    BY <1>7, <2>2, Constants DEF NothingExpired
  <2>4. QED
    BY <1>7, <2>3 DEF NothingExpired, TypeOK, heapVars, sessionVars
<1>8. CASE Sleep
  BY <1>8 DEF Sleep, TypeOK, heapVars, sessionVars
<1>9. CASE Wake
  BY <1>9, Constants DEF Wake, TypeOK, heapVars, sessionVars
<1>10. CASE Tick
  <2>1. now' \in Times
    BY <1>10, Constants DEF Tick, TypeOK, Plus, Times
  <2>2. QED
    BY <1>10, <2>1, Constants DEF Tick, TypeOK, heapVars, sessionVars
<1>11. CASE UNCHANGED vars
  BY <1>11 DEF vars, TypeOK, heapVars, sessionVars
<1>12. QED
  BY <1>1, <1>a, <1>2, <1>3, <1>4, <1>5, <1>6, <1>7, <1>8, <1>9, <1>10, <1>11 DEF Next, Service

-----------------------------------------------------------------------------
\* The invariant, one step at a time.

Ranges == BaseRange /\ EntriesInRange

LEMMA Bounds ==
    ASSUME TypeOK
    PROVE  /\ left \in Nat /\ left <= Second /\ delay \in Nat /\ delay <= MaxDelay
           /\ \A e \in mTimerHeap \cup entry : e[1] \in Times
BY Constants DEF TypeOK, Entries

\* Every entry is in the range of the lemmas on signed distances.
LEMMA RangeOfEntry ==
    ASSUME TypeOK, NEW t \in Times, InRange(t)
    PROVE  Ahead(t) >= -2 * MaxDelay /\ Ahead(t) <= Furthest /\ Lag + Ahead(t) >= 0
BY Bounds, Constants, Distances DEF InRange

LEMMA RangesInit == Init => Ranges
<1> SUFFICES ASSUME Init PROVE Ranges
  OBVIOUS
<1>1. Lag <= RebaseAfter /\ Lag >= 0
  BY Constants DEF Init, Lag, Oldest, Minus, Times
<1>2. Lag \in Int
  BY TypeInit, Distances
<1>3. BaseRange
  BY <1>1, <1>2, Constants DEF Init, BaseRange, Oldest, Loop
<1>4. QED
  BY <1>3 DEF Init, Ranges, EntriesInRange

\* A fire time of a second to Furthest from now is in range at any step.
LEMMA NewInRange ==
    ASSUME TypeOK, BaseRange, NEW d \in Nat, Second <= d, d <= Furthest
    PROVE  Plus(now, d) \in Times /\ InRange(Plus(now, d))
<1>1. Plus(now, d) \in Times /\ Ahead(Plus(now, d)) = d
  BY FromNow
<1>2. QED
  BY <1>1, Bounds, Constants, Distances DEF InRange, BaseRange

LEMMA RangesStep ==
    ASSUME ShortIntervals, TypeOK, TypeOK', Ranges, [Next]_vars
    PROVE  Ranges'
<1> USE DEF Ranges
<1> Lag \in Int /\ Oldest \in Nat /\ Furthest \in Nat /\ \A t \in Times : Ahead(t) \in Int
  BY Distances
<1>1. ASSUME NEW s \in Sessions, RegisterSession(s) PROVE Ranges'
  <2>1. Lag' = Lag /\ \A t : Ahead(t)' = Ahead(t)
    BY <1>1, SameInstant DEF RegisterSession
  <2>2. BaseRange'
    BY <1>1, <2>1, Bounds, Constants DEF RegisterSession, BaseRange, Loop
  <2>3. ASSUME NEW t \in Times, InRange(t) PROVE InRange(t)'
    BY <1>1, <2>1, <2>3, Bounds, Constants DEF RegisterSession, InRange
  <2>4. FirstFire \in Times /\ InRange(FirstFire)
    BY NewInRange, Constants DEF FirstFire, Furthest
  <2>5. QED
    BY <1>1, <2>2, <2>3, <2>4, Bounds DEF RegisterSession, EntriesInRange
<1>a. ASSUME NEW s \in Sessions, StoreEntry(s) \/ ClearEntry(s) PROVE Ranges'
  <2>1. UNCHANGED <<now, heapVars, pc, entry, left, delay>>
    BY <1>a DEF StoreEntry, ClearEntry
  <2>2. Lag' = Lag /\ \A t : Ahead(t)' = Ahead(t)
    BY <2>1, SameInstant DEF heapVars
  <2>3. QED
    BY <2>1, <2>2 DEF BaseRange, EntriesInRange, InRange, heapVars
<1>2. ASSUME NEW s \in Sessions, UnregisterSession(s) PROVE Ranges'
  <2>1. Lag' = Lag /\ \A t : Ahead(t)' = Ahead(t)
    BY <1>2, SameInstant DEF UnregisterSession
  <2>2. BaseRange'
    BY <1>2, <2>1 DEF UnregisterSession, BaseRange
  <2>3. ASSUME NEW t \in Times, InRange(t) PROVE InRange(t)'
    BY <1>2, <2>1, <2>3 DEF UnregisterSession, InRange
  <2>4. QED
    BY <1>2, <2>2, <2>3, Bounds DEF UnregisterSession, EntriesInRange
<1>3. CASE Rebase
  <2>1. \A t : Ahead(t)' = Ahead(t)
    BY <1>3 DEF Rebase, Ahead, Minus
  <2>2. CASE UNCHANGED mBaseTimeMs /\ ~TooOld
    <3>1. Lag' = Lag /\ Lag <= RebaseAfter
      BY <1>3, <2>2, Constants, SameInstant
         DEF Rebase, Lag, TooOld, TypeOK, Times, Minus, Oldest
    <3>2. QED
      BY <1>3, <2>1, <3>1, Bounds, Constants
         DEF Rebase, BaseRange, EntriesInRange, InRange, Loop
  <2>3. CASE mTimerHeap = {} /\ mBaseTimeMs' = Minus(now, Slack)
    <3>1. now \in Times /\ Ahead(now) = 0
      BY Constants DEF TypeOK, Times, Ahead, Minus
    <3>2. Lag' = Slack
      BY <1>3, <2>3, <3>1, LagOfNewBase, Constants DEF Rebase, Furthest
    <3>3. QED
      BY <1>3, <2>3, <3>2, Bounds, Constants
         DEF Rebase, BaseRange, EntriesInRange, Loop, Oldest
  <2>4. ASSUME NEW e \in mTimerHeap, IsTop(e), mBaseTimeMs' = Minus(e[1], Slack)
        PROVE  Ranges'
    <3>1. e[1] \in Times /\ InRange(e[1])
      BY Bounds DEF EntriesInRange
    <3>2. /\ Ahead(e[1]) >= -MaxDelay - delay /\ Ahead(e[1]) <= Furthest
          /\ Ahead(e[1]) >= -2 * MaxDelay
      BY <1>3, <3>1, RangeOfEntry DEF Rebase, InRange
    <3>3. Lag' = Slack - Ahead(e[1])
      BY <1>3, <2>4, <3>1, <3>2, LagOfNewBase DEF Rebase
    <3>4. BaseRange'
      BY <1>3, <3>1, <3>2, <3>3, Bounds, Constants
         DEF Rebase, BaseRange, Loop, Oldest, Furthest
    <3>5. ASSUME NEW f \in mTimerHeap PROVE InRange(f[1])'
      <4>1. f[1] \in Times /\ InRange(f[1])
        BY Bounds DEF EntriesInRange
      <4>2. Lag + Ahead(e[1]) <= Lag + Ahead(f[1])
        BY <2>4, <3>1, <4>1, KeyOf, RangeOfEntry DEF BaseRange, IsTop, Key
      <4>3. QED
        BY <1>3, <2>1, <3>1, <3>3, <4>1, <4>2, Bounds, Constants DEF Rebase, InRange
    <3>6. QED
      BY <1>3, <3>4, <3>5 DEF Rebase, EntriesInRange
  <2>5. QED
    BY <1>3, <2>2, <2>3, <2>4 DEF Rebase
<1>4. ASSUME NEW e \in mTimerHeap, PopExpiredEntry(e) PROVE Ranges'
  <2>1. Lag' = Lag /\ \A t : Ahead(t)' = Ahead(t)
    BY <1>4, SameInstant DEF PopExpiredEntry
  <2>2. BaseRange'
    BY <1>4, <2>1 DEF PopExpiredEntry, BaseRange, Loop
  <2>3. ASSUME NEW t \in Times, InRange(t) PROVE InRange(t)'
    BY <1>4, <2>1, <2>3 DEF PopExpiredEntry, InRange
  <2>4. QED
    BY <1>4, <2>2, <2>3, Bounds DEF PopExpiredEntry, EntriesInRange
<1>5. ASSUME NEW s \in Sessions, NEW i \in Intervals, SendPingBack(s, i) PROVE Ranges'
  <2>1. Lag' = Lag /\ \A t : Ahead(t)' = Ahead(t)
    BY <1>5, SameInstant DEF SendPingBack, heapVars
  <2>2. BaseRange'
    BY <1>5, <2>1 DEF SendPingBack, BaseRange, Loop
  <2>3. ASSUME NEW t \in Times, InRange(t) PROVE InRange(t)'
    BY <1>5, <2>1, <2>3 DEF SendPingBack, InRange
  <2>4. NextInterval(i) \in Nat /\ Second <= NextInterval(i) /\ NextInterval(i) <= Furthest
    BY IntervalsAssumption, Constants DEF NextInterval, Furthest, ShortIntervals
  <2>5. NextFire(i) \in Times /\ InRange(NextFire(i))
    BY <2>4, NewInRange DEF NextFire
  <2>6. QED
    BY <1>5, <2>2, <2>3, <2>5, Bounds DEF SendPingBack, EntriesInRange, heapVars
<1>6. CASE AddNextEntry
  <2>1. Lag' = Lag /\ \A t : Ahead(t)' = Ahead(t)
    BY <1>6, SameInstant DEF AddNextEntry
  <2>2. BaseRange'
    BY <1>6, <2>1 DEF AddNextEntry, BaseRange, Loop
  <2>3. ASSUME NEW t \in Times, InRange(t) PROVE InRange(t)'
    BY <1>6, <2>1, <2>3 DEF AddNextEntry, InRange
  <2>4. QED
    BY <1>6, <2>2, <2>3, Bounds DEF AddNextEntry, EntriesInRange
<1>7. CASE NothingExpired
  <2>1. Lag' = Lag /\ \A t : Ahead(t)' = Ahead(t)
    BY <1>7, SameInstant DEF NothingExpired, heapVars
  <2>2. left' \in Nat /\ left' <= Second
    BY Constants DEF TypeOK
  <2>3. BaseRange'
    BY <1>7, <2>1, <2>2, Bounds, Constants DEF NothingExpired, BaseRange, Loop
  <2>4. ASSUME NEW f \in mTimerHeap PROVE InRange(f[1])'
    <3>1. PICK e \in mTimerHeap :
              IsTop(e) /\ GenerateTimeoutMs(e[1]) > 0 /\ left' = NextEntryTimeoutMs(e)
      BY <1>7, <2>4 DEF NothingExpired
    <3>2. e[1] \in Times /\ InRange(e[1]) /\ f[1] \in Times /\ InRange(f[1])
      BY Bounds DEF EntriesInRange
    <3>3. Ahead(e[1]) <= Ahead(f[1])
      BY <3>1, <3>2, KeyOf, RangeOfEntry DEF BaseRange, IsTop, Key
    <3>4. left' <= Ahead(e[1])
      BY <3>1, <3>2, Constants
         DEF NextEntryTimeoutMs, GenerateTimeoutMs, Ahead, Minus, TypeOK, Times
    <3>5. QED
      BY <1>7, <2>1, <2>2, <3>2, <3>3, <3>4, Bounds DEF NothingExpired, InRange
  <2>5. QED
    BY <1>7, <2>3, <2>4 DEF NothingExpired, EntriesInRange, heapVars
<1>8. CASE Sleep
  <2>1. Lag' = Lag /\ \A t : Ahead(t)' = Ahead(t)
    BY <1>8, SameInstant DEF Sleep, heapVars
  <2>2. QED
    BY <1>8, <2>1 DEF Sleep, BaseRange, EntriesInRange, InRange, Loop, heapVars
<1>9. CASE Wake
  <2>1. Lag' = Lag /\ \A t : Ahead(t)' = Ahead(t)
    BY <1>9, SameInstant DEF Wake, heapVars
  <2>2. BaseRange'
    BY <1>9, <2>1, Bounds, Constants DEF Wake, BaseRange, Loop
  <2>3. ASSUME NEW t \in Times, InRange(t) PROVE InRange(t)'
    BY <1>9, <2>1, <2>3, Bounds, Constants DEF Wake, InRange
  <2>4. QED
    BY <1>9, <2>2, <2>3, Bounds DEF Wake, EntriesInRange, heapVars
<1>10. CASE Tick
  <2> pc' = pc /\ UNCHANGED mBaseTimeMs /\ now' = Plus(now, 1)
    BY <1>10 DEF Tick, heapVars
  <2>0. \/ pc = "asleep" /\ left > 0 /\ left' = left - 1 /\ delay' = delay
        \/ delay < MaxDelay /\ left' = left /\ delay' = delay + 1
    BY <1>10 DEF Tick
  <2>1. /\ left' \in Nat /\ delay' \in Nat /\ delay' <= MaxDelay
        /\ left' - delay' = left - delay - 1
        /\ pc \notin {"wait", "asleep"} => left' = left /\ delay' = delay + 1
    BY <2>0, Bounds, Constants
  <2>2. Lag < Oldest
    BY <1>10, <2>1, Bounds, Constants DEF Tick, BaseRange, TypeOK, Oldest, Loop
  <2>3. Lag' = Lag + 1
    BY <1>10, <2>2, LagGrows DEF Tick, heapVars, BaseRange
  <2>4. BaseRange'
    <3>1. -Second <= Lag' /\ Lag' <= Oldest
      BY <2>2, <2>3, Constants DEF BaseRange
    <3>2. left \in Nat /\ delay \in Nat
      BY Bounds
    <3>3. pc \notin {"wait", "asleep"} =>
             /\ pc = "rebase" => Lag' <= RebaseAfter + Second + MaxDelay + delay'
             /\ pc \in Loop => Lag' <= RebaseAfter + delay'
      <4>1. ASSUME NEW b \in Nat, Lag <= b + delay, delay' = delay + 1
            PROVE  Lag' <= b + delay'
        BY <2>1, <2>3, <3>2, <4>1
      <4>2. QED
        BY <2>1, <4>1, Constants DEF BaseRange
    <3>4. pc \in {"wait", "asleep"} => Lag' + left' <= RebaseAfter + Second + delay'
      <4>1. ASSUME NEW b \in Nat, Lag + left <= b + delay
            PROVE  Lag' + left' <= b + delay'
        BY <2>0, <2>3, <3>2, <4>1
      <4>2. QED
        BY <4>1, Constants DEF BaseRange
    <3>5. QED
      BY <3>1, <3>3, <3>4 DEF BaseRange, Loop
  <2>5. ASSUME NEW t \in Times, InRange(t) PROVE InRange(t)'
    <3>1. 1 - 2 * MaxDelay <= Ahead(t) /\ Ahead(t) <= Furthest
      BY <1>10, <2>1, <2>5, Bounds, Constants DEF Tick, InRange
    <3>2. Ahead(t)' = Ahead(t) - 1
      BY <1>10, <3>1, TimePasses DEF Tick
    <3>3. QED
      BY <1>10, <2>1, <2>3, <2>5, <3>2, Bounds, Constants DEF Tick, InRange
  <2>6. QED
    BY <1>10, <2>4, <2>5, Bounds DEF Tick, EntriesInRange, heapVars
<1>11. CASE UNCHANGED vars
  <2>1. Lag' = Lag /\ \A t : Ahead(t)' = Ahead(t)
    BY <1>11, SameInstant DEF vars, heapVars
  <2>2. QED
    BY <1>11, <2>1 DEF vars, heapVars, BaseRange, EntriesInRange, InRange
<1>12. QED
  BY <1>1, <1>a, <1>2, <1>3, <1>4, <1>5, <1>6, <1>7, <1>8, <1>9, <1>10, <1>11 DEF Next, Service

-----------------------------------------------------------------------------
LEMMA CallInvStep ==
    ASSUME PromptSessions, TypeOK, CallInv, [Next]_vars
    PROVE  CallInv'
<1> USE DEF CallInv, OneInHand, CallHasEntry
<1>0. ASSUME UNCHANGED <<now, call, held>>, \A s \in Sessions :
              call[s] = "registering" => <<held[s], s>> \in mTimerHeap'
      PROVE  Registering'
  BY <1>0 DEF Registering, Ahead, Minus
<1>1. ASSUME NEW s \in Sessions, RegisterSession(s) PROVE CallInv'
  <2>1. OneInHand' /\ CallHasEntry'
    BY <1>1 DEF RegisterSession, TypeOK
  <2>2. Ahead(FirstFire) = Second
    BY FromNow, Constants DEF FirstFire, Furthest
  <2>3. \A t : Ahead(t)' = Ahead(t)
    BY <1>1 DEF RegisterSession, Ahead, Minus
  <2>4. Registering'
    BY <1>1, <2>2, <2>3, Constants DEF RegisterSession, TypeOK, Registering
  <2>5. QED
    BY <2>1, <2>4
<1>a. ASSUME NEW s \in Sessions, StoreEntry(s) \/ ClearEntry(s) PROVE CallInv'
  <2>1. OneInHand' /\ CallHasEntry'
    BY <1>a DEF StoreEntry, ClearEntry, TypeOK, Registering, heapVars
  <2>2. \A t : Ahead(t)' = Ahead(t)
    BY <1>a DEF StoreEntry, ClearEntry, Ahead, Minus
  <2>3. Registering'
    BY <1>a, <2>2 DEF StoreEntry, ClearEntry, TypeOK, Registering, heapVars
  <2>4. QED
    BY <2>1, <2>3
<1>2. ASSUME NEW s \in Sessions, UnregisterSession(s) PROVE CallInv'
  <2>1. OneInHand' /\ CallHasEntry'
    BY <1>2 DEF UnregisterSession, TypeOK
  <2>2. \A t : Ahead(t)' = Ahead(t)
    BY <1>2 DEF UnregisterSession, Ahead, Minus
  <2>3. Registering'
    BY <1>2, <2>2 DEF UnregisterSession, TypeOK, Registering
  <2>4. QED
    BY <2>1, <2>3
<1>3. CASE Rebase
  BY <1>0, <1>3 DEF Rebase, sessionVars, Registering
<1>4. ASSUME NEW e \in mTimerHeap, PopExpiredEntry(e) PROVE CallInv'
  <2>1. OneInHand' /\ CallHasEntry'
    BY <1>4 DEF PopExpiredEntry, sessionVars
  <2>2. ASSUME NEW s \in Sessions, call[s] = "registering" PROVE e # <<held[s], s>>
    BY <1>4, <2>2, Constants
       DEF PopExpiredEntry, Registering, GenerateTimeoutMs, Ahead, Minus, TypeOK, Times
  <2>3. Registering'
    BY <1>0, <1>4, <2>2 DEF PopExpiredEntry, sessionVars, Registering
  <2>4. QED
    BY <2>1, <2>3
<1>5. ASSUME NEW s \in Sessions, NEW i \in Intervals, SendPingBack(s, i) PROVE CallInv'
  <2>1. OneInHand'
    BY <1>5 DEF SendPingBack
  <2>2. ASSUME NEW c \in Sessions, call[c] = "pinged", c # s
        PROVE  <<first[c], c>> \in mTimerHeap
    BY <1>5, <2>2 DEF SendPingBack
  <2>3. CallHasEntry'
    BY <1>5, <2>2 DEF SendPingBack, TypeOK, heapVars
  <2>4. Registering'
    BY <1>0, <1>5 DEF SendPingBack, Registering, heapVars
  <2>5. QED
    BY <2>1, <2>3, <2>4
<1>6. CASE AddNextEntry
  BY <1>0, <1>6 DEF AddNextEntry, Registering, sessionVars
<1>7. CASE NothingExpired
  BY <1>0, <1>7 DEF NothingExpired, Registering, heapVars, sessionVars
<1>8. CASE Sleep
  BY <1>0, <1>8 DEF Sleep, Registering, heapVars, sessionVars
<1>9. CASE Wake
  BY <1>0, <1>9 DEF Wake, Registering, heapVars, sessionVars
<1>10. CASE Tick
  <2>1. OneInHand' /\ CallHasEntry'
    BY <1>10 DEF Tick, heapVars, sessionVars
  <2>2. ASSUME NEW s \in Sessions, call[s] = "registering"
        PROVE  Ahead(held[s])' \in 1..Second
    <3>1. held[s] \in Times /\ Ahead(held[s]) \in 1..Second /\ Ahead(held[s]) > 1
      BY <1>10, <2>2 DEF Tick, RegistrationsInTime, Registering, TypeOK
    <3>2. \A t \in Times : Ahead(t) \in 1..Second => Ahead(t)' = Ahead(t) - 1
      BY <1>10, TimePasses, Constants DEF Tick, Furthest
    <3>3. held' = held
      BY <1>10 DEF Tick, sessionVars
    <3>4. Ahead(held[s])' = Ahead(held[s]) - 1
      BY <3>1, <3>2, <3>3 DEF Ahead
    <3>5. QED
      BY <3>1, <3>4, Constants
  <2>3. Registering'
    BY <1>10, <2>2 DEF Tick, Registering, heapVars, sessionVars
  <2>4. QED
    BY <2>1, <2>3
<1>11. CASE UNCHANGED vars
  BY <1>0, <1>11 DEF vars, Registering, heapVars, sessionVars
<1>12. QED
  BY <1>1, <1>a, <1>2, <1>3, <1>4, <1>5, <1>6, <1>7, <1>8, <1>9, <1>10, <1>11
  DEF Next, Service

(* Types hold, and a call in progress always has its entry, for any         *)
(* intervals: registerSession, unregisterSession and sendPingBack keep the  *)
(* entry of the latest registration in the heap or in hand.                 *)
THEOREM CallHasEntryHolds == ASSUME PromptSessions PROVE Spec => []CallHasEntry
<1> DEFINE Inv == TypeOK /\ CallInv
<1>1. Init => Inv
  BY TypeInit DEF Init, CallInv, OneInHand, Registering, CallHasEntry
<1>2. Inv /\ [Next]_vars => Inv'
  BY TypeStep, CallInvStep
<1>3. Inv => CallHasEntry
  BY DEF CallInv
<1>4. QED
  BY <1>1, <1>2, <1>3, PTL DEF Spec

(* With intervals of at most Slack + Second, the base stays behind every    *)
(* entry of the heap and every entry within reach of now.                   *)
THEOREM Invariance ==
    ASSUME ShortIntervals
    PROVE  Spec => []IInv
<1>1. Init => IInv
  BY TypeInit, RangesInit DEF IInv, Ranges
<1>2. IInv /\ [Next]_vars => IInv'
  BY TypeStep, RangesStep DEF IInv, Ranges
<1>3. QED
  BY <1>1, <1>2, PTL DEF Spec

LEMMA RangesOfHeap ==
    ASSUME IInv, NEW e \in mTimerHeap
    PROVE  /\ e[1] \in Times /\ Ahead(e[1]) >= -2 * MaxDelay
           /\ Key(e) = Lag + Ahead(e[1]) /\ Lag + Ahead(e[1]) >= 0
<1>1. TypeOK /\ e[1] \in Times /\ InRange(e[1]) /\ -Second <= Lag /\ Lag <= Oldest
  BY Bounds DEF IInv, EntriesInRange, BaseRange
<1>2. QED
  BY <1>1, RangeOfEntry, KeyOf DEF Key

(* The top of the heap is the entry that is due first (TimerCompare).       *)
THEOREM EarliestOnTopHolds ==
    ASSUME ShortIntervals
    PROVE  Spec => []EarliestOnTop
<1>1. IInv => EarliestOnTop
  <2> SUFFICES ASSUME IInv, NEW e \in mTimerHeap, NEW f \in mTimerHeap, IsTop(e)
               PROVE  Ahead(e[1]) <= Ahead(f[1])
    BY DEF EarliestOnTop
  <2>1. Lag + Ahead(e[1]) <= Lag + Ahead(f[1])
    BY RangesOfHeap DEF IsTop
  <2>2. Lag \in Int /\ Ahead(e[1]) \in Int /\ Ahead(f[1]) \in Int
    BY RangesOfHeap, Distances DEF IInv
  <2>3. QED
    BY <2>1, <2>2
<1>2. QED
  BY <1>1, Invariance, PTL

(* No ping back waits longer than the thread's own delays (cycle).          *)
THEOREM InTimeHolds ==
    ASSUME ShortIntervals
    PROVE  Spec => []InTime
<1>1. IInv => InTime
  BY RangesOfHeap DEF InTime
<1>2. QED
  BY <1>1, Invariance, PTL

(* rebase() may keep the vector as it is: no two entries change places.     *)
THEOREM RebaseKeepsOrderHolds ==
    ASSUME ShortIntervals
    PROVE  Spec => RebaseKeepsOrder
<1> DEFINE KeysAreDistances ==
        IInv => Lag \in Int /\ \A e \in mTimerHeap : Key(e) = Lag + Ahead(e[1])
<1>a. KeysAreDistances
  BY RangesOfHeap, Distances DEF IInv
<1>b. KeysAreDistances'
  BY <1>a, PTL
<1>1. ASSUME IInv, IInv', [Next]_vars, NEW e \in mTimerHeap, NEW f \in mTimerHeap,
             Key(e) <= Key(f)
      PROVE  Key(e)' <= Key(f)'
  <2>1. CASE UNCHANGED mBaseTimeMs
    BY <1>1, <2>1 DEF Key, Minus
  <2>2. CASE Rebase
    <3>1. /\ e[1] \in Times /\ f[1] \in Times /\ TypeOK
          /\ Lag \in Int /\ Ahead(e[1]) \in Int /\ Ahead(f[1]) \in Int
      BY <1>1, RangesOfHeap, Distances DEF IInv
    <3>2. Ahead(e[1]) <= Ahead(f[1])
      BY <1>1, <3>1, RangesOfHeap
    <3>3. /\ Key(e)' = Lag' + Ahead(e[1])' /\ Key(f)' = Lag' + Ahead(f[1])'
          /\ Lag' \in Int
      BY <1>1, <1>b, <2>2 DEF Rebase
    <3>4. Ahead(e[1])' = Ahead(e[1]) /\ Ahead(f[1])' = Ahead(f[1])
      BY <2>2 DEF Rebase, Ahead, Minus
    <3>5. QED
      BY <3>1, <3>2, <3>3, <3>4
  <2>3. QED
    BY <1>1, <2>1, <2>2 DEF Next, Service, RegisterSession, StoreEntry, ClearEntry, UnregisterSession,
       PopExpiredEntry, SendPingBack, AddNextEntry, NothingExpired, Sleep, Wake, Tick,
       vars, heapVars
<1>2. IInv /\ IInv' /\ [Next]_vars
         => [\A e, f \in mTimerHeap : Key(e) <= Key(f) => Key(e)' <= Key(f)']_vars
  BY <1>1
<1>3. QED
  BY <1>2, Invariance, PTL DEF Spec, RebaseKeepsOrder

-----------------------------------------------------------------------------
(***************************************************************************)
(* AsyncCall                                                               *)
(***************************************************************************)

\* With nothing under way no operation is heard of.
LEMMA NothingHeard ==
    ASSUME AsyncInv, Ended \/ mAsyncTimerReason = "Wait"
    PROVE  (\A o \in ops : ~Heard(o)) /\ (\A t \in Workers : ~Handling(t))
BY DEF AsyncInv, OneHeard, Own, Handling

\* A call begins when the last one has ended.
LEMMA BeginsAfterEnd ==
    ASSUME AsyncInv, NEW t, NEW kind, Begin(t, kind)
    PROVE  /\ Ended /\ ncalls + 1 \in Calls /\ ncalls' = ncalls + 1 /\ ncalls \in Nat
           /\ endedBy[ncalls + 1] = 0 /\ ran[ncalls + 1] = 0 /\ ncalls + 1 \notin dropped
           /\ dropped' = dropped
<1>1. ncalls + 1 \in Calls /\ ncalls' = ncalls + 1 /\ dropped' = dropped /\ ncalls \in Nat
  BY ConstantsAssumption DEF AsyncInv, AsyncTypes, Begin, Calls
<1>2. Ended
  <2>1. CASE ncalls = 0
    BY <2>1 DEF Ended
  <2>2. CASE ncalls # 0
    <3>1. ncalls \in Calls /\ Over(ncalls)
      BY <2>2, ConstantsAssumption DEF AsyncInv, AsyncTypes, Begin, Calls
    <3>2. ran[ncalls] \in Nat /\ (ran[ncalls] # 0 => endedBy[ncalls] # 0)
      BY <3>1 DEF AsyncInv, AsyncTypes, Callbacks
    <3>3. QED
      BY <3>1, <3>2 DEF Over, Ended
  <2>3. QED
    BY <2>1, <2>2
<1>3. QED
  BY <1>1, <1>2 DEF AsyncInv, Callbacks

\* A thread that leaves has nothing left.
LEMMA Leaves ==
    ASSUME AsyncInv, NEW t \in Threads, Leave(t)
    PROVE  /\ DOMAIN taken' = Pool /\ taken' = [u \in Pool |-> taken'[u]]
           /\ holds' \in [Threads -> Nat] /\ holds'[t] = 0
           /\ \A u \in Threads \ {t} : holds'[u] = holds[u]
           /\ \A u \in Pool \ {t} : taken'[u] = taken[u]
           /\ t \in Pool => taken'[t] = None
BY DEF AsyncInv, AsyncTypes, Leave, Threads

\* A step of t leaves it with nothing to handle: t leaves, runs a callback, or
\* has had nothing before.
Done(t) ==
    \/ Leave(t) /\ inCallback' \in {inCallback, [inCallback EXCEPT ![t] = 0]}
    \/ /\ UNCHANGED <<taken, holds>>
       /\ \E c \in Calls : inCallback' = [inCallback EXCEPT ![t] = c]
    \/ UNCHANGED <<taken, holds, inCallback>> /\ (t \in Pool => inCallback[t] # 0)

LEMMA DoneKeeps ==
    ASSUME AsyncInv, NEW t \in Threads, Done(t)
    PROVE  /\ DOMAIN taken' = Pool /\ taken' = [u \in Pool |-> taken'[u]]
           /\ holds' \in [Threads -> Nat] /\ inCallback' \in [Threads -> 0 .. MaxCalls]
           /\ \A u \in Threads : holds'[u] \in {0, holds[u]}
           /\ \A u \in Pool : inCallback'[u] = 0 =>
                 \/ u = t /\ holds'[u] = 0 /\ taken'[u] = None
                 \/ /\ u # t /\ taken'[u] = taken[u] /\ holds'[u] = holds[u]
                    /\ inCallback[u] = 0
<1>1. CASE Leave(t) /\ inCallback' \in {inCallback, [inCallback EXCEPT ![t] = 0]}
  <2>1. inCallback' \in [Threads -> 0 .. MaxCalls]
    BY <1>1, ConstantsAssumption DEF AsyncInv, AsyncTypes
  <2>2. \A u \in Threads \ {t} : inCallback'[u] = inCallback[u]
    BY <1>1 DEF AsyncInv, AsyncTypes
  <2>3. \A u \in Threads : holds'[u] \in {0, holds[u]}
    BY <1>1, Leaves
  <2>4. QED
    BY <1>1, <2>1, <2>2, <2>3, Leaves DEF Threads
<1>2. ASSUME NEW c \in Calls, inCallback' = [inCallback EXCEPT ![t] = c], UNCHANGED <<taken, holds>>
      PROVE  /\ inCallback' \in [Threads -> 0 .. MaxCalls] /\ inCallback'[t] # 0
             /\ \A u \in Threads \ {t} : inCallback'[u] = inCallback[u]
  BY <1>2, ConstantsAssumption DEF AsyncInv, AsyncTypes, Calls
<1>3. CASE /\ UNCHANGED <<taken, holds>>
           /\ \E c \in Calls : inCallback' = [inCallback EXCEPT ![t] = c]
  BY <1>2, <1>3 DEF AsyncInv, AsyncTypes, Threads
<1>4. CASE UNCHANGED <<taken, holds, inCallback>> /\ (t \in Pool => inCallback[t] # 0)
  BY <1>4 DEF AsyncInv, AsyncTypes, Threads
<1>5. QED
  BY <1>1, <1>3, <1>4 DEF Done

\* The mutexes after such a step, when gen grows only if no other thread has
\* the mutex of the current OverlappedAmi.
LEMMA DoneMutexes ==
    ASSUME AsyncInv, NEW t \in Threads, Done(t),
           gen' = gen \/ \A u \in Threads \ {t} : holds[u] # gen
    PROVE  Mutexes'
<1>1. \A u, v \in Threads : holds'[u] = holds'[v] /\ holds'[u] # 0 => u = v
  BY DoneKeeps DEF AsyncInv, AsyncTypes, Mutexes
<1>2. holds'["app"] = 0
  BY DoneKeeps DEF AsyncInv, Mutexes, Threads
<1>3. \A u \in Pool : holds'[u] # 0 /\ inCallback'[u] = 0 => holds'[u] = gen' /\ taken'[u].gen = gen'
  BY DoneKeeps DEF AsyncInv, AsyncTypes, Mutexes, Threads
<1>4. QED
  BY <1>1, <1>2, <1>3 DEF Mutexes

\* No operation is heard of but the one thread t handles.
Quiet(t) == (\A o \in ops : ~Heard(o)) /\ \A u \in Workers \ {t} : ~Handling(u)

\* Nothing that was under way is heard of after such a step, if nothing but
\* what t handles was, or the OverlappedAmi has been detached.
LEMMA Unheard ==
    ASSUME AsyncInv, NEW t \in Threads, Done(t), gen' \in Nat,
           gen' > gen \/ (gen' = gen /\ Quiet(t))
    PROVE  /\ \A o \in ops : Own(o)' /\ ~Heard(o)'
           /\ \A u \in Workers : /\ inCallback'[u] = 0 => Own(taken[u])'
                                 /\ ~Handling(u)'
<1>1. \A o : Own(o) /\ (gen' > gen \/ ~Heard(o)) => Own(o)' /\ ~Heard(o)'
  BY DEF Own, Heard, AsyncInv, AsyncTypes
<1>2. \A o \in ops : Own(o)' /\ ~Heard(o)'
  BY <1>1 DEF AsyncInv, OneHeard, Quiet
<1>3. ASSUME NEW u \in Workers, inCallback'[u] = 0
      PROVE  Own(taken[u])' /\ ~Heard(taken[u])'
  <2>1. CASE taken'[u] = None
    BY <2>1 DEF None, Own, Heard, AsyncInv, AsyncTypes
  <2>2. CASE u # t /\ taken'[u] = taken[u] /\ inCallback[u] = 0
    <3>1. Own(taken[u]) /\ (gen' > gen \/ ~Heard(taken[u]))
      BY <2>2, <1>3 DEF AsyncInv, OneHeard, Quiet, Handling
    <3>2. taken'[u].gen \in Nat /\ taken'[u].gen <= gen' /\ taken'[u].gen # gen'
      BY <2>2, <3>1 DEF Own, Heard, AsyncInv, AsyncTypes
    <3>3. QED
      BY <3>2 DEF Own, Heard
  <2>3. QED
    BY <1>3, <2>1, <2>2, DoneKeeps DEF Workers, Pool
<1>4. QED
  BY <1>2, <1>3 DEF Handling

LEMMA NothingIssued ==
    ASSUME AsyncInv, NEW t \in Threads, Done(t), gen' \in Nat,
           gen' > gen \/ (gen' = gen /\ Quiet(t)), UNCHANGED ops
    PROVE  OneHeard'
BY Unheard DEF OneHeard, Workers

\* One operation is issued, for the call under way.
LEMMA Issued ==
    ASSUME AsyncInv, NEW t \in Threads, Done(t), gen' \in Nat,
           gen' > gen \/ (gen' = gen /\ Quiet(t)),
           NEW o, ops' = ops \cup {o}, o.gen = gen', o.call = ncalls',
           ~Ended', mAsyncTimerReason' # "Wait"
    PROVE  OneHeard'
<1>1. Own(o)'
  BY DEF Own
<1>2. \A u \in Workers : /\ inCallback'[u] = 0 => Own(taken[u])'
                         /\ ~Handling(u)'
  BY Unheard
<1>3. \A p \in ops : Own(p)' /\ ~Heard(p)'
  BY Unheard
<1>4. QED
  BY <1>1, <1>2, <1>3 DEF OneHeard, Workers

\* The call under way ends: its callback has been taken out of the stub.
LEMMA Ends ==
    ASSUME AsyncInv, NEW t \in Threads, End(t, ncalls), UNCHANGED ncalls
    PROVE  /\ Callbacks' /\ Done(t) /\ dropped' = dropped
           /\ ran' \in [Calls -> Nat] /\ endedBy' \in [Calls -> 0 .. MaxCalls]
           /\ mAsyncCallback' = 0
<1>1. ncalls \in 0 .. MaxCalls /\ MaxCalls \in Nat /\ Calls = 1 .. MaxCalls
  BY ConstantsAssumption DEF AsyncInv, AsyncTypes, Calls
<1>2. endedBy' \in [Calls -> 0 .. MaxCalls] /\ dropped' = dropped /\ mAsyncCallback' = 0
  BY <1>1 DEF End, AsyncInv, AsyncTypes
<1>3. \A c \in Calls : /\ endedBy'[c] = IF c = ncalls /\ endedBy[c] = 0 THEN c ELSE endedBy[c]
  BY <1>1 DEF End, AsyncInv, AsyncTypes
<1>4. CASE mAsyncCallback = 0
  <2>1. ran' = ran /\ Done(t)
    BY <1>4 DEF End, RunOrLeave, Done
  <2>2. QED
    BY <1>1, <1>2, <1>3, <2>1 DEF AsyncInv, AsyncTypes, Callbacks
<1>5. CASE mAsyncCallback # 0
  <2>1. mAsyncCallback = ncalls /\ ncalls \in Calls /\ ran[ncalls] = 0 /\ ncalls \notin dropped
    BY <1>1, <1>5 DEF AsyncInv, AsyncTypes, Callbacks
  <2>2. ran' = [ran EXCEPT ![ncalls] = @ + 1] /\ Done(t)
    BY <1>5, <2>1 DEF End, RunOrLeave, Done
  <2>3. ran' \in [Calls -> Nat] /\ \A c \in Calls : ran'[c] = IF c = ncalls THEN 1 ELSE ran[c]
    BY <2>1, <2>2 DEF AsyncInv, AsyncTypes
  <2>4. QED
    BY <1>1, <1>2, <1>3, <2>1, <2>2, <2>3 DEF AsyncInv, AsyncTypes, Callbacks
<1>6. QED
  BY <1>4, <1>5

-----------------------------------------------------------------------------
\* The calls.

LEMMA KeepsCallback ==
    ASSUME AsyncInv, NEW t \in Threads, NEW kind, Begin(t, kind), KeepCallback(kind),
           UNCHANGED <<taken, holds>>
    PROVE  /\ Callbacks' /\ Done(t) /\ mAsyncCallback' \in 0 .. MaxCalls /\ ~Ended'
           /\ UNCHANGED <<ran, endedBy, dropped>>
<1>1. Done(t)
  BY DEF Begin, KeepCallback, Done, Pool
<1>2. mAsyncCallback' \in {0, ncalls + 1} /\ UNCHANGED <<ran, endedBy, dropped>>
  BY BeginsAfterEnd DEF KeepCallback
<1>3. ~Ended' /\ mAsyncCallback' \in 0 .. MaxCalls
  BY <1>2, BeginsAfterEnd, ConstantsAssumption DEF Ended, Calls
<1>4. Callbacks'
  BY <1>2, BeginsAfterEnd, ConstantsAssumption DEF AsyncInv, Callbacks, Calls
<1>5. QED
  BY <1>1, <1>2, <1>3, <1>4

LEMMA RunsAtOnce ==
    ASSUME AsyncInv, NEW t \in Threads, NEW kind, Begin(t, kind), RunAtOnce(t, kind),
           NEW e \in {0, ncalls + 1}, endedBy' = [endedBy EXCEPT ![ncalls + 1] = e],
           kind # "future" => e = ncalls + 1
    PROVE  /\ Callbacks' /\ Done(t) /\ mAsyncCallback' = 0 /\ dropped' = dropped
           /\ ran' \in [Calls -> Nat] /\ endedBy' \in [Calls -> 0 .. MaxCalls]
<1>1. ncalls + 1 \in Calls /\ ncalls \in Nat /\ ran \in [Calls -> Nat]
      /\ endedBy \in [Calls -> 0 .. MaxCalls] /\ Calls = 1 .. MaxCalls /\ MaxCalls \in Nat
  BY BeginsAfterEnd, ConstantsAssumption DEF AsyncInv, AsyncTypes, Calls
<1>2. endedBy' \in [Calls -> 0 .. MaxCalls] /\ endedBy'[ncalls + 1] = e
      /\ \A c \in Calls \ {ncalls + 1} : endedBy'[c] = endedBy[c]
  BY <1>1
<1>3. Done(t) /\ mAsyncCallback' = 0
  BY <1>1 DEF Begin, RunAtOnce, Done, Pool
<1>4. /\ ran' \in [Calls -> Nat]
      /\ \A c \in Calls \ {ncalls + 1} : ran'[c] = ran[c]
      /\ ran'[ncalls + 1] = IF kind = "future" THEN 0 ELSE 1
  BY <1>1, BeginsAfterEnd DEF RunAtOnce
<1>5. Callbacks'
  BY <1>1, <1>2, <1>3, <1>4, BeginsAfterEnd DEF AsyncInv, Callbacks
<1>6. QED
  BY <1>2, <1>3, <1>4, <1>5, BeginsAfterEnd

\* A timer that is set is the current call's.
LEMMA TimerSet ==
    ASSUME NEW reason, NEW c, NEW g, NEW killed, SetTimer(reason, c, g, killed)
    PROVE  mTimerEntry'.call = c /\ mAsyncTimerReason' = reason
BY DEF SetTimer, NewEntry

LEMMA WaitAsyncStep == ASSUME AsyncInv, NEW t \in Threads, WaitAsync(t) PROVE AsyncInv'
<1>1. Begin(t, "wait") /\ KeepCallback("wait") /\ UNCHANGED <<taken, holds, gen, ops>>
      /\ mTimerEntry'.call = ncalls + 1
  BY TimerSet DEF WaitAsync
<1>2. Quiet(t) /\ ncalls' = ncalls + 1 /\ ncalls' \in 0 .. MaxCalls /\ gen \in Nat \ {0}
  BY <1>1, BeginsAfterEnd, NothingHeard, ConstantsAssumption DEF Quiet, Calls, AsyncInv, AsyncTypes
<1>3. Mutexes' /\ OneHeard'
  BY <1>1, <1>2, KeepsCallback, DoneMutexes, NothingIssued
<1>4. AsyncTypes'
  BY <1>1, <1>2, KeepsCallback, DoneKeeps DEF AsyncInv, AsyncTypes
<1>5. QED
  BY <1>1, <1>2, <1>3, <1>4, KeepsCallback DEF AsyncInv

LEMMA CallWriteStep ==
    ASSUME AsyncInv, NEW t \in Threads, NEW kind, CallWrite(t, kind) PROVE AsyncInv'
<1> DEFINE o == [kind |-> "write", gen |-> gen, call |-> ncalls + 1]
<1>1. Begin(t, kind) /\ KeepCallback(kind) /\ UNCHANGED <<taken, holds, gen>>
      /\ mTimerEntry'.call = ncalls + 1 /\ mAsyncTimerReason' = "Write"
      /\ ops' = ops \cup {o}
  BY TimerSet DEF CallWrite, IssueWrite, connVars
<1>2. ncalls' = ncalls + 1 /\ ncalls' \in 0 .. MaxCalls /\ gen \in Nat \ {0}
  BY <1>1, BeginsAfterEnd, ConstantsAssumption DEF Calls, AsyncInv, AsyncTypes
<1>3. Quiet(t)
  BY <1>1, BeginsAfterEnd, NothingHeard DEF Quiet
<1>4. Mutexes'
  BY <1>1, KeepsCallback, DoneMutexes
<1>5. OneHeard'
  <2>1. o.gen = gen' /\ o.call = ncalls' /\ ~Ended' /\ Done(t)
    BY <1>1, <1>2, KeepsCallback
  <2> HIDE DEF o
  <2>2. QED
    BY <1>1, <1>2, <1>3, <2>1, Issued
<1>6. AsyncTypes'
  BY <1>1, <1>2, KeepsCallback, DoneKeeps DEF AsyncInv, AsyncTypes
<1>7. QED
  BY <1>1, <1>2, <1>4, <1>5, <1>6, KeepsCallback DEF AsyncInv

LEMMA CallConnectStep ==
    ASSUME AsyncInv, NEW t \in Threads, NEW kind, CallConnect(t, kind) PROVE AsyncInv'
<1> DEFINE o == [kind |-> "connect", gen |-> gen + 1, call |-> ncalls + 1]
<1>1. Begin(t, kind) /\ KeepCallback(kind) /\ UNCHANGED <<taken, holds>> /\ gen' = gen + 1
      /\ mTimerEntry'.call = ncalls + 1 /\ mAsyncTimerReason' = "Connect" /\ Free(gen, t)
      /\ ops' = ops \cup {o}
  BY TimerSet DEF CallConnect, IssueConnect
<1>2. ncalls' = ncalls + 1 /\ ncalls' \in 0 .. MaxCalls /\ gen \in Nat \ {0}
  BY <1>1, BeginsAfterEnd, ConstantsAssumption DEF Calls, AsyncInv, AsyncTypes
<1>3. Mutexes'
  BY <1>1, KeepsCallback, DoneMutexes DEF Free
<1>4. OneHeard'
  <2>1. o.gen = gen' /\ o.call = ncalls' /\ ~Ended' /\ Done(t)
    BY <1>1, <1>2, KeepsCallback
  <2> HIDE DEF o
  <2>2. QED
    BY <1>1, <1>2, <2>1, Issued
<1>5. AsyncTypes'
  BY <1>1, <1>2, KeepsCallback, DoneKeeps DEF AsyncInv, AsyncTypes
<1>6. QED
  BY <1>1, <1>2, <1>3, <1>4, <1>5, KeepsCallback DEF AsyncInv

LEMMA CallFailsStep ==
    ASSUME AsyncInv, NEW t \in Threads, NEW kind, CallFails(t, kind) PROVE AsyncInv'
<1>1. Begin(t, kind) /\ RunAtOnce(t, kind) /\ gen' = gen + 2 /\ Free(gen, t)
      /\ endedBy' = [endedBy EXCEPT ![ncalls + 1] = ncalls + 1]
      /\ mTimerEntry'.call = ncalls + 1 /\ UNCHANGED ops
  BY DEF CallFails, NewEntry
<1>2. ncalls' = ncalls + 1 /\ ncalls' \in 0 .. MaxCalls /\ gen \in Nat \ {0}
  BY <1>1, BeginsAfterEnd, ConstantsAssumption DEF Calls, AsyncInv, AsyncTypes
<1>3. /\ Callbacks' /\ Done(t) /\ mAsyncCallback' = 0 /\ dropped' = dropped
      /\ ran' \in [Calls -> Nat] /\ endedBy' \in [Calls -> 0 .. MaxCalls]
  BY <1>1, RunsAtOnce
<1>4. Mutexes' /\ OneHeard'
  BY <1>1, <1>2, <1>3, DoneMutexes, NothingIssued DEF Free
<1>5. AsyncTypes'
  BY <1>1, <1>2, <1>3, DoneKeeps, ConstantsAssumption DEF AsyncInv, AsyncTypes
<1>6. QED
  BY <1>1, <1>2, <1>3, <1>4, <1>5 DEF AsyncInv

LEMMA CallThrowsStep ==
    ASSUME AsyncInv, NEW t \in Threads, NEW kind, CallThrows(t, kind) PROVE AsyncInv'
<1> DEFINE e == IF kind = "future" THEN 0 ELSE ncalls + 1
<1>1. Begin(t, kind) /\ RunAtOnce(t, kind) /\ gen' = gen + 1 /\ Free(gen, t)
      /\ endedBy' = [endedBy EXCEPT ![ncalls + 1] = e]
      /\ mTimerEntry'.call = ncalls + 1 /\ UNCHANGED ops
  BY TimerSet DEF CallThrows
<1>2. ncalls' = ncalls + 1 /\ ncalls' \in 0 .. MaxCalls /\ gen \in Nat \ {0}
  BY <1>1, BeginsAfterEnd, ConstantsAssumption DEF Calls, AsyncInv, AsyncTypes
<1>3. /\ Callbacks' /\ Done(t) /\ mAsyncCallback' = 0 /\ dropped' = dropped
      /\ ran' \in [Calls -> Nat] /\ endedBy' \in [Calls -> 0 .. MaxCalls]
  BY <1>1, RunsAtOnce
<1>4. Mutexes' /\ OneHeard'
  BY <1>1, <1>2, <1>3, DoneMutexes, NothingIssued DEF Free
<1>5. AsyncTypes'
  BY <1>1, <1>2, <1>3, DoneKeeps, ConstantsAssumption DEF AsyncInv, AsyncTypes
<1>6. QED
  BY <1>1, <1>2, <1>3, <1>4, <1>5 DEF AsyncInv

-----------------------------------------------------------------------------
\* The threads of AmiThreadPool.

\* A handler has the mutex of the current OverlappedAmi to itself.
LEMMA HandlerAlone ==
    ASSUME AsyncInv, NEW t \in Pool, NEW kind, Handles(t, kind)
    PROVE  /\ holds[t] = gen /\ taken[t].gen = gen /\ inCallback[t] = 0
           /\ \A u \in Threads \ {t} : holds[u] # gen
BY DEF Handles, AsyncInv, AsyncTypes, Mutexes, Threads

\* What it handles is the current call's, and nothing else is heard of.
LEMMA HandlesOwn ==
    ASSUME AsyncInv, NEW t \in Workers, NEW kind, Handles(t, kind)
    PROVE  /\ taken[t].call = ncalls /\ ~Ended /\ Quiet(t)
           /\ mAsyncTimerReason # "Wait" /\ t \in Pool /\ t \in Threads
<1>1. Handling(t) /\ t \in Pool /\ t \in Threads
  BY HandlerAlone DEF Handling, Heard, Workers, Pool, Threads
<1>2. QED
  BY <1>1 DEF AsyncInv, OneHeard, Own, Handling, Quiet, Workers

LEMMA TakeStep ==
    ASSUME AsyncInv, NEW t \in Workers, NEW o \in ops, Take(t, o) PROVE AsyncInv'
<1>1. AsyncTypes'
  BY DEF Take, AsyncInv, AsyncTypes, timerVars, connVars, appVars, endVars
<1>2. t \in Pool /\ taken' = [taken EXCEPT ![t] = o] /\ taken[t] = None /\ ops' = ops \ {o}
      /\ UNCHANGED <<holds, inCallback, gen, ncalls, endedBy, dropped, mAsyncTimerReason>>
  BY DEF Take, Workers, Pool, timerVars, connVars, appVars, endVars
<1>3. Mutexes'
  <2>1. holds[t] = 0 \/ inCallback[t] # 0
    BY <1>2 DEF AsyncInv, AsyncTypes, Mutexes, None
  <2>2. QED
    BY <1>2, <2>1 DEF AsyncInv, AsyncTypes, Mutexes
<1>4. OneHeard'
  <2>1. \A p : (Own(p)' <=> Own(p)) /\ (Heard(p)' <=> Heard(p))
    BY <1>2 DEF Own, Heard, Ended
  <2>2. taken'[t] = o /\ \A u \in Pool \ {t} : taken'[u] = taken[u]
    BY <1>2 DEF AsyncInv, AsyncTypes
  <2>3. \A u \in Workers : Handling(u)' <=> IF u = t THEN Heard(o) /\ inCallback[t] = 0 ELSE Handling(u)
    BY <1>2, <2>2 DEF Handling, Heard, Workers, Pool
  <2>4. QED
    BY <1>2, <2>1, <2>2, <2>3 DEF AsyncInv, OneHeard, Workers, Pool
<1>5. Callbacks' /\ mTimerEntry'.call = ncalls'
  BY DEF Take, AsyncInv, Callbacks, timerVars, appVars, endVars
<1>6. QED
  BY <1>1, <1>3, <1>4, <1>5 DEF AsyncInv

LEMMA CycleTimerStep == ASSUME AsyncInv, CycleTimer PROVE AsyncInv'
<1> USE DEF CycleTimer
<1>1. PICK e : /\ taken["timer"] = None /\ taken' = [taken EXCEPT !["timer"] = e]
               /\ UNCHANGED <<mAsyncTimerReason, mAsyncTimerEntry, mTimerEntry, connVars, holds,
                              inCallback, appVars, endVars, mTries, ops, pings>>
  OBVIOUS
<1>2. AsyncTypes'
  BY <1>1 DEF AsyncInv, AsyncTypes, connVars, appVars, endVars
<1>3. \A u \in Workers : taken'[u] = taken[u]
  BY <1>1 DEF AsyncInv, AsyncTypes, Workers, Pool
<1>4. Mutexes'
  <2>1. holds["timer"] = 0 \/ inCallback["timer"] # 0
    BY <1>1 DEF AsyncInv, AsyncTypes, Mutexes, None, Pool
  <2>2. QED
    BY <1>1, <2>1 DEF AsyncInv, AsyncTypes, Mutexes, connVars
<1>5. OneHeard'
  <2>1. \A p : (Own(p)' <=> Own(p)) /\ (Heard(p)' <=> Heard(p))
    BY <1>1 DEF Own, Heard, Ended, connVars, appVars, endVars
  <2>2. \A u \in Workers : Handling(u)' <=> Handling(u)
    BY <1>1, <1>3 DEF Handling, Heard, connVars
  <2>3. QED
    BY <1>1, <1>3, <2>1, <2>2 DEF AsyncInv, OneHeard, Workers
<1>6. Callbacks' /\ mTimerEntry'.call = ncalls'
  BY <1>1 DEF AsyncInv, Callbacks, appVars, endVars
<1>7. QED
  BY <1>2, <1>4, <1>5, <1>6 DEF AsyncInv

LEMMA EnterStep == ASSUME AsyncInv, NEW t \in Pool, Enter(t) PROVE AsyncInv'
<1>1. UNCHANGED <<timerVars, connVars, inCallback, appVars, endVars, mTries, ops, pings>>
  BY DEF Enter
<1>2. Callbacks' /\ mTimerEntry'.call = ncalls'
  BY <1>1 DEF AsyncInv, Callbacks, timerVars, appVars, endVars
<1>3. CASE taken[t].gen = gen
  <2>1. holds' = [holds EXCEPT ![t] = gen] /\ UNCHANGED taken /\ Free(gen, t)
    BY <1>3 DEF Enter
  <2>2. AsyncTypes'
    BY <1>1, <2>1 DEF AsyncInv, AsyncTypes, connVars, appVars, endVars
  <2>3. Mutexes'
    BY <1>1, <1>3, <2>1 DEF AsyncInv, AsyncTypes, Mutexes, Free, connVars, Threads, Pool
  <2>4. OneHeard'
    BY <1>1, <2>1 DEF AsyncInv, OneHeard, Own, Heard, Handling, Ended, timerVars, connVars, appVars,
                      endVars
  <2>5. QED
    BY <1>2, <2>2, <2>3, <2>4 DEF AsyncInv
<1>4. CASE taken[t].gen # gen
  <2>1. Done(t) /\ t \in Threads
    BY <1>1, <1>4 DEF Enter, Done, Threads
  <2>2. Mutexes'
    BY <1>1, <2>1, DoneMutexes DEF connVars
  <2>3. AsyncTypes'
    BY <1>1, <2>1, DoneKeeps DEF AsyncInv, AsyncTypes, connVars, appVars, endVars
  <2>4. OneHeard'
    <3>1. \A p : (Own(p)' <=> Own(p)) /\ (Heard(p)' <=> Heard(p))
      BY <1>1 DEF Own, Heard, Ended, timerVars, connVars, appVars, endVars
    <3>2. Own(None) /\ ~Heard(None)
      BY DEF Own, Heard, None, AsyncInv, AsyncTypes
    <3>3. \A u \in Workers : /\ inCallback'[u] = 0 => Own(taken'[u])
                             /\ Handling(u)' => Handling(u)
      BY <2>1, <3>1, <3>2, DoneKeeps DEF AsyncInv, OneHeard, Handling, Workers, Pool
    <3>4. QED
      BY <1>1, <3>1, <3>3 DEF AsyncInv, OneHeard, Workers
  <2>5. QED
    BY <1>2, <2>2, <2>3, <2>4 DEF AsyncInv
<1>5. QED
  BY <1>3, <1>4

\* A handler that issues the next operation of the call and leaves.
LEMMA NextOperation ==
    ASSUME AsyncInv, NEW t \in Workers, NEW kind, Handles(t, kind), Leave(t),
           UNCHANGED <<inCallback, ncalls, endedBy, dropped>>, gen' \in {gen, gen + 1},
           NEW k, ops' = ops \cup {[kind |-> k, gen |-> gen', call |-> ncalls]},
           mAsyncTimerReason' # "Wait"
    PROVE  Mutexes' /\ OneHeard' /\ Done(t)
<1> DEFINE o == [kind |-> k, gen |-> gen', call |-> ncalls]
<1>1. Done(t) /\ t \in Threads /\ t \in Pool /\ gen \in Nat /\ gen' \in Nat
  BY DEF Done, Threads, Workers, Pool, AsyncInv, AsyncTypes
<1>2. Mutexes'
  BY <1>1, DoneMutexes, HandlerAlone
<1>3. o.gen = gen' /\ o.call = ncalls' /\ ops' = ops \cup {o}
  OBVIOUS
<1>4. ~Ended' /\ (gen' > gen \/ (gen' = gen /\ Quiet(t)))
  BY <1>1, HandlesOwn DEF Ended
<1> HIDE DEF o
<1>5. OneHeard'
  BY <1>1, <1>3, <1>4, Issued
<1>6. QED
  BY <1>1, <1>2, <1>5

LEMMA ConnectCompletedStep == ASSUME AsyncInv, OnConnectCompleted PROVE AsyncInv'
<1>1. Handles("connect", "connect") /\ Leave("connect") /\ "connect" \in Workers
      /\ UNCHANGED <<gen, inCallback, appVars, endVars>>
      /\ ops' = ops \cup {[kind |-> "write", gen |-> gen', call |-> ncalls]}
  BY DEF OnConnectCompleted, IssueWrite, Workers
<1>2. mTimerEntry'.call = ncalls /\ mAsyncTimerReason' = "Write"
  BY TimerSet DEF OnConnectCompleted
<1>3. Mutexes' /\ OneHeard' /\ Done("connect")
  BY <1>1, <1>2, NextOperation DEF appVars, endVars
<1>4. AsyncTypes'
  BY <1>1, <1>3, DoneKeeps DEF AsyncInv, AsyncTypes, appVars, endVars, Workers, Threads, Pool
<1>5. QED
  BY <1>1, <1>2, <1>3, <1>4 DEF AsyncInv, Callbacks, appVars, endVars

LEMMA SendCompletedStep == ASSUME AsyncInv, OnSendCompleted PROVE AsyncInv'
<1>1. Handles("io", "write") /\ Leave("io") /\ "io" \in Workers
      /\ UNCHANGED <<connVars, inCallback, appVars, endVars, mTimerEntry>>
      /\ ops' = ops \cup {[kind |-> "read", gen |-> gen', call |-> ncalls]}
      /\ mAsyncTimerReason' = "Read"
  BY DEF OnSendCompleted, IssueRead, Workers, connVars
<1>2. Mutexes' /\ OneHeard' /\ Done("io")
  BY <1>1, NextOperation DEF appVars, endVars, connVars
<1>3. AsyncTypes'
  BY <1>1, <1>2, DoneKeeps DEF AsyncInv, AsyncTypes, connVars, appVars, endVars, Workers, Threads, Pool
<1>4. QED
  BY <1>1, <1>2, <1>3 DEF AsyncInv, Callbacks, appVars, endVars

LEMMA PingBackStep == ASSUME AsyncInv, OnPingBack PROVE AsyncInv'
<1>1. Handles("io", "read") /\ Leave("io") /\ "io" \in Workers
      /\ UNCHANGED <<connVars, inCallback, appVars, endVars, mTimerEntry>>
      /\ ops' = ops \cup {[kind |-> "read", gen |-> gen', call |-> ncalls]}
      /\ mAsyncTimerReason' = "Read"
  BY DEF OnPingBack, KillTimer, IssueRead, Workers, connVars
<1>2. Mutexes' /\ OneHeard' /\ Done("io")
  BY <1>1, NextOperation DEF appVars, endVars, connVars
<1>3. AsyncTypes'
  BY <1>1, <1>2, DoneKeeps DEF AsyncInv, AsyncTypes, connVars, appVars, endVars, Workers, Threads, Pool
<1>4. QED
  BY <1>1, <1>2, <1>3 DEF AsyncInv, Callbacks, appVars, endVars

\* The retry, on this connection or on a new one.
LEMMA MismatchStep == ASSUME AsyncInv, OnMismatch PROVE AsyncInv'
<1>1. Handles("io", "read") /\ Leave("io") /\ "io" \in Workers
      /\ UNCHANGED <<inCallback, appVars, endVars>>
  BY DEF OnMismatch, Workers
<1>2. /\ gen' \in {gen, gen + 1} /\ mTimerEntry'.call = ncalls /\ mAsyncTimerReason' # "Wait"
      /\ \E k : ops' = ops \cup {[kind |-> k, gen |-> gen', call |-> ncalls]}
  BY TimerSet DEF OnMismatch, IssueWrite, IssueConnect, connVars
<1>3. Mutexes' /\ OneHeard' /\ Done("io")
  BY <1>1, <1>2, NextOperation DEF appVars, endVars
<1>4. AsyncTypes'
  BY <1>1, <1>2, <1>3, DoneKeeps DEF AsyncInv, AsyncTypes, appVars, endVars, Workers, Threads, Pool
<1>5. QED
  BY <1>1, <1>2, <1>3, <1>4 DEF AsyncInv, Callbacks, appVars, endVars

\* A call ends: by an answer, a failure, an expired timer or cancel().
LEMMA EndSteps ==
    ASSUME AsyncInv, NEW t \in Threads, End(t, ncalls), UNCHANGED <<ncalls, ops, mTimerEntry>>,
           \/ gen' = gen /\ Quiet(t)
           \/ gen' = gen + 1 /\ \A u \in Threads \ {t} : holds[u] # gen
    PROVE  AsyncInv'
<1>1. gen \in Nat \ {0} /\ gen' \in Nat \ {0}
  BY DEF AsyncInv, AsyncTypes
<1>2. Mutexes' /\ OneHeard'
  BY <1>1, Ends, DoneMutexes, NothingIssued
<1>3. AsyncTypes'
  BY <1>1, Ends, DoneKeeps, ConstantsAssumption DEF AsyncInv, AsyncTypes
<1>4. QED
  BY <1>2, <1>3, Ends DEF AsyncInv

LEMMA AnswerStep == ASSUME AsyncInv, OnAnswer PROVE AsyncInv'
<1>1. Handles("io", "read") /\ "io" \in Workers /\ End("io", taken["io"].call)
      /\ UNCHANGED <<connVars, appVars, ops, mTimerEntry>>
  BY DEF OnAnswer, KillTimer, Workers
<1>2. taken["io"].call = ncalls /\ Quiet("io") /\ "io" \in Threads
  BY <1>1, HandlesOwn
<1>3. QED
  BY <1>1, <1>2, EndSteps DEF connVars, appVars

\* onError by thread t, which keeps the others from the mutex.
LEMMA ErrorStep ==
    ASSUME AsyncInv, NEW t \in Threads, NEW reason, OnError(t, ncalls, reason),
           UNCHANGED <<ncalls, ops>>, \A u \in Threads \ {t} : holds[u] # gen
    PROVE  AsyncInv'
<1>1. End(t, ncalls) /\ gen' = gen + 1 /\ UNCHANGED mTimerEntry
  BY DEF OnError, KillTimer, Close
<1>2. QED
  BY <1>1, EndSteps

LEMMA GarbageStep == ASSUME AsyncInv, OnGarbage PROVE AsyncInv'
<1>1. Handles("io", "read") /\ "io" \in Workers /\ OnError("io", taken["io"].call, "None")
      /\ UNCHANGED <<ncalls, ops>>
  BY DEF OnGarbage, Workers, appVars
<1>2. QED
  BY <1>1, HandlesOwn, HandlerAlone, ErrorStep

LEMMA FailureStep == ASSUME AsyncInv, NEW t \in Workers, OnFailure(t) PROVE AsyncInv'
<1>1. PICK kind : Handles(t, kind)
  BY DEF OnFailure
<1>2. OnError(t, taken[t].call, mAsyncTimerReason) /\ UNCHANGED <<ncalls, ops>>
  BY DEF OnFailure, appVars
<1>3. QED
  BY <1>1, <1>2, HandlesOwn, HandlerAlone, ErrorStep

\* The entry is the transport's, and so the current call's.
LEMMA TimerExpiredStep == ASSUME AsyncInv, OnTimerExpired PROVE AsyncInv'
<1>1. Handles("timer", "timer") /\ UNCHANGED <<appVars, ops>> /\ "timer" \in Pool
      /\ "timer" \in Threads
  BY DEF OnTimerExpired, Pool, Threads
<1>2. CASE Leave("timer") /\ UNCHANGED <<timerVars, connVars, inCallback, endVars>>
  <2>1. Done("timer")
    BY <1>2 DEF Done
  <2>2. Mutexes'
    BY <1>1, <1>2, <2>1, DoneMutexes DEF connVars
  <2>3. AsyncTypes'
    BY <1>1, <1>2, <2>1, DoneKeeps DEF AsyncInv, AsyncTypes, connVars, appVars, endVars
  <2>4. \A u \in Workers : taken'[u] = taken[u]
    BY <1>2 DEF Leave, Workers, Pool
  <2>5. OneHeard'
    BY <1>1, <1>2, <2>4 DEF AsyncInv, OneHeard, Own, Heard, Handling, Ended, timerVars, connVars,
                            appVars, endVars, Workers
  <2>6. QED
    BY <1>1, <1>2, <2>2, <2>3, <2>5 DEF AsyncInv, Callbacks, timerVars, appVars, endVars
<1>3. CASE taken["timer"] = mTimerEntry /\ mAsyncTimerReason = "Wait"
           /\ KillTimer("None") /\ End("timer", taken["timer"].call) /\ UNCHANGED connVars
  <2>1. taken["timer"].call = ncalls
    BY <1>3 DEF AsyncInv
  <2>2. Quiet("timer")
    BY <1>3, NothingHeard DEF Quiet
  <2>3. QED
    BY <1>1, <1>3, <2>1, <2>2, EndSteps DEF KillTimer, connVars, appVars
<1>4. CASE taken["timer"] = mTimerEntry /\ OnError("timer", taken["timer"].call, "None")
  <2>1. taken["timer"].call = ncalls
    BY <1>4 DEF AsyncInv
  <2>2. QED
    BY <1>1, <1>4, <2>1, HandlerAlone, ErrorStep DEF appVars
<1>5. QED
  BY <1>2, <1>3, <1>4 DEF OnTimerExpired

LEMMA ReturnStep == ASSUME AsyncInv, NEW t \in Threads, Return(t) PROVE AsyncInv'
<1>1. Leave(t) /\ inCallback' = [inCallback EXCEPT ![t] = 0] /\ Done(t)
      /\ UNCHANGED <<timerVars, connVars, appVars, endVars, ops>>
  BY DEF Return, Done
<1>2. Mutexes'
  BY <1>1, DoneMutexes DEF connVars
<1>3. AsyncTypes'
  BY <1>1, DoneKeeps DEF AsyncInv, AsyncTypes, connVars, appVars, endVars
<1>4. OneHeard'
  <2>1. \A p : (Own(p)' <=> Own(p)) /\ (Heard(p)' <=> Heard(p))
    BY <1>1 DEF Own, Heard, Ended, timerVars, connVars, appVars, endVars
  <2>2. Own(None) /\ ~Heard(None)
    BY DEF Own, Heard, None, AsyncInv, AsyncTypes
  <2>3. \A u \in Workers : /\ inCallback'[u] = 0 => Own(taken'[u])
                           /\ Handling(u)' => Handling(u)
    BY <1>1, <2>1, <2>2, DoneKeeps DEF AsyncInv, OneHeard, Handling, Workers, Pool
  <2>4. QED
    BY <1>1, <2>1, <2>3 DEF AsyncInv, OneHeard, Workers
<1>5. QED
  BY <1>1, <1>2, <1>3, <1>4 DEF AsyncInv, Callbacks, timerVars, appVars, endVars

-----------------------------------------------------------------------------
\* The application.

LEMMA CancelStep == ASSUME AsyncInv, Cancel PROVE AsyncInv'
<1>1. "app" \in Threads /\ OnError("app", ncalls, mAsyncTimerReason) /\ Free(gen, "app")
      /\ UNCHANGED <<ncalls, ops>>
  BY DEF Cancel, Threads
<1>2. QED
  BY <1>1, ErrorStep DEF Free

\* The call that is dropped has not run its callback, and will not.
LEMMA DetachStep == ASSUME AsyncInv, Detach PROVE AsyncInv'
<1>1. "app" \in Threads /\ Free(gen, "app") /\ gen' = gen + 1 /\ mAsyncCallback' = 0
      /\ UNCHANGED <<timerVars, threadVars, ncalls, ran, endedBy, ops>>
      /\ dropped' = IF ncalls > 0 /\ endedBy[ncalls] = 0 THEN dropped \cup {ncalls} ELSE dropped
  BY DEF Detach, Close, Threads
<1>2. Done("app") /\ gen \in Nat
  BY <1>1 DEF Done, threadVars, Pool, AsyncInv, AsyncTypes
<1>3. Mutexes' /\ OneHeard'
  BY <1>1, <1>2, DoneMutexes, NothingIssued DEF Free
<1>4. AsyncTypes'
  BY <1>1, ConstantsAssumption DEF AsyncInv, AsyncTypes, threadVars, Calls
<1>5. Callbacks'
  BY <1>1, ConstantsAssumption DEF AsyncInv, AsyncTypes, Callbacks, Calls
<1>6. QED
  BY <1>1, <1>3, <1>4, <1>5 DEF AsyncInv, timerVars

-----------------------------------------------------------------------------
LEMMA AsyncInvInit == AsyncInit => AsyncInv
<1> SUFFICES ASSUME AsyncInit PROVE AsyncInv
  OBVIOUS
<1>1. AsyncTypes
  BY ConstantsAssumption DEF AsyncInit, AsyncTypes
<1>2. Mutexes
  BY DEF AsyncInit, Mutexes, Threads
<1>3. OneHeard
  BY DEF AsyncInit, OneHeard, Own, Heard, Handling, None, Workers, Pool
<1>4. Callbacks
  BY DEF AsyncInit, Callbacks
<1>5. QED
  BY <1>1, <1>2, <1>3, <1>4 DEF AsyncInit, AsyncInv, None

LEMMA AsyncInvStep == AsyncInv /\ [AsyncNext]_asyncVars => AsyncInv'
<1> SUFFICES ASSUME AsyncInv, [AsyncNext]_asyncVars PROVE AsyncInv'
  OBVIOUS
<1>1. CASE \E t \in Threads, kind \in Kinds :
           (kind = "wait" /\ WaitAsync(t)) \/ CallWrite(t, kind)
           \/ CallConnect(t, kind) \/ CallFails(t, kind) \/ CallThrows(t, kind)
  BY <1>1, WaitAsyncStep, CallWriteStep, CallConnectStep, CallFailsStep, CallThrowsStep
<1>2. CASE ConnectThread
  <2>1. "connect" \in Workers /\ "connect" \in Pool /\ "connect" \in Threads
    BY DEF Workers, Pool, Threads
  <2>2. CASE CycleConnect
    BY <2>1, <2>2, TakeStep DEF CycleConnect
  <2>3. QED
    BY <1>2, <2>1, <2>2, EnterStep, ConnectCompletedStep, FailureStep, ReturnStep DEF ConnectThread
<1>3. CASE IoThread
  <2>1. "io" \in Workers /\ "io" \in Pool /\ "io" \in Threads
    BY DEF Workers, Pool, Threads
  <2>2. CASE CycleIo
    BY <2>1, <2>2, TakeStep DEF CycleIo
  <2>3. QED
    BY <1>3, <2>1, <2>2, EnterStep, SendCompletedStep, AnswerStep, MismatchStep, PingBackStep,
       GarbageStep, FailureStep, ReturnStep DEF IoThread
<1>4. CASE TimerThread
  <2>1. "timer" \in Pool /\ "timer" \in Threads
    BY DEF Pool, Threads
  <2>2. QED
    BY <1>4, <2>1, CycleTimerStep, EnterStep, TimerExpiredStep, ReturnStep DEF TimerThread
<1>5. CASE Cancel \/ Detach \/ Return("app")
  BY <1>5, CancelStep, DetachStep, ReturnStep DEF Threads
<1>6. CASE Disconnect \/ UNCHANGED asyncVars
  <2>1. UNCHANGED <<timerVars, connVars, threadVars, ncalls, kindOf, endVars, mTries, ops, pings>>
    BY <1>6 DEF Disconnect, asyncVars, appVars
  <2>2. QED
    BY <2>1 DEF AsyncInv, AsyncTypes, Mutexes, OneHeard, Callbacks, Own, Heard, Handling, Ended,
                timerVars, connVars, threadVars, endVars
<1>7. QED
  BY <1>1, <1>2, <1>3, <1>4, <1>5, <1>6 DEF AsyncNext

\* A call is ended once, by an operation or timer of its own (EndedOnce): a
\* late completion or timer never ends the call that has begun since, whatever
\* the calls, what the server sends and when the application cancels.
THEOREM EndedOnceHolds == AsyncSpec => []EndedOnce
<1>1. AsyncInv => EndedOnce
  BY DEF AsyncInv, AsyncTypes, Callbacks, EndedOnce
<1>2. QED
  BY <1>1, AsyncInvInit, AsyncInvStep, PTL DEF AsyncSpec
=============================================================================
