------------------------- MODULE DynamicThreadPool -------------------------
(***************************************************************************)
(* The thread pool of the server transports (DynamicThreadPool), started   *)
(* and stopped by the thread that calls RcfServer::start and stop.         *)
(*                                                                         *)
(* A pool thread runs the transport's task over and over; one run of the   *)
(* task serves any number of requests.  The first request of a run makes   *)
(* the thread busy (notifyBusy), the end of the run makes it ready again   *)
(* (notifyReady).  The pool launches a thread when all of them are busy    *)
(* and lets one go when it has been idle.  Each action below is one        *)
(* critical section of mThreadsMutex, or a step outside of it.             *)
(***************************************************************************)
EXTENDS Integers, FiniteSets

CONSTANTS Threads,      \* the threads the pool may launch
          TargetCount,  \* mThreadTargetCount
          MaxCount,     \* mThreadMaxCount
          ReserveLast,  \* mReserveLastThread
          Events,       \* what else may happen (see AllEvents)
          MaxStarts     \* bound: times the pool is started

\* "early": a request is served while start() is still launching threads;
\* "throws": an exception leaves a run of the task.
AllEvents == {"early", "throws"}

ASSUME ThreadsFinite == IsFiniteSet(Threads)
ASSUME CountsAssumption ==
    /\ TargetCount \in Nat /\ MaxCount \in Nat
    /\ 0 < TargetCount /\ TargetCount <= MaxCount
ASSUME EventsAssumption == ReserveLast \in BOOLEAN /\ Events \subseteq AllEvents
ASSUME StartsAssumption == MaxStarts \in Nat

VARIABLES stopFlag,    \* *mpUserStopFlag, RcfServer's mServerThreadsStopFlag
          mThreads,    \* threads in the pool's map
          mBusyCount,
          mBusy,       \* threads whose ThreadInfo has mBusy
          retired,     \* threads whose ThreadInfo has mStopFlag
          pc,          \* next step of each thread
          caller,      \* where the thread in start() and stop() is
          launching,   \* thread that start() has created and not yet put in the map
          joining,     \* threads that stop() has still to join
          starts       \* number of calls of start()

poolVars == <<mThreads, mBusyCount>>
threadVars == <<mBusy, retired>>
callerVars == <<caller, launching, joining, starts>>
vars == <<stopFlag, poolVars, threadVars, pc, callerVars>>

Steps == {"unborn", "init", "loop", "task", "servant", "ready", "idleCheck",
          "deinit", "erase", "done"}

TypeOK ==
    /\ stopFlag \in BOOLEAN
    /\ mThreads \subseteq Threads
    /\ mBusyCount \in Nat
    /\ mBusy \subseteq Threads
    /\ retired \subseteq Threads
    /\ pc \in [Threads -> Steps]
    /\ caller \in {"out", "launching", "inserting", "started", "stopping", "joining"}
    /\ launching \subseteq Threads
    /\ joining \subseteq Threads
    /\ starts \in 0..MaxStarts

Init ==
    /\ stopFlag = FALSE
    /\ mThreads = {} /\ mBusyCount = 0
    /\ mBusy = {} /\ retired = {}
    /\ pc = [t \in Threads |-> "unborn"]
    /\ caller = "out" /\ launching = {} /\ joining = {} /\ starts = 0

At(t, step) == pc[t] = step
Goto(t, step) == pc' = [pc EXCEPT ![t] = step]

\* Threads that do not run now.
Free == {t \in Threads : pc[t] \in {"unborn", "done"}} \ (mThreads \cup joining)

-----------------------------------------------------------------------------
(* start(), which does not lock mThreadsMutex: a thread runs before it is   *)
(* in the map.                                                              *)

Start ==
    /\ caller = "out" /\ starts < MaxStarts
    /\ starts' = starts + 1
    /\ mThreads' = {} /\ mBusyCount' = 0
    /\ caller' = "launching"
    /\ UNCHANGED <<stopFlag, threadVars, pc, launching, joining>>

Create(t) ==
    /\ caller = "launching" /\ t \in Free
    /\ launching' = {t}
    /\ Goto(t, "init")
    /\ caller' = "inserting"
    /\ UNCHANGED <<stopFlag, poolVars, threadVars, joining, starts>>

Insert ==
    /\ caller = "inserting"
    /\ mThreads' = mThreads \cup launching
    /\ launching' = {}
    /\ caller' = IF Cardinality(mThreads') < TargetCount THEN "launching" ELSE "started"
    /\ UNCHANGED <<stopFlag, mBusyCount, threadVars, pc, joining, starts>>

-----------------------------------------------------------------------------
(* repeatTask(), on a pool thread. *)

InitThread(t) ==
    /\ At(t, "init")
    /\ Goto(t, "loop")
    /\ UNCHANGED <<stopFlag, poolVars, threadVars, callerVars>>

\* Faulty variant: the loop does not look at the server's stop flag.
LoopOn(t) ==
    /\ At(t, "loop")
    /\ Goto(t, IF t \in retired THEN "deinit" ELSE "task")
    /\ UNCHANGED <<stopFlag, poolVars, threadVars, callerVars>>

\* while (!stopFlag && !threadInfoPtr->mStopFlag)
Loop(t) ==
    /\ At(t, "loop")
    /\ Goto(t, IF stopFlag \/ t \in retired THEN "deinit" ELSE "task")
    /\ UNCHANGED <<stopFlag, poolVars, threadVars, callerVars>>

\* A request that arrives while start() is launching threads is an early one.
Arrives == "early" \in Events \/ caller \notin {"launching", "inserting"}

\* notifyBusy: the first request of this run of the task.  The pool grows, is
\* large enough, or cannot grow: then the request is refused (AllThreadsBusy,
\* answered with an exception) if the last thread is reserved.
CountBusy(t) ==
    /\ At(t, "task") /\ t \notin mBusy /\ Arrives
    /\ mBusy' = mBusy \cup {t}
    /\ mBusyCount' = mBusyCount + 1

AllBusy == ~stopFlag /\ mBusyCount + 1 = Cardinality(mThreads)

ServeFirst(t) ==
    /\ CountBusy(t) /\ ~AllBusy
    /\ Goto(t, "servant")
    /\ UNCHANGED <<stopFlag, mThreads, retired, callerVars>>

GrowPool(t) ==
    /\ CountBusy(t) /\ AllBusy /\ Cardinality(mThreads) # MaxCount
    /\ \E new \in Free :
          /\ mThreads' = mThreads \cup {new}
          /\ pc' = [pc EXCEPT ![t] = "servant", ![new] = "init"]
    /\ UNCHANGED <<stopFlag, retired, callerVars>>

AtLimit(t) ==
    /\ CountBusy(t) /\ AllBusy /\ Cardinality(mThreads) = MaxCount
    /\ Goto(t, IF ReserveLast THEN "task" ELSE "servant")
    /\ UNCHANGED <<stopFlag, mThreads, retired, callerVars>>

\* A later request of the same run: notifyBusy finds mBusy set.
ServeNext(t) ==
    /\ At(t, "task") /\ t \in mBusy
    /\ Goto(t, "servant")
    /\ UNCHANGED <<stopFlag, poolVars, threadVars, callerVars>>

ServantReturns(t) ==
    /\ At(t, "servant")
    /\ Goto(t, "task")
    /\ UNCHANGED <<stopFlag, poolVars, threadVars, callerVars>>

TaskReturns(t) ==
    /\ At(t, "task")
    /\ Goto(t, "ready")
    /\ UNCHANGED <<stopFlag, poolVars, threadVars, callerVars>>

\* The exception is traced and the loop goes on, without notifyReady.
TaskThrows(t) ==
    /\ At(t, "task") /\ "throws" \in Events
    /\ Goto(t, "loop")
    /\ UNCHANGED <<stopFlag, poolVars, threadVars, callerVars>>

\* notifyReady, first critical section.
NotifyReady(t) ==
    /\ At(t, "ready")
    /\ mBusy' = mBusy \ {t}
    /\ mBusyCount' = IF t \in mBusy THEN mBusyCount - 1 ELSE mBusyCount
    /\ Goto(t, "idleCheck")
    /\ UNCHANGED <<stopFlag, mThreads, retired, callerVars>>

StayOrGo(t, leaves) ==
    /\ At(t, "idleCheck")
    /\ Goto(t, "loop")
    /\ \/ UNCHANGED <<mThreads, retired>>
       \/ leaves /\ mThreads' = mThreads \ {t} /\ retired' = retired \cup {t}
    /\ UNCHANGED <<stopFlag, mBusyCount, mBusy, callerVars>>

\* Faulty variant: an idle thread leaves although the others are busy.
IdleCheckTarget(t) == StayOrGo(t, Cardinality(mThreads) > TargetCount)

\* notifyReady, second critical section: a thread that has been idle for too
\* long leaves the pool, if enough others are there and not busy.
IdleCheck(t) ==
    StayOrGo(t, /\ Cardinality(mThreads) > TargetCount
                /\ mBusyCount < Cardinality(mThreads) - 1)

Deinit(t) ==
    /\ At(t, "deinit")
    /\ Goto(t, "erase")
    /\ UNCHANGED <<stopFlag, poolVars, threadVars, callerVars>>

\* The thread ends, and leaves the map if it is still there.
Erase(t) ==
    /\ At(t, "erase")
    /\ mThreads' = mThreads \ {t}
    /\ mBusy' = mBusy \ {t} /\ retired' = retired \ {t}  \* with its ThreadInfo
    /\ Goto(t, "done")
    /\ UNCHANGED <<stopFlag, mBusyCount, callerVars>>

-----------------------------------------------------------------------------
(* stop(true), between the two assignments of the stop flag in              *)
(* RcfServer::stop.                                                         *)

SetStopFlag ==
    /\ caller = "started"
    /\ stopFlag' = TRUE
    /\ caller' = "stopping"
    /\ UNCHANGED <<poolVars, threadVars, pc, launching, joining, starts>>

Snapshot ==
    /\ caller = "stopping"
    /\ joining' = mThreads
    /\ caller' = "joining"
    /\ UNCHANGED <<stopFlag, poolVars, threadVars, pc, launching, starts>>

\* Faulty variant: stop(false), which does not wait for the threads.
NoJoin(t) ==
    /\ caller = "joining" /\ t \in joining
    /\ joining' = joining \ {t}
    /\ UNCHANGED <<stopFlag, poolVars, threadVars, pc, caller, launching, starts>>

Join(t) ==
    /\ caller = "joining" /\ t \in joining /\ At(t, "done")
    /\ joining' = joining \ {t}
    /\ UNCHANGED <<stopFlag, poolVars, threadVars, pc, caller, launching, starts>>

Stopped ==
    /\ caller = "joining" /\ joining = {}
    /\ mThreads' = {}
    /\ stopFlag' = FALSE
    /\ caller' = "out"
    /\ UNCHANGED <<mBusyCount, threadVars, pc, launching, joining, starts>>

Run(t) ==
    \/ InitThread(t) \/ Loop(t)
    \/ ServeFirst(t) \/ GrowPool(t) \/ AtLimit(t) \/ ServeNext(t)
    \/ ServantReturns(t) \/ TaskReturns(t) \/ TaskThrows(t)
    \/ NotifyReady(t) \/ IdleCheck(t) \/ Deinit(t) \/ Erase(t)

Caller ==
    \/ Start \/ Insert \/ SetStopFlag \/ Snapshot \/ Stopped
    \/ \E t \in Threads : Create(t) \/ Join(t)

Next == Caller \/ \E t \in Threads : Run(t)

Spec == Init /\ [][Next]_vars

\* Threads are scheduled, the caller returns from stop(), servants return, and
\* a run of the task returns although requests may keep coming: the timer that
\* the task arms stops the demuxer.
Fairness ==
    /\ \A t \in Threads :
          /\ WF_vars(InitThread(t) \/ Loop(t) \/ ServantReturns(t) \/ NotifyReady(t)
                     \/ IdleCheck(t) \/ Deinit(t) \/ Erase(t))
          /\ SF_vars(TaskReturns(t))
    /\ WF_vars(Snapshot \/ Stopped \/ \E t \in Threads : Join(t))

FairSpec == Spec /\ Fairness

-----------------------------------------------------------------------------
Started == caller \in {"started", "stopping", "joining"}

(* The assertions of notifyBusy, notifyReady and launchThread: no more      *)
(* threads are busy than there are, and no more than mThreadMaxCount.       *)
CountsInRange ==
    /\ 0 <= mBusyCount /\ mBusyCount <= Cardinality(mThreads)
    /\ Cardinality(mThreads) <= MaxCount

(* While the pool runs they hold although exceptions leave the task, and so *)
(* skip notifyReady.                                                        *)
CountsWhileRunning == caller # "out" /\ ~stopFlag => CountsInRange

(* As long as the pool may grow some thread is not busy and can take the    *)
(* next request, though threads come and go and each decides alone.         *)
SpareThread ==
    Started /\ ~stopFlag =>
        mBusyCount < Cardinality(mThreads) \/ Cardinality(mThreads) = MaxCount

(* When stop() has returned no thread is in the task or will enter it, so   *)
(* the server may clear the stop flag and be started again.                 *)
QuietAfterStop ==
    caller = "out" =>
        \A t \in Threads : pc[t] \in {"unborn", "loop", "deinit", "erase", "done"}
                           /\ (pc[t] = "loop" => t \in retired)

(* The assertion at the end of stop(): every thread has left the map.       *)
MapEmptyWhenJoined == caller = "joining" /\ joining = {} => mThreads = {}

(* The comment in RcfServer::stop: when the stop flag is cleared all the    *)
(* threads have been joined.                                                *)
AllJoined == caller = "out" => \A t \in Threads : pc[t] \in {"unborn", "done"}

(* stop() returns: every thread it joins ends.                              *)
StopReturns == caller = "stopping" ~> caller = "out"

-----------------------------------------------------------------------------
(* The inductive invariant, where no request is early.  A thread that is    *)
(* alive and has not left the pool is in the map or about to be put there,  *)
(* stop() waits for it, and mBusyCount counts the busy threads, until a     *)
(* stop makes threads leave that are still counted.                         *)

Alive(t) == pc[t] \notin {"unborn", "done"}

ThreadPlaces ==
    \A t \in Threads :
        /\ t \in mThreads \cup launching => Alive(t) /\ t \notin retired
        /\ Alive(t) => t \in mThreads \cup launching \cup retired
        /\ t \in launching => t \notin mThreads
        /\ t \in retired => pc[t] \in {"loop", "deinit", "erase"}
        /\ pc[t] \in {"deinit", "erase"} => stopFlag \/ t \in retired

CallerPlaces ==
    /\ caller = "inserting" => \E t \in Threads : launching = {t}
    /\ caller # "inserting" => launching = {}
    /\ caller = "out" => mThreads = {}
    /\ stopFlag <=> caller \in {"stopping", "joining"}
    /\ caller = "joining" => mThreads \subseteq joining

BusyThreads ==
    /\ mBusy \subseteq mThreads
    /\ \A t \in Threads : t \in mBusy => pc[t] \notin {"init", "idleCheck"}
    /\ \A t \in Threads : t \in mBusy /\ "throws" \notin Events
                              => pc[t] \in {"task", "servant", "ready"}
    /\ \A t \in Threads : pc[t] = "servant" => t \in mBusy
    /\ caller \in {"launching", "inserting"} => mBusy = {}

BusyCount ==
    /\ Cardinality(mBusy) <= mBusyCount
    /\ "throws" \notin Events \/ (caller # "out" /\ ~stopFlag)
          => mBusyCount = Cardinality(mBusy)

Sizes ==
    /\ Cardinality(mThreads) <= MaxCount
    /\ caller \in {"launching", "inserting"} => Cardinality(mThreads) < TargetCount

IInv == /\ TypeOK /\ ThreadPlaces /\ CallerPlaces /\ BusyThreads /\ BusyCount
        /\ Sizes /\ SpareThread
=============================================================================
