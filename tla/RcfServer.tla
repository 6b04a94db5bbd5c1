----------------------------- MODULE RcfServer -----------------------------
(***************************************************************************)
(* The life of a server: open, start, stop, close, addService,             *)
(* removeService and startInThisThread, called by any number of threads.   *)
(*                                                                         *)
(* Three locks order the calls: mOpenedMutex (open and close),             *)
(* mStartedMutex (start, stop and the end of addService) and               *)
(* mServicesMutex (the table of services; a reader only copies it).        *)
(* start() takes the first under the second, close() the second under the  *)
(* first.  A service has at most one internal thread here, launched by     *)
(* startService and joined by stopService under the mutex of its tasks.    *)
(***************************************************************************)
EXTENDS Integers, Sequences, SequencesExt

CONSTANTS Callers,   \* threads of the application
          Services,
          Initial,   \* services given to the constructor, in order
          OwnFlag,   \* services whose stop functor ends their task
          Resets,    \* those of OwnFlag that onServerStop makes ready again
          Ops        \* the calls the application makes

AllOps == {"open", "start", "stop", "close", "add", "remove", "runHere", "runHereJoined",
           "waitStart", "waitStop"}

None == "none"

ASSUME CallersAssumption == None \notin Callers
ASSUME InitialAssumption == Initial \in Seq(Services)
ASSUME KindsAssumption == OwnFlag \subseteq Services /\ Resets \subseteq OwnFlag
ASSUME OpsAssumption == Ops \subseteq AllOps

VARIABLES mOpened, mStarted,
          mServerThreadsStopFlag,
          mServices,      \* the table of services, in order
          mJoinFunctors,  \* the threads that stop() will join (a set; None is an empty functor)
          opener,         \* the thread in mOpenedMutex
          starter,        \* the thread in mStartedMutex
          writer,         \* the thread that writes mServices
          tasksMutex,     \* for each service the thread in its tasks' mutex
          thread,         \* the internal thread of each service
          ownStop,        \* services whose own stop flag is up
          opened,         \* services whose last call was onServerOpen, not onServerClose
          pc,             \* next step of each caller
          op,             \* the call it is in
          arg,            \* the service it adds or removes
          todo,           \* services that remain to be started or stopped
          copied          \* the copy of the table that stop() has made

serverVars == <<mOpened, mStarted, mServerThreadsStopFlag, mServices, mJoinFunctors>>
lockVars == <<opener, starter, writer, tasksMutex>>
serviceVars == <<thread, ownStop, opened>>
callVars == <<pc, op, arg, todo, copied>>
vars == <<serverVars, lockVars, serviceVars, callVars>>

Steps == {"idle", "begin", "open", "copyStart", "spawn", "started", "push", "cycling",
          "lockStop", "copyStop", "stopService", "joinService", "joinOthers", "notifyStop",
          "closeAll", "added", "launchAdded", "joinRemoved", "waiting", "threw"}

TypeOK ==
    /\ mOpened \in BOOLEAN /\ mStarted \in BOOLEAN /\ mServerThreadsStopFlag \in BOOLEAN
    /\ mServices \in Seq(Services)
    /\ mJoinFunctors \subseteq Callers \cup {None}
    /\ opener \in Callers \cup {None} /\ starter \in Callers \cup {None}
    /\ writer \in Callers \cup {None}
    /\ tasksMutex \in [Services -> Callers \cup {None}]
    /\ thread \in [Services -> {"absent", "none", "running", "ended"}]
    /\ ownStop \subseteq OwnFlag
    /\ opened \subseteq Services
    /\ pc \in [Callers -> Steps]
    /\ op \in [Callers -> AllOps \cup {None}]
    /\ arg \in [Callers -> Services \cup {None}]
    /\ todo \in [Callers -> Seq(Services)] /\ copied \in [Callers -> Seq(Services)]

Init ==
    /\ mOpened = FALSE /\ mStarted = FALSE /\ mServerThreadsStopFlag = FALSE
    /\ mServices = Initial
    /\ mJoinFunctors = {}
    /\ opener = None /\ starter = None /\ writer = None
    /\ tasksMutex = [s \in Services |-> None]
    /\ thread = [s \in Services |-> IF s \in ToSet(Initial) THEN "none" ELSE "absent"]
    /\ ownStop = {} /\ opened = {}
    /\ pc = [c \in Callers |-> "idle"]
    /\ op = [c \in Callers |-> None]
    /\ arg = [c \in Callers |-> None]
    /\ todo = [c \in Callers |-> <<>>] /\ copied = [c \in Callers |-> <<>>]

At(c, step) == pc[c] = step
Goto(c, step) == pc' = [pc EXCEPT ![c] = step]
Present == ToSet(mServices)

\* notify_all of the event for which the callers in operation o wait.
GotoAndWake(c, step, o) ==
    pc' = [d \in Callers |-> IF d = c THEN step
                             ELSE IF pc[d] = "waiting" /\ op[d] = o THEN "idle"
                             ELSE pc[d]]

\* A call begins.
Call(c) ==
    /\ At(c, "idle") \/ At(c, "threw")
    /\ \E o \in Ops, s \in Services :
          /\ op' = [op EXCEPT ![c] = o]
          /\ arg' = [arg EXCEPT ![c] = IF o \in {"add", "remove"} THEN s ELSE None]
    /\ Goto(c, "begin")
    /\ UNCHANGED <<serverVars, lockVars, serviceVars, todo, copied>>

\* TaskEntry::start of a service: its pool launches a thread unless it has
\* been started before.  Without task entries there is nothing to start.
Launch(s) ==
    thread' = [thread EXCEPT ![s] = IF @ = "none" THEN "running" ELSE @]

\* FixedThreadPool::stop calls the stop functor of a pool that is started.
RaiseOwnStop(s) ==
    ownStop' = ownStop \cup (IF thread[s] \in {"running", "ended"} THEN {s} \cap OwnFlag ELSE {})

\* The pool has joined its thread, and is not started any more.
Joined(s) ==
    /\ thread[s] # "running"
    /\ thread' = [thread EXCEPT ![s] = IF @ = "ended" THEN "none" ELSE @]

-----------------------------------------------------------------------------
(* open().                                                                  *)

\* The mutex is taken, the services are copied and opened, and the mutex is
\* left; start() calls open() with mStartedMutex locked.
OpenServer(c) ==
    /\ \/ At(c, "begin") /\ op[c] = "open" /\ Goto(c, "idle")
       \/ At(c, "open") /\ Goto(c, "copyStart")
    /\ opener = None /\ (mOpened \/ writer = None)
    /\ mOpened' = TRUE
    /\ opened' = IF mOpened THEN opened ELSE opened \cup Present
    /\ UNCHANGED <<mStarted, mServerThreadsStopFlag, mServices, mJoinFunctors, lockVars,
                   thread, ownStop, op, arg, todo, copied>>

-----------------------------------------------------------------------------
(* start() and startInThisThread().                                         *)

StartOps == {"start", "runHere", "runHereJoined"}

StartLock(c) ==
    /\ At(c, "begin") /\ op[c] \in StartOps /\ starter = None
    /\ IF mStarted
       THEN /\ Goto(c, IF op[c] = "start" THEN "idle" ELSE "push")
            /\ UNCHANGED <<starter, mServerThreadsStopFlag>>
       ELSE /\ Goto(c, "open")
            /\ starter' = c
            /\ mServerThreadsStopFlag' = FALSE
    /\ UNCHANGED <<mOpened, mStarted, mServices, mJoinFunctors, opener, writer, tasksMutex,
                   serviceVars, op, arg, todo, copied>>

\* The services are copied and told that the server starts.
StartCopy(c) ==
    /\ At(c, "copyStart") /\ writer = None
    /\ todo' = [todo EXCEPT ![c] = IF op[c] = "start" THEN mServices ELSE <<>>]
    /\ Goto(c, "spawn")
    /\ UNCHANGED <<serverVars, lockVars, serviceVars, op, arg, copied>>

\* startService, for each copied service in turn.
Spawn(c) ==
    /\ At(c, "spawn") /\ todo[c] # <<>>
    /\ tasksMutex[Head(todo[c])] = None
    /\ Launch(Head(todo[c]))
    /\ todo' = [todo EXCEPT ![c] = Tail(@)]
    /\ UNCHANGED <<serverVars, lockVars, ownStop, opened, pc, op, arg, copied>>

StartDone(c) ==
    /\ At(c, "spawn") /\ todo[c] = <<>>
    /\ mStarted' = TRUE
    /\ starter' = None
    /\ GotoAndWake(c, IF op[c] = "start" THEN "idle" ELSE "push", "waitStart")
    /\ UNCHANGED <<mOpened, mServerThreadsStopFlag, mServices, mJoinFunctors, opener, writer,
                   tasksMutex, serviceVars, op, arg, todo, copied>>

\* startInThisThread registers its join functor, an empty one when it was
\* given none, and cycles until the stop flag is up.
RunPush(c) ==
    /\ At(c, "push")
    /\ mJoinFunctors' = mJoinFunctors \cup {IF op[c] = "runHereJoined" THEN c ELSE None}
    /\ Goto(c, "cycling")
    /\ UNCHANGED <<mOpened, mStarted, mServerThreadsStopFlag, mServices, lockVars, serviceVars,
                   op, arg, todo, copied>>

RunEnds(c) ==
    /\ At(c, "cycling") /\ mServerThreadsStopFlag
    /\ Goto(c, "idle")
    /\ UNCHANGED <<serverVars, lockVars, serviceVars, op, arg, todo, copied>>

-----------------------------------------------------------------------------
(* stop(), which close() calls with mOpenedMutex locked.                    *)

AfterStop(c) == IF op[c] = "close" THEN "closeAll" ELSE "idle"

\* Faulty variant: the threads are not told to stop.
StopLockNoFlag(c) ==
    /\ \/ At(c, "begin") /\ op[c] = "stop"
       \/ At(c, "lockStop")
    /\ starter = None
    /\ IF mStarted
       THEN Goto(c, "copyStop") /\ starter' = c
       ELSE Goto(c, AfterStop(c)) /\ UNCHANGED starter
    /\ UNCHANGED <<serverVars, opener, writer, tasksMutex, serviceVars, op, arg, todo, copied>>

StopLock(c) ==
    /\ \/ At(c, "begin") /\ op[c] = "stop"
       \/ At(c, "lockStop")
    /\ starter = None
    /\ IF mStarted
       THEN /\ Goto(c, "copyStop")
            /\ starter' = c
            /\ mServerThreadsStopFlag' = TRUE
       ELSE /\ Goto(c, AfterStop(c))
            /\ UNCHANGED <<starter, mServerThreadsStopFlag>>
    /\ UNCHANGED <<mOpened, mStarted, mServices, mJoinFunctors, opener, writer, tasksMutex,
                   serviceVars, op, arg, todo, copied>>

StopCopy(c) ==
    /\ At(c, "copyStop") /\ writer = None
    /\ todo' = [todo EXCEPT ![c] = mServices]
    /\ copied' = [copied EXCEPT ![c] = mServices]
    /\ Goto(c, "stopService")
    /\ UNCHANGED <<serverVars, lockVars, serviceVars, op, arg>>

\* stopService of the last copied service: the stop functor of a service
\* with a flag of its own raises it.
StopService(c) ==
    /\ At(c, "stopService") /\ todo[c] # <<>>
    /\ LET s == Last(todo[c]) IN
          /\ tasksMutex[s] = None
          /\ tasksMutex' = [tasksMutex EXCEPT ![s] = c]
          /\ RaiseOwnStop(s)
    /\ Goto(c, "joinService")
    /\ UNCHANGED <<serverVars, opener, starter, writer, thread, opened, op, arg, todo, copied>>

\* Faulty variant: stop() does not wait for the thread.
JoinServiceAtOnce(c) ==
    /\ At(c, "joinService")
    /\ LET s == Last(todo[c]) IN
          /\ tasksMutex' = [tasksMutex EXCEPT ![s] = None]
          /\ UNCHANGED thread
    /\ todo' = [todo EXCEPT ![c] = Front(@)]
    /\ Goto(c, "stopService")
    /\ UNCHANGED <<serverVars, opener, starter, writer, ownStop, opened, op, arg, copied>>

JoinService(c) ==
    /\ At(c, "joinService")
    /\ LET s == Last(todo[c]) IN
          /\ Joined(s)
          /\ tasksMutex' = [tasksMutex EXCEPT ![s] = None]
    /\ todo' = [todo EXCEPT ![c] = Front(@)]
    /\ Goto(c, "stopService")
    /\ UNCHANGED <<serverVars, opener, starter, writer, ownStop, opened, op, arg, copied>>

AllStopped(c) ==
    /\ At(c, "stopService") /\ todo[c] = <<>>
    /\ Goto(c, "joinOthers")
    /\ UNCHANGED <<serverVars, lockVars, serviceVars, op, arg, todo, copied>>

\* The join functors are called; an empty one throws, and the destructors of
\* the locks are all that still happens.
JoinOthers(c) ==
    /\ At(c, "joinOthers") /\ None \notin mJoinFunctors
    /\ \A d \in mJoinFunctors : ~At(d, "cycling")
    /\ mJoinFunctors' = {}
    /\ Goto(c, "notifyStop")
    /\ UNCHANGED <<mOpened, mStarted, mServerThreadsStopFlag, mServices, lockVars, serviceVars,
                   op, arg, todo, copied>>

JoinThrows(c) ==
    /\ At(c, "joinOthers") /\ None \in mJoinFunctors
    /\ starter' = None
    /\ opener' = IF op[c] = "close" THEN None ELSE opener
    /\ Goto(c, "threw")
    /\ copied' = [copied EXCEPT ![c] = <<>>]
    /\ UNCHANGED <<serverVars, writer, tasksMutex, serviceVars, op, arg, todo>>

\* Faulty variant: nobody is woken.
NotifyStopSilent(c) ==
    /\ At(c, "notifyStop")
    /\ ownStop' = ownStop \ (Resets \cap ToSet(copied[c]))
    /\ mServerThreadsStopFlag' = FALSE
    /\ mStarted' = FALSE
    /\ starter' = None
    /\ Goto(c, AfterStop(c))
    /\ copied' = [copied EXCEPT ![c] = <<>>]
    /\ UNCHANGED <<mOpened, mServices, mJoinFunctors, opener, writer, tasksMutex, thread, opened,
                   op, arg, todo>>

\* onServerStop of the copied services; the server is stopped, and whoever
\* waits for that is woken.
NotifyStop(c) ==
    /\ At(c, "notifyStop")
    /\ ownStop' = ownStop \ (Resets \cap ToSet(copied[c]))
    /\ mServerThreadsStopFlag' = FALSE
    /\ mStarted' = FALSE
    /\ starter' = None
    /\ GotoAndWake(c, AfterStop(c), "waitStop")
    /\ copied' = [copied EXCEPT ![c] = <<>>]
    /\ UNCHANGED <<mOpened, mServices, mJoinFunctors, opener, writer, tasksMutex, thread, opened,
                   op, arg, todo>>

-----------------------------------------------------------------------------
(* close().                                                                 *)

\* Faulty variant: close() does not stop the server.
CloseLockNoStop(c) ==
    /\ At(c, "begin") /\ op[c] = "close" /\ opener = None
    /\ IF mOpened
       THEN Goto(c, "closeAll") /\ opener' = c
       ELSE Goto(c, "idle") /\ UNCHANGED opener
    /\ UNCHANGED <<serverVars, starter, writer, tasksMutex, serviceVars, op, arg, todo, copied>>

CloseLock(c) ==
    /\ At(c, "begin") /\ op[c] = "close" /\ opener = None
    /\ IF mOpened
       THEN Goto(c, "lockStop") /\ opener' = c
       ELSE Goto(c, "idle") /\ UNCHANGED opener
    /\ UNCHANGED <<serverVars, starter, writer, tasksMutex, serviceVars, op, arg, todo, copied>>

CloseAll(c) ==
    /\ At(c, "closeAll") /\ writer = None
    /\ opened' = opened \ Present
    /\ mOpened' = FALSE
    /\ opener' = None
    /\ Goto(c, "idle")
    /\ UNCHANGED <<mStarted, mServerThreadsStopFlag, mServices, mJoinFunctors, starter, writer,
                   tasksMutex, thread, ownStop, op, arg, todo, copied>>

-----------------------------------------------------------------------------
(* addService() and removeService().                                        *)

AddPush(c) ==
    /\ At(c, "begin") /\ op[c] = "add" /\ writer = None
    /\ IF arg[c] \in Present
       THEN Goto(c, "launchAdded") /\ UNCHANGED mServices
       ELSE Goto(c, "added") /\ mServices' = Append(mServices, arg[c])
    /\ UNCHANGED <<mOpened, mStarted, mServerThreadsStopFlag, mJoinFunctors, lockVars, serviceVars,
                   op, arg, todo, copied>>

\* onServiceAdded makes new task entries and takes the service's own flag
\* down.  (A thread of earlier entries that still runs stays in the picture.)
Added(c) ==
    /\ At(c, "added") /\ tasksMutex[arg[c]] = None
    /\ ownStop' = ownStop \ {arg[c]}
    /\ thread' = [thread EXCEPT ![arg[c]] = IF @ = "running" THEN @ ELSE "none"]
    /\ Goto(c, "launchAdded")
    /\ UNCHANGED <<serverVars, lockVars, opened, op, arg, todo, copied>>

\* Faulty variant: the new service is not started if the server runs.
AddNoLaunch(c) ==
    /\ At(c, "launchAdded") /\ starter = None /\ tasksMutex[arg[c]] = None
    /\ Goto(c, "idle")
    /\ UNCHANGED <<serverVars, lockVars, serviceVars, op, arg, todo, copied>>

AddLaunch(c) ==
    /\ At(c, "launchAdded") /\ starter = None /\ tasksMutex[arg[c]] = None
    /\ IF mStarted THEN Launch(arg[c]) ELSE UNCHANGED thread
    /\ Goto(c, "idle")
    /\ UNCHANGED <<serverVars, lockVars, ownStop, opened, op, arg, todo, copied>>

\* removeService stops the service with the table locked.
RemoveLock(c) ==
    /\ At(c, "begin") /\ op[c] = "remove" /\ writer = None
    /\ IF arg[c] \in Present
       THEN /\ tasksMutex[arg[c]] = None
            /\ tasksMutex' = [tasksMutex EXCEPT ![arg[c]] = c]
            /\ writer' = c
            /\ RaiseOwnStop(arg[c])
            /\ Goto(c, "joinRemoved")
       ELSE Goto(c, "idle") /\ UNCHANGED <<tasksMutex, writer, ownStop>>
    /\ UNCHANGED <<serverVars, opener, starter, thread, opened, op, arg, todo, copied>>

JoinRemoved(c) ==
    /\ At(c, "joinRemoved")
    /\ Joined(arg[c])
    /\ tasksMutex' = [tasksMutex EXCEPT ![arg[c]] = None]
    /\ \E i \in DOMAIN mServices :
          mServices[i] = arg[c] /\ mServices' = RemoveAt(mServices, i)
    /\ writer' = None
    /\ Goto(c, "idle")
    /\ UNCHANGED <<mOpened, mStarted, mServerThreadsStopFlag, mJoinFunctors, opener, starter,
                   ownStop, opened, op, arg, todo, copied>>

-----------------------------------------------------------------------------
(* waitForStartEvent() and waitForStopEvent().                              *)

Wait(c) ==
    /\ At(c, "begin") /\ op[c] \in {"waitStart", "waitStop"} /\ starter = None
    /\ Goto(c, IF mStarted <=> op[c] = "waitStop" THEN "waiting" ELSE "idle")
    /\ UNCHANGED <<serverVars, lockVars, serviceVars, op, arg, todo, copied>>

-----------------------------------------------------------------------------
(* The internal threads.                                                    *)

\* A pool thread leaves its loop when the server stops, or when its task says
\* that the service's own flag is up.
ThreadEnds(s) ==
    /\ thread[s] = "running"
    /\ mServerThreadsStopFlag \/ s \in ownStop
    /\ thread' = [thread EXCEPT ![s] = "ended"]
    /\ UNCHANGED <<serverVars, lockVars, ownStop, opened, callVars>>

Step(c) ==
    \/ OpenServer(c)
    \/ StartLock(c) \/ StartCopy(c) \/ Spawn(c) \/ StartDone(c) \/ RunPush(c) \/ RunEnds(c)
    \/ StopLock(c) \/ StopCopy(c) \/ StopService(c) \/ JoinService(c) \/ AllStopped(c)
    \/ JoinOthers(c) \/ JoinThrows(c) \/ NotifyStop(c)
    \/ CloseLock(c) \/ CloseAll(c)
    \/ AddPush(c) \/ Added(c) \/ AddLaunch(c) \/ Wait(c)
    \/ RemoveLock(c) \/ JoinRemoved(c)

Next ==
    \/ \E c \in Callers : Call(c) \/ Step(c)
    \/ \E s \in Services : ThreadEnds(s)

Spec == Init /\ [][Next]_vars

\* Threads run, and a mutex that is free again and again is granted at last.
FairSpec ==
    /\ Spec
    /\ \A c \in Callers : SF_vars(Step(c))
    /\ \A s \in Services : WF_vars(ThreadEnds(s))

-----------------------------------------------------------------------------
(* Properties.                                                              *)

\* A server that runs is open, whatever calls of start, open, stop and close
\* race: the transports' threads use what onServerOpen made.
StartedIsOpen == mStarted => mOpened

\* Between a stop and the next start no internal thread runs: stop() joins
\* threads that addService launches while it works, too.
QuietWhenStopped ==
    ~mStarted /\ starter = None => \A s \in Services : thread[s] # "running"

\* While the server runs every service in the table has its thread, unless
\* the call that adds the service has yet to launch it.
ServicesRun ==
    mStarted /\ starter = None =>
        \A s \in Present :
            \/ thread[s] = "running"
            \/ \E c \in Callers : pc[c] \in {"added", "launchAdded"} /\ arg[c] = s

\* Nobody waits for an event that has been.
NoLostWakeUp ==
    \A c \in Callers : At(c, "waiting") => (mStarted <=> op[c] = "waitStop")

\* The parts of the inductive invariant.

StartSteps == {"open", "copyStart", "spawn"}
StopSteps == {"copyStop", "stopService", "joinService", "joinOthers", "notifyStop"}

\* Which calls are at which steps, and with which arguments.
StepsOfCalls ==
    \A c \in Callers :
        /\ pc[c] \in StartSteps \cup {"push"} => op[c] \in StartOps
        /\ pc[c] \in StopSteps => op[c] \in {"stop", "close"}
        /\ pc[c] \in {"lockStop", "closeAll"} => op[c] = "close"
        /\ pc[c] \in {"added", "launchAdded"} => op[c] = "add" /\ arg[c] \in Services
        /\ pc[c] \in {"begin", "joinRemoved"} /\ op[c] \in {"add", "remove"} => arg[c] \in Services
        /\ At(c, "joinRemoved") => op[c] = "remove"
        /\ At(c, "joinService") => todo[c] # <<>>

\* Who is in the mutexes.
Owners ==
    \A c \in Callers :
        /\ starter = c <=> pc[c] \in StartSteps \cup StopSteps
        /\ opener = c <=> op[c] = "close" /\ pc[c] \in StopSteps \cup {"lockStop", "closeAll"}

\* What the calls in the mutexes have already seen to.
Phases ==
    \A c \in Callers :
        /\ pc[c] \in StartSteps => ~mStarted
        /\ pc[c] \in {"copyStart", "spawn"} => mOpened
        /\ pc[c] \in StopSteps => mStarted
        /\ At(c, "closeAll") =>
              /\ ~mStarted
              /\ \A d \in Callers : pc[d] \notin {"copyStart", "spawn"}

\* Where the internal threads that run are known, when none is removed.
RunningThreads == {s \in Services : thread[s] = "running"}
ThreadsKnown ==
    /\ RunningThreads \subseteq Present
    /\ RunningThreads # {} => mStarted \/ \E c \in Callers : At(c, "spawn")
    /\ \A c \in Callers :
          /\ At(c, "spawn") => ToSet(todo[c]) \subseteq Present
          /\ pc[c] \in {"stopService", "joinService"} => RunningThreads \subseteq ToSet(todo[c])
          /\ pc[c] \in {"joinOthers", "notifyStop"} => RunningThreads = {}
          /\ pc[c] \in {"added", "launchAdded"} => arg[c] \in Present
          /\ op[c] # "remove"

\* A caller that waits is in one of the two waits.
WaitersKnown == \A c \in Callers : At(c, "waiting") => op[c] \in {"waitStart", "waitStop"}

\* The services that callers have put into the table and not yet launched.
PendingAdds(steps) == {s \in Services : \E c \in Callers : pc[c] \in steps /\ arg[c] = s}
LiveThreads == {s \in Services : thread[s] \in {"running", "ended"}}

\* What a call of stop() has seen to, when services are only added and no
\* thread of the application is a server thread.
StopsKnown ==
    /\ mJoinFunctors = {} /\ LiveThreads \subseteq Present
    /\ \A c \in Callers :
          /\ pc[c] \notin {"push", "cycling"} /\ op[c] \notin {"remove", "runHere", "runHereJoined"}
          /\ pc[c] \in {"added", "launchAdded"} => arg[c] \in Present
          /\ pc[c] \in {"stopService", "joinService"} =>
                LiveThreads \subseteq ToSet(todo[c]) /\ ToSet(todo[c]) \subseteq ToSet(copied[c])
          /\ pc[c] \in {"joinOthers", "notifyStop"} => LiveThreads = {}
          /\ pc[c] \in StopSteps \ {"copyStop"} => ownStop \subseteq ToSet(copied[c])
    /\ starter = None \/ pc[starter] \notin StopSteps =>
          ~mServerThreadsStopFlag /\ \A s \in Services : thread[s] # "ended"
    /\ starter = None \/ pc[starter] \notin StopSteps \ {"copyStop"} => ownStop = {}

\* The services that have no thread, and why.
LaunchesKnown ==
    /\ \A s \in Present : thread[s] = "absent" => s \in PendingAdds({"added"})
    /\ \A c \in Callers : At(c, "spawn") =>
          Present \subseteq RunningThreads \cup ToSet(todo[c]) \cup PendingAdds({"added", "launchAdded"})
    /\ mStarted /\ starter = None =>
          Present \subseteq RunningThreads \cup PendingAdds({"added", "launchAdded"})

OpenInv == TypeOK /\ StepsOfCalls /\ Owners /\ Phases /\ StartedIsOpen

QuietInv == OpenInv /\ ThreadsKnown /\ QuietWhenStopped

\* A service's threads run after it has been told that the server opens.
ThreadsAfterOpen == \A s \in Services : thread[s] = "running" => s \in opened

\* A pool that only the server's flag can stop is stopped with the flag up.
StoppedWithFlag ==
    [][\A s \in Services \ OwnFlag :
          tasksMutex[s] = None /\ tasksMutex'[s] # None /\ thread[s] = "running"
             => mServerThreadsStopFlag]_vars

\* No call throws.
NoThrow == \A c \in Callers : ~At(c, "threw")

\* A thread that cycles in startInThisThread is joined by stop().
RunnerJoined == \A c \in Callers : At(c, "cycling") => mStarted

\* start(), in its open(), and close(), in its stop(), wait for each other's
\* mutex.
LockedUp == \E c, d \in Callers : At(c, "open") /\ opener = d /\ At(d, "lockStop")

\* Every call comes back, unless start() and close() have locked each other up.
CallsReturn == \A c \in Callers : At(c, "begin") ~> At(c, "idle") \/ LockedUp

\* start() opens the server and close() stops it.
NoLockUp == ~LockedUp
=============================================================================
