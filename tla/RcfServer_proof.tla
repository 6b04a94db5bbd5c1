-------------------------- MODULE RcfServer_proof --------------------------
(***************************************************************************)
(* A started server is open and no wake-up is lost, for any number of       *)
(* threads that call any of its operations, and any services; if no         *)
(* service is removed, no internal thread runs between a stop and the next  *)
(* start; and if services are only added and their flags are reset, each    *)
(* of them has its thread while the server runs.                            *)
(***************************************************************************)
EXTENDS RcfServer, SequenceTheorems, TLAPS

-----------------------------------------------------------------------------
(* Types.                                                                   *)

\* What is left of a sequence of services is a sequence of services.
LEMMA SeqOps ==
    ASSUME NEW q \in Seq(Services)
    PROVE  /\ q # <<>> => Head(q) \in Services /\ Tail(q) \in Seq(Services)
           /\ q # <<>> => Last(q) \in Services /\ Front(q) \in Seq(Services)
           /\ \A s \in Services : Append(q, s) \in Seq(Services)
           /\ \A i \in DOMAIN q : RemoveAt(q, i) \in Seq(Services)
<1>1. ASSUME q # <<>>
      PROVE  Last(q) \in Services /\ Front(q) \in Seq(Services)
  <2>1. Len(q) \in Nat /\ Len(q) >= 1
    BY <1>1, EmptySeq, LenProperties
  <2>2. Last(q) \in Services
    BY <2>1, ElementOfSeq DEF Last
  <2>3. Front(q) \in Seq(Services)
    BY <2>1 DEF Front
  <2>. QED  BY <2>2, <2>3
<1>2. ASSUME NEW i \in DOMAIN q
      PROVE  RemoveAt(q, i) \in Seq(Services)
  <2>1. i \in 1..Len(q) /\ Len(q) \in Nat
    BY LenProperties
  <2>2. SubSeq(q, 1, i - 1) \in Seq(Services) /\ SubSeq(q, i + 1, Len(q)) \in Seq(Services)
    BY <2>1
  <2>. QED  BY <2>2, ConcatProperties DEF RemoveAt
<1>. QED  BY <1>1, <1>2, HeadTailProperties, AppendProperties

\* The services that a sequence holds.
LEMMA SetOfServices ==
    ASSUME NEW q \in Seq(Services)
    PROVE  ToSet(q) \subseteq Services
BY ElementOfSeq, LenProperties DEF ToSet

\* A call that begins, and the waits.
LEMMA TypeCall ==
    ASSUME TypeOK, NEW c \in Callers, Call(c) \/ Wait(c)
    PROVE  TypeOK'
<1>1. CASE Call(c)
  <2>1. PICK o \in Ops, s \in Services :
           /\ op' = [op EXCEPT ![c] = o]
           /\ arg' = [arg EXCEPT ![c] = IF o \in {"add", "remove"} THEN s ELSE None]
    BY <1>1 DEF Call
  <2>2. op' \in [Callers -> AllOps \cup {None}]
    BY <2>1, OpsAssumption DEF TypeOK
  <2>3. arg' \in [Callers -> Services \cup {None}]
    BY <2>1 DEF TypeOK
  <2>4. pc' \in [Callers -> Steps]
    BY <1>1 DEF TypeOK, Call, Goto, Steps
  <2>. QED
    BY <1>1, <2>2, <2>3, <2>4 DEF TypeOK, Call, serverVars, lockVars, serviceVars
<1>2. CASE Wait(c)
  BY <1>2 DEF TypeOK, Wait, Goto, Steps, serverVars, lockVars, serviceVars
<1>. QED  BY <1>1, <1>2

\* Steps of open and start keep the types.
LEMMA TypeStart ==
    ASSUME TypeOK, NEW c \in Callers,
           \/ OpenServer(c) \/ StartLock(c) \/ StartCopy(c) \/ Spawn(c)
           \/ StartDone(c) \/ RunPush(c) \/ RunEnds(c)
    PROVE  TypeOK'
<1>1. CASE OpenServer(c)
  <2>1. opened' \subseteq Services
    BY <1>1, SetOfServices DEF TypeOK, OpenServer, Present
  <2>2. pc' \in [Callers -> Steps]
    BY <1>1 DEF TypeOK, OpenServer, Goto, Steps
  <2>. QED  BY <1>1, <2>1, <2>2 DEF TypeOK, OpenServer, lockVars
<1>2. CASE StartLock(c)
  BY <1>2 DEF TypeOK, StartLock, Goto, Steps, serviceVars
<1>3. CASE StartCopy(c)
  <2>1. todo' \in [Callers -> Seq(Services)]
    BY <1>3, EmptySeq DEF TypeOK, StartCopy
  <2>. QED
    BY <1>3, <2>1 DEF TypeOK, StartCopy, Goto, Steps, serverVars, lockVars, serviceVars
<1>4. CASE Spawn(c)
  <2>1. Tail(todo[c]) \in Seq(Services) /\ Head(todo[c]) \in Services
    BY <1>4, SeqOps DEF TypeOK, Spawn
  <2>. QED  BY <1>4, <2>1 DEF TypeOK, Spawn, Launch, serverVars, lockVars
<1>5. CASE StartDone(c)
  BY <1>5 DEF TypeOK, StartDone, GotoAndWake, Steps, serviceVars
<1>6. CASE RunPush(c)
  BY <1>6 DEF TypeOK, RunPush, Goto, Steps, lockVars, serviceVars
<1>7. CASE RunEnds(c)
  BY <1>7 DEF TypeOK, RunEnds, Goto, Steps, serverVars, lockVars, serviceVars
<1>. QED  BY <1>1, <1>2, <1>3, <1>4, <1>5, <1>6, <1>7

\* Steps of stop and close keep the types.
LEMMA TypeStop ==
    ASSUME TypeOK, StepsOfCalls, NEW c \in Callers,
           \/ StopLock(c) \/ StopCopy(c) \/ StopService(c) \/ JoinService(c)
           \/ AllStopped(c) \/ JoinOthers(c) \/ JoinThrows(c) \/ NotifyStop(c)
           \/ CloseLock(c) \/ CloseAll(c)
    PROVE  TypeOK'
<1>1. CASE StopLock(c)
  BY <1>1 DEF TypeOK, StopLock, AfterStop, Goto, Steps, serviceVars
<1>2. CASE StopCopy(c)
  BY <1>2 DEF TypeOK, StopCopy, Goto, Steps, serverVars, lockVars, serviceVars
<1>3. CASE StopService(c)
  <2>1. Last(todo[c]) \in Services
    BY <1>3, SeqOps DEF TypeOK, StopService
  <2>2. ownStop' \subseteq OwnFlag
    BY <1>3 DEF TypeOK, StopService, RaiseOwnStop
  <2>. QED
    BY <1>3, <2>1, <2>2 DEF TypeOK, StopService, Goto, Steps, serverVars
<1>4. CASE JoinService(c)
  <2>1. Last(todo[c]) \in Services /\ Front(todo[c]) \in Seq(Services)
    BY <1>4, SeqOps DEF TypeOK, JoinService, StepsOfCalls
  <2>2. thread' \in [Services -> {"absent", "none", "running", "ended"}]
    BY <1>4, <2>1 DEF TypeOK, JoinService, Joined
  <2>. QED
    BY <1>4, <2>1, <2>2 DEF TypeOK, JoinService, Goto, Steps, serverVars
<1>5. CASE AllStopped(c)
  BY <1>5 DEF TypeOK, AllStopped, Goto, Steps, serverVars, lockVars, serviceVars
<1>6. CASE JoinOthers(c)
  BY <1>6 DEF TypeOK, JoinOthers, Goto, Steps, lockVars, serviceVars
<1>7. CASE JoinThrows(c)
  BY <1>7, EmptySeq DEF TypeOK, JoinThrows, Goto, Steps, serverVars, serviceVars
<1>8. CASE NotifyStop(c)
  BY <1>8, EmptySeq DEF TypeOK, NotifyStop, GotoAndWake, AfterStop, Steps
<1>9. CASE CloseLock(c) \/ CloseAll(c)
  BY <1>9 DEF TypeOK, CloseLock, CloseAll, Goto, Steps, serverVars, serviceVars
<1>. QED  BY <1>1, <1>2, <1>3, <1>4, <1>5, <1>6, <1>7, <1>8, <1>9

\* Steps of addService and removeService keep the types.
LEMMA TypeServices ==
    ASSUME TypeOK, StepsOfCalls, NEW c \in Callers,
           \/ AddPush(c) \/ Added(c) \/ AddLaunch(c) \/ RemoveLock(c) \/ JoinRemoved(c)
    PROVE  TypeOK'
<1>1. CASE AddPush(c)
  <2>1. arg[c] \in Services
    BY <1>1 DEF StepsOfCalls, AddPush, At
  <2>2. Append(mServices, arg[c]) \in Seq(Services)
    BY <2>1, AppendProperties DEF TypeOK
  <2>3. mServices' \in Seq(Services)
    BY <1>1, <2>2 DEF TypeOK, AddPush
  <2>. QED
    BY <1>1, <2>3 DEF TypeOK, AddPush, Goto, Steps, lockVars, serviceVars
<1>2. CASE Added(c)
  <2>1. thread' \in [Services -> {"absent", "none", "running", "ended"}]
    BY <1>2 DEF TypeOK, Added
  <2>. QED  BY <1>2, <2>1 DEF TypeOK, Added, Goto, Steps, serverVars, lockVars
<1>3. CASE AddLaunch(c)
  <2>1. thread' \in [Services -> {"absent", "none", "running", "ended"}]
    BY <1>3 DEF TypeOK, AddLaunch, Launch
  <2>. QED  BY <1>3, <2>1 DEF TypeOK, AddLaunch, Goto, Steps, serverVars, lockVars
<1>4. CASE RemoveLock(c)
  <2>1. ownStop' \subseteq OwnFlag
    BY <1>4 DEF TypeOK, RemoveLock, RaiseOwnStop
  <2>. QED  BY <1>4, <2>1 DEF TypeOK, RemoveLock, Goto, Steps, serverVars
<1>5. CASE JoinRemoved(c)
  <2>1. mServices' \in Seq(Services)
    BY <1>5, SeqOps DEF TypeOK, JoinRemoved
  <2>2. thread' \in [Services -> {"absent", "none", "running", "ended"}]
    BY <1>5 DEF TypeOK, JoinRemoved, Joined
  <2>. QED  BY <1>5, <2>1, <2>2 DEF TypeOK, JoinRemoved, Goto, Steps
<1>. QED  BY <1>1, <1>2, <1>3, <1>4, <1>5

-----------------------------------------------------------------------------
(* The invariant.                                                           *)

\* Every step of a call keeps the types.
LEMMA TypeStep ==
    ASSUME TypeOK, StepsOfCalls, NEW c \in Callers, Call(c) \/ Step(c)
    PROVE  TypeOK'
BY TypeCall, TypeStart, TypeStop, TypeServices DEF Step

\* A caller's step is one that its call has.
LEMMA StepsStep ==
    ASSUME TypeOK, StepsOfCalls, Owners, NEW c \in Callers, Call(c) \/ Step(c)
    PROVE  StepsOfCalls'
<1>. USE DEF TypeOK, StepsOfCalls, StartSteps, StopSteps, StartOps, At, Goto
<1>1. CASE Call(c)
  BY <1>1 DEF Call
<1>2. CASE OpenServer(c) \/ StartLock(c) \/ StartCopy(c) \/ RunPush(c) \/ RunEnds(c)
  BY <1>2 DEF OpenServer, StartLock, StartCopy, RunPush, RunEnds
<1>3. CASE Spawn(c)
  BY <1>3 DEF Spawn
<1>4. CASE StartDone(c)
  BY <1>4 DEF StartDone, GotoAndWake
<1>5. CASE StopLock(c) \/ StopCopy(c) \/ AllStopped(c) \/ JoinOthers(c) \/ JoinThrows(c)
  BY <1>5 DEF StopLock, StopCopy, AllStopped, JoinOthers, JoinThrows, AfterStop
<1>6. CASE StopService(c)
  BY <1>6 DEF StopService
<1>7. CASE JoinService(c)
  BY <1>7 DEF JoinService
<1>8. CASE NotifyStop(c)
  BY <1>8 DEF NotifyStop, GotoAndWake, AfterStop
<1>9. CASE CloseLock(c) \/ CloseAll(c) \/ Wait(c)
  BY <1>9 DEF CloseLock, CloseAll, Wait
<1>10. CASE AddPush(c) \/ Added(c) \/ AddLaunch(c)
  BY <1>10 DEF AddPush, Added, AddLaunch
<1>11. CASE RemoveLock(c) \/ JoinRemoved(c)
  BY <1>11 DEF RemoveLock, JoinRemoved
<1>. QED
  BY <1>1, <1>2, <1>3, <1>4, <1>5, <1>6, <1>7, <1>8, <1>9, <1>10, <1>11 DEF Step

\* The owners of the two mutexes are known by their steps.
LEMMA OwnersStep ==
    ASSUME TypeOK, StepsOfCalls, Owners, NEW c \in Callers, Call(c) \/ Step(c)
    PROVE  Owners'
<1>. USE CallersAssumption
     DEF TypeOK, StepsOfCalls, Owners, StartSteps, StopSteps, StartOps, At, Goto
<1>1. CASE Call(c)
  BY <1>1 DEF Call, lockVars
<1>2. CASE OpenServer(c) \/ StartLock(c) \/ StartCopy(c) \/ RunPush(c) \/ RunEnds(c)
  BY <1>2 DEF OpenServer, StartLock, StartCopy, RunPush, RunEnds, lockVars
<1>3. CASE Spawn(c)
  BY <1>3 DEF Spawn, lockVars
<1>4. CASE StartDone(c)
  BY <1>4 DEF StartDone, GotoAndWake
<1>5. CASE StopLock(c)
  BY <1>5 DEF StopLock, AfterStop
<1>6. CASE StopCopy(c) \/ AllStopped(c) \/ JoinOthers(c)
  BY <1>6 DEF StopCopy, AllStopped, JoinOthers, lockVars
<1>7. CASE JoinThrows(c)
  BY <1>7 DEF JoinThrows
<1>8. CASE StopService(c) \/ JoinService(c)
  BY <1>8 DEF StopService, JoinService
<1>9. CASE NotifyStop(c)
  BY <1>9 DEF NotifyStop, GotoAndWake, AfterStop
<1>10. CASE CloseLock(c) \/ CloseAll(c)
  <2>1. CASE CloseLock(c)
    BY <2>1 DEF CloseLock
  <2>2. CASE CloseAll(c)
    BY <2>2 DEF CloseAll
  <2>. QED  BY <1>10, <2>1, <2>2
<1>11. CASE AddPush(c) \/ Added(c) \/ AddLaunch(c) \/ Wait(c)
  BY <1>11 DEF AddPush, Added, AddLaunch, Wait, lockVars
<1>12. CASE RemoveLock(c) \/ JoinRemoved(c)
  <2>1. /\ (At(c, "begin") /\ op[c] = "remove") \/ At(c, "joinRemoved")
        /\ Goto(c, "joinRemoved") \/ Goto(c, "idle")
        /\ UNCHANGED <<opener, starter, op>>
    BY <1>12 DEF RemoveLock, JoinRemoved
  <2>. QED  BY <2>1
<1>. QED
  BY <1>1, <1>2, <1>3, <1>4, <1>5, <1>6, <1>7, <1>8, <1>9, <1>10, <1>11, <1>12 DEF Step

\* What a call in a mutex has seen to stays so, and a started server open.
LEMMA PhasesStep ==
    ASSUME TypeOK, StepsOfCalls, Owners, Phases, StartedIsOpen,
           NEW c \in Callers, Call(c) \/ Step(c)
    PROVE  Phases' /\ StartedIsOpen'
<1>. USE CallersAssumption
     DEF TypeOK, StepsOfCalls, Owners, Phases, StartedIsOpen, StartSteps, StopSteps, At, Goto
<1>1. CASE Call(c) \/ Wait(c)
  BY <1>1 DEF Call, Wait, serverVars
<1>2. CASE OpenServer(c)
  BY <1>2 DEF OpenServer
<1>3. CASE StartLock(c)
  BY <1>3 DEF StartLock
<1>4. CASE StartCopy(c) \/ Spawn(c) \/ RunPush(c) \/ RunEnds(c)
  BY <1>4 DEF StartCopy, Spawn, RunPush, RunEnds, serverVars
<1>5. CASE StartDone(c)
  BY <1>5 DEF StartDone, GotoAndWake
<1>6. CASE StopLock(c)
  BY <1>6 DEF StopLock, AfterStop
<1>7. CASE StopCopy(c) \/ AllStopped(c) \/ JoinOthers(c) \/ JoinThrows(c)
  BY <1>7 DEF StopCopy, AllStopped, JoinOthers, JoinThrows, serverVars
<1>8. CASE StopService(c) \/ JoinService(c)
  BY <1>8 DEF StopService, JoinService, serverVars
<1>9. CASE NotifyStop(c)
  BY <1>9 DEF NotifyStop, GotoAndWake, AfterStop
<1>10. CASE CloseLock(c)
  BY <1>10 DEF CloseLock, serverVars
<1>11. CASE CloseAll(c)
  BY <1>11 DEF CloseAll
<1>12. CASE AddPush(c) \/ Added(c) \/ AddLaunch(c)
  BY <1>12 DEF AddPush, Added, AddLaunch, serverVars
<1>13. CASE RemoveLock(c) \/ JoinRemoved(c)
  BY <1>13 DEF RemoveLock, JoinRemoved, serverVars
<1>. QED
  BY <1>1, <1>2, <1>3, <1>4, <1>5, <1>6, <1>7, <1>8, <1>9, <1>10, <1>11, <1>12, <1>13 DEF Step

\* The server that the constructor leaves satisfies the invariant.
LEMMA OpenInvInit == Init => OpenInv
<1>. SUFFICES ASSUME Init PROVE OpenInv
  OBVIOUS
<1>1. TypeOK
  BY InitialAssumption, EmptySeq DEF Init, TypeOK, Steps
<1>2. StepsOfCalls /\ Phases /\ StartedIsOpen
  BY DEF Init, StepsOfCalls, Phases, StartedIsOpen, StartSteps, StopSteps, At
<1>3. Owners
  BY CallersAssumption DEF Init, Owners, StartSteps, StopSteps
<1>. QED  BY <1>1, <1>2, <1>3 DEF OpenInv

\* Every step keeps the invariant.
LEMMA OpenInvNext == OpenInv /\ [Next]_vars => OpenInv'
<1>. SUFFICES ASSUME OpenInv, [Next]_vars
              PROVE  OpenInv'
  OBVIOUS
<1>. USE DEF OpenInv
<1>1. ASSUME NEW c \in Callers, Call(c) \/ Step(c)
      PROVE  OpenInv'
  BY <1>1, TypeStep, StepsStep, OwnersStep, PhasesStep
<1>2. ASSUME NEW s \in Services, ThreadEnds(s)
      PROVE  OpenInv'
  BY <1>2 DEF ThreadEnds, TypeOK, StepsOfCalls, Owners, Phases, StartedIsOpen, At,
              serverVars, lockVars, callVars
<1>3. CASE UNCHANGED vars
  BY <1>3 DEF TypeOK, StepsOfCalls, Owners, Phases, StartedIsOpen, At,
              vars, serverVars, lockVars, serviceVars, callVars
<1>. QED  BY <1>1, <1>2, <1>3 DEF Next

\* The invariant of a server, whatever is called on it.
THEOREM OpenInvariance == Spec => []OpenInv
BY OpenInvInit, OpenInvNext, PTL DEF Spec

\* A server that runs is open, however its threads call open, start, stop,
\* close, addService, removeService and startInThisThread.
THEOREM StartedIsOpenHolds == Spec => []StartedIsOpen
<1>1. OpenInv => StartedIsOpen
  BY DEF OpenInv
<1>. QED  BY OpenInvariance, <1>1, PTL
-----------------------------------------------------------------------------
(* Internal threads, when no service is removed.                            *)

\* The services of a sequence that grows at its end or shrinks at either end.
LEMMA SetOps ==
    ASSUME NEW q \in Seq(Services)
    PROVE  /\ q = <<>> => ToSet(q) = {}
           /\ q # <<>> => Head(q) \in ToSet(q) /\ ToSet(Tail(q)) \subseteq ToSet(q)
           /\ q # <<>> => ToSet(q) \subseteq ToSet(Tail(q)) \cup {Head(q)}
           /\ q # <<>> => ToSet(q) \subseteq ToSet(Front(q)) \cup {Last(q)}
           /\ q # <<>> => ToSet(Front(q)) \subseteq ToSet(q)
           /\ \A s \in Services : ToSet(Append(q, s)) = ToSet(q) \cup {s}
<1>1. ASSUME q = <<>>
      PROVE  ToSet(q) = {}
  BY <1>1 DEF ToSet
<1>2. ASSUME q # <<>>
      PROVE  /\ Head(q) \in ToSet(q) /\ ToSet(Tail(q)) \subseteq ToSet(q)
             /\ ToSet(q) \subseteq ToSet(Tail(q)) \cup {Head(q)}
  <2>1. Len(q) \in Nat /\ Len(q) >= 1 /\ DOMAIN q = 1..Len(q)
    BY <1>2, EmptySeq, LenProperties
  <2>2. Head(q) \in ToSet(q)
    BY <2>1, HeadTailProperties DEF ToSet
  <2>3. Len(Tail(q)) = Len(q) - 1 /\ \A i \in 1..Len(Tail(q)) : Tail(q)[i] = q[i + 1]
    BY <1>2, HeadTailProperties
  <2>4. DOMAIN Tail(q) = 1..Len(Tail(q))
    BY <1>2, HeadTailProperties, LenProperties
  <2>5. ASSUME NEW i \in DOMAIN Tail(q)
        PROVE  i + 1 \in DOMAIN q /\ Tail(q)[i] = q[i + 1]
    BY <2>1, <2>3, <2>4
  <2>6. ToSet(Tail(q)) \subseteq ToSet(q)
    BY <2>5 DEF ToSet
  <2>7. ASSUME NEW i \in DOMAIN q
        PROVE  q[i] \in ToSet(Tail(q)) \cup {Head(q)}
    <3>1. CASE i = 1
      BY <3>1, HeadTailProperties
    <3>2. CASE i # 1
      <4>1. i - 1 \in DOMAIN Tail(q) /\ Tail(q)[i - 1] = q[(i - 1) + 1] /\ (i - 1) + 1 = i
        BY <2>1, <2>3, <2>4, <3>2
      <4>. QED  BY <4>1 DEF ToSet
    <3>. QED  BY <3>1, <3>2
  <2>. QED  BY <2>2, <2>6, <2>7 DEF ToSet
<1>3. ASSUME q # <<>>
      PROVE  /\ ToSet(q) \subseteq ToSet(Front(q)) \cup {Last(q)}
             /\ ToSet(Front(q)) \subseteq ToSet(q)
  <2>1. Len(q) \in Nat /\ Len(q) >= 1 /\ DOMAIN q = 1..Len(q)
    BY <1>3, EmptySeq, LenProperties
  <2>2. /\ Len(Front(q)) = Len(q) - 1
        /\ DOMAIN Front(q) = 1..Len(q) - 1
        /\ \A i \in 1..Len(q) - 1 : Front(q)[i] = q[i]
    BY <2>1 DEF Front
  <2>3. ASSUME NEW i \in DOMAIN q
        PROVE  q[i] \in ToSet(Front(q)) \cup {Last(q)}
    <3>1. CASE i = Len(q)
      BY <3>1 DEF Last
    <3>2. CASE i # Len(q)
      <4>1. i \in DOMAIN Front(q) /\ Front(q)[i] = q[i]
        BY <2>1, <2>2, <2>3, <3>2
      <4>. QED  BY <4>1 DEF ToSet
    <3>. QED  BY <3>1, <3>2
  <2>4. \A i \in DOMAIN Front(q) : i \in DOMAIN q /\ Front(q)[i] = q[i]
    BY <2>1, <2>2
  <2>. QED  BY <2>3, <2>4 DEF ToSet
<1>4. ASSUME NEW s \in Services
      PROVE  ToSet(Append(q, s)) = ToSet(q) \cup {s}
  <2>1. Len(q) \in Nat /\ DOMAIN q = 1..Len(q)
    BY LenProperties
  <2>2. /\ DOMAIN Append(q, s) = 1..Len(q) + 1
        /\ Append(q, s)[Len(q) + 1] = s
        /\ \A i \in 1..Len(q) : Append(q, s)[i] = q[i]
    BY <2>1, AppendProperties, LenProperties
  <2>3. ASSUME NEW i \in 1..Len(q) + 1
        PROVE  i \in 1..Len(q) \/ i = Len(q) + 1
    BY <2>1
  <2>4. \A i \in 1..Len(q) : i \in 1..Len(q) + 1
    BY <2>1
  <2>5. Len(q) + 1 \in 1..Len(q) + 1
    BY <2>1
  <2>. QED  BY <2>1, <2>2, <2>3, <2>4, <2>5 DEF ToSet
<1>. QED  BY <1>1, <1>2, <1>3, <1>4

\* No caller's step leaves a thread that a later stop() will not join.
LEMMA ThreadsStep ==
    ASSUME "remove" \notin Ops, OpenInv, ThreadsKnown, NEW c \in Callers, Call(c) \/ Step(c)
    PROVE  ThreadsKnown'
<1>. USE CallersAssumption
     DEF OpenInv, TypeOK, ThreadsKnown, RunningThreads, Present, At, Goto
<1>1. CASE Call(c)
  <2>1. /\ op'[c] # "remove" /\ \A d \in Callers \ {c} : op'[d] = op[d]
        /\ \A d \in Callers \ {c} : arg'[d] = arg[d]
    BY <1>1 DEF Call
  <2>. QED  BY <1>1, <2>1 DEF Call, serverVars, lockVars, serviceVars
<1>2. CASE OpenServer(c) \/ RunPush(c) \/ RunEnds(c) \/ Wait(c) \/ StartLock(c)
  BY <1>2 DEF OpenServer, RunPush, RunEnds, Wait, StartLock, serverVars, lockVars, serviceVars
<1>3. CASE StartCopy(c)
  <2>1. ToSet(todo'[c]) \subseteq Present
    BY <1>3, SetOps, EmptySeq DEF StartCopy
  <2>. QED  BY <1>3, <2>1 DEF StartCopy, serverVars, lockVars, serviceVars
<1>4. CASE Spawn(c)
  <2>1. /\ Head(todo[c]) \in Present /\ ToSet(Tail(todo[c])) \subseteq Present
        /\ Head(todo[c]) \in Services
    BY <1>4, SetOps, SeqOps DEF Spawn
  <2>2. RunningThreads' \subseteq RunningThreads \cup {Head(todo[c])}
    BY <1>4, <2>1 DEF Spawn, Launch
  <2>3. starter = c
    BY <1>4 DEF Spawn, Owners, StartSteps
  <2>4. \A d \in Callers : pc[d] \notin StopSteps
    BY <1>4, <2>3 DEF Spawn, Owners, StopSteps
  <2>. QED  BY <1>4, <2>1, <2>2, <2>4 DEF Spawn, StopSteps, serverVars, lockVars
<1>5. CASE StartDone(c)
  BY <1>5 DEF StartDone, GotoAndWake, serviceVars
<1>6. CASE StopLock(c)
  BY <1>6 DEF StopLock, AfterStop, serviceVars
<1>7. CASE StopCopy(c)
  BY <1>7 DEF StopCopy, Phases, StopSteps, serverVars, lockVars, serviceVars
<1>8. CASE StopService(c)
  BY <1>8 DEF StopService, serverVars
<1>9. CASE JoinService(c)
  <2>1. Last(todo[c]) \in Services /\ ToSet(todo[c]) \subseteq ToSet(Front(todo[c])) \cup {Last(todo[c])}
    BY <1>9, SetOps, SeqOps DEF JoinService, StepsOfCalls
  <2>2. RunningThreads' = RunningThreads /\ Last(todo[c]) \notin RunningThreads
    BY <1>9, <2>1 DEF JoinService, Joined
  <2>3. RunningThreads' \subseteq ToSet(todo'[c])
    BY <1>9, <2>1, <2>2 DEF JoinService
  <2>. QED  BY <1>9, <2>2, <2>3 DEF JoinService, serverVars
<1>10. CASE AllStopped(c)
  <2>1. RunningThreads = {}
    BY <1>10, SetOps DEF AllStopped
  <2>. QED  BY <1>10, <2>1 DEF AllStopped, serverVars, lockVars, serviceVars
<1>11. CASE JoinOthers(c) \/ JoinThrows(c)
  BY <1>11 DEF JoinOthers, JoinThrows, serverVars, lockVars, serviceVars
<1>12. CASE NotifyStop(c)
  <2>1. RunningThreads = {} /\ RunningThreads' = {} /\ Present' = Present
    BY <1>12 DEF NotifyStop
  <2>2. UNCHANGED <<todo, arg, op>>
    BY <1>12 DEF NotifyStop
  <2>3. \A d \in Callers : pc'[d] = pc[d] \/ pc'[d] \in {"idle", "closeAll"}
    BY <1>12 DEF NotifyStop, GotoAndWake, AfterStop
  <2>. HIDE DEF RunningThreads, Present, OpenInv, TypeOK
  <2>. QED  BY <2>1, <2>2, <2>3
<1>13. CASE CloseLock(c) \/ CloseAll(c)
  <2>1. RunningThreads' = RunningThreads /\ Present' = Present /\ mStarted' = mStarted
    BY <1>13 DEF CloseLock, CloseAll, serverVars, serviceVars
  <2>2. pc[c] \in {"begin", "closeAll"} /\ UNCHANGED <<todo, arg, op>>
    BY <1>13 DEF CloseLock, CloseAll
  <2>3. Goto(c, "lockStop") \/ Goto(c, "closeAll") \/ Goto(c, "idle")
    BY <1>13 DEF CloseLock, CloseAll
  <2>4. \A d \in Callers : d = c \/ pc'[d] = pc[d]
    BY <2>3
  <2>5. pc'[c] \in {"lockStop", "closeAll", "idle"}
    BY <2>3
  <2>6. \A d \in Callers : At(d, "spawn") => pc'[d] = "spawn"
    BY <2>2, <2>4
  <2>. HIDE DEF RunningThreads, Present, OpenInv, TypeOK, Goto
  <2>. QED  BY <2>1, <2>2, <2>4, <2>5, <2>6
<1>14. CASE AddPush(c)
  <2>1. arg[c] \in Services
    BY <1>14 DEF AddPush, StepsOfCalls
  <2>2. ToSet(Append(mServices, arg[c])) = Present \cup {arg[c]}
    BY <2>1, SetOps
  <2>3. Present \subseteq Present' /\ arg[c] \in Present'
    BY <1>14, <2>2 DEF AddPush
  <2>. QED  BY <1>14, <2>3 DEF AddPush, lockVars, serviceVars
<1>15. CASE Added(c)
  <2>1. RunningThreads' = RunningThreads
    BY <1>15 DEF Added
  <2>. QED  BY <1>15, <2>1 DEF Added, serverVars, lockVars
<1>16. CASE AddLaunch(c)
  <2>1. RunningThreads' \subseteq RunningThreads \cup {arg[c]} /\ arg[c] \in Present
    BY <1>16 DEF AddLaunch, Launch
  <2>2. ~mStarted => RunningThreads' = RunningThreads
    BY <1>16 DEF AddLaunch
  <2>3. \A d \in Callers : pc[d] \notin StopSteps \cup {"spawn"}
    BY <1>16 DEF AddLaunch, Owners, StopSteps, StartSteps
  <2>. QED  BY <1>16, <2>1, <2>2, <2>3 DEF AddLaunch, StopSteps, serverVars, lockVars
<1>17. CASE RemoveLock(c) \/ JoinRemoved(c)
  BY <1>17 DEF RemoveLock, JoinRemoved, StepsOfCalls
<1>. QED
  BY <1>1, <1>2, <1>3, <1>4, <1>5, <1>6, <1>7, <1>8, <1>9, <1>10, <1>11, <1>12, <1>13,
     <1>14, <1>15, <1>16, <1>17 DEF Step

\* Where the running threads are known, a stopped server has none.
LEMMA QuietFromThreads == OpenInv /\ ThreadsKnown => QuietWhenStopped
BY CallersAssumption
   DEF OpenInv, ThreadsKnown, QuietWhenStopped, RunningThreads, Owners, StartSteps, At

\* The invariant of a server none of whose services is removed.
THEOREM QuietInvariance ==
    ASSUME "remove" \notin Ops
    PROVE  Spec => []QuietInv
<1>1. Init => OpenInv /\ ThreadsKnown
  <2>1. Init => ThreadsKnown
    <3>. SUFFICES ASSUME Init PROVE ThreadsKnown
      OBVIOUS
    <3>1. RunningThreads = {}
      BY DEF Init, RunningThreads
    <3>. QED  BY <3>1 DEF Init, ThreadsKnown, At, None
  <2>. QED  BY <2>1, OpenInvInit
<1>2. OpenInv /\ ThreadsKnown /\ [Next]_vars => ThreadsKnown'
  <2>. SUFFICES ASSUME OpenInv, ThreadsKnown, [Next]_vars
                PROVE  ThreadsKnown'
    OBVIOUS
  <2>1. ASSUME NEW c \in Callers, Call(c) \/ Step(c)
        PROVE  ThreadsKnown'
    BY <2>1, ThreadsStep
  <2>2. ASSUME NEW s \in Services, ThreadEnds(s)
        PROVE  ThreadsKnown'
    <3>1. RunningThreads' \subseteq RunningThreads
      BY <2>2 DEF ThreadEnds, RunningThreads, OpenInv, TypeOK
    <3>. QED
      BY <2>2, <3>1 DEF ThreadEnds, ThreadsKnown, Present, At, serverVars, callVars
  <2>3. CASE UNCHANGED vars
    BY <2>3 DEF ThreadsKnown, RunningThreads, Present, At, vars, serverVars, serviceVars, callVars
  <2>. QED  BY <2>1, <2>2, <2>3 DEF Next
<1>3. OpenInv /\ ThreadsKnown => QuietInv
  BY QuietFromThreads DEF QuietInv
<1>. QED  BY <1>1, <1>2, <1>3, OpenInvNext, PTL DEF Spec

\* If services are only added, no internal thread runs from the end of a
\* stop() to the next start(), whichever calls race with it.
THEOREM QuietWhenStoppedHolds ==
    ASSUME "remove" \notin Ops
    PROVE  Spec => []QuietWhenStopped
<1>1. QuietInv => QuietWhenStopped
  BY DEF QuietInv
<1>. QED  BY QuietInvariance, <1>1, PTL

-----------------------------------------------------------------------------
(* The start and stop events.                                               *)

\* A caller waits for an event that is still to come, or is woken.
LEMMA WaitStep ==
    ASSUME OpenInv, WaitersKnown, NoLostWakeUp, NEW c \in Callers, Call(c) \/ Step(c)
    PROVE  WaitersKnown' /\ NoLostWakeUp'
<1>. USE DEF OpenInv, TypeOK, Phases, StartSteps, StopSteps, WaitersKnown, NoLostWakeUp, At, Goto
<1>1. CASE Call(c)
  BY <1>1 DEF Call, serverVars
<1>2. CASE OpenServer(c) \/ StartLock(c) \/ StartCopy(c) \/ RunPush(c) \/ RunEnds(c)
  BY <1>2 DEF OpenServer, StartLock, StartCopy, RunPush, RunEnds, serverVars
<1>3. CASE Spawn(c)
  BY <1>3 DEF Spawn, serverVars
<1>4. CASE StartDone(c)
  <2>1. ~mStarted /\ mStarted' /\ op' = op
    BY <1>4 DEF StartDone
  <2>2. \A d \in Callers : pc'[d] = "waiting" => pc[d] = "waiting" /\ op[d] # "waitStart"
    BY <1>4 DEF StartDone, GotoAndWake
  <2>. QED  BY <2>1, <2>2
<1>5. CASE StopLock(c) \/ StopCopy(c) \/ AllStopped(c) \/ JoinOthers(c) \/ JoinThrows(c)
  BY <1>5 DEF StopLock, StopCopy, AllStopped, JoinOthers, JoinThrows, AfterStop, serverVars
<1>6. CASE StopService(c) \/ JoinService(c)
  BY <1>6 DEF StopService, JoinService, serverVars
<1>7. CASE NotifyStop(c)
  <2>1. mStarted /\ ~mStarted' /\ op' = op
    BY <1>7 DEF NotifyStop
  <2>2. \A d \in Callers : pc'[d] = "waiting" => pc[d] = "waiting" /\ op[d] # "waitStop"
    BY <1>7 DEF NotifyStop, GotoAndWake, AfterStop
  <2>. QED  BY <2>1, <2>2
<1>8. CASE CloseLock(c) \/ CloseAll(c)
  BY <1>8 DEF CloseLock, CloseAll, serverVars
<1>9. CASE AddPush(c) \/ Added(c) \/ AddLaunch(c) \/ RemoveLock(c) \/ JoinRemoved(c)
  BY <1>9 DEF AddPush, Added, AddLaunch, RemoveLock, JoinRemoved, serverVars
<1>10. CASE Wait(c)
  BY <1>10 DEF Wait, serverVars
<1>. QED
  BY <1>1, <1>2, <1>3, <1>4, <1>5, <1>6, <1>7, <1>8, <1>9, <1>10 DEF Step

\* No wake-up of waitForStartEvent or waitForStopEvent is lost: a thread that
\* still waits waits for a change that is still to come.
THEOREM NoLostWakeUpHolds == Spec => []NoLostWakeUp
<1>. DEFINE WaitInv == OpenInv /\ WaitersKnown /\ NoLostWakeUp
<1>1. Init => WaitInv
  <2>1. Init => WaitersKnown /\ NoLostWakeUp
    BY DEF Init, WaitersKnown, NoLostWakeUp, At
  <2>. QED  BY <2>1, OpenInvInit
<1>2. WaitInv /\ [Next]_vars => WaitInv'
  <2>. SUFFICES ASSUME OpenInv, WaitersKnown, NoLostWakeUp, [Next]_vars
                PROVE  WaitersKnown' /\ NoLostWakeUp'
    BY OpenInvNext
  <2>1. ASSUME NEW c \in Callers, Call(c) \/ Step(c)
        PROVE  WaitersKnown' /\ NoLostWakeUp'
    BY <2>1, WaitStep
  <2>2. ASSUME NEW s \in Services, ThreadEnds(s)
        PROVE  WaitersKnown' /\ NoLostWakeUp'
    BY <2>2 DEF ThreadEnds, WaitersKnown, NoLostWakeUp, At, serverVars, callVars
  <2>3. CASE UNCHANGED vars
    BY <2>3 DEF WaitersKnown, NoLostWakeUp, At, vars, serverVars, callVars
  <2>. QED  BY <2>1, <2>2, <2>3 DEF Next
<1>3. WaitInv => NoLostWakeUp
  OBVIOUS
<1>. QED  BY <1>1, <1>2, <1>3, PTL DEF Spec

-----------------------------------------------------------------------------
(* The threads of the services of a server that runs, when services are     *)
(* only added and every stop functor is made ready again.                   *)

AddOnly == Ops \cap {"remove", "runHere", "runHereJoined"} = {} /\ Resets = OwnFlag

\* A step of start() or of stop() is one of the caller in mStartedMutex.
LEMMA StarterSteps ==
    ASSUME OpenInv, NEW c \in Callers
    PROVE  /\ pc[c] \in StartSteps \cup StopSteps => starter = c
           /\ starter = None => pc[c] \notin StartSteps \cup StopSteps
           /\ starter # c => pc[c] \notin StartSteps \cup StopSteps
BY CallersAssumption DEF OpenInv, Owners

\* A step of start() or of stop() leaves the additions that are under way.
LEMMA PendingKept ==
    ASSUME OpenInv, UNCHANGED arg, NEW c \in Callers, NEW steps,
           steps \subseteq {"added", "launchAdded"}, pc[c] \notin steps,
           \A d \in Callers : d = c \/ pc'[d] = pc[d] \/ pc[d] = "waiting"
    PROVE  PendingAdds(steps) \subseteq PendingAdds(steps)'
BY DEF PendingAdds

\* The steps of a call that neither starts nor stops services.
LEMMA StopsOther ==
    ASSUME AddOnly, OpenInv, StopsKnown, NEW c \in Callers,
           \/ Call(c) \/ OpenServer(c) \/ StartCopy(c) \/ CloseLock(c) \/ CloseAll(c)
           \/ AddPush(c) \/ Added(c) \/ Wait(c) \/ RunPush(c) \/ RunEnds(c)
           \/ RemoveLock(c) \/ JoinRemoved(c)
    PROVE  StopsKnown'
<1>. USE CallersAssumption
     DEF OpenInv, TypeOK, StopsKnown, LiveThreads, Present, StopSteps, StartSteps, At, Goto
<1>1. CASE Call(c)
  <2>1. /\ op'[c] \notin {"remove", "runHere", "runHereJoined"}
        /\ \A d \in Callers \ {c} : op'[d] = op[d]
        /\ \A d \in Callers \ {c} : arg'[d] = arg[d]
    BY <1>1 DEF Call, AddOnly
  <2>2. starter # c
    BY <1>1, StarterSteps DEF Call, Owners
  <2>3. UNCHANGED <<serverVars, lockVars, serviceVars, todo, copied>> /\ pc' = [pc EXCEPT ![c] = "begin"]
    BY <1>1 DEF Call
  <2>. QED  BY <2>1, <2>2, <2>3 DEF serverVars, lockVars, serviceVars
<1>2. CASE OpenServer(c)
  BY <1>2 DEF OpenServer, Owners, lockVars
<1>3. CASE StartCopy(c)
  BY <1>3 DEF StartCopy, Owners, serverVars, lockVars, serviceVars
<1>4. CASE CloseLock(c) \/ CloseAll(c)
  <2>1. /\ UNCHANGED <<mServices, mJoinFunctors, mServerThreadsStopFlag, starter, thread, ownStop>>
        /\ UNCHANGED <<op, arg, todo, copied>>
    BY <1>4 DEF CloseLock, CloseAll, serverVars, serviceVars
  <2>2. pc[c] \in {"begin", "closeAll"} /\ starter # c
    BY <1>4 DEF CloseLock, CloseAll, Owners
  <2>3. Goto(c, "lockStop") \/ Goto(c, "closeAll") \/ Goto(c, "idle")
    BY <1>4 DEF CloseLock, CloseAll
  <2>4. \A d \in Callers : d = c \/ pc'[d] = pc[d]
    BY <2>3
  <2>5. pc'[c] \in {"lockStop", "closeAll", "idle"}
    BY <2>3
  <2>. HIDE DEF LiveThreads, Goto
  <2>. QED  BY <2>1, <2>2, <2>4, <2>5 DEF LiveThreads
<1>5. CASE AddPush(c)
  <2>1. arg[c] \in Services
    BY <1>5 DEF AddPush, StepsOfCalls
  <2>2. ToSet(Append(mServices, arg[c])) = Present \cup {arg[c]}
    BY <2>1, SetOps
  <2>3. Present \subseteq Present' /\ arg[c] \in Present'
    BY <1>5, <2>2 DEF AddPush
  <2>4. /\ UNCHANGED <<mJoinFunctors, mServerThreadsStopFlag, starter, thread, ownStop>>
        /\ UNCHANGED <<op, arg, todo, copied>>
    BY <1>5 DEF AddPush, lockVars, serviceVars
  <2>5. pc[c] = "begin" /\ starter # c
    BY <1>5 DEF AddPush, Owners
  <2>6. \A d \in Callers : d = c \/ pc'[d] = pc[d]
    BY <1>5 DEF AddPush
  <2>7. pc'[c] \in {"added", "launchAdded"}
    BY <1>5 DEF AddPush
  <2>. HIDE DEF LiveThreads, Goto, Present
  <2>. QED  BY <2>3, <2>4, <2>5, <2>6, <2>7 DEF LiveThreads
<1>6. CASE Added(c)
  <2>1. LiveThreads' \subseteq LiveThreads
    BY <1>6 DEF Added
  <2>2. \A s \in Services : thread'[s] = "ended" => thread[s] = "ended"
    BY <1>6 DEF Added
  <2>3. ownStop' \subseteq ownStop
    BY <1>6 DEF Added
  <2>4. starter # c
    BY <1>6 DEF Added, Owners
  <2>5. UNCHANGED <<serverVars, lockVars, op, arg, todo, copied>> /\ pc' = [pc EXCEPT ![c] = "launchAdded"] /\ pc[c] = "added"
    BY <1>6 DEF Added
  <2>. HIDE DEF LiveThreads
  <2>. QED  BY <2>1, <2>2, <2>3, <2>4, <2>5 DEF serverVars, lockVars
<1>7. CASE Wait(c)
  BY <1>7 DEF Wait, Owners, serverVars, lockVars, serviceVars
<1>8. CASE RunPush(c) \/ RunEnds(c)
  BY <1>8 DEF RunPush, RunEnds
<1>9. CASE RemoveLock(c) \/ JoinRemoved(c)
  BY <1>9 DEF RemoveLock, JoinRemoved, StepsOfCalls
<1>. QED  BY <1>1, <1>2, <1>3, <1>4, <1>5, <1>6, <1>7, <1>8, <1>9

\* The steps that start services.
LEMMA StopsStart ==
    ASSUME AddOnly, OpenInv, StopsKnown, ThreadsKnown, NEW c \in Callers,
           \/ StartLock(c) \/ Spawn(c) \/ StartDone(c) \/ AddLaunch(c)
    PROVE  StopsKnown'
<1>. USE CallersAssumption
     DEF OpenInv, TypeOK, StopsKnown, LiveThreads, Present, StopSteps, StartSteps, At, Goto
<1>1. CASE StartLock(c)
  BY <1>1 DEF StartLock, Owners, serviceVars, StartOps
<1>2. CASE Spawn(c)
  <2>1. Head(todo[c]) \in Present /\ Head(todo[c]) \in Services
    BY <1>2, SetOps, SeqOps DEF Spawn, ThreadsKnown
  <2>2. LiveThreads' \subseteq LiveThreads \cup {Head(todo[c])}
    BY <1>2, <2>1 DEF Spawn, Launch
  <2>3. \A s \in Services : thread'[s] = "ended" => thread[s] = "ended"
    BY <1>2, <2>1 DEF Spawn, Launch
  <2>4. starter = c /\ \A d \in Callers : pc[d] \notin StopSteps
    BY <1>2 DEF Spawn, Owners
  <2>5. UNCHANGED <<serverVars, lockVars, ownStop, opened, pc, op, arg, copied>>
    BY <1>2 DEF Spawn
  <2>. HIDE DEF LiveThreads
  <2>. QED  BY <2>1, <2>2, <2>3, <2>4, <2>5 DEF serverVars, lockVars
<1>3. CASE StartDone(c)
  <2>1. starter = c /\ starter' = None /\ \A d \in Callers : pc[d] \notin StopSteps
    BY <1>3 DEF StartDone, Owners
  <2>2. op[c] = "start" /\ \A d \in Callers : pc'[d] = pc[d] \/ pc'[d] = "idle"
    BY <1>3 DEF StartDone, GotoAndWake, StepsOfCalls, StartOps
  <2>. QED  BY <1>3, <2>1, <2>2 DEF StartDone, serviceVars
<1>4. CASE AddLaunch(c)
  <2>1. arg[c] \in Present /\ arg[c] \in Services
    BY <1>4 DEF AddLaunch, StepsOfCalls
  <2>2. LiveThreads' \subseteq LiveThreads \cup {arg[c]}
    BY <1>4, <2>1 DEF AddLaunch, Launch
  <2>3. \A s \in Services : thread'[s] = "ended" => thread[s] = "ended"
    BY <1>4, <2>1 DEF AddLaunch, Launch
  <2>4. starter = None /\ \A d \in Callers : pc[d] \notin StopSteps
    BY <1>4 DEF AddLaunch, Owners
  <2>5. UNCHANGED <<serverVars, lockVars, ownStop, op, arg, todo, copied>> /\ pc' = [pc EXCEPT ![c] = "idle"]
    BY <1>4 DEF AddLaunch
  <2>. HIDE DEF LiveThreads
  <2>. QED  BY <2>1, <2>2, <2>3, <2>4, <2>5 DEF serverVars, lockVars
<1>. QED  BY <1>1, <1>2, <1>3, <1>4

\* The steps that stop services.
LEMMA StopsStop ==
    ASSUME AddOnly, OpenInv, StopsKnown, NEW c \in Callers,
           \/ StopLock(c) \/ StopCopy(c) \/ StopService(c) \/ JoinService(c)
           \/ AllStopped(c) \/ JoinOthers(c) \/ JoinThrows(c) \/ NotifyStop(c)
    PROVE  StopsKnown'
<1>. USE CallersAssumption
     DEF OpenInv, TypeOK, StopsKnown, LiveThreads, Present, StopSteps, StartSteps, At, Goto
<1>1. CASE StopLock(c)
  BY <1>1 DEF StopLock, AfterStop, Owners, serviceVars
<1>2. CASE StopCopy(c)
  BY <1>2 DEF StopCopy, Owners, serverVars, lockVars, serviceVars
<1>3. CASE StopService(c)
  <2>1. Last(todo[c]) \in ToSet(copied[c])
    <3>1. Len(todo[c]) \in DOMAIN todo[c]
      BY <1>3, EmptySeq, LenProperties DEF StopService
    <3>. QED  BY <1>3, <3>1 DEF StopService, Last, ToSet
  <2>2. ownStop' \subseteq ToSet(copied[c])
    BY <1>3, <2>1 DEF StopService, RaiseOwnStop
  <2>3. starter = c
    BY <1>3, StarterSteps DEF StopService
  <2>4. \A d \in Callers \ {c} : pc[d] \notin StopSteps
    BY <2>3 DEF Owners
  <2>5. /\ UNCHANGED <<serverVars, starter, thread, op, arg, todo, copied>>
        /\ pc' = [pc EXCEPT ![c] = "joinService"] /\ pc[c] = "stopService"
    BY <1>3 DEF StopService
  <2>. QED  BY <2>2, <2>3, <2>4, <2>5 DEF serverVars
<1>4. CASE JoinService(c)
  <2>1. /\ Last(todo[c]) \in Services
        /\ ToSet(todo[c]) \subseteq ToSet(Front(todo[c])) \cup {Last(todo[c])}
        /\ ToSet(Front(todo[c])) \subseteq ToSet(todo[c])
    BY <1>4, SetOps, SeqOps DEF JoinService, StepsOfCalls
  <2>2. LiveThreads' \subseteq LiveThreads \ {Last(todo[c])}
    BY <1>4, <2>1 DEF JoinService, Joined
  <2>3. \A s \in Services : thread'[s] = "ended" => thread[s] = "ended"
    BY <1>4, <2>1 DEF JoinService, Joined
  <2>4. starter = c /\ \A d \in Callers \ {c} : pc[d] \notin StopSteps
    BY <1>4 DEF JoinService, Owners
  <2>5. /\ UNCHANGED <<serverVars, starter, ownStop, op, arg, copied>>
        /\ pc' = [pc EXCEPT ![c] = "stopService"] /\ pc[c] = "joinService"
        /\ todo' = [todo EXCEPT ![c] = Front(@)]
    BY <1>4 DEF JoinService
  <2>. HIDE DEF LiveThreads
  <2>. QED  BY <2>1, <2>2, <2>3, <2>4, <2>5 DEF serverVars
<1>5. CASE AllStopped(c)
  <2>1. LiveThreads = {}
    BY <1>5, SetOps DEF AllStopped
  <2>. QED  BY <1>5, <2>1 DEF AllStopped, Owners, serverVars, lockVars, serviceVars
<1>6. CASE JoinOthers(c)
  BY <1>6 DEF JoinOthers, Owners, lockVars, serviceVars
<1>7. CASE JoinThrows(c)
  BY <1>7 DEF JoinThrows
<1>8. CASE NotifyStop(c)
  <2>1. starter = c /\ \A d \in Callers \ {c} : pc[d] \notin StopSteps
    BY <1>8 DEF NotifyStop, Owners
  <2>2. ownStop' = {} /\ LiveThreads' = {} /\ LiveThreads = {}
    BY <1>8 DEF NotifyStop, AddOnly
  <2>3. \A d \in Callers : pc'[d] = pc[d] \/ pc'[d] \in {"idle", "closeAll"}
    BY <1>8 DEF NotifyStop, GotoAndWake, AfterStop
  <2>4. pc'[c] \in {"idle", "closeAll"}
    BY <1>8 DEF NotifyStop, GotoAndWake, AfterStop
  <2>5. /\ ~mServerThreadsStopFlag' /\ starter' = None
        /\ UNCHANGED <<mServices, mJoinFunctors, op, arg, todo, thread>>
        /\ copied' = [copied EXCEPT ![c] = <<>>]
    BY <1>8 DEF NotifyStop
  <2>6. \A d \in Callers : pc'[d] \notin StopSteps
    BY <2>1, <2>3, <2>4
  <2>. QED  BY <2>2, <2>3, <2>5, <2>6
<1>. QED  BY <1>1, <1>2, <1>3, <1>4, <1>5, <1>6, <1>7, <1>8

\* A step that launches nothing, ends no addition and neither starts nor stops.
LEMMA LaunchesKept ==
    ASSUME OpenInv, LaunchesKnown, NEW c \in Callers,
           UNCHANGED <<mServices, thread, arg>>,
           \A d \in Callers : d = c \/ pc'[d] = pc[d] \/ pc[d] = "waiting",
           pc[c] \notin {"added", "launchAdded"},
           \A d \in Callers : pc'[d] = "spawn" => pc[d] = "spawn" /\ todo'[d] = todo[d],
           mStarted' /\ starter' = None => mStarted /\ starter = None
    PROVE  LaunchesKnown'
<1>1. PendingAdds({"added"}) \subseteq PendingAdds({"added"})'
  BY PendingKept
<1>2. PendingAdds({"added", "launchAdded"}) \subseteq PendingAdds({"added", "launchAdded"})'
  BY PendingKept
<1>. QED
  BY <1>1, <1>2 DEF LaunchesKnown, RunningThreads, Present, At

\* No caller's step leaves a service of a started server without its thread.
LEMMA LaunchesStep ==
    ASSUME AddOnly, OpenInv, StopsKnown, LaunchesKnown, NEW c \in Callers, Call(c) \/ Step(c)
    PROVE  LaunchesKnown'
<1>. DEFINE Adding == PendingAdds({"added", "launchAdded"})
            Pushing == PendingAdds({"added"})
<1>. USE CallersAssumption DEF OpenInv, TypeOK, At, Goto
<1>1. CASE Call(c)
  <2>1. \A d \in Callers \ {c} : arg'[d] = arg[d] /\ pc'[d] = pc[d]
    BY <1>1 DEF Call
  <2>2. pc[c] \in {"idle", "threw"} /\ pc'[c] = "begin"
    BY <1>1 DEF Call
  <2>3. Adding \subseteq Adding' /\ Pushing \subseteq Pushing'
    BY <2>1, <2>2 DEF PendingAdds
  <2>4. UNCHANGED <<mServices, thread, todo, mStarted, starter>>
    BY <1>1 DEF Call, serverVars, lockVars, serviceVars
  <2>5. \A d \in Callers : pc'[d] = "spawn" => pc[d] = "spawn"
    BY <2>1, <2>2
  <2>. HIDE DEF Adding, Pushing
  <2>. QED  BY <2>3, <2>4, <2>5 DEF LaunchesKnown, RunningThreads, Present, Adding, Pushing
<1>2. CASE OpenServer(c) \/ StartLock(c) \/ RunPush(c) \/ RunEnds(c) \/ Wait(c)
  <2>1. UNCHANGED <<mServices, thread, arg, todo, mStarted>>
    BY <1>2 DEF OpenServer, StartLock, RunPush, RunEnds, Wait, serverVars, serviceVars
  <2>2. /\ \A d \in Callers : d = c \/ pc'[d] = pc[d]
        /\ pc[c] \in {"begin", "open", "push", "cycling"} /\ pc'[c] # "spawn"
    BY <1>2 DEF OpenServer, StartLock, RunPush, RunEnds, Wait
  <2>3. starter' = None => starter = None
    BY <1>2 DEF OpenServer, StartLock, RunPush, RunEnds, Wait, lockVars
  <2>. QED  BY <2>1, <2>2, <2>3, LaunchesKept
<1>3. CASE \/ StopLock(c) \/ StopCopy(c) \/ StopService(c) \/ AllStopped(c) \/ JoinOthers(c)
           \/ CloseLock(c) \/ CloseAll(c)
  <2>1. UNCHANGED <<mServices, thread, arg, mStarted>>
    BY <1>3 DEF StopLock, StopCopy, StopService, AllStopped, JoinOthers, CloseLock, CloseAll,
                serverVars, serviceVars
  <2>2. /\ \A d \in Callers : d = c \/ pc'[d] = pc[d]
        /\ pc[c] \in {"begin", "lockStop", "copyStop", "stopService", "joinOthers", "closeAll"}
        /\ pc'[c] # "spawn"
    BY <1>3 DEF StopLock, StopCopy, StopService, AllStopped, JoinOthers, CloseLock, CloseAll, AfterStop
  <2>3. \A d \in Callers \ {c} : todo'[d] = todo[d]
    BY <1>3 DEF StopLock, StopCopy, StopService, AllStopped, JoinOthers, CloseLock, CloseAll
  <2>4. starter' = None => starter = None
    BY <1>3 DEF StopLock, StopCopy, StopService, AllStopped, JoinOthers, CloseLock, CloseAll, lockVars
  <2>. QED  BY <2>1, <2>2, <2>3, <2>4, LaunchesKept
<1>4. CASE JoinThrows(c)
  BY <1>4 DEF JoinThrows, StopsKnown
<1>5. CASE StartCopy(c)
  <2>1. op[c] = "start"
    BY <1>5 DEF StartCopy, StepsOfCalls, StartSteps, StartOps, StopsKnown
  <2>2. todo'[c] = mServices /\ UNCHANGED <<mServices, thread, arg, mStarted, starter>>
    BY <1>5, <2>1 DEF StartCopy, serverVars, lockVars, serviceVars
  <2>3. Adding \subseteq Adding' /\ Pushing \subseteq Pushing'
    BY <1>5, PendingKept DEF StartCopy
  <2>4. \A d \in Callers \ {c} : pc'[d] = pc[d] /\ todo'[d] = todo[d]
    BY <1>5 DEF StartCopy
  <2>. HIDE DEF Adding, Pushing
  <2>. QED
    BY <2>2, <2>3, <2>4 DEF LaunchesKnown, RunningThreads, Present, Adding, Pushing
<1>6. CASE Spawn(c)
  <2>. DEFINE s == Head(todo[c])
  <2>1. todo[c] # <<>> /\ todo[c] \in Seq(Services) /\ s \in Services
    BY <1>6, SeqOps DEF Spawn
  <2>2. todo'[c] = Tail(todo[c]) /\ ToSet(todo[c]) \subseteq ToSet(Tail(todo[c])) \cup {s}
    BY <1>6, <2>1, SetOps DEF Spawn
  <2>3. /\ UNCHANGED <<mServices, pc, arg, mStarted, starter>>
        /\ thread' = [thread EXCEPT ![s] = IF @ = "none" THEN "running" ELSE @]
        /\ \A d \in Callers \ {c} : todo'[d] = todo[d]
    BY <1>6 DEF Spawn, Launch, serverVars, lockVars
  <2>4. starter = c /\ \A d \in Callers \ {c} : pc[d] # "spawn"
    BY <1>6 DEF Spawn, Owners, StartSteps
  <2>5. thread[s] # "ended"
    BY <1>6, <2>1, <2>4 DEF Spawn, StopsKnown, StopSteps
  <2>6. RunningThreads \subseteq RunningThreads'
    BY <2>1, <2>3 DEF RunningThreads
  <2>7. s \in RunningThreads' \/ thread[s] = "absent"
    BY <2>1, <2>3, <2>5 DEF RunningThreads
  <2>8. Adding' = Adding /\ Pushing' = Pushing /\ Pushing \subseteq Adding
    BY <2>3 DEF PendingAdds
  <2>9. Present \subseteq RunningThreads \cup ToSet(todo[c]) \cup Adding
    BY <1>6 DEF Spawn, LaunchesKnown
  <2>10. s \in Present => s \in RunningThreads' \cup Adding
    BY <2>7, <2>8 DEF LaunchesKnown
  <2>11. Present \subseteq RunningThreads' \cup ToSet(Tail(todo[c])) \cup Adding
    BY <2>2, <2>6, <2>9, <2>10
  <2>12. \A r \in Present : thread'[r] = "absent" => thread[r] = "absent"
    BY <2>1, <2>3, SetOfServices DEF Present
  <2>. HIDE DEF Adding, Pushing, s
  <2>. QED
    BY <1>6, <2>2, <2>3, <2>4, <2>8, <2>11, <2>12 DEF Spawn, LaunchesKnown, Present, Adding, Pushing
<1>7. CASE StartDone(c)
  <2>1. todo[c] = <<>> /\ At(c, "spawn") /\ UNCHANGED <<mServices, thread, arg, todo>>
    BY <1>7 DEF StartDone, serviceVars
  <2>2. Present \subseteq RunningThreads \cup Adding
    BY <2>1, SetOps DEF LaunchesKnown
  <2>3. \A d \in Callers : d = c \/ pc'[d] = pc[d] \/ pc[d] = "waiting"
    BY <1>7 DEF StartDone, GotoAndWake
  <2>4. Adding \subseteq Adding' /\ Pushing \subseteq Pushing'
    BY <2>1, <2>3, PendingKept
  <2>5. \A d \in Callers : pc'[d] # "spawn"
    BY <1>7 DEF StartDone, GotoAndWake, Owners, StartSteps
  <2>. HIDE DEF Adding, Pushing
  <2>. QED
    BY <2>1, <2>2, <2>4, <2>5 DEF LaunchesKnown, RunningThreads, Present, Adding, Pushing
<1>8. CASE JoinService(c)
  <2>1. starter = c /\ starter' = c /\ UNCHANGED <<mServices, arg>>
    BY <1>8, StarterSteps DEF JoinService, StopSteps, serverVars
  <2>2. \A d \in Callers : pc'[d] # "spawn"
    BY <1>8 DEF JoinService, Owners, StartSteps, StopSteps
  <2>3. Pushing \subseteq Pushing'
    BY <1>8, <2>1, PendingKept DEF JoinService
  <2>4. \A r \in Present : thread'[r] = "absent" => thread[r] = "absent"
    BY <1>8, SetOfServices DEF JoinService, Joined, Present
  <2>. HIDE DEF Pushing
  <2>. QED  BY <2>1, <2>2, <2>3, <2>4 DEF LaunchesKnown, Present, Pushing
<1>9. CASE NotifyStop(c)
  <2>1. ~mStarted' /\ UNCHANGED <<mServices, thread, arg>>
    BY <1>9 DEF NotifyStop
  <2>2. \A d \in Callers : d = c \/ pc'[d] = pc[d] \/ pc[d] = "waiting"
    BY <1>9 DEF NotifyStop, GotoAndWake
  <2>3. Pushing \subseteq Pushing'
    BY <1>9, <2>1, <2>2, PendingKept DEF NotifyStop
  <2>4. \A d \in Callers : pc'[d] # "spawn"
    BY <1>9 DEF NotifyStop, GotoAndWake, AfterStop, Owners, StartSteps, StopSteps
  <2>. HIDE DEF Pushing
  <2>. QED  BY <2>1, <2>3, <2>4 DEF LaunchesKnown, Present, Pushing
<1>10. CASE AddPush(c)
  <2>1. arg[c] \in Services /\ UNCHANGED <<thread, arg, todo, mStarted, starter>>
    BY <1>10 DEF AddPush, StepsOfCalls, lockVars, serviceVars
  <2>2. /\ \A d \in Callers : d = c \/ pc'[d] = pc[d]
        /\ pc[c] = "begin" /\ pc'[c] \in {"added", "launchAdded"}
    BY <1>10 DEF AddPush
  <2>3. Adding \subseteq Adding' /\ Pushing \subseteq Pushing'
    BY <2>1, <2>2, PendingKept
  <2>4. \/ Present' = Present
        \/ /\ Present' = Present \cup {arg[c]}
           /\ pc'[c] = "added"
    BY <1>10, <2>1, SetOps DEF AddPush, Present
  <2>5. pc'[c] = "added" => arg[c] \in Adding' /\ arg[c] \in Pushing'
    BY <2>1 DEF PendingAdds
  <2>. HIDE DEF Adding, Pushing
  <2>. QED
    BY <2>1, <2>2, <2>3, <2>4, <2>5 DEF LaunchesKnown, RunningThreads, Adding, Pushing
<1>11. CASE Added(c)
  <2>1. /\ arg[c] \in Services /\ UNCHANGED <<mServices, arg, todo, mStarted, starter>>
        /\ thread' = [thread EXCEPT ![arg[c]] = IF @ = "running" THEN @ ELSE "none"]
        /\ pc' = [pc EXCEPT ![c] = "launchAdded"] /\ pc[c] = "added"
    BY <1>11 DEF Added, StepsOfCalls, serverVars, lockVars
  <2>2. Adding \subseteq Adding'
    BY <2>1 DEF PendingAdds
  <2>3. Pushing \ {arg[c]} \subseteq Pushing'
    BY <2>1 DEF PendingAdds
  <2>4. RunningThreads' = RunningThreads
    BY <2>1 DEF RunningThreads
  <2>5. \A r \in Present : thread'[r] = "absent" => thread[r] = "absent" /\ r # arg[c]
    BY <2>1, SetOfServices DEF Present
  <2>. HIDE DEF Adding, Pushing
  <2>. QED
    BY <2>1, <2>2, <2>3, <2>4, <2>5 DEF LaunchesKnown, Present, Adding, Pushing
<1>12. CASE AddLaunch(c)
  <2>1. /\ arg[c] \in Services /\ arg[c] \in Present
        /\ UNCHANGED <<mServices, arg, todo, mStarted, starter>>
        /\ thread' = IF mStarted /\ thread[arg[c]] = "none"
                     THEN [thread EXCEPT ![arg[c]] = "running"] ELSE thread
        /\ pc' = [pc EXCEPT ![c] = "idle"] /\ pc[c] = "launchAdded" /\ starter = None
    BY <1>12 DEF AddLaunch, Launch, StepsOfCalls, StopsKnown, serverVars, lockVars
  <2>2. Pushing \subseteq Pushing' /\ Pushing' \subseteq Adding'
    BY <2>1 DEF PendingAdds
  <2>3. Adding \ {arg[c]} \subseteq Adding'
    BY <2>1 DEF PendingAdds
  <2>4. RunningThreads \subseteq RunningThreads'
    BY <2>1 DEF RunningThreads
  <2>5. thread[arg[c]] # "ended"
    BY <2>1 DEF StopsKnown
  <2>6. thread[arg[c]] = "absent" => arg[c] \in Pushing
    BY <2>1 DEF LaunchesKnown
  <2>7. mStarted => arg[c] \in RunningThreads' \/ thread[arg[c]] = "absent"
    BY <2>1, <2>5 DEF RunningThreads
  <2>8. \A r \in Present : thread'[r] = "absent" => thread[r] = "absent"
    BY <2>1, SetOfServices DEF Present
  <2>9. \A d \in Callers : pc'[d] # "spawn"
    BY <2>1 DEF Owners, StartSteps
  <2>10. mStarted => Present \subseteq RunningThreads' \cup Adding'
    BY <2>1, <2>2, <2>3, <2>4, <2>6, <2>7 DEF LaunchesKnown
  <2>. HIDE DEF Adding, Pushing
  <2>. QED
    BY <2>1, <2>2, <2>8, <2>9, <2>10 DEF LaunchesKnown, Present, Adding, Pushing
<1>13. CASE RemoveLock(c) \/ JoinRemoved(c)
  BY <1>13 DEF RemoveLock, JoinRemoved, StepsOfCalls, StopsKnown
<1>. QED
  BY <1>1, <1>2, <1>3, <1>4, <1>5, <1>6, <1>7, <1>8, <1>9, <1>10, <1>11, <1>12, <1>13 DEF Step

\* While the server runs every service in its table has its thread, or the
\* call that adds it is still under way: for any services and any threads that
\* open, start, stop, close and add, if every service whose stop functor ends
\* its task is made ready again by onServerStop.
THEOREM ServicesRunHolds ==
    ASSUME AddOnly
    PROVE  Spec => []ServicesRun
<1>. DEFINE RunInv == OpenInv /\ ThreadsKnown /\ StopsKnown /\ LaunchesKnown
<1>1. Init => RunInv
  <2>. SUFFICES ASSUME Init PROVE RunInv
    OBVIOUS
  <2>1. RunningThreads = {} /\ LiveThreads = {}
    BY DEF Init, RunningThreads, LiveThreads
  <2>2. \A s \in Present : thread[s] # "absent"
    BY InitialAssumption, SetOfServices DEF Init, Present
  <2>3. ThreadsKnown /\ StopsKnown /\ LaunchesKnown
    BY <2>1, <2>2 DEF Init, ThreadsKnown, StopsKnown, LaunchesKnown, At, None, LiveThreads
  <2>. QED  BY <2>3, OpenInvInit
<1>2. RunInv /\ [Next]_vars => RunInv'
  <2>. SUFFICES ASSUME OpenInv, ThreadsKnown, StopsKnown, LaunchesKnown, [Next]_vars
                PROVE  ThreadsKnown' /\ StopsKnown' /\ LaunchesKnown'
    BY OpenInvNext
  <2>1. ASSUME NEW c \in Callers, Call(c) \/ Step(c)
        PROVE  ThreadsKnown' /\ StopsKnown' /\ LaunchesKnown'
    <3>1. ThreadsKnown'
      BY <2>1, ThreadsStep DEF AddOnly
    <3>2. StopsKnown'
      BY <2>1, StopsOther, StopsStart, StopsStop DEF Step
    <3>. QED  BY <2>1, <3>1, <3>2, LaunchesStep
  <2>2. ASSUME NEW s \in Services, ThreadEnds(s)
        PROVE  ThreadsKnown' /\ StopsKnown' /\ LaunchesKnown'
    <3>1. LiveThreads' = LiveThreads /\ RunningThreads' \subseteq RunningThreads
      BY <2>2 DEF ThreadEnds, LiveThreads, RunningThreads, OpenInv, TypeOK
    <3>2. PICK c \in Callers : starter = c /\ pc[c] \in StopSteps
      BY <2>2 DEF ThreadEnds, StopsKnown, OpenInv, TypeOK
    <3>3. UNCHANGED <<serverVars, lockVars, ownStop, opened, callVars>>
      BY <2>2 DEF ThreadEnds
    <3>4. ThreadsKnown'
      BY <3>1, <3>3 DEF ThreadsKnown, Present, At, serverVars, callVars
    <3>5. StopsKnown'
      BY <3>1, <3>2, <3>3, CallersAssumption
         DEF StopsKnown, Present, At, serverVars, lockVars, callVars
    <3>6. \A d \in Callers : pc[d] # "spawn"
      BY <3>2 DEF OpenInv, Owners, StartSteps, StopSteps
    <3>7. \A r \in Present : thread'[r] = "absent" => thread[r] = "absent"
      BY <2>2, SetOfServices DEF ThreadEnds, Present, OpenInv, TypeOK
    <3>8. LaunchesKnown'
      BY <3>2, <3>3, <3>6, <3>7, CallersAssumption
         DEF LaunchesKnown, PendingAdds, Present, At, serverVars, lockVars, callVars
    <3>. QED  BY <3>4, <3>5, <3>8
  <2>3. CASE UNCHANGED vars
    BY <2>3 DEF ThreadsKnown, StopsKnown, LaunchesKnown, PendingAdds, LiveThreads, RunningThreads,
                Present, At, vars, serverVars, lockVars, serviceVars, callVars
  <2>. QED  BY <2>1, <2>2, <2>3 DEF Next
<1>3. RunInv => ServicesRun
  BY DEF LaunchesKnown, ServicesRun, PendingAdds, RunningThreads
<1>. QED  BY <1>1, <1>2, <1>3, PTL DEF Spec
=============================================================================
