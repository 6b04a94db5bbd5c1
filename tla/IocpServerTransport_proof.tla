--------------------- MODULE IocpServerTransport_proof ---------------------
(***************************************************************************)
(* For any limit, any stock of accepts and any number of sessions: the     *)
(* connection limit is kept as long as the count of accepts is right, and  *)
(* exceeded by one at most whatever becomes of the count.                  *)
(***************************************************************************)
EXTENDS IocpServerTransport, FiniteSetTheorems, TLAPS

-----------------------------------------------------------------------------
(* Sizes of sets of session states.                                         *)

\* Sets of session states have a size.
LEMMA SizeInNat ==
    ASSUME NEW A, A \subseteq Sessions
    PROVE  IsFiniteSet(A) /\ Cardinality(A) \in Nat
BY SessionsFinite, FS_Subset, FS_CardinalityType

\* The size grows with the set.
LEMMA SizeMonotone ==
    ASSUME NEW B, B \subseteq Sessions, NEW A, A \subseteq B
    PROVE  Cardinality(A) <= Cardinality(B)
BY SizeInNat, FS_Subset

\* A session state that was not in a set adds one.
LEMMA SizeAdd ==
    ASSUME NEW A, A \subseteq Sessions, NEW s \in Sessions, s \notin A
    PROVE  Cardinality(A \cup {s}) = Cardinality(A) + 1
BY SizeInNat, FS_AddElement

\* Any session state adds one at most.
LEMMA SizeAddAny ==
    ASSUME NEW A, A \subseteq Sessions, NEW s \in Sessions
    PROVE  Cardinality(A \cup {s}) <= Cardinality(A) + 1
<1>1. CASE s \in A
  <2>1. A \cup {s} = A
    BY <1>1
  <2>. QED  BY <2>1, SizeInNat
<1>2. CASE s \notin A
  BY <1>2, SizeAdd, SizeInNat
<1>. QED  BY <1>1, <1>2

\* A session state that leaves a set takes one away.
LEMMA SizeRemove ==
    ASSUME NEW A, A \subseteq Sessions, NEW s \in A
    PROVE  Cardinality(A \ {s}) = Cardinality(A) - 1
BY SizeInNat, FS_RemoveElement

\* A set that lacks a session state of a larger one is smaller by one at least.
LEMMA SizeStrict ==
    ASSUME NEW B, B \subseteq Sessions, NEW s \in B, NEW A, A \subseteq B, s \notin A
    PROVE  Cardinality(A) <= Cardinality(B) - 1
<1>1. A \subseteq B \ {s} /\ B \ {s} \subseteq Sessions
  OBVIOUS
<1>2. Cardinality(A) <= Cardinality(B \ {s})
  BY <1>1, SizeMonotone
<1>3. Cardinality(B \ {s}) = Cardinality(B) - 1
  BY SizeRemove
<1>. QED  BY <1>2, <1>3

-----------------------------------------------------------------------------
(* Types.                                                                   *)

\* The count stays one of its Modulus values.
LEMMA CountType ==
    ASSUME NEW n \in 0 .. Modulus - 1
    PROVE  Up(n) \in 0 .. Modulus - 1 /\ Down(n) \in 0 .. Modulus - 1
BY ConstantsAssumption, SizeInNat DEF Up, Down

\* generateAccepts never plans for more than its stock.
LEMMA RoomType == mSessions \subseteq Sessions => Room \in 0 .. Augment
BY ConstantsAssumption, SizeInNat DEF Room

\* Nothing counted and nothing planned.
LEMMA Zero == 0 \in 0 .. Modulus - 1 /\ 0 \in 0 .. Augment
BY ConstantsAssumption, SizeInNat

\* The types hold in every instance, with any faults.
THEOREM TypeCorrect == Spec => []TypeOK
<1>1. Init => TypeOK
  BY Zero DEF Init, TypeOK, Phases
<1>2. TypeOK /\ [Next]_vars => TypeOK'
  <2>. SUFFICES ASSUME TypeOK, [Next]_vars
                PROVE  TypeOK'
    OBVIOUS
  <2>. USE DEF TypeOK, Phases, Become
  <2>1. CASE Test \/ LockAndWait \/ TestAgain \/ Generate \/ Unwound
    BY <2>1 DEF Test, LockAndWait, TestAgain, Generate, Unwound, Acceptor
  <2>2. CASE ReadRoom
    <3>1. posting' \in 0 .. Augment
      <4>1. Cardinality(In({"none"})) \in Nat
        BY SizeInNat DEF In
      <4>. QED  BY <2>2, <4>1, RoomType, ConstantsAssumption DEF ReadRoom
    <3>2. acceptor' = IF posting' = 0 THEN "test" ELSE "post"
      BY <2>2 DEF ReadRoom, Acceptor
    <3>. QED  BY <2>2, <3>1, <3>2 DEF ReadRoom
  <2>3. CASE CountAccept
    BY <2>3, CountType DEF CountAccept, Acceptor
  <2>4. ASSUME NEW s \in Sessions, PostAccept(s)
        PROVE  TypeOK'
    <3>1. posting' \in 0 .. Augment /\ acceptor' = "count"
      BY <2>4, ConstantsAssumption DEF PostAccept, Acceptor
    <3>2. phase' \in [Sessions -> Phases] /\ mSessions' \subseteq Sessions
      BY <2>4 DEF PostAccept
    <3>3. UNCHANGED <<server, cycling, mStopFlag, mQueuedAccepts, current, past>>
      BY <2>4 DEF PostAccept
    <3>. QED  BY <3>1, <3>2, <3>3
  <2>5. ASSUME NEW s \in Sessions, PostThrows(s)
        PROVE  TypeOK'
    BY <2>5, Zero DEF PostThrows, Acceptor, Happens, AllFaults
  <2>6. CASE Start \/ Stop \/ StopAccepts \/ CyclesEnd
    <3>1. CASE Start
      BY <3>1, Zero DEF Start
    <3>2. CASE Stop \/ CyclesEnd
      BY <3>2 DEF Stop, CyclesEnd
    <3>3. CASE StopAccepts
      BY <3>3 DEF StopAccepts
    <3>. QED  BY <2>6, <3>1, <3>2, <3>3
  <2>7. CASE Close
    <3>1. mQueuedAccepts' \in 0 .. Modulus - 1
      <4>. DEFINE Pending == mSessions \cap In({"posted"})
      <4>1. Pending \subseteq Sessions
        OBVIOUS
      <4>2. Cardinality(Pending) \in Nat /\ Cardinality(Pending) <= Cardinality(Sessions)
        BY <4>1, SizeInNat, SizeMonotone
      <4>3. mQueuedAccepts' = IF Cardinality(Pending) = 0 THEN 0 ELSE Modulus - Cardinality(Pending)
        BY <2>7 DEF Close
      <4>. HIDE DEF Pending
      <4>. QED  BY <4>2, <4>3, ConstantsAssumption, SizeInNat
    <3>2. phase' \in [Sessions -> Phases]
      BY <2>7 DEF Close
    <3>3. mSessions' \subseteq Sessions /\ server' \in {"off", "running", "flagged", "joining", "crashed"}
      BY <2>7 DEF Close
    <3>. QED  BY <2>7, <3>1, <3>2, <3>3 DEF Close
  <2>8. ASSUME NEW s \in Sessions, OnAccept(s) \/ DestroyAccepting(s)
        PROVE  TypeOK'
    <3>1. mQueuedAccepts' \in 0 .. Modulus - 1
      BY <2>8, CountType DEF OnAccept, DestroyAccepting, CountDown
    <3>. QED  BY <2>8, <3>1 DEF OnAccept, DestroyAccepting, CountDown
  <2>9. ASSUME NEW s \in Sessions,
               \/ AcceptAborted(s) \/ AddressAllowed(s) \/ AddressDenied(s) \/ Unregister(s)
               \/ Ends(s) \/ Converts(s) \/ Holds(s) \/ Releases(s)
        PROVE  TypeOK'
    BY <2>9 DEF AcceptAborted, AddressAllowed, AddressDenied, Unregister, Ends, Converts,
                Holds, Releases, Happens, AllFaults
  <2>10. CASE UNCHANGED vars
    BY <2>10 DEF vars
  <2>. QED  BY <2>1, <2>2, <2>3, <2>4, <2>5, <2>6, <2>7, <2>8, <2>9, <2>10
            DEF Next, AcceptorStep, ServerStep, Handler
<1>. QED  BY <1>1, <1>2, PTL DEF Spec

-----------------------------------------------------------------------------
(* The invariant.                                                           *)

\* Phases in which a session state is in mSessions.
Known == {"posted", "allowed", "rejecting", "live", "accepting"}

Registered == \A s \in Sessions : phase[s] \in Known => s \in mSessions

\* Between a stop and the next start only the application has sessions.
Emptied == server = "off" => \A s \in Sessions : phase[s] \notin Known

Cycles == cycling \/ acceptor # "off" => server \in {"running", "flagged", "joining"}

\* The acceptor has room for what it is about to post.
Planned == IF acceptor \in {"post", "count"} THEN posting ELSE 0

RoomKept ==
    Limit # 0 /\ "converts" \notin past => Cardinality(mSessions) + Planned <= Limit + 1

\* What the count counts, and the accept it does not count yet.
Pending == In({"posted", "accepting"})
Lag == IF acceptor = "count" THEN 1 ELSE 0

Sound == past \cap {"early", "denied", "throws", "converts"} = {}

CountRight ==
    Sound /\ server \notin {"off", "crashed"} => Cardinality(Pending) = mQueuedAccepts + Lag

\* Connections, and those that will be connections if their address allows.
Served == mSessions \cap In({"allowed", "live", "held"})

ServedKept == Sound /\ Limit # 0 => Cardinality(Served) <= Limit

IInv == TypeOK /\ Registered /\ Emptied /\ Cycles /\ RoomKept /\ CountRight /\ ServedKept

\* What has happened is not forgotten.
LEMMA PastGrows ==
    ASSUME TypeOK, [Next]_vars
    PROVE  past \subseteq past' /\ (Sound' => Sound)
<1>1. past \subseteq past'
  <2>1. CASE AcceptorStep
    BY <2>1 DEF AcceptorStep, Test, LockAndWait, TestAgain, Generate, ReadRoom, Unwound,
                CountAccept, PostAccept, PostThrows, Happens
  <2>2. CASE ServerStep \/ Start \/ Stop
    BY <2>2 DEF ServerStep, StopAccepts, CyclesEnd, Close, Start, Stop
  <2>3. ASSUME NEW s \in Sessions,
               \/ OnAccept(s) \/ AcceptAborted(s) \/ Handler(s) \/ Ends(s)
               \/ Converts(s) \/ Holds(s) \/ Releases(s)
        PROVE  past \subseteq past'
    BY <2>3 DEF OnAccept, AcceptAborted, Handler, AddressAllowed, AddressDenied,
                DestroyAccepting, Unregister, Ends, Converts, Holds, Releases, Happens
  <2>4. CASE UNCHANGED vars
    BY <2>4 DEF vars
  <2>. QED  BY <2>1, <2>2, <2>3, <2>4 DEF Next
<1>. QED  BY <1>1 DEF Sound

\* Who is registered, when, and when the pool runs.
LEMMA RegisteredStep ==
    ASSUME TypeOK, Registered, Emptied, Cycles, [Next]_vars
    PROVE  Registered' /\ Emptied' /\ Cycles'
<1>. USE DEF Registered, Emptied, Cycles, Known
<1>1. CASE \/ Test \/ LockAndWait \/ TestAgain \/ Generate \/ ReadRoom \/ Unwound
           \/ CountAccept \/ UNCHANGED vars
  <2>1. UNCHANGED <<server, cycling, mSessions, phase>> /\ (acceptor = "off" => acceptor' = "off")
    BY <1>1 DEF Acceptor, Test, LockAndWait, TestAgain, Generate, ReadRoom, Unwound, CountAccept, vars
  <2>. QED  BY <2>1
<1>2. ASSUME NEW s \in Sessions, PostAccept(s) \/ PostThrows(s)
      PROVE  Registered' /\ Emptied' /\ Cycles'
  <2>1. UNCHANGED <<server, cycling>> /\ mSessions' = mSessions \cup {s}
    BY <1>2 DEF PostAccept, PostThrows
  <2>2. \A t \in Sessions \ {s} : phase'[t] = phase[t]
    BY <1>2 DEF PostAccept, PostThrows, Become, TypeOK
  <2>3. server \in {"running", "flagged", "joining"}
    BY <1>2 DEF PostAccept, PostThrows, Acceptor
  <2>. QED  BY <2>1, <2>2, <2>3
<1>3. CASE Stop \/ StopAccepts \/ CyclesEnd
  BY <1>3 DEF Stop, StopAccepts, CyclesEnd, Stopping
<1>4. CASE Start
  BY <1>4 DEF Start
<1>5. CASE Close
  BY <1>5 DEF Close, In, TypeOK
<1>6. ASSUME NEW s \in Sessions, OnAccept(s) \/ AddressAllowed(s) \/ AddressDenied(s)
                                 \/ AcceptAborted(s) \/ Ends(s) \/ Holds(s)
      PROVE  Registered' /\ Emptied' /\ Cycles'
  <2>1. UNCHANGED <<server, cycling, mSessions>> /\ cycling /\ phase[s] \in Known
    BY <1>6 DEF OnAccept, AddressAllowed, AddressDenied, AcceptAborted, Ends, Holds
  <2>2. \A t \in Sessions \ {s} : phase'[t] = phase[t]
    BY <1>6 DEF OnAccept, AddressAllowed, AddressDenied, AcceptAborted, Ends, Holds, Become, TypeOK
  <2>. QED  BY <2>1, <2>2
<1>7. ASSUME NEW s \in Sessions, DestroyAccepting(s) \/ Unregister(s) \/ Releases(s)
      PROVE  Registered' /\ Emptied' /\ Cycles'
  <2>1. /\ UNCHANGED <<server, cycling>> /\ mSessions \ {s} \subseteq mSessions'
        /\ acceptor = "off" => acceptor' = "off"
    BY <1>7 DEF DestroyAccepting, Unregister, Releases, CountDown
  <2>2. \A t \in Sessions \ {s} : phase'[t] = phase[t]
    BY <1>7 DEF DestroyAccepting, Unregister, Releases, Become, TypeOK
  <2>3. phase'[s] \notin Known
    BY <1>7 DEF DestroyAccepting, Unregister, Releases, Become, TypeOK
  <2>. QED  BY <2>1, <2>2, <2>3
<1>8. ASSUME NEW s \in Sessions, Converts(s)
      PROVE  Registered' /\ Emptied' /\ Cycles'
  BY <1>8 DEF Converts, Become, TypeOK
<1>. QED  BY <1>1, <1>2, <1>3, <1>4, <1>5, <1>6, <1>7, <1>8
          DEF Next, AcceptorStep, ServerStep, Handler

-----------------------------------------------------------------------------
(* The room of the acceptor, and the limit of sessions.                     *)

\* A step that adds no session and plans no accept.
LEMMA RoomShrinks ==
    ASSUME TypeOK, TypeOK', RoomKept, past \subseteq past',
           mSessions' \subseteq mSessions, posting' = posting,
           acceptor' \in {"post", "count"} => acceptor \in {"post", "count"}
    PROVE  RoomKept'
<1>1. Cardinality(mSessions') <= Cardinality(mSessions)
  BY SizeMonotone DEF TypeOK
<1>2. Planned' <= Planned /\ Planned \in Nat /\ Planned' \in Nat
  BY ConstantsAssumption DEF TypeOK, Planned
<1>3. Cardinality(mSessions) \in Nat /\ Cardinality(mSessions') \in Nat
  BY SizeInNat DEF TypeOK
<1>. QED  BY <1>1, <1>2, <1>3, ConstantsAssumption DEF RoomKept

\* The acceptor plans by the sessions there are, and everyone else only
\* removes some.
LEMMA RoomStep ==
    ASSUME TypeOK, TypeOK', RoomKept, [Next]_vars
    PROVE  RoomKept'
<1>. past \subseteq past'
  BY PastGrows
<1>1. CASE \/ Test \/ LockAndWait \/ TestAgain \/ Generate \/ Unwound \/ UNCHANGED vars
  <2>1. /\ UNCHANGED <<mSessions, posting>>
        /\ acceptor' \in {"post", "count"} => acceptor \in {"post", "count"}
    BY <1>1 DEF Test, LockAndWait, TestAgain, Generate, Unwound, Acceptor, vars
  <2>. QED  BY <2>1, RoomShrinks
<1>2. CASE CountAccept
  <2>1. UNCHANGED <<mSessions, posting>> /\ acceptor = "count"
    BY <1>2 DEF CountAccept, Acceptor
  <2>. QED  BY <2>1, RoomShrinks
<1>3. CASE ReadRoom
  <2>. SUFFICES ASSUME Limit # 0, "converts" \notin past
                PROVE  Cardinality(mSessions) + posting' <= Limit + 1
    <3>1. mSessions' = mSessions /\ acceptor' \in {"test", "post"} /\ past' = past
      BY <1>3 DEF ReadRoom, Acceptor
    <3>2. (posting' \in Nat) /\ (Planned' = posting' \/ Planned' = 0)
      BY ConstantsAssumption DEF TypeOK, Planned
    <3>3. Cardinality(mSessions) \in Nat
      BY SizeInNat DEF TypeOK
    <3>4. Planned = 0
      BY <1>3 DEF ReadRoom, Acceptor, Planned
    <3>. QED  BY <3>1, <3>2, <3>3, <3>4, ConstantsAssumption DEF RoomKept
  <2>1. acceptor = "augment" /\ Planned = 0
    BY <1>3 DEF ReadRoom, Acceptor, Planned
  <2>2. Cardinality(mSessions) \in Nat /\ Cardinality(In({"none"})) \in Nat
    BY SizeInNat DEF TypeOK, In
  <2>3. Cardinality(mSessions) <= Limit + 1
    BY <2>1, <2>2, ConstantsAssumption DEF RoomKept
  <2>4. Room <= Limit + 1 - Cardinality(mSessions)
    BY <2>2, <2>3, ConstantsAssumption DEF Room
  <2>5. posting' <= Room
    BY <1>3, <2>2, RoomType, ConstantsAssumption DEF ReadRoom, TypeOK
  <2>. QED  BY <2>2, <2>4, <2>5, RoomType, ConstantsAssumption DEF TypeOK
<1>4. ASSUME NEW s \in Sessions, PostAccept(s) \/ PostThrows(s)
      PROVE  RoomKept'
  <2>1. Cardinality(mSessions') <= Cardinality(mSessions) + 1
    BY <1>4, SizeAddAny DEF PostAccept, PostThrows, TypeOK
  <2>2. Planned = posting /\ posting > 0 /\ posting \in Nat
    BY <1>4, ConstantsAssumption DEF PostAccept, PostThrows, Acceptor, Planned, TypeOK
  <2>3. Planned' <= posting - 1 /\ Planned' \in Nat
    BY <1>4, <2>2, ConstantsAssumption DEF PostAccept, PostThrows, Acceptor, Planned, TypeOK
  <2>4. Cardinality(mSessions) \in Nat /\ Cardinality(mSessions') \in Nat
    BY SizeInNat DEF TypeOK
  <2>. QED  BY <2>1, <2>2, <2>3, <2>4, ConstantsAssumption DEF RoomKept
<1>5. CASE Stop \/ StopAccepts \/ CyclesEnd \/ Close
  <2>1. /\ mSessions' \subseteq mSessions /\ posting' = posting
        /\ acceptor' \in {"post", "count"} => acceptor \in {"post", "count"}
    BY <1>5 DEF Stop, StopAccepts, CyclesEnd, Close
  <2>. QED  BY <2>1, RoomShrinks
<1>6. CASE Start
  <2>1. mSessions' = {} /\ Planned' = 0
    BY <1>6 DEF Start, Planned
  <2>2. Cardinality(mSessions') = 0
    BY <2>1, FS_EmptySet
  <2>. QED  BY <2>1, <2>2, ConstantsAssumption DEF RoomKept
<1>7. ASSUME NEW s \in Sessions,
             \/ OnAccept(s) \/ AcceptAborted(s) \/ Handler(s) \/ Ends(s)
             \/ Holds(s) \/ Releases(s)
      PROVE  RoomKept'
  <2>1. /\ mSessions' \subseteq mSessions /\ posting' = posting
        /\ acceptor' \in {"post", "count"} => acceptor \in {"post", "count"}
    BY <1>7 DEF OnAccept, AcceptAborted, Handler, AddressAllowed, AddressDenied,
                DestroyAccepting, Unregister, Ends, Holds, Releases, CountDown
  <2>. QED  BY <2>1, RoomShrinks
<1>8. ASSUME NEW s \in Sessions, Converts(s)
      PROVE  RoomKept'
  BY <1>8 DEF Converts, Happens, RoomKept
<1>. QED  BY <1>1, <1>2, <1>3, <1>4, <1>5, <1>6, <1>7, <1>8
          DEF Next, AcceptorStep, ServerStep

-----------------------------------------------------------------------------
(* The count of accepts.                                                    *)

\* A step that touches neither the accepts nor their count.
LEMMA CountUntouched ==
    ASSUME TypeOK, CountRight, [Next]_vars, server \notin {"off", "crashed"},
           Pending' = Pending, mQueuedAccepts' = mQueuedAccepts, Lag' = Lag
    PROVE  CountRight'
BY PastGrows DEF CountRight

\* A handler that counts an accept down as it takes it.
LEMMA CountTaken ==
    ASSUME TypeOK, CountRight, [Next]_vars, server \notin {"off", "crashed"},
           NEW s \in Pending, Pending' = Pending \ {s}, CountDown,
           mQueuedAccepts = 0 => "early" \in past'
    PROVE  CountRight'
<1>. SUFFICES ASSUME Sound'
              PROVE  Cardinality(Pending') = mQueuedAccepts' + Lag'
  BY DEF CountRight
<1>1. Sound /\ mQueuedAccepts # 0
  BY PastGrows DEF Sound
<1>2. mQueuedAccepts' = mQueuedAccepts - 1
  BY <1>1 DEF CountDown, Down
<1>3. Lag' = Lag /\ Lag \in Nat
  BY DEF CountDown, Lag
<1>4. Cardinality(Pending') = Cardinality(Pending) - 1
  BY SizeRemove DEF Pending, In
<1>5. Cardinality(Pending) = mQueuedAccepts + Lag
  BY <1>1 DEF CountRight
<1>. QED  BY <1>2, <1>3, <1>4, <1>5 DEF TypeOK

\* The count is right as long as each accept is counted up before it is
\* counted down, and once.
LEMMA CountStep ==
    ASSUME TypeOK, TypeOK', Registered, Emptied, Cycles, CountRight, [Next]_vars
    PROVE  CountRight'
<1>1. CASE Test \/ LockAndWait \/ TestAgain \/ Generate \/ Unwound \/ ReadRoom
  <2>1. /\ UNCHANGED <<phase, mQueuedAccepts>>
        /\ acceptor \notin {"off", "count"} /\ acceptor' # "count"
    BY <1>1 DEF Test, LockAndWait, TestAgain, Generate, Unwound, ReadRoom, Acceptor
  <2>2. Pending' = Pending /\ Lag' = Lag /\ server \notin {"off", "crashed"}
    BY <2>1 DEF Pending, In, Lag, Cycles
  <2>. QED  BY <2>1, <2>2, CountUntouched
<1>2. CASE CountAccept
  <2>. SUFFICES ASSUME Sound'
                PROVE  Cardinality(Pending') = mQueuedAccepts' + Lag'
    BY DEF CountRight
  <2>1. /\ phase' = phase /\ mQueuedAccepts' = Up(mQueuedAccepts)
        /\ acceptor = "count" /\ acceptor' # "count"
    BY <1>2 DEF CountAccept, Acceptor
  <2>2. Pending' = Pending /\ Lag = 1 /\ Lag' = 0
    BY <2>1 DEF Pending, In, Lag
  <2>3. Cardinality(Pending) = mQueuedAccepts + 1
    BY <2>1, <2>2, PastGrows DEF CountRight, Cycles
  <2>4. Cardinality(Pending) <= Cardinality(Sessions) /\ Cardinality(Sessions) \in Nat
    BY SizeMonotone, SizeInNat DEF Pending, In
  <2>5. mQueuedAccepts # Modulus - 1
    BY <2>3, <2>4, ConstantsAssumption DEF TypeOK
  <2>6. mQueuedAccepts' = mQueuedAccepts + 1
    BY <2>1, <2>5 DEF Up
  <2>. QED  BY <2>2, <2>3, <2>6 DEF TypeOK
<1>3. ASSUME NEW s \in Sessions, PostAccept(s)
      PROVE  CountRight'
  <2>. SUFFICES ASSUME Sound'
                PROVE  Cardinality(Pending') = mQueuedAccepts' + Lag'
    BY DEF CountRight
  <2>1. mQueuedAccepts' = mQueuedAccepts /\ acceptor = "post" /\ acceptor' = "count"
    BY <1>3 DEF PostAccept, Acceptor
  <2>2. s \notin Pending /\ Pending' = Pending \cup {s}
    BY <1>3 DEF PostAccept, Become, Pending, In, TypeOK
  <2>3. Cardinality(Pending') = Cardinality(Pending) + 1
    BY <2>2, SizeAdd DEF Pending, In
  <2>4. Cardinality(Pending) = mQueuedAccepts /\ Lag' = 1
    BY <2>1, PastGrows DEF CountRight, Cycles, Lag, TypeOK
  <2>. QED  BY <2>1, <2>3, <2>4
<1>4. ASSUME NEW s \in Sessions, PostThrows(s) \/ AddressDenied(s) \/ Converts(s)
      PROVE  CountRight'
  BY <1>4 DEF PostThrows, AddressDenied, Converts, Happens, CountRight, Sound
<1>5. ASSUME NEW s \in Sessions, OnAccept(s) \/ DestroyAccepting(s)
      PROVE  CountRight'
  <2>1. s \in Pending /\ Pending' = Pending \ {s}
    BY <1>5 DEF OnAccept, DestroyAccepting, Become, Pending, In, TypeOK
  <2>2. CountDown /\ (mQueuedAccepts = 0 => "early" \in past')
    BY <1>5 DEF OnAccept, DestroyAccepting
  <2>3. CASE server \notin {"off", "crashed"}
    BY <2>1, <2>2, <2>3, CountTaken
  <2>4. CASE server \in {"off", "crashed"}
    <3>1. server' = server
      BY <1>5 DEF OnAccept, DestroyAccepting
    <3>. QED  BY <2>4, <3>1 DEF CountRight
  <2>. QED  BY <2>3, <2>4
<1>6. ASSUME NEW s \in Sessions,
             \/ AcceptAborted(s) \/ AddressAllowed(s) \/ Unregister(s) \/ Ends(s)
             \/ Holds(s) \/ Releases(s)
      PROVE  CountRight'
  <2>1. UNCHANGED <<server, mQueuedAccepts, acceptor>>
    BY <1>6 DEF AcceptAborted, AddressAllowed, Unregister, Ends, Holds, Releases
  <2>2. Pending' = Pending
    BY <1>6 DEF AcceptAborted, AddressAllowed, Unregister, Ends, Holds, Releases, Become,
                Pending, In, TypeOK
  <2>. QED  BY <2>1, <2>2, CountUntouched DEF CountRight, Lag
<1>7. CASE Stop \/ StopAccepts \/ CyclesEnd
  <2>1. /\ UNCHANGED <<mQueuedAccepts, phase>> /\ server \notin {"off", "crashed"}
        /\ acceptor' = "count" <=> acceptor = "count"
    BY <1>7 DEF Stop, StopAccepts, CyclesEnd, Stopping
  <2>2. Pending' = Pending /\ Lag' = Lag
    BY <2>1 DEF Pending, In, Lag
  <2>. QED  BY <2>1, <2>2, CountUntouched
<1>8. CASE Start
  <2>1. mQueuedAccepts' = 0 /\ Lag' = 0 /\ phase' = phase
    BY <1>8 DEF Start, Lag
  <2>2. Pending' = {}
    BY <1>8, <2>1 DEF Start, Emptied, Known, Pending, In
  <2>. QED  BY <2>1, <2>2, FS_EmptySet DEF CountRight
<1>9. CASE Close
  BY <1>9 DEF Close, CountRight
<1>10. CASE UNCHANGED vars
  BY <1>10 DEF vars, CountRight, Sound, Pending, In, Lag
<1>. QED  BY <1>1, <1>2, <1>3, <1>4, <1>5, <1>6, <1>7, <1>8, <1>9, <1>10
          DEF Next, AcceptorStep, ServerStep, Handler

-----------------------------------------------------------------------------
(* The connections.                                                         *)

\* A step after which no session is served that was not served before.
LEMMA ServedShrinks ==
    ASSUME TypeOK, TypeOK', ServedKept, [Next]_vars, Served' \subseteq Served
    PROVE  ServedKept'
<1>1. Cardinality(Served') <= Cardinality(Served)
  BY SizeMonotone DEF Served, TypeOK
<1>2. Cardinality(Served) \in Nat /\ Cardinality(Served') \in Nat
  BY SizeInNat DEF Served, TypeOK
<1>. QED  BY <1>1, <1>2, PastGrows, ConstantsAssumption DEF ServedKept

\* The check in onAccept: who finds another accept pending knows that it is
\* in mSessions as well; who finds none looks at the number.
LEMMA AcceptKeepsLimit ==
    ASSUME TypeOK, TypeOK', IInv, NEW s \in Sessions, OnAccept(s), Registered'
    PROVE  ServedKept'
<1>. SUFFICES ASSUME Sound', Limit # 0, phase'[s] = "allowed"
              PROVE  Cardinality(Served') <= Limit
  <2>1. CASE phase'[s] = "allowed"
    BY <2>1 DEF ServedKept
  <2>2. CASE phase'[s] # "allowed"
    <3>1. Served' \subseteq Served
      BY <2>2 DEF OnAccept, Become, Served, In, TypeOK
    <3>2. OnAccept(s) => [Next]_vars
      BY DEF Next
    <3>. QED  BY <3>1, <3>2, ServedShrinks DEF IInv
  <2>. QED  BY <2>1, <2>2
<1>1. mQueuedAccepts # 0 /\ Sound /\ "converts" \notin past
  BY DEF OnAccept, Sound
<1>2. mQueuedAccepts' = mQueuedAccepts - 1
  BY <1>1 DEF OnAccept, CountDown, Down
<1>3. mSessions' = mSessions /\ Served' \subseteq mSessions
  BY DEF OnAccept, Served
<1>4. Cardinality(mSessions) \in Nat /\ Cardinality(Served') \in Nat
  BY <1>3, SizeInNat DEF TypeOK
<1>5. Cardinality(mSessions) <= Limit + 1
  <2>1. Planned \in Nat
    BY ConstantsAssumption DEF Planned, TypeOK
  <2>. QED  BY <1>1, <1>4, <2>1, ConstantsAssumption DEF IInv, RoomKept
<1>6. CASE mQueuedAccepts' = 0
  <2>1. ~Full
    BY <1>6 DEF OnAccept, Become, TypeOK
  <2>2. Cardinality(mSessions) <= Limit
    BY <2>1, <1>4, ConstantsAssumption DEF Full
  <2>3. Cardinality(Served') <= Cardinality(mSessions)
    BY <1>3, SizeMonotone DEF TypeOK
  <2>. QED  BY <2>2, <2>3, <1>4, ConstantsAssumption
<1>7. CASE mQueuedAccepts' # 0
  <2>1. Cardinality(Pending) = mQueuedAccepts + Lag
    BY <1>1 DEF IInv, CountRight, Cycles, OnAccept
  <2>2. Cardinality(Pending) >= 2
    BY <1>1, <1>2, <1>7, <2>1 DEF TypeOK, Lag
  <2>3. s \in Pending
    BY DEF OnAccept, Pending, In
  <2>4. PICK t \in Pending \ {s} : TRUE
    <3>1. Cardinality(Pending \ {s}) = Cardinality(Pending) - 1
      BY <2>3, SizeRemove DEF Pending, In
    <3>2. Cardinality(Pending) \in Nat
      BY SizeInNat DEF Pending, In
    <3>3. Cardinality(Pending \ {s}) # 0
      BY <2>2, <3>1, <3>2
    <3>. QED  BY <3>3, FS_EmptySet
  <2>5. t \in Sessions /\ t # s /\ phase[t] \in {"posted", "accepting"}
    BY DEF Pending, In
  <2>6. t \in mSessions
    BY <2>5 DEF IInv, Registered, Known
  <2>7. phase'[t] = phase[t]
    BY <2>5 DEF OnAccept, Become, TypeOK
  <2>8. t \notin Served'
    BY <2>5, <2>7 DEF Served, In
  <2>9. Cardinality(Served') <= Cardinality(mSessions) - 1
    BY <1>3, <2>6, <2>8, SizeStrict DEF TypeOK
  <2>. QED  BY <1>4, <1>5, <2>9, ConstantsAssumption
<1>. QED  BY <1>6, <1>7

\* Only the check in onAccept lets a session be served.
LEMMA ServedStep ==
    ASSUME IInv, TypeOK', Registered', [Next]_vars
    PROVE  ServedKept'
<1>. USE DEF IInv
<1>1. CASE \/ Test \/ LockAndWait \/ TestAgain \/ Generate \/ ReadRoom \/ Unwound
           \/ CountAccept \/ Stop \/ StopAccepts \/ CyclesEnd \/ UNCHANGED vars
  <2>1. UNCHANGED <<mSessions, phase>>
    BY <1>1 DEF Test, LockAndWait, TestAgain, Generate, ReadRoom, Unwound, CountAccept,
                Stop, StopAccepts, CyclesEnd, vars
  <2>2. Served' \subseteq Served
    BY <2>1 DEF Served, In
  <2>. QED  BY <2>2, ServedShrinks
<1>2. ASSUME NEW s \in Sessions, PostAccept(s) \/ PostThrows(s)
      PROVE  ServedKept'
  <2>1. Served' \subseteq Served
    BY <1>2 DEF PostAccept, PostThrows, Become, Served, In, TypeOK
  <2>. QED  BY <2>1, ServedShrinks
<1>3. ASSUME NEW s \in Sessions, OnAccept(s)
      PROVE  ServedKept'
  BY <1>3, AcceptKeepsLimit
<1>4. ASSUME NEW s \in Sessions,
             \/ AcceptAborted(s) \/ Handler(s) \/ Ends(s) \/ Holds(s) \/ Releases(s)
      PROVE  ServedKept'
  <2>1. mSessions' \subseteq mSessions
    BY <1>4 DEF AcceptAborted, Handler, AddressAllowed, AddressDenied, DestroyAccepting,
                Unregister, Ends, Holds, Releases
  <2>2. \A t \in Sessions : phase'[t] \in {"allowed", "live", "held"}
                               => phase[t] \in {"allowed", "live", "held"}
    BY <1>4 DEF AcceptAborted, Handler, AddressAllowed, AddressDenied, DestroyAccepting,
                Unregister, Ends, Holds, Releases, Become, TypeOK
  <2>3. Served' \subseteq Served
    BY <2>1, <2>2 DEF Served, In
  <2>. QED  BY <2>3, ServedShrinks
<1>5. ASSUME NEW s \in Sessions, Converts(s)
      PROVE  ServedKept'
  BY <1>5 DEF Converts, Happens, ServedKept, Sound
<1>6. CASE Start \/ Close
  <2>1. Served' \subseteq Served
    BY <1>6 DEF Start, Close, Served, In, TypeOK
  <2>. QED  BY <2>1, ServedShrinks
<1>. QED  BY <1>1, <1>2, <1>3, <1>4, <1>5, <1>6 DEF Next, AcceptorStep, ServerStep

-----------------------------------------------------------------------------
(* The theorems.                                                            *)

\* The inductive invariant: the count is right until a race or a fault, the
\* acceptor leaves room for one session beyond the limit and no more.
THEOREM Invariance == Spec => []IInv
<1>1. Init => IInv
  <2>1. Init => TypeOK
    BY Zero DEF Init, TypeOK, Phases
  <2>2. Init => Registered /\ Emptied /\ Cycles /\ CountRight
    BY DEF Init, Registered, Emptied, Cycles, CountRight, Known
  <2>3. Init => RoomKept /\ ServedKept
    <3>. SUFFICES ASSUME Init
                  PROVE  RoomKept /\ ServedKept
      OBVIOUS
    <3>1. mSessions = {} /\ Served = {} /\ Planned = 0
      BY DEF Init, Served, Planned
    <3>. QED  BY <3>1, FS_EmptySet, ConstantsAssumption DEF RoomKept, ServedKept
  <2>. QED  BY <2>1, <2>2, <2>3 DEF IInv
<1>2. IInv /\ [Next]_vars /\ TypeOK' => IInv'
  <2>. SUFFICES ASSUME IInv, [Next]_vars, TypeOK'
                PROVE  IInv'
    OBVIOUS
  <2>1. Registered' /\ Emptied' /\ Cycles'
    BY RegisteredStep DEF IInv
  <2>2. RoomKept'
    BY RoomStep DEF IInv
  <2>3. CountRight'
    BY CountStep DEF IInv
  <2>4. ServedKept'
    BY <2>1, ServedStep
  <2>. QED  BY <2>1, <2>2, <2>3, <2>4 DEF IInv
<1>. QED  BY <1>1, <1>2, TypeCorrect, PTL DEF Spec

\* The limit is kept, until an accept completes before it is counted or a
\* fault happens.
THEOREM LimitIsKept == Spec => []LimitHolds
<1>1. IInv => LimitHolds
  <2>. SUFFICES ASSUME IInv, Sound, Limit # 0
                PROVE  Cardinality(Connections) <= Limit
    BY DEF LimitHolds, LimitKept, Sound
  <2>1. Connections \subseteq Served /\ Served \subseteq Sessions
    BY DEF Connections, Served, In
  <2>2. Cardinality(Served) <= Limit
    BY DEF IInv, ServedKept
  <2>3. Cardinality(Connections) <= Cardinality(Served)
    BY <2>1, SizeMonotone
  <2>4. Connections \subseteq Sessions
    BY <2>1
  <2>. QED  BY <2>1, <2>2, <2>3, <2>4, SizeInNat, ConstantsAssumption
<1>. QED  BY <1>1, Invariance, PTL

\* Whatever happens, but for connections the application converts, at most
\* one connection too many is served.
THEOREM LimitNearlyKept == Spec => []LimitNearly
<1>1. IInv => LimitNearly
  <2>. SUFFICES ASSUME IInv, Limit # 0, "converts" \notin past
                PROVE  Cardinality(Connections) <= Limit + 1
    BY DEF LimitNearly
  <2>1. Cardinality(mSessions) + Planned <= Limit + 1 /\ Planned \in Nat
    BY ConstantsAssumption DEF IInv, RoomKept, Planned, TypeOK
  <2>2. Connections \subseteq mSessions /\ mSessions \subseteq Sessions
    BY DEF Connections, IInv, TypeOK
  <2>3. Cardinality(Connections) <= Cardinality(mSessions)
    BY <2>2, SizeMonotone
  <2>4. Cardinality(mSessions) \in Nat /\ Cardinality(Connections) \in Nat
    BY <2>2, SizeInNat
  <2>. QED  BY <2>1, <2>3, <2>4, ConstantsAssumption
<1>. QED  BY <1>1, Invariance, PTL
=============================================================================
