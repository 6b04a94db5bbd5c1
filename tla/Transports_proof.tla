-------------------------- MODULE Transports_proof --------------------------
(***************************************************************************)
(* Proofs about what is below sessions and calls, for any values of their  *)
(* constants.                                                              *)
(*                                                                         *)
(* AsioServerTransport: until a fault happens the accept loop keeps        *)
(* exactly one accept pending, never serves more connections than its      *)
(* limit, and turns one away only when the limit is reached; whatever      *)
(* faults there are, one connection too many is the worst.                 *)
(*                                                                         *)
(* SspiFilter: whatever a read or a write below moves and wherever it      *)
(* ends, what comes out of a filter is what went into the other's, and a   *)
(* client's handshake ends well only if the server's has.                  *)
(***************************************************************************)
EXTENDS AsioServerTransport, SspiFilterInv, FiniteSetTheorems, SequenceTheorems, TLAPS

-----------------------------------------------------------------------------
(* Sizes of sets of session states.                                         *)

\* A set of session states has a size.
LEMMA SizeInNat ==
    ASSUME NEW A, A \subseteq Sessions
    PROVE  IsFiniteSet(A) /\ Cardinality(A) \in Nat
BY SessionsFinite, FS_Subset, FS_CardinalityType

\* A smaller set of session states is not larger in number.
LEMMA SizeMonotone ==
    ASSUME NEW B, B \subseteq Sessions, NEW A, A \subseteq B
    PROVE  Cardinality(A) <= Cardinality(B)
BY SizeInNat, FS_Subset

\* One more session state counts as one.
LEMMA SizeAdd ==
    ASSUME NEW A, A \subseteq Sessions, NEW s \in Sessions, s \notin A
    PROVE  Cardinality(A \cup {s}) = Cardinality(A) + 1
BY SizeInNat, FS_AddElement

\* One session state less is at most one less in number.
LEMMA SizeRemove ==
    ASSUME NEW A, A \subseteq Sessions, NEW s
    PROVE  Cardinality(A \ {s}) >= Cardinality(A) - 1
<1>1. CASE s \in A
  BY <1>1, SizeInNat, FS_RemoveElement
<1>2. CASE s \notin A
  <2>1. A \ {s} = A
    BY <1>2
  <2>. QED  BY <2>1, SizeInNat
<1>. QED  BY <1>1, <1>2

-----------------------------------------------------------------------------
(* Types.                                                                   *)

\* The types hold for any transport, with any faults.
THEOREM TypeCorrect == Spec => []TypeOK
<1>1. Init => TypeOK
  BY DEF Init, TypeOK, Phases
<1>2. TypeOK /\ [Next]_vars => TypeOK'
  <2>. SUFFICES ASSUME TypeOK, [Next]_vars
                PROVE  TypeOK'
    OBVIOUS
  <2>1. CASE Open \/ Stop \/ Close \/ Closed
    BY <2>1 DEF TypeOK, Open, Stop, Close, Closed
  <2>2. ASSUME NEW s \in Sessions,
               Start(s) \/ AcceptAborted(s) \/ DrainIo(s) \/ Arrives(s)
        PROVE  TypeOK'
    BY <2>2 DEF TypeOK, Phases, Become, Start, AcceptAborted, DrainIo, Arrives
  <2>3. ASSUME NEW s \in Sessions,
               PeerGone(s) \/ AcceptError(s) \/ NotAllowed(s) \/ Rejected(s) \/ SessionEnds(s)
        PROVE  TypeOK'
    BY <2>3 DEF TypeOK, Phases, Become, PeerGone, AcceptError, NotAllowed, Rejected, SessionEnds
  <2>4. ASSUME NEW s \in Sessions, Handler(s)
        PROVE  TypeOK'
    BY <2>4 DEF TypeOK, Phases, Become, Handler, AcceptNext, CheckAssertion, Allow, Reject
  <2>5. CASE UNCHANGED vars
    BY <2>5 DEF TypeOK, vars
  <2>. QED  BY <2>1, <2>2, <2>3, <2>4, <2>5 DEF Next
<1>. QED  BY <1>1, <1>2, PTL DEF Spec

-----------------------------------------------------------------------------
(* The flag and the chain of accepts.                                       *)

\* Opening and starting the transport take the flag of a close() down.
LEMMA FlagsStep ==
    ASSUME TypeOK, Flags, Next
    PROVE  Flags'
<1>1. CASE Open \/ Stop \/ Close \/ Closed
  BY <1>1 DEF Flags, TypeOK, Open, Stop, Close, Closed
<1>2. ASSUME NEW s \in Sessions, Start(s)
      PROVE  Flags'
  BY <1>2 DEF Flags, Start
<1>3. ASSUME NEW s \in Sessions, ~Start(s),
             \/ AcceptAborted(s) \/ DrainIo(s) \/ Arrives(s) \/ PeerGone(s)
             \/ AcceptError(s) \/ NotAllowed(s) \/ Rejected(s) \/ SessionEnds(s)
             \/ Handler(s)
      PROVE  Flags'
  <2>1. UNCHANGED <<server, mStopFlag, used>>
    BY <1>3 DEF AcceptAborted, DrainIo, Arrives, PeerGone, AcceptError, NotAllowed,
                Rejected, SessionEnds, Handler, AcceptNext, CheckAssertion, Allow, Reject
  <2>. QED  BY <2>1 DEF Flags
<1>. QED  BY <1>1, <1>2, <1>3 DEF Next

\* A session state outside of the chain that stays outside leaves the chain alone.
LEMMA ChainUntouched ==
    ASSUME TypeOK, NEW s \in Sessions, NEW p \in Phases, Become(s, p),
           phase[s] \notin {"accepting", "accepted"},
           p \notin {"accepting", "accepted"}
    PROVE  Chain' = Chain
BY DEF TypeOK, Become, Chain, In

\* A fault is not forgotten.
LEMMA FaultedStays ==
    ASSUME TypeOK, Next, faulted
    PROVE  faulted'
<1>1. ASSUME NEW s \in Sessions, Handler(s)
      PROVE  faulted'
  BY <1>1 DEF Handler, AcceptNext, CheckAssertion, Allow, Reject
<1>2. ASSUME NEW s \in Sessions, Start(s) \/ PeerGone(s) \/ AcceptError(s)
      PROVE  faulted'
  BY <1>2 DEF Start, PeerGone, AcceptError
<1>3. ASSUME NEW s \in Sessions,
             \/ AcceptAborted(s) \/ DrainIo(s) \/ Arrives(s)
             \/ NotAllowed(s) \/ Rejected(s) \/ SessionEnds(s)
      PROVE  faulted'
  BY <1>3 DEF AcceptAborted, DrainIo, Arrives, NotAllowed, Rejected, SessionEnds
<1>4. CASE Open \/ Stop \/ Close \/ Closed
  BY <1>4 DEF Open, Stop, Close, Closed
<1>. QED  BY <1>1, <1>2, <1>3, <1>4 DEF Next

\* A step keeps one session state in the chain, until a fault happens.
LEMMA ChainStep ==
    ASSUME TypeOK, Flags, OneAccept, Next
    PROVE  OneAccept'
<1>. SUFFICES ASSUME ~faulted'
              PROVE  OneAccept'
  BY DEF OneAccept
<1>. ~faulted
  BY FaultedStays
<1>1. CASE Open
  BY <1>1 DEF Open, OneAccept, Chain, In
<1>2. CASE Stop
  <2>1. /\ server = "started" /\ server' = "open" /\ phase' = phase /\ used' = used
        /\ used
    BY <1>2 DEF Stop, Flags
  <2>2. Chain' = Chain
    BY <2>1 DEF Chain, In
  <2>. QED  BY <2>1, <2>2 DEF OneAccept
<1>3. CASE Close
  BY <1>3 DEF Close, OneAccept
<1>4. CASE Closed
  BY <1>4 DEF Closed, OneAccept, mSessions, Chain, In
<1>5. ASSUME NEW s \in Sessions, Start(s)
      PROVE  OneAccept'
  <2>1. Chain = {}
    BY <1>5 DEF Start, OneAccept, TypeOK
  <2>2. Chain' = {s}
    BY <1>5, <2>1 DEF Start, Become, Chain, In, TypeOK
  <2>. QED  BY <1>5, <2>2 DEF Start, OneAccept
<1>6. ASSUME NEW s \in Sessions, AcceptAborted(s) \/ DrainIo(s)
      PROVE  OneAccept'
  BY <1>6 DEF AcceptAborted, DrainIo, OneAccept
<1>7. ASSUME NEW s \in Sessions, Arrives(s)
      PROVE  OneAccept'
  <2>1. /\ server = "started" /\ server' = "started"
        /\ phase[s] = "accepting" /\ phase' = [phase EXCEPT ![s] = "accepted"]
    BY <1>7 DEF Arrives, Running, Flags, Become
  <2>2. Chain' = Chain
    BY <2>1 DEF Chain, In, TypeOK
  <2>. QED  BY <2>1, <2>2 DEF OneAccept
<1>8. ASSUME NEW s \in Sessions, PeerGone(s) \/ AcceptError(s)
      PROVE  OneAccept'
  BY <1>8 DEF PeerGone, AcceptError
<1>9. ASSUME NEW s \in Sessions, NEW n \in Sessions, AcceptNext(s, n)
      PROVE  OneAccept'
  <2>1. /\ server = "started" /\ server' = "started"
        /\ phase[s] = "accepted" /\ phase[n] = "none"
        /\ phase' = [phase EXCEPT ![s] = "checking", ![n] = "accepting"]
    BY <1>9 DEF AcceptNext, Running
  <2>2. Chain = {s}
    <3>1. s \in Chain
      BY <2>1 DEF Chain, In
    <3>. QED  BY <2>1, <3>1 DEF OneAccept
  <2>3. s # n
    BY <2>1
  <2>4. \A t \in Sessions : phase'[t] =
          IF t = n THEN "accepting" ELSE IF t = s THEN "checking" ELSE phase[t]
    BY <2>1 DEF TypeOK
  <2>5. Chain' = {n}
    BY <2>2, <2>3, <2>4 DEF Chain, In
  <2>. QED  BY <2>1, <2>5 DEF OneAccept
<1>10. ASSUME NEW s \in Sessions, NEW p \in Phases, Become(s, p),
              phase[s] \notin {"accepting", "accepted"},
              p \notin {"accepting", "accepted"}, UNCHANGED <<server, used>>
       PROVE  OneAccept'
  <2>1. Chain' = Chain
    BY <1>10, ChainUntouched
  <2>. QED  BY <1>10, <2>1 DEF OneAccept
<1>11. ASSUME NEW s \in Sessions,
              \/ NotAllowed(s) \/ Rejected(s) \/ SessionEnds(s)
              \/ CheckAssertion(s) \/ Allow(s) \/ Reject(s)
       PROVE  OneAccept'
  <2>1. PICK p \in {"none", "live", "rejecting"} :
          /\ Become(s, p) /\ UNCHANGED <<server, used>>
          /\ phase[s] \in {"checking", "rejecting", "live"}
    BY <1>11 DEF NotAllowed, Rejected, SessionEnds, CheckAssertion, Allow, Reject
  <2>. QED  BY <2>1, <1>10 DEF Phases
<1>. QED  BY <1>1, <1>2, <1>3, <1>4, <1>5, <1>6, <1>7, <1>8, <1>9, <1>11 DEF Next, Handler

-----------------------------------------------------------------------------
(* The limit.                                                               *)

\* Only the check of the limit lets a connection in.
LEMMA LiveStep ==
    ASSUME TypeOK, [Next]_vars
    PROVE  \/ In({"live"})' \subseteq In({"live"})
           \/ \E s \in Sessions : Allow(s) /\ In({"live"})' = In({"live"}) \cup {s}
<1>1. CASE Open \/ Stop \/ Close \/ Closed \/ UNCHANGED vars
  BY <1>1 DEF Open, Stop, Close, Closed, vars, In
<1>2. ASSUME NEW s \in Sessions, Allow(s)
      PROVE  In({"live"})' = In({"live"}) \cup {s}
  BY <1>2 DEF Allow, Become, In, TypeOK
<1>3. ASSUME NEW s \in Sessions, NEW p \in Phases \ {"live"}, Become(s, p)
      PROVE  In({"live"})' \subseteq In({"live"})
  BY <1>3 DEF Become, In, TypeOK
<1>4. ASSUME NEW s \in Sessions,
             \/ Start(s) \/ DrainIo(s) \/ Arrives(s) \/ PeerGone(s)
             \/ AcceptError(s) \/ NotAllowed(s) \/ Rejected(s) \/ SessionEnds(s)
             \/ CheckAssertion(s) \/ Reject(s)
      PROVE  In({"live"})' \subseteq In({"live"})
  <2>1. PICK p \in {"none", "accepting", "accepted", "rejecting"} : Become(s, p)
    BY <1>4 DEF Start, DrainIo, Arrives, PeerGone, AcceptError, NotAllowed, Rejected,
                SessionEnds, CheckAssertion, Reject
  <2>. QED  BY <2>1, <1>3 DEF Phases
<1>5. ASSUME NEW s \in Sessions, AcceptAborted(s)
      PROVE  In({"live"})' \subseteq In({"live"})
  BY <1>5, <1>3 DEF AcceptAborted, Become, In, TypeOK
<1>6. ASSUME NEW s \in Sessions, NEW n \in Sessions, AcceptNext(s, n)
      PROVE  In({"live"})' \subseteq In({"live"})
  BY <1>6 DEF AcceptNext, In, TypeOK
<1>. QED  BY <1>1, <1>2, <1>4, <1>5, <1>6 DEF Next, Handler

\* The check leaves room for Limit connections when a session is in accept.
LEMMA LimitStep ==
    ASSUME TypeOK, OneAccept, LimitHolds, [Next]_vars
    PROVE  LimitHolds'
<1>. SUFFICES ASSUME Limit # 0, ~faulted'
              PROVE  Cardinality(In({"live"})') <= Limit
  BY DEF LimitHolds
<1>. ~faulted
  BY FaultedStays DEF vars
<1>. DEFINE live == In({"live"})
<1>1. live \subseteq Sessions /\ Cardinality(live) <= Limit /\ Cardinality(live) \in Nat
  BY SizeInNat DEF LimitHolds, In
<1>2. CASE live' \subseteq live
  <2>1. Cardinality(live') <= Cardinality(live) /\ Cardinality(live') \in Nat
    BY <1>1, <1>2, SizeMonotone, SizeInNat
  <2>. QED  BY <1>1, <2>1, LimitAssumption
<1>3. ASSUME NEW s \in Sessions, Allow(s), live' = live \cup {s}
      PROVE  Cardinality(live') <= Limit
  <2>1. /\ server = "started" /\ phase[s] = "checking"
        /\ Cardinality(mSessions) < 1 + 1 + Limit
    BY <1>3 DEF Allow, Running, Full
  <2>2. PICK c \in Sessions : Chain = {c}
    BY <2>1 DEF OneAccept
  <2>3. phase[c] \in {"accepting", "accepted"}
    BY <2>2 DEF Chain, In
  <2>4. s \notin live /\ c \notin live \cup {s}
    BY <2>1, <2>3 DEF In
  <2>5. (live \cup {s}) \cup {c} \subseteq mSessions /\ mSessions \subseteq Sessions
    BY <2>1, <2>3 DEF In, mSessions
  <2>. HIDE DEF live
  <2>6. Cardinality(live \cup {s}) = Cardinality(live) + 1
    BY <1>1, <2>4, SizeAdd
  <2>7. Cardinality((live \cup {s}) \cup {c}) = Cardinality(live \cup {s}) + 1
    BY <1>1, <2>4, SizeAdd
  <2>8. Cardinality((live \cup {s}) \cup {c}) <= Cardinality(mSessions)
    BY <2>5, SizeMonotone
  <2>9. Cardinality(mSessions) \in Nat
    BY <2>5, SizeInNat
  <2>. QED  BY <1>1, <1>3, <2>1, <2>6, <2>7, <2>8, <2>9, LimitAssumption
<1>. QED  BY <1>2, <1>3, LiveStep

-----------------------------------------------------------------------------
(* The invariant, and what follows from it.                                 *)

\* Until a fault happens the invariant holds for any number of sessions and any limit.
THEOREM Invariance == Spec => []IInv
<1>1. Init => IInv
  <2>. SUFFICES ASSUME Init
                PROVE  IInv
    OBVIOUS
  <2>1. TypeOK
    BY DEF Init, TypeOK, Phases
  <2>2. Flags
    BY DEF Init, Flags
  <2>3. OneAccept
    BY DEF Init, OneAccept, Chain, In
  <2>4. In({"live"}) = {}
    BY DEF Init, In
  <2>5. LimitHolds
    BY <2>4, FS_EmptySet, LimitAssumption DEF LimitHolds
  <2>. QED  BY <2>1, <2>2, <2>3, <2>5 DEF IInv
<1>2. TypeOK /\ IInv /\ [Next]_vars => OneAccept' /\ LimitHolds' /\ Flags'
  <2>. SUFFICES ASSUME TypeOK, IInv, [Next]_vars
                PROVE  OneAccept' /\ LimitHolds' /\ Flags'
    OBVIOUS
  <2>1. LimitHolds'
    BY LimitStep DEF IInv
  <2>2. CASE Next
    BY <2>1, <2>2, ChainStep, FlagsStep DEF IInv
  <2>3. CASE UNCHANGED vars
    <3>1. Flags'
      BY <2>3 DEF IInv, Flags, vars
    <3>2. Chain' = Chain
      BY <2>3 DEF Chain, In, vars
    <3>3. OneAccept'
      BY <2>3, <3>2 DEF IInv, OneAccept, vars
    <3>. QED  BY <2>1, <3>1, <3>3
  <2>. QED  BY <2>2, <2>3
<1>3. IInv /\ TypeOK' /\ [Next]_vars => IInv'
  BY <1>2 DEF IInv
<1>. QED  BY <1>1, <1>3, TypeCorrect, PTL DEF Spec

\* Until a fault happens one accept is outstanding while the server runs.
THEOREM OneAcceptHolds == Spec => []OneAccept
<1>1. IInv => OneAccept
  BY DEF IInv
<1>. QED  BY <1>1, Invariance, PTL

\* Until a fault happens the limit on connections holds.
THEOREM LimitIsKept == Spec => []LimitHolds
<1>1. IInv => LimitHolds
  BY DEF IInv
<1>. QED  BY <1>1, Invariance, PTL

\* Until a fault happens a connection is turned away only at the limit.
THEOREM RejectsAtLimit == Spec => RejectsOnlyAtLimit
<1>. DEFINE A == \A s \in Sessions :
          ~faulted /\ phase[s] = "checking" /\ phase'[s] = "rejecting"
             => Cardinality(mSessions \ (In({"accepting"}) \cup {s})) >= Limit
<1>1. IInv /\ [Next]_vars => [A]_vars
  <2>. SUFFICES ASSUME IInv, Next, NEW s \in Sessions, ~faulted,
                       phase[s] = "checking", phase'[s] = "rejecting"
                PROVE  Cardinality(mSessions \ (In({"accepting"}) \cup {s})) >= Limit
    OBVIOUS
  <2>1. Reject(s)
    <3>1. CASE Open \/ Stop \/ Close \/ Closed
      BY <3>1 DEF Open, Stop, Close, Closed
    <3>2. ASSUME NEW t \in Sessions,
                 \/ Start(t) \/ AcceptAborted(t) \/ DrainIo(t) \/ Arrives(t)
                 \/ PeerGone(t) \/ AcceptError(t)
          PROVE  FALSE
      BY <3>2 DEF Start, AcceptAborted, DrainIo, Arrives, PeerGone, AcceptError, Become,
                  IInv, TypeOK
    <3>3. ASSUME NEW t \in Sessions,
                 NotAllowed(t) \/ Rejected(t) \/ SessionEnds(t) \/ CheckAssertion(t) \/ Allow(t)
          PROVE  FALSE
      BY <3>3 DEF NotAllowed, Rejected, SessionEnds, CheckAssertion, Allow, Become, IInv, TypeOK
    <3>4. ASSUME NEW t \in Sessions, NEW n \in Sessions, AcceptNext(t, n)
          PROVE  FALSE
      BY <3>4 DEF AcceptNext, IInv, TypeOK
    <3>5. ASSUME NEW t \in Sessions, Reject(t)
          PROVE  t = s
      BY <3>5 DEF Reject, Become, IInv, TypeOK
    <3>. QED  BY <3>1, <3>2, <3>3, <3>4, <3>5 DEF Next, Handler
  <2>2. server = "started" /\ Cardinality(mSessions) = 1 + 1 + Limit
    BY <2>1 DEF Reject, Running, Full
  <2>3. PICK c \in Sessions : Chain = {c}
    BY <2>2 DEF IInv, OneAccept
  <2>4. In({"accepting"}) \subseteq {c}
    BY <2>3 DEF Chain, In
  <2>5. (mSessions \ {c}) \ {s} \subseteq mSessions \ (In({"accepting"}) \cup {s})
    BY <2>4
  <2>6. mSessions \subseteq Sessions
    BY DEF mSessions
  <2>7. Cardinality(mSessions \ {c}) >= Cardinality(mSessions) - 1
    BY <2>6, SizeRemove
  <2>8. Cardinality((mSessions \ {c}) \ {s}) >= Cardinality(mSessions \ {c}) - 1
    BY <2>6, SizeRemove
  <2>9. Cardinality((mSessions \ {c}) \ {s})
          <= Cardinality(mSessions \ (In({"accepting"}) \cup {s}))
    BY <2>5, <2>6, SizeMonotone
  <2>10. /\ Cardinality(mSessions \ {c}) \in Nat
         /\ Cardinality((mSessions \ {c}) \ {s}) \in Nat
         /\ Cardinality(mSessions \ (In({"accepting"}) \cup {s})) \in Nat
    BY <2>6, SizeInNat
  <2>. QED  BY <2>2, <2>7, <2>8, <2>9, <2>10, LimitAssumption
<1>. HIDE DEF A
<1>2. Spec => [][A]_vars
  BY <1>1, Invariance, PTL DEF Spec
<1>. QED  BY <1>2 DEF RejectsOnlyAtLimit, A

\* Whatever faults there are, at most one connection too many is served.
THEOREM LimitNearlyHolds == Spec => []LimitNearly
<1>1. Init => LimitNearly
  <2>1. Init => In({"live"}) = {}
    BY DEF Init, In
  <2>. QED  BY <2>1, FS_EmptySet, LimitAssumption DEF LimitNearly
<1>2. TypeOK /\ LimitNearly /\ [Next]_vars => LimitNearly'
  <2>. SUFFICES ASSUME TypeOK, LimitNearly, [Next]_vars, Limit # 0
                PROVE  Cardinality(In({"live"})') <= Limit + 1
    BY DEF LimitNearly
  <2>. DEFINE live == In({"live"})
  <2>1. /\ live \subseteq Sessions
        /\ Cardinality(live) <= Limit + 1 /\ Cardinality(live) \in Nat
    BY SizeInNat DEF LimitNearly, In
  <2>2. CASE live' \subseteq live
    <3>1. Cardinality(live') <= Cardinality(live) /\ Cardinality(live') \in Nat
      BY <2>1, <2>2, SizeMonotone, SizeInNat
    <3>. QED  BY <2>1, <3>1, LimitAssumption
  <2>3. ASSUME NEW s \in Sessions, Allow(s), live' = live \cup {s}
        PROVE  Cardinality(live') <= Limit + 1
    <3>1. phase[s] = "checking" /\ Cardinality(mSessions) < 1 + 1 + Limit
      BY <2>3 DEF Allow, Full
    <3>2. live \cup {s} \subseteq mSessions /\ mSessions \subseteq Sessions
      BY <3>1 DEF In, mSessions
    <3>. HIDE DEF live
    <3>3. Cardinality(live \cup {s}) <= Cardinality(mSessions)
      BY <3>2, SizeMonotone
    <3>4. Cardinality(mSessions) \in Nat /\ Cardinality(live \cup {s}) \in Nat
      BY <3>2, SizeInNat
    <3>. QED  BY <2>3, <3>1, <3>3, <3>4, LimitAssumption
  <2>. QED  BY <2>2, <2>3, LiveStep
<1>. QED  BY <1>1, <1>2, TypeCorrect, PTL DEF Spec

-----------------------------------------------------------------------------
(***************************************************************************)
(* SspiFilter                                                              *)
(***************************************************************************)
-----------------------------------------------------------------------------
(***************************************************************************)
(* Cutting sequences                                                       *)
(***************************************************************************)

\* The two parts of a sequence that is cut.
LEMMA Pieces ==
    ASSUME NEW S, NEW s \in Seq(S), NEW n \in 0 .. Len(s)
    PROVE  /\ First(s, n) \in Seq(S) /\ Len(First(s, n)) = n
           /\ \A i \in 1 .. n : First(s, n)[i] = s[i]
           /\ From(s, n) \in Seq(S) /\ Len(From(s, n)) = Len(s) - n
           /\ \A i \in 1 .. Len(s) - n : From(s, n)[i] = s[n + i]
<1>1. /\ First(s, n) \in Seq(S) /\ Len(First(s, n)) = n
      /\ \A i \in 1 .. n : First(s, n)[i] = s[i]
  BY DEF First
<1>2. /\ From(s, n) \in Seq(S) /\ Len(From(s, n)) = Len(s) - n
      /\ \A i \in 1 .. Len(s) - n : From(s, n)[i] = s[n + i]
  BY DEF From
<1>3. QED
  BY <1>1, <1>2

\* The parts make the sequence again.
LEMMA Rejoined ==
    ASSUME NEW S, NEW s \in Seq(S), NEW n \in 0 .. Len(s)
    PROVE  First(s, n) \o From(s, n) = s
<1>1. Len(s) \in Nat
  OBVIOUS
<1>2. 1 \in 1 .. Len(s) + 1 /\ n \in 1 - 1 .. Len(s) /\ Len(s) \in n .. Len(s)
  BY <1>1
<1>3. SubSeq(s, 1, n) \o SubSeq(s, n + 1, Len(s)) = SubSeq(s, 1, Len(s))
  BY <1>2, ConcatAdjacentSubSeq, Zenon
<1>4. SubSeq(s, 1, Len(s)) = s
  BY SubSeqFull
<1>5. QED
  BY <1>3, <1>4 DEF First, From

\* The beginning of a longer sequence.
LEMMA Begins ==
    ASSUME NEW S, NEW s \in Seq(S), NEW t \in Seq(S), NEW n \in 0 .. Len(s)
    PROVE  First(s \o t, n) = First(s, n) /\ From(s \o t, n) = From(s, n) \o t
<1>1. First(s \o t, n) = First(s, n)
  BY DEF First
<1>2. From(s \o t, n) \in Seq(S) /\ From(s, n) \o t \in Seq(S)
  BY DEF From
<1>3. Len(From(s \o t, n)) = Len(From(s, n) \o t)
  BY DEF From
<1>4. \A i \in 1 .. Len(From(s \o t, n)) : From(s \o t, n)[i] = (From(s, n) \o t)[i]
  BY DEF From
<1>5. QED
  BY <1>1, <1>2, <1>3, <1>4, SeqEqual

-----------------------------------------------------------------------------
(***************************************************************************)
(* Blocks                                                                  *)
(***************************************************************************)

\* The constants are numbers, and so is what a package says.
LEMMA ConstantFacts ==
    /\ HeaderLen \in Nat \ {0} /\ TokenLen \in Nat \ {0} /\ StatusLen \in Nat \ {0}
    /\ ReadAhead \in Nat \ {0} /\ MaxMessageLength \in Nat
    /\ \A p \in Packages : p.legs \in Nat \ {0} /\ p.extra \in Nat /\ p.schannel \in BOOLEAN
BY ConstantsAssumption

\* Tokens, blocks of the server's own and data are blocks, told apart by their kind.
LEMMA BlockKinds ==
    /\ \A n \in Nat : Token(n) \in Blocks /\ Token(n).kind = "token" /\ Token(n).token = n
    /\ \A ok \in BOOLEAN : Status(ok) \in Blocks /\ Status(ok).kind = "status"
    /\ \A d \in Seq(Nat) : Data(d) \in Blocks /\ Data(d).kind = "data" /\ Data(d).data = d
    /\ \A b \in Blocks : /\ b.kind \in {"token", "status", "data"}
                         /\ b.kind = "data" => b.data \in Seq(Nat) /\ b = Data(b.data)
    /\ Status(TRUE) # Status(FALSE)
<1>1. Status(TRUE).ok # Status(FALSE).ok
  BY DEF Status
<1>2. QED
  BY <1>1 DEF Blocks, Token, Status, Data

\* A block is at least as long as its length field.
LEMMA Sizes ==
    ASSUME package \in Packages, NEW b \in Blocks
    PROVE  /\ Size(b) \in Nat /\ Size(b) >= HeaderLen
           /\ b.kind # "data" \/ b.data # <<>> => Size(b) > HeaderLen
<1>1. CASE b.kind = "token"
  BY <1>1, ConstantFacts DEF Size, BodyLen
<1>2. CASE b.kind = "status"
  BY <1>2, ConstantFacts DEF Size, BodyLen
<1>3. CASE b.kind = "data"
  <2>1. b.data \in Seq(Nat)
    BY <1>3, BlockKinds
  <2>2. Len(b.data) \in Nat /\ (b.data # <<>> => Len(b.data) > 0)
    BY <2>1, EmptySeq, LenProperties
  <2>3. QED
    BY <1>3, <2>2, ConstantFacts DEF Size, BodyLen
<1>4. QED
  BY <1>1, <1>2, <1>3, BlockKinds

\* What goes over the wire of a block.
LEMMA Frames ==
    ASSUME package \in Packages, NEW b \in Blocks
    PROVE  /\ Frame(b) \in Seq(Units) /\ Len(Frame(b)) = Size(b) /\ Frame(b) # <<>>
           /\ \A i \in 1 .. Size(b) : Frame(b)[i] = [block |-> b, at |-> i]
           /\ Frame(b)[1].block = b /\ 1 \in 1 .. Size(b)
<1>1. Size(b) \in Nat /\ 1 \in 1 .. Size(b)
  BY Sizes, ConstantFacts
<1>2. \A i \in 1 .. Size(b) : [block |-> b, at |-> i] \in Units
  BY DEF Units
<1>3. Frame(b) \in Seq(Units) /\ Len(Frame(b)) = Size(b)
  BY <1>1, <1>2 DEF Frame
<1>4. \A i \in 1 .. Size(b) : Frame(b)[i] = [block |-> b, at |-> i]
  BY DEF Frame
<1>5. Frame(b) # <<>>
  BY <1>1, <1>3
<1>6. QED
  BY <1>1, <1>3, <1>4, <1>5

\* The package does not change.
LEMMA SamePackage ==
    ASSUME UNCHANGED package
    PROVE  /\ \A b : Size(b)' = Size(b) /\ Frame(b)' = Frame(b)
           /\ \A s, from, to : DataStream(s, from, to)' <=> DataStream(s, from, to)
<1>1. \A b : Size(b)' = Size(b)
  BY DEF Size, BodyLen
<1>2. \A b : Frame(b)' = Frame(b)
  BY <1>1 DEF Frame
<1>3. \A s, from, to : DataStream(s, from, to)' <=> DataStream(s, from, to)
  BY <1>1 DEF DataStream, Blocks, Numbered, Before, After
<1>4. QED
  BY <1>1, <1>2, <1>3

-----------------------------------------------------------------------------
(***************************************************************************)
(* Streams of data                                                         *)
(***************************************************************************)

\* The units of two sequences, one after the other.
LEMMA Joins ==
    ASSUME NEW S, NEW s \in Seq(S), NEW t \in Seq(S)
    PROVE  /\ s \o t \in Seq(S) /\ Len(s \o t) = Len(s) + Len(t) /\ Len(s) \in Nat /\ Len(t) \in Nat
           /\ \A i \in 1 .. Len(s) : (s \o t)[i] = s[i]
           /\ \A i \in 1 .. Len(t) : (s \o t)[Len(s) + i] = t[i]
OBVIOUS

\* An empty stream lies between equal numbers.
LEMMA NothingSent ==
    ASSUME NEW from, NEW to
    PROVE  DataStream(<<>>, from, to) <=> from = to
BY DEF DataStream

\* What a data block lies between.
LEMMA BlockNumbers ==
    ASSUME NEW b \in Blocks, b.kind = "data", b.data # <<>>
    PROVE  /\ b.data \in Seq(Nat) /\ Len(b.data) \in Nat \ {0} /\ b.data[1] \in Nat
           /\ Before(b) \in Int /\ After(b) = Before(b) + Len(b.data)
<1>1. b.data \in Seq(Nat) /\ Len(b.data) \in Nat \ {0}
  BY BlockKinds, EmptySeq
<1>2. b.data[1] \in Nat
  BY <1>1
<1>3. QED
  BY <1>1, <1>2 DEF Before, After

\* The writer adds a block.
LEMMA StreamGrows ==
    ASSUME package \in Packages, NEW s \in Seq(Units), NEW from \in Nat, NEW to \in Nat,
           DataStream(s, from, to), NEW u \in Seq(Nat), u # <<>>, Numbered(u, to)
    PROVE  DataStream(s \o Frame(Data(u)), from, to + Len(u))
<1> DEFINE b == Data(u)
           t == s \o Frame(b)
<1>1. /\ b \in Blocks /\ b.kind = "data" /\ b.data = u /\ Len(u) \in Nat \ {0}
      /\ u[1] = to + 1 /\ Before(b) = to /\ After(b) = to + Len(u) /\ Numbered(b.data, Before(b))
  <2>1. b \in Blocks /\ b.kind = "data" /\ b.data = u
    BY BlockKinds
  <2>2. Len(u) \in Nat \ {0} /\ u[1] = to + 1
    BY EmptySeq DEF Numbered
  <2>3. QED
    BY <2>1, <2>2 DEF Before, After
<1> HIDE DEF b
<1>2. /\ Frame(b) \in Seq(Units) /\ Len(Frame(b)) = Size(b) /\ Size(b) \in Nat \ {0}
      /\ \A i \in 1 .. Size(b) : Frame(b)[i] = [block |-> b, at |-> i]
  <2>1. Size(b) \in Nat \ {0}
    BY <1>1, Sizes, ConstantFacts
  <2>2. QED
    BY <1>1, <2>1, Frames
<1>3. /\ t \in Seq(Units) /\ Len(t) = Len(s) + Size(b) /\ Len(s) \in Nat
      /\ \A i \in 1 .. Len(s) : t[i] = s[i]
      /\ \A i \in 1 .. Size(b) : t[Len(s) + i] = [block |-> b, at |-> i]
  <2>1. \A f \in Seq(Units) :
            /\ s \o f \in Seq(Units) /\ Len(s \o f) = Len(s) + Len(f) /\ Len(s) \in Nat
            /\ \A i \in 1 .. Len(s) : (s \o f)[i] = s[i]
            /\ \A i \in 1 .. Len(f) : (s \o f)[Len(s) + i] = f[i]
    BY Joins
  <2>2. QED
    BY <1>2, <2>1
<1> HIDE DEF t
<1>4. t # <<>> /\ t[1].at = 1 /\ Before(t[1].block) = from
  <2>1. CASE s = <<>>
    <3>1. from = to /\ Len(s) = 0
      BY <2>1 DEF DataStream
    <3>2. t[1] = [block |-> b, at |-> 1] /\ Len(t) > 0
      BY <1>2, <1>3, <3>1
    <3>3. QED
      BY <1>1, <1>3, <3>1, <3>2, EmptySeq
  <2>2. CASE s # <<>>
    <3>1. Len(s) > 0
      BY <2>2, EmptySeq
    <3>2. t[1] = s[1] /\ Len(t) > 0
      BY <1>2, <1>3, <3>1
    <3>3. QED
      BY <2>2, <1>3, <3>2, EmptySeq DEF DataStream
  <2>3. QED
    BY <2>1, <2>2
<1>5. ASSUME NEW i \in 1 .. Len(t), t[i].at = 1
      PROVE  LET c == t[i].block
                 next == i + Size(c)
             IN  /\ c \in Blocks /\ c.kind = "data" /\ c.data # <<>> /\ Numbered(c.data, Before(c))
                 /\ next <= Len(t) + 1
                 /\ \A a \in 1 .. Size(c) : t[i + a - 1] = [block |-> c, at |-> a]
                 /\ After(c) <= to + Len(u)
                 /\ IF next > Len(t) THEN After(c) = to + Len(u)
                                     ELSE t[next].at = 1 /\ Before(t[next].block) = After(c)
  <2>1. CASE i <= Len(s)
    <3> DEFINE c == s[i].block
               next == i + Size(c)
    <3>1. i \in 1 .. Len(s) /\ t[i] = s[i] /\ s[i].at = 1
      BY <1>3, <1>5, <2>1
    <3>2. /\ c \in Blocks /\ c.kind = "data" /\ c.data # <<>> /\ Numbered(c.data, Before(c))
          /\ next <= Len(s) + 1
          /\ \A a \in 1 .. Size(c) : s[i + a - 1] = [block |-> c, at |-> a]
          /\ After(c) <= to
          /\ IF next > Len(s) THEN After(c) = to
                              ELSE s[next].at = 1 /\ Before(s[next].block) = After(c)
      BY <3>1 DEF DataStream
    <3>3. Size(c) \in Nat /\ Size(c) >= 1
      BY <3>2, Sizes, ConstantFacts
    <3>4. After(c) \in Int
      BY <3>2, BlockNumbers
    <3> HIDE DEF c
    <3>5. \A a \in 1 .. Size(c) : t[i + a - 1] = [block |-> c, at |-> a]
      <4> SUFFICES ASSUME NEW a \in 1 .. Size(c) PROVE t[i + a - 1] = s[i + a - 1]
        BY <3>2
      <4>1. i + a - 1 \in 1 .. Len(s)
        BY <3>1, <3>2, <3>3, <1>3
      <4>2. QED
        BY <4>1, <1>3
    <3>6. After(c) <= to + Len(u)
      BY <3>2, <3>4, <1>1
    <3>7. next <= Len(t) /\ t[next].at = 1 /\ Before(t[next].block) = After(c)
      <4>1. CASE next = Len(s) + 1
        <5>1. After(c) = to /\ 1 \in 1 .. Size(b)
          BY <4>1, <3>2, <1>2, <1>3
        <5>2. t[next] = [block |-> b, at |-> 1]
          BY <4>1, <5>1, <1>3
        <5>3. next <= Len(t)
          BY <4>1, <5>1, <1>2, <1>3
        <5>4. QED
          BY <5>1, <5>2, <5>3, <1>1
      <4>2. CASE next <= Len(s)
        <5>1. next \in 1 .. Len(s)
          BY <4>2, <3>1, <3>3
        <5>2. QED
          BY <5>1, <4>2, <3>2, <1>2, <1>3
      <4>3. next \in Int /\ Len(s) \in Nat /\ next <= Len(s) + 1
        BY <3>1, <3>2, <3>3, <1>3
      <4>4. QED
        BY <4>1, <4>2, <4>3
    <3>8. t[i].block = c
      BY <3>1 DEF c
    <3>9. QED
      BY <3>2, <3>3, <3>5, <3>6, <3>7, <3>8, <1>3
  <2>2. CASE i > Len(s)
    <3>1. i - Len(s) \in 1 .. Size(b) /\ t[i] = [block |-> b, at |-> i - Len(s)]
      <4>1. i - Len(s) \in 1 .. Size(b)
        BY <1>2, <1>3, <2>2
      <4>2. t[Len(s) + (i - Len(s))] = [block |-> b, at |-> i - Len(s)]
        BY <4>1, <1>3
      <4>3. QED
        BY <4>1, <4>2, <1>3
    <3>2. i = Len(s) + 1 /\ t[i].block = b
      BY <3>1, <1>3, <1>5
    <3>3. \A a \in 1 .. Size(b) : t[i + a - 1] = [block |-> b, at |-> a]
      <4> SUFFICES ASSUME NEW a \in 1 .. Size(b) PROVE t[i + a - 1] = [block |-> b, at |-> a]
        OBVIOUS
      <4>1. i + a - 1 = Len(s) + a
        BY <3>2, <1>2, <1>3
      <4>2. QED
        BY <4>1, <1>3
    <3>4. QED
      BY <3>2, <3>3, <1>1, <1>2, <1>3
  <2>3. QED
    BY <2>1, <2>2, <1>3
<1>6. DataStream(t, from, to + Len(u))
  BY <1>4, <1>5 DEF DataStream
<1>7. QED
  BY <1>6 DEF t, b

\* The reader takes the first block.
LEMMA FirstBlock ==
    ASSUME package \in Packages, NEW s \in Seq(Units), s # <<>>, NEW from \in Nat, NEW to \in Nat,
           DataStream(s, from, to),
           NEW b, b = s[1].block
    PROVE  /\ b \in Blocks /\ b.kind = "data" /\ b.data # <<>> /\ Numbered(b.data, from)
           /\ Size(b) \in 1 .. Len(s) /\ First(s, Size(b)) = Frame(b)
           /\ DataStream(From(s, Size(b)), from + Len(b.data), to)
           /\ from + Len(b.data) <= to
<1>1. Len(s) \in Nat \ {0} /\ 1 \in 1 .. Len(s)
  BY EmptySeq
<1>2. s[1].at = 1 /\ Before(b) = from
  BY DEF DataStream
<1>3. /\ b \in Blocks /\ b.kind = "data" /\ b.data # <<>> /\ Numbered(b.data, from)
      /\ 1 + Size(b) <= Len(s) + 1
      /\ \A a \in 1 .. Size(b) : s[1 + a - 1] = [block |-> b, at |-> a]
      /\ After(b) <= to
      /\ IF 1 + Size(b) > Len(s) THEN After(b) = to
         ELSE s[1 + Size(b)].at = 1 /\ Before(s[1 + Size(b)].block) = After(b)
  BY <1>1, <1>2 DEF DataStream
<1>4. Size(b) \in Nat /\ Size(b) >= 1
  BY <1>3, Sizes, ConstantFacts
<1>5. Size(b) \in 1 .. Len(s) /\ Size(b) \in 0 .. Len(s)
  BY <1>1, <1>3, <1>4
<1>6. After(b) = from + Len(b.data)
  BY <1>2, <1>3, BlockNumbers
<1>7. First(s, Size(b)) = Frame(b)
  <2>1. /\ First(s, Size(b)) \in Seq(Units) /\ Len(First(s, Size(b))) = Size(b)
        /\ \A i \in 1 .. Size(b) : First(s, Size(b))[i] = s[i]
    BY <1>5, Pieces
  <2>2. /\ Frame(b) \in Seq(Units) /\ Len(Frame(b)) = Size(b)
        /\ \A i \in 1 .. Size(b) : Frame(b)[i] = [block |-> b, at |-> i]
    BY <1>3, Frames
  <2>3. \A i \in 1 .. Size(b) : s[i] = [block |-> b, at |-> i]
    <3> SUFFICES ASSUME NEW i \in 1 .. Size(b) PROVE s[i] = [block |-> b, at |-> i]
      OBVIOUS
    <3>1. 1 + i - 1 = i
      BY <1>4
    <3>2. QED
      BY <3>1, <1>3
  <2>4. \A i \in 1 .. Size(b) : First(s, Size(b))[i] = Frame(b)[i]
    BY <2>1, <2>2, <2>3
  <2>5. QED
    BY <2>1, <2>2, <2>4, SeqEqual
<1>8. DataStream(From(s, Size(b)), from + Len(b.data), to)
  <2> DEFINE t == From(s, Size(b))
             n == Size(b)
  <2>1. /\ t \in Seq(Units) /\ Len(t) = Len(s) - n /\ Len(t) \in Nat
        /\ \A i \in 1 .. Len(s) - n : t[i] = s[n + i]
    <3>1. /\ From(s, Size(b)) \in Seq(Units) /\ Len(From(s, Size(b))) = Len(s) - Size(b)
          /\ \A i \in 1 .. Len(s) - Size(b) : From(s, Size(b))[i] = s[Size(b) + i]
      BY <1>5, Pieces
    <3>2. Len(From(s, Size(b))) \in Nat
      BY <1>1, <1>5, <3>1
    <3>3. QED
      BY <3>1, <3>2
  <2>2. n \in Nat /\ Len(s) \in Nat /\ n <= Len(s)
    BY <1>1, <1>5
  <2> HIDE DEF t, n
  <2>3. IF t = <<>> THEN After(b) = to ELSE t[1].at = 1 /\ Before(t[1].block) = After(b)
    <3>1. CASE t = <<>>
      <4>1. Len(t) = 0
        BY <3>1
      <4>2. 1 + n > Len(s)
        BY <4>1, <2>1, <2>2
      <4>3. QED
        BY <3>1, <4>2, <1>3 DEF n
    <3>2. CASE t # <<>>
      <4>1. Len(t) > 0
        BY <3>2, <2>1, EmptySeq
      <4>2. t[1] = s[n + 1] /\ ~(1 + n > Len(s)) /\ n + 1 = 1 + n
        BY <4>1, <2>1, <2>2
      <4>3. s[1 + n].at = 1 /\ Before(s[1 + n].block) = After(b)
        BY <4>2, <1>3 DEF n
      <4>4. QED
        BY <3>2, <4>2, <4>3
    <3>3. QED
      BY <3>1, <3>2
  <2>4. ASSUME NEW i \in 1 .. Len(t), t[i].at = 1
        PROVE  LET c == t[i].block
                   next == i + Size(c)
               IN  /\ c \in Blocks /\ c.kind = "data" /\ c.data # <<>> /\ Numbered(c.data, Before(c))
                   /\ next <= Len(t) + 1
                   /\ \A a \in 1 .. Size(c) : t[i + a - 1] = [block |-> c, at |-> a]
                   /\ After(c) <= to
                   /\ IF next > Len(t) THEN After(c) = to
                                       ELSE t[next].at = 1 /\ Before(t[next].block) = After(c)
    <3> DEFINE c == s[n + i].block
               next == n + i + Size(c)
    <3>1. n + i \in 1 .. Len(s) /\ t[i] = s[n + i] /\ s[n + i].at = 1
      BY <2>1, <2>2, <2>4
    <3>2. /\ c \in Blocks /\ c.kind = "data" /\ c.data # <<>> /\ Numbered(c.data, Before(c))
          /\ next <= Len(s) + 1
          /\ \A a \in 1 .. Size(c) : s[n + i + a - 1] = [block |-> c, at |-> a]
          /\ After(c) <= to
          /\ IF next > Len(s) THEN After(c) = to
                              ELSE s[next].at = 1 /\ Before(s[next].block) = After(c)
      BY <3>1 DEF DataStream
    <3>3. Size(c) \in Nat /\ Size(c) >= 1
      BY <3>2, Sizes, ConstantFacts
    <3> HIDE DEF c
    <3>4. \A a \in 1 .. Size(c) : t[i + a - 1] = [block |-> c, at |-> a]
      <4> SUFFICES ASSUME NEW a \in 1 .. Size(c) PROVE t[i + a - 1] = s[n + i + a - 1]
        BY <3>2
      <4>1. i + a - 1 \in 1 .. Len(s) - n /\ n + (i + a - 1) = n + i + a - 1
        BY <2>1, <2>2, <3>1, <3>2, <3>3
      <4>2. QED
        BY <4>1, <2>1
    <3>5. IF i + Size(c) > Len(t) THEN After(c) = to
          ELSE t[i + Size(c)].at = 1 /\ Before(t[i + Size(c)].block) = After(c)
      <4>1. CASE i + Size(c) > Len(t)
        <5>1. next > Len(s)
          BY <4>1, <2>1, <2>2, <3>3
        <5>2. QED
          BY <4>1, <5>1, <3>2
      <4>2. CASE ~(i + Size(c) > Len(t))
        <5>1. ~(next > Len(s)) /\ i + Size(c) \in 1 .. Len(s) - n /\ n + (i + Size(c)) = next
          BY <4>2, <2>1, <2>2, <3>3
        <5>2. t[i + Size(c)] = s[next]
          BY <5>1, <2>1
        <5>3. QED
          BY <4>2, <5>1, <5>2, <3>2
      <4>3. QED
        BY <4>1, <4>2
    <3>6. t[i].block = c /\ i + Size(c) <= Len(t) + 1
      <4>1. t[i].block = c
        BY <3>1 DEF c
      <4>2. i + Size(c) <= Len(t) + 1
        BY <3>2, <3>3, <2>1, <2>2
      <4>3. QED
        BY <4>1, <4>2
    <3>7. QED
      BY <3>2, <3>4, <3>5, <3>6
  <2>5. DataStream(t, After(b), to)
    BY <2>3, <2>4 DEF DataStream
  <2>6. QED
    BY <2>5, <1>6 DEF t, n
<1>9. QED
  BY <1>3, <1>5, <1>6, <1>7, <1>8

\* A stream does not go back.
LEMMA StreamBounds ==
    ASSUME package \in Packages, NEW s \in Seq(Units), NEW from \in Nat, NEW to \in Nat,
           DataStream(s, from, to)
    PROVE  from <= to
<1>1. CASE s = <<>>
  BY <1>1, NothingSent
<1>2. CASE s # <<>>
  <2>1. PICK b : b = s[1].block
    OBVIOUS
  <2>2. b \in Blocks /\ b.kind = "data" /\ b.data # <<>> /\ from + Len(b.data) <= to
    BY <1>2, <2>1, FirstBlock
  <2>3. Len(b.data) \in Nat
    BY <2>2, BlockNumbers
  <2>4. QED
    BY <2>2, <2>3
<1>3. QED
  BY <1>1, <1>2

-----------------------------------------------------------------------------
(***************************************************************************)
(* Filters                                                                 *)
(***************************************************************************)

\* A filter that deals with an event.
Fresh(f) ==
    f \in FilterTypes /\ f.posted = "none" /\ f.completed = "none" /\ f.got = <<>> /\ ~f.threw

\* What a read or a write of the transport's is, and the context.
Kept(f, g) ==
    /\ g \in FilterTypes
    /\ g.mPreState = f.mPreState /\ g.mBytesRequestedOrig = f.mBytesRequestedOrig
    /\ g.mWriteByteBufferOrig = f.mWriteByteBufferOrig

\* A read below is posted.
LEMMA ReadPosted ==
    ASSUME NEW f, Fresh(f), NEW raw \in Seq(Units), NEW len \in Nat
    PROVE  LET g == PostRead(f, raw, len) IN
           /\ Kept(f, g) /\ g.mContextState = f.mContextState
           /\ g.posted = "read" /\ g.mReadBuffer = raw /\ g.mReadBufferLen = len
           /\ g.plain = f.plain /\ g.remaining = f.remaining
           /\ g.completed = "none" /\ g.got = <<>> /\ ~g.threw
BY DEF Fresh, FilterTypes, Kept, PostRead

\* A write below is posted.
LEMMA WritePosted ==
    ASSUME NEW f, Fresh(f), NEW units \in Seq(Units)
    PROVE  LET g == PostWrite(f, units) IN
           /\ Kept(f, g) /\ g.mContextState = f.mContextState
           /\ g.posted = "write" /\ g.mWriteBuffer = units
           /\ g.plain = f.plain /\ g.remaining = f.remaining
           /\ g.completed = "none" /\ g.got = <<>> /\ ~g.threw
BY DEF Fresh, FilterTypes, Kept, PostWrite

\* A filter that throws completes nothing.
LEMMA Thrown ==
    ASSUME NEW f, Fresh(f)
    PROVE  LET g == Throw(f) IN
           /\ Kept(f, g) /\ g.mContextState = f.mContextState
           /\ g.posted = "none" /\ g.plain = f.plain /\ g.remaining = f.remaining
           /\ g.completed = "none" /\ g.got = <<>> /\ g.threw
BY DEF Fresh, FilterTypes, Kept, Throw

\* The parts of numbered units are numbered.
LEMMA NumbersCut ==
    ASSUME NEW s \in Seq(Nat), NEW from \in Nat, Numbered(s, from), NEW n \in 0 .. Len(s)
    PROVE  Numbered(First(s, n), from) /\ Numbered(From(s, n), from + n)
<1>1. /\ Len(First(s, n)) = n /\ Len(From(s, n)) = Len(s) - n /\ Len(s) \in Nat
      /\ \A i \in 1 .. n : First(s, n)[i] = s[i]
      /\ \A i \in 1 .. Len(s) - n : From(s, n)[i] = s[n + i]
  BY Pieces
<1>2. Numbered(First(s, n), from)
  BY <1>1 DEF Numbered
<1>3. ASSUME NEW i \in 1 .. Len(From(s, n)) PROVE From(s, n)[i] = (from + n) + i
  <2>1. n + i \in 1 .. Len(s) /\ i \in 1 .. Len(s) - n /\ i \in Int
    BY <1>1
  <2>2. s[n + i] = from + (n + i)
    BY <2>1 DEF Numbered
  <2>3. QED
    BY <1>1, <2>1, <2>2
<1>4. QED
  BY <1>2, <1>3 DEF Numbered

\* What a read makes of a filter f: g.  Of the stream, w is what f does not hold;
\* the units after `from' are to be read.
ReadOutcome(f, g, w, from, to) ==
    /\ Kept(f, g) /\ g.mContextState = f.mContextState
    /\ g.posted \in {"none", "read"}
    /\ g.posted = "read" \/ g.threw => g.completed = "none" /\ g.got = <<>>
    /\ ~g.threw =>
          /\ FilterOK(g) /\ Numbered(g.got, from) /\ Numbered(g.plain, from + Len(g.got))
          /\ DataStream(HeldBy(g) \o w, (from + Len(g.got)) + Len(g.plain), to)
          /\ g.posted = "none" => g.completed = "read" /\ Len(g.got) \in 1 .. f.mBytesRequestedOrig

\* A read is served from the decrypted block.
LEMMA PlainServed ==
    ASSUME NEW f, Fresh(f), f.mContextState = "AuthOkAck", f.plain # <<>>, f.mBytesRequestedOrig # 0,
           f.remaining # <<>> => package.schannel,
           NEW w \in Seq(Units), NEW from \in Nat, NEW to \in Nat,
           Numbered(f.plain, from), DataStream(f.remaining \o w, from + Len(f.plain), to)
    PROVE  ReadOutcome(f, ServePlain(f), w, from, to)
<1> DEFINE n == Least(f.mBytesRequestedOrig, Len(f.plain))
           g == ServePlain(f)
<1>1. /\ f.plain \in Seq(Nat) /\ Len(f.plain) \in Nat \ {0} /\ f.mBytesRequestedOrig \in Nat \ {0}
  BY EmptySeq DEF Fresh, FilterTypes
<1>2. n \in 1 .. f.mBytesRequestedOrig /\ n \in 0 .. Len(f.plain)
  BY <1>1 DEF Least
<1> HIDE DEF n
<1>3. g = [f EXCEPT !.completed = "read", !.got = First(f.plain, n), !.plain = From(f.plain, n)]
  BY DEF ServePlain, n
<1>4. /\ First(f.plain, n) \in Seq(Nat) /\ Len(First(f.plain, n)) = n
      /\ From(f.plain, n) \in Seq(Nat) /\ Len(From(f.plain, n)) = Len(f.plain) - n
  BY <1>1, <1>2, Pieces
<1> HIDE DEF g
<1>5. /\ Kept(f, g) /\ g.mContextState = f.mContextState /\ g.posted = "none" /\ ~g.threw
      /\ g.completed = "read" /\ g.got = First(f.plain, n) /\ g.plain = From(f.plain, n)
      /\ g.remaining = f.remaining
  BY <1>3, <1>4 DEF Fresh, FilterTypes, Kept
<1>6. Numbered(g.got, from) /\ Numbered(g.plain, from + Len(g.got))
  <2>1. Numbered(First(f.plain, n), from) /\ Numbered(From(f.plain, n), from + n)
    BY <1>1, <1>2, NumbersCut
  <2>2. QED
    BY <1>4, <1>5, <2>1
<1>7. (from + Len(g.got)) + Len(g.plain) = from + Len(f.plain)
  <2>1. Len(g.got) = n /\ Len(g.plain) = Len(f.plain) - n
    BY <1>4, <1>5
  <2>2. n \in Int /\ Len(f.plain) \in Int
    BY <1>1, <1>2
  <2>3. \A l, m \in Int : (from + m) + (l - m) = from + l
    OBVIOUS
  <2>4. QED
    BY <2>1, <2>2, <2>3
<1>8. DataStream(HeldBy(g) \o w, (from + Len(g.got)) + Len(g.plain), to)
  BY <1>5, <1>7 DEF HeldBy
<1>9. FilterOK(g)
  BY <1>5 DEF FilterOK
<1>10. Len(g.got) \in 1 .. f.mBytesRequestedOrig
  BY <1>2, <1>4, <1>5
<1>11. ReadOutcome(f, g, w, from, to)
  BY <1>5, <1>6, <1>8, <1>9, <1>10 DEF ReadOutcome
<1>12. QED
  BY <1>11 DEF g

\* The read goes on below.
LEMMA ReadGoesOn ==
    ASSUME NEW f, Fresh(f), NothingHeld(f), f.mPreState = "Reading", f.mBytesRequestedOrig # 0,
           NEW raw \in Seq(Units), NEW len \in Nat,
           ~package.schannel => BlockPending(PostRead(f, raw, len)),
           NEW w \in Seq(Units), NEW from \in Nat, NEW to \in Nat, DataStream(raw \o w, from, to)
    PROVE  ReadOutcome(f, PostRead(f, raw, len), w, from, to)
<1> DEFINE g == PostRead(f, raw, len)
<1>1. /\ Kept(f, g) /\ g.mContextState = f.mContextState
      /\ g.posted = "read" /\ g.mReadBuffer = raw /\ g.mReadBufferLen = len
      /\ g.plain = <<>> /\ g.remaining = <<>>
      /\ g.completed = "none" /\ g.got = <<>> /\ ~g.threw
  BY ReadPosted DEF NothingHeld
<1> HIDE DEF g
<1>2. FilterOK(g)
  BY <1>1 DEF FilterOK, NothingHeld, Kept, g
<1>3. Numbered(g.got, from) /\ Numbered(g.plain, from + Len(g.got))
  BY <1>1 DEF Numbered
<1>4. HeldBy(g) = raw /\ (from + Len(g.got)) + Len(g.plain) = from
  BY <1>1 DEF HeldBy
<1>5. ReadOutcome(f, g, w, from, to)
  BY <1>1, <1>2, <1>3, <1>4 DEF ReadOutcome
<1>6. QED
  BY <1>5 DEF g

\* A read that fails says nothing of the stream.
LEMMA ReadFails ==
    ASSUME NEW f, Fresh(f), NEW w, NEW from, NEW to
    PROVE  ReadOutcome(f, Throw(f), w, from, to)
BY Thrown DEF ReadOutcome

\* A record is decrypted, and what lies behind it is kept.
LEMMA RecordDecrypted ==
    ASSUME package \in Packages, package.schannel,
           NEW f, Fresh(f), NothingHeld(f), f.mContextState = "AuthOkAck",
           f.mPreState = "Reading", f.mBytesRequestedOrig # 0,
           NEW raw \in Seq(Units), NEW w \in Seq(Units), NEW from \in Nat, NEW to \in Nat,
           DataStream(raw \o w, from, to)
    PROVE  ReadOutcome(f, DecryptRecord(f, raw), w, from, to)
<1>1. CASE Incomplete(raw)
  <2>1. Len(raw) + ReadAhead \in Nat
    BY ConstantFacts, LenProperties
  <2>2. DecryptRecord(f, raw) = PostRead(f, raw, Len(raw) + ReadAhead)
    BY <1>1 DEF DecryptRecord, ReadMore
  <2>3. QED
    BY <2>1, <2>2, ReadGoesOn
<1>2. CASE ~Incomplete(raw)
  <2> DEFINE b == raw[1].block
             s == raw \o w
  <2>1. raw # <<>> /\ ~(Len(raw) < Size(b)) /\ Len(raw) \in Nat /\ 1 \in 1 .. Len(raw)
    BY <1>2, EmptySeq DEF Incomplete
  <2>2. s \in Seq(Units) /\ s # <<>> /\ s[1] = raw[1]
    BY <2>1
  <2>3. /\ b \in Blocks /\ b.kind = "data" /\ b.data # <<>> /\ Numbered(b.data, from)
        /\ DataStream(From(s, Size(b)), from + Len(b.data), to)
    BY <2>2, FirstBlock
  <2>4. Size(b) \in 0 .. Len(raw) /\ b.data \in Seq(Nat)
    BY <2>1, <2>3, Sizes, BlockNumbers
  <2> HIDE DEF b
  <2>5. From(s, Size(b)) = From(raw, Size(b)) \o w /\ From(raw, Size(b)) \in Seq(Units)
    BY <2>4, Begins, Pieces
  <2> DEFINE h == [f EXCEPT !.plain = b.data, !.remaining = From(raw, Size(b))]
  <2>6. /\ Fresh(h) /\ Kept(f, h) /\ h.mContextState = f.mContextState
        /\ h.plain = b.data /\ h.remaining = From(raw, Size(b))
    BY <2>4, <2>5 DEF Fresh, FilterTypes, Kept
  <2> HIDE DEF h, s
  <2>7. DataStream(h.remaining \o w, from + Len(h.plain), to)
    BY <2>3, <2>5, <2>6
  <2>8. ReadOutcome(h, ServePlain(h), w, from, to)
    BY <2>3, <2>6, <2>7, PlainServed DEF Kept
  <2>9. ReadOutcome(f, ServePlain(h), w, from, to)
    BY <2>6, <2>8 DEF ReadOutcome, Kept
  <2>10. DecryptRecord(f, raw) = ServePlain(h) \/ DecryptRecord(f, raw) = Throw(f)
    BY <1>2 DEF DecryptRecord, h, b
  <2>11. QED
    BY <2>9, <2>10, ReadFails
<1>3. QED
  BY <1>1, <1>2

\* A block is decrypted, and a read served from it.
LEMMA BlockDecrypted ==
    ASSUME package \in Packages,
           NEW f, Fresh(f), NothingHeld(f), f.mContextState = "AuthOkAck",
           f.mPreState = "Reading", f.mBytesRequestedOrig # 0,
           NEW raw \in Seq(Units), NEW w \in Seq(Units), NEW from \in Nat, NEW to \in Nat,
           DataStream(raw \o w, from, to), raw # <<>>
    PROVE  ReadOutcome(f, DecryptBlock(f, raw), w, from, to)
<1> DEFINE b == raw[1].block
           s == raw \o w
<1>1. CASE raw = Frame(b) /\ b.kind = "data"
  <2>1. Len(raw) \in Nat \ {0} /\ 1 \in 1 .. Len(raw)
    BY EmptySeq
  <2>2. s \in Seq(Units) /\ s # <<>> /\ s[1] = raw[1]
    BY <2>1
  <2>3. /\ b \in Blocks /\ b.kind = "data" /\ b.data # <<>> /\ Numbered(b.data, from)
        /\ DataStream(From(s, Size(b)), from + Len(b.data), to)
    BY <2>2, FirstBlock
  <2>4. Size(b) = Len(raw) /\ Size(b) \in 0 .. Len(raw) /\ b.data \in Seq(Nat)
    <3>1. Size(b) = Len(raw)
      BY <1>1, <2>3, Frames
    <3>2. QED
      BY <2>1, <2>3, <3>1, BlockNumbers
  <2> HIDE DEF b
  <2>5. From(s, Size(b)) = w
    <3>1. From(s, Size(b)) = From(raw, Size(b)) \o w /\ From(raw, Size(b)) \in Seq(Units)
          /\ Len(From(raw, Size(b))) = Len(raw) - Size(b)
      BY <2>4, Begins, Pieces
    <3>2. From(raw, Size(b)) = <<>>
      BY <2>1, <2>4, <3>1, EmptySeq
    <3>3. QED
      BY <3>1, <3>2
  <2> DEFINE h == [f EXCEPT !.plain = b.data]
  <2>6. /\ Fresh(h) /\ Kept(f, h) /\ h.mContextState = f.mContextState
        /\ h.plain = b.data /\ h.remaining = <<>>
    BY <2>4 DEF Fresh, FilterTypes, Kept, NothingHeld
  <2> HIDE DEF h, s
  <2>7. DataStream(h.remaining \o w, from + Len(h.plain), to)
    <3>1. <<>> \o w = w
      OBVIOUS
    <3>2. QED
      BY <2>3, <2>5, <2>6, <3>1
  <2>8. ReadOutcome(h, ServePlain(h), w, from, to)
    BY <2>3, <2>6, <2>7, PlainServed DEF Kept
  <2>9. ReadOutcome(f, ServePlain(h), w, from, to)
    BY <2>6, <2>8 DEF ReadOutcome, Kept
  <2>10. DecryptBlock(f, raw) = ServePlain(h)
    BY <1>1 DEF DecryptBlock, h, b
  <2>11. QED
    BY <2>9, <2>10
<1>2. CASE ~(raw = Frame(b) /\ b.kind = "data")
  <2>1. DecryptBlock(f, raw) = Throw(f)
    BY <1>2 DEF DecryptBlock
  <2>2. QED
    BY <2>1, ReadFails
<1>3. QED
  BY <1>1, <1>2

\* A new block is begun.
LEMMA NewBlock ==
    ASSUME package \in Packages, NEW f, Fresh(f)
    PROVE  LET g == ReadNewBlock(f) IN
           \E len \in Nat : g = PostRead(f, <<>>, len) /\ (~package.schannel => BlockPending(g))
<1> DEFINE g == ReadNewBlock(f)
<1>1. PICK len \in Nat : g = PostRead(f, <<>>, len) /\ (~package.schannel => len = HeaderLen)
  <2>1. HeaderLen \in Nat /\ ReadAhead \in Nat
    BY ConstantFacts
  <2>2. QED
    BY <2>1 DEF ReadNewBlock
<1>2. g.mReadBuffer = <<>> /\ g.mReadBufferLen = len
  <2>1. <<>> \in Seq(Units)
    OBVIOUS
  <2>2. QED
    BY <1>1, <2>1 DEF PostRead, Fresh, FilterTypes
<1>3. Len(g.mReadBuffer) = 0 /\ HeaderLen > 0
  BY <1>2, ConstantFacts
<1>4. QED
  BY <1>1, <1>2, <1>3 DEF BlockPending

\* A read with a context, whatever the filter holds.
LEMMA ReadServed ==
    ASSUME package \in Packages,
           NEW f, Fresh(f), f.mContextState = "AuthOkAck", f.mPreState = "Reading",
           f.mBytesRequestedOrig # 0, f.remaining # <<>> => package.schannel,
           NEW w \in Seq(Units), NEW from \in Nat, NEW to \in Nat,
           Numbered(f.plain, from), DataStream(f.remaining \o w, from + Len(f.plain), to)
    PROVE  ReadOutcome(f, ServeRead(f), w, from, to)
<1>1. f.plain \in Seq(Nat) /\ f.remaining \in Seq(Units)
  BY DEF Fresh, FilterTypes
<1>2. CASE f.plain # <<>>
  <2>1. ServeRead(f) = ServePlain(f)
    BY <1>2 DEF ServeRead
  <2>2. QED
    BY <1>2, <2>1, PlainServed
<1>3. CASE f.plain = <<>> /\ f.remaining # <<>>
  <2> DEFINE h == [f EXCEPT !.remaining = <<>>]
  <2>1. ServeRead(f) = DecryptRecord(h, f.remaining)
    BY <1>3 DEF ServeRead
  <2>2. /\ Fresh(h) /\ Kept(f, h) /\ h.mContextState = f.mContextState /\ NothingHeld(h)
    <3>1. <<>> \in Seq(Units)
      OBVIOUS
    <3>2. QED
      BY <1>3, <3>1 DEF Fresh, FilterTypes, Kept, NothingHeld
  <2> HIDE DEF h
  <2>3. DataStream(f.remaining \o w, from, to)
    <3>1. Len(f.plain) = 0 /\ from + 0 = from
      BY <1>3
    <3>2. QED
      BY <3>1
  <2>4. ReadOutcome(h, DecryptRecord(h, f.remaining), w, from, to)
    BY <1>1, <1>3, <2>2, <2>3, RecordDecrypted DEF Kept
  <2>5. QED
    BY <2>1, <2>2, <2>4 DEF ReadOutcome, Kept
<1>4. CASE f.plain = <<>> /\ f.remaining = <<>>
  <2>1. ServeRead(f) = ReadNewBlock(f)
    BY <1>4 DEF ServeRead
  <2>2. PICK len \in Nat : /\ ReadNewBlock(f) = PostRead(f, <<>>, len)
                           /\ ~package.schannel => BlockPending(ReadNewBlock(f))
    BY NewBlock
  <2>3. DataStream(<<>> \o w, from, to)
    <3>1. Len(f.plain) = 0 /\ from + 0 = from
      BY <1>4
    <3>2. QED
      BY <1>4, <3>1
  <2>4. <<>> \in Seq(Units)
    OBVIOUS
  <2>5. QED
    BY <1>4, <2>1, <2>2, <2>3, <2>4, ReadGoesOn DEF NothingHeld
<1>5. QED
  BY <1>2, <1>3, <1>4

\* A read below is not one that polls.
Waits(f) == f.mPreState = "Reading" => f.mBytesRequestedOrig # 0

\* onReadCompleted, when what has been read of the block is raw.
BlockCame(e, f, raw) ==
    IF package.schannel THEN BlockRead(e, f, raw)
    ELSE IF Len(raw) = HeaderLen /\ f.mReadBufferLen = HeaderLen
         THEN IF BodyLen(raw[1].block) > MaxMessageLength
              THEN Throw(f) ELSE PostRead(f, raw, Size(raw[1].block))
         ELSE IF Len(raw) < f.mReadBufferLen THEN PostRead(f, raw, f.mReadBufferLen)
                                             ELSE BlockRead(e, f, raw)

\* A read that does not poll is dealt with by block.
LEMMA Came ==
    ASSUME NEW e, NEW f, Waits(f), NEW units
    PROVE  OnReadCompleted(e, f, units) = BlockCame(e, f, f.mReadBuffer \o units)
<1> DEFINE raw == f.mReadBuffer \o units
<1>1. ~(f.mPreState = "Reading" /\ f.mBytesRequestedOrig = 0)
  BY DEF Waits
<1> HIDE DEF raw
<1>2. HeaderLen \in Int /\ ~(HeaderLen < HeaderLen)
  BY ConstantFacts
<1>3. CASE /\ ~package.schannel /\ Len(raw) = HeaderLen /\ f.mReadBufferLen = HeaderLen
  <2>1. ~(Len(raw) < f.mReadBufferLen)
    BY <1>2, <1>3
  <2>2. QED
    BY <1>1, <1>3, <2>1 DEF OnReadCompleted, BlockCame, raw
<1>4. CASE /\ ~package.schannel /\ ~(Len(raw) = HeaderLen /\ f.mReadBufferLen = HeaderLen)
           /\ Len(raw) < f.mReadBufferLen
  BY <1>1, <1>4 DEF OnReadCompleted, BlockCame, raw
<1>5. CASE /\ ~package.schannel /\ ~(Len(raw) = HeaderLen /\ f.mReadBufferLen = HeaderLen)
           /\ ~(Len(raw) < f.mReadBufferLen)
  BY <1>1, <1>5 DEF OnReadCompleted, BlockCame, raw
<1>6. CASE package.schannel
  BY <1>1, <1>6 DEF OnReadCompleted, BlockCame, raw
<1>7. QED
  BY <1>3, <1>4, <1>5, <1>6

\* Without Schannel: the length field, more of the block, or the whole of it.
LEMMA BlockStep ==
    ASSUME package \in Packages, ~package.schannel, NEW e, NEW f, Fresh(f), BlockPending(f),
           NEW raw \in Seq(Units), Len(raw) <= f.mReadBufferLen,
           f.mReadBuffer # <<>> => raw # <<>> /\ raw[1] = f.mReadBuffer[1],
           raw # <<>> => /\ raw[1].block \in Blocks
                         /\ raw[1].block.kind # "data" \/ raw[1].block.data # <<>>
    PROVE  LET g == BlockCame(e, f, raw) IN
           \/ g = Throw(f)
           \/ \E len \in Nat : g = PostRead(f, raw, len) /\ BlockPending(g)
           \/ raw # <<>> /\ Len(raw) = Size(raw[1].block) /\ g = BlockRead(e, f, raw)
<1> DEFINE g == BlockCame(e, f, raw)
           len == f.mReadBufferLen
           buf == f.mReadBuffer
           size == Size(raw[1].block)
<1>1. /\ Len(raw) \in Nat /\ len \in Nat /\ Len(buf) \in Nat /\ Len(buf) < len
      /\ len = HeaderLen \/ (buf # <<>> /\ len = Size(buf[1].block))
  BY DEF Fresh, FilterTypes, BlockPending
<1>2. HeaderLen \in Nat \ {0}
  BY ConstantFacts
<1>3. g = IF Len(raw) = HeaderLen /\ len = HeaderLen
          THEN IF BodyLen(raw[1].block) > MaxMessageLength THEN Throw(f) ELSE PostRead(f, raw, size)
          ELSE IF Len(raw) < len THEN PostRead(f, raw, len) ELSE BlockRead(e, f, raw)
  BY DEF BlockCame
<1> HIDE DEF g
<1>4. CASE Len(raw) = HeaderLen /\ len = HeaderLen
  <2>1. raw # <<>>
    BY <1>2, <1>4
  <2>2. size \in Nat /\ Len(raw) < size
    BY <1>2, <1>4, <2>1, Sizes
  <2>3. CASE g = PostRead(f, raw, size)
    <3>1. size = Size(raw[1].block)
      OBVIOUS
    <3> HIDE DEF size
    <3>2. g.mReadBuffer = raw /\ g.mReadBufferLen = size
      BY <2>2, <2>3, ReadPosted
    <3>3. BlockPending(g)
      BY <2>1, <2>2, <3>1, <3>2 DEF BlockPending
    <3>4. QED
      BY <2>2, <2>3, <3>3 DEF g
  <2>4. QED
    BY <1>3, <1>4, <2>3 DEF g
<1>5. CASE ~(Len(raw) = HeaderLen /\ len = HeaderLen) /\ Len(raw) < len
  <2>1. g = PostRead(f, raw, len)
    BY <1>3, <1>5
  <2>2. g.mReadBuffer = raw /\ g.mReadBufferLen = len
    BY <1>1, <2>1, ReadPosted
  <2>3. BlockPending(g)
    BY <1>1, <1>5, <2>2 DEF BlockPending
  <2>4. QED
    BY <1>1, <2>1, <2>3 DEF g
<1>6. CASE ~(Len(raw) = HeaderLen /\ len = HeaderLen) /\ ~(Len(raw) < len)
  <2>1. g = BlockRead(e, f, raw)
    BY <1>3, <1>6
  <2>2. Len(raw) = len
    BY <1>1, <1>6
  <2>3. buf # <<>> /\ len = Size(buf[1].block)
    BY <1>1, <1>6, <2>2
  <2>4. QED
    BY <2>1, <2>2, <2>3 DEF g
<1>7. QED
  BY <1>4, <1>5, <1>6

\* Units have come, with a context: ReadOutcome is what becomes of them.
LEMMA DataCompleted ==
    ASSUME package \in Packages, NEW e, NEW f, Fresh(f), NothingHeld(f),
           f.mContextState = "AuthOkAck", f.mPreState = "Reading", f.mBytesRequestedOrig # 0,
           NEW raw \in Seq(Units), f.mReadBuffer # <<>> => raw # <<>> /\ raw[1] = f.mReadBuffer[1],
           ~package.schannel => BlockPending(f) /\ Len(raw) <= f.mReadBufferLen,
           NEW w \in Seq(Units), NEW from \in Nat, NEW to \in Nat,
           DataStream(raw \o w, from, to)
    PROVE  ReadOutcome(f, BlockCame(e, f, raw), w, from, to)
<1>1. raw \o w \in Seq(Units)
  OBVIOUS
<1>2. CASE package.schannel
  <2>1. BlockCame(e, f, raw) = DecryptRecord(f, raw)
    BY <1>2 DEF BlockCame, BlockRead
  <2>2. QED
    BY <1>1, <1>2, <2>1, RecordDecrypted
<1>3. CASE ~package.schannel
  <2>1. raw # <<>> => /\ raw[1].block \in Blocks /\ raw[1].block.kind = "data"
                      /\ raw[1].block.data # <<>>
    <3>1. SUFFICES ASSUME raw # <<>>
                   PROVE  /\ raw[1].block \in Blocks /\ raw[1].block.kind = "data"
                          /\ raw[1].block.data # <<>>
      OBVIOUS
    <3>2. raw \o w # <<>> /\ (raw \o w)[1] = raw[1]
      BY <1>1, <3>1
    <3>3. QED
      BY <1>1, <3>2, FirstBlock
  <2> DEFINE g == BlockCame(e, f, raw)
  <2>2. \/ g = Throw(f)
        \/ \E len \in Nat : g = PostRead(f, raw, len) /\ BlockPending(g)
        \/ raw # <<>> /\ Len(raw) = Size(raw[1].block) /\ g = BlockRead(e, f, raw)
    BY <1>3, <2>1, BlockStep
  <2>3. CASE g = Throw(f)
    BY <2>3, ReadFails
  <2>4. CASE \E len \in Nat : g = PostRead(f, raw, len) /\ BlockPending(g)
    BY <1>1, <2>4, ReadGoesOn
  <2>5. CASE raw # <<>> /\ g = BlockRead(e, f, raw)
    <3>1. g = DecryptBlock(f, raw)
      BY <1>3, <2>5 DEF BlockRead
    <3>2. QED
      BY <1>1, <2>5, <3>1, BlockDecrypted
  <2>6. QED
    BY <2>2, <2>3, <2>4, <2>5
<1>4. QED
  BY <1>2, <1>3

\* What a filter makes of a block of the handshake.
HandshakeStep(e, f, b) ==
    CASE ~package.schannel /\ e = "client" -> ClientHandshake(f, b)
      [] ~package.schannel /\ e = "server" -> ServerHandshake(f, b)
      [] package.schannel /\ e = "client" -> InitializeContext(f, b.token)
      [] package.schannel /\ e = "server" ->
            IF b.token = refused
            THEN PostWrite(f, <<>>)
            ELSE PostWrite([f EXCEPT !.mContextState =
                                IF Accepted(b.token) THEN "AuthOk" ELSE "AuthContinue"],
                           Frame(Token(b.token + 1)))

\* Units have come, without a context: the read goes on, fails, or the block is whole.
LEMMA HandshakeBlock ==
    ASSUME package \in Packages, NEW e \in Ends, NEW f, Fresh(f), f.mContextState # "AuthOkAck",
           NEW raw \in Seq(Units), f.mReadBuffer # <<>> => raw # <<>> /\ raw[1] = f.mReadBuffer[1],
           ~package.schannel => BlockPending(f) /\ Len(raw) <= f.mReadBufferLen,
           NEW b \in Blocks, b.kind # "data",
           raw # <<>> => raw[1].block = b, Len(raw) <= Size(b)
    PROVE  LET g == BlockCame(e, f, raw) IN
           \/ g = Throw(f)
           \/ \E len \in Nat : g = PostRead(f, raw, len) /\ (~package.schannel => BlockPending(g))
           \/ Len(raw) = Size(b) /\ g = HandshakeStep(e, f, b)
<1> DEFINE g == BlockCame(e, f, raw)
<1>1. CASE ~package.schannel
  <2>1. \/ g = Throw(f)
        \/ \E len \in Nat : g = PostRead(f, raw, len) /\ BlockPending(g)
        \/ raw # <<>> /\ Len(raw) = Size(raw[1].block) /\ g = BlockRead(e, f, raw)
    BY <1>1, BlockStep
  <2>2. CASE raw # <<>> /\ Len(raw) = Size(raw[1].block) /\ g = BlockRead(e, f, raw)
    <3>1. raw[1].block = b
      BY <2>2
    <3>2. g = HandshakeStep(e, f, b)
      BY <1>1, <2>2, <3>1 DEF BlockRead, HandshakeStep, Ends
    <3>3. QED
      BY <2>2, <3>1, <3>2
  <2>3. QED
    BY <1>1, <2>1, <2>2
<1>2. CASE package.schannel
  <2>1. g = BlockRead(e, f, raw)
    BY <1>2 DEF BlockCame
  <2>2. CASE Incomplete(raw)
    <3>1. g = ReadMore(f, raw)
      BY <1>2, <2>1, <2>2 DEF BlockRead, Ends, ClientHandshakeSchannel, ServerHandshakeSchannel, OneToken
    <3>2. Len(raw) + ReadAhead \in Nat
      BY ConstantFacts, LenProperties
    <3>3. QED
      BY <1>2, <3>1, <3>2 DEF ReadMore
  <2>3. CASE ~Incomplete(raw)
    <3>1. raw # <<>> /\ ~(Len(raw) < Size(raw[1].block))
      BY <2>3 DEF Incomplete
    <3>2. raw[1].block = b /\ Len(raw) \in Nat /\ Size(b) \in Nat
      BY <3>1, Sizes, LenProperties
    <3>3. Len(raw) = Size(b)
      BY <3>1, <3>2
    <3>4. g = HandshakeStep(e, f, b)
      BY <1>2, <2>1, <2>3, <3>2, <3>3
         DEF BlockRead, HandshakeStep, Ends, ClientHandshakeSchannel, ServerHandshakeSchannel, OneToken
    <3>5. QED
      BY <3>3, <3>4
  <2>4. QED
    BY <2>2, <2>3
<1>3. QED
  BY <1>1, <1>2

\* The block is what the stream consists of.
LEMMA OneBlock ==
    ASSUME package \in Packages, NEW b \in Blocks,
           NEW raw \in Seq(Units), NEW w \in Seq(Units), raw \o w = Frame(b)
    PROVE  /\ raw # <<>> => raw[1].block = b
           /\ Len(raw) <= Size(b)
           /\ Len(raw) = Size(b) => raw = Frame(b) /\ w = <<>>
<1>1. Len(Frame(b)) = Size(b) /\ Size(b) \in Nat /\ Frame(b)[1].block = b
  BY Frames, Sizes
<1>2. \A s, t \in Seq(Units) :
          /\ Len(s \o t) = Len(s) + Len(t) /\ Len(s) \in Nat /\ Len(t) \in Nat
          /\ s # <<>> => (s \o t)[1] = s[1]
          /\ Len(t) = 0 => t = <<>> /\ s \o t = s
  OBVIOUS
<1>3. /\ Len(raw) + Len(w) = Size(b) /\ Len(raw) \in Nat /\ Len(w) \in Nat
      /\ raw # <<>> => Frame(b)[1] = raw[1]
      /\ Len(w) = 0 => w = <<>> /\ raw = Frame(b)
  <2>1. /\ Len(raw \o w) = Len(raw) + Len(w) /\ Len(raw) \in Nat /\ Len(w) \in Nat
        /\ raw # <<>> => (raw \o w)[1] = raw[1]
        /\ Len(w) = 0 => w = <<>> /\ raw \o w = raw
    BY <1>2, Zenon
  <2>2. QED
    BY <1>1, <2>1, Zenon
<1>4. QED
  BY <1>1, <1>3

\* An operation that moved nothing is posted again.
LEMMA NothingCame ==
    ASSUME package \in Packages, NEW e \in Ends, NEW f, Fresh(f), ~package.schannel => BlockPending(f),
           f.mReadBuffer = <<>>
    PROVE  LET g == BlockCame(e, f, <<>>) IN
           \E len \in Nat : g = PostRead(f, <<>>, len) /\ (~package.schannel => BlockPending(g))
<1> DEFINE g == BlockCame(e, f, <<>>)
<1>1. Len(<<>>) = 0 /\ <<>> \in Seq(Units)
  OBVIOUS
<1>2. HeaderLen \in Nat \ {0} /\ ReadAhead \in Nat
  BY ConstantFacts
<1>3. CASE package.schannel
  <2>1. g = BlockRead(e, f, <<>>)
    BY <1>3 DEF BlockCame
  <2>2. g = ReadMore(f, <<>>)
    BY <1>3, <2>1 DEF BlockRead, Ends, ClientHandshakeSchannel, ServerHandshakeSchannel, OneToken,
                      DecryptRecord, Incomplete
  <2>3. QED
    BY <1>1, <1>2, <1>3, <2>2 DEF ReadMore
<1>4. CASE ~package.schannel
  <2>1. 0 < f.mReadBufferLen /\ f.mReadBufferLen \in Nat /\ f.mReadBufferLen = HeaderLen
    BY <1>1, <1>4 DEF Fresh, FilterTypes, BlockPending
  <2>2. g = PostRead(f, <<>>, f.mReadBufferLen)
    BY <1>1, <1>2, <1>4, <2>1 DEF BlockCame
  <2>3. PostRead(f, <<>>, f.mReadBufferLen).mReadBuffer = <<>>
        /\ PostRead(f, <<>>, f.mReadBufferLen).mReadBufferLen = f.mReadBufferLen
    BY <1>1, <2>1 DEF PostRead, Fresh, FilterTypes
  <2>4. BlockPending(g)
    BY <1>1, <2>1, <2>2, <2>3 DEF BlockPending
  <2>5. QED
    BY <2>1, <2>2, <2>4
<1>5. QED
  BY <1>3, <1>4

-----------------------------------------------------------------------------
(***************************************************************************)
(* Reading and writing, in the handshake and after it                      *)
(***************************************************************************)

\* g reads on below, with raw read so far.
Reads(f, g, raw) ==
    /\ Kept(f, g) /\ g.posted = "read" /\ g.mReadBuffer = raw
    /\ g.plain = f.plain /\ g.remaining = f.remaining
    /\ g.completed = "none" /\ g.got = <<>> /\ ~g.threw
    /\ ~package.schannel => BlockPending(g)

\* g writes units below.
Writes(f, g, units) ==
    /\ Kept(f, g) /\ g.posted = "write" /\ g.mWriteBuffer = units
    /\ g.plain = f.plain /\ g.remaining = f.remaining
    /\ g.completed = "none" /\ g.got = <<>> /\ ~g.threw

\* What a read that goes on is.
LEMMA ReadsOn ==
    ASSUME NEW f, Fresh(f), NEW raw \in Seq(Units), NEW len \in Nat, NEW g, g = PostRead(f, raw, len),
           ~package.schannel => BlockPending(g)
    PROVE  Reads(f, g, raw) /\ g.mContextState = f.mContextState
BY ReadPosted DEF Reads

\* What a read of a new block is.
LEMMA NewBlockRead ==
    ASSUME package \in Packages, NEW f, Fresh(f)
    PROVE  Reads(f, ReadNewBlock(f), <<>>) /\ ReadNewBlock(f).mContextState = f.mContextState
<1> DEFINE g == ReadNewBlock(f)
<1>1. PICK len \in Nat : g = PostRead(f, <<>>, len) /\ (~package.schannel => BlockPending(g))
  BY NewBlock
<1>2. <<>> \in Seq(Units)
  OBVIOUS
<1> HIDE DEF g
<1>3. Kept(f, g) /\ g.mContextState = f.mContextState /\ g.posted = "read" /\ g.mReadBuffer = <<>>
      /\ g.plain = f.plain /\ g.remaining = f.remaining
      /\ g.completed = "none" /\ g.got = <<>> /\ ~g.threw
  BY <1>1, <1>2 DEF PostRead, Fresh, FilterTypes, Kept
<1>4. QED
  BY <1>1, <1>3 DEF Reads, g

WithContext(f, c) == [f EXCEPT !.mContextState = c]

\* A new state of the context, and nothing else.
LEMMA ContextTaken ==
    ASSUME NEW f, Fresh(f), NEW c \in {"AuthContinue", "AuthOk", "AuthOkAck", "AuthFailed"}
    PROVE  LET g == WithContext(f, c) IN
           /\ Fresh(g) /\ Kept(f, g) /\ g.mContextState = c
           /\ g.plain = f.plain /\ g.remaining = f.remaining
BY DEF Fresh, FilterTypes, Kept, WithContext

\* A write with a context, by a filter with or without one.
LEMMA WrittenWith ==
    ASSUME NEW f, Fresh(f), NEW c \in {"AuthContinue", "AuthOk", "AuthOkAck", "AuthFailed"},
           NEW units \in Seq(Units)
    PROVE  LET g == PostWrite(WithContext(f, c), units) IN
           Writes(f, g, units) /\ g.mContextState = c
<1> DEFINE h == WithContext(f, c)
           g == PostWrite(h, units)
<1>1. /\ Fresh(h) /\ Kept(f, h) /\ h.mContextState = c
      /\ h.plain = f.plain /\ h.remaining = f.remaining
  BY ContextTaken
<1> HIDE DEF h
<1>2. /\ Kept(h, g) /\ g.mContextState = h.mContextState
      /\ g.posted = "write" /\ g.mWriteBuffer = units
      /\ g.plain = h.plain /\ g.remaining = h.remaining
      /\ g.completed = "none" /\ g.got = <<>> /\ ~g.threw
  BY <1>1, WritePosted
<1>3. Writes(f, g, units) /\ g.mContextState = c
  BY <1>1, <1>2 DEF Writes, Kept
<1>4. QED
  BY <1>3 DEF h

\* The handshake is over: the operation that has waited for it goes on.
LEMMA ServerResumes ==
    ASSUME package \in Packages, NEW f, Fresh(f), NothingHeld(f), f.mPreState = "Reading"
    PROVE  LET g == ResumeUserIo(Acknowledged(f)) IN
           Reads(f, g, <<>>) /\ g.mContextState = "AuthOkAck"
<1> DEFINE h == Acknowledged(f)
           g == ResumeUserIo(h)
<1>1. /\ Fresh(h) /\ Kept(f, h) /\ h.mContextState = "AuthOkAck"
      /\ h.plain = f.plain /\ h.remaining = f.remaining
  BY ContextTaken DEF Acknowledged, WithContext
<1> HIDE DEF h
<1>2. g = ReadNewBlock(h)
  BY <1>1 DEF ResumeUserIo, ServeRead, NothingHeld, Kept
<1>3. Reads(h, g, <<>>) /\ g.mContextState = h.mContextState
  BY <1>1, <1>2, NewBlockRead
<1>4. Reads(f, g, <<>>) /\ g.mContextState = "AuthOkAck"
  BY <1>1, <1>3 DEF Reads, Kept
<1>5. QED
  BY <1>4 DEF h

\* The client's first buffer is sealed and written.
LEMMA ClientResumes ==
    ASSUME package \in Packages, NEW f, Fresh(f), f.mPreState = "Writing"
    PROVE  LET g == ResumeUserIo(Acknowledged(f)) IN
           Writes(f, g, Frame(Data(f.mWriteByteBufferOrig))) /\ g.mContextState = "AuthOkAck"
<1> DEFINE h == Acknowledged(f)
           g == ResumeUserIo(h)
           u == Frame(Data(f.mWriteByteBufferOrig))
<1>1. Fresh(h) /\ Kept(f, h) /\ h.mContextState = "AuthOkAck"
  BY ContextTaken DEF Acknowledged, WithContext
<1>2. u \in Seq(Units)
  <2>1. Data(f.mWriteByteBufferOrig) \in Blocks
    BY BlockKinds DEF Fresh, FilterTypes
  <2>2. QED
    BY <2>1, Frames
<1>3. g = PostWrite(h, u)
  BY <1>1 DEF ResumeUserIo, StartWrite, Kept
<1> HIDE DEF u
<1>4. h = WithContext(f, "AuthOkAck")
  BY DEF Acknowledged, WithContext
<1>5. Writes(f, g, u) /\ g.mContextState = "AuthOkAck"
  BY <1>2, <1>3, <1>4, WrittenWith
<1>6. QED
  BY <1>5 DEF u

\* The blocks of a handshake are not empty.
LEMMA TokenFrames ==
    ASSUME package \in Packages
    PROVE  /\ \A k \in Nat : Frame(Token(k)) \in Seq(Units) /\ Frame(Token(k)) # <<>>
           /\ \A ok \in BOOLEAN : Frame(Status(ok)) \in Seq(Units) /\ Frame(Status(ok)) # <<>>
BY BlockKinds, Frames

\* A client that has read token k writes the next, or its first buffer.
LEMMA ContextInitialized ==
    ASSUME package \in Packages, NEW f, Fresh(f), f.mPreState = "Writing", NEW k \in Nat
    PROVE  LET g == InitializeContext(f, k) IN
           \/ /\ k + 1 <= package.legs /\ Writes(f, g, Frame(Token(k + 1)))
              /\ g.mContextState = IF k + 1 = package.legs THEN "AuthOk" ELSE "AuthContinue"
           \/ /\ k + 1 > package.legs /\ Writes(f, g, Frame(Data(f.mWriteByteBufferOrig)))
              /\ g.mContextState = "AuthOkAck"
<1>1. package.legs \in Nat /\ k + 1 \in Nat
  BY ConstantFacts
<1>2. CASE k + 1 <= package.legs
  <2> DEFINE c == IF Accepted(k) THEN "AuthOk" ELSE "AuthContinue"
  <2>1. c = IF k + 1 = package.legs THEN "AuthOk" ELSE "AuthContinue"
    BY <1>1, <1>2 DEF Accepted
  <2>2. c \in {"AuthContinue", "AuthOk", "AuthOkAck", "AuthFailed"}
    OBVIOUS
  <2>3. InitializeContext(f, k) = PostWrite(WithContext(f, c), Frame(Token(k + 1)))
    BY <1>2 DEF InitializeContext, Emits, WithContext
  <2>4. Frame(Token(k + 1)) \in Seq(Units)
    BY <1>1, TokenFrames
  <2> HIDE DEF c
  <2>5. Writes(f, InitializeContext(f, k), Frame(Token(k + 1))) /\ InitializeContext(f, k).mContextState = c
    BY <2>2, <2>3, <2>4, WrittenWith
  <2>6. QED
    BY <1>2, <2>1, <2>5
<1>3. CASE ~(k + 1 <= package.legs)
  <2>1. InitializeContext(f, k) = ResumeUserIo(Acknowledged(f))
    BY <1>3 DEF InitializeContext, Emits
  <2>2. QED
    BY <1>1, <1>3, <2>1, ClientResumes
<1>4. QED
  BY <1>2, <1>3

\* What a client makes of a block of the handshake.
LEMMA ClientStep ==
    ASSUME package \in Packages, NEW f, Fresh(f), f.mPreState = "Writing",
           NEW b \in Blocks, b.kind # "data", package.schannel => b.kind = "token"
    PROVE  LET g == HandshakeStep("client", f, b) IN
           \/ g = Throw(f)
           \/ /\ b.kind = "token" /\ b.token + 1 <= package.legs
              /\ Writes(f, g, Frame(Token(b.token + 1)))
              /\ g.mContextState = IF b.token + 1 = package.legs THEN "AuthOk" ELSE "AuthContinue"
           \/ /\ \/ b = Status(TRUE) /\ f.mContextState = "AuthOk"
                 \/ b.kind = "token" /\ b.token + 1 > package.legs
              /\ Writes(f, g, Frame(Data(f.mWriteByteBufferOrig))) /\ g.mContextState = "AuthOkAck"
<1> DEFINE g == HandshakeStep("client", f, b)
<1>1. b.kind = "token" => b.token \in Nat
  BY DEF Blocks
<1>2. \/ b.kind = "token" /\ g = InitializeContext(f, b.token)
      \/ b = Status(TRUE) /\ f.mContextState = "AuthOk" /\ g = ResumeUserIo(Acknowledged(f))
      \/ g = Throw(f)
  <2>1. CASE package.schannel
    BY <2>1 DEF HandshakeStep
  <2>2. CASE ~package.schannel
    BY <2>2 DEF HandshakeStep, ClientHandshake
  <2>3. QED
    BY <2>1, <2>2
<1> HIDE DEF g
<1>3. CASE b.kind = "token" /\ g = InitializeContext(f, b.token)
  BY <1>1, <1>3, ContextInitialized DEF g
<1>4. CASE b = Status(TRUE) /\ f.mContextState = "AuthOk" /\ g = ResumeUserIo(Acknowledged(f))
  BY <1>4, ClientResumes DEF g
<1>5. QED
  BY <1>2, <1>3, <1>4 DEF g

\* What a server makes of token k: a refusal, the next token, or its own good news.
LEMMA ServerStep ==
    ASSUME package \in Packages, NEW f, Fresh(f), NEW k \in 1 .. package.legs, k % 2 = 1
    PROVE  LET g == HandshakeStep("server", f, Token(k)) IN
           \/ ~package.schannel /\ Writes(f, g, Frame(Status(FALSE))) /\ g.mContextState = "AuthFailed"
           \/ package.schannel /\ Writes(f, g, <<>>) /\ g.mContextState = f.mContextState
           \/ /\ k + 1 <= package.legs /\ Writes(f, g, Frame(Token(k + 1)))
              /\ g.mContextState = IF k + 1 = package.legs THEN "AuthOk" ELSE "AuthContinue"
           \/ /\ ~package.schannel /\ k = package.legs
              /\ Writes(f, g, Frame(Status(TRUE))) /\ g.mContextState = "AuthOk"
<1> DEFINE g == HandshakeStep("server", f, Token(k))
           c == IF Accepted(k) THEN "AuthOk" ELSE "AuthContinue"
<1>1. package.legs \in Nat \ {0} /\ k \in Nat /\ k <= package.legs /\ k + 1 \in Nat
  BY ConstantFacts
<1>2. Token(k).token = k
  BY DEF Token
<1>3. /\ k + 1 <= package.legs => c = IF k + 1 = package.legs THEN "AuthOk" ELSE "AuthContinue"
      /\ ~(k + 1 <= package.legs) => c = "AuthOk" /\ k = package.legs
      /\ c \in {"AuthContinue", "AuthOk", "AuthOkAck", "AuthFailed"}
  BY <1>1 DEF Accepted
<1>4. package.schannel => k + 1 <= package.legs
  <2>1. package.schannel => package.legs % 2 = 0
    BY ConstantsAssumption
  <2>2. QED
    BY <1>1, <2>1
<1>5. /\ Frame(Token(k + 1)) \in Seq(Units)
      /\ Frame(Status(TRUE)) \in Seq(Units) /\ Frame(Status(FALSE)) \in Seq(Units)
  BY <1>1, TokenFrames
<1>6. \/ ~package.schannel /\ g = PostWrite(WithContext(f, "AuthFailed"), Frame(Status(FALSE)))
      \/ package.schannel /\ g = PostWrite(f, <<>>)
      \/ k + 1 <= package.legs /\ g = PostWrite(WithContext(f, c), Frame(Token(k + 1)))
      \/ ~package.schannel /\ ~(k + 1 <= package.legs)
         /\ g = PostWrite(WithContext(f, c), Frame(Status(TRUE)))
  <2>1. CASE package.schannel
    BY <1>2, <1>4, <2>1 DEF HandshakeStep, WithContext
  <2>2. CASE ~package.schannel
    BY <1>2, <2>2 DEF HandshakeStep, ServerHandshake, Emits, WithContext
  <2>3. QED
    BY <2>1, <2>2
<1> HIDE DEF g, c
<1>7. CASE ~package.schannel /\ g = PostWrite(WithContext(f, "AuthFailed"), Frame(Status(FALSE)))
  <2>1. Writes(f, g, Frame(Status(FALSE))) /\ g.mContextState = "AuthFailed"
    BY <1>5, <1>7, WrittenWith
  <2>2. QED
    BY <1>7, <2>1 DEF g
<1>8. CASE package.schannel /\ g = PostWrite(f, <<>>)
  <2>1. <<>> \in Seq(Units)
    OBVIOUS
  <2>2. Writes(f, g, <<>>) /\ g.mContextState = f.mContextState
    BY <1>8, <2>1 DEF PostWrite, Fresh, FilterTypes, Kept, Writes
  <2>3. QED
    BY <1>8, <2>2 DEF g
<1>9. CASE k + 1 <= package.legs /\ g = PostWrite(WithContext(f, c), Frame(Token(k + 1)))
  <2>1. Writes(f, g, Frame(Token(k + 1))) /\ g.mContextState = c
    BY <1>3, <1>5, <1>9, WrittenWith
  <2>2. QED
    BY <1>3, <1>9, <2>1 DEF g
<1>10. CASE ~package.schannel /\ ~(k + 1 <= package.legs)
            /\ g = PostWrite(WithContext(f, c), Frame(Status(TRUE)))
  <2>1. Writes(f, g, Frame(Status(TRUE))) /\ g.mContextState = c
    BY <1>3, <1>5, <1>10, WrittenWith
  <2>2. QED
    BY <1>3, <1>10, <2>1 DEF g
<1>11. QED
  BY <1>6, <1>7, <1>8, <1>9, <1>10

\* A write below is done.
LEMMA WriteCompleted ==
    ASSUME package \in Packages, NEW e \in Ends, NEW f, Fresh(f),
           f.mContextState # "AuthOkAck" => NothingHeld(f),
           f.mContextState = "AuthOk" /\ e = "server" => f.mPreState = "Reading",
           NEW n \in 0 .. Len(f.mWriteBuffer)
    PROVE  LET g == OnWriteCompleted(e, f, n)
               rest == From(f.mWriteBuffer, n)
           IN  \/ rest # <<>> /\ Writes(f, g, rest) /\ g.mContextState = f.mContextState
               \/ /\ rest = <<>> /\ f.mContextState = "AuthOkAck"
                  /\ g = [f EXCEPT !.completed = "write"]
               \/ /\ rest = <<>> /\ f.mContextState # "AuthOkAck" /\ Reads(f, g, <<>>)
                  /\ e = "server" => f.mContextState \in {"AuthOk", "AuthContinue"}
                  /\ g.mContextState = IF e = "server" /\ f.mContextState = "AuthOk"
                                       THEN "AuthOkAck" ELSE f.mContextState
               \/ rest = <<>> /\ e = "server" /\ f.mContextState = "AuthFailed" /\ g = Throw(f)
<1> DEFINE g == OnWriteCompleted(e, f, n)
           rest == From(f.mWriteBuffer, n)
<1>1. f.mWriteBuffer \in Seq(Units)
  BY DEF Fresh, FilterTypes
<1>2. rest \in Seq(Units)
  BY <1>1, Pieces
<1> HIDE DEF rest
<1>3. CASE rest # <<>>
  <2>1. g = PostWrite(f, rest)
    BY <1>3 DEF OnWriteCompleted, rest
  <2>2. Writes(f, g, rest) /\ g.mContextState = f.mContextState
    BY <1>2, <2>1, WritePosted DEF Writes
  <2>3. QED
    BY <1>3, <2>2 DEF rest
<1>4. CASE rest = <<>> /\ f.mContextState = "AuthOkAck"
  BY <1>4 DEF OnWriteCompleted, rest
<1>5. CASE rest = <<>> /\ f.mContextState # "AuthOkAck" /\ e = "client"
  <2>1. g = ReadNewBlock(f)
    BY <1>5 DEF OnWriteCompleted, ClientTokenWritten, rest
  <2>2. Reads(f, g, <<>>) /\ g.mContextState = f.mContextState
    BY <2>1, NewBlockRead
  <2>3. QED
    BY <1>5, <2>2 DEF rest
<1>6. CASE rest = <<>> /\ f.mContextState # "AuthOkAck" /\ e = "server"
  <2>1. g = ServerTokenWritten(f)
    BY <1>6 DEF OnWriteCompleted, rest
  <2>2. CASE f.mContextState = "AuthOk"
    <3>1. g = ResumeUserIo(Acknowledged(f))
      BY <2>1, <2>2 DEF ServerTokenWritten
    <3>2. Reads(f, g, <<>>) /\ g.mContextState = "AuthOkAck"
      BY <1>6, <2>2, <3>1, ServerResumes
    <3>3. QED
      BY <1>6, <2>2, <3>2 DEF rest
  <2>3. CASE f.mContextState = "AuthFailed"
    BY <1>6, <2>1, <2>3 DEF ServerTokenWritten, rest
  <2>4. CASE f.mContextState = "AuthContinue"
    <3>1. g = ReadNewBlock(f)
      BY <2>1, <2>4 DEF ServerTokenWritten
    <3>2. Reads(f, g, <<>>) /\ g.mContextState = f.mContextState
      BY <3>1, NewBlockRead
    <3>3. QED
      BY <1>6, <2>4, <3>2 DEF rest
  <2>5. QED
    BY <1>6, <2>2, <2>3, <2>4 DEF Fresh, FilterTypes
<1>7. QED
  BY <1>3, <1>4, <1>5, <1>6 DEF Ends

-----------------------------------------------------------------------------
(***************************************************************************)
(* Events                                                                  *)
(***************************************************************************)

\* The other end.
LEMMA Sides ==
    ASSUME NEW e \in Ends
    PROVE  Peer(e) \in Ends /\ Peer(e) # e /\ Peer(Peer(e)) = e /\ \A d \in Ends : d = e \/ d = Peer(e)
BY DEF Ends, Peer

\* A filter whose completion has been passed on.
Told(g) == [g EXCEPT !.completed = "none", !.got = <<>>]

\* Only the completion has gone.
LEMMA ToldFields ==
    ASSUME NEW g \in FilterTypes
    PROVE  LET f == Told(g) IN
           /\ Kept(g, f) /\ f.mContextState = g.mContextState /\ f.posted = g.posted
           /\ f.mReadBuffer = g.mReadBuffer /\ f.mReadBufferLen = g.mReadBufferLen
           /\ f.mWriteBuffer = g.mWriteBuffer /\ f.plain = g.plain /\ f.remaining = g.remaining
           /\ f.threw = g.threw /\ f.completed = "none" /\ f.got = <<>>
<1>1. <<>> \in Seq(Nat)
  OBVIOUS
<1>2. QED
  BY <1>1 DEF Told, FilterTypes, Kept

\* What is passed on does not matter to what the filter holds.
LEMMA ToldMeans ==
    ASSUME NEW g \in FilterTypes
    PROVE  /\ HeldBy(Told(g)) = HeldBy(g) /\ LeftBy(Told(g)) = LeftBy(g)
           /\ FilterOK(Told(g)) <=> FilterOK(g)
           /\ \A u : Coupled(Told(g), u) <=> Coupled(g, u)
           /\ NothingHeld(Told(g)) <=> NothingHeld(g)
BY ToldFields DEF HeldBy, LeftBy, FilterOK, Coupled, NothingHeld, BlockPending, Kept

\* FilterOK depends on nothing but the package.
LEMMA SameFilterOK ==
    ASSUME UNCHANGED package
    PROVE  \A f : FilterOK(f)' <=> FilterOK(f)
<1>1. \A b : Size(b)' = Size(b)
  BY SamePackage
<1>2. QED
  BY <1>1 DEF FilterOK, BlockPending, NothingHeld

\* What g has completed is what the transport above e waits for.
Matches(e, g) ==
    LET u == user[e]
    IN  /\ ~g.threw => FilterOK(g)
        /\ g.completed # "read" => g.got = <<>>
        /\ g.completed # "none" => g.posted = "none"
        /\ g.completed = "none" => g.threw \/ Coupled(g, u)
        /\ g.completed = "write" => u.phase = "writing"
        /\ g.completed = "read" =>
              /\ u.phase = "reading" /\ Len(g.got) \in 1 .. u.need /\ user[Peer(e)].message > 0

\* e's filter becomes g.
Event(e, g) ==
    /\ e \in up /\ g \in FilterTypes /\ Settle(e, g)
    /\ wire' \in [Ends -> Seq(Units)] /\ sent' \in [Ends -> Nat]
    /\ sent'[Peer(e)] = sent[Peer(e)] /\ sent'[e] >= sent[e] /\ (sent'[e] > 0 => user[e].message > 0)
    /\ calls' \in Nat /\ aborts' \in Nat /\ UNCHANGED <<package, refused>>

\* The transport above takes up a completion it has waited for.
LEMMA Resumption ==
    ASSUME TypesOK, NEW e \in Ends, UserOK(user[e]), NEW g \in FilterTypes, Matches(e, g)
    PROVE  LET u == user[e]
               v == Resumed(e, g)
           IN  /\ v \in UserTypes /\ UserOK(v) /\ v.message = u.message
               /\ ~g.threw => Coupled(g, v)
               /\ g.completed = "none" => v = u
               /\ g.completed = "zero" => v.phase = u.phase
<1> DEFINE u == user[e]
           v == Resumed(e, g)
           need == u.need - Len(g.got)
<1>1. u \in UserTypes /\ user[Peer(e)] \in UserTypes /\ Len(g.got) \in Nat
  BY Sides DEF TypesOK, FilterTypes
<1>2. g.completed \in {"none", "read", "write", "zero"}
  BY DEF FilterTypes
<1> HIDE DEF v
<1>3. g.posted = "none" => Coupled(g, v)
  BY DEF Coupled
<1>4. CASE g.completed = "none"
  <2>1. v = u
    BY <1>4 DEF Resumed, v
  <2>2. QED
    BY <1>1, <1>4, <2>1 DEF Matches, v
<1>5. CASE g.completed = "zero"
  <2>1. v = [u EXCEPT !.polled = TRUE]
    BY <1>5 DEF Resumed, v
  <2>2. /\ v \in UserTypes /\ v.phase = u.phase /\ v.buffers = u.buffers /\ v.message = u.message
        /\ v.part = u.part /\ v.need = u.need
    BY <1>1, <2>1 DEF UserTypes
  <2>3. UserOK(v)
    BY <2>2 DEF UserOK
  <2>4. QED
    BY <1>3, <1>5, <2>2, <2>3 DEF Matches, v
<1>6. CASE g.completed = "write"
  <2> DEFINE b == u.buffers
             t == Tail(b)
  <2>1. u.phase = "writing" /\ b \in Seq(Nat \ {0}) /\ b # <<>> /\ u.message > 0
    BY <1>1, <1>6 DEF Matches, UserOK, UserTypes
  <2>2. Len(b) \in Nat /\ Len(b) # 0 /\ t \in Seq(Nat \ {0}) /\ Len(t) = Len(b) - 1
    <3>1. \A s \in Seq(Nat \ {0}) : s # <<>> =>
              Len(s) \in Nat /\ Len(s) # 0 /\ Tail(s) \in Seq(Nat \ {0}) /\ Len(Tail(s)) = Len(s) - 1
      OBVIOUS
    <3>2. QED
      BY <2>1, <3>1, Zenon
  <2> HIDE DEF b, t
  <2>3. CASE Len(b) > 1
    <3>1. v = [u EXCEPT !.buffers = t]
      <4>1. Len(b) # 1
        BY <2>3
      <4>2. QED
        BY <1>6, <2>3, <4>1 DEF Resumed, v, b, t
    <3>2. t # <<>>
      BY <2>2, <2>3
    <3>3. v \in UserTypes /\ v.phase = "writing" /\ v.buffers = t /\ v.message = u.message
      BY <1>1, <2>1, <2>2, <3>1 DEF UserTypes
    <3>4. UserOK(v)
      BY <2>1, <3>2, <3>3 DEF UserOK
    <3>5. QED
      BY <1>3, <1>6, <3>3, <3>4 DEF Matches, v
  <2>4. CASE Len(b) = 1
    <3>1. v = [NewUser("reading") EXCEPT !.message = u.message]
      BY <1>6, <2>4 DEF Resumed, v, b
    <3>2. /\ v \in UserTypes /\ v.phase = "reading" /\ v.part = "length" /\ v.need = 1
          /\ v.message = u.message
      <4>1. <<>> \in Seq(Nat \ {0})
        OBVIOUS
      <4>2. QED
        BY <1>1, <3>1, <4>1 DEF UserTypes, NewUser
    <3>3. UserOK(v)
      BY <3>2 DEF UserOK
    <3>4. QED
      BY <1>3, <1>6, <3>2, <3>3 DEF Matches, v
  <2>5. QED
    BY <2>2, <2>3, <2>4
<1>7. CASE g.completed = "read"
  <2>1. /\ u.phase = "reading" /\ Len(g.got) \in 1 .. u.need /\ user[Peer(e)].message > 0
        /\ u.need \in Nat
    BY <1>1, <1>7 DEF Matches, UserTypes
  <2>2. need \in Nat
    BY <1>1, <2>1
  <2>3. CASE need > 0
    <3>1. v = [u EXCEPT !.need = need]
      BY <1>7, <2>3 DEF Resumed, v
    <3> HIDE DEF need
    <3>2. v \in UserTypes /\ v.phase = "reading" /\ v.need = need /\ v.message = u.message
      BY <1>1, <2>1, <2>2, <3>1 DEF UserTypes
    <3>3. UserOK(v)
      BY <2>3, <3>2 DEF UserOK
    <3>4. QED
      BY <1>3, <1>7, <3>2, <3>3 DEF Matches, v
  <2>4. CASE need = 0 /\ u.part = "length"
    <3> DEFINE rest == user[Peer(e)].message - 1
    <3>1. v = [u EXCEPT !.part = "data", !.need = rest]
      BY <1>7, <2>4 DEF Resumed, v
    <3>2. rest \in Nat
      BY <1>1, <2>1 DEF UserTypes
    <3> HIDE DEF rest
    <3>3. v \in UserTypes /\ v.phase = "reading" /\ v.part = "data" /\ v.message = u.message
      BY <1>1, <2>1, <3>1, <3>2 DEF UserTypes
    <3>4. UserOK(v)
      BY <3>3 DEF UserOK
    <3>5. QED
      BY <1>3, <1>7, <3>3, <3>4 DEF Matches, v
  <2>5. CASE need = 0 /\ u.part = "data"
    <3> DEFINE ph == IF e = "client" THEN "idle" ELSE "invoking"
    <3>1. v = [u EXCEPT !.phase = ph]
      BY <1>7, <2>5 DEF Resumed, v
    <3>2. ph \in {"idle", "invoking"}
      OBVIOUS
    <3> HIDE DEF ph
    <3>3. v \in UserTypes /\ v.phase = ph /\ v.message = u.message
      BY <1>1, <3>1, <3>2 DEF UserTypes
    <3>4. UserOK(v)
      BY <3>2, <3>3 DEF UserOK
    <3>5. QED
      BY <1>3, <1>7, <3>3, <3>4 DEF Matches, v
  <2>6. QED
    BY <1>1, <2>2, <2>3, <2>4, <2>5 DEF UserTypes
<1>8. QED
  BY <1>2, <1>4, <1>5, <1>6, <1>7

\* An event of e's keeps all but what is about the stream.
LEMMA EventKeeps ==
    ASSUME TypesOK, EndsOK, Safe, NEW e \in Ends, NEW g, Event(e, g), Matches(e, g),
           Numbered(g.got, Len(delivered[e])),
           Len(delivered[e]) + Len(g.got) <= sent[Peer(e)]
    PROVE  /\ TypesOK' /\ EndsOK' /\ Safe'
           /\ filter'[e] = Told(g) /\ filter'[Peer(e)] = filter[Peer(e)]
           /\ user'[e] = Resumed(e, g) /\ user'[Peer(e)] = user[Peer(e)]
           /\ delivered'[e] = delivered[e] \o g.got /\ delivered'[Peer(e)] = delivered[Peer(e)]
           /\ Len(delivered'[e]) = Len(delivered[e]) + Len(g.got)
           /\ up' = IF g.threw THEN up \ {e} ELSE up
<1> DEFINE p == Peer(e)
<1>1. p \in Ends /\ p # e /\ Peer(p) = e /\ \A d \in Ends : d = e \/ d = p
  BY Sides
<1>2. /\ filter \in [Ends -> FilterTypes] /\ user \in [Ends -> UserTypes] /\ g \in FilterTypes
      /\ delivered \in [Ends -> Seq(Nat)] /\ sent \in [Ends -> Nat] /\ up \subseteq Ends
      /\ g.got \in Seq(Nat) /\ package \in Packages /\ refused \in Nat
  BY DEF TypesOK, Event, FilterTypes
<1>3. /\ filter' = [filter EXCEPT ![e] = Told(g)] /\ user' = [user EXCEPT ![e] = Resumed(e, g)]
      /\ delivered' = [delivered EXCEPT ![e] = delivered[e] \o g.got]
      /\ up' = IF g.threw THEN up \ {e} ELSE up
  BY DEF Event, Settle, Told
<1>4. /\ Resumed(e, g) \in UserTypes /\ UserOK(Resumed(e, g))
      /\ Resumed(e, g).message = user[e].message /\ (~g.threw => Coupled(g, Resumed(e, g)))
  BY <1>2, Resumption DEF EndsOK
<1>5. Told(g) \in FilterTypes /\ Told(g).completed = "none" /\ Told(g).got = <<>>
  BY <1>2, ToldFields DEF Kept
<1>6. /\ delivered[e] \o g.got \in Seq(Nat)
      /\ Len(delivered[e] \o g.got) = Len(delivered[e]) + Len(g.got)
      /\ Numbered(delivered[e] \o g.got, 0)
  <2> DEFINE s == delivered[e]
             t == g.got
  <2>1. s \in Seq(Nat) /\ t \in Seq(Nat) /\ Numbered(s, 0) /\ Numbered(t, Len(s))
    BY <1>2 DEF Safe
  <2> HIDE DEF s, t
  <2>2. /\ s \o t \in Seq(Nat) /\ Len(s \o t) = Len(s) + Len(t) /\ Len(s) \in Nat /\ Len(t) \in Nat
        /\ \A i \in 1 .. Len(s) : (s \o t)[i] = s[i]
        /\ \A i \in 1 .. Len(t) : (s \o t)[Len(s) + i] = t[i]
    BY <2>1, Joins
  <2>3. ASSUME NEW i \in 1 .. Len(s \o t) PROVE (s \o t)[i] = 0 + i
    <3>1. CASE i <= Len(s)
      BY <2>1, <2>2, <2>3, <3>1 DEF Numbered
    <3>2. CASE i > Len(s)
      <4>1. i - Len(s) \in 1 .. Len(t) /\ Len(s) + (i - Len(s)) = i
        BY <2>2, <2>3, <3>2
      <4>2. (s \o t)[i] = t[i - Len(s)] /\ t[i - Len(s)] = Len(s) + (i - Len(s))
        BY <2>1, <2>2, <4>1 DEF Numbered
      <4>3. QED
        BY <4>1, <4>2
    <3>3. QED
      BY <2>2, <3>1, <3>2
  <2>4. Numbered(s \o t, 0)
    BY <2>3 DEF Numbered
  <2>5. QED
    BY <2>2, <2>4 DEF s, t
<1>7. /\ filter'[e] = Told(g) /\ filter'[p] = filter[p]
      /\ user'[e] = Resumed(e, g) /\ user'[p] = user[p]
      /\ delivered'[e] = delivered[e] \o g.got /\ delivered'[p] = delivered[p]
  BY <1>1, <1>2, <1>3
<1>8. TypesOK'
  <2>1. filter' \in [Ends -> FilterTypes] /\ user' \in [Ends -> UserTypes]
        /\ delivered' \in [Ends -> Seq(Nat)] /\ up' \subseteq Ends
    BY <1>2, <1>3, <1>4, <1>5, <1>6
  <2>2. \A d \in Ends : filter'[d].completed = "none" /\ filter'[d].got = <<>>
    BY <1>1, <1>5, <1>7 DEF TypesOK
  <2>3. QED
    BY <1>2, <2>1, <2>2 DEF TypesOK, Event
<1>9. EndsOK'
  <2>1. ASSUME NEW d \in up' PROVE FilterOK(filter[d])' /\ Coupled(filter[d], user[d])'
    <3>1. CASE d = e
      <4>1. ~g.threw
        BY <1>3, <2>1, <3>1
      <4>2. FilterOK(Told(g)) /\ Coupled(Told(g), Resumed(e, g))
        BY <1>2, <1>4, <4>1, ToldMeans DEF Matches
      <4>3. FilterOK(filter'[e])
        BY <1>7, <4>2
      <4>4. FilterOK(filter[e])'
        BY <4>3, SameFilterOK DEF Event
      <4>5. Coupled(filter'[e], user'[e])
        BY <1>7, <4>2
      <4>6. QED
        BY <3>1, <4>4, <4>5
    <3>2. CASE d = p
      <4>1. p \in up /\ FilterOK(filter[p]) /\ Coupled(filter[p], user[p])
        BY <1>3, <2>1, <3>2 DEF EndsOK
      <4>2. FilterOK(filter'[p]) /\ Coupled(filter'[p], user'[p])
        BY <1>7, <4>1
      <4>3. FilterOK(filter[p])'
        BY <4>2, SameFilterOK DEF Event
      <4>4. QED
        BY <3>2, <4>2, <4>3
    <3>3. QED
      BY <1>1, <1>2, <1>3, <2>1, <3>1, <3>2
  <2>2. ASSUME NEW d \in Ends PROVE UserOK(user'[d]) /\ (sent'[d] > 0 => user'[d].message > 0)
    <3>1. CASE d = e
      BY <1>4, <1>7, <3>1 DEF Event
    <3>2. CASE d = p
      BY <1>1, <1>7, <3>2 DEF Event, EndsOK
    <3>3. QED
      BY <1>1, <3>1, <3>2
  <2>3. QED
    BY <2>1, <2>2 DEF EndsOK
<1>10. Safe'
  <2>1. /\ sent'[p] = sent[p] /\ sent'[e] >= sent[e] /\ sent'[e] \in Nat /\ sent[e] \in Nat
        /\ Len(delivered[p]) \in Nat
    BY <1>1, <1>2 DEF Event
  <2>2. Numbered(delivered[p], 0) /\ Len(delivered[p]) <= sent[e]
    BY <1>1 DEF Safe
  <2>3. ASSUME NEW d \in Ends PROVE Numbered(delivered'[d], 0) /\ Len(delivered'[d]) <= sent'[Peer(d)]
    <3>1. CASE d = e
      BY <1>6, <1>7, <2>1, <3>1
    <3>2. CASE d = p
      BY <1>1, <1>7, <2>1, <2>2, <3>2
    <3>3. QED
      BY <1>1, <3>1, <3>2
  <2>4. QED
    BY <2>3 DEF Safe
<1>11. QED
  BY <1>3, <1>6, <1>7, <1>8, <1>9, <1>10

-----------------------------------------------------------------------------
(***************************************************************************)
(* With a context at both ends                                             *)
(***************************************************************************)

\* One sequence after the other.
Cat(s, t) == s \o t

\* Sequences of units may be joined in any order.
LEMMA CatFacts ==
    \A a, b, c \in Seq(Units) :
        Cat(a, b) \in Seq(Units) /\ Cat(Cat(a, b), c) = Cat(a, Cat(b, c))
<1>1. SUFFICES ASSUME NEW a \in Seq(Units), NEW b \in Seq(Units), NEW c \in Seq(Units)
               PROVE  Cat(a, b) \in Seq(Units) /\ Cat(Cat(a, b), c) = Cat(a, Cat(b, c))
  OBVIOUS
<1>2. (a \o b) \o c = a \o (b \o c)
  BY ConcatAssociative
<1>3. a \o b \in Seq(Units)
  OBVIOUS
<1>4. QED
  BY <1>2, <1>3, Zenon DEF Cat

\* The same units, grouped in another way.
LEMMA Regrouped ==
    ASSUME NEW h \in Seq(Units), NEW u \in Seq(Units), NEW w \in Seq(Units), NEW l \in Seq(Units)
    PROVE  /\ Cat(Cat(h, u), Cat(w, l)) = Cat(h, Cat(Cat(u, w), l))
           /\ Cat(h, Cat(Cat(w, u), l)) = Cat(h, Cat(w, Cat(u, l)))
<1>1. Cat(w, l) \in Seq(Units)
  BY CatFacts
<1>2. Cat(Cat(h, u), Cat(w, l)) = Cat(h, Cat(u, Cat(w, l)))
  BY <1>1, CatFacts
<1>3. Cat(Cat(u, w), l) = Cat(u, Cat(w, l)) /\ Cat(Cat(w, u), l) = Cat(w, Cat(u, l))
  BY CatFacts
<1>4. QED
  BY <1>2, <1>3

\* The sequences a stream consists of.
LEMMA StreamParts ==
    ASSUME TypesOK, NEW e \in Ends
    PROVE  /\ HeldBy(filter[e]) \in Seq(Units) /\ wire[e] \in Seq(Units)
           /\ LeftBy(filter[e]) \in Seq(Units) /\ filter[e].plain \in Seq(Nat)
           /\ filter[e].mReadBuffer \in Seq(Units) /\ filter[e].mWriteBuffer \in Seq(Units)
           /\ Len(filter[e].plain) \in Nat /\ Len(delivered[e]) \in Nat /\ sent[e] \in Nat
           /\ filter[e] \in FilterTypes
<1>1. filter[e] \in FilterTypes /\ wire[e] \in Seq(Units) /\ delivered[e] \in Seq(Nat) /\ sent[e] \in Nat
  BY DEF TypesOK
<1>2. <<>> \in Seq(Units)
  OBVIOUS
<1>3. filter[e].plain \in Seq(Nat)
  BY <1>1 DEF FilterTypes
<1>4. /\ filter[e].mReadBuffer \in Seq(Units) /\ filter[e].mWriteBuffer \in Seq(Units)
      /\ filter[e].remaining \in Seq(Units)
  BY <1>1 DEF FilterTypes
<1>5. HeldBy(filter[e]) \in Seq(Units) /\ LeftBy(filter[e]) \in Seq(Units)
  BY <1>2, <1>4 DEF HeldBy, LeftBy
<1>6. Len(filter[e].plain) \in Nat /\ Len(delivered[e]) \in Nat
  BY <1>1, <1>3, LenProperties
<1>7. QED
  BY <1>1, <1>3, <1>4, <1>5, <1>6

\* An event that keeps both streams of data keeps the invariant.
LEMMA DataStep ==
    ASSUME FilterInv, filter["client"].mContextState = "AuthOkAck",
           NEW e \in Ends, NEW g, Event(e, g), Matches(e, g), g.mContextState = "AuthOkAck",
           Numbered(g.got, Len(delivered[e])), Len(delivered[e]) + Len(g.got) <= sent[Peer(e)],
           ~g.threw =>
              /\ Numbered(g.plain, Len(delivered[e]) + Len(g.got))
              /\ DataStream(HeldBy(g) \o (wire'[e] \o LeftBy(filter[Peer(e)])),
                            (Len(delivered[e]) + Len(g.got)) + Len(g.plain), sent[Peer(e)]),
           Peer(e) \in up =>
              DataStream(HeldBy(filter[Peer(e)]) \o (wire'[Peer(e)] \o LeftBy(g)),
                         Len(delivered[Peer(e)]) + Len(filter[Peer(e)].plain), sent'[e])
    PROVE  FilterInv'
<1> DEFINE p == Peer(e)
<1>1. p \in Ends /\ p # e /\ Peer(p) = e /\ \A d \in Ends : d = e \/ d = p
  BY Sides
<1>2. /\ TypesOK' /\ EndsOK' /\ Safe'
      /\ filter'[e] = Told(g) /\ filter'[p] = filter[p]
      /\ delivered'[p] = delivered[p] /\ Len(delivered'[e]) = Len(delivered[e]) + Len(g.got)
      /\ up' = IF g.threw THEN up \ {e} ELSE up
  BY EventKeeps DEF FilterInv
<1>3. filter'["client"].mContextState = "AuthOkAck" /\ filter'["server"].mContextState = "AuthOkAck"
  <2>1. \A d \in Ends : filter[d].mContextState = "AuthOkAck"
    BY DEF FilterInv, DataPhase, Ends
  <2>2. Told(g).mContextState = "AuthOkAck"
    BY ToldFields DEF Event
  <2>3. \A d \in Ends : filter'[d].mContextState = "AuthOkAck"
    BY <1>1, <1>2, <2>1, <2>2
  <2>4. QED
    BY <2>3 DEF Ends
<1>4. ASSUME NEW d \in up' PROVE DataFlow(d)'
  <2>1. \A s, from, to : DataStream(s, from, to)' <=> DataStream(s, from, to)
    BY SamePackage DEF Event
  <2>2. CASE d = e
    <3>1. ~g.threw
      BY <1>2, <1>4, <2>2
    <3>2. HeldBy(Told(g)) = HeldBy(g) /\ Told(g).plain = g.plain
      BY ToldMeans, ToldFields DEF Event
    <3>3. /\ Numbered(filter'[e].plain, Len(delivered'[e]))
          /\ DataStream(HeldBy(filter'[e]) \o (wire'[e] \o LeftBy(filter'[p])),
                        Len(delivered'[e]) + Len(filter'[e].plain), sent'[p])
      BY <1>2, <3>1, <3>2 DEF Event
    <3>4. DataStream(HeldBy(filter[e]) \o (wire[e] \o LeftBy(filter[p])),
                     Len(delivered[e]) + Len(filter[e].plain), sent[p])'
      BY <2>1, <3>3
    <3>5. DataFlow(e)'
      BY <3>3, <3>4 DEF DataFlow, Stream
    <3>6. QED
      BY <2>2, <3>5
  <2>3. CASE d = p
    <3>1. p \in up
      BY <1>1, <1>2, <1>4, <2>3
    <3>2. LeftBy(Told(g)) = LeftBy(g)
      BY ToldMeans DEF Event
    <3>3. Numbered(filter'[p].plain, Len(delivered'[p]))
      BY <1>2, <3>1 DEF FilterInv, DataPhase, DataFlow
    <3>4. DataStream(HeldBy(filter'[p]) \o (wire'[p] \o LeftBy(filter'[e])),
                     Len(delivered'[p]) + Len(filter'[p].plain), sent'[e])
      BY <1>2, <3>1, <3>2
    <3>5. DataStream(HeldBy(filter[p]) \o (wire[p] \o LeftBy(filter[e])),
                     Len(delivered[p]) + Len(filter[p].plain), sent[e])'
      BY <2>1, <3>4
    <3>6. DataFlow(p)'
      BY <1>1, <3>3, <3>5 DEF DataFlow, Stream
    <3>7. QED
      BY <2>3, <3>6
  <2>4. QED
    BY <1>1, <1>2, <1>4, <2>2, <2>3 DEF TypesOK
<1>5. QED
  BY <1>2, <1>3, <1>4 DEF FilterInv, DataPhase, Handshake, ServerStates

-----------------------------------------------------------------------------
(***************************************************************************)
(* The events there are                                                    *)
(***************************************************************************)

\* The operation below is done.
Below(f) == [f EXCEPT !.posted = "none"]

\* An open end's filter when the operation below it is done.
LEMMA BelowDone ==
    ASSUME TypesOK, EndsOK, NEW e \in up
    PROVE  LET f == Below(filter[e]) IN
           /\ Fresh(f) /\ Kept(filter[e], f) /\ f.mContextState = filter[e].mContextState
           /\ f.mReadBuffer = filter[e].mReadBuffer /\ f.mReadBufferLen = filter[e].mReadBufferLen
           /\ f.mWriteBuffer = filter[e].mWriteBuffer
           /\ f.plain = filter[e].plain /\ f.remaining = filter[e].remaining
           /\ BlockPending(filter[e]) => BlockPending(f)
           /\ FilterOK(filter[e]) /\ Coupled(filter[e], user[e])
           /\ e \in Ends /\ filter[e] \in FilterTypes /\ user[e] \in UserTypes
<1> DEFINE f == Below(filter[e])
<1>1. /\ e \in Ends /\ filter[e] \in FilterTypes /\ user[e] \in UserTypes
      /\ filter[e].completed = "none" /\ filter[e].got = <<>>
      /\ FilterOK(filter[e]) /\ Coupled(filter[e], user[e])
  BY DEF TypesOK, EndsOK
<1>2. ~filter[e].threw
  BY <1>1 DEF FilterOK
<1>3. /\ Fresh(f) /\ Kept(filter[e], f) /\ f.mContextState = filter[e].mContextState
      /\ f.mReadBuffer = filter[e].mReadBuffer /\ f.mReadBufferLen = filter[e].mReadBufferLen
      /\ f.mWriteBuffer = filter[e].mWriteBuffer
      /\ f.plain = filter[e].plain /\ f.remaining = filter[e].remaining
  BY <1>1, <1>2 DEF Below, Fresh, FilterTypes, Kept
<1>4. BlockPending(filter[e]) => BlockPending(f)
  BY <1>3 DEF BlockPending
<1>5. QED
  BY <1>1, <1>3, <1>4

Unmoved ==
    calls' \in Nat /\ aborts' \in Nat /\ UNCHANGED <<package, refused, sent>>

\* A read that has brought units, perhaps none.
ReadEvent(e, units) ==
    /\ e \in up /\ filter[e].posted = "read" /\ Unmoved
    /\ units \in Seq(Units) /\ wire' \in [Ends -> Seq(Units)]
    /\ wire[e] = units \o wire'[e] /\ wire'[Peer(e)] = wire[Peer(e)]
    /\ ~package.schannel => Len(filter[e].mReadBuffer \o units) <= filter[e].mReadBufferLen
    /\ Settle(e, OnReadCompleted(e, Below(filter[e]), units))

\* A poll that is over.
ZeroEvent(e) ==
    /\ e \in up /\ filter[e].posted = "zero" /\ Unmoved /\ wire' = wire
    /\ Settle(e, OnReadCompleted(e, Below(filter[e]), <<>>))

\* A write that has taken n units, perhaps none.
WriteEvent(e, n) ==
    /\ e \in up /\ filter[e].posted = "write" /\ Unmoved
    /\ n \in 0 .. Len(filter[e].mWriteBuffer)
    /\ wire' = [wire EXCEPT ![Peer(e)] = wire[Peer(e)] \o First(filter[e].mWriteBuffer, n)]
    /\ Settle(e, OnWriteCompleted(e, Below(filter[e]), n))

\* The connection's end.
LeaveEvent(e) ==
    /\ e \in up /\ up' = up \ {e} /\ Unmoved
    /\ UNCHANGED <<filter, wire, user, delivered>>

\* What has been read and what is to come: the stream is the same.
LEMMA StreamRead ==
    ASSUME TypesOK, NEW e \in Ends, NEW units, ReadEvent(e, units)
    PROVE  LET raw == filter[e].mReadBuffer \o units
               w == wire'[e] \o LeftBy(filter[Peer(e)])
           IN  /\ raw \in Seq(Units) /\ w \in Seq(Units) /\ raw \o w = Stream(e)
               /\ filter[e].mReadBuffer # <<>> => raw # <<>> /\ raw[1] = filter[e].mReadBuffer[1]
<1> DEFINE h == filter[e].mReadBuffer
           l == LeftBy(filter[Peer(e)])
           v == wire'[e]
<1>1. h \in Seq(Units) /\ units \in Seq(Units) /\ v \in Seq(Units) /\ l \in Seq(Units)
  BY StreamParts, Sides DEF ReadEvent
<1>2. Stream(e) = h \o ((units \o v) \o l)
  BY DEF Stream, HeldBy, ReadEvent
<1> HIDE DEF h, l, v
<1>3. (h \o units) \o (v \o l) = h \o ((units \o v) \o l)
  <2>1. Cat(Cat(h, units), Cat(v, l)) = Cat(h, Cat(Cat(units, v), l))
    BY <1>1, Regrouped
  <2>2. QED
    BY <2>1, Zenon DEF Cat
<1>4. h \o units \in Seq(Units) /\ v \o l \in Seq(Units)
      /\ (h # <<>> => h \o units # <<>> /\ (h \o units)[1] = h[1])
  <2>1. \A s, t \in Seq(Units) : s \o t \in Seq(Units) /\ (s # <<>> => s \o t # <<>> /\ (s \o t)[1] = s[1])
    OBVIOUS
  <2>2. QED
    BY <1>1, <2>1, Zenon
<1>5. QED
  BY <1>2, <1>3, <1>4 DEF h, l, v

\* What has been written and what is left.
LEMMA StreamWritten ==
    ASSUME TypesOK, NEW e \in Ends, NEW n, WriteEvent(e, n)
    PROVE  LET l == filter[e].mWriteBuffer IN
           /\ From(l, n) \in Seq(Units) /\ wire' \in [Ends -> Seq(Units)] /\ wire'[e] = wire[e]
           /\ HeldBy(filter[Peer(e)]) \o (wire'[Peer(e)] \o From(l, n)) = Stream(Peer(e))
<1> DEFINE l == filter[e].mWriteBuffer
           p == Peer(e)
           h == HeldBy(filter[p])
           w == wire[p]
<1>1. /\ p \in Ends /\ p # e /\ Peer(p) = e
      /\ h \in Seq(Units) /\ w \in Seq(Units) /\ l \in Seq(Units) /\ n \in 0 .. Len(l)
  BY StreamParts, Sides DEF WriteEvent
<1>2. Stream(p) = h \o (w \o l)
  BY <1>1 DEF Stream, LeftBy, WriteEvent
<1>3. wire' = [wire EXCEPT ![p] = w \o First(l, n)] /\ wire \in [Ends -> Seq(Units)]
  BY DEF WriteEvent, TypesOK
<1> HIDE DEF l, h, w, p
<1>4. First(l, n) \in Seq(Units) /\ From(l, n) \in Seq(Units) /\ First(l, n) \o From(l, n) = l
  BY <1>1, Pieces, Rejoined
<1>5. w \o First(l, n) \in Seq(Units)
  <2>1. \A s, t \in Seq(Units) : s \o t \in Seq(Units)
    OBVIOUS
  <2>2. QED
    BY <1>1, <1>4, <2>1, Zenon
<1>6. wire' \in [Ends -> Seq(Units)] /\ wire'[e] = wire[e] /\ wire'[p] = w \o First(l, n)
  BY <1>1, <1>3, <1>5
<1>7. h \o ((w \o First(l, n)) \o From(l, n)) = h \o (w \o (First(l, n) \o From(l, n)))
  <2>1. Cat(h, Cat(Cat(w, First(l, n)), From(l, n))) = Cat(h, Cat(w, Cat(First(l, n), From(l, n))))
    BY <1>1, <1>4, Regrouped
  <2>2. QED
    BY <2>1, Zenon DEF Cat
<1>8. QED
  BY <1>2, <1>4, <1>6, <1>7 DEF l, h, w, p

-----------------------------------------------------------------------------
(***************************************************************************)
(* Events with a context at both ends                                      *)
(***************************************************************************)

\* The outcome of a read is what the transport above waits for.
LEMMA OutcomeMatches ==
    ASSUME FilterInv, NEW e \in Ends, NEW f, NEW g, NEW w \in Seq(Units),
           ReadOutcome(f, g, w, Len(delivered[e]), sent[Peer(e)]),
           user[e].phase = "reading", f.mPreState = "Reading", f.mBytesRequestedOrig = user[e].need
    PROVE  /\ g \in FilterTypes /\ Matches(e, g) /\ Numbered(g.got, Len(delivered[e]))
           /\ Len(delivered[e]) + Len(g.got) <= sent[Peer(e)] /\ LeftBy(g) = <<>>
<1> DEFINE d == Len(delivered[e])
           n == Len(g.got)
           m == Len(g.plain)
           to == sent[Peer(e)]
<1>1. /\ g \in FilterTypes /\ n \in Nat /\ m \in Nat /\ d \in Nat /\ to \in Nat /\ d <= to
      /\ HeldBy(g) \in Seq(Units) /\ package \in Packages
  <2>1. g \in FilterTypes
    BY DEF ReadOutcome, Kept
  <2>2. /\ g.got \in Seq(Nat) /\ g.plain \in Seq(Nat)
        /\ g.mReadBuffer \in Seq(Units) /\ g.remaining \in Seq(Units)
    BY <2>1 DEF FilterTypes
  <2>3. n \in Nat /\ m \in Nat
    BY <2>2, LenProperties
  <2>4. d \in Nat /\ to \in Nat /\ d <= to /\ package \in Packages
    BY Sides, StreamParts DEF FilterInv, Safe, TypesOK
  <2>5. HeldBy(g) \in Seq(Units)
    BY <2>2 DEF HeldBy
  <2>6. QED
    BY <2>1, <2>3, <2>4, <2>5
<1>2. g.posted \in {"none", "read"} /\ LeftBy(g) = <<>>
  BY DEF ReadOutcome, LeftBy
<1>3. CASE g.threw
  <2>1. g.completed = "none" /\ g.got = <<>>
    BY <1>3 DEF ReadOutcome
  <2>2. n = 0 /\ Numbered(g.got, d)
    BY <2>1 DEF Numbered
  <2>3. Matches(e, g)
    BY <1>3, <2>1 DEF Matches
  <2>4. QED
    BY <1>1, <1>2, <2>2, <2>3
<1>4. CASE ~g.threw
  <2>1. /\ FilterOK(g) /\ Numbered(g.got, d)
        /\ DataStream(HeldBy(g) \o w, (d + n) + m, to)
        /\ g.posted = "none" => g.completed = "read" /\ n \in 1 .. f.mBytesRequestedOrig
        /\ g.posted = "read" => g.completed = "none" /\ g.got = <<>>
    BY <1>4 DEF ReadOutcome
  <2>2. d + n <= to
    <3> HIDE DEF d, n, m, to
    <3>1. (d + n) + m \in Nat
      BY <1>1
    <3>2. HeldBy(g) \o w \in Seq(Units)
      BY <1>1, CatFacts, Zenon DEF Cat
    <3>3. (d + n) + m <= to
      BY <1>1, <2>1, <3>1, <3>2, StreamBounds
    <3>4. QED
      BY <1>1, <3>3
  <2>3. g.posted = "none" => user[Peer(e)].message > 0
    <3>1. SUFFICES ASSUME g.posted = "none" PROVE user[Peer(e)].message > 0
      OBVIOUS
    <3>2. n >= 1
      BY <1>1, <2>1, <3>1
    <3> HIDE DEF d, n, to
    <3>3. to > 0
      BY <1>1, <2>2, <3>2
    <3>4. QED
      BY <3>3, Sides DEF FilterInv, EndsOK, to
  <2>4. g.mPreState = "Reading" /\ g.mBytesRequestedOrig = user[e].need
    BY DEF ReadOutcome, Kept
  <2>5. g.posted = "read" => Coupled(g, user[e])
    BY <2>4 DEF Coupled
  <2>6. Matches(e, g)
    <3> HIDE DEF n
    <3>1. g.completed = "read" => n \in 1 .. user[e].need
      BY <1>2, <2>1
    <3>2. QED
      BY <1>2, <1>4, <2>1, <2>3, <2>5, <3>1 DEF Matches, n
  <2>7. QED
    BY <1>1, <1>2, <2>1, <2>2, <2>6
<1>5. QED
  BY <1>3, <1>4

\* A read has a context's outcome.
LEMMA DataRead ==
    ASSUME FilterInv, filter["client"].mContextState = "AuthOkAck",
           NEW e \in Ends, NEW units, ReadEvent(e, units)
    PROVE  FilterInv'
<1> DEFINE p == Peer(e)
           f == Below(filter[e])
           g == OnReadCompleted(e, f, units)
           raw == filter[e].mReadBuffer \o units
           w == wire'[e] \o LeftBy(filter[p])
           d == Len(delivered[e])
<1>1. e \in up /\ filter[e].posted = "read" /\ filter[e].mContextState = "AuthOkAck"
  BY DEF ReadEvent, FilterInv, DataPhase, Ends
<1>2. /\ Fresh(f) /\ Kept(filter[e], f) /\ f.mContextState = filter[e].mContextState
      /\ f.mReadBuffer = filter[e].mReadBuffer /\ f.mReadBufferLen = filter[e].mReadBufferLen
      /\ f.plain = filter[e].plain /\ f.remaining = filter[e].remaining
      /\ BlockPending(filter[e]) => BlockPending(f)
      /\ FilterOK(filter[e]) /\ Coupled(filter[e], user[e])
  BY <1>1, BelowDone DEF FilterInv
<1> HIDE DEF f
<1>3. /\ NothingHeld(f) /\ f.mPreState = "Reading" /\ f.mBytesRequestedOrig # 0
      /\ ~package.schannel => BlockPending(f)
      /\ user[e].phase = "reading" /\ f.mBytesRequestedOrig = user[e].need
  BY <1>1, <1>2 DEF FilterOK, Coupled, NothingHeld, Kept
<1>4. /\ raw \in Seq(Units) /\ w \in Seq(Units) /\ raw \o w = Stream(e)
      /\ f.mReadBuffer # <<>> => raw # <<>> /\ raw[1] = f.mReadBuffer[1]
  BY <1>2, StreamRead DEF FilterInv
<1>5. DataStream(raw \o w, d, sent[p]) /\ d \in Nat /\ sent[p] \in Nat
  <2>1. DataStream(Stream(e), d + Len(filter[e].plain), sent[p])
    BY <1>1 DEF FilterInv, DataPhase, DataFlow
  <2>2. Len(filter[e].plain) = 0
    BY <1>2, <1>3 DEF NothingHeld
  <2>3. d \in Nat /\ sent[p] \in Nat /\ d + 0 = d
    BY StreamParts, Sides DEF FilterInv
  <2>4. QED
    BY <1>4, <2>1, <2>2, <2>3
<1>6. g = BlockCame(e, f, raw)
  BY <1>2, <1>3, Came DEF Waits
<1>7. ~package.schannel => BlockPending(f) /\ Len(raw) <= f.mReadBufferLen
  BY <1>2, <1>3 DEF ReadEvent
<1>8. Settle(e, g) /\ wire' \in [Ends -> Seq(Units)] /\ Unmoved /\ wire'[p] = wire[p]
  BY DEF ReadEvent, f
<1> HIDE DEF g, raw, w
<1>9. ReadOutcome(f, g, w, d, sent[p])
  <2>1. ReadOutcome(f, BlockCame(e, f, raw), w, d, sent[p])
    BY <1>1, <1>2, <1>3, <1>4, <1>5, <1>7, DataCompleted DEF FilterInv, TypesOK
  <2>2. QED
    BY <1>6, <2>1
<1>10. /\ g \in FilterTypes /\ Matches(e, g) /\ Numbered(g.got, d) /\ d + Len(g.got) <= sent[p]
       /\ LeftBy(g) = <<>> /\ g.mContextState = "AuthOkAck"
  <2>1. g.mContextState = "AuthOkAck"
    BY <1>1, <1>2, <1>9 DEF ReadOutcome
  <2>2. QED
    BY <1>3, <1>4, <1>9, <2>1, OutcomeMatches
<1>11. Event(e, g)
  <2>1. sent[e] \in Nat /\ sent \in [Ends -> Nat] /\ (sent[e] > 0 => user[e].message > 0)
    BY DEF FilterInv, TypesOK, EndsOK
  <2>2. QED
    BY <1>1, <1>8, <1>10, <2>1, Sides DEF Event, Unmoved
<1>12. ~g.threw =>
         /\ Numbered(g.plain, d + Len(g.got))
         /\ DataStream(HeldBy(g) \o (wire'[e] \o LeftBy(filter[p])), (d + Len(g.got)) + Len(g.plain), sent[p])
  BY <1>9 DEF ReadOutcome, w
<1>13. p \in up => DataStream(HeldBy(filter[p]) \o (wire'[p] \o LeftBy(g)),
                              Len(delivered[p]) + Len(filter[p].plain), sent'[e])
  <2>1. LeftBy(filter[e]) = LeftBy(g)
    BY <1>1, <1>10 DEF LeftBy
  <2>2. Stream(p) = HeldBy(filter[p]) \o (wire'[p] \o LeftBy(g))
    BY <1>8, <2>1, Sides DEF Stream
  <2>3. QED
    BY <1>8, <2>2, Sides DEF FilterInv, DataPhase, DataFlow, Unmoved
<1>14. QED
  BY <1>10, <1>11, <1>12, <1>13, DataStep

\* A write has taken some of a block.
LEMMA DataWritten ==
    ASSUME FilterInv, filter["client"].mContextState = "AuthOkAck",
           NEW e \in Ends, NEW n, WriteEvent(e, n)
    PROVE  FilterInv'
<1> DEFINE p == Peer(e)
           f == Below(filter[e])
           g == OnWriteCompleted(e, f, n)
           rest == From(filter[e].mWriteBuffer, n)
           d == Len(delivered[e])
<1>1. e \in up /\ filter[e].posted = "write" /\ filter[e].mContextState = "AuthOkAck"
  BY DEF WriteEvent, FilterInv, DataPhase, Ends
<1>2. /\ Fresh(f) /\ Kept(filter[e], f) /\ f.mContextState = "AuthOkAck"
      /\ f.mWriteBuffer = filter[e].mWriteBuffer
      /\ f.plain = filter[e].plain /\ f.remaining = filter[e].remaining
      /\ FilterOK(filter[e]) /\ Coupled(filter[e], user[e])
  BY <1>1, BelowDone DEF FilterInv
<1>3. user[e].phase = "writing" /\ filter[e].mPreState = "Writing"
  BY <1>1, <1>2 DEF Coupled
<1>4. Settle(e, g) /\ Unmoved /\ n \in 0 .. Len(f.mWriteBuffer)
  BY <1>2 DEF WriteEvent
<1> HIDE DEF f
<1>5. /\ wire' \in [Ends -> Seq(Units)] /\ wire'[e] = wire[e]
      /\ HeldBy(filter[p]) \o (wire'[p] \o rest) = Stream(p)
  BY StreamWritten DEF FilterInv
<1>6. \/ rest # <<>> /\ Writes(f, g, rest) /\ g.mContextState = "AuthOkAck"
      \/ rest = <<>> /\ g = [f EXCEPT !.completed = "write"]
  BY <1>2, <1>4, WriteCompleted DEF FilterInv, TypesOK
<1> HIDE DEF g
<1>7. /\ g \in FilterTypes /\ g.mContextState = "AuthOkAck" /\ LeftBy(g) = rest /\ g.posted # "read"
      /\ g.got = <<>> /\ g.plain = filter[e].plain /\ g.remaining = filter[e].remaining
      /\ Matches(e, g)
  <2>1. CASE rest # <<>> /\ Writes(f, g, rest) /\ g.mContextState = "AuthOkAck"
    <3>1. /\ g \in FilterTypes /\ g.mContextState = "AuthOkAck" /\ g.posted = "write" /\ LeftBy(g) = rest
          /\ g.got = <<>> /\ g.plain = filter[e].plain /\ g.remaining = filter[e].remaining
          /\ g.completed = "none" /\ ~g.threw /\ g.mPreState = "Writing"
      BY <1>2, <1>3, <2>1 DEF Writes, Kept, LeftBy
    <3>2. FilterOK(g) /\ Coupled(g, user[e])
      BY <1>2, <1>3, <3>1 DEF FilterOK, Coupled
    <3>3. QED
      BY <3>1, <3>2 DEF Matches
  <2>2. CASE rest = <<>> /\ g = [f EXCEPT !.completed = "write"]
    <3>1. /\ g \in FilterTypes /\ g.mContextState = "AuthOkAck" /\ g.posted = "none"
          /\ g.got = <<>> /\ g.plain = filter[e].plain /\ g.remaining = filter[e].remaining
          /\ g.completed = "write" /\ ~g.threw
      BY <1>2, <2>2 DEF Fresh, FilterTypes
    <3>2. LeftBy(g) = rest
      BY <2>2, <3>1 DEF LeftBy
    <3>3. FilterOK(g)
      BY <1>2, <3>1 DEF FilterOK
    <3>4. QED
      BY <1>3, <3>1, <3>2, <3>3 DEF Matches
  <2>3. QED
    BY <1>6, <2>1, <2>2
<1>8. Event(e, g)
  <2>1. sent[e] \in Nat /\ sent \in [Ends -> Nat] /\ (sent[e] > 0 => user[e].message > 0)
    BY DEF FilterInv, TypesOK, EndsOK
  <2>2. QED
    BY <1>1, <1>4, <1>5, <1>7, <2>1, Sides DEF Event, Unmoved
<1>9. HeldBy(g) = HeldBy(filter[e]) /\ Len(g.got) = 0 /\ d \in Nat /\ d <= sent[p] /\ d + 0 = d
  <2>1. HeldBy(g) = HeldBy(filter[e])
    BY <1>1, <1>7 DEF HeldBy
  <2>2. Len(g.got) = 0
    BY <1>7
  <2>3. d \in Nat /\ d <= sent[p]
    BY StreamParts DEF FilterInv, Safe
  <2>4. d + 0 = d
    BY <2>3
  <2>5. QED
    BY <2>1, <2>2, <2>3, <2>4
<1>10. DataFlow(e) /\ (p \in up => DataFlow(p))
  BY <1>1 DEF FilterInv, DataPhase
<1>11. /\ Numbered(g.plain, d + Len(g.got))
       /\ DataStream(HeldBy(g) \o (wire'[e] \o LeftBy(filter[p])), (d + Len(g.got)) + Len(g.plain), sent[p])
  BY <1>5, <1>7, <1>9, <1>10 DEF DataFlow, Stream
<1>12. p \in up => DataStream(HeldBy(filter[p]) \o (wire'[p] \o LeftBy(g)),
                              Len(delivered[p]) + Len(filter[p].plain), sent'[e])
  BY <1>4, <1>5, <1>7, <1>10, Sides DEF DataFlow, Unmoved
<1>13. Numbered(g.got, d) /\ d + Len(g.got) <= sent[p]
  <2>1. Numbered(g.got, d)
    BY <1>9 DEF Numbered
  <2>2. QED
    BY <1>9, <2>1
<1>14. QED
  BY <1>7, <1>8, <1>11, <1>12, <1>13, DataStep

\* The transport's operation, as the filter has it.
Reading(f, n) == [f EXCEPT !.mPreState = "Reading", !.mBytesRequestedOrig = n]
Writing(f, units) == [f EXCEPT !.mPreState = "Writing", !.mWriteByteBufferOrig = units]

\* What a read from above makes of a filter.
LEMMA ReadIssued ==
    ASSUME package \in Packages, NEW f, Fresh(f), NEW n \in Nat
    PROVE  LET g == Read(f, n)
               h == Reading(f, n)
           IN  /\ Fresh(h) /\ h.mPreState = "Reading" /\ h.mBytesRequestedOrig = n
               /\ h.mContextState = f.mContextState /\ h.plain = f.plain /\ h.remaining = f.remaining
               /\ h.mWriteByteBufferOrig = f.mWriteByteBufferOrig
               /\ \/ n = 0 /\ ~NothingHeld(f) /\ g = [f EXCEPT !.completed = "zero"]
                  \/ /\ n = 0 /\ NothingHeld(f) /\ Kept(h, g) /\ g.mContextState = f.mContextState
                     /\ g.posted = "zero" /\ g.plain = f.plain /\ g.remaining = f.remaining
                     /\ g.completed = "none" /\ g.got = <<>> /\ ~g.threw
                  \/ n # 0 /\ f.mContextState = "AuthOkAck" /\ g = ServeRead(h)
                  \/ /\ n # 0 /\ f.mContextState # "AuthOkAck"
                     /\ Reads(h, g, <<>>) /\ g.mContextState = f.mContextState
<1> DEFINE g == Read(f, n)
           h == Reading(f, n)
<1>1. /\ Fresh(h) /\ h.mPreState = "Reading" /\ h.mBytesRequestedOrig = n
      /\ h.mContextState = f.mContextState /\ h.plain = f.plain /\ h.remaining = f.remaining
      /\ h.mWriteByteBufferOrig = f.mWriteByteBufferOrig
  BY DEF Fresh, FilterTypes, Reading
<1>2. CASE n = 0 /\ ~NothingHeld(f)
  <2>1. g = [f EXCEPT !.completed = "zero"]
    BY <1>2 DEF Read, NothingHeld
  <2>2. QED
    BY <1>1, <1>2, <2>1
<1>3. CASE n = 0 /\ NothingHeld(f)
  <2>1. g = [h EXCEPT !.mReadBuffer = <<>>, !.posted = "zero"]
    BY <1>3 DEF Read, NothingHeld, Reading
  <2>2. <<>> \in Seq(Units)
    OBVIOUS
  <2> HIDE DEF g, h
  <2>3. /\ Kept(h, g) /\ g.mContextState = f.mContextState
        /\ g.posted = "zero" /\ g.plain = f.plain /\ g.remaining = f.remaining
        /\ g.completed = "none" /\ g.got = <<>> /\ ~g.threw
    BY <1>1, <2>1, <2>2 DEF Fresh, FilterTypes, Kept
  <2>4. QED
    BY <1>1, <1>3, <2>3 DEF g, h
<1>4. CASE n # 0 /\ f.mContextState = "AuthOkAck"
  <2>1. g = ServeRead(h)
    BY <1>4 DEF Read, Reading
  <2>2. QED
    BY <1>1, <1>4, <2>1
<1>5. CASE n # 0 /\ f.mContextState # "AuthOkAck"
  <2>1. g = ReadNewBlock(h)
    BY <1>5 DEF Read, Reading
  <2>2. Reads(h, g, <<>>) /\ g.mContextState = f.mContextState
    BY <1>1, <2>1, NewBlockRead
  <2>3. QED
    BY <1>1, <1>5, <2>2
<1>6. QED
  BY <1>2, <1>3, <1>4, <1>5

\* What a write from above makes of a filter.
LEMMA WriteIssued ==
    ASSUME package \in Packages, NEW f, Fresh(f), NEW units \in Seq(Nat)
    PROVE  LET g == Write(f, units)
               h == Writing(f, units)
           IN  /\ Fresh(h) /\ h.mPreState = "Writing" /\ h.mWriteByteBufferOrig = units
               /\ h.mContextState = f.mContextState /\ h.plain = f.plain /\ h.remaining = f.remaining
               /\ f.mContextState = "AuthOkAck" =>
                     Writes(h, g, Frame(Data(units))) /\ g.mContextState = "AuthOkAck"
               /\ f.mContextState # "AuthOkAck" => g = InitializeContext(h, 0)
<1> DEFINE g == Write(f, units)
           h == Writing(f, units)
<1>1. /\ Fresh(h) /\ h.mPreState = "Writing" /\ h.mWriteByteBufferOrig = units
      /\ h.mContextState = f.mContextState /\ h.plain = f.plain /\ h.remaining = f.remaining
  BY DEF Fresh, FilterTypes, Writing
<1>2. CASE f.mContextState = "AuthOkAck"
  <2>1. g = PostWrite(h, Frame(Data(units)))
    BY <1>1, <1>2 DEF Write, StartWrite, Writing
  <2>2. Frame(Data(units)) \in Seq(Units)
    BY BlockKinds, Frames
  <2> HIDE DEF h
  <2>3. Writes(h, g, Frame(Data(units))) /\ g.mContextState = "AuthOkAck"
    BY <1>1, <1>2, <2>1, <2>2, WritePosted DEF Writes
  <2>4. QED
    BY <1>1, <1>2, <2>3 DEF h
<1>3. CASE f.mContextState # "AuthOkAck"
  <2>1. g = InitializeContext(h, 0)
    BY <1>3 DEF Write, Writing
  <2>2. QED
    BY <1>1, <1>3, <2>1
<1>4. QED
  BY <1>2, <1>3

\* An end that issues an operation.
LEMMA IdleEnd ==
    ASSUME TypesOK, EndsOK, NEW e, Idle(e)
    PROVE  /\ e \in Ends /\ e \in up /\ Fresh(filter[e]) /\ FilterOK(filter[e])
           /\ filter[e] \in FilterTypes /\ user[e] \in UserTypes /\ UserOK(user[e])
           /\ HeldBy(filter[e]) = filter[e].remaining /\ LeftBy(filter[e]) = <<>>
<1>1. e \in Ends /\ e \in up /\ filter[e].posted = "none"
  BY DEF Idle, TypesOK
<1>2. /\ filter[e] \in FilterTypes /\ user[e] \in UserTypes /\ UserOK(user[e]) /\ FilterOK(filter[e])
      /\ filter[e].completed = "none" /\ filter[e].got = <<>>
  BY <1>1 DEF TypesOK, EndsOK
<1>3. QED
  BY <1>1, <1>2 DEF Fresh, FilterOK, HeldBy, LeftBy

\* The units of the next buffer.
LEMMA NextBuffer ==
    ASSUME TypesOK, EndsOK, NEW e, IssueWrite(e)
    PROVE  LET n == Head(user[e].buffers)
               units == [i \in 1 .. n |-> sent[e] + i]
           IN  /\ n \in Nat \ {0} /\ units \in Seq(Nat) /\ Len(units) = n /\ units # <<>>
               /\ Numbered(units, sent[e]) /\ user[e].message > 0 /\ user[e].phase = "writing"
               /\ sent' = [sent EXCEPT ![e] = sent[e] + n] /\ sent[e] \in Nat
               /\ sent' \in [Ends -> Nat] /\ sent'[e] = sent[e] + n /\ sent'[Peer(e)] = sent[Peer(e)]
               /\ Settle(e, Write(filter[e], units))
<1> DEFINE n == Head(user[e].buffers)
           units == [i \in 1 .. n |-> sent[e] + i]
<1>1. e \in Ends /\ user[e].phase = "writing" /\ user[e] \in UserTypes /\ UserOK(user[e])
  BY IdleEnd DEF IssueWrite
<1>2. user[e].buffers \in Seq(Nat \ {0}) /\ user[e].buffers # <<>> /\ user[e].message > 0
  BY <1>1 DEF UserTypes, UserOK
<1>3. n \in Nat \ {0}
  BY <1>2
<1>4. sent \in [Ends -> Nat] /\ sent[e] \in Nat
  BY <1>1 DEF TypesOK
<1>5. sent' = [sent EXCEPT ![e] = sent[e] + n] /\ Settle(e, Write(filter[e], units))
  BY DEF IssueWrite
<1> HIDE DEF n
<1>6. \A i \in 1 .. n : sent[e] + i \in Nat
  BY <1>3, <1>4
<1>7. units \in Seq(Nat) /\ Len(units) = n
  BY <1>3, <1>6
<1>8. units # <<>>
  BY <1>3, <1>7
<1>9. Numbered(units, sent[e])
  BY <1>3, <1>7 DEF Numbered
<1>10. sent' \in [Ends -> Nat] /\ sent'[e] = sent[e] + n /\ sent'[Peer(e)] = sent[Peer(e)]
  BY <1>1, <1>3, <1>4, <1>5, Sides
<1>11. QED
  BY <1>1, <1>2, <1>3, <1>4, <1>5, <1>7, <1>8, <1>9, <1>10 DEF n

\* The next buffer is sealed and written.
LEMMA DataWriteIssued ==
    ASSUME FilterInv, filter["client"].mContextState = "AuthOkAck", NEW e \in Ends, IssueWrite(e)
    PROVE  FilterInv'
<1> DEFINE p == Peer(e)
           f == filter[e]
           n == Head(user[e].buffers)
           units == [i \in 1 .. n |-> sent[e] + i]
           g == Write(f, units)
           d == Len(delivered[e])
<1>1. /\ e \in up /\ Fresh(f) /\ FilterOK(f) /\ f.mContextState = "AuthOkAck"
      /\ HeldBy(f) = f.remaining /\ LeftBy(f) = <<>>
  BY IdleEnd DEF IssueWrite, FilterInv, DataPhase, Ends
<1>2. /\ n \in Nat \ {0} /\ units \in Seq(Nat) /\ Len(units) = n /\ units # <<>>
      /\ Numbered(units, sent[e]) /\ user[e].message > 0 /\ user[e].phase = "writing"
      /\ sent' \in [Ends -> Nat] /\ sent'[e] = sent[e] + n /\ sent'[p] = sent[p]
      /\ sent[e] \in Nat /\ Settle(e, g)
  BY NextBuffer DEF FilterInv
<1> HIDE DEF units, n
<1> DEFINE h == Writing(f, units)
           frame == Frame(Data(units))
<1>3. /\ h.mPreState = "Writing" /\ h.plain = f.plain /\ h.remaining = f.remaining
      /\ Writes(h, g, frame) /\ g.mContextState = "AuthOkAck"
  BY <1>1, <1>2, WriteIssued DEF FilterInv, TypesOK
<1> HIDE DEF g, h
<1>4. /\ g \in FilterTypes /\ g.posted = "write" /\ g.mPreState = "Writing"
      /\ g.plain = f.plain /\ g.remaining = f.remaining /\ g.completed = "none" /\ g.got = <<>> /\ ~g.threw
      /\ LeftBy(g) = frame /\ HeldBy(g) = HeldBy(f)
  BY <1>1, <1>3 DEF Writes, Kept, LeftBy, HeldBy
<1>5. FilterOK(g) /\ Coupled(g, user[e])
  BY <1>1, <1>2, <1>3, <1>4 DEF FilterOK, Coupled
<1>6. Matches(e, g)
  BY <1>4, <1>5 DEF Matches
<1>7. wire' = wire /\ wire \in [Ends -> Seq(Units)] /\ UNCHANGED <<package, refused, calls, aborts>>
      /\ calls \in Nat /\ aborts \in Nat
  BY DEF IssueWrite, FilterInv, TypesOK
<1>8. Event(e, g)
  <2>1. sent'[e] >= sent[e]
    BY <1>2
  <2>2. QED
    BY <1>1, <1>2, <1>4, <1>7, <2>1 DEF Event
<1>9. Len(g.got) = 0 /\ d \in Nat /\ d <= sent[p] /\ d + 0 = d /\ Numbered(g.got, d)
  <2>1. Len(g.got) = 0
    BY <1>4
  <2>2. d \in Nat /\ d <= sent[p]
    BY StreamParts DEF FilterInv, Safe
  <2>3. d + 0 = d /\ Numbered(g.got, d)
    BY <2>1, <2>2 DEF Numbered
  <2>4. QED
    BY <2>1, <2>2, <2>3
<1>10. DataFlow(e) /\ (p \in up => DataFlow(p))
  BY <1>1 DEF FilterInv, DataPhase
<1>11. /\ Numbered(g.plain, d + Len(g.got))
       /\ DataStream(HeldBy(g) \o (wire'[e] \o LeftBy(filter[p])), (d + Len(g.got)) + Len(g.plain), sent[p])
  BY <1>4, <1>7, <1>9, <1>10 DEF DataFlow, Stream
<1>12. p \in up => DataStream(HeldBy(filter[p]) \o (wire'[p] \o LeftBy(g)),
                              Len(delivered[p]) + Len(filter[p].plain), sent'[e])
  <2>1. SUFFICES ASSUME p \in up
                 PROVE  DataStream(HeldBy(filter[p]) \o (wire[p] \o frame),
                                   Len(delivered[p]) + Len(filter[p].plain), sent'[e])
    BY <1>4, <1>7
  <2> DEFINE a == HeldBy(filter[p])
             b == wire[p]
             from == Len(delivered[p]) + Len(filter[p].plain)
  <2>2. a \in Seq(Units) /\ b \in Seq(Units) /\ from \in Nat
    <3>1. p \in Ends /\ TypesOK
      BY Sides DEF FilterInv
    <3>2. a \in Seq(Units) /\ b \in Seq(Units)
      BY <3>1, StreamParts
    <3>3. Len(delivered[p]) \in Nat /\ Len(filter[p].plain) \in Nat
      BY <3>1, StreamParts
    <3>4. \A i, j \in Nat : i + j \in Nat
      OBVIOUS
    <3>5. from \in Nat
      BY <3>3, <3>4
    <3> HIDE DEF from
    <3>6. QED
      BY <3>2, <3>5
  <2>3. DataStream(a \o (b \o LeftBy(filter[e])), from, sent[e])
    BY <1>10, <2>1, Sides DEF DataFlow, Stream
  <2> HIDE DEF a, b, from
  <2>4. b \o <<>> = b
    BY <2>2
  <2>5. DataStream(a \o b, from, sent[e])
    BY <1>1, <2>3, <2>4
  <2>6. a \o b \in Seq(Units)
    BY <2>2, CatFacts, Zenon DEF Cat
  <2>7. DataStream((a \o b) \o frame, from, sent[e] + n)
    BY <1>2, <2>2, <2>5, <2>6, StreamGrows DEF FilterInv, TypesOK
  <2>8. frame \in Seq(Units)
    BY <1>2, BlockKinds, Frames DEF FilterInv, TypesOK
  <2>9. (a \o b) \o frame = a \o (b \o frame)
    BY <2>2, <2>8, CatFacts, Zenon DEF Cat
  <2>10. QED
    BY <1>2, <2>7, <2>9 DEF a, b, from
<1>13. d + Len(g.got) <= sent[p]
  BY <1>9
<1>14. QED
  BY <1>3, <1>6, <1>8, <1>9, <1>11, <1>12, <1>13, DataStep

\* A read from above, with a context.
LEMMA DataReadIssued ==
    ASSUME FilterInv, filter["client"].mContextState = "AuthOkAck", NEW e \in Ends, IssueRead(e)
    PROVE  FilterInv'
<1> DEFINE p == Peer(e)
           f == filter[e]
           d == Len(delivered[e])
           w == wire[e] \o LeftBy(filter[p])
<1>1. /\ e \in up /\ Fresh(f) /\ FilterOK(f) /\ f.mContextState = "AuthOkAck" /\ f.posted = "none"
      /\ HeldBy(f) = f.remaining /\ LeftBy(f) = <<>> /\ user[e].phase = "reading" /\ user[e].need \in Nat
  <2>1. /\ e \in up /\ Fresh(f) /\ FilterOK(f) /\ user[e] \in UserTypes
        /\ HeldBy(f) = f.remaining /\ LeftBy(f) = <<>>
    BY IdleEnd DEF IssueRead, FilterInv
  <2>2. f.mContextState = "AuthOkAck" /\ user[e].phase = "reading" /\ f.posted = "none"
    BY DEF IssueRead, Idle, FilterInv, DataPhase, Ends
  <2>3. QED
    BY <2>1, <2>2 DEF UserTypes
<1>2. PICK n \in {0, user[e].need} : Settle(e, Read(f, n))
  BY DEF IssueRead
<1> DEFINE g == Read(f, n)
           h == Reading(f, n)
<1>3. /\ Fresh(h) /\ h.mPreState = "Reading" /\ h.mBytesRequestedOrig = n
      /\ h.mContextState = f.mContextState /\ h.plain = f.plain /\ h.remaining = f.remaining
      /\ \/ g = [f EXCEPT !.completed = "zero"]
         \/ /\ n = 0 /\ NothingHeld(f) /\ Kept(h, g) /\ g.mContextState = f.mContextState
            /\ g.posted = "zero" /\ g.plain = f.plain /\ g.remaining = f.remaining
            /\ g.completed = "none" /\ g.got = <<>> /\ ~g.threw
         \/ n # 0 /\ g = ServeRead(h)
  <2>1. n \in Nat /\ package \in Packages
    BY <1>1, <1>2 DEF FilterInv, TypesOK
  <2>2. /\ Fresh(h) /\ h.mPreState = "Reading" /\ h.mBytesRequestedOrig = n
        /\ h.mContextState = f.mContextState /\ h.plain = f.plain /\ h.remaining = f.remaining
        /\ \/ n = 0 /\ ~NothingHeld(f) /\ g = [f EXCEPT !.completed = "zero"]
           \/ /\ n = 0 /\ NothingHeld(f) /\ Kept(h, g) /\ g.mContextState = f.mContextState
              /\ g.posted = "zero" /\ g.plain = f.plain /\ g.remaining = f.remaining
              /\ g.completed = "none" /\ g.got = <<>> /\ ~g.threw
           \/ n # 0 /\ f.mContextState = "AuthOkAck" /\ g = ServeRead(h)
           \/ /\ n # 0 /\ f.mContextState # "AuthOkAck"
              /\ Reads(h, g, <<>>) /\ g.mContextState = f.mContextState
    BY <1>1, <2>1, ReadIssued
  <2> HIDE DEF g, h
  <2>3. QED
    BY <1>1, <2>2
<1>4. Settle(e, g)
  BY <1>2
<1> HIDE DEF g, h
<1>5. w \in Seq(Units) /\ d \in Nat /\ sent[p] \in Nat /\ d <= sent[p]
  <2>1. wire[e] \in Seq(Units) /\ LeftBy(filter[p]) \in Seq(Units) /\ d \in Nat /\ sent[p] \in Nat
    <3>1. p \in Ends /\ TypesOK
      BY Sides DEF FilterInv
    <3>2. wire[e] \in Seq(Units) /\ d \in Nat
      BY <3>1, StreamParts
    <3>3. LeftBy(filter[p]) \in Seq(Units) /\ sent[p] \in Nat
      BY <3>1, StreamParts
    <3>4. QED
      BY <3>2, <3>3
  <2>2. w \in Seq(Units)
    BY <2>1, CatFacts, Zenon DEF Cat
  <2>3. QED
    BY <2>1, <2>2 DEF FilterInv, Safe
<1>6. Numbered(f.plain, d) /\ DataStream(f.remaining \o w, d + Len(f.plain), sent[p])
  <2>1. DataFlow(e)
    BY <1>1 DEF FilterInv, DataPhase
  <2>2. QED
    BY <1>1, <2>1 DEF DataFlow, Stream
<1> HIDE DEF w, d
<1>7. /\ g \in FilterTypes /\ Matches(e, g) /\ g.mContextState = "AuthOkAck"
      /\ Numbered(g.got, d) /\ d + Len(g.got) <= sent[p] /\ LeftBy(g) = <<>>
      /\ ~g.threw => /\ Numbered(g.plain, d + Len(g.got))
                     /\ DataStream(HeldBy(g) \o w, (d + Len(g.got)) + Len(g.plain), sent[p])
  <2>1. CASE \/ g = [f EXCEPT !.completed = "zero"]
             \/ /\ n = 0 /\ NothingHeld(f) /\ Kept(h, g) /\ g.mContextState = f.mContextState
                /\ g.posted = "zero" /\ g.plain = f.plain /\ g.remaining = f.remaining
                /\ g.completed = "none" /\ g.got = <<>> /\ ~g.threw
    <3>1. /\ g \in FilterTypes /\ g.mContextState = "AuthOkAck" /\ g.posted \in {"none", "zero"}
          /\ g.plain = f.plain /\ g.remaining = f.remaining /\ g.got = <<>> /\ ~g.threw
          /\ \/ g.posted = "none" /\ g.completed = "zero"
             \/ /\ g.posted = "zero" /\ g.completed = "none" /\ NothingHeld(f)
                /\ g.mPreState = "Reading" /\ g.mBytesRequestedOrig = 0
      BY <1>1, <1>3, <2>1 DEF Fresh, FilterTypes, Kept
    <3>2. FilterOK(g)
      BY <1>1, <3>1 DEF FilterOK, NothingHeld
    <3>3. g.posted = "zero" => Coupled(g, user[e])
      BY <1>1, <3>1 DEF Coupled
    <3>4. Matches(e, g)
      BY <3>1, <3>2, <3>3 DEF Matches
    <3>5. Len(g.got) = 0 /\ d + 0 = d
      BY <1>5, <3>1
    <3>6. HeldBy(g) = f.remaining /\ LeftBy(g) = <<>>
      BY <3>1 DEF HeldBy, LeftBy
    <3>7. Numbered(g.got, d)
      BY <3>5 DEF Numbered
    <3>8. QED
      BY <1>5, <1>6, <3>1, <3>4, <3>5, <3>6, <3>7
  <2>2. CASE n # 0 /\ g = ServeRead(h)
    <3>1. ReadOutcome(h, ServeRead(h), w, d, sent[p])
      BY <1>1, <1>3, <1>5, <1>6, <2>2, ReadServed DEF FilterInv, TypesOK, FilterOK
    <3>2. ReadOutcome(h, g, w, d, sent[p]) /\ n = user[e].need
      BY <1>2, <2>2, <3>1
    <3>3. /\ g \in FilterTypes /\ Matches(e, g) /\ Numbered(g.got, Len(delivered[e]))
          /\ Len(delivered[e]) + Len(g.got) <= sent[p] /\ LeftBy(g) = <<>>
      BY <1>1, <1>3, <1>5, <3>2, OutcomeMatches DEF d
    <3>4. QED
      BY <1>1, <1>3, <3>2, <3>3 DEF ReadOutcome, d
  <2>3. QED
    BY <1>3, <2>1, <2>2
<1>8. /\ wire' = wire /\ wire \in [Ends -> Seq(Units)] /\ sent' = sent /\ sent \in [Ends -> Nat]
      /\ UNCHANGED <<package, refused, calls, aborts>> /\ calls \in Nat /\ aborts \in Nat
      /\ sent[e] \in Nat /\ (sent[e] > 0 => user[e].message > 0)
  BY DEF IssueRead, FilterInv, TypesOK, EndsOK
<1>9. Event(e, g)
  BY <1>1, <1>4, <1>7, <1>8 DEF Event
<1>10. p \in up => DataStream(HeldBy(filter[p]) \o (wire'[p] \o LeftBy(g)),
                              Len(delivered[p]) + Len(filter[p].plain), sent'[e])
  BY <1>1, <1>7, <1>8, Sides DEF FilterInv, DataPhase, DataFlow, Stream
<1>11. QED
  BY <1>7, <1>8, <1>9, <1>10, DataStep DEF d, w

\* A poll is over.
LEMMA DataPolled ==
    ASSUME FilterInv, filter["client"].mContextState = "AuthOkAck", NEW e \in Ends, ZeroEvent(e)
    PROVE  FilterInv'
<1> DEFINE p == Peer(e)
           f == Below(filter[e])
           g == OnReadCompleted(e, f, <<>>)
           d == Len(delivered[e])
<1>1. e \in up /\ filter[e].posted = "zero" /\ filter[e].mContextState = "AuthOkAck"
  BY DEF ZeroEvent, FilterInv, DataPhase, Ends
<1>2. /\ Fresh(f) /\ Kept(filter[e], f) /\ f.mContextState = "AuthOkAck"
      /\ f.plain = filter[e].plain /\ f.remaining = filter[e].remaining
      /\ FilterOK(filter[e])
  BY <1>1, BelowDone DEF FilterInv
<1>3. Settle(e, g) /\ Unmoved /\ wire' = wire
  BY DEF ZeroEvent
<1> HIDE DEF f
<1>4. g = [f EXCEPT !.completed = "zero"]
  BY <1>1, <1>2 DEF OnReadCompleted, FilterOK, Kept
<1> HIDE DEF g
<1>5. /\ g \in FilterTypes /\ g.mContextState = "AuthOkAck" /\ g.posted = "none" /\ g.completed = "zero"
      /\ g.got = <<>> /\ ~g.threw /\ g.plain = filter[e].plain /\ g.remaining = filter[e].remaining
  BY <1>2, <1>4 DEF Fresh, FilterTypes
<1>6. FilterOK(g)
  BY <1>2, <1>5 DEF FilterOK
<1>7. Matches(e, g)
  BY <1>5, <1>6 DEF Matches
<1>8. Event(e, g)
  <2>1. /\ sent[e] \in Nat /\ sent \in [Ends -> Nat] /\ (sent[e] > 0 => user[e].message > 0)
        /\ wire \in [Ends -> Seq(Units)]
    BY DEF FilterInv, TypesOK, EndsOK
  <2>2. QED
    BY <1>1, <1>3, <1>5, <2>1, Sides DEF Event, Unmoved
<1>9. Len(g.got) = 0 /\ d \in Nat /\ d <= sent[p] /\ d + 0 = d /\ Numbered(g.got, d)
  <2>1. Len(g.got) = 0
    BY <1>5
  <2>2. d \in Nat /\ d <= sent[p]
    BY StreamParts DEF FilterInv, Safe
  <2>3. d + 0 = d /\ Numbered(g.got, d)
    BY <2>1, <2>2 DEF Numbered
  <2>4. QED
    BY <2>1, <2>2, <2>3
<1>10. DataFlow(e) /\ (p \in up => DataFlow(p))
  BY <1>1 DEF FilterInv, DataPhase
<1>11. HeldBy(g) = HeldBy(filter[e]) /\ LeftBy(g) = LeftBy(filter[e])
  BY <1>1, <1>5 DEF HeldBy, LeftBy
<1>12. /\ Numbered(g.plain, d + Len(g.got))
       /\ DataStream(HeldBy(g) \o (wire'[e] \o LeftBy(filter[p])), (d + Len(g.got)) + Len(g.plain), sent[p])
  BY <1>3, <1>5, <1>9, <1>10, <1>11 DEF DataFlow, Stream
<1>13. p \in up => DataStream(HeldBy(filter[p]) \o (wire'[p] \o LeftBy(g)),
                              Len(delivered[p]) + Len(filter[p].plain), sent'[e])
  BY <1>3, <1>10, <1>11, Sides DEF DataFlow, Stream, Unmoved
<1>14. d + Len(g.got) <= sent[p]
  BY <1>9
<1>15. QED
  BY <1>5, <1>7, <1>8, <1>9, <1>12, <1>13, <1>14, DataStep

-----------------------------------------------------------------------------
(***************************************************************************)
(* Events of the handshake                                                 *)
(***************************************************************************)

\* A filter that settles has had an event.
LEMMA EventOf ==
    ASSUME TypesOK, EndsOK, NEW e \in up, NEW g \in FilterTypes, Settle(e, g), Unmoved,
           wire' \in [Ends -> Seq(Units)]
    PROVE  Event(e, g) /\ e \in Ends
<1>1. /\ e \in Ends /\ Peer(e) \in Ends /\ sent \in [Ends -> Nat] /\ sent[e] \in Nat
      /\ (sent[e] > 0 => user[e].message > 0)
  BY Sides DEF TypesOK, EndsOK
<1>2. QED
  BY <1>1 DEF Event, Unmoved

\* A handshake goes on: nothing is completed.
LEMMA HandshakeMatches ==
    ASSUME NEW e, NEW f, Fresh(f), NothingHeld(f), NEW g, NEW s,
           \/ Reads(f, g, s) /\ (f.mPreState = "Writing" => g.mContextState # "AuthOkAck")
           \/ Writes(f, g, s) /\ (f.mPreState = "Reading" => g.mContextState # "AuthOkAck"),
           \/ user[e].phase = "writing" /\ f.mPreState = "Writing"
           \/ /\ user[e].phase = "reading" /\ f.mPreState = "Reading"
              /\ f.mBytesRequestedOrig = user[e].need /\ f.mBytesRequestedOrig # 0
    PROVE  /\ g \in FilterTypes /\ Matches(e, g) /\ NothingHeld(g) /\ Kept(f, g)
           /\ g.completed = "none" /\ g.got = <<>> /\ ~g.threw
<1>1. /\ g \in FilterTypes /\ g.plain = <<>> /\ g.remaining = <<>> /\ Kept(f, g)
      /\ g.completed = "none" /\ g.got = <<>> /\ ~g.threw /\ g.posted \in {"read", "write"}
      /\ g.mPreState = f.mPreState /\ g.mBytesRequestedOrig = f.mBytesRequestedOrig
      /\ g.posted = "read" /\ ~package.schannel => BlockPending(g)
      /\ g.posted = "read" /\ f.mPreState = "Writing" => g.mContextState # "AuthOkAck"
      /\ g.posted = "write" /\ f.mPreState = "Reading" => g.mContextState # "AuthOkAck"
  BY DEF Reads, Writes, Kept, NothingHeld
<1>2. FilterOK(g)
  BY <1>1 DEF FilterOK, NothingHeld
<1>3. Coupled(g, user[e])
  BY <1>1 DEF Coupled
<1>4. QED
  BY <1>1, <1>2, <1>3 DEF Matches, NothingHeld

\* A filter that throws, and so its end leaves.
LEMMA ThrownMatches ==
    ASSUME NEW e, NEW f, Fresh(f), NEW g, g = Throw(f)
    PROVE  /\ g \in FilterTypes /\ Matches(e, g) /\ g.posted = "none" /\ LeftBy(g) = <<>>
           /\ g.completed = "none" /\ g.got = <<>> /\ g.threw /\ g.mContextState = f.mContextState
BY Thrown DEF Matches, Kept, LeftBy

\* What an event of the handshake leaves alone.
LEMMA HandshakeEvent ==
    ASSUME FilterInv, filter["client"].mContextState # "AuthOkAck",
           NEW e \in Ends, NEW g, Event(e, g), Matches(e, g), g.got = <<>>,
           g.completed \in {"none", "zero"}
    PROVE  /\ TypesOK' /\ EndsOK' /\ Safe' /\ package' = package /\ refused' = refused
           /\ filter'[e] = Told(g) /\ filter'[Peer(e)] = filter[Peer(e)]
           /\ user'[Peer(e)] = user[Peer(e)] /\ user'[e].phase = user[e].phase
           /\ \A d \in Ends : delivered'[d] = <<>>
           /\ up' = IF g.threw THEN up \ {e} ELSE up
           /\ \A b : Frame(b)' = Frame(b)
<1>1. ServerWaits /\ (\A d \in Ends : delivered[d] = <<>>)
  BY DEF FilterInv, Handshake, ServerWaits
<1>2. Len(delivered[e]) = 0 /\ Len(g.got) = 0 /\ sent[Peer(e)] \in Nat
  BY <1>1, Sides DEF FilterInv, TypesOK
<1>3. Numbered(g.got, Len(delivered[e])) /\ Len(delivered[e]) + Len(g.got) <= sent[Peer(e)]
  BY <1>2 DEF Numbered
<1>4. /\ TypesOK' /\ EndsOK' /\ Safe'
      /\ filter'[e] = Told(g) /\ filter'[Peer(e)] = filter[Peer(e)]
      /\ user'[e] = Resumed(e, g) /\ user'[Peer(e)] = user[Peer(e)]
      /\ delivered'[e] = delivered[e] \o g.got /\ delivered'[Peer(e)] = delivered[Peer(e)]
      /\ up' = IF g.threw THEN up \ {e} ELSE up
  BY <1>3, EventKeeps DEF FilterInv
<1>5. Resumed(e, g).phase = user[e].phase
  BY Resumption DEF FilterInv, EndsOK, Event
<1>6. \A d \in Ends : delivered'[d] = <<>>
  <2>1. <<>> \o <<>> = <<>>
    OBVIOUS
  <2>2. delivered'[e] = <<>> /\ delivered'[Peer(e)] = <<>>
    BY <1>1, <1>4, <2>1, Sides
  <2>3. QED
    BY <2>2, Sides
<1>7. package' = package /\ refused' = refused
  BY DEF Event
<1>8. \A b : Frame(b)' = Frame(b)
  BY <1>7, SamePackage
<1>9. QED
  BY <1>4, <1>5, <1>6, <1>7, <1>8

\* A token on its way to the server stays there.
LEMMA AskedStays ==
    ASSUME NEW k \in Nat, Asked(k), package' = package, \A b : Frame(b)' = Frame(b),
           Stream("server")' = Stream("server"), up' \subseteq up,
           filter'["server"].mContextState = "AuthContinue", filter'["server"].posted # "write",
           "client" \in up' => filter'["client"].mContextState = filter["client"].mContextState
    PROVE  Asked(k)'
<1>1. Frame(Token(k))' = Frame(Token(k))
  OBVIOUS
<1>2. QED
  BY <1>1 DEF Asked

\* An answer on its way to the client stays there.
LEMMA AnswerStays ==
    ASSUME package' = package, \A b : Frame(b)' = Frame(b),
           Stream("client")' = Stream("client"),
           filter'["client"].mContextState = filter["client"].mContextState,
           \/ filter'["server"].mContextState = filter["server"].mContextState
           \/ filter["server"].mContextState = "AuthOk" /\ filter'["server"].mContextState = "AuthOkAck"
    PROVE  /\ \A k \in Nat : AnsweredBy(k) => AnsweredBy(k)'
           /\ Verdict => Verdict'
<1>1. ASSUME NEW k \in Nat, AnsweredBy(k) PROVE AnsweredBy(k)'
  <2>1. Frame(Token(k))' = Frame(Token(k))
    OBVIOUS
  <2>2. QED
    BY <1>1, <2>1 DEF AnsweredBy
<1>2. ASSUME Verdict PROVE Verdict'
  <2>1. Frame(Status(TRUE))' = Frame(Status(TRUE)) /\ Frame(Status(FALSE))' = Frame(Status(FALSE))
    OBVIOUS
  <2>2. QED
    BY <1>2, <2>1 DEF Verdict
<1>3. QED
  BY <1>1, <1>2

\* The two ends by name.
LEMMA EndsNamed == /\ "client" \in Ends /\ "server" \in Ends /\ "client" # "server"
                   /\ Peer("client") = "server" /\ Peer("server") = "client"
BY DEF Ends, Peer

\* The server reads, writes or gives up, and the streams are as they were.
LEMMA ServerQuiet ==
    ASSUME FilterInv, filter["client"].mContextState # "AuthOkAck",
           NEW g, Event("server", g), sent' = sent, Matches("server", g), g.got = <<>>,
           g.completed \in {"none", "zero"},
           "client" \in up => Stream("client")' = Stream("client"),
           ~g.threw =>
              /\ Stream("server")' = Stream("server") /\ NothingHeld(g)
              /\ g.posted = "write" => g.mPreState = "Reading" /\ g.mBytesRequestedOrig # 0
              /\ filter["server"].mContextState = "AuthContinue" /\ filter["server"].posted # "write" =>
                    g.mContextState = "AuthContinue" /\ g.posted # "write"
              /\ g.mContextState = "AuthFailed" => g.posted = "write" /\ g.mWriteBuffer # <<>>
              /\ g.mContextState = "AuthContinue" /\ g.posted = "write" =>
                    g.mWriteBuffer # <<>> \/ ("client" \in up => Stream("client") = <<>>),
           g.mContextState = "AuthOk" => g.posted = "write" /\ g.mWriteBuffer # <<>>,
           \/ g.mContextState = filter["server"].mContextState
           \/ filter["server"].mContextState = "AuthOk" /\ g.mContextState = "AuthOkAck"
    PROVE  FilterInv'
<1> DEFINE S == filter["server"]
           T == Told(g)
<1>1. /\ TypesOK' /\ EndsOK' /\ Safe' /\ package' = package
      /\ filter'["server"] = T /\ filter'["client"] = filter["client"]
      /\ user'["client"] = user["client"] /\ user'["server"].phase = user["server"].phase
      /\ \A d \in Ends : delivered'[d] = <<>>
      /\ up' = IF g.threw THEN up \ {"server"} ELSE up
      /\ \A b : Frame(b)' = Frame(b)
  BY HandshakeEvent, EndsNamed
<1>2. /\ T.mContextState = g.mContextState /\ T.posted = g.posted /\ T.mWriteBuffer = g.mWriteBuffer
      /\ T.mPreState = g.mPreState /\ T.mBytesRequestedOrig = g.mBytesRequestedOrig
      /\ NothingHeld(T) <=> NothingHeld(g)
  BY ToldFields, ToldMeans DEF Event, Kept
<1> HIDE DEF T
<1>3. up' \subseteq up /\ ("client" \in up' <=> "client" \in up) /\ ("server" \in up' => ~g.threw)
      /\ "server" \in up
  BY <1>1, EndsNamed DEF Event
<1>4. package.legs \in Nat
  BY ConstantFacts DEF FilterInv, TypesOK
<1>5. ServerStates'
  BY <1>1, <1>2, <1>3 DEF ServerStates
<1>6. ServerWaits /\ ("client" \in up => NotStarted \/ UnderWay)
  BY DEF FilterInv, Handshake
<1>7. ASSUME NEW k \in 1 .. package.legs, Asked(k), "server" \in up' PROVE Asked(k)'
  <2>1. k \in Nat /\ S.mContextState = "AuthContinue" /\ S.posted # "write"
    BY <1>4, <1>7 DEF Asked
  <2>2. QED
    BY <1>1, <1>2, <1>3, <1>7, <2>1, AskedStays
<1>8. ServerWaits'
  <2>1. /\ user'["server"].phase = "reading" /\ sent'["server"] = 0
        /\ \A e \in Ends : delivered'[e] = <<>>
    BY <1>1, <1>6 DEF ServerWaits
  <2>2. ASSUME "server" \in up'
        PROVE  /\ NothingHeld(T)
               /\ T.posted = "write" => T.mPreState = "Reading" /\ T.mBytesRequestedOrig # 0
               /\ Stream("server")' = <<>> \/ \E k \in 1 .. package.legs : Asked(k)'
    BY <1>2, <1>3, <1>6, <1>7, <2>2 DEF ServerWaits
  <2>3. QED
    BY <1>1, <2>1, <2>2 DEF ServerWaits, NothingHeld
<1>9. ASSUME "client" \in up' PROVE NotStarted' \/ UnderWay'
  <2>1. Stream("client")' = Stream("client") /\ (NotStarted \/ UnderWay)
    BY <1>3, <1>6, <1>9
  <2>2. CASE NotStarted
    <3>1. "server" \in up' =>
            /\ Stream("server")' = <<>> /\ T.mContextState = "AuthContinue" /\ T.posted # "write"
      BY <1>2, <1>3, <2>2 DEF NotStarted
    <3>2. NotStarted'
      BY <1>1, <2>1, <2>2, <3>1 DEF NotStarted
    <3>3. QED
      BY <3>2
  <2>3. CASE UnderWay
    <3>1. FirstWrite'
      BY <1>1, <2>3 DEF UnderWay, FirstWrite
    <3>2. /\ \A k \in Nat : AnsweredBy(k) => AnsweredBy(k)'
          /\ Verdict => Verdict'
      BY <1>1, <1>2, <2>1, AnswerStays
    <3>3. (\E k \in 1 .. package.legs : Asked(k)) /\ "server" \in up'
             => \E k \in 1 .. package.legs : Asked(k)'
      BY <1>7
    <3>4. (\E k \in 1 .. package.legs : AnsweredBy(k)) => \E k \in 1 .. package.legs : AnsweredBy(k)'
      <4>1. \A k \in 1 .. package.legs : k \in Nat
        BY <1>4
      <4>2. QED
        BY <3>2, <4>1
    <3>5. "server" \in up' => "server" \in up /\ Stream("server")' = Stream("server")
      BY <1>3
    <3>6. UnderWay'
      BY <1>1, <2>1, <2>3, <3>1, <3>2, <3>3, <3>4, <3>5 DEF UnderWay
    <3>7. QED
      BY <3>6
  <2>4. QED
    BY <2>1, <2>2, <2>3
<1>10. QED
  BY <1>1, <1>5, <1>8, <1>9 DEF FilterInv, Handshake, DataPhase

\* The streams after an event of e's.
LEMMA StreamsAfter ==
    ASSUME TypesOK, NEW e \in Ends, NEW g, Event(e, g)
    PROVE  /\ Stream(e)' = HeldBy(g) \o (wire'[e] \o LeftBy(filter[Peer(e)]))
           /\ Stream(Peer(e))' = HeldBy(filter[Peer(e)]) \o (wire'[Peer(e)] \o LeftBy(g))
           /\ Stream(e) = HeldBy(filter[e]) \o (wire[e] \o LeftBy(filter[Peer(e)]))
           /\ Stream(Peer(e)) = HeldBy(filter[Peer(e)]) \o (wire[Peer(e)] \o LeftBy(filter[e]))
<1>1. Peer(e) \in Ends /\ Peer(e) # e /\ Peer(Peer(e)) = e
  BY Sides
<1>2. filter' = [filter EXCEPT ![e] = Told(g)] /\ filter \in [Ends -> FilterTypes] /\ g \in FilterTypes
  BY DEF Event, Settle, Told, TypesOK
<1>3. filter'[e] = Told(g) /\ filter'[Peer(e)] = filter[Peer(e)]
  BY <1>1, <1>2
<1>4. HeldBy(Told(g)) = HeldBy(g) /\ LeftBy(Told(g)) = LeftBy(g)
  BY <1>2, ToldMeans
<1>5. /\ HeldBy(filter[e])' = HeldBy(g) /\ LeftBy(filter[e])' = LeftBy(g)
      /\ HeldBy(filter[Peer(e)])' = HeldBy(filter[Peer(e)])
      /\ LeftBy(filter[Peer(e)])' = LeftBy(filter[Peer(e)])
  BY <1>3, <1>4 DEF HeldBy, LeftBy
<1>6. QED
  BY <1>1, <1>5 DEF Stream

\* An event below which nothing moves.
LEMMA StreamsKept ==
    ASSUME TypesOK, NEW e \in Ends, NEW g, Event(e, g), wire' = wire,
           HeldBy(g) = HeldBy(filter[e]), LeftBy(g) = LeftBy(filter[e])
    PROVE  Stream(e)' = Stream(e) /\ Stream(Peer(e))' = Stream(Peer(e))
<1>1. /\ Stream(e)' = HeldBy(g) \o (wire'[e] \o LeftBy(filter[Peer(e)]))
      /\ Stream(Peer(e))' = HeldBy(filter[Peer(e)]) \o (wire'[Peer(e)] \o LeftBy(g))
      /\ Stream(e) = HeldBy(filter[e]) \o (wire[e] \o LeftBy(filter[Peer(e)]))
      /\ Stream(Peer(e)) = HeldBy(filter[Peer(e)]) \o (wire[Peer(e)] \o LeftBy(filter[e]))
  BY StreamsAfter
<1>2. QED
  BY <1>1

\* The empty sequence.
LEMMA Nothing ==
    ASSUME NEW S, NEW s \in Seq(S)
    PROVE  /\ s \o <<>> = s /\ <<>> \o s = s
           /\ \A t \in Seq(S) : s \o t = <<>> => s = <<>> /\ t = <<>>
<1>1. s \o <<>> = s /\ <<>> \o s = s
  BY ConcatEmptySeq
<1>2. ASSUME NEW t \in Seq(S), s \o t = <<>> PROVE s = <<>> /\ t = <<>>
  <2>1. Len(s \o t) = Len(s) + Len(t) /\ Len(s) \in Nat /\ Len(t) \in Nat
    OBVIOUS
  <2>2. Len(s) = 0 /\ Len(t) = 0
    BY <1>2, <2>1
  <2>3. QED
    BY <2>2, EmptySeq
<1>3. QED
  BY <1>1, <1>2

\* The server has read a token and answers.
LEMMA ServerAnswers ==
    ASSUME FilterInv, filter["client"].mContextState # "AuthOkAck",
           NEW g, Event("server", g), sent' = sent, Matches("server", g),
           NEW k \in 1 .. package.legs, Asked(k),
           wire'["client"] = wire["client"], wire'["server"] \o LeftBy(filter["client"]) = <<>>,
           NothingHeld(g), g.completed = "none", g.got = <<>>, ~g.threw,
           g.mPreState = "Reading", g.mBytesRequestedOrig # 0, g.posted = "write",
           \/ ~package.schannel /\ g.mWriteBuffer = Frame(Status(FALSE)) /\ g.mContextState = "AuthFailed"
           \/ package.schannel /\ g.mWriteBuffer = <<>> /\ g.mContextState = "AuthContinue"
           \/ /\ k + 1 <= package.legs /\ g.mWriteBuffer = Frame(Token(k + 1))
              /\ g.mContextState = IF k + 1 = package.legs THEN "AuthOk" ELSE "AuthContinue"
           \/ /\ ~package.schannel /\ k = package.legs
              /\ g.mWriteBuffer = Frame(Status(TRUE)) /\ g.mContextState = "AuthOk"
    PROVE  FilterInv'
<1> DEFINE S == filter["server"]
           C == filter["client"]
           T == Told(g)
<1>1. /\ TypesOK' /\ EndsOK' /\ Safe' /\ package' = package
      /\ filter'["server"] = T /\ filter'["client"] = C
      /\ user'["client"] = user["client"] /\ user'["server"].phase = user["server"].phase
      /\ \A d \in Ends : delivered'[d] = <<>>
      /\ up' = up
      /\ \A b : Frame(b)' = Frame(b)
  BY HandshakeEvent, EndsNamed
<1>2. /\ T.mContextState = g.mContextState /\ T.posted = g.posted /\ T.mWriteBuffer = g.mWriteBuffer
      /\ T.mPreState = g.mPreState /\ T.mBytesRequestedOrig = g.mBytesRequestedOrig
      /\ NothingHeld(T)
  BY ToldFields, ToldMeans DEF Event, Kept
<1> HIDE DEF T
<1>3. "server" \in up
  BY DEF Event
<1>4. package \in Packages /\ TypesOK
  BY DEF FilterInv, TypesOK
<1>5. package.legs \in Nat /\ k \in Nat
  BY <1>4, ConstantFacts
<1>6. /\ Stream("server") = Frame(Token(k)) /\ S.mContextState = "AuthContinue" /\ S.posted # "write"
      /\ k % 2 = 1
      /\ "client" \in up => C.mContextState = IF k = package.legs THEN "AuthOk" ELSE "AuthContinue"
  BY DEF Asked
<1>7. Frame(Token(k)) # <<>> /\ Frame(Token(k + 1)) # <<>>
      /\ Frame(Status(TRUE)) # <<>> /\ Frame(Status(FALSE)) # <<>>
  <2>1. k + 1 \in Nat /\ TRUE \in BOOLEAN /\ FALSE \in BOOLEAN
    BY <1>5
  <2>2. QED
    BY <1>4, <1>5, <2>1, TokenFrames
<1>8. Stream("server")' = <<>>
  <2>1. HeldBy(g) = <<>>
    BY DEF HeldBy, NothingHeld
  <2>2. <<>> \o <<>> = <<>>
    OBVIOUS
  <2>3. Stream("server")' = HeldBy(g) \o (wire'["server"] \o LeftBy(C))
    BY <1>4, StreamsAfter, EndsNamed
  <2>4. QED
    BY <2>1, <2>2, <2>3
<1>9. ASSUME "client" \in up
      PROVE  /\ FirstWrite /\ C.posted = "read" /\ Stream("client") = <<>>
             /\ Stream("client")' = g.mWriteBuffer
  <2>1. UnderWay
    BY <1>3, <1>6, <1>7, <1>9 DEF FilterInv, Handshake, NotStarted
  <2>2. FirstWrite /\ Stream("client") = <<>>
        /\ (C.posted = "read" \/ (C.posted = "write" /\ C.mWriteBuffer # <<>>))
    BY <1>3, <1>6, <1>7, <2>1 DEF UnderWay
  <2>3. /\ HeldBy(C) \in Seq(Units) /\ LeftBy(C) \in Seq(Units)
        /\ wire["client"] \in Seq(Units) /\ wire'["server"] \in Seq(Units)
        /\ g.mWriteBuffer \in Seq(Units)
    <3>1. HeldBy(C) \in Seq(Units) /\ LeftBy(C) \in Seq(Units) /\ wire["client"] \in Seq(Units)
      BY <1>4, StreamParts, EndsNamed
    <3>2. wire'["server"] \in Seq(Units) /\ g.mWriteBuffer \in Seq(Units)
      BY EndsNamed DEF Event, FilterTypes
    <3>3. QED
      BY <3>1, <3>2
  <2>4. LeftBy(C) = <<>>
    BY <2>3, Nothing
  <2>5. C.posted = "read"
    BY <2>2, <2>4 DEF LeftBy
  <2>6. LeftBy(S) = <<>> /\ LeftBy(g) = g.mWriteBuffer
    BY <1>6 DEF LeftBy
  <2>7. HeldBy(C) = <<>> /\ wire["client"] = <<>>
    <3>1. Stream("client") = HeldBy(C) \o (wire["client"] \o <<>>)
      BY <2>6, EndsNamed DEF Stream
    <3>2. wire["client"] \o <<>> = wire["client"]
      BY <2>3, Nothing
    <3>3. HeldBy(C) \o wire["client"] = <<>>
      BY <2>2, <3>1, <3>2
    <3>4. QED
      BY <2>3, <3>3, Nothing
  <2>8. Stream("client")' = HeldBy(C) \o (wire["client"] \o g.mWriteBuffer)
    <3>1. Stream(Peer("server"))'
            = HeldBy(filter[Peer("server")]) \o (wire'[Peer("server")] \o LeftBy(g))
      BY <1>4, StreamsAfter, EndsNamed
    <3>2. QED
      BY <2>6, <3>1, EndsNamed
  <2>9. <<>> \o g.mWriteBuffer = g.mWriteBuffer
    BY <2>3, Nothing
  <2>10. QED
    BY <2>2, <2>5, <2>7, <2>8, <2>9
<1>10. ServerStates'
  <2>1. g.mContextState = "AuthContinue" => g.mWriteBuffer # <<>> \/ ("client" \in up => Stream("client")' = <<>>)
    BY <1>7, <1>9
  <2>2. g.mContextState \in {"AuthOk", "AuthFailed"} => g.mWriteBuffer # <<>>
    BY <1>7
  <2>3. QED
    BY <1>1, <1>2, <2>1, <2>2 DEF ServerStates
<1>11. ServerWaits'
  <2>1. user["server"].phase = "reading" /\ sent["server"] = 0
    BY DEF FilterInv, Handshake, ServerWaits
  <2>2. QED
    BY <1>1, <1>2, <1>8, <2>1 DEF ServerWaits, NothingHeld
<1>12. ASSUME "client" \in up' PROVE UnderWay'
  <2>1. /\ FirstWrite /\ C.posted = "read" /\ Stream("client")' = g.mWriteBuffer
    BY <1>1, <1>9, <1>12
  <2>2. FirstWrite'
    BY <1>1, <2>1 DEF FirstWrite
  <2>3. CASE ~package.schannel /\ g.mWriteBuffer = Frame(Status(FALSE))
    <3>1. Verdict'
      BY <1>1, <2>1, <2>3 DEF Verdict
    <3>2. QED
      BY <1>1, <1>8, <2>1, <2>2, <3>1 DEF UnderWay
  <2>4. CASE g.mWriteBuffer = <<>>
    BY <1>1, <1>8, <2>1, <2>2, <2>4 DEF UnderWay
  <2>5. CASE /\ k + 1 <= package.legs /\ g.mWriteBuffer = Frame(Token(k + 1))
             /\ g.mContextState = IF k + 1 = package.legs THEN "AuthOk" ELSE "AuthContinue"
    <3>1. C.mContextState = "AuthContinue"
      BY <1>1, <1>5, <1>6, <1>12, <2>5
    <3>2. (k + 1) % 2 = 0 /\ k + 1 \in 1 .. package.legs
      BY <1>5, <1>6, <2>5
    <3>3. AnsweredBy(k + 1)'
      BY <1>1, <1>2, <2>1, <2>5, <3>1, <3>2 DEF AnsweredBy
    <3>4. \E j \in 1 .. package.legs : AnsweredBy(j)'
      BY <3>2, <3>3
    <3>5. QED
      BY <1>1, <1>8, <2>1, <2>2, <3>4 DEF UnderWay
  <2>6. CASE /\ ~package.schannel /\ k = package.legs
             /\ g.mWriteBuffer = Frame(Status(TRUE)) /\ g.mContextState = "AuthOk"
    <3>1. Verdict'
      BY <1>1, <1>2, <1>6, <1>12, <2>1, <2>6 DEF Verdict
    <3>2. QED
      BY <1>1, <1>8, <2>1, <2>2, <3>1 DEF UnderWay
  <2>7. QED
    BY <2>3, <2>4, <2>5, <2>6
<1>13. QED
  BY <1>1, <1>10, <1>11, <1>12 DEF FilterInv, Handshake, DataPhase

\* The server reads a block of the handshake.
LEMMA ServerReadsToken ==
    ASSUME FilterInv, filter["client"].mContextState # "AuthOkAck",
           NEW units, ReadEvent("server", units)
    PROVE  FilterInv'
<1> DEFINE S == filter["server"]
           f == Below(S)
           raw == S.mReadBuffer \o units
           w == wire'["server"] \o LeftBy(filter["client"])
           g == OnReadCompleted("server", f, units)
<1>1. /\ TypesOK /\ EndsOK /\ package \in Packages /\ "server" \in up /\ S.posted = "read"
      /\ Unmoved /\ wire' \in [Ends -> Seq(Units)] /\ wire'["client"] = wire["client"]
      /\ Settle("server", g) /\ sent' = sent
      /\ ~package.schannel => Len(raw) <= S.mReadBufferLen
  BY EndsNamed DEF FilterInv, TypesOK, ReadEvent, Unmoved
<1>2. /\ Fresh(f) /\ Kept(S, f) /\ f.mContextState = S.mContextState
      /\ f.mReadBuffer = S.mReadBuffer /\ f.mReadBufferLen = S.mReadBufferLen
      /\ f.plain = S.plain /\ f.remaining = S.remaining
      /\ BlockPending(S) => BlockPending(f)
      /\ FilterOK(S) /\ Coupled(S, user["server"])
  BY <1>1, BelowDone
<1>3. user["server"].phase = "reading" /\ (Stream("server") = <<>> \/ \E k \in 1 .. package.legs : Asked(k))
  BY <1>1 DEF FilterInv, Handshake, ServerWaits
<1>4. /\ f.mPreState = "Reading" /\ f.mBytesRequestedOrig = user["server"].need
      /\ f.mBytesRequestedOrig # 0 /\ NothingHeld(f) /\ (~package.schannel => BlockPending(f))
  BY <1>1, <1>2, <1>3 DEF FilterOK, Coupled, Kept, NothingHeld
<1>5. S.mContextState \notin {"AuthOk", "AuthFailed"}
  BY <1>1 DEF FilterInv, ServerStates
<1>6. /\ raw \in Seq(Units) /\ w \in Seq(Units) /\ raw \o w = Stream("server")
      /\ f.mReadBuffer # <<>> => raw # <<>> /\ raw[1] = f.mReadBuffer[1]
  BY <1>1, <1>2, StreamRead, EndsNamed
<1>7. g = BlockCame("server", f, raw)
  <2>1. Waits(f)
    BY <1>4 DEF Waits
  <2>2. OnReadCompleted("server", f, units) = BlockCame("server", f, f.mReadBuffer \o units)
    BY <2>1, Came
  <2>3. QED
    BY <1>2, <2>2
<1>8. LeftBy(S) = <<>>
  BY <1>1 DEF LeftBy
<1> HIDE DEF f, raw, w, g
<1>9. ASSUME Event("server", g)
      PROVE  /\ Stream("server")' = HeldBy(g) \o w
             /\ LeftBy(g) = <<>> => Stream("client")' = Stream("client")
  <2>1. /\ Stream("server")' = HeldBy(g) \o (wire'["server"] \o LeftBy(filter[Peer("server")]))
        /\ Stream(Peer("server"))' = HeldBy(filter[Peer("server")]) \o (wire'[Peer("server")] \o LeftBy(g))
        /\ Stream(Peer("server")) = HeldBy(filter[Peer("server")]) \o (wire[Peer("server")] \o LeftBy(S))
    BY <1>1, <1>9, StreamsAfter, EndsNamed
  <2>2. QED
    BY <1>1, <1>8, <2>1, EndsNamed DEF w
<1>10. ASSUME NEW len \in Nat, g = PostRead(f, raw, len), ~package.schannel => BlockPending(g)
       PROVE  FilterInv'
  <2>1. Reads(f, g, raw) /\ g.mContextState = f.mContextState
    BY <1>2, <1>6, <1>10, ReadsOn
  <2>2. /\ g \in FilterTypes /\ Matches("server", g) /\ NothingHeld(g)
        /\ g.completed = "none" /\ g.got = <<>> /\ ~g.threw
    <3>1. Reads(f, g, raw) /\ (f.mPreState = "Writing" => g.mContextState # "AuthOkAck")
      BY <1>4, <2>1
    <3>2. QED
      BY <1>2, <1>3, <1>4, <3>1, HandshakeMatches
  <2>3. Event("server", g)
    BY <1>1, <2>2, EventOf
  <2>4. g.posted = "read" /\ HeldBy(g) = raw /\ LeftBy(g) = <<>>
    BY <2>1 DEF Reads, HeldBy, LeftBy
  <2>5. Stream("server")' = Stream("server") /\ Stream("client")' = Stream("client")
    BY <1>6, <1>9, <2>3, <2>4
  <2>6. QED
    BY <1>1, <1>2, <1>5, <2>1, <2>2, <2>3, <2>4, <2>5, ServerQuiet
<1>11. ASSUME g = Throw(f) PROVE FilterInv'
  <2>1. /\ g \in FilterTypes /\ Matches("server", g) /\ LeftBy(g) = <<>>
        /\ g.completed = "none" /\ g.got = <<>> /\ g.threw /\ g.mContextState = f.mContextState
    BY <1>2, <1>11, ThrownMatches
  <2>2. Event("server", g)
    BY <1>1, <2>1, EventOf
  <2>3. Stream("client")' = Stream("client")
    BY <1>9, <2>1, <2>2
  <2>4. QED
    BY <1>1, <1>2, <1>5, <2>1, <2>2, <2>3, ServerQuiet
<1>12. CASE Stream("server") = <<>>
  <2>1. raw = <<>>
    BY <1>6, <1>12, Nothing
  <2>2. f.mReadBuffer = <<>>
    BY <1>6, <2>1
  <2>3. \E len \in Nat : g = PostRead(f, raw, len) /\ (~package.schannel => BlockPending(g))
    BY <1>1, <1>2, <1>4, <1>7, <2>1, <2>2, NothingCame, EndsNamed
  <2>4. QED
    BY <1>10, <2>3
<1>13. ASSUME NEW k \in 1 .. package.legs, Asked(k) PROVE FilterInv'
  <2>1. k \in Nat /\ Token(k) \in Blocks /\ Token(k).kind = "token" /\ k % 2 = 1
        /\ Stream("server") = Frame(Token(k)) /\ S.mContextState = "AuthContinue"
    BY <1>1, <1>13, ConstantFacts, BlockKinds DEF Asked
  <2>2. /\ raw # <<>> => raw[1].block = Token(k)
        /\ Len(raw) <= Size(Token(k))
        /\ Len(raw) = Size(Token(k)) => w = <<>>
    BY <1>1, <1>6, <2>1, OneBlock
  <2>3. \/ g = Throw(f)
        \/ \E len \in Nat : g = PostRead(f, raw, len) /\ (~package.schannel => BlockPending(g))
        \/ Len(raw) = Size(Token(k)) /\ g = HandshakeStep("server", f, Token(k))
    <3>1. f.mContextState # "AuthOkAck" /\ (~package.schannel => BlockPending(f) /\ Len(raw) <= f.mReadBufferLen)
      BY <1>1, <1>2, <1>4, <2>1
    <3>2. QED
      BY <1>1, <1>2, <1>6, <1>7, <2>1, <2>2, <3>1, HandshakeBlock, EndsNamed
  <2>4. CASE Len(raw) = Size(Token(k)) /\ g = HandshakeStep("server", f, Token(k))
    <3>1. \/ ~package.schannel /\ Writes(f, g, Frame(Status(FALSE))) /\ g.mContextState = "AuthFailed"
          \/ package.schannel /\ Writes(f, g, <<>>) /\ g.mContextState = f.mContextState
          \/ /\ k + 1 <= package.legs /\ Writes(f, g, Frame(Token(k + 1)))
             /\ g.mContextState = IF k + 1 = package.legs THEN "AuthOk" ELSE "AuthContinue"
          \/ /\ ~package.schannel /\ k = package.legs
             /\ Writes(f, g, Frame(Status(TRUE))) /\ g.mContextState = "AuthOk"
      BY <1>1, <1>2, <1>13, <2>1, <2>4, ServerStep
    <3>2. PICK s : Writes(f, g, s) /\ g.mContextState # "AuthOkAck"
      BY <1>2, <2>1, <3>1
    <3>3. /\ g \in FilterTypes /\ Matches("server", g) /\ NothingHeld(g) /\ Kept(f, g)
          /\ g.completed = "none" /\ g.got = <<>> /\ ~g.threw
      BY <1>2, <1>3, <1>4, <3>2, HandshakeMatches
    <3>4. Event("server", g)
      BY <1>1, <3>3, EventOf
    <3>5. g.posted = "write" /\ g.mPreState = "Reading" /\ g.mBytesRequestedOrig # 0
      BY <1>4, <3>2, <3>3 DEF Writes, Kept
    <3>6. wire'["server"] \o LeftBy(filter["client"]) = <<>>
      BY <2>2, <2>4 DEF w
    <3>7. \/ ~package.schannel /\ g.mWriteBuffer = Frame(Status(FALSE)) /\ g.mContextState = "AuthFailed"
          \/ package.schannel /\ g.mWriteBuffer = <<>> /\ g.mContextState = "AuthContinue"
          \/ /\ k + 1 <= package.legs /\ g.mWriteBuffer = Frame(Token(k + 1))
             /\ g.mContextState = IF k + 1 = package.legs THEN "AuthOk" ELSE "AuthContinue"
          \/ /\ ~package.schannel /\ k = package.legs
             /\ g.mWriteBuffer = Frame(Status(TRUE)) /\ g.mContextState = "AuthOk"
      BY <1>2, <2>1, <3>1 DEF Writes
    <3>8. QED
      BY <1>1, <1>13, <3>3, <3>4, <3>5, <3>6, <3>7, ServerAnswers
  <2>5. QED
    BY <1>10, <1>11, <2>3, <2>4
<1>14. QED
  BY <1>3, <1>12, <1>13

\* The server has written some of its answer.
LEMMA ServerWritesAnswer ==
    ASSUME FilterInv, filter["client"].mContextState # "AuthOkAck",
           NEW n, WriteEvent("server", n)
    PROVE  FilterInv'
<1> DEFINE S == filter["server"]
           C == filter["client"]
           f == Below(S)
           rest == From(S.mWriteBuffer, n)
           g == OnWriteCompleted("server", f, n)
<1>1. /\ TypesOK /\ EndsOK /\ package \in Packages /\ "server" \in up /\ S.posted = "write"
      /\ Unmoved /\ Settle("server", g) /\ sent' = sent /\ n \in 0 .. Len(S.mWriteBuffer)
  BY EndsNamed DEF FilterInv, TypesOK, WriteEvent, Unmoved
<1>2. /\ Fresh(f) /\ Kept(S, f) /\ f.mContextState = S.mContextState
      /\ f.mWriteBuffer = S.mWriteBuffer /\ f.plain = S.plain /\ f.remaining = S.remaining
      /\ FilterOK(S) /\ Coupled(S, user["server"])
  BY <1>1, BelowDone
<1>3. /\ user["server"].phase = "reading" /\ NothingHeld(S)
      /\ S.mPreState = "Reading" /\ S.mBytesRequestedOrig # 0
      /\ Stream("server") = <<>> \/ \E k \in 1 .. package.legs : Asked(k)
  BY <1>1 DEF FilterInv, Handshake, ServerWaits
<1>4. /\ f.mPreState = "Reading" /\ f.mBytesRequestedOrig = user["server"].need
      /\ f.mBytesRequestedOrig # 0 /\ NothingHeld(f) /\ f.mContextState # "AuthOkAck"
  BY <1>1, <1>2, <1>3 DEF Coupled, Kept, NothingHeld
<1>5. Stream("server") = <<>>
  BY <1>1, <1>3 DEF Asked
<1>6. /\ From(S.mWriteBuffer, n) \in Seq(Units) /\ wire' \in [Ends -> Seq(Units)]
      /\ wire'["server"] = wire["server"]
      /\ HeldBy(filter[Peer("server")]) \o (wire'[Peer("server")] \o From(S.mWriteBuffer, n))
            = Stream(Peer("server"))
  BY <1>1, StreamWritten, EndsNamed
<1>7. /\ rest \in Seq(Units) /\ HeldBy(C) \o (wire'["client"] \o rest) = Stream("client")
  BY <1>6, EndsNamed
<1>8. \/ rest # <<>> /\ Writes(f, g, rest) /\ g.mContextState = f.mContextState
      \/ /\ rest = <<>> /\ Reads(f, g, <<>>) /\ f.mContextState \in {"AuthOk", "AuthContinue"}
         /\ g.mContextState = IF f.mContextState = "AuthOk" THEN "AuthOkAck" ELSE f.mContextState
      \/ rest = <<>> /\ f.mContextState = "AuthFailed" /\ g = Throw(f)
  <2>1. n \in 0 .. Len(f.mWriteBuffer) /\ rest = From(f.mWriteBuffer, n)
    BY <1>1, <1>2
  <2>2. \/ rest # <<>> /\ Writes(f, g, rest) /\ g.mContextState = f.mContextState
        \/ /\ rest = <<>> /\ f.mContextState = "AuthOkAck"
           /\ g = [f EXCEPT !.completed = "write"]
        \/ /\ rest = <<>> /\ f.mContextState # "AuthOkAck" /\ Reads(f, g, <<>>)
           /\ "server" = "server" => f.mContextState \in {"AuthOk", "AuthContinue"}
           /\ g.mContextState = IF "server" = "server" /\ f.mContextState = "AuthOk"
                                THEN "AuthOkAck" ELSE f.mContextState
        \/ rest = <<>> /\ "server" = "server" /\ f.mContextState = "AuthFailed" /\ g = Throw(f)
    BY <1>1, <1>2, <1>4, <2>1, WriteCompleted, EndsNamed
  <2>3. QED
    BY <1>4, <2>2
<1> HIDE DEF f, rest, g
<1>9. ASSUME Event("server", g)
      PROVE  /\ HeldBy(g) = <<>> => Stream("server")' = Stream("server")
             /\ LeftBy(g) = rest => Stream("client")' = Stream("client")
  <2>1. /\ Stream("server")' = HeldBy(g) \o (wire'["server"] \o LeftBy(filter[Peer("server")]))
        /\ Stream(Peer("server"))' = HeldBy(filter[Peer("server")]) \o (wire'[Peer("server")] \o LeftBy(g))
        /\ Stream("server") = HeldBy(S) \o (wire["server"] \o LeftBy(filter[Peer("server")]))
    BY <1>1, <1>9, StreamsAfter, EndsNamed
  <2>2. HeldBy(S) = <<>>
    BY <1>1, <1>3 DEF HeldBy, NothingHeld
  <2>3. QED
    BY <1>6, <1>7, <2>1, <2>2, EndsNamed
<1>10. CASE rest # <<>> /\ Writes(f, g, rest) /\ g.mContextState = f.mContextState
  <2>1. /\ g \in FilterTypes /\ Matches("server", g) /\ NothingHeld(g) /\ Kept(f, g)
        /\ g.completed = "none" /\ g.got = <<>> /\ ~g.threw
    BY <1>2, <1>3, <1>4, <1>10, HandshakeMatches
  <2>2. Event("server", g)
    BY <1>1, <1>6, <2>1, EventOf
  <2>3. /\ g.posted = "write" /\ g.mWriteBuffer = rest /\ HeldBy(g) = <<>> /\ LeftBy(g) = rest
        /\ g.mPreState = "Reading" /\ g.mBytesRequestedOrig # 0
    BY <1>4, <1>10, <2>1 DEF Writes, HeldBy, LeftBy, NothingHeld, Kept
  <2>4. QED
    BY <1>1, <1>2, <1>9, <1>10, <2>1, <2>2, <2>3, ServerQuiet
<1>11. CASE /\ rest = <<>> /\ Reads(f, g, <<>>) /\ f.mContextState \in {"AuthOk", "AuthContinue"}
            /\ g.mContextState = IF f.mContextState = "AuthOk" THEN "AuthOkAck" ELSE f.mContextState
  <2>1. /\ g \in FilterTypes /\ Matches("server", g) /\ NothingHeld(g) /\ Kept(f, g)
        /\ g.completed = "none" /\ g.got = <<>> /\ ~g.threw
    <3>1. Reads(f, g, <<>>) /\ (f.mPreState = "Writing" => g.mContextState # "AuthOkAck")
      BY <1>4, <1>11
    <3>2. QED
      BY <1>2, <1>3, <1>4, <3>1, HandshakeMatches
  <2>2. Event("server", g)
    BY <1>1, <1>6, <2>1, EventOf
  <2>3. g.posted = "read" /\ HeldBy(g) = <<>> /\ LeftBy(g) = rest
    BY <1>11 DEF Reads, HeldBy, LeftBy
  <2>4. QED
    BY <1>1, <1>2, <1>9, <1>11, <2>1, <2>2, <2>3, ServerQuiet
<1>12. CASE rest = <<>> /\ f.mContextState = "AuthFailed" /\ g = Throw(f)
  <2>1. /\ g \in FilterTypes /\ Matches("server", g) /\ LeftBy(g) = <<>>
        /\ g.completed = "none" /\ g.got = <<>> /\ g.threw /\ g.mContextState = f.mContextState
    BY <1>2, <1>12, ThrownMatches
  <2>2. Event("server", g)
    BY <1>1, <1>6, <2>1, EventOf
  <2>3. Stream("client")' = Stream("client")
    BY <1>9, <1>12, <2>1, <2>2
  <2>4. QED
    BY <1>1, <1>2, <1>12, <2>1, <2>2, <2>3, ServerQuiet
<1>13. QED
  BY <1>8, <1>10, <1>11, <1>12

\* The server's poll is over.
LEMMA ServerPolled ==
    ASSUME FilterInv, filter["client"].mContextState # "AuthOkAck", ZeroEvent("server")
    PROVE  FilterInv'
<1> DEFINE S == filter["server"]
           f == Below(S)
           g == OnReadCompleted("server", f, <<>>)
<1>1. /\ TypesOK /\ EndsOK /\ "server" \in up /\ S.posted = "zero"
      /\ Unmoved /\ wire' = wire /\ Settle("server", g) /\ sent' = sent
  BY DEF FilterInv, ZeroEvent, Unmoved
<1>2. /\ Fresh(f) /\ Kept(S, f) /\ f.mContextState = S.mContextState
      /\ f.plain = S.plain /\ f.remaining = S.remaining /\ FilterOK(S)
  BY <1>1, BelowDone
<1>3. wire' \in [Ends -> Seq(Units)]
  BY <1>1 DEF TypesOK
<1>4. f.mPreState = "Reading" /\ f.mBytesRequestedOrig = 0 /\ NothingHeld(S)
  BY <1>1, <1>2 DEF FilterOK, Kept
<1>5. S.mContextState \notin {"AuthOk", "AuthFailed"}
  BY <1>1 DEF FilterInv, ServerStates
<1> HIDE DEF f
<1>6. g = [f EXCEPT !.completed = "zero"]
  BY <1>4 DEF OnReadCompleted
<1> HIDE DEF g
<1>7. /\ g \in FilterTypes /\ g.mContextState = S.mContextState /\ g.posted = "none" /\ g.completed = "zero"
      /\ g.got = <<>> /\ ~g.threw /\ g.plain = S.plain /\ g.remaining = S.remaining
  BY <1>2, <1>6 DEF Fresh, FilterTypes
<1>8. FilterOK(g) /\ NothingHeld(g)
  BY <1>2, <1>4, <1>7 DEF FilterOK, NothingHeld
<1>9. Matches("server", g)
  BY <1>7, <1>8 DEF Matches
<1>10. Event("server", g)
  BY <1>1, <1>3, <1>7, EventOf
<1>11. HeldBy(g) = HeldBy(S) /\ LeftBy(g) = LeftBy(S)
  BY <1>1, <1>7 DEF HeldBy, LeftBy
<1>12. Stream("server")' = Stream("server") /\ Stream("client")' = Stream("client")
  <2>1. Stream("server")' = Stream("server") /\ Stream(Peer("server"))' = Stream(Peer("server"))
    BY <1>1, <1>10, <1>11, StreamsKept, EndsNamed
  <2>2. QED
    BY <2>1, EndsNamed
<1>13. QED
  BY <1>1, <1>5, <1>7, <1>8, <1>9, <1>10, <1>12, ServerQuiet

\* The server starts a read.
LEMMA ServerReadIssued ==
    ASSUME FilterInv, filter["client"].mContextState # "AuthOkAck", IssueRead("server")
    PROVE  FilterInv'
<1> DEFINE S == filter["server"]
<1>1. /\ TypesOK /\ EndsOK /\ package \in Packages /\ "server" \in up /\ S.posted = "none"
      /\ Fresh(S) /\ FilterOK(S) /\ user["server"] \in UserTypes
      /\ HeldBy(S) = S.remaining /\ LeftBy(S) = <<>> /\ user["server"].phase = "reading"
  <2>1. TypesOK /\ EndsOK /\ package \in Packages
    BY DEF FilterInv, TypesOK
  <2>2. Idle("server") /\ user["server"].phase = "reading"
    BY DEF IssueRead
  <2>3. QED
    BY <2>1, <2>2, IdleEnd DEF Idle
<1>2. PICK n \in {0, user["server"].need} : Settle("server", Read(S, n))
  BY DEF IssueRead
<1>3. user["server"].need \in Nat /\ n \in Nat
  BY <1>1, <1>2 DEF UserTypes
<1>4. NothingHeld(S) /\ S.mContextState \notin {"AuthOk", "AuthFailed"}
  BY <1>1 DEF FilterInv, Handshake, ServerWaits, ServerStates
<1>5. Unmoved /\ wire' = wire /\ sent' = sent /\ wire' \in [Ends -> Seq(Units)]
  BY <1>1 DEF IssueRead, TypesOK, Unmoved
<1> DEFINE g == Read(S, n)
           h == Reading(S, n)
<1>6. /\ Fresh(h) /\ h.mPreState = "Reading" /\ h.mBytesRequestedOrig = n
      /\ h.mContextState = S.mContextState /\ h.plain = S.plain /\ h.remaining = S.remaining
      /\ \/ /\ n = 0 /\ Kept(h, g) /\ g.mContextState = S.mContextState
            /\ g.posted = "zero" /\ g.plain = S.plain /\ g.remaining = S.remaining
            /\ g.completed = "none" /\ g.got = <<>> /\ ~g.threw
         \/ n # 0 /\ g = ServeRead(h)
         \/ n # 0 /\ Reads(h, g, <<>>) /\ g.mContextState = S.mContextState
  <2>1. /\ Fresh(h) /\ h.mPreState = "Reading" /\ h.mBytesRequestedOrig = n
        /\ h.mContextState = S.mContextState /\ h.plain = S.plain /\ h.remaining = S.remaining
        /\ \/ n = 0 /\ ~NothingHeld(S) /\ g = [S EXCEPT !.completed = "zero"]
           \/ /\ n = 0 /\ NothingHeld(S) /\ Kept(h, g) /\ g.mContextState = S.mContextState
              /\ g.posted = "zero" /\ g.plain = S.plain /\ g.remaining = S.remaining
              /\ g.completed = "none" /\ g.got = <<>> /\ ~g.threw
           \/ n # 0 /\ S.mContextState = "AuthOkAck" /\ g = ServeRead(h)
           \/ /\ n # 0 /\ S.mContextState # "AuthOkAck"
              /\ Reads(h, g, <<>>) /\ g.mContextState = S.mContextState
    BY <1>1, <1>3, ReadIssued
  <2> HIDE DEF g, h
  <2>2. QED
    BY <1>4, <2>1
<1>7. Settle("server", g)
  BY <1>2
<1> HIDE DEF g, h
<1>8. NothingHeld(h)
  BY <1>4, <1>6 DEF NothingHeld
<1>9. \/ /\ n = 0 /\ Kept(h, g) /\ g.mContextState = S.mContextState
         /\ g.posted = "zero" /\ g.plain = S.plain /\ g.remaining = S.remaining
         /\ g.completed = "none" /\ g.got = <<>> /\ ~g.threw
      \/ n # 0 /\ Reads(h, g, <<>>) /\ g.mContextState = S.mContextState
  <2>1. ServeRead(h) = ReadNewBlock(h)
    BY <1>8 DEF ServeRead, NothingHeld
  <2>2. Reads(h, ReadNewBlock(h), <<>>) /\ ReadNewBlock(h).mContextState = h.mContextState
    BY <1>1, <1>6, NewBlockRead
  <2>3. QED
    BY <1>6, <2>1, <2>2
<1>10. /\ g \in FilterTypes /\ Matches("server", g) /\ NothingHeld(g)
       /\ g.completed = "none" /\ g.got = <<>> /\ ~g.threw
       /\ HeldBy(g) = <<>> /\ LeftBy(g) = <<>> /\ g.posted # "write" /\ g.mContextState = S.mContextState
  <2>1. CASE /\ n = 0 /\ Kept(h, g) /\ g.mContextState = S.mContextState
             /\ g.posted = "zero" /\ g.plain = S.plain /\ g.remaining = S.remaining
             /\ g.completed = "none" /\ g.got = <<>> /\ ~g.threw
    <3>1. /\ g \in FilterTypes /\ NothingHeld(g) /\ g.mPreState = "Reading" /\ g.mBytesRequestedOrig = 0
          /\ HeldBy(g) = <<>> /\ LeftBy(g) = <<>>
      BY <1>4, <1>6, <2>1 DEF Kept, NothingHeld, HeldBy, LeftBy
    <3>2. FilterOK(g)
      BY <2>1, <3>1 DEF FilterOK, NothingHeld
    <3>3. Coupled(g, user["server"])
      BY <1>1, <2>1, <3>1 DEF Coupled
    <3>4. Matches("server", g)
      BY <2>1, <3>2, <3>3 DEF Matches
    <3>5. QED
      BY <2>1, <3>1, <3>4
  <2>2. CASE n # 0 /\ Reads(h, g, <<>>) /\ g.mContextState = S.mContextState
    <3>1. n = user["server"].need
      BY <1>2, <2>2
    <3>2. Reads(h, g, <<>>) /\ (h.mPreState = "Writing" => g.mContextState # "AuthOkAck")
      BY <1>6, <2>2
    <3>3. /\ g \in FilterTypes /\ Matches("server", g) /\ NothingHeld(g)
          /\ g.completed = "none" /\ g.got = <<>> /\ ~g.threw
      BY <1>1, <1>6, <1>8, <2>2, <3>1, <3>2, HandshakeMatches
    <3>4. HeldBy(g) = <<>> /\ LeftBy(g) = <<>> /\ g.posted # "write"
      BY <2>2 DEF Reads, HeldBy, LeftBy
    <3>5. QED
      BY <2>2, <3>3, <3>4
  <2>3. QED
    BY <1>9, <2>1, <2>2
<1>11. Event("server", g)
  BY <1>1, <1>5, <1>7, <1>10, EventOf
<1>12. Stream("server")' = Stream("server") /\ Stream("client")' = Stream("client")
  <2>1. HeldBy(S) = <<>>
    BY <1>1, <1>4 DEF NothingHeld
  <2>2. Stream("server")' = Stream("server") /\ Stream(Peer("server"))' = Stream(Peer("server"))
    BY <1>1, <1>5, <1>10, <1>11, <2>1, StreamsKept, EndsNamed
  <2>3. QED
    BY <2>2, EndsNamed
<1>13. QED
  BY <1>1, <1>4, <1>5, <1>10, <1>11, <1>12, ServerQuiet

\* The client reads, goes on writing or gives up, and the streams are as they were.
LEMMA ClientQuiet ==
    ASSUME FilterInv, filter["client"].mContextState # "AuthOkAck", UnderWay,
           NEW g, Event("client", g), sent' = sent, Matches("client", g),
           g.completed = "none", g.got = <<>>, g.mContextState = filter["client"].mContextState,
           "server" \in up => Stream("server")' = Stream("server"),
           ~g.threw =>
              /\ Stream("client")' = Stream("client") /\ Kept(filter["client"], g)
              /\ \/ g.posted = "read"
                 \/ g.posted = "write" /\ g.mWriteBuffer # <<>> /\ filter["client"].posted = "write"
    PROVE  FilterInv'
<1> DEFINE S == filter["server"]
           C == filter["client"]
           T == Told(g)
<1>1. /\ TypesOK' /\ EndsOK' /\ Safe' /\ package' = package
      /\ filter'["client"] = T /\ filter'["server"] = S
      /\ user'["server"] = user["server"] /\ user'["client"].phase = user["client"].phase
      /\ \A d \in Ends : delivered'[d] = <<>>
      /\ up' = IF g.threw THEN up \ {"client"} ELSE up
      /\ \A b : Frame(b)' = Frame(b)
  BY HandshakeEvent, EndsNamed
<1>2. /\ T.mContextState = g.mContextState /\ T.posted = g.posted /\ T.mWriteBuffer = g.mWriteBuffer
      /\ T.mPreState = g.mPreState /\ T.mWriteByteBufferOrig = g.mWriteByteBufferOrig
  BY ToldFields DEF Event, Kept
<1> HIDE DEF T
<1>3. up' \subseteq up /\ ("server" \in up' <=> "server" \in up) /\ ("client" \in up' => ~g.threw)
  BY <1>1, EndsNamed
<1>4. package.legs \in Nat
  BY ConstantFacts DEF FilterInv, TypesOK
<1>5. ServerStates'
  <2>1. "client" \in up' /\ Stream("client") = <<>> => Stream("client")' = <<>>
    BY <1>3
  <2>2. ServerStates
    BY DEF FilterInv
  <2>3. QED
    BY <1>1, <1>3, <2>1, <2>2 DEF ServerStates
<1>6. ServerWaits
  BY DEF FilterInv, Handshake
<1>7. ASSUME NEW k \in 1 .. package.legs, Asked(k), "server" \in up PROVE Asked(k)'
  <2>1. k \in Nat /\ S.mContextState = "AuthContinue" /\ S.posted # "write"
    BY <1>4, <1>7 DEF Asked
  <2>2. QED
    BY <1>1, <1>2, <1>3, <1>7, <2>1, AskedStays
<1>8. ServerWaits'
  <2>1. "server" \in up' => Stream("server")' = <<>> \/ \E k \in 1 .. package.legs : Asked(k)'
    BY <1>3, <1>6, <1>7 DEF ServerWaits
  <2>2. QED
    BY <1>1, <1>3, <1>6, <2>1 DEF ServerWaits, NothingHeld
<1>9. ASSUME "client" \in up' PROVE UnderWay'
  <2>1. /\ Stream("client")' = Stream("client") /\ Kept(C, g)
        /\ \/ g.posted = "read"
           \/ g.posted = "write" /\ g.mWriteBuffer # <<>> /\ C.posted = "write"
    BY <1>3, <1>9
  <2>2. FirstWrite'
    BY <1>1, <1>2, <2>1 DEF UnderWay, FirstWrite, Kept
  <2>3. /\ \A k \in Nat : AnsweredBy(k) => AnsweredBy(k)'
        /\ Verdict => Verdict'
    BY <1>1, <1>2, <2>1, AnswerStays
  <2>4. (\E k \in 1 .. package.legs : AnsweredBy(k)) => \E k \in 1 .. package.legs : AnsweredBy(k)'
    <3>1. \A k \in 1 .. package.legs : k \in Nat
      BY <1>4
    <3>2. QED
      BY <2>3, <3>1
  <2>5. CASE /\ C.posted = "read" \/ (C.posted = "write" /\ C.mWriteBuffer # <<>>)
             /\ Stream("client") = <<>>
             /\ "server" \in up => \E k \in 1 .. package.legs : Asked(k)
    <3>1. "server" \in up' => \E k \in 1 .. package.legs : Asked(k)'
      BY <1>3, <1>7, <2>5
    <3>2. QED
      BY <1>1, <1>2, <2>1, <2>2, <2>5, <3>1 DEF UnderWay
  <2>6. CASE /\ C.posted = "read"
             /\ "server" \in up => Stream("server") = <<>>
             /\ \/ \E k \in 1 .. package.legs : AnsweredBy(k)
                \/ Verdict
                \/ Stream("client") = <<>>
    <3>1. "server" \in up' => Stream("server")' = <<>>
      BY <1>3, <2>6
    <3>2. QED
      BY <1>1, <1>2, <2>1, <2>2, <2>3, <2>4, <2>6, <3>1 DEF UnderWay
  <2>7. QED
    BY <2>5, <2>6 DEF UnderWay
<1>10. QED
  BY <1>1, <1>2, <1>5, <1>8, <1>9 DEF FilterInv, Handshake, DataPhase

\* The client writes a token.
LEMMA ClientAsks ==
    ASSUME FilterInv, filter["client"].mContextState # "AuthOkAck",
           NEW g, Event("client", g), Matches("client", g),
           g.completed = "none", g.got = <<>>, ~g.threw,
           NEW j \in 1 .. package.legs, j % 2 = 1,
           g.posted = "write", g.mWriteBuffer = Frame(Token(j)),
           g.mContextState = IF j = package.legs THEN "AuthOk" ELSE "AuthContinue",
           "server" \in up => /\ Stream("server") = <<>>
                              /\ filter["server"].mContextState = "AuthContinue"
                              /\ filter["server"].posted # "write",
           LeftBy(filter["client"]) = <<>>, wire'["server"] = wire["server"],
           Stream("client")' = <<>>,
           g.mPreState = "Writing", user["client"].phase = "writing", g.mWriteByteBufferOrig # <<>>,
           Numbered(g.mWriteByteBufferOrig, 0), sent'["client"] = Len(g.mWriteByteBufferOrig)
    PROVE  FilterInv'
<1> DEFINE S == filter["server"]
           C == filter["client"]
           T == Told(g)
<1>1. /\ TypesOK' /\ EndsOK' /\ Safe' /\ package' = package
      /\ filter'["client"] = T /\ filter'["server"] = S
      /\ user'["server"] = user["server"] /\ user'["client"].phase = user["client"].phase
      /\ \A d \in Ends : delivered'[d] = <<>>
      /\ up' = up
      /\ \A b : Frame(b)' = Frame(b)
  BY HandshakeEvent, EndsNamed
<1>2. /\ T.mContextState = g.mContextState /\ T.posted = g.posted /\ T.mWriteBuffer = g.mWriteBuffer
      /\ T.mPreState = g.mPreState /\ T.mWriteByteBufferOrig = g.mWriteByteBufferOrig
  BY ToldFields DEF Event, Kept
<1> HIDE DEF T
<1>3. package \in Packages /\ TypesOK /\ package.legs \in Nat /\ j \in Nat
  BY ConstantFacts DEF FilterInv, TypesOK
<1>4. Frame(Token(j)) # <<>> /\ Frame(Token(j)) \in Seq(Units)
  BY <1>3, TokenFrames
<1>5. ASSUME "server" \in up PROVE Asked(j)'
  <2>1. /\ HeldBy(S) \in Seq(Units) /\ wire["server"] \in Seq(Units)
    BY <1>3, StreamParts, EndsNamed
  <2>2. wire["server"] \o <<>> = wire["server"]
    BY <2>1, Nothing
  <2>3. HeldBy(S) \o wire["server"] = <<>>
    BY <1>5, <2>2, EndsNamed DEF Stream
  <2>4. HeldBy(S) = <<>> /\ wire["server"] = <<>>
    BY <2>1, <2>3, Nothing
  <2>5. Stream("server")' = HeldBy(S) \o (wire["server"] \o LeftBy(g))
    <3>1. Stream(Peer("client"))'
            = HeldBy(filter[Peer("client")]) \o (wire'[Peer("client")] \o LeftBy(g))
      BY <1>3, StreamsAfter, EndsNamed
    <3>2. QED
      BY <3>1, EndsNamed
  <2>6. LeftBy(g) = Frame(Token(j))
    BY DEF LeftBy
  <2>7. <<>> \o Frame(Token(j)) = Frame(Token(j))
    BY <1>4, Nothing
  <2>8. Stream("server")' = Frame(Token(j))
    BY <2>4, <2>5, <2>6, <2>7
  <2>9. QED
    BY <1>1, <1>2, <1>5, <2>8 DEF Asked
<1>6. ServerStates'
  <2>1. ServerStates
    BY DEF FilterInv
  <2>2. QED
    BY <1>1, <2>1 DEF ServerStates
<1>7. ServerWaits'
  <2>1. ServerWaits /\ sent'["server"] = sent["server"]
    BY EndsNamed DEF FilterInv, Handshake, Event
  <2>2. QED
    BY <1>1, <1>5, <2>1 DEF ServerWaits, NothingHeld
<1>8. UnderWay'
  <2>1. FirstWrite'
    BY <1>1, <1>2 DEF FirstWrite
  <2>2. "server" \in up' => \E k \in 1 .. package.legs : Asked(k)'
    BY <1>1, <1>5
  <2>3. QED
    BY <1>1, <1>2, <1>4, <2>1, <2>2 DEF UnderWay
<1>9. QED
  <2>1. T.mContextState # "AuthOkAck"
    BY <1>2
  <2>2. QED
    BY <1>1, <1>6, <1>7, <1>8, <2>1 DEF FilterInv, Handshake, DataPhase

\* The client's handshake is over: its first buffer goes out.
LEMMA ClientFinishes ==
    ASSUME FilterInv, filter["client"].mContextState # "AuthOkAck", FirstWrite,
           NEW g, Event("client", g), sent' = sent, Matches("client", g),
           g.completed = "none", g.got = <<>>, ~g.threw, NothingHeld(g),
           g.posted = "write", g.mContextState = "AuthOkAck",
           g.mWriteBuffer = Frame(Data(filter["client"].mWriteByteBufferOrig)),
           filter["server"].mContextState = "AuthOkAck",
           "server" \in up => Stream("server") = <<>>,
           LeftBy(filter["client"]) = <<>>, wire'["server"] = wire["server"],
           Stream("client")' = <<>>
    PROVE  FilterInv'
<1> DEFINE S == filter["server"]
           C == filter["client"]
           u == C.mWriteByteBufferOrig
           T == Told(g)
<1>1. /\ TypesOK' /\ EndsOK' /\ Safe' /\ package' = package
      /\ filter'["client"] = T /\ filter'["server"] = S
      /\ \A d \in Ends : delivered'[d] = <<>>
      /\ up' = up
  BY HandshakeEvent, EndsNamed
<1>2. T.mContextState = g.mContextState /\ T.plain = g.plain
  BY ToldFields DEF Event
<1> HIDE DEF T
<1>3. package \in Packages /\ TypesOK /\ u \in Seq(Nat)
  BY EndsNamed DEF FilterInv, TypesOK, FilterTypes
<1>4. /\ u # <<>> /\ Numbered(u, 0) /\ sent["client"] = Len(u) /\ sent["server"] = 0
      /\ "server" \in up => NothingHeld(S)
  BY DEF FirstWrite, FilterInv, Handshake, ServerWaits
<1>5. Frame(Data(u)) \in Seq(Units)
  BY <1>3, BlockKinds, Frames
<1>6. ASSUME "server" \in up PROVE Stream("server")' = Frame(Data(u))
  <2>1. /\ HeldBy(S) \in Seq(Units) /\ wire["server"] \in Seq(Units)
    BY <1>3, StreamParts, EndsNamed
  <2>2. wire["server"] \o <<>> = wire["server"]
    BY <2>1, Nothing
  <2>3. HeldBy(S) \o wire["server"] = <<>>
    BY <1>6, <2>2, EndsNamed DEF Stream
  <2>4. HeldBy(S) = <<>> /\ wire["server"] = <<>>
    BY <2>1, <2>3, Nothing
  <2>5. Stream("server")' = HeldBy(S) \o (wire["server"] \o LeftBy(g))
    <3>1. Stream(Peer("client"))'
            = HeldBy(filter[Peer("client")]) \o (wire'[Peer("client")] \o LeftBy(g))
      BY <1>3, StreamsAfter, EndsNamed
    <3>2. QED
      BY <3>1, EndsNamed
  <2>6. LeftBy(g) = Frame(Data(u))
    BY DEF LeftBy
  <2>7. <<>> \o Frame(Data(u)) = Frame(Data(u))
    BY <1>5, Nothing
  <2>8. QED
    BY <2>4, <2>5, <2>6, <2>7
<1>7. DataStream(Frame(Data(u)), 0, Len(u))
  <2>1. DataStream(<<>>, 0, 0)
    BY NothingSent
  <2>2. <<>> \in Seq(Units) /\ 0 \in Nat /\ Len(u) \in Nat
    BY <1>3
  <2>3. DataStream(<<>> \o Frame(Data(u)), 0, 0 + Len(u))
    BY <1>3, <1>4, <2>1, <2>2, StreamGrows
  <2>4. <<>> \o Frame(Data(u)) = Frame(Data(u)) /\ 0 + Len(u) = Len(u)
    BY <1>5, <2>2, Nothing
  <2>5. QED
    BY <2>3, <2>4
<1>8. \A s, from, to : DataStream(s, from, to)' <=> DataStream(s, from, to)
  BY <1>1, SamePackage
<1>9. ASSUME NEW d \in up, Stream(d)' = IF d = "server" THEN Frame(Data(u)) ELSE <<>>
      PROVE  DataFlow(d)'
  <2>1. d \in Ends /\ (d = "client" \/ d = "server")
    BY <1>3, <1>9 DEF TypesOK, Ends
  <2>2. filter'[d].plain = <<>> /\ delivered'[d] = <<>>
    <3>1. T.plain = <<>>
      BY <1>2 DEF NothingHeld
    <3>2. d = "server" => S.plain = <<>>
      BY <1>4, <1>9 DEF NothingHeld
    <3>3. QED
      BY <1>1, <2>1, <3>1, <3>2
  <2>3. /\ Len(delivered'[d]) = 0 /\ Len(delivered'[d]) + Len(filter'[d].plain) = 0
        /\ Numbered(filter'[d].plain, Len(delivered'[d]))
    <3>1. Len(<<>>) = 0 /\ 0 + 0 = 0 /\ Numbered(<<>>, 0)
      BY DEF Numbered
    <3>2. QED
      BY <2>2, <3>1
  <2>4. DataStream(Stream(d)', 0, sent'[Peer(d)])
    <3>1. DataStream(<<>>, 0, 0)
      BY NothingSent
    <3>2. QED
      BY <1>4, <1>7, <1>9, <2>1, <3>1, EndsNamed
  <2>5. DataStream(Stream(d), Len(delivered[d]) + Len(filter[d].plain), sent[Peer(d)])'
    BY <1>8, <2>3, <2>4
  <2>6. QED
    BY <2>3, <2>5 DEF DataFlow
<1>10. \A d \in up : Stream(d)' = IF d = "server" THEN Frame(Data(u)) ELSE <<>>
  BY <1>3, <1>6 DEF TypesOK, Ends
<1>11. DataPhase'
  BY <1>1, <1>9, <1>10 DEF DataPhase
<1>12. ServerStates' /\ Handshake'
  BY <1>1, <1>2 DEF ServerStates, Handshake
<1>13. QED
  BY <1>1, <1>11, <1>12 DEF FilterInv

\* The client reads a block of the handshake.
LEMMA ClientReadsAnswer ==
    ASSUME FilterInv, filter["client"].mContextState # "AuthOkAck",
           NEW units, ReadEvent("client", units)
    PROVE  FilterInv'
<1> DEFINE S == filter["server"]
           C == filter["client"]
           f == Below(C)
           raw == C.mReadBuffer \o units
           w == wire'["client"] \o LeftBy(S)
           g == OnReadCompleted("client", f, units)
<1>1. /\ TypesOK /\ EndsOK /\ package \in Packages /\ "client" \in up /\ C.posted = "read"
      /\ Unmoved /\ wire' \in [Ends -> Seq(Units)] /\ wire'["server"] = wire["server"]
      /\ wire'["client"] \in Seq(Units)
      /\ Settle("client", g) /\ sent' = sent
      /\ ~package.schannel => Len(raw) <= C.mReadBufferLen
  BY EndsNamed DEF FilterInv, TypesOK, ReadEvent, Unmoved
<1>2. /\ Fresh(f) /\ Kept(C, f) /\ f.mContextState = C.mContextState
      /\ f.mReadBuffer = C.mReadBuffer /\ f.mReadBufferLen = C.mReadBufferLen
      /\ f.plain = C.plain /\ f.remaining = C.remaining
      /\ BlockPending(C) => BlockPending(f)
      /\ FilterOK(C)
  BY <1>1, BelowDone
<1>3. UnderWay
  BY <1>1 DEF FilterInv, Handshake, NotStarted
<1>4. /\ FirstWrite /\ user["client"].phase = "writing"
      /\ C.mPreState = "Writing" /\ C.mWriteByteBufferOrig # <<>>
      /\ Numbered(C.mWriteByteBufferOrig, 0) /\ sent["client"] = Len(C.mWriteByteBufferOrig)
  BY <1>3 DEF UnderWay, FirstWrite
<1>5. f.mPreState = "Writing" /\ f.mWriteByteBufferOrig = C.mWriteByteBufferOrig
      /\ NothingHeld(f) /\ (~package.schannel => BlockPending(f))
  BY <1>1, <1>2, <1>4 DEF FilterOK, Kept, NothingHeld
<1>6. /\ raw \in Seq(Units) /\ w \in Seq(Units) /\ raw \o w = Stream("client")
      /\ f.mReadBuffer # <<>> => raw # <<>> /\ raw[1] = f.mReadBuffer[1]
  BY <1>1, <1>2, StreamRead, EndsNamed
<1>7. g = BlockCame("client", f, raw)
  <2>1. Waits(f)
    BY <1>5 DEF Waits
  <2>2. OnReadCompleted("client", f, units) = BlockCame("client", f, f.mReadBuffer \o units)
    BY <2>1, Came
  <2>3. QED
    BY <1>2, <2>2
<1>8. LeftBy(C) = <<>>
  BY <1>1 DEF LeftBy
<1> HIDE DEF f, raw, w, g
<1>9. ASSUME Event("client", g)
      PROVE  /\ Stream("client")' = HeldBy(g) \o w
             /\ LeftBy(g) = <<>> => Stream("server")' = Stream("server")
  <2>1. /\ Stream("client")' = HeldBy(g) \o (wire'["client"] \o LeftBy(filter[Peer("client")]))
        /\ Stream(Peer("client"))' = HeldBy(filter[Peer("client")]) \o (wire'[Peer("client")] \o LeftBy(g))
        /\ Stream(Peer("client")) = HeldBy(filter[Peer("client")]) \o (wire[Peer("client")] \o LeftBy(C))
    BY <1>1, <1>9, StreamsAfter, EndsNamed
  <2>2. QED
    BY <1>1, <1>8, <2>1, EndsNamed DEF w
<1>10. ASSUME NEW len \in Nat, g = PostRead(f, raw, len), ~package.schannel => BlockPending(g)
       PROVE  FilterInv'
  <2>1. Reads(f, g, raw) /\ g.mContextState = f.mContextState
    BY <1>2, <1>6, <1>10, ReadsOn
  <2>2. /\ g \in FilterTypes /\ Matches("client", g) /\ NothingHeld(g) /\ Kept(f, g)
        /\ g.completed = "none" /\ g.got = <<>> /\ ~g.threw
    <3>1. Reads(f, g, raw) /\ (f.mPreState = "Writing" => g.mContextState # "AuthOkAck")
      BY <1>2, <2>1
    <3>2. QED
      BY <1>2, <1>4, <1>5, <3>1, HandshakeMatches
  <2>3. Event("client", g)
    BY <1>1, <2>2, EventOf
  <2>4. g.posted = "read" /\ HeldBy(g) = raw /\ LeftBy(g) = <<>>
    BY <2>1 DEF Reads, HeldBy, LeftBy
  <2>5. Stream("server")' = Stream("server") /\ Stream("client")' = Stream("client")
    BY <1>6, <1>9, <2>3, <2>4
  <2>6. Kept(C, g)
    BY <1>2, <2>2 DEF Kept
  <2>7. QED
    BY <1>1, <1>2, <1>3, <2>1, <2>2, <2>3, <2>4, <2>5, <2>6, ClientQuiet
<1>11. ASSUME g = Throw(f) PROVE FilterInv'
  <2>1. /\ g \in FilterTypes /\ Matches("client", g) /\ LeftBy(g) = <<>>
        /\ g.completed = "none" /\ g.got = <<>> /\ g.threw /\ g.mContextState = f.mContextState
    BY <1>2, <1>11, ThrownMatches
  <2>2. Event("client", g)
    BY <1>1, <2>1, EventOf
  <2>3. Stream("server")' = Stream("server")
    BY <1>9, <2>1, <2>2
  <2>4. QED
    BY <1>1, <1>2, <1>3, <2>1, <2>2, <2>3, ClientQuiet
<1>12. CASE Stream("client") = <<>>
  <2>1. raw = <<>>
    BY <1>6, <1>12, Nothing
  <2>2. f.mReadBuffer = <<>>
    BY <1>6, <2>1
  <2>3. \E len \in Nat : g = PostRead(f, raw, len) /\ (~package.schannel => BlockPending(g))
    BY <1>1, <1>2, <1>5, <1>7, <2>1, <2>2, NothingCame, EndsNamed
  <2>4. QED
    BY <1>10, <2>3
<1>13. ASSUME NEW b \in Blocks, b.kind # "data", package.schannel => b.kind = "token",
              Stream("client") = Frame(b)
       PROVE  \/ FilterInv'
              \/ /\ w = <<>> /\ b.kind = "token" /\ b.token + 1 <= package.legs
                 /\ Writes(f, g, Frame(Token(b.token + 1)))
                 /\ g.mContextState = IF b.token + 1 = package.legs THEN "AuthOk" ELSE "AuthContinue"
              \/ /\ w = <<>>
                 /\ \/ b = Status(TRUE) /\ f.mContextState = "AuthOk"
                    \/ b.kind = "token" /\ b.token + 1 > package.legs
                 /\ Writes(f, g, Frame(Data(f.mWriteByteBufferOrig))) /\ g.mContextState = "AuthOkAck"
  <2>1. /\ raw # <<>> => raw[1].block = b
        /\ Len(raw) <= Size(b)
        /\ Len(raw) = Size(b) => w = <<>>
    BY <1>1, <1>6, <1>13, OneBlock
  <2>2. \/ g = Throw(f)
        \/ \E len \in Nat : g = PostRead(f, raw, len) /\ (~package.schannel => BlockPending(g))
        \/ Len(raw) = Size(b) /\ g = HandshakeStep("client", f, b)
    <3>1. f.mContextState # "AuthOkAck" /\ (~package.schannel => BlockPending(f) /\ Len(raw) <= f.mReadBufferLen)
      BY <1>1, <1>2, <1>5 DEF raw
    <3>2. QED
      BY <1>1, <1>2, <1>6, <1>7, <1>13, <2>1, <3>1, HandshakeBlock, EndsNamed
  <2>3. CASE Len(raw) = Size(b) /\ g = HandshakeStep("client", f, b)
    <3>1. \/ g = Throw(f)
          \/ /\ b.kind = "token" /\ b.token + 1 <= package.legs
             /\ Writes(f, g, Frame(Token(b.token + 1)))
             /\ g.mContextState = IF b.token + 1 = package.legs THEN "AuthOk" ELSE "AuthContinue"
          \/ /\ \/ b = Status(TRUE) /\ f.mContextState = "AuthOk"
                \/ b.kind = "token" /\ b.token + 1 > package.legs
             /\ Writes(f, g, Frame(Data(f.mWriteByteBufferOrig))) /\ g.mContextState = "AuthOkAck"
      <4> DEFINE h == HandshakeStep("client", f, b)
      <4>1. \/ h = Throw(f)
            \/ /\ b.kind = "token" /\ b.token + 1 <= package.legs
               /\ Writes(f, h, Frame(Token(b.token + 1)))
               /\ h.mContextState = IF b.token + 1 = package.legs THEN "AuthOk" ELSE "AuthContinue"
            \/ /\ \/ b = Status(TRUE) /\ f.mContextState = "AuthOk"
                  \/ b.kind = "token" /\ b.token + 1 > package.legs
               /\ Writes(f, h, Frame(Data(f.mWriteByteBufferOrig))) /\ h.mContextState = "AuthOkAck"
        BY <1>1, <1>2, <1>5, <1>13, ClientStep
      <4> HIDE DEF h
      <4>2. g = h
        BY <2>3 DEF h
      <4>3. QED
        BY <4>1, <4>2
    <3>2. QED
      BY <1>11, <2>1, <2>3, <3>1
  <2>4. QED
    BY <1>10, <1>11, <2>2, <2>3
\* A write that the block has led to.
<1>14. ASSUME NEW s, Writes(f, g, s), w = <<>>
       PROVE  /\ g \in FilterTypes /\ Matches("client", g) /\ NothingHeld(g) /\ Event("client", g)
              /\ g.completed = "none" /\ g.got = <<>> /\ ~g.threw
              /\ g.posted = "write" /\ g.mWriteBuffer = s /\ Stream("client")' = <<>>
              /\ g.mPreState = "Writing" /\ g.mWriteByteBufferOrig = C.mWriteByteBufferOrig
  <2>1. /\ g \in FilterTypes /\ Matches("client", g) /\ NothingHeld(g) /\ Kept(f, g)
        /\ g.completed = "none" /\ g.got = <<>> /\ ~g.threw
    <3>1. Writes(f, g, s) /\ (f.mPreState = "Reading" => g.mContextState # "AuthOkAck")
      BY <1>5, <1>14
    <3>2. QED
      BY <1>2, <1>4, <1>5, <3>1, HandshakeMatches
  <2>2. Event("client", g)
    BY <1>1, <2>1, EventOf
  <2>3. g.posted = "write" /\ g.mWriteBuffer = s /\ HeldBy(g) = <<>>
    BY <1>14, <2>1 DEF Writes, HeldBy, NothingHeld
  <2>4. <<>> \o <<>> = <<>>
    OBVIOUS
  <2>5. Stream("client")' = <<>>
    BY <1>9, <1>14, <2>2, <2>3, <2>4
  <2>6. QED
    BY <1>5, <2>1, <2>2, <2>3, <2>5 DEF Kept
<1>15. w = <<>> => LeftBy(S) = <<>>
  <2>1. LeftBy(S) \in Seq(Units)
    BY <1>1, StreamParts, EndsNamed
  <2>2. QED
    BY <1>1, <2>1, Nothing DEF w
<1>16. w = <<>> => S.mContextState # "AuthOk"
  BY <1>15 DEF FilterInv, ServerStates, LeftBy
<1>17. ASSUME Stream("client") # <<>>
       PROVE  /\ "server" \in up => Stream("server") = <<>>
              /\ (\E k \in 1 .. package.legs : AnsweredBy(k)) \/ Verdict
  BY <1>3, <1>17 DEF UnderWay
<1>18. ASSUME NEW k \in 1 .. package.legs, AnsweredBy(k), "server" \in up => Stream("server") = <<>>
       PROVE  FilterInv'
  <2>1. /\ package.legs \in Nat /\ k \in Nat /\ Token(k) \in Blocks
        /\ Token(k).kind = "token" /\ Token(k).token = k /\ Frame(Token(k)) # <<>>
    BY <1>1, ConstantFacts, BlockKinds, TokenFrames
  <2>2. /\ k % 2 = 0 /\ Stream("client") = Frame(Token(k)) /\ C.mContextState = "AuthContinue"
        /\ S.mContextState \in IF k = package.legs THEN {"AuthOk", "AuthOkAck"} ELSE {"AuthContinue"}
    BY <1>18 DEF AnsweredBy
  <2>3. Token(k) # Status(TRUE)
    BY <2>1, BlockKinds
  <2>4. \/ FilterInv'
        \/ /\ w = <<>> /\ k + 1 <= package.legs
           /\ Writes(f, g, Frame(Token(k + 1)))
           /\ g.mContextState = IF k + 1 = package.legs THEN "AuthOk" ELSE "AuthContinue"
        \/ /\ w = <<>> /\ k + 1 > package.legs
           /\ Writes(f, g, Frame(Data(f.mWriteByteBufferOrig))) /\ g.mContextState = "AuthOkAck"
    <3>1. Token(k).kind # "data"
      BY <2>1
    <3>2. QED
      BY <1>13, <2>1, <2>2, <2>3, <3>1
  <2>5. CASE /\ w = <<>> /\ k + 1 <= package.legs
             /\ Writes(f, g, Frame(Token(k + 1)))
             /\ g.mContextState = IF k + 1 = package.legs THEN "AuthOk" ELSE "AuthContinue"
    <3>1. k + 1 \in 1 .. package.legs /\ (k + 1) % 2 = 1
      BY <2>1, <2>2, <2>5
    <3>2. S.mContextState = "AuthContinue"
      BY <2>1, <2>2, <2>5
    <3>3. "server" \in up => S.posted # "write"
      BY <1>1, <1>15, <2>1, <2>2, <2>5, <3>2 DEF FilterInv, ServerStates, LeftBy
    <3>4. g.mContextState = IF k + 1 = package.legs THEN "AuthOk" ELSE "AuthContinue"
      BY <2>5
    <3>5. QED
      BY <1>1, <1>4, <1>8, <1>14, <1>18, <2>5, <3>1, <3>2, <3>3, <3>4, ClientAsks
  <2>6. CASE /\ w = <<>> /\ k + 1 > package.legs
             /\ Writes(f, g, Frame(Data(f.mWriteByteBufferOrig))) /\ g.mContextState = "AuthOkAck"
    <3>1. k = package.legs
      BY <2>1, <2>6
    <3>2. S.mContextState = "AuthOkAck"
      BY <1>16, <2>2, <2>6, <3>1
    <3>3. Writes(f, g, Frame(Data(C.mWriteByteBufferOrig)))
      BY <1>5, <2>6
    <3>4. QED
      BY <1>1, <1>4, <1>8, <1>14, <1>18, <2>6, <3>2, <3>3, ClientFinishes
  <2>7. QED
    BY <2>4, <2>5, <2>6
<1>19. ASSUME Verdict, "server" \in up => Stream("server") = <<>> PROVE FilterInv'
  <2>1. ~package.schannel
    BY <1>19 DEF Verdict
  <2>2. /\ Status(TRUE) \in Blocks /\ Status(TRUE).kind = "status"
        /\ Status(FALSE) \in Blocks /\ Status(FALSE).kind = "status"
        /\ Status(FALSE) # Status(TRUE)
    <3>1. TRUE \in BOOLEAN /\ FALSE \in BOOLEAN
      OBVIOUS
    <3>2. QED
      BY <3>1, BlockKinds
  <2>3. CASE Stream("client") = Frame(Status(FALSE))
    <3>1. Status(FALSE).kind # "data" /\ Status(FALSE).kind # "token"
      BY <2>2
    <3>2. QED
      BY <1>13, <2>1, <2>2, <2>3, <3>1
  <2>4. CASE /\ Stream("client") = Frame(Status(TRUE))
             /\ S.mContextState \in {"AuthOk", "AuthOkAck"}
    <3>1. Status(TRUE).kind # "data" /\ Status(TRUE).kind # "token"
      BY <2>2
    <3>2. \/ FilterInv'
          \/ /\ w = <<>> /\ Writes(f, g, Frame(Data(f.mWriteByteBufferOrig)))
             /\ g.mContextState = "AuthOkAck"
      BY <1>13, <2>1, <2>2, <2>4, <3>1
    <3>3. CASE /\ w = <<>> /\ Writes(f, g, Frame(Data(f.mWriteByteBufferOrig)))
               /\ g.mContextState = "AuthOkAck"
      <4>1. S.mContextState = "AuthOkAck"
        BY <1>16, <2>4, <3>3
      <4>2. Writes(f, g, Frame(Data(C.mWriteByteBufferOrig)))
        BY <1>5, <3>3
      <4>3. QED
        BY <1>1, <1>4, <1>8, <1>14, <1>19, <3>3, <4>1, <4>2, ClientFinishes
    <3>4. QED
      BY <3>2, <3>3
  <2>5. QED
    BY <1>19, <2>3, <2>4 DEF Verdict
<1>20. QED
  BY <1>12, <1>17, <1>18, <1>19

\* The client has written some of a token.
LEMMA ClientWritesToken ==
    ASSUME FilterInv, filter["client"].mContextState # "AuthOkAck",
           NEW n, WriteEvent("client", n)
    PROVE  FilterInv'
<1> DEFINE S == filter["server"]
           C == filter["client"]
           f == Below(C)
           rest == From(C.mWriteBuffer, n)
           g == OnWriteCompleted("client", f, n)
<1>1. /\ TypesOK /\ EndsOK /\ package \in Packages /\ "client" \in up /\ C.posted = "write"
      /\ Unmoved /\ Settle("client", g) /\ sent' = sent /\ n \in 0 .. Len(C.mWriteBuffer)
  BY EndsNamed DEF FilterInv, TypesOK, WriteEvent, Unmoved
<1>2. /\ Fresh(f) /\ Kept(C, f) /\ f.mContextState = C.mContextState
      /\ f.mWriteBuffer = C.mWriteBuffer /\ f.plain = C.plain /\ f.remaining = C.remaining
      /\ FilterOK(C)
  BY <1>1, BelowDone
<1>3. UnderWay
  BY <1>1 DEF FilterInv, Handshake, NotStarted
<1>4. user["client"].phase = "writing" /\ C.mPreState = "Writing" /\ NothingHeld(C)
  BY <1>2, <1>3 DEF UnderWay, FirstWrite, FilterOK
<1>5. f.mPreState = "Writing" /\ NothingHeld(f) /\ f.mContextState # "AuthOkAck"
  BY <1>2, <1>4 DEF Kept, NothingHeld
<1>6. /\ From(C.mWriteBuffer, n) \in Seq(Units) /\ wire' \in [Ends -> Seq(Units)]
      /\ wire'["client"] = wire["client"]
      /\ HeldBy(filter[Peer("client")]) \o (wire'[Peer("client")] \o From(C.mWriteBuffer, n))
            = Stream(Peer("client"))
  BY <1>1, StreamWritten, EndsNamed
<1>7. /\ rest \in Seq(Units) /\ HeldBy(S) \o (wire'["server"] \o rest) = Stream("server")
  BY <1>6, EndsNamed
<1>8. \/ rest # <<>> /\ Writes(f, g, rest) /\ g.mContextState = f.mContextState
      \/ rest = <<>> /\ Reads(f, g, <<>>) /\ g.mContextState = f.mContextState
  <2>1. n \in 0 .. Len(f.mWriteBuffer) /\ rest = From(f.mWriteBuffer, n)
    BY <1>1, <1>2
  <2>2. \/ rest # <<>> /\ Writes(f, g, rest) /\ g.mContextState = f.mContextState
        \/ /\ rest = <<>> /\ f.mContextState = "AuthOkAck"
           /\ g = [f EXCEPT !.completed = "write"]
        \/ /\ rest = <<>> /\ f.mContextState # "AuthOkAck" /\ Reads(f, g, <<>>)
           /\ "client" = "server" => f.mContextState \in {"AuthOk", "AuthContinue"}
           /\ g.mContextState = IF "client" = "server" /\ f.mContextState = "AuthOk"
                                THEN "AuthOkAck" ELSE f.mContextState
        \/ rest = <<>> /\ "client" = "server" /\ f.mContextState = "AuthFailed" /\ g = Throw(f)
    BY <1>1, <1>2, <1>5, <2>1, WriteCompleted, EndsNamed
  <2>3. QED
    BY <1>5, <2>2
<1> HIDE DEF f, rest, g
<1>9. PICK s : \/ Reads(f, g, s) /\ s = <<>> /\ rest = <<>> /\ g.mContextState = f.mContextState
               \/ Writes(f, g, s) /\ s = rest /\ rest # <<>> /\ g.mContextState = f.mContextState
  BY <1>8
<1>10. /\ g \in FilterTypes /\ Matches("client", g) /\ NothingHeld(g) /\ Kept(f, g)
       /\ g.completed = "none" /\ g.got = <<>> /\ ~g.threw
  <2>1. \/ Reads(f, g, s) /\ (f.mPreState = "Writing" => g.mContextState # "AuthOkAck")
        \/ Writes(f, g, s) /\ (f.mPreState = "Reading" => g.mContextState # "AuthOkAck")
    BY <1>5, <1>9
  <2>2. QED
    BY <1>2, <1>4, <1>5, <2>1, HandshakeMatches
<1>11. Event("client", g)
  BY <1>1, <1>6, <1>10, EventOf
<1>12. /\ g.posted = "read" \/ (g.posted = "write" /\ g.mWriteBuffer # <<>>)
       /\ HeldBy(g) = <<>> /\ LeftBy(g) = rest
  BY <1>9, <1>10 DEF Reads, Writes, HeldBy, LeftBy, NothingHeld
<1>13. Stream("server")' = Stream("server") /\ Stream("client")' = Stream("client")
  <2>1. /\ Stream("client")' = HeldBy(g) \o (wire'["client"] \o LeftBy(filter[Peer("client")]))
        /\ Stream(Peer("client"))' = HeldBy(filter[Peer("client")]) \o (wire'[Peer("client")] \o LeftBy(g))
        /\ Stream("client") = HeldBy(C) \o (wire["client"] \o LeftBy(filter[Peer("client")]))
    BY <1>1, <1>11, StreamsAfter, EndsNamed
  <2>2. HeldBy(C) = <<>>
    BY <1>1, <1>4 DEF HeldBy, NothingHeld
  <2>3. QED
    BY <1>6, <1>7, <1>12, <2>1, <2>2, EndsNamed
<1>14. Kept(C, g)
  BY <1>2, <1>10 DEF Kept
<1>15. g.mContextState = C.mContextState
  BY <1>2, <1>9
<1>16. QED
  BY <1>1, <1>3, <1>10, <1>11, <1>12, <1>13, <1>14, <1>15, ClientQuiet

\* The client starts a write: the handshake begins.
LEMMA ClientWriteIssued ==
    ASSUME FilterInv, filter["client"].mContextState # "AuthOkAck", IssueWrite("client")
    PROVE  FilterInv'
<1> DEFINE S == filter["server"]
           C == filter["client"]
           n == Head(user["client"].buffers)
           units == [i \in 1 .. n |-> sent["client"] + i]
           g == Write(C, units)
<1>1. /\ TypesOK /\ EndsOK /\ package \in Packages /\ "client" \in up /\ C.posted = "none"
      /\ Fresh(C) /\ FilterOK(C) /\ HeldBy(C) = C.remaining /\ LeftBy(C) = <<>>
  <2>1. TypesOK /\ EndsOK /\ package \in Packages
    BY DEF FilterInv, TypesOK
  <2>2. Idle("client")
    BY DEF IssueWrite
  <2>3. QED
    BY <2>1, <2>2, IdleEnd DEF Idle
<1>2. /\ n \in Nat \ {0} /\ units \in Seq(Nat) /\ Len(units) = n /\ units # <<>>
      /\ Numbered(units, sent["client"]) /\ user["client"].message > 0
      /\ user["client"].phase = "writing"
      /\ sent["client"] \in Nat /\ sent' \in [Ends -> Nat]
      /\ sent'["client"] = sent["client"] + n /\ sent'["server"] = sent["server"]
      /\ Settle("client", g)
  <2>1. sent'[Peer("client")] = sent[Peer("client")]
    BY <1>1, NextBuffer
  <2>2. QED
    BY <1>1, <2>1, NextBuffer, EndsNamed
<1>3. NotStarted
  BY <1>1 DEF FilterInv, Handshake, UnderWay
<1>4. /\ Stream("client") = <<>> /\ sent["client"] = 0 /\ NothingHeld(C)
      /\ "server" \in up => /\ Stream("server") = <<>> /\ S.mContextState = "AuthContinue"
                            /\ S.posted # "write"
  BY <1>1, <1>3 DEF NotStarted, FilterOK
<1> HIDE DEF units, n
<1> DEFINE h == Writing(C, units)
<1>5. /\ Fresh(h) /\ h.mPreState = "Writing" /\ h.mWriteByteBufferOrig = units
      /\ h.plain = C.plain /\ h.remaining = C.remaining /\ g = InitializeContext(h, 0)
  BY <1>1, <1>2, WriteIssued
<1>6. package.legs \in Nat \ {0} /\ 1 \in 1 .. package.legs /\ 1 % 2 = 1 /\ 0 + 1 = 1
  BY <1>1, ConstantFacts
<1> HIDE DEF g, h
<1>7. /\ Writes(h, g, Frame(Token(1)))
      /\ g.mContextState = IF 1 = package.legs THEN "AuthOk" ELSE "AuthContinue"
  <2> DEFINE r == InitializeContext(h, 0)
  <2>1. \/ /\ 0 + 1 <= package.legs /\ Writes(h, r, Frame(Token(0 + 1)))
           /\ r.mContextState = IF 0 + 1 = package.legs THEN "AuthOk" ELSE "AuthContinue"
        \/ /\ 0 + 1 > package.legs /\ Writes(h, r, Frame(Data(h.mWriteByteBufferOrig)))
           /\ r.mContextState = "AuthOkAck"
    BY <1>1, <1>5, ContextInitialized
  <2> HIDE DEF r
  <2>2. g = r
    BY <1>5 DEF r
  <2>3. QED
    BY <1>6, <2>1, <2>2
<1>8. NothingHeld(h)
  BY <1>4, <1>5 DEF NothingHeld
<1>9. /\ g \in FilterTypes /\ Matches("client", g) /\ NothingHeld(g) /\ Kept(h, g)
      /\ g.completed = "none" /\ g.got = <<>> /\ ~g.threw
  <2>1. Writes(h, g, Frame(Token(1))) /\ (h.mPreState = "Reading" => g.mContextState # "AuthOkAck")
    BY <1>5, <1>7
  <2>2. QED
    BY <1>2, <1>5, <1>8, <2>1, HandshakeMatches
<1>10. /\ wire' = wire /\ wire' \in [Ends -> Seq(Units)] /\ calls' \in Nat /\ aborts' \in Nat
       /\ UNCHANGED <<package, refused>>
  BY <1>1 DEF IssueWrite, TypesOK
<1>11. Event("client", g)
  <2>1. sent'["client"] >= sent["client"]
    BY <1>2
  <2>2. QED
    BY <1>1, <1>2, <1>9, <1>10, <2>1, EndsNamed DEF Event
<1>12. Stream("client")' = <<>>
  <2>1. HeldBy(g) = HeldBy(C)
    BY <1>1, <1>4, <1>7, <1>9 DEF HeldBy, NothingHeld, Writes
  <2>2. /\ Stream("client")' = HeldBy(g) \o (wire'["client"] \o LeftBy(filter[Peer("client")]))
        /\ Stream("client") = HeldBy(C) \o (wire["client"] \o LeftBy(filter[Peer("client")]))
    BY <1>1, <1>11, StreamsAfter, EndsNamed
  <2>3. QED
    BY <1>4, <1>10, <2>1, <2>2
<1>13. /\ g.posted = "write" /\ g.mWriteBuffer = Frame(Token(1))
       /\ g.mPreState = "Writing" /\ g.mWriteByteBufferOrig = units
  BY <1>5, <1>7, <1>9 DEF Writes, Kept
<1>14. Numbered(units, 0) /\ sent'["client"] = Len(units) /\ wire'["server"] = wire["server"]
  BY <1>2, <1>4, <1>10
<1>15. QED
  BY <1>1, <1>2, <1>4, <1>6, <1>7, <1>9, <1>11, <1>12, <1>13, <1>14, ClientAsks

-----------------------------------------------------------------------------
(***************************************************************************)
(* The steps                                                               *)
(***************************************************************************)

\* The filters stay as they are; an end may leave, a transport take up a message.
LEMMA FiltersStay ==
    ASSUME FilterInv, up' \subseteq up, UNCHANGED <<package, refused, filter, wire, sent, delivered>>,
           calls' \in Nat, aborts' \in Nat, user' \in [Ends -> UserTypes],
           \A e \in Ends : UserOK(user'[e]) /\ (sent[e] > 0 => user'[e].message > 0),
           \A e \in up' : Coupled(filter[e], user'[e]),
           filter["client"].mContextState # "AuthOkAck" =>
              /\ user'["server"].phase = user["server"].phase
              /\ user'["client"].phase \in {user["client"].phase, "writing"}
    PROVE  FilterInv'
<1>1. TypesOK'
  BY DEF FilterInv, TypesOK
<1>2. EndsOK'
  <2>1. \A f : FilterOK(f)' <=> FilterOK(f)
    BY SameFilterOK
  <2>2. \A e \in up' : FilterOK(filter[e])'
    BY <2>1 DEF FilterInv, EndsOK
  <2>3. \A e \in Ends : UserOK(user[e])'
    BY DEF UserOK
  <2>4. \A e \in up' : Coupled(filter[e], user[e])'
    BY DEF Coupled
  <2>5. QED
    BY <2>2, <2>3, <2>4 DEF EndsOK
<1>3. \A e : Stream(e)' = Stream(e)
  BY DEF Stream, HeldBy, LeftBy
<1>4. /\ \A b : Frame(b)' = Frame(b)
      /\ \A s, from, to : DataStream(s, from, to)' <=> DataStream(s, from, to)
  BY SamePackage
<1>5. ServerStates'
  BY <1>3 DEF FilterInv, ServerStates
<1>6. Handshake'
  <2>1. SUFFICES ASSUME filter["client"].mContextState # "AuthOkAck"
                 PROVE  ServerWaits' /\ ("client" \in up' => NotStarted' \/ UnderWay')
    BY DEF Handshake
  <2>2. ServerWaits /\ ("client" \in up => NotStarted \/ UnderWay)
    BY <2>1 DEF FilterInv, Handshake
  <2>3. \A k : Asked(k) => Asked(k)'
    BY <1>3, <1>4 DEF Asked
  <2>4. \A k : AnsweredBy(k) => AnsweredBy(k)'
    BY <1>3, <1>4 DEF AnsweredBy
  <2>5. Verdict => Verdict'
    BY <1>3, <1>4 DEF Verdict
  <2>6. ServerWaits'
    BY <1>3, <2>1, <2>2, <2>3 DEF ServerWaits, NothingHeld
  <2>7. NotStarted => NotStarted'
    BY <1>3, <2>1 DEF NotStarted
  <2>8. UnderWay => UnderWay'
    <3>1. FirstWrite => FirstWrite'
      BY <2>1 DEF FirstWrite, Numbered
    <3>2. QED
      BY <1>3, <2>3, <2>4, <2>5, <3>1 DEF UnderWay
  <2>9. QED
    BY <2>2, <2>6, <2>7, <2>8
<1>7. DataPhase'
  <2>1. \A e : DataFlow(e) => DataFlow(e)'
    <3>1. ASSUME NEW e, DataFlow(e) PROVE DataFlow(e)'
      <4>1. DataStream(Stream(e)', Len(delivered'[e]) + Len(filter'[e].plain), sent'[Peer(e)])
        BY <1>3, <3>1 DEF DataFlow
      <4>2. DataStream(Stream(e), Len(delivered[e]) + Len(filter[e].plain), sent[Peer(e)])'
        BY <1>4, <4>1
      <4>3. QED
        BY <3>1, <4>2 DEF DataFlow, Numbered
    <3>2. QED
      BY <3>1
  <2>2. QED
    BY <2>1 DEF FilterInv, DataPhase
<1>8. Safe'
  BY DEF FilterInv, Safe, Numbered
<1>9. QED
  BY <1>1, <1>2, <1>5, <1>6, <1>7, <1>8 DEF FilterInv

\* An end that leaves takes nothing from the streams.
LEMMA EndLeaves == ASSUME FilterInv, NEW e \in Ends, LeaveEvent(e) PROVE FilterInv'
<1>1. /\ up' \subseteq up /\ UNCHANGED <<package, refused, filter, wire, sent, delivered, user>>
      /\ calls' \in Nat /\ aborts' \in Nat
  BY DEF LeaveEvent, Unmoved
<1>2. /\ user' \in [Ends -> UserTypes]
      /\ \A d \in Ends : UserOK(user'[d]) /\ (sent[d] > 0 => user'[d].message > 0)
      /\ \A d \in up' : Coupled(filter[d], user'[d])
  BY <1>1 DEF FilterInv, TypesOK, EndsOK
<1>3. QED
  BY <1>1, <1>2, FiltersStay

\* A step that changes nothing.
LEMMA Stutters == ASSUME FilterInv, UNCHANGED filterVars PROVE FilterInv'
<1>1. /\ up' \subseteq up /\ UNCHANGED <<package, refused, filter, wire, sent, delivered, user>>
      /\ calls' \in Nat /\ aborts' \in Nat
  BY DEF filterVars, FilterInv, TypesOK
<1>2. /\ user' \in [Ends -> UserTypes]
      /\ \A d \in Ends : UserOK(user'[d]) /\ (sent[d] > 0 => user'[d].message > 0)
      /\ \A d \in up' : Coupled(filter[d], user'[d])
  BY <1>1 DEF FilterInv, TypesOK, EndsOK
<1>3. QED
  BY <1>1, <1>2, FiltersStay

\* A message is taken up by an end that has nothing under way.
LEMMA MessageTaken ==
    ASSUME FilterInv, NEW e \in Ends, Idle(e), NEW m \in Messages, calls' \in Nat, aborts' \in Nat,
           e = "server" => filter["client"].mContextState = "AuthOkAck",
           user' = [user EXCEPT ![e] = [NewUser("writing") EXCEPT !.buffers = m, !.message = Total(m)]],
           UNCHANGED <<package, refused, filter, wire, up, sent, delivered>>
    PROVE  FilterInv'
<1> DEFINE v == [NewUser("writing") EXCEPT !.buffers = m, !.message = Total(m)]
<1>1. m \in Seq(Nat \ {0}) /\ m # <<>> /\ Total(m) \in Nat \ {0}
  BY ConstantsAssumption, TotalAssumption
<1>2. /\ v \in UserTypes /\ v.phase = "writing" /\ v.buffers = m /\ v.message = Total(m)
  <2>1. NewUser("writing") \in UserTypes /\ NewUser("writing").phase = "writing"
    BY DEF NewUser, UserTypes
  <2> HIDE DEF Total
  <2>2. QED
    BY <1>1, <2>1 DEF UserTypes
<1>3. UserOK(v) /\ v.message > 0
  <2> HIDE DEF v
  <2>1. v.message \in Nat \ {0} /\ v.buffers # <<>> /\ v.phase = "writing"
    BY <1>1, <1>2
  <2>2. QED
    BY <2>1 DEF UserOK
<1> HIDE DEF v
<1>4. user \in [Ends -> UserTypes] /\ user' = [user EXCEPT ![e] = v] /\ up \subseteq Ends
  BY DEF FilterInv, TypesOK, v
<1>5. user' \in [Ends -> UserTypes] /\ user'[e] = v /\ \A d \in Ends : d # e => user'[d] = user[d]
  BY <1>2, <1>4
<1>6. \A d \in Ends : UserOK(user'[d]) /\ (sent[d] > 0 => user'[d].message > 0)
  BY <1>3, <1>5 DEF FilterInv, EndsOK
<1>7. \A d \in up : Coupled(filter[d], user'[d])
  <2>1. Coupled(filter[e], v)
    BY DEF Idle, Coupled
  <2>2. QED
    BY <1>4, <1>5, <2>1 DEF FilterInv, EndsOK
<1>8. filter["client"].mContextState # "AuthOkAck" =>
         /\ user'["server"].phase = user["server"].phase
         /\ user'["client"].phase \in {user["client"].phase, "writing"}
  BY <1>2, <1>5, EndsNamed
<1>9. QED
  BY <1>5, <1>6, <1>7, <1>8, FiltersStay

\* What the steps below are.
LEMMA ReadsAre ==
    ASSUME TypesOK, NEW e \in Ends, ReadDone(e)
    PROVE  (\E units : ReadEvent(e, units)) \/ ZeroEvent(e)
<1> DEFINE f == filter[e]
           room == f.mReadBufferLen - Len(f.mReadBuffer)
<1>1. /\ e \in up /\ Unmoved /\ wire \in [Ends -> Seq(Units)] /\ wire[e] \in Seq(Units)
      /\ f.mReadBuffer \in Seq(Units) /\ f.mReadBufferLen \in Nat
  BY DEF ReadDone, TypesOK, Unmoved, FilterTypes
<1>2. CASE f.posted = "zero"
  BY <1>1, <1>2 DEF ReadDone, ZeroEvent, Below
<1>3. CASE f.posted # "zero"
  <2>1. PICK n \in 1 .. Least(room, Len(wire[e])) :
           /\ f.posted = "read" /\ wire' = [wire EXCEPT ![e] = From(wire[e], n)]
           /\ Settle(e, OnReadCompleted(e, [f EXCEPT !.posted = "none"], First(wire[e], n)))
    BY <1>3 DEF ReadDone
  <2>2. n \in 0 .. Len(wire[e]) /\ n <= room
    <3>1. Len(wire[e]) \in Nat /\ Len(f.mReadBuffer) \in Nat
      BY <1>1
    <3>2. room \in Int
      BY <1>1, <3>1
    <3> HIDE DEF room
    <3>3. QED
      BY <2>1, <3>1, <3>2 DEF Least
  <2> DEFINE units == First(wire[e], n)
             rest == From(wire[e], n)
  <2>3. units \in Seq(Units) /\ Len(units) = n /\ rest \in Seq(Units) /\ units \o rest = wire[e]
    BY <1>1, <2>2, Pieces, Rejoined
  <2>4. wire' = [wire EXCEPT ![e] = rest] /\ Settle(e, OnReadCompleted(e, Below(f), units))
    BY <2>1 DEF Below
  <2> HIDE DEF units, rest
  <2>5. wire' \in [Ends -> Seq(Units)] /\ wire'[e] = rest /\ wire'[Peer(e)] = wire[Peer(e)]
    BY <1>1, <2>3, <2>4, Sides
  <2>6. Len(f.mReadBuffer \o units) <= f.mReadBufferLen
    <3>1. Len(f.mReadBuffer \o units) = Len(f.mReadBuffer) + Len(units)
          /\ Len(f.mReadBuffer) \in Nat
      BY <1>1, <2>3, Joins
    <3>2. \A l, k \in Nat : n <= k - l => l + n <= k
      BY <2>1
    <3>3. QED
      BY <1>1, <2>2, <2>3, <3>1, <3>2
  <2>7. ReadEvent(e, units)
    BY <1>1, <2>1, <2>3, <2>4, <2>5, <2>6 DEF ReadEvent
  <2>8. QED
    BY <2>7
<1>4. QED
  BY <1>2, <1>3

\* A write of which nothing goes.
LEMMA NothingWritten ==
    ASSUME TypesOK, NEW e \in Ends, e \in up, filter[e].posted = "write", Unmoved, wire' = wire,
           Settle(e, OnWriteCompleted(e, Below(filter[e]), 0))
    PROVE  WriteEvent(e, 0)
<1>1. /\ filter[e].mWriteBuffer \in Seq(Units) /\ wire[Peer(e)] \in Seq(Units)
      /\ wire \in [Ends -> Seq(Units)] /\ Peer(e) \in Ends
  BY Sides DEF TypesOK, FilterTypes
<1>2. First(filter[e].mWriteBuffer, 0) = <<>> /\ 0 \in 0 .. Len(filter[e].mWriteBuffer)
  <2>1. 0 \in 0 .. Len(filter[e].mWriteBuffer)
    BY <1>1
  <2>2. First(filter[e].mWriteBuffer, 0) \in Seq(Units) /\ Len(First(filter[e].mWriteBuffer, 0)) = 0
    BY <1>1, <2>1, Pieces
  <2>3. QED
    BY <2>1, <2>2, EmptySeq
<1>3. wire[Peer(e)] \o <<>> = wire[Peer(e)]
  BY <1>1, Nothing
<1>4. wire' = [wire EXCEPT ![Peer(e)] = wire[Peer(e)] \o First(filter[e].mWriteBuffer, 0)]
  BY <1>1, <1>2, <1>3
<1>5. QED
  BY <1>2, <1>4 DEF WriteEvent

\* WriteDone, and EmptyWriteDone, which ends the connection or has written nothing.
LEMMA WritesAre ==
    ASSUME TypesOK, NEW e \in Ends, WriteDone(e) \/ EmptyWriteDone(e)
    PROVE  (\E n : WriteEvent(e, n)) \/ LeaveEvent(e)
<1>1. Unmoved /\ e \in up /\ filter[e].posted = "write" /\ Len(filter[e].mWriteBuffer) \in Nat
  <2>1. e \in up /\ filter[e].posted = "write" /\ UNCHANGED <<package, refused, sent, calls, aborts>>
    BY DEF WriteDone, EmptyWriteDone
  <2>2. calls \in Nat /\ aborts \in Nat /\ filter[e] \in FilterTypes
    BY DEF TypesOK
  <2>3. filter[e].mWriteBuffer \in Seq(Units)
    BY <2>2 DEF FilterTypes
  <2>4. QED
    BY <2>1, <2>2, <2>3 DEF Unmoved
<1>2. CASE WriteDone(e)
  <2>1. PICK n \in 1 .. Len(filter[e].mWriteBuffer) :
           /\ wire' = [wire EXCEPT ![Peer(e)] = @ \o First(filter[e].mWriteBuffer, n)]
           /\ Settle(e, OnWriteCompleted(e, [filter[e] EXCEPT !.posted = "none"], n))
    BY <1>2 DEF WriteDone
  <2>2. n \in 0 .. Len(filter[e].mWriteBuffer)
    BY <1>1, <2>1
  <2>3. WriteEvent(e, n)
    BY <1>1, <2>1, <2>2 DEF WriteEvent, Below
  <2>4. QED
    BY <2>3
<1>3. CASE EmptyWriteDone(e)
  <2>1. wire' = wire
    BY <1>3 DEF EmptyWriteDone
  <2>2. CASE e = "server" /\ Transport = "iocp"
    BY <1>1, <1>3, <2>1, <2>2 DEF EmptyWriteDone, LeaveEvent
  <2>3. CASE ~(e = "server" /\ Transport = "iocp")
    <3>1. Settle(e, OnWriteCompleted(e, Below(filter[e]), 0))
      BY <1>3, <2>3 DEF EmptyWriteDone, Below
    <3>2. QED
      BY <1>1, <2>1, <3>1, NothingWritten
  <2>4. QED
    BY <2>2, <2>3
<1>4. QED
  BY <1>2, <1>3

\* An aborted operation has read or written nothing.
LEMMA AbortsAre ==
    ASSUME TypesOK, EndsOK, Aborted
    PROVE  ReadEvent("server", <<>>) \/ WriteEvent("server", 0) \/ ZeroEvent("server")
<1> DEFINE S == filter["server"]
<1>1. /\ Unmoved /\ "server" \in up /\ "server" \in Ends /\ wire' = wire
      /\ wire \in [Ends -> Seq(Units)] /\ wire["server"] \in Seq(Units)
      /\ S.mReadBuffer \in Seq(Units) /\ S.mReadBufferLen \in Nat
      /\ S.posted \in {"read", "write", "zero"}
  <2>1. /\ "server" \in up /\ S.posted # "none" /\ wire' = wire /\ aborts' = aborts + 1
        /\ UNCHANGED <<package, refused, sent, calls>>
    BY DEF Aborted
  <2>2. /\ calls \in Nat /\ aborts \in Nat /\ S \in FilterTypes /\ "server" \in Ends
        /\ wire \in [Ends -> Seq(Units)]
    BY EndsNamed DEF TypesOK
  <2>3. /\ S.mReadBuffer \in Seq(Units) /\ S.mReadBufferLen \in Nat
        /\ S.posted \in {"none", "read", "write", "zero"}
    BY <2>2 DEF FilterTypes
  <2>4. QED
    BY <2>1, <2>2, <2>3 DEF Unmoved
<1>2. Settle("server", IF S.posted = "write" THEN OnWriteCompleted("server", Below(S), 0)
                                            ELSE OnReadCompleted("server", Below(S), <<>>))
  BY DEF Aborted, Below
<1>3. CASE S.posted = "write"
  BY <1>1, <1>2, <1>3, NothingWritten
<1>4. CASE S.posted = "zero"
  BY <1>1, <1>2, <1>4 DEF ZeroEvent
<1>5. CASE S.posted = "read"
  <2>1. <<>> \in Seq(Units) /\ <<>> \o wire["server"] = wire["server"]
        /\ S.mReadBuffer \o <<>> = S.mReadBuffer
    BY <1>1, Nothing
  <2>2. ~package.schannel => Len(S.mReadBuffer) <= S.mReadBufferLen
    <3>1. ~package.schannel => BlockPending(S)
      BY <1>1, <1>5 DEF EndsOK, FilterOK
    <3>2. Len(S.mReadBuffer) \in Nat
      BY <1>1
    <3>3. QED
      BY <1>1, <3>1, <3>2 DEF BlockPending
  <2>3. Settle("server", OnReadCompleted("server", Below(S), <<>>))
    BY <1>2, <1>5
  <2>4. QED
    BY <1>1, <1>5, <2>1, <2>2, <2>3 DEF ReadEvent
<1>6. QED
  BY <1>1, <1>3, <1>4, <1>5

-----------------------------------------------------------------------------
(***************************************************************************)
(* Every step keeps the invariant                                          *)
(***************************************************************************)

\* Reads, at either end, in the handshake and after it.
LEMMA ReadEventKeeps ==
    ASSUME FilterInv, NEW e \in Ends, NEW units, ReadEvent(e, units) PROVE FilterInv'
BY DataRead, ServerReadsToken, ClientReadsAnswer DEF Ends

\* Writes, at either end, in the handshake and after it.
LEMMA WriteEventKeeps ==
    ASSUME FilterInv, NEW e \in Ends, NEW n, WriteEvent(e, n) PROVE FilterInv'
BY DataWritten, ServerWritesAnswer, ClientWritesToken DEF Ends

\* Polls: the client has none in the handshake.
LEMMA ZeroEventKeeps ==
    ASSUME FilterInv, NEW e \in Ends, ZeroEvent(e) PROVE FilterInv'
<1>1. CASE filter["client"].mContextState = "AuthOkAck"
  BY <1>1, DataPolled
<1>2. CASE filter["client"].mContextState # "AuthOkAck" /\ e = "client"
  BY <1>2 DEF FilterInv, Handshake, NotStarted, UnderWay, ZeroEvent
<1>3. CASE filter["client"].mContextState # "AuthOkAck" /\ e = "server"
  BY <1>3, ServerPolled
<1>4. QED
  BY <1>1, <1>2, <1>3 DEF Ends

\* Writes from above: the server has none in the handshake.
LEMMA WriteIssuedKeeps ==
    ASSUME FilterInv, NEW e \in Ends, IssueWrite(e) PROVE FilterInv'
<1>1. CASE filter["client"].mContextState = "AuthOkAck"
  BY <1>1, DataWriteIssued
<1>2. CASE filter["client"].mContextState # "AuthOkAck" /\ e = "client"
  BY <1>2, ClientWriteIssued
<1>3. CASE filter["client"].mContextState # "AuthOkAck" /\ e = "server"
  BY <1>3 DEF FilterInv, Handshake, ServerWaits, IssueWrite
<1>4. QED
  BY <1>1, <1>2, <1>3 DEF Ends

\* Reads from above: the client has none in the handshake.
LEMMA ReadIssuedKeeps ==
    ASSUME FilterInv, NEW e \in Ends, IssueRead(e) PROVE FilterInv'
<1>1. CASE filter["client"].mContextState = "AuthOkAck"
  BY <1>1, DataReadIssued
<1>2. CASE filter["client"].mContextState # "AuthOkAck" /\ e = "client"
  BY <1>2 DEF FilterInv, Handshake, NotStarted, UnderWay, IssueRead, Idle
<1>3. CASE filter["client"].mContextState # "AuthOkAck" /\ e = "server"
  BY <1>3, ServerReadIssued
<1>4. QED
  BY <1>1, <1>2, <1>3 DEF Ends

\* Calls and replies.
LEMMA CallKeeps ==
    ASSUME FilterInv, NEW m \in Messages, Call(m) \/ Reply(m) PROVE FilterInv'
<1>1. calls \in Nat /\ aborts \in Nat
  BY DEF FilterInv, TypesOK
<1>2. CASE Call(m)
  <2>1. calls' \in Nat /\ aborts' \in Nat
    BY <1>1, <1>2 DEF Call
  <2>2. /\ Idle("client") /\ UNCHANGED <<package, refused, filter, wire, up, sent, delivered>>
        /\ user' = [user EXCEPT !["client"] =
                      [NewUser("writing") EXCEPT !.buffers = m, !.message = Total(m)]]
    BY <1>2 DEF Call
  <2>3. QED
    BY <2>1, <2>2, MessageTaken, EndsNamed
<1>3. CASE Reply(m)
  <2>1. /\ Idle("server") /\ UNCHANGED <<package, refused, filter, wire, up, sent, delivered, calls, aborts>>
        /\ user["server"].phase = "invoking"
        /\ user' = [user EXCEPT !["server"] =
                      [NewUser("writing") EXCEPT !.buffers = m, !.message = Total(m)]]
    BY <1>3 DEF Reply
  <2>2. filter["client"].mContextState = "AuthOkAck"
    BY <2>1 DEF FilterInv, Handshake, ServerWaits
  <2>3. QED
    BY <1>1, <2>1, <2>2, MessageTaken, EndsNamed
<1>4. QED
  BY <1>2, <1>3

\* The invariant is inductive.
LEMMA FilterStep == FilterInv /\ [FilterNext]_filterVars => FilterInv'
<1> SUFFICES ASSUME FilterInv, [FilterNext]_filterVars PROVE FilterInv'
  OBVIOUS
<1>1. TypesOK /\ EndsOK
  BY DEF FilterInv
<1>2. CASE \E m \in Messages : Call(m) \/ Reply(m)
  BY <1>2, CallKeeps
<1>3. ASSUME NEW e \in Ends, ReadDone(e) PROVE FilterInv'
  BY <1>1, <1>3, ReadsAre, ReadEventKeeps, ZeroEventKeeps
<1>4. ASSUME NEW e \in Ends, WriteDone(e) \/ EmptyWriteDone(e) PROVE FilterInv'
  BY <1>1, <1>4, WritesAre, WriteEventKeeps, EndLeaves
<1>5. ASSUME NEW e \in Ends, EndOfStream(e) PROVE FilterInv'
  <2>1. LeaveEvent(e)
    BY <1>1, <1>5 DEF EndOfStream, LeaveEvent, Unmoved, TypesOK
  <2>2. QED
    BY <2>1, EndLeaves
<1>6. ASSUME NEW e \in Ends, IssueWrite(e) \/ IssueRead(e) PROVE FilterInv'
  BY <1>6, WriteIssuedKeeps, ReadIssuedKeeps
<1>7. CASE Aborted
  BY <1>1, <1>7, AbortsAre, ReadEventKeeps, WriteEventKeeps, ZeroEventKeeps, EndsNamed
<1>8. CASE UNCHANGED filterVars
  BY <1>8, Stutters
<1>9. QED
  BY <1>2, <1>3, <1>4, <1>5, <1>6, <1>7, <1>8 DEF FilterNext, Io, Above

\* The invariant holds at the start.
LEMMA FilterStarts == FilterInit => FilterInv
<1> SUFFICES ASSUME FilterInit PROVE FilterInv
  OBVIOUS
<1>1. /\ package \in Packages /\ refused \in Nat /\ up = Ends
      /\ filter = [e \in Ends |-> NewFilter] /\ wire = [e \in Ends |-> <<>>]
      /\ sent = [e \in Ends |-> 0] /\ delivered = [e \in Ends |-> <<>>] /\ calls = 0 /\ aborts = 0
      /\ user = [e \in Ends |-> NewUser(IF e = "client" THEN "idle" ELSE "reading")]
  BY ConstantsAssumption DEF FilterInit
<1>2. /\ NewFilter \in FilterTypes /\ NewFilter.mContextState = "AuthContinue"
      /\ NewFilter.posted = "none" /\ NewFilter.plain = <<>> /\ NewFilter.remaining = <<>>
      /\ NewFilter.completed = "none" /\ NewFilter.got = <<>> /\ ~NewFilter.threw
  BY DEF NewFilter, FilterTypes
<1>3. \A ph \in {"idle", "reading"} :
         /\ NewUser(ph) \in UserTypes /\ NewUser(ph).phase = ph
         /\ NewUser(ph).part = "length" /\ NewUser(ph).need = 1
  BY DEF NewUser, UserTypes
<1>4. \A e \in Ends : /\ filter[e] = NewFilter /\ wire[e] = <<>> /\ sent[e] = 0 /\ delivered[e] = <<>>
                      /\ user[e] \in UserTypes /\ user[e].part = "length" /\ user[e].need = 1
                      /\ user[e].phase \in {"idle", "reading"}
  BY <1>1, <1>3
<1>5. user["client"].phase = "idle" /\ user["server"].phase = "reading"
  BY <1>1, <1>3, EndsNamed
<1>6. TypesOK
  <2>1. /\ filter \in [Ends -> FilterTypes] /\ wire \in [Ends -> Seq(Units)]
        /\ sent \in [Ends -> Nat] /\ delivered \in [Ends -> Seq(Nat)]
    BY <1>1, <1>2
  <2>2. user \in [Ends -> UserTypes]
    BY <1>1, <1>4
  <2>3. QED
    BY <1>1, <1>2, <1>4, <2>1, <2>2 DEF TypesOK
<1>7. EndsOK
  <2>1. FilterOK(NewFilter) /\ \A u : Coupled(NewFilter, u)
    BY <1>2 DEF FilterOK, Coupled, NothingHeld
  <2>2. \A e \in Ends : UserOK(user[e])
    BY <1>4 DEF UserOK
  <2>3. QED
    BY <1>1, <1>4, <2>1, <2>2 DEF EndsOK
<1>8. \A e \in Ends : Stream(e) = <<>>
  <2>1. HeldBy(NewFilter) = <<>> /\ LeftBy(NewFilter) = <<>> /\ <<>> \o <<>> = <<>>
    BY <1>2 DEF HeldBy, LeftBy
  <2>2. QED
    BY <1>4, <2>1, Sides DEF Stream
<1>9. ServerStates /\ DataPhase
  BY <1>2, <1>4, EndsNamed DEF ServerStates, DataPhase
<1>10. Handshake
  BY <1>2, <1>4, <1>5, <1>8, EndsNamed DEF Handshake, ServerWaits, NotStarted, NothingHeld
<1>11. Safe
  <2>1. Numbered(<<>>, 0) /\ Len(<<>>) <= 0
    BY DEF Numbered
  <2>2. QED
    BY <1>4, <2>1, Sides DEF Safe
<1>12. QED
  BY <1>6, <1>7, <1>9, <1>10, <1>11 DEF FilterInv

\* The invariant of the filters and of what is between them: SspiFilter.cpp's two
\* handshakes and the blocks that follow them.
THEOREM FilterInvariant == FilterSpec => []FilterInv
BY FilterStarts, FilterStep, PTL DEF FilterSpec

\* What comes out of an end is what the other has written, in order, whatever the
\* reads and writes below have moved (completeReadBlock, shiftReadBuffer, handleEvent).
THEOREM DeliveredHolds == FilterSpec => []Delivered
<1>1. FilterInv => Delivered
  <2> SUFFICES ASSUME FilterInv, NEW e \in Ends
               PROVE  /\ Len(delivered[e]) <= sent[Peer(e)]
                      /\ \A i \in DOMAIN delivered[e] : delivered[e][i] = i
    BY DEF Delivered
  <2>1. Numbered(delivered[e], 0) /\ Len(delivered[e]) <= sent[Peer(e)] /\ delivered[e] \in Seq(Nat)
    BY DEF FilterInv, Safe, TypesOK
  <2>2. QED
    BY <2>1 DEF Numbered
<1>2. QED
  BY <1>1, FilterInvariant, PTL

\* A client goes on only if the server has accepted it, and nothing comes out of the
\* server's end before (doHandshake of both ends).
THEOREM AgreementHolds == FilterSpec => []Agreement
<1>1. FilterInv => Agreement
  BY EndsNamed DEF FilterInv, DataPhase, Handshake, ServerWaits, Agreement
<1>2. QED
  BY <1>1, FilterInvariant, PTL
=============================================================================
