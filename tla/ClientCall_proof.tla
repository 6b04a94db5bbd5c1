-------------------------- MODULE ClientCall_proof --------------------------
(***************************************************************************)
(* Proofs about ClientCall: types, and, if connect() is not called after a *)
(* call has left its request, the streams that a call finds, the filters   *)
(* of both ends, and that the calls implement RemoteCall, by the inductive *)
(* invariant of ClientCallInv.                                             *)
(***************************************************************************)
EXTENDS ClientCallInv, TLAPS

(***************************************************************************)
(* Sequences                                                               *)
(***************************************************************************)
LEMMA Appended ==
    ASSUME NEW S, NEW w \in Seq(S), NEW x \in S
    PROVE  /\ Append(w, x) \in Seq(S) /\ Len(Append(w, x)) = Len(w) + 1
           /\ Append(w, x) # <<>>
           /\ \A i \in 1 .. Len(w) : Append(w, x)[i] = w[i]
           /\ Append(w, x)[Len(w) + 1] = x
  OBVIOUS

LEMMA Taken ==
    ASSUME NEW S, NEW w \in Seq(S), w # <<>>
    PROVE  /\ Tail(w) \in Seq(S) /\ Len(Tail(w)) = Len(w) - 1 /\ Len(w) \in Nat \ {0}
           /\ \A i \in 1 .. Len(w) - 1 : Tail(w)[i] = w[i + 1]
           /\ Head(w) = w[1] /\ Head(w) \in S
  OBVIOUS

LEMMA Elements ==
    ASSUME NEW S, NEW w \in Seq(S)
    PROVE  /\ Len(w) \in Nat /\ DOMAIN w = 1 .. Len(w)
           /\ \A i \in 1 .. Len(w) : w[i] \in S
           /\ Len(w) = 0 <=> w = <<>>
  OBVIOUS

LEMMA Empty ==
    ASSUME NEW S PROVE <<>> \in Seq(S) /\ Len(<<>>) = 0 /\ DOMAIN <<>> = {}
  OBVIOUS

LEMMA EmptyTail ==
    ASSUME NEW S, NEW w \in Seq(S), Len(w) = 1 PROVE Tail(w) = <<>>
  BY Taken, Elements

-----------------------------------------------------------------------------
(***************************************************************************)
(* Types                                                                   *)
(***************************************************************************)
Requests == [call : 0 .. MaxCalls, oneway : BOOLEAN, version : Nat]
Sent     == [filtered : BOOLEAN, request : Requests]
Received == [kind : {"answer", "exception", "mismatch", "ping", "tooLong"},
             call : 0 .. MaxCalls, filtered : BOOLEAN]
Results  == [kind : {"none", "running", "returned", "sent", "remote", "versioning", "failed"},
             of : 0 .. MaxCalls]

CallTypes ==
    /\ op \in {"none", "call", "connect"}
    /\ phase \in {"idle", "connect", "negotiate", "renew", "exchange"}
    /\ io \in {"none", "send", "recv"} /\ pos \in {0, 1} /\ ncalls \in 0 .. MaxCalls
    /\ result \in [Calls -> Results]
    /\ half \in BOOLEAN /\ cut \in BOOLEAN
StubTypes ==
    /\ mConnected \in BOOLEAN
    /\ mRcfRuntimeVersion \in [Stubs -> Nat] /\ mTries \in [Stubs -> {0, 1}]
    /\ mRequest \in [Stubs -> Requests] /\ mEncodedByteBuffers \in [Stubs -> BOOLEAN]
    /\ mTransportFilters \in BOOLEAN
ConnTypes ==
    /\ conn \in 0 .. nconns /\ nconns \in 0 .. MaxConns
    /\ srv \in [Conns -> {"none", "reading", "serving", "replied", "granting", "closed"}]
    /\ serving \in [Conns -> Requests] /\ srvFilters \in [Conns -> BOOLEAN]
    /\ pings \in [Conns -> 0 .. MaxPings] /\ executed \in [Calls -> Nat]
SentType     == c2s \in [Conns -> Seq(Sent)]
ReceivedType == s2c \in [Conns -> Seq(Received)]

LEMMA Types == TypeOK <=> CallTypes /\ StubTypes /\ ConnTypes /\ SentType /\ ReceivedType
  BY DEF TypeOK, CallTypes, StubTypes, ConnTypes, SentType, ReceivedType, Requests, Sent,
         Received, Results

LEMMA Bounds == MaxCalls \in Nat /\ MaxConns \in Nat /\ MaxPings \in Nat
                /\ ClientVersion \in Nat /\ ServerVersion \in Nat
  BY ConstantsAssumption DEF ConstantsAssumption

LEMMA InitTypes == Init => TypeOK
<1>0. UseFilters \in BOOLEAN
  BY ConstantsAssumption DEF ConstantsAssumption
<1>1. ASSUME Init PROVE CallTypes /\ StubTypes
  <2>1. CallTypes
    <3>1. result \in [Calls -> Results]
      BY <1>1, Bounds DEF Init, Results, Calls
    <3>2. 0 \in 0 .. MaxCalls
      BY Bounds
    <3>3. QED
      BY <3>1, <3>2, <1>1 DEF Init, CallTypes
  <2>2. StubTypes
    <3>1. NoRequest \in Requests
      BY Bounds DEF Requests, NoRequest, Request
    <3>2. QED
      BY <3>1, <1>1, <1>0, Bounds DEF Init, StubTypes
  <2>3. QED
    BY <2>1, <2>2
<1>2. ASSUME Init PROVE ConnTypes
  BY <1>2, Bounds DEF Init, ConnTypes, Requests, NoRequest, Request, Calls, Conns
<1>3. ASSUME Init PROVE SentType /\ ReceivedType
  BY <1>3, Empty DEF Init, SentType, ReceivedType
<1>4. QED
  BY <1>1, <1>2, <1>3, Types


-----------------------------------------------------------------------------
(***************************************************************************)
(* The stub                                                                *)
(***************************************************************************)
Control == CallTypes /\ StubTypes /\ ConnTypes /\ Places /\ Streams /\ Encoded

\* The message that is read, and what is left of the stream.
First == Head(s2c[conn])
Rest  == [s2c EXCEPT ![conn] = Tail(@)]

\* What a step of the client does with its connection; `in' is what the
\* connections still have for the client.
Keeps(in) == conn' = conn /\ s2c' = in
Drops(in) == conn' = 0 /\ s2c' = [c \in Conns |-> IF c = conn THEN <<>> ELSE in[c]]

\* The request of the call can still be sent, or be sent again.
Sendable == op = "call" /\ (mEncodedByteBuffers["user"] \/ ServerVersion < mRcfRuntimeVersion["user"])

\* What the caller gets.
Fails == op = "call" /\ \E kind \in {"sent", "remote", "versioning", "failed"} :
             result' = [result EXCEPT ![ncalls] = [kind |-> kind, of |-> ncalls]]
Resolves == result' = result \/ Fails
Returns  == /\ op = "call" /\ First.kind = "answer" /\ Running = "user"
            /\ result' = [result EXCEPT ![ncalls] = [kind |-> "returned", of |-> First.call]]

LEMMA CallControl ==
    ASSUME IInv, NEW kind \in Kinds, Call(kind)
    PROVE  /\ Control' /\ op = "none" /\ ncalls' = ncalls + 1 /\ mTries'["user"] = 0
           /\ op' = "call" /\ UNCHANGED <<mTransportFilters, nconns, c2s, serverVars>>
           /\ \A c \in Calls : c # ncalls' => result'[c] = result[c]
           /\ Drops(s2c) \/ (Keeps(s2c) /\ phase' = "exchange" /\ io' = "send")
<1>1. CallTypes /\ StubTypes /\ ConnTypes /\ Places /\ Streams /\ Encoded /\ ReceivedType
  BY Types DEF IInv
<1> DEFINE m == Request(ncalls + 1, kind = "oneway", mRcfRuntimeVersion["user"])
<1>2. /\ op = "none" /\ ncalls < MaxCalls /\ op' = "call" /\ ncalls' = ncalls + 1
      /\ result' = [result EXCEPT ![ncalls + 1].kind = "running"]
      /\ mTries' = [mTries EXCEPT !["user"] = 0]
      /\ mRequest' = [mRequest EXCEPT !["user"] = m]
      /\ mEncodedByteBuffers' = [mEncodedByteBuffers EXCEPT !["user"] = TRUE]
      /\ UNCHANGED <<mConnected, mRcfRuntimeVersion, mTransportFilters, nconns, c2s, srv, serving,
                     srvFilters, pings, executed>>
  BY DEF Call, serverVars
<1>3. /\ pos' = 0
      /\ \/ /\ phase' = "connect" /\ io' = "none" /\ conn' = 0 /\ half' = FALSE /\ cut' = FALSE
            /\ Drops(s2c)
         \/ /\ phase' = "exchange" /\ io' = "send" /\ conn' = conn /\ half' = half /\ cut' = cut
            /\ Keeps(s2c)
  BY <1>1 DEF Call, Send, Close, KeepOpen, CallTypes, Keeps, Drops
<1>4. m \in Requests /\ m.call = ncalls + 1 /\ m.version = mRcfRuntimeVersion["user"]
      /\ (m.oneway => "oneway" \in Kinds)
  <2>1. ncalls + 1 \in 0 .. MaxCalls /\ mRcfRuntimeVersion["user"] \in Nat
    BY <1>1, <1>2, Bounds DEF CallTypes, StubTypes, Stubs
  <2>2. QED
    BY <2>1 DEF Request, Requests
<1> HIDE DEF m
<1>5. CallTypes'
  <2>1. result' \in [Calls -> Results]
    BY <1>1, <1>2, Bounds DEF CallTypes, Results, Calls
  <2>2. op' \in {"none", "call", "connect"} /\ ncalls' \in 0 .. MaxCalls
    BY <1>1, <1>2, Bounds DEF CallTypes
  <2>3. QED
    BY <2>1, <2>2, <1>1, <1>3 DEF CallTypes
<1>6. StubTypes' /\ ConnTypes'
  BY <1>1, <1>2, <1>3, <1>4, Bounds DEF StubTypes, ConnTypes, Stubs
<1>7. Places' /\ Streams'
  BY <1>1, <1>2, <1>3 DEF Places, Streams
<1>8. Encoded'
  <2>1. result'[ncalls'].kind = "running"
    BY <1>1, <1>2, Bounds DEF CallTypes, Results, Calls
  <2>2. QED
    BY <2>1, <1>1, <1>2, <1>3, <1>4 DEF Encoded, StubTypes, Stubs, CallTypes
<1>9. QED
  BY <1>1, <1>2, <1>3, <1>5, <1>6, <1>7, <1>8 DEF Control, StubTypes, Stubs, serverVars, CallTypes

\* What an exception leaves: the connection is kept only if the server sent
\* it, or if there is none.
LEMMA RaiseControl ==
    ASSUME IInv, NEW remote \in BOOLEAN, NEW kind \in {"failed", "remote", "versioning"}, NEW in,
           Raise(remote, kind, in),
           UNCHANGED <<ncalls, mRcfRuntimeVersion, mTries, mRequest, mEncodedByteBuffers,
                       mTransportFilters, nconns, serverVars>>,
           remote => io = "recv" /\ in # s2c,
           ~remote => phase \in {"connect", "renew"} \/ io # "none"
    PROVE  /\ Control'
           /\ op' = "none" /\ phase' = "idle" /\ io' = "none" /\ Resolves
           /\ Drops(in) \/ (Keeps(in) /\ (remote \/ conn = 0))
<1>1. CallTypes /\ StubTypes /\ ConnTypes /\ Places /\ Streams /\ Encoded /\ ReceivedType
  BY Types DEF IInv
<1>2. /\ op' = "none" /\ phase' = "idle" /\ io' = "none" /\ pos' = 0
      /\ result' = IF op = "call" THEN [result EXCEPT ![ncalls] = [kind |-> kind, of |-> ncalls]]
                                  ELSE result
  BY DEF Raise, Ends
<1>3. op # "none"
  BY <1>1 DEF Places
<1>4. \/ /\ conn' = 0 /\ half' = FALSE /\ cut' = FALSE
         /\ s2c' = [c \in Conns |-> IF c = conn THEN <<>> ELSE in[c]]
      \/ /\ conn' = conn /\ half' = half /\ cut' = (cut /\ in = s2c) /\ s2c' = in
         /\ remote \/ (op = "connect" /\ phase \notin {"negotiate", "renew"})
  BY DEF Raise, Close, KeepOpen, Running
<1>5. mConnected' \in BOOLEAN
  BY <1>1 DEF Raise, StubTypes, IsConnected
<1>6. /\ half' = FALSE /\ cut' = FALSE
      /\ conn' = 0 \/ (conn' = conn /\ (remote \/ conn = 0))
  BY <1>1, <1>3, <1>4 DEF Places, Streams, CallTypes
<1>7. CallTypes'
  <2>1. result' \in [Calls -> Results]
    BY <1>1, <1>2 DEF CallTypes, Results
  <2>2. QED
    BY <2>1, <1>1, <1>2, <1>6 DEF CallTypes
<1>8. StubTypes'
  BY <1>1, <1>5 DEF StubTypes
<1>9. ConnTypes'
  BY <1>1, <1>6, Bounds DEF ConnTypes, serverVars
<1>10. Places' /\ Streams'
  BY <1>2, <1>6 DEF Places, Streams
<1>11. Encoded'
  BY <1>1, <1>2 DEF Encoded
<1>12. Resolves
  BY <1>2 DEF Resolves, Fails
<1>13. QED
  BY <1>2, <1>4, <1>6, <1>7, <1>8, <1>9, <1>10, <1>11, <1>12 DEF Control, Keeps, Drops

LEMMA ConnectControl ==
    ASSUME IInv, Connects # "any", Connect
    PROVE  Control' /\ Drops(s2c) /\ UNCHANGED <<ncalls, result, stubVars, nconns, c2s, serverVars>>
           /\ op' = "connect" /\ ~mEncodedByteBuffers["user"]
<1>1. CallTypes /\ StubTypes /\ ConnTypes /\ Places /\ Streams /\ Encoded /\ ReceivedType
  BY Types DEF IInv
<1>2. /\ op = "none" /\ op' = "connect" /\ ~mEncodedByteBuffers["user"]
      /\ UNCHANGED <<ncalls, result, stubVars, mTransportFilters, nconns, c2s, serverVars>>
      /\ phase' = "connect" /\ io' = "none" /\ pos' = 0
      /\ conn' = 0 /\ half' = FALSE /\ cut' = FALSE /\ Drops(s2c)
  <2>1. Connects \in {"never", "clean"}
    BY ConstantsAssumption DEF ConstantsAssumption
  <2>2. QED
    BY <2>1 DEF Connect, Send, Close, Drops
<1>3. CallTypes' /\ StubTypes' /\ ConnTypes'
  <2>1. CallTypes'
    BY <1>1, <1>2 DEF CallTypes
  <2>2. StubTypes'
    BY <1>1, <1>2 DEF StubTypes, stubVars
  <2>3. ConnTypes'
    BY <1>1, <1>2, Bounds DEF ConnTypes, serverVars
  <2>4. QED
    BY <2>1, <2>2, <2>3
<1>4. Places' /\ Streams'
  BY <1>2 DEF Places, Streams
<1>5. Encoded'
  BY <1>1, <1>2 DEF Encoded, stubVars
<1>6. QED
  BY <1>2, <1>3, <1>4, <1>5 DEF Control

LEMMA ConnectedControl ==
    ASSUME IInv, Connected
    PROVE  /\ Control' /\ conn' = nconns + 1 /\ io' \in {"none", "send"} /\ conn' \in Conns
           /\ mTransportFilters' = FALSE /\ nconns' = nconns + 1 /\ nconns \in Nat /\ conn = 0
           /\ srv' = [srv EXCEPT ![nconns + 1] = "reading"]
           /\ UNCHANGED <<ncalls, result, netVars, serving, srvFilters, pings, executed,
                          mRcfRuntimeVersion, mTries, mRequest, mEncodedByteBuffers>>
           /\ Sendable' => Sendable
<1>1. CallTypes /\ StubTypes /\ ConnTypes /\ Places /\ Streams /\ Encoded /\ ReceivedType
  BY Types DEF IInv
<1>2. /\ phase \in {"connect", "renew"} /\ nconns < MaxConns /\ nconns' = nconns + 1
      /\ conn' = nconns + 1 /\ srv' = [srv EXCEPT ![nconns + 1] = "reading"]
      /\ UNCHANGED <<ncalls, half, cut, netVars, serving, srvFilters, pings, executed,
                     mRcfRuntimeVersion, mTries, mRequest, mEncodedByteBuffers>>
  BY DEF Connected, OpenConnection, stubVars
<1>3. conn = 0 /\ io = "none" /\ pos = 0 /\ op # "none" /\ half = FALSE /\ cut = FALSE
  BY <1>1, <1>2 DEF Places, Streams, CallTypes
<1>4. /\ result' = result /\ pos' = 0 /\ mTransportFilters' = FALSE /\ mConnected' \in BOOLEAN
      /\ \/ /\ phase = "renew" /\ phase' = "negotiate" /\ io' = "send" /\ op' = op
         \/ /\ phase = "connect" /\ phase' = "negotiate" /\ io' = "none" /\ op' = op
         \/ /\ phase = "connect" /\ op = "call" /\ op' = op
            /\ phase' = "exchange" /\ io' = "send"
         \/ /\ op = "connect" /\ op' = "none" /\ phase' = "idle" /\ io' = "none"
  <2>1. CASE phase = "renew"
    BY <2>1, <1>1, <1>3 DEF Connected, Places, StubTypes, stubVars
  <2>2. CASE phase = "connect" /\ mTransportFilters
    BY <2>2, <1>1, <1>3 DEF Connected, Places, StubTypes, stubVars
  <2>3. CASE phase = "connect" /\ ~mTransportFilters /\ mEncodedByteBuffers["user"]
    BY <2>3, <1>1, <1>3 DEF Connected, StubTypes, Proceed, Encoded, CallTypes
  <2>4. CASE phase = "connect" /\ ~mTransportFilters /\ ~mEncodedByteBuffers["user"]
    BY <2>4, <1>1, <1>3 DEF Connected, StubTypes, Proceed, Encoded, CallTypes, Ends
  <2>5. QED
    BY <1>2, <2>1, <2>2, <2>3, <2>4
<1>5. nconns + 1 \in Conns /\ nconns + 1 # 0
  BY <1>1, <1>2, Bounds DEF ConnTypes, Conns
<1>6. CallTypes'
  BY <1>1, <1>2, <1>3, <1>4 DEF CallTypes
<1>7. StubTypes'
  BY <1>1, <1>2, <1>4 DEF StubTypes
<1>8. ConnTypes'
  <2>1. conn' \in 0 .. nconns' /\ nconns' \in 0 .. MaxConns
    BY <1>1, <1>2, Bounds DEF ConnTypes
  <2>2. QED
    BY <2>1, <1>1, <1>2 DEF ConnTypes
<1>9. Places' /\ Streams'
  BY <1>1, <1>2, <1>3, <1>4, <1>5 DEF Places, Streams
<1>10. Encoded'
  BY <1>1, <1>2, <1>3, <1>4 DEF Encoded, CallTypes
<1>11. nconns \in Nat
  BY <1>1, Bounds DEF ConnTypes
<1>12. Sendable' => Sendable
  BY <1>2, <1>3, <1>4 DEF Sendable
<1>13. QED
  BY <1>2, <1>3, <1>4, <1>5, <1>6, <1>7, <1>8, <1>9, <1>10, <1>11, <1>12 DEF Control

LEMMA RequestControl ==
    ASSUME IInv, RequestFilters
    PROVE  /\ Control' /\ phase = "negotiate" /\ io = "none" /\ op' = op
           /\ mTries'["filter"] = 0 /\ mTransportFilters' = mTransportFilters
           /\ \/ phase' = "negotiate" /\ io' = "send" /\ Keeps(s2c)
              \/ phase' = "renew" /\ io' = "none" /\ Drops(s2c)
           /\ UNCHANGED <<ncalls, result, nconns, c2s, serverVars>>
           /\ Sendable' => Sendable
<1>1. CallTypes /\ StubTypes /\ ConnTypes /\ Places /\ Streams /\ Encoded /\ ReceivedType
  BY Types DEF IInv
<1> DEFINE m == Request(0, FALSE, mRcfRuntimeVersion["user"])
<1>2. /\ phase = "negotiate" /\ io = "none"
      /\ mRcfRuntimeVersion' = [mRcfRuntimeVersion EXCEPT !["filter"] = mRcfRuntimeVersion["user"]]
      /\ mTries' = [mTries EXCEPT !["filter"] = 0]
      /\ mRequest' = [mRequest EXCEPT !["filter"] = m]
      /\ mEncodedByteBuffers' = [mEncodedByteBuffers EXCEPT !["filter"] = TRUE]
      /\ UNCHANGED <<op, ncalls, result, mConnected, mTransportFilters, nconns, c2s, serverVars>>
  BY DEF RequestFilters
<1>3. half = FALSE /\ cut = FALSE
  BY <1>1, <1>2 DEF Streams, CallTypes
<1>4. /\ pos' = 0 /\ half' = FALSE /\ cut' = FALSE
      /\ \/ phase' = "negotiate" /\ io' = "send" /\ conn' = conn /\ s2c' = s2c
         \/ /\ phase' = "renew" /\ conn' = 0 /\ io' = "none"
            /\ s2c' = [c \in Conns |-> IF c = conn THEN <<>> ELSE s2c[c]]
  BY <1>3 DEF RequestFilters, Send, Close, KeepOpen
<1>5. m \in Requests /\ m.call = 0 /\ ~m.oneway /\ m.version = mRcfRuntimeVersion["user"]
  <2>1. mRcfRuntimeVersion["user"] \in Nat /\ 0 \in 0 .. MaxCalls
    BY <1>1, Bounds DEF StubTypes, Stubs
  <2>2. QED
    BY <2>1 DEF Request, Requests
<1> HIDE DEF m
<1>6. CallTypes'
  BY <1>1, <1>2, <1>4 DEF CallTypes
<1>7. StubTypes' /\ mTries'["filter"] = 0
  BY <1>1, <1>2, <1>5 DEF StubTypes, Stubs
<1>8. ConnTypes'
  BY <1>1, <1>2, <1>4, Bounds DEF ConnTypes, serverVars
<1>9. Places' /\ Streams'
  BY <1>1, <1>2, <1>4 DEF Places, Streams
<1>10. Encoded'
  BY <1>1, <1>2, <1>4, <1>5 DEF Encoded, StubTypes, Stubs, CallTypes
<1>11. Sendable' => Sendable
  BY <1>1, <1>2 DEF Sendable, StubTypes, Stubs
<1>12. QED
  BY <1>2, <1>4, <1>6, <1>7, <1>8, <1>9, <1>10, <1>11 DEF Control, Keeps, Drops

LEMMA WriteSomeControl ==
    ASSUME IInv, WriteSome PROVE Control'
<1>1. CallTypes /\ StubTypes /\ ConnTypes /\ Places /\ Streams /\ Encoded /\ ReceivedType
  BY Types DEF IInv
<1>2. /\ io = "send" /\ pos = 0 /\ conn # 0 /\ pos' = 1 /\ half' = TRUE
      /\ UNCHANGED <<op, phase, io, ncalls, result, stubVars, transportVars, cut, netVars, serverVars>>
  BY DEF WriteSome
<1>3. CallTypes' /\ Places' /\ Streams'
  BY <1>1, <1>2 DEF CallTypes, Places, Streams, transportVars
<1>4. StubTypes' /\ ConnTypes' /\ Encoded'
  <2>1. StubTypes' /\ Encoded'
    BY <1>1, <1>2 DEF StubTypes, Encoded, stubVars, transportVars
  <2>2. ConnTypes'
    BY <1>1, <1>2 DEF ConnTypes, transportVars, serverVars
  <2>3. QED
    BY <2>1, <2>2
<1>5. QED
  BY <1>3, <1>4 DEF Control

LEMMA ReadLengthControl ==
    ASSUME IInv, ReadLength PROVE Control'
<1>1. CallTypes /\ StubTypes /\ ConnTypes /\ Places /\ Streams /\ Encoded /\ ReceivedType
  BY Types DEF IInv
<1>2. /\ io = "recv" /\ pos = 0 /\ s2c[conn] # <<>> /\ pos' = 1 /\ cut' = TRUE
      /\ UNCHANGED <<op, phase, io, ncalls, result, stubVars, transportVars, half, netVars, serverVars>>
  BY DEF ReadLength
<1>3. CallTypes' /\ Places' /\ Streams'
  BY <1>1, <1>2 DEF CallTypes, Places, Streams, transportVars, netVars
<1>4. StubTypes' /\ ConnTypes' /\ Encoded'
  <2>1. StubTypes' /\ Encoded'
    BY <1>1, <1>2 DEF StubTypes, Encoded, stubVars, transportVars
  <2>2. ConnTypes'
    BY <1>1, <1>2 DEF ConnTypes, transportVars, serverVars
  <2>3. QED
    BY <2>1, <2>2
<1>5. QED
  BY <1>3, <1>4 DEF Control

LEMMA WriteRestControl ==
    ASSUME IInv, WriteRest
    PROVE  /\ Control' /\ conn \in Conns /\ io = "send" /\ pos = 1
           /\ UNCHANGED <<ncalls, mRcfRuntimeVersion, mTries, mRequest, mTransportFilters, nconns,
                          serverVars>>
           /\ Resolves /\ (Sendable' => Sendable)
           /\ \/ Drops(s2c) /\ op' = "none"
              \/ /\ mRequest[Running].oneway /\ Keeps(s2c)
                 /\ op' = "none" /\ phase' = "idle" /\ io' = "none"
              \/ /\ ~mRequest[Running].oneway /\ Keeps(s2c)
                 /\ op' = op /\ phase' = phase /\ io' = "recv"
                 /\ mEncodedByteBuffers' = [mEncodedByteBuffers EXCEPT ![Running] = FALSE]
<1>1. CallTypes /\ StubTypes /\ ConnTypes /\ Places /\ Streams /\ Encoded /\ ReceivedType
  BY Types DEF IInv
<1> DEFINE s == Running
           m == mRequest[s]
<1>2. /\ io = "send" /\ pos = 1
      /\ \/ /\ Raise(FALSE, "failed", s2c)
            /\ UNCHANGED mEncodedByteBuffers
         \/ /\ mEncodedByteBuffers' = [mEncodedByteBuffers EXCEPT ![s] = FALSE]
            /\ half' = FALSE
            /\ IF m.oneway
               THEN Ends("sent", ncalls)
               ELSE /\ io' = "recv" /\ pos' = 0
                    /\ UNCHANGED <<op, phase, result>>
            /\ UNCHANGED <<mConnected, conn, cut, s2c>>
      /\ UNCHANGED <<ncalls, mRcfRuntimeVersion, mTries, mRequest, mTransportFilters, nconns,
                     serverVars>>
  BY DEF WriteRest
<1>3. s \in Stubs /\ conn \in Conns /\ cut = FALSE /\ conn # 0
  BY <1>1, <1>2, Bounds DEF Running, Stubs, Places, ConnTypes, Conns, Streams, CallTypes
<1>4. CASE Raise(FALSE, "failed", s2c) /\ UNCHANGED mEncodedByteBuffers
  BY <1>4, <1>2, <1>3, RaiseControl DEF Keeps, Sendable
<1>5. CASE /\ mEncodedByteBuffers' = [mEncodedByteBuffers EXCEPT ![s] = FALSE]
           /\ half' = FALSE
           /\ IF m.oneway
              THEN Ends("sent", ncalls)
              ELSE /\ io' = "recv" /\ pos' = 0
                   /\ UNCHANGED <<op, phase, result>>
           /\ UNCHANGED <<mConnected, conn, cut, s2c>>
  <2>1. StubTypes' /\ ConnTypes'
    <3>1. StubTypes'
      BY <1>1, <1>2, <1>3, <1>5 DEF StubTypes
    <3>2. ConnTypes'
      BY <1>1, <1>2, <1>5 DEF ConnTypes, serverVars
    <3>3. QED
      BY <3>1, <3>2
  <2>2. m.oneway => phase = "exchange" /\ op = "call"
    BY <1>1, <1>2 DEF Encoded, Places, Running, CallTypes
  <2>3. CASE m.oneway
    <3>1. /\ op' = "none" /\ phase' = "idle" /\ io' = "none" /\ pos' = 0
          /\ result' = [result EXCEPT ![ncalls] = [kind |-> "sent", of |-> ncalls]]
      BY <1>5, <2>2, <2>3 DEF Ends
    <3>2. result' \in [Calls -> Results]
      BY <1>1, <3>1 DEF CallTypes, Results
    <3>3. CallTypes' /\ Places' /\ Streams'
      BY <3>1, <3>2, <1>1, <1>2, <1>3, <1>5 DEF CallTypes, Places, Streams
    <3>4. Encoded'
      BY <3>1, <1>1, <1>2 DEF Encoded
    <3>5. Resolves /\ ~Sendable'
      BY <2>2, <2>3, <3>1 DEF Resolves, Fails, Sendable
    <3>6. QED
      BY <2>1, <2>3, <3>1, <3>3, <3>4, <3>5, <1>2, <1>3, <1>5 DEF Control, Keeps
  <2>4. CASE ~m.oneway
    <3>1. io' = "recv" /\ pos' = 0 /\ UNCHANGED <<op, phase, result>>
      BY <1>5, <2>4
    <3>2. CallTypes' /\ Places' /\ Streams'
      <4>1. CallTypes'
        BY <3>1, <1>1, <1>2, <1>5 DEF CallTypes
      <4>2. Places'
        BY <3>1, <1>1, <1>2, <1>3, <1>5 DEF Places
      <4>3. Streams'
        BY <1>3, <1>5 DEF Streams
      <4>4. QED
        BY <4>1, <4>2, <4>3
    <3>3. Encoded'
      <4>1. s = IF phase \in {"negotiate", "renew"} THEN "filter" ELSE "user"
        BY DEF Running
      <4>2. phase \in {"negotiate", "exchange"}
        BY <1>1, <1>2 DEF Places, CallTypes
      <4> HIDE DEF s
      <4>3. CASE s = "filter"
        BY <4>1, <4>2, <4>3, <3>1, <1>1, <1>2, <1>5 DEF Encoded, StubTypes, Stubs
      <4>4. CASE s = "user"
        BY <4>1, <4>2, <4>4, <3>1, <2>4, <1>1, <1>2, <1>5 DEF Encoded, Places, StubTypes, Stubs
      <4>5. QED
        BY <4>1, <4>3, <4>4
    <3>4. Resolves /\ (Sendable' => Sendable)
      BY <3>1, <1>1, <1>2, <1>3, <1>5 DEF Resolves, Sendable, StubTypes, Stubs
    <3>5. QED
      BY <2>1, <2>4, <3>1, <3>2, <3>3, <3>4, <1>2, <1>3, <1>5 DEF Control, Keeps
  <2>5. QED
    BY <2>3, <2>4
<1>6. QED
  BY <1>2, <1>4, <1>5

LEMMA Reading ==
    ASSUME IInv, io = "recv", pos = 1
    PROVE  /\ conn \in Conns /\ conn # 0 /\ s2c[conn] \in Seq(Received) /\ s2c[conn] # <<>>
           /\ First \in Received /\ Rest \in [Conns -> Seq(Received)] /\ Rest # s2c
           /\ Rest[conn] = Tail(s2c[conn]) /\ op # "none"
           /\ \A k \in Conns : k # conn => Rest[k] = s2c[k]
           /\ Running \in Stubs /\ (Running = "filter" <=> phase = "negotiate")
           /\ (Running = "user" <=> phase = "exchange")
<1>1. CallTypes /\ StubTypes /\ ConnTypes /\ Places /\ Streams /\ Encoded /\ ReceivedType
  BY Types DEF IInv
<1>2. conn \in Conns /\ conn # 0 /\ s2c[conn] # <<>> /\ op # "none"
  BY <1>1, Bounds DEF ConnTypes, Conns, Places
<1>3. s2c[conn] \in Seq(Received)
  BY <1>1, <1>2 DEF ReceivedType
<1>4. First \in Received /\ Tail(s2c[conn]) \in Seq(Received) /\ Tail(s2c[conn]) # s2c[conn]
  <2>1. First \in Received /\ Tail(s2c[conn]) \in Seq(Received)
        /\ Len(Tail(s2c[conn])) = Len(s2c[conn]) - 1 /\ Len(s2c[conn]) \in Nat
    BY <1>2, <1>3, Taken DEF First
  <2>2. Len(Tail(s2c[conn])) # Len(s2c[conn])
    BY <2>1
  <2>3. ASSUME Tail(s2c[conn]) = s2c[conn] PROVE FALSE
    BY <2>2, <2>3, Zenon
  <2>4. QED
    BY <2>1, <2>3
<1>5. Rest \in [Conns -> Seq(Received)] /\ Rest[conn] = Tail(s2c[conn])
      /\ \A k \in Conns : k # conn => Rest[k] = s2c[k]
  BY <1>1, <1>2, <1>4 DEF Rest, ReceivedType
<1>6. Running \in Stubs /\ (Running = "filter" <=> phase = "negotiate")
      /\ (Running = "user" <=> phase = "exchange")
  BY <1>1 DEF Running, Stubs, Places, CallTypes
<1>7. QED
  BY <1>2, <1>3, <1>4, <1>5, <1>6

\* What happens to the connection, and why.
Refusal  == /\ First.kind = "mismatch" /\ ServerVersion < mRcfRuntimeVersion[Running]
            /\ op' = "none" /\ phase' = "idle" /\ io' = "none"
            /\ ~AutoVersioning
Second   == /\ First.kind = "mismatch" /\ ServerVersion < mRcfRuntimeVersion[Running]
            /\ mTries' = [mTries EXCEPT ![Running] = 1]
            /\ phase' = phase /\ io' = "send" /\ op' = op
Finished == /\ First.kind \in {"exception", "tooLong", "answer"}
            /\ \/ op' = "none" /\ phase' = "idle" /\ io' = "none"
               \/ /\ First.kind = "answer" /\ Running = "filter"
                  /\ op' = op /\ phase' = "exchange" /\ io' = "send"
Waits    == /\ First.kind = "ping" /\ UNCHANGED <<op, phase, stubVars, mTransportFilters>>
            /\ io' = "recv"

LEMMA ReadRestControl ==
    ASSUME IInv, ReadRest
    PROVE  /\ Control' /\ io = "recv" /\ pos = 1 /\ UNCHANGED <<ncalls, nconns, c2s, serverVars>>
           /\ (Sendable' => Sendable)
           /\ Resolves \/ (Returns /\ Keeps(Rest))
           /\ \/ Drops(Rest)
              \/ Keeps(Rest) /\ (Refusal \/ Second \/ Finished \/ Waits)
           /\ \/ Drops(Rest)
              \/ mTransportFilters' = (IF First.kind = "answer" /\ Running = "filter" THEN TRUE
                                      ELSE mTransportFilters)
<1>1. CallTypes /\ StubTypes /\ ConnTypes /\ Places /\ Streams /\ Encoded /\ ReceivedType
  BY Types DEF IInv
<1>2. io = "recv" /\ pos = 1 /\ UNCHANGED <<ncalls, nconns, c2s, serverVars>>
  BY DEF ReadRest
<1>3. /\ conn \in Conns /\ conn # 0 /\ First \in Received /\ Rest # s2c /\ op # "none"
      /\ Running \in Stubs /\ (Running = "filter" <=> phase = "negotiate")
      /\ (Running = "user" <=> phase = "exchange")
  BY <1>2, Reading
<1> DEFINE s == Running
           Frame == UNCHANGED <<mRcfRuntimeVersion, mTries, mRequest, mEncodedByteBuffers,
                                mTransportFilters>>
<1>4. half = FALSE
  BY <1>1, <1>2 DEF Streams, CallTypes
<1>5. \/ Raise(FALSE, "failed", Rest) /\ Frame
      \/ First.kind \in {"exception", "tooLong"} /\ Raise(TRUE, "remote", Rest) /\ Frame
      \/ First.kind = "mismatch" /\ VersionMismatch(Rest)
      \/ First.kind = "ping" /\ PingBack(Rest)
      \/ First.kind = "answer" /\ Running = "filter" /\ FiltersGranted(Rest)
      \/ /\ First.kind = "answer" /\ Running = "user"
         /\ Ends("returned", First.call) /\ KeepOpen(Rest) /\ mConnected' = mConnected /\ Frame
  <2>1. CASE ~Decodes(First, Running)
    BY <2>1 DEF ReadRest, First, Rest
  <2>2. CASE Decodes(First, Running) /\ First.kind = "mismatch"
    BY <2>2 DEF ReadRest, First, Rest
  <2>3. CASE Decodes(First, Running) /\ First.kind = "ping"
    BY <2>3 DEF ReadRest, First, Rest
  <2>4. CASE Decodes(First, Running) /\ First.kind \in {"exception", "tooLong"}
    BY <2>4 DEF ReadRest, First, Rest
  <2>5. CASE Decodes(First, Running) /\ First.kind = "answer" /\ Running = "filter"
    BY <2>5 DEF ReadRest, First, Rest
  <2>6. CASE Decodes(First, Running) /\ First.kind = "answer" /\ Running = "user"
    BY <2>6 DEF ReadRest, First, Rest
  <2>7. QED
    BY <1>3, <2>1, <2>2, <2>3, <2>4, <2>5, <2>6 DEF Received, Stubs
<1>6. CASE Raise(FALSE, "failed", Rest) /\ Frame
  BY <1>2, <1>3, <1>6, RaiseControl DEF Keeps, Sendable
<1>7. CASE First.kind \in {"exception", "tooLong"} /\ Raise(TRUE, "remote", Rest) /\ Frame
  BY <1>2, <1>3, <1>7, RaiseControl DEF Finished, Sendable
<1>8. CASE First.kind = "mismatch" /\ VersionMismatch(Rest)
  <2>1. CASE ServerVersion < mRcfRuntimeVersion[s] /\ AutoVersioning /\ mTries[s] = 0
    <3> DEFINE m == [mRequest[s] EXCEPT !.version = ServerVersion]
    <3>1. /\ mRcfRuntimeVersion' = [mRcfRuntimeVersion EXCEPT ![s] = ServerVersion]
          /\ mTries' = [mTries EXCEPT ![s] = 1]
          /\ mRequest' = [mRequest EXCEPT ![s] = m]
          /\ mEncodedByteBuffers' = [mEncodedByteBuffers EXCEPT ![s] = TRUE]
          /\ Send(s, m.oneway, Rest)
          /\ UNCHANGED <<op, result, mConnected, mTransportFilters>>
      BY <1>8, <2>1 DEF VersionMismatch
    <3>2. /\ pos' = 0 /\ half' = FALSE /\ cut' = FALSE
          /\ \/ /\ phase' = (IF s = "user" THEN "exchange" ELSE "negotiate") /\ io' = "send"
                /\ conn' = conn /\ s2c' = Rest
             \/ /\ phase' = (IF s = "user" THEN "connect" ELSE "renew") /\ io' = "none"
                /\ Drops(Rest)
      BY <3>1, <1>3, <1>4 DEF Send, Close, KeepOpen, Drops
    <3>3. m \in Requests /\ m.call = mRequest[s].call /\ m.oneway = mRequest[s].oneway
          /\ m.version = ServerVersion
      BY <1>1, <1>3, Bounds DEF StubTypes, Requests
    <3> HIDE DEF m
    <3>4. CallTypes'
      BY <3>1, <3>2, <1>1, <1>2, <1>3 DEF CallTypes
    <3>5. StubTypes'
      BY <3>1, <3>3, <1>1, <1>3, Bounds DEF StubTypes
    <3>6. ConnTypes'
      <4>1. conn' \in 0 .. nconns'
        BY <3>2, <1>1, <1>2, Bounds DEF ConnTypes, Drops
      <4>2. QED
        BY <4>1, <1>1, <1>2 DEF ConnTypes, serverVars
    <3>7. Places' /\ Streams'
      BY <3>1, <3>2, <1>1, <1>2, <1>3 DEF Places, Streams, Drops, Stubs
    <3>8. Encoded'
      <4>1. CASE s = "filter"
        BY <4>1, <3>1, <3>2, <3>3, <1>1, <1>2, <1>3, <2>1 DEF Encoded, StubTypes, Stubs, Places
      <4>2. CASE s = "user"
        BY <4>2, <3>1, <3>2, <3>3, <1>1, <1>2, <1>3, <2>1 DEF Encoded, StubTypes, Stubs, Places
      <4>3. QED
        BY <4>1, <4>2, <1>3 DEF Stubs
    <3>9. Drops(Rest) \/ (Keeps(Rest) /\ Second)
      <4>1. phase = IF s = "user" THEN "exchange" ELSE "negotiate"
        BY <1>3 DEF Stubs
      <4>2. QED
        BY <4>1, <3>1, <3>2, <1>8, <2>1 DEF Keeps, Second
    <3>10. Sendable' => Sendable
      BY <3>1, <1>1, <1>3, <2>1 DEF Sendable, StubTypes, Stubs
    <3>11. QED
      BY <3>1, <3>4, <3>5, <3>6, <3>7, <3>8, <3>9, <3>10, <1>2, <1>8 DEF Control, Resolves
  <2>2. CASE ServerVersion < mRcfRuntimeVersion[s] /\ ~(AutoVersioning /\ mTries[s] = 0)
    <3>1. Raise(TRUE, "versioning", Rest) /\ Frame
      BY <1>8, <2>2 DEF VersionMismatch
    <3>2. ~AutoVersioning
      BY <1>1, <1>3, <2>2, Bounds DEF Encoded, StubTypes
    <3>3. QED
      BY <3>1, <3>2, <2>2, <1>2, <1>3, <1>8, RaiseControl DEF Refusal, Sendable
  <2>3. CASE ~(ServerVersion < mRcfRuntimeVersion[s])
    <3>1. Raise(FALSE, "failed", Rest) /\ Frame
      BY <1>8, <2>3 DEF VersionMismatch
    <3>2. QED
      BY <3>1, <1>2, <1>3, RaiseControl DEF Keeps, Sendable
  <2>4. QED
    BY <2>1, <2>2, <2>3
<1>9. CASE First.kind = "ping" /\ PingBack(Rest)
  <2>1. /\ io' = "recv" /\ pos' = 0 /\ conn' = conn /\ half' = FALSE /\ cut' = FALSE /\ s2c' = Rest
        /\ UNCHANGED <<op, phase, result, stubVars, mTransportFilters>>
    BY <1>3, <1>4, <1>9 DEF PingBack, KeepOpen
  <2>2. CallTypes'
    BY <2>1, <1>1, <1>2 DEF CallTypes
  <2>3. Places' /\ Streams'
    BY <2>1, <1>1, <1>2 DEF Places, Streams
  <2>4. StubTypes' /\ Encoded'
    BY <2>1, <1>1, <1>2 DEF StubTypes, Encoded, stubVars
  <2>5. ConnTypes'
    BY <2>1, <1>1, <1>2 DEF ConnTypes, serverVars
  <2>6. Sendable' => Sendable
    BY <2>1 DEF Sendable, stubVars
  <2>7. QED
    BY <2>1, <2>2, <2>3, <2>4, <2>5, <2>6, <1>2, <1>9 DEF Control, Keeps, Waits, Resolves
<1>10. CASE First.kind = "answer" /\ Running = "filter" /\ FiltersGranted(Rest)
  <2>1. /\ mTransportFilters' = TRUE /\ s2c' = Rest /\ cut' = FALSE /\ conn' = conn /\ half' = FALSE
        /\ UNCHANGED <<mRcfRuntimeVersion, mTries, mRequest, mEncodedByteBuffers>>
        /\ mConnected' = TRUE /\ pos' = 0 /\ result' = result
        /\ \/ op' = op /\ op = "call" /\ phase' = "exchange" /\ io' = "send"
           \/ op = "connect" /\ op' = "none" /\ phase' = "idle" /\ io' = "none"
    <3>1. mEncodedByteBuffers["user"] <=> op = "call"
      BY <1>1, <1>3, <1>10 DEF Encoded, CallTypes
    <3>2. QED
      BY <3>1, <1>1, <1>3, <1>4, <1>10 DEF FiltersGranted, Proceed, KeepOpen, Ends, CallTypes
  <2>2. CallTypes'
    BY <2>1, <1>1, <1>2 DEF CallTypes
  <2>3. Places' /\ Streams'
    BY <2>1, <1>1, <1>2, <1>3 DEF Places, Streams
  <2>4. StubTypes' /\ Encoded'
    BY <2>1, <1>1, <1>2, <1>3, <1>10 DEF StubTypes, Encoded
  <2>5. ConnTypes'
    BY <2>1, <1>1, <1>2 DEF ConnTypes, serverVars
  <2>6. Sendable' => Sendable
    BY <2>1 DEF Sendable
  <2>7. QED
    BY <2>1, <2>2, <2>3, <2>4, <2>5, <2>6, <1>2, <1>10 DEF Control, Keeps, Finished, Resolves
<1>11. CASE /\ First.kind = "answer" /\ Running = "user"
            /\ Ends("returned", First.call) /\ KeepOpen(Rest) /\ mConnected' = mConnected /\ Frame
  <2>1. /\ s2c' = Rest /\ cut' = FALSE /\ conn' = conn /\ half' = FALSE /\ op = "call"
        /\ op' = "none" /\ phase' = "idle" /\ io' = "none" /\ pos' = 0
        /\ result' = [result EXCEPT ![ncalls] = [kind |-> "returned", of |-> First.call]]
    BY <1>1, <1>3, <1>4, <1>11 DEF KeepOpen, Ends, Places
  <2>2. CallTypes'
    <3>1. result' \in [Calls -> Results]
      BY <2>1, <1>1, <1>3 DEF CallTypes, Results, Received
    <3>2. QED
      BY <2>1, <3>1, <1>1, <1>2 DEF CallTypes
  <2>3. Places' /\ Streams'
    BY <2>1, <1>1, <1>2, <1>3 DEF Places, Streams
  <2>4. StubTypes' /\ Encoded'
    BY <2>1, <1>1, <1>2, <1>3, <1>11 DEF StubTypes, Encoded
  <2>5. ConnTypes'
    BY <2>1, <1>1, <1>2 DEF ConnTypes, serverVars
  <2>6. ~Sendable' /\ Returns
    BY <2>1, <1>11 DEF Sendable, Returns
  <2>7. QED
    BY <2>1, <2>2, <2>3, <2>4, <2>5, <2>6, <1>2, <1>11 DEF Control, Keeps, Finished
<1>12. QED
  BY <1>5, <1>6, <1>7, <1>8, <1>9, <1>10, <1>11

-----------------------------------------------------------------------------
(***************************************************************************)
(* The connections, when the client reads, closes or leaves them alone     *)
(***************************************************************************)
ClientSide(in) == /\ UNCHANGED <<nconns, c2s, serverVars>>
                  /\ Keeps(in) \/ Drops(in)
                  /\ in = s2c \/ (in = Rest /\ io = "recv" /\ pos = 1)
                  /\ ncalls' \in {ncalls, ncalls + 1}

LEMMA ClientReceived ==
    ASSUME IInv, NEW in, ClientSide(in)
    PROVE  /\ ReceivedType' /\ SentType'
           /\ \A k \in Conns :
                  /\ k # conn' => s2c'[k] = <<>>
                  /\ \/ s2c'[k] = s2c[k]
                     \/ s2c'[k] = <<>>
                     \/ /\ Len(s2c'[k]) = Len(s2c[k]) - 1
                        /\ \A i \in 1 .. Len(s2c'[k]) : s2c'[k][i] = s2c[k][i + 1]
<1>1. ConnTypes /\ ReceivedType /\ SentType /\ \A k \in Conns : k # conn => s2c[k] = <<>>
  BY Types DEF IInv, PerConn, Carried
<1>2. /\ in \in [Conns -> Seq(Received)]
      /\ \A k \in Conns : k # conn => in[k] = <<>>
      /\ \A k \in Conns : \/ in[k] = s2c[k]
                          \/ /\ Len(in[k]) = Len(s2c[k]) - 1
                             /\ \A i \in 1 .. Len(in[k]) : in[k][i] = s2c[k][i + 1]
  <2>1. CASE in = s2c
    BY <2>1, <1>1 DEF ReceivedType
  <2>2. CASE in = Rest /\ io = "recv" /\ pos = 1
    <3>1. /\ conn \in Conns /\ s2c[conn] \in Seq(Received) /\ s2c[conn] # <<>>
          /\ Rest \in [Conns -> Seq(Received)]
          /\ Rest[conn] = Tail(s2c[conn])
          /\ \A k \in Conns : k # conn => Rest[k] = s2c[k]
      BY <2>2, Reading
    <3>2. /\ Len(Rest[conn]) = Len(s2c[conn]) - 1
          /\ \A i \in 1 .. Len(Rest[conn]) : Rest[conn][i] = s2c[conn][i + 1]
      <4>1. /\ Len(Tail(s2c[conn])) = Len(s2c[conn]) - 1
            /\ \A i \in 1 .. Len(s2c[conn]) - 1 : Tail(s2c[conn])[i] = s2c[conn][i + 1]
        BY <3>1, Taken
      <4>2. QED
        BY <3>1, <4>1
    <3>3. QED
      BY <2>2, <3>1, <3>2, <1>1
  <2>3. QED
    BY <2>1, <2>2 DEF ClientSide
<1>3. CASE Keeps(in)
  BY <1>1, <1>2, <1>3 DEF Keeps, ReceivedType, SentType, ClientSide
<1>4. CASE Drops(in)
  <2>1. \A k \in Conns : s2c'[k] = <<>>
    BY <1>2, <1>4 DEF Drops
  <2>2. ReceivedType'
    BY <2>1, <1>4, Empty DEF ReceivedType, Drops
  <2>3. QED
    BY <2>1, <2>2, <1>1 DEF SentType, ClientSide
<1>5. QED
  BY <1>3, <1>4 DEF ClientSide

LEMMA ClientConns ==
    ASSUME IInv, NEW in, ClientSide(in) PROVE PerConn'
<1>1. ConnTypes /\ ReceivedType /\ SentType /\ CallTypes
  BY Types DEF IInv
<1>2. UNCHANGED <<nconns, c2s, srv, serving, srvFilters>> /\ ncalls <= ncalls' /\ ncalls' \in Nat
  BY <1>1, Bounds DEF ClientSide, serverVars, CallTypes
<1>3. SUFFICES ASSUME NEW k \in Conns PROVE Carried(k)' /\ Switch(k)'
  BY DEF PerConn
<1>4. Carried(k) /\ Switch(k)
  BY DEF IInv, PerConn
<1>5. Switch(k)'
  BY <1>2, <1>4 DEF Switch, Granted, Refused
<1>6. /\ ReceivedType' /\ SentType' /\ (k # conn' => s2c'[k] = <<>>)
      /\ \/ s2c'[k] = s2c[k]
         \/ s2c'[k] = <<>>
         \/ /\ Len(s2c'[k]) = Len(s2c[k]) - 1
            /\ \A i \in 1 .. Len(s2c'[k]) : s2c'[k][i] = s2c[k][i + 1]
  BY ClientReceived
<1>7. \A i \in DOMAIN s2c'[k] : s2c'[k][i].kind = "tooLong" =>
          i = Len(s2c'[k]) /\ srv'[k] = "closed"
  <2>1. s2c[k] \in Seq(Received) /\ s2c'[k] \in Seq(Received)
    BY <1>1, <1>6 DEF ReceivedType
  <2>2. /\ DOMAIN s2c[k] = 1 .. Len(s2c[k]) /\ Len(s2c[k]) \in Nat
        /\ DOMAIN s2c'[k] = 1 .. Len(s2c'[k]) /\ Len(s2c'[k]) \in Nat
    BY <2>1, Elements
  <2>3. \A i \in 1 .. Len(s2c[k]) : s2c[k][i].kind = "tooLong" => i = Len(s2c[k]) /\ srv[k] = "closed"
    BY <1>4, <2>2 DEF Carried
  <2>4. CASE s2c'[k] = s2c[k]
    BY <2>2, <2>3, <2>4, <1>2
  <2>5. CASE s2c'[k] = <<>>
    BY <2>5, Empty
  <2>6. CASE /\ Len(s2c'[k]) = Len(s2c[k]) - 1
             /\ \A i \in 1 .. Len(s2c'[k]) : s2c'[k][i] = s2c[k][i + 1]
    <3>1. \A i \in DOMAIN s2c'[k] : i + 1 \in 1 .. Len(s2c[k]) /\ s2c'[k][i] = s2c[k][i + 1]
                                   /\ (i + 1 = Len(s2c[k]) => i = Len(s2c'[k]))
      BY <2>2, <2>6
    <3>2. QED
      BY <2>3, <3>1, <1>2
  <2>7. QED
    BY <1>6, <2>4, <2>5, <2>6
<1>8. \A i \in DOMAIN c2s[k] : c2s[k][i].request.call \in Nat
  <2>1. c2s[k] \in Seq(Sent)
    BY <1>1 DEF SentType
  <2>2. \A i \in DOMAIN c2s[k] : c2s[k][i] \in Sent
    BY <2>1, Elements
  <2>3. QED
    BY <2>2, Bounds DEF Sent, Requests
<1>9. serving[k].call \in Nat
  BY <1>1, Bounds DEF ConnTypes, Requests
<1>10. Carried(k)'
  <2>1. \A i \in DOMAIN c2s'[k] : c2s'[k][i].request.call <= ncalls'
    BY <1>1, <1>2, <1>4, <1>8, Bounds DEF Carried, CallTypes
  <2>2. srv'[k] = "serving" => serving'[k].call <= ncalls'
    BY <1>1, <1>2, <1>4, <1>9, Bounds DEF Carried, CallTypes
  <2>3. QED
    BY <2>1, <2>2, <1>2, <1>4, <1>6, <1>7 DEF Carried
<1>11. QED
  BY <1>5, <1>10

\* No copy of a request comes or goes with them.
SameRequests == /\ UNCHANGED <<c2s, serving, executed>>
                /\ \A k \in Conns : srv'[k] = "serving" <=> srv[k] = "serving"

LEMMA SameCopies ==
    ASSUME SameRequests, NEW c
    PROVE  (OneCopy(c) => OneCopy(c)') /\ (NoCopy(c) => NoCopy(c)') /\ executed' = executed
<1>1. \A k \in Conns : \A i : Copy(c, k, i)' <=> Copy(c, k, i)
  BY DEF Copy, Refused, SameRequests
<1>2. c2s' = c2s
  BY DEF SameRequests
<1>3. OneCopy(c) => OneCopy(c)'
  BY <1>1, <1>2 DEF OneCopy
<1>4. NoCopy(c) => NoCopy(c)'
  BY <1>1, <1>2 DEF NoCopy
<1>5. QED
  BY <1>3, <1>4 DEF SameRequests

\* A call that has not been made has no copy.
LEMMA NoCopyYet ==
    ASSUME IInv, NEW c \in Nat, c > ncalls PROVE NoCopy(c)
<1>1. ConnTypes /\ SentType /\ CallTypes /\ PerConn
  BY Types DEF IInv
<1>2. SUFFICES ASSUME NEW k \in Conns, NEW i \in 0 .. Len(c2s[k]) PROVE ~Copy(c, k, i)
  BY DEF NoCopy
<1>3. Carried(k) /\ c2s[k] \in Seq(Sent) /\ ncalls \in Nat
  BY <1>1, Bounds DEF PerConn, SentType, CallTypes
<1>4. CASE i = 0
  <2>1. srv[k] = "serving" => serving[k].call <= ncalls
    BY <1>3 DEF Carried
  <2>2. QED
    BY <2>1, <1>3, <1>4 DEF Copy
<1>5. CASE i # 0
  <2>1. i \in DOMAIN c2s[k]
    BY <1>3, <1>5, Elements
  <2>2. c2s[k][i].request.call <= ncalls
    BY <2>1, <1>3 DEF Carried
  <2>3. QED
    BY <2>2, <1>3, <1>5 DEF Copy
<1>6. QED
  BY <1>4, <1>5

LEMMA ClientOnce ==
    ASSUME IInv, SameRequests, ncalls' = ncalls, Sendable' => Sendable,
           \A c \in Calls : c > ncalls => result'[c] = result[c]
    PROVE  Once' /\ Untouched'
<1>1. /\ executed' = executed
      /\ \A c : (OneCopy(c) => OneCopy(c)') /\ (NoCopy(c) => NoCopy(c)')
  BY SameCopies
<1>2. Once'
  <2>1. SUFFICES ASSUME NEW c \in Calls
                 PROVE  (/\ OneCopy(c) /\ executed[c] <= 1
                         /\ executed[c] # 0 => NoCopy(c)
                         /\ c > ncalls => executed[c] = 0 /\ result[c].kind = "none")'
    BY DEF Once
  <2>2. /\ OneCopy(c) /\ executed[c] <= 1
        /\ executed[c] # 0 => NoCopy(c)
        /\ c > ncalls => executed[c] = 0 /\ result[c].kind = "none"
    BY DEF IInv, Once
  <2>3. QED
    BY <1>1, <2>2
<1>3. Untouched'
  <2>1. SUFFICES ASSUME Sendable' PROVE NoCopy(ncalls)' /\ executed'[ncalls'] = 0
    BY DEF Untouched, Sendable
  <2>2. NoCopy(ncalls) /\ executed[ncalls] = 0
    BY <2>1 DEF IInv, Untouched, Sendable
  <2>3. PICK n : n = ncalls
    OBVIOUS
  <2>4. NoCopy(n)'
    BY <1>1, <2>2, <2>3
  <2>5. n = ncalls'
    BY <2>3
  <2>6. NoCopy(ncalls)'
    BY <2>4, <2>5 DEF NoCopy, Copy
  <2>7. QED
    BY <1>1, <2>2, <2>6
<1>4. QED
  BY <1>2, <1>3

LEMMA ResolvesLater ==
    ASSUME CallTypes, ncalls' = ncalls, Resolves \/ Returns
    PROVE  \A c \in Calls : c > ncalls => result'[c] = result[c]
<1>1. \A c \in Calls : c > ncalls => c # ncalls
  BY Bounds DEF CallTypes, Calls
<1>2. QED
  BY <1>1 DEF CallTypes, Resolves, Fails, Returns

LEMMA SameConn ==
    ASSUME Keeps(s2c), UNCHANGED <<c2s, serverVars>>
    PROVE  /\ conn # 0 /\ Quiet(conn) => conn' # 0 /\ Quiet(conn)' /\ Leftover(conn)'
           /\ conn # 0 /\ Leftover(conn) => Leftover(conn)'
           /\ \A m : Awaits(conn, m) => Awaits(conn, m)'
  BY DEF Keeps, serverVars, Quiet, Leftover, Awaits, Done, Refused, RefusalsRetried

LEMMA NoConn == ASSUME conn' = 0 PROVE Exchange' /\ Agreed'
  BY DEF Exchange, Agreed

\* A request that is newer than the server is refused.
LEMMA RefusedNewer ==
    ASSUME NEW m \in Requests, ServerVersion < m.version PROVE Refused(m)
  BY Bounds DEF Refused, HeaderVersion, Requests

LEMMA SameAgreed ==
    ASSUME Agreed, Keeps(s2c), UNCHANGED <<serverVars, mTransportFilters>>,
           phase = "negotiate" /\ io = "recv" => phase' = "negotiate" /\ io' = "recv"
    PROVE  Agreed'
  BY DEF Agreed, Keeps, serverVars, Granted, AnswerComing

LEMMA Together ==
    ASSUME Control', PerConn', Exchange', Once', Untouched', Agreed', SentType', ReceivedType'
    PROVE  IInv'
<1>1. TypeOK'
  BY Types, PTL DEF Control
<1>2. QED
  BY <1>1 DEF IInv, Control

LEMMA CallStep == ASSUME IInv, NEW kind \in Kinds, Call(kind) PROVE IInv'
<1>1. CallTypes /\ Places
  BY Types DEF IInv
<1>2. /\ Control' /\ op = "none" /\ ncalls' = ncalls + 1 /\ mTries'["user"] = 0
      /\ op' = "call" /\ UNCHANGED <<mTransportFilters, nconns, c2s, serverVars>>
      /\ \A c \in Calls : c # ncalls' => result'[c] = result[c]
      /\ Drops(s2c) \/ (Keeps(s2c) /\ phase' = "exchange" /\ io' = "send")
  BY CallControl
<1>3. PerConn' /\ SentType' /\ ReceivedType'
  BY <1>2, ClientConns, ClientReceived DEF ClientSide
<1>4. phase = "idle" /\ io = "none" /\ ncalls \in Nat
  BY <1>1, <1>2, Bounds DEF Places, CallTypes
<1>5. Exchange' /\ Agreed'
  <2>1. CASE conn' = 0
    BY <2>1, NoConn
  <2>2. CASE conn' # 0
    <3>1. Keeps(s2c) /\ phase' = "exchange" /\ io' = "send" /\ conn # 0
      BY <1>2, <2>2 DEF Keeps, Drops
    <3>2. Quiet(conn)
      BY <3>1, <1>4 DEF IInv, Exchange
    <3>3. Quiet(conn)' /\ Leftover(conn)'
      BY <3>1, <3>2, <1>2, SameConn
    <3>4. Exchange'
      BY <3>1, <3>3 DEF Exchange
    <3>5. Agreed'
      BY <3>1, <1>2, <1>4, SameAgreed DEF IInv
    <3>6. QED
      BY <3>4, <3>5
  <2>3. QED
    BY <2>1, <2>2
<1>6. /\ executed' = executed
      /\ \A c : (OneCopy(c) => OneCopy(c)') /\ (NoCopy(c) => NoCopy(c)')
  BY <1>2, SameCopies DEF SameRequests, serverVars
<1>7. Once'
  <2>1. SUFFICES ASSUME NEW c \in Calls
                 PROVE  (/\ OneCopy(c) /\ executed[c] <= 1
                         /\ executed[c] # 0 => NoCopy(c)
                         /\ c > ncalls => executed[c] = 0 /\ result[c].kind = "none")'
    BY DEF Once
  <2>2. /\ OneCopy(c) /\ executed[c] <= 1
        /\ executed[c] # 0 => NoCopy(c)
        /\ c > ncalls => executed[c] = 0 /\ result[c].kind = "none"
    BY DEF IInv, Once
  <2>3. c > ncalls' => c > ncalls /\ c # ncalls'
    BY <1>2, <1>4 DEF Calls
  <2>4. QED
    BY <1>2, <1>6, <2>2, <2>3
<1>8. Untouched'
  <2>1. PICK n \in Calls : n = ncalls + 1
    BY <1>2, <1>4, Control' DEF Control, CallTypes, Calls
  <2>2. NoCopy(n) /\ executed[n] = 0
    <3>1. n \in Nat /\ n > ncalls
      BY <2>1, <1>4
    <3>2. QED
      BY <3>1, NoCopyYet DEF IInv, Once
  <2>3. NoCopy(n)' /\ executed'[n] = 0 /\ n = ncalls'
    BY <1>2, <1>6, <2>1, <2>2
  <2>4. QED
    BY <2>3 DEF Untouched, NoCopy, Copy
<1>9. QED
  BY <1>2, <1>3, <1>5, <1>7, <1>8, Together

LEMMA ConnectStep == ASSUME IInv, Connects # "any", Connect PROVE IInv'
<1>1. /\ Control' /\ Drops(s2c) /\ UNCHANGED <<ncalls, result, stubVars, nconns, c2s, serverVars>>
      /\ op' = "connect" /\ ~mEncodedByteBuffers["user"]
  BY ConnectControl
<1>2. PerConn' /\ SentType' /\ ReceivedType'
  BY <1>1, ClientConns, ClientReceived DEF ClientSide
<1>3. Exchange' /\ Agreed'
  BY <1>1, NoConn DEF Drops
<1>4. Once' /\ Untouched'
  BY <1>1, ClientOnce DEF SameRequests, serverVars, Sendable
<1>5. QED
  BY <1>1, <1>2, <1>3, <1>4, Together

LEMMA RequestFiltersStep == ASSUME IInv, RequestFilters PROVE IInv'
<1>1. /\ Control' /\ phase = "negotiate" /\ io = "none" /\ op' = op
      /\ mTries'["filter"] = 0 /\ mTransportFilters' = mTransportFilters
      /\ \/ phase' = "negotiate" /\ io' = "send" /\ Keeps(s2c)
         \/ phase' = "renew" /\ io' = "none" /\ Drops(s2c)
      /\ UNCHANGED <<ncalls, result, nconns, c2s, serverVars>>
      /\ Sendable' => Sendable
  BY RequestControl
<1>2. PerConn' /\ SentType' /\ ReceivedType'
  BY <1>1, ClientConns, ClientReceived DEF ClientSide
<1>3. Exchange' /\ Agreed'
  <2>1. CASE conn' = 0
    BY <2>1, NoConn
  <2>2. CASE conn' # 0
    <3>1. Keeps(s2c) /\ phase' = "negotiate" /\ io' = "send" /\ conn # 0
      BY <1>1, <2>2 DEF Keeps, Drops
    <3>2. Quiet(conn)
      BY <3>1, <1>1 DEF IInv, Exchange
    <3>3. Quiet(conn)' /\ Leftover(conn)'
      BY <3>1, <3>2, <1>1, SameConn
    <3>4. Exchange'
      BY <3>1, <3>3 DEF Exchange
    <3>5. Agreed'
      BY <3>1, <1>1, SameAgreed DEF IInv
    <3>6. QED
      BY <3>4, <3>5
  <2>3. QED
    BY <2>1, <2>2
<1>4. Once' /\ Untouched'
  BY <1>1, ClientOnce DEF SameRequests, serverVars
<1>5. QED
  BY <1>1, <1>2, <1>3, <1>4, Together

LEMMA InterruptStep == ASSUME IInv, Interrupt PROVE IInv' /\ Resolves
<1>1. /\ phase \in {"connect", "renew"} \/ io # "none"
      /\ Raise(FALSE, "failed", s2c)
      /\ UNCHANGED <<ncalls, mRcfRuntimeVersion, mTries, mRequest, mEncodedByteBuffers,
                     mTransportFilters, nconns, c2s, serverVars>>
  BY DEF Interrupt
<1>2. /\ Control' /\ op' = "none" /\ phase' = "idle" /\ io' = "none" /\ Resolves
      /\ Drops(s2c) \/ (Keeps(s2c) /\ conn = 0)
  BY <1>1, RaiseControl
<1>3. PerConn' /\ SentType' /\ ReceivedType'
  BY <1>1, <1>2, ClientConns, ClientReceived DEF ClientSide
<1>4. Exchange' /\ Agreed'
  BY <1>2, NoConn DEF Drops, Keeps
<1>5. Once' /\ Untouched'
  <2>1. \A c \in Calls : c > ncalls => result'[c] = result[c]
    BY <1>1, <1>2, ResolvesLater, Types DEF IInv
  <2>2. QED
    BY <1>1, <1>2, <2>1, ClientOnce DEF SameRequests, serverVars, Sendable
<1>6. QED
  BY <1>2, <1>3, <1>4, <1>5, Together

LEMMA WriteSomeStep == ASSUME IInv, WriteSome \/ ReadLength PROVE IInv' /\ result' = result
<1>1. Control'
  BY WriteSomeControl, ReadLengthControl
<1>2. /\ UNCHANGED <<op, phase, io, ncalls, result, stubVars, transportVars, netVars, serverVars>>
      /\ Keeps(s2c)
  BY DEF WriteSome, ReadLength, Keeps, transportVars, netVars
<1>3. PerConn' /\ SentType' /\ ReceivedType'
  BY <1>2, ClientConns, ClientReceived DEF ClientSide, transportVars, netVars
<1>4. Exchange'
  <2>1. Exchange
    BY DEF IInv
  <2>2. QED
    BY <2>1, <1>2 DEF Exchange, stubVars, transportVars, netVars, serverVars, Quiet, Leftover,
       Awaits, Done, Refused, RefusalsRetried, Running
<1>5. Agreed'
  BY <1>2, SameAgreed DEF IInv, transportVars
<1>6. Once' /\ Untouched'
  BY <1>2, ClientOnce DEF SameRequests, serverVars, Sendable, stubVars, netVars
<1>7. QED
  BY <1>1, <1>2, <1>3, <1>4, <1>5, <1>6, Together

LEMMA ConnectedStep == ASSUME IInv, Connected PROVE IInv' /\ UNCHANGED <<result, executed>>
<1>1. CallTypes /\ StubTypes /\ ConnTypes /\ ReceivedType /\ SentType /\ PerConn
  BY Types DEF IInv
<1>2. /\ Control' /\ conn' = nconns + 1 /\ io' \in {"none", "send"} /\ conn' \in Conns
      /\ mTransportFilters' = FALSE /\ nconns' = nconns + 1 /\ nconns \in Nat /\ conn = 0
      /\ srv' = [srv EXCEPT ![nconns + 1] = "reading"]
      /\ UNCHANGED <<ncalls, result, netVars, serving, srvFilters, pings, executed,
                     mRcfRuntimeVersion, mTries, mRequest, mEncodedByteBuffers>>
      /\ Sendable' => Sendable
  BY ConnectedControl
<1>3. PICK n \in Conns : n = nconns + 1
  BY <1>2
<1>4. /\ \A k \in Conns : k # n => srv'[k] = srv[k]
      /\ srv'[n] = "reading" /\ srv[n] = "none" /\ n # 0 /\ conn' = n
      /\ UNCHANGED <<c2s, s2c, serving, srvFilters, executed, ncalls>>
      /\ c2s[n] = <<>> /\ ~srvFilters[n]
      /\ \A k \in Conns : s2c[k] = <<>>
  <2>1. n > nconns /\ n # 0
    BY <1>2, <1>3
  <2>2. Carried(n) /\ \A k \in Conns : k # 0
    BY <1>1 DEF PerConn, Conns
  <2>3. srv[n] = "none" /\ c2s[n] = <<>> /\ ~srvFilters[n]
    BY <2>1, <2>2 DEF Carried
  <2>4. \A k \in Conns : s2c[k] = <<>>
    BY <1>1, <1>2, <2>2 DEF PerConn, Carried
  <2>5. QED
    BY <1>1, <1>2, <1>3, <2>1, <2>3, <2>4 DEF ConnTypes, netVars
<1>5. PerConn'
  <2>1. SUFFICES ASSUME NEW k \in Conns PROVE Carried(k)' /\ Switch(k)'
    BY DEF PerConn
  <2>2. Carried(k) /\ Switch(k)
    BY <1>1 DEF PerConn
  <2>3. k > nconns' <=> srv'[k] = "none"
    <3>1. CASE k = n
      BY <3>1, <1>2, <1>3, <1>4
    <3>2. CASE k # n
      <4>1. k > nconns' <=> k > nconns
        BY <3>2, <1>2, <1>3 DEF Conns
      <4>2. QED
        BY <4>1, <3>2, <2>2, <1>4 DEF Carried
    <3>3. QED
      BY <3>1, <3>2
  <2>4. CASE k = n
    BY <2>2, <2>3, <2>4, <1>4 DEF Carried, Switch
  <2>5. CASE k # n
    BY <2>2, <2>3, <2>5, <1>4 DEF Carried, Switch, Granted, Refused
  <2>6. QED
    BY <2>4, <2>5
<1>6. Quiet(n)' /\ Leftover(n)'
  BY <1>4, Empty DEF Quiet, Leftover
<1>7. Exchange'
  BY <1>2, <1>4, <1>6 DEF Exchange, Quiet, Leftover, RefusalsRetried
<1>8. Agreed'
  BY <1>2, <1>4, Empty DEF Agreed, Granted
<1>9. Once' /\ Untouched'
  <2>1. SameRequests
    BY <1>4 DEF SameRequests
  <2>2. QED
    BY <1>2, <2>1, ClientOnce
<1>10. SentType' /\ ReceivedType'
  BY <1>1, <1>4 DEF SentType, ReceivedType
<1>11. QED
  BY <1>2, <1>5, <1>7, <1>8, <1>9, <1>10, Together

-----------------------------------------------------------------------------
(***************************************************************************)
(* The client reads a message                                              *)
(***************************************************************************)

\* The rest of the stream: it keeps its order, and nothing follows what ends
\* an exchange.
LEMMA AfterRead ==
    ASSUME IInv, io = "recv", pos = 1
    PROVE  /\ Awaits(conn, mRequest[Running]) /\ Carried(conn) /\ conn \in Conns /\ conn # 0
           /\ First = s2c[conn][1] /\ 1 \in DOMAIN s2c[conn]
           /\ DOMAIN Rest[conn] = 1 .. Len(Rest[conn]) /\ Len(s2c[conn]) = Len(Rest[conn]) + 1
           /\ DOMAIN s2c[conn] = 1 .. Len(s2c[conn]) /\ Len(Rest[conn]) \in Nat
           /\ First.kind \in {"answer", "exception", "tooLong"} => Rest[conn] = <<>> /\ Done(conn)
           /\ First.kind = "mismatch" /\ "oneway" \notin Kinds => Rest[conn] = <<>> /\ Done(conn)
<1>1. /\ conn \in Conns /\ conn # 0 /\ s2c[conn] \in Seq(Received) /\ s2c[conn] # <<>>
      /\ Rest \in [Conns -> Seq(Received)] /\ Rest[conn] = Tail(s2c[conn])
  BY Reading
<1>2. Awaits(conn, mRequest[Running]) /\ Carried(conn)
  BY <1>1 DEF IInv, Exchange, PerConn
<1>3. /\ First = s2c[conn][1] /\ Len(Rest[conn]) = Len(s2c[conn]) - 1
      /\ Len(s2c[conn]) \in Nat \ {0} /\ DOMAIN s2c[conn] = 1 .. Len(s2c[conn])
      /\ \A i \in 1 .. Len(s2c[conn]) - 1 : Rest[conn][i] = s2c[conn][i + 1]
  BY <1>1, Taken, Elements DEF First
<1>4. /\ DOMAIN Rest[conn] = 1 .. Len(Rest[conn]) /\ Rest[conn] \in Seq(Received)
      /\ \A i \in 1 .. Len(Rest[conn]) : Rest[conn][i] \in Received
      /\ Len(Rest[conn]) = 0 => Rest[conn] = <<>>
  <2>1. Rest[conn] \in Seq(Received)
    BY <1>1
  <2>2. QED
    BY <2>1, Elements
<1>5. /\ 1 \in DOMAIN s2c[conn] /\ Len(s2c[conn]) = Len(Rest[conn]) + 1 /\ Len(Rest[conn]) \in Nat
      /\ \A i \in 1 .. Len(Rest[conn]) : /\ Rest[conn][i] = s2c[conn][i + 1]
                                        /\ i + 1 \in DOMAIN s2c[conn]
                                        /\ i + 1 = Len(s2c[conn]) => i = Len(Rest[conn])
  BY <1>3
<1>6. ASSUME 1 = Len(s2c[conn]) PROVE Rest[conn] = <<>>
  BY <1>3, <1>4, <1>6
<1>7. First.kind = "tooLong" => 1 = Len(s2c[conn]) /\ srv[conn] = "closed" /\ c2s[conn] = <<>>
  BY <1>2, <1>3, <1>5 DEF Carried
<1>8. /\ First.kind \in {"answer", "exception"} => 1 = Len(s2c[conn]) /\ Done(conn)
      /\ First.kind = "mismatch" /\ "oneway" \notin Kinds => 1 = Len(s2c[conn]) /\ Done(conn)
  BY <1>2, <1>3, <1>5 DEF Awaits
<1>9. First.kind = "tooLong" => Done(conn)
  BY <1>7 DEF Done
<1>10. QED
  BY <1>1, <1>2, <1>3, <1>4, <1>5, <1>6, <1>7, <1>8, <1>9

LEMMA RestElement ==
    ASSUME IInv, io = "recv", pos = 1, NEW i \in DOMAIN Rest[conn]
    PROVE  /\ i + 1 \in DOMAIN s2c[conn] /\ Rest[conn][i] = s2c[conn][i + 1]
           /\ i + 1 = Len(s2c[conn]) => i = Len(Rest[conn])
           /\ Rest[conn][i] \in Received
<1>1. /\ DOMAIN Rest[conn] = 1 .. Len(Rest[conn]) /\ Len(Rest[conn]) \in Nat
      /\ DOMAIN s2c[conn] = 1 .. Len(s2c[conn]) /\ Len(s2c[conn]) = Len(Rest[conn]) + 1
  BY AfterRead
<1>2. i \in 1 .. Len(Rest[conn]) /\ i \in 1 .. Len(s2c[conn]) - 1
  BY <1>1
<1>3. /\ conn \in Conns /\ s2c[conn] \in Seq(Received) /\ s2c[conn] # <<>>
      /\ Rest \in [Conns -> Seq(Received)] /\ Rest[conn] = Tail(s2c[conn])
  BY Reading
<1>4. Rest[conn][i] = s2c[conn][i + 1]
  BY <1>2, <1>3, Taken
<1>5. Rest[conn][i] \in Received
  <2>1. Rest[conn] \in Seq(Received)
    BY <1>3
  <2>2. QED
    BY <2>1, Elements
<1>6. QED
  BY <1>1, <1>2, <1>4, <1>5

\* The version of a request that is waiting for its answer.
LEMMA WaitingVersion ==
    ASSUME IInv, io = "recv", pos = 1, ServerVersion < mRcfRuntimeVersion[Running]
    PROVE  Refused(mRequest[Running])
<1>1. StubTypes /\ Encoded /\ Places /\ Running \in Stubs
      /\ (Running = "filter" <=> phase = "negotiate") /\ (Running = "user" <=> phase = "exchange")
  BY Types, Reading DEF IInv
<1>2. mRequest[Running] \in Requests
  BY <1>1 DEF StubTypes
<1>3. mRequest[Running].version = mRcfRuntimeVersion[Running]
  BY <1>1 DEF Encoded, Places, Stubs
<1>4. QED
  BY <1>2, <1>3, RefusedNewer

\* A refusal leaves what calls leave that are over.
LEMMA AfterRefusal ==
    ASSUME IInv, io = "recv", pos = 1, First.kind = "mismatch",
           ServerVersion < mRcfRuntimeVersion[Running]
    PROVE  /\ srv[conn] # "serving"
           /\ \A i \in DOMAIN Rest[conn] : Rest[conn][i].kind \in {"mismatch", "tooLong"}
                                           /\ "oneway" \in Kinds
           /\ \A i \in DOMAIN c2s[conn] : /\ c2s[conn][i].request.oneway \/ Refused(c2s[conn][i].request)
                                          /\ "oneway" \in Kinds
<1>1. Refused(mRequest[Running])
  BY WaitingVersion
<1>2. "oneway" \notin Kinds => Rest[conn] = <<>> /\ c2s[conn] = <<>>
  BY AfterRead DEF Done
<1>3. Awaits(conn, mRequest[Running])
  BY AfterRead
<1>4. srv[conn] # "serving"
  BY <1>1, <1>3 DEF Awaits
<1>5. ASSUME NEW i \in DOMAIN Rest[conn] PROVE Rest[conn][i].kind \in {"mismatch", "tooLong"}
  <2>1. /\ i + 1 \in DOMAIN s2c[conn]
        /\ Rest[conn][i] = s2c[conn][i + 1] /\ Rest[conn][i] \in Received
    BY <1>5, RestElement
  <2>2. s2c[conn][i + 1].kind \notin {"answer", "exception", "ping"}
    BY <1>1, <1>3, <2>1 DEF Awaits
  <2>3. QED
    BY <2>1, <2>2 DEF Received
<1>6. \A i \in DOMAIN c2s[conn] : c2s[conn][i].request.oneway \/ Refused(c2s[conn][i].request)
  BY <1>1, <1>3 DEF Awaits
<1>7. QED
  BY <1>2, <1>4, <1>5, <1>6, Empty

LEMMA ReadExchange ==
    ASSUME IInv, io = "recv", pos = 1, conn # 0, Keeps(Rest), UNCHANGED <<c2s, serverVars>>,
           Refusal \/ Second \/ Finished \/ Waits
    PROVE  Exchange'
<1>1. UNCHANGED <<c2s, srv, serving, executed>> /\ s2c'[conn] = Rest[conn] /\ conn' = conn
      /\ s2c' = Rest
  BY DEF Keeps, serverVars
<1>2. CASE Refusal
  <2>1. /\ Leftover(conn)'
        /\ "oneway" \notin Kinds => c2s[conn] = <<>>
    BY <1>1, <1>2, AfterRefusal, AfterRead DEF Leftover, Refusal, Refused, Done
  <2>2. RefusalsRetried => "oneway" \notin Kinds
    BY <1>2 DEF Refusal, RefusalsRetried
  <2>3. Quiet(conn)'
    BY <1>1, <2>1, <2>2, Empty DEF Quiet, RefusalsRetried
  <2>4. QED
    BY <1>2, <2>1, <2>3 DEF Exchange, Refusal
<1>3. CASE Second
  <2>1. Leftover(conn)'
    BY <1>1, <1>3, AfterRefusal DEF Leftover, Second, Refused
  <2>2. io' = "send" /\ mTries'[Running'] # 0
    <3>1. Running' = Running /\ Running \in Stubs
      BY <1>3 DEF Second, Running, Stubs
    <3>2. QED
      BY <3>1, <1>3, Types DEF Second, StubTypes, IInv
  <2>3. QED
    BY <2>1, <2>2 DEF Exchange
<1>4. CASE Finished
  <2>1. s2c'[conn] = <<>> /\ c2s'[conn] = <<>> /\ srv'[conn] # "serving"
    BY <1>1, <1>4, AfterRead DEF Finished, Done
  <2>2. Quiet(conn)' /\ Leftover(conn)'
    BY <1>1, <2>1, Empty DEF Quiet, Leftover
  <2>3. QED
    BY <1>4, <2>2 DEF Exchange, Finished
<1>5. CASE Waits
  <2>1. Running' = Running /\ mRequest' = mRequest /\ io' = "recv"
    BY <1>5 DEF Waits, Running, stubVars
  <2>2. PICK m : m = mRequest[Running]
    OBVIOUS
  <2>3. Awaits(conn, m)
    BY <2>2, AfterRead
  <2>4. ASSUME NEW i \in DOMAIN Rest[conn]
        PROVE  LET r == Rest[conn][i]
               IN  /\ r.kind \in {"answer", "exception"} =>
                          i = Len(Rest[conn]) /\ r.call = m.call /\ Done(conn)
                   /\ r.kind = "answer" /\ r.call # 0 => executed[r.call] # 0
                   /\ r.kind \in {"answer", "exception", "ping"} => ~Refused(m)
                   /\ r.kind = "mismatch" /\ "oneway" \notin Kinds =>
                          i = Len(Rest[conn]) /\ Done(conn)
    <3>1. /\ i + 1 \in DOMAIN s2c[conn] /\ Rest[conn][i] = s2c[conn][i + 1]
          /\ i + 1 = Len(s2c[conn]) => i = Len(Rest[conn])
      BY <2>4, RestElement
    <3>2. QED
      BY <2>3, <3>1 DEF Awaits
  <2>5. Awaits(conn, m)'
    BY <1>1, <2>3, <2>4 DEF Awaits, Done, Refused
  <2>6. m = mRequest'[Running']
    BY <2>1, <2>2
  <2>7. Awaits(conn, mRequest[Running])'
    BY <2>5, <2>6 DEF Awaits
  <2>8. QED
    BY <2>1, <2>7 DEF Exchange
<1>6. QED
  BY <1>2, <1>3, <1>4, <1>5

LEMMA ReadAgreed ==
    ASSUME IInv, io = "recv", pos = 1, conn # 0, Keeps(Rest), UNCHANGED <<c2s, serverVars>>,
           Refusal \/ Second \/ Finished \/ Waits,
           mTransportFilters' = (IF First.kind = "answer" /\ Running = "filter" THEN TRUE
                                 ELSE mTransportFilters)
    PROVE  Agreed'
<1>1. /\ UNCHANGED <<c2s, srv, serving, srvFilters, executed>> /\ s2c'[conn] = Rest[conn]
      /\ conn' = conn /\ s2c' = Rest /\ DOMAIN Rest[conn] = 1 .. Len(Rest[conn])
  BY AfterRead DEF Keeps, serverVars
<1>2. Agreed /\ Awaits(conn, mRequest[Running])
  BY AfterRead DEF IInv
<1>3. \A i \in DOMAIN Rest[conn] : i + 1 \in DOMAIN s2c[conn] /\ Rest[conn][i] = s2c[conn][i + 1]
  BY RestElement
<1>4. \A i \in DOMAIN s2c'[conn'] :
          s2c'[conn'][i].kind = "answer" /\ s2c'[conn'][i].call = 0 =>
                      srv'[conn'] = "closed" \/ Granted(conn)'
  <2>1. Granted(conn)' <=> Granted(conn)
    BY <1>1 DEF Granted
  <2>2. QED
    BY <1>1, <1>2, <1>3, <2>1 DEF Agreed
<1>5. CASE First.kind = "answer"
  <2>1. Rest[conn] = <<>>
    BY <1>5, AfterRead
  <2>2. Finished
    BY <1>5 DEF Refusal, Second, Waits
  <2>3. srv[conn] = "closed" \/ mTransportFilters' = Granted(conn)
    <3>1. CASE Running = "filter"
      <4>1. First.call = 0
        <5>1. First.call = mRequest[Running].call
          BY <1>2, <1>5, AfterRead DEF Awaits
        <5>2. QED
          BY <3>1, <5>1 DEF IInv, Encoded
      <4>2. srv[conn] = "closed" \/ Granted(conn)
        BY <1>2, <1>5, <4>1, AfterRead DEF Agreed
      <4>3. Granted(conn) \in BOOLEAN
        BY AfterRead, Types DEF Granted, IInv, ConnTypes
      <4>4. QED
        BY <1>5, <3>1, <4>2, <4>3
    <3>2. CASE Running # "filter"
      BY <1>2, <3>2 DEF Agreed, Running
    <3>3. QED
      BY <3>1, <3>2
  <2>4. QED
    BY <1>1, <2>1, <2>3, Empty DEF Agreed, Granted
<1>6. CASE First.kind # "answer"
  <2>1. mTransportFilters' = mTransportFilters
    BY <1>6
  <2>2. \A i \in DOMAIN Rest[conn] : Rest[conn][i].filtered = mTransportFilters
    BY <1>2, <1>3 DEF Agreed
  <2>3. CASE srv[conn] = "closed" \/ mTransportFilters = Granted(conn)
    BY <1>1, <1>4, <2>1, <2>2, <2>3 DEF Agreed, Granted
  <2>4. CASE phase = "negotiate" /\ AnswerComing
    <3>1. PICK i \in DOMAIN s2c[conn] : s2c[conn][i].kind = "answer"
      BY <2>4 DEF AnswerComing
    <3>2. i # 1 /\ i \in 1 .. Len(s2c[conn]) /\ i = Len(s2c[conn])
      BY <1>2, <1>6, <3>1, AfterRead DEF Awaits
    <3>3. i - 1 \in DOMAIN Rest[conn] /\ Rest[conn][i - 1] = s2c[conn][i]
      <4>1. Len(s2c[conn]) = Len(Rest[conn]) + 1 /\ Len(Rest[conn]) \in Nat
        BY AfterRead
      <4>2. i - 1 \in 1 .. Len(Rest[conn]) /\ (i - 1) + 1 = i
        BY <3>2, <4>1
      <4>3. QED
        BY <1>1, <1>3, <4>2
    <3>4. Waits
      <4>1. ~Refused(mRequest[Running])
        BY <1>2, <3>1 DEF Awaits
      <4>2. ~(ServerVersion < mRcfRuntimeVersion[Running])
        BY <4>1, WaitingVersion
      <4>3. Rest[conn] # <<>>
        BY <3>3, Empty
      <4>4. ~Finished
        BY <4>3, AfterRead DEF Finished
      <4>5. QED
        BY <4>2, <4>4 DEF Refusal, Second
    <3>5. phase' = "negotiate" /\ io' = "recv" /\ AnswerComing'
      BY <1>1, <2>4, <3>1, <3>3, <3>4 DEF Waits, AnswerComing
    <3>6. QED
      BY <1>1, <1>4, <2>1, <2>2, <3>5 DEF Agreed
  <2>5. QED
    BY <1>2, <2>3, <2>4 DEF Agreed
<1>7. QED
  BY <1>5, <1>6

LEMMA ReadRestStep == ASSUME IInv, ReadRest PROVE IInv'
<1>1. /\ Control' /\ io = "recv" /\ pos = 1 /\ UNCHANGED <<ncalls, nconns, c2s, serverVars>>
      /\ Sendable' => Sendable
      /\ Resolves \/ Returns
      /\ Drops(Rest) \/ (Keeps(Rest) /\ (Refusal \/ Second \/ Finished \/ Waits))
      /\ \/ Drops(Rest)
         \/ mTransportFilters' = (IF First.kind = "answer" /\ Running = "filter" THEN TRUE
                                 ELSE mTransportFilters)
  BY ReadRestControl
<1>2. conn # 0
  BY <1>1, Reading
<1>3. PerConn' /\ SentType' /\ ReceivedType'
  BY <1>1, ClientConns, ClientReceived DEF ClientSide
<1>4. Exchange' /\ Agreed'
  <2>1. CASE Drops(Rest)
    BY <2>1, NoConn DEF Drops
  <2>2. CASE ~Drops(Rest)
    BY <1>1, <1>2, <2>2, ReadExchange, ReadAgreed
  <2>3. QED
    BY <2>1, <2>2
<1>5. Once' /\ Untouched'
  <2>1. \A c \in Calls : c > ncalls => result'[c] = result[c]
    BY <1>1, ResolvesLater, Types DEF IInv
  <2>2. QED
    BY <1>1, <2>1, ClientOnce DEF SameRequests, serverVars
<1>6. QED
  BY <1>1, <1>3, <1>4, <1>5, Together

-----------------------------------------------------------------------------
(***************************************************************************)
(* The client has written a request                                        *)
(***************************************************************************)

\* The request that is being sent.
LEMMA Sending ==
    ASSUME IInv, io = "send", conn \in Conns, conn # 0
    PROVE  LET m == mRequest[Running]
           IN  /\ m \in Requests /\ m.call <= ncalls /\ (m.oneway => "oneway" \in Kinds)
               /\ m.call = 0 => ~m.oneway
               /\ m.call # 0 => Sendable /\ m.call = ncalls
               /\ ServerVersion < mRcfRuntimeVersion["user"] /\ m.call # 0 => Refused(m)
               /\ Leftover(conn)
               /\ m.oneway => Quiet(conn)
               /\ srv[conn] = "closed" \/ mTransportFilters = Granted(conn)
<1>1. CallTypes /\ StubTypes /\ Encoded /\ Places /\ Exchange /\ Agreed
  BY Types DEF IInv
<1>2. Running = IF phase = "negotiate" THEN "filter" ELSE "user"
  BY <1>1 DEF Running, Places
<1>3. phase = "negotiate" \/ (phase = "exchange" /\ op = "call")
  BY <1>1 DEF Places, CallTypes
<1>4. ncalls \in Nat
  BY <1>1, Bounds DEF CallTypes
<1>5. Leftover(conn) /\ (mTries[Running] = 0 => Quiet(conn))
  BY <1>1 DEF Exchange
<1>6. srv[conn] = "closed" \/ mTransportFilters = Granted(conn)
  BY <1>1 DEF Agreed
<1>7. CASE phase = "negotiate"
  BY <1>1, <1>2, <1>4, <1>5, <1>6, <1>7, Bounds DEF Encoded, StubTypes, Stubs
<1>8. CASE phase = "exchange" /\ op = "call"
  <2>1. Running = "user" /\ mRequest["user"] \in Requests /\ mTries["user"] \in {0, 1}
    BY <1>1, <1>2, <1>8 DEF StubTypes, Stubs
  <2>2. /\ ncalls # 0 /\ mRequest["user"].call = ncalls
        /\ mRequest["user"].version = mRcfRuntimeVersion["user"]
        /\ mEncodedByteBuffers["user"]
        /\ mTries["user"] = 1 => ~mRequest["user"].oneway
        /\ mRequest["user"].oneway => "oneway" \in Kinds
    BY <1>1, <1>8 DEF Encoded, Stubs
  <2>3. Sendable
    BY <1>8, <2>2 DEF Sendable
  <2>4. ServerVersion < mRcfRuntimeVersion["user"] => Refused(mRequest["user"])
    BY <2>1, <2>2, RefusedNewer
  <2>5. QED
    BY <1>4, <1>5, <1>6, <2>1, <2>2, <2>3, <2>4
<1>9. QED
  BY <1>3, <1>7, <1>8

\* What is on the connection afterwards.
LEMMA Written ==
    ASSUME IInv, WriteRest
    PROVE  LET m == mRequest[Running]
           IN  /\ c2s' \in [Conns -> Seq(Sent)]
               /\ \A k \in Conns : k # conn => c2s'[k] = c2s[k]
               /\ \/ srv[conn] = "closed" /\ c2s' = c2s /\ c2s[conn] = <<>>
                  \/ /\ Len(c2s'[conn]) = Len(c2s[conn]) + 1
                     /\ c2s'[conn][Len(c2s[conn]) + 1] = [filtered |-> mTransportFilters, request |-> m]
                     /\ \A i \in 1 .. Len(c2s[conn]) : c2s'[conn][i] = c2s[conn][i]
                     /\ srv[conn] # "closed"
<1>1. StubTypes /\ SentType /\ conn \in Conns /\ PerConn
  BY WriteRestControl, Types DEF IInv
<1> DEFINE x == [filtered |-> mTransportFilters, request |-> mRequest[Running]]
<1>2. c2s' = IF srv[conn] = "closed" THEN c2s ELSE [c2s EXCEPT ![conn] = Append(@, x)]
  BY DEF WriteRest
<1>3. x \in Sent
  BY <1>1 DEF Sent, StubTypes, Running, Stubs
<1>4. c2s[conn] \in Seq(Sent) /\ (srv[conn] = "closed" => c2s[conn] = <<>>)
  BY <1>1 DEF SentType, PerConn, Carried
<1> HIDE DEF x
<1>5. CASE srv[conn] = "closed"
  BY <1>1, <1>2, <1>4, <1>5 DEF SentType
<1>6. CASE srv[conn] # "closed"
  <2>1. /\ Append(c2s[conn], x) \in Seq(Sent) /\ Len(Append(c2s[conn], x)) = Len(c2s[conn]) + 1
        /\ \A i \in 1 .. Len(c2s[conn]) : Append(c2s[conn], x)[i] = c2s[conn][i]
        /\ Append(c2s[conn], x)[Len(c2s[conn]) + 1] = x
    BY <1>3, <1>4, Appended
  <2>2. /\ c2s'[conn] = Append(c2s[conn], x) /\ c2s' \in [Conns -> Seq(Sent)]
        /\ \A k \in Conns : k # conn => c2s'[k] = c2s[k]
    BY <1>1, <1>2, <1>6, <2>1 DEF SentType
  <2>3. QED
    BY <1>6, <2>1, <2>2 DEF x
<1>7. QED
  BY <1>5, <1>6

LEMMA WriteConns == ASSUME IInv, WriteRest PROVE PerConn'
<1> DEFINE m == mRequest[Running]
           L == Len(c2s[conn])
<1>1. /\ conn \in Conns /\ conn # 0 /\ io = "send" /\ pos = 1
      /\ UNCHANGED <<ncalls, nconns, srv, serving, srvFilters, mTransportFilters>>
      /\ Drops(s2c) \/ Keeps(s2c)
  BY WriteRestControl DEF serverVars, Conns
<1>2. /\ m \in Requests /\ m.call <= ncalls /\ (m.oneway => "oneway" \in Kinds)
      /\ m.call = 0 => ~m.oneway
      /\ Leftover(conn)
      /\ srv[conn] = "closed" \/ mTransportFilters = Granted(conn)
  BY <1>1, Sending
<1>3. /\ c2s' \in [Conns -> Seq(Sent)]
      /\ \A k \in Conns : k # conn => c2s'[k] = c2s[k]
      /\ \/ srv[conn] = "closed" /\ c2s' = c2s /\ c2s[conn] = <<>>
         \/ /\ Len(c2s'[conn]) = L + 1
            /\ c2s'[conn][L + 1] = [filtered |-> mTransportFilters, request |-> m]
            /\ \A i \in 1 .. L : c2s'[conn][i] = c2s[conn][i]
            /\ srv[conn] # "closed"
  BY Written
<1>4. /\ c2s[conn] \in Seq(Sent) /\ L \in Nat /\ DOMAIN c2s[conn] = 1 .. L
      /\ DOMAIN c2s'[conn] = 1 .. Len(c2s'[conn])
  <2>1. c2s[conn] \in Seq(Sent) /\ c2s'[conn] \in Seq(Sent)
    BY <1>1, <1>3, Types DEF IInv, SentType
  <2>2. QED
    BY <2>1, Elements
<1>5. PerConn
  BY DEF IInv
<1> HIDE DEF m, L
<1>6. \A k \in Conns : /\ s2c'[k] = s2c[k] \/ s2c'[k] = <<>>
                       /\ k # conn' => s2c'[k] = <<>>
  BY <1>1, <1>5 DEF Drops, Keeps, PerConn, Carried
<1>7. \A i \in DOMAIN c2s'[conn] :
          \/ i \in DOMAIN c2s[conn] /\ c2s'[conn][i] = c2s[conn][i]
          \/ /\ i = Len(c2s'[conn]) /\ srv[conn] # "closed"
             /\ c2s'[conn][i] = [filtered |-> mTransportFilters, request |-> m]
  <2>1. CASE c2s' = c2s
    BY <2>1
  <2>2. CASE /\ Len(c2s'[conn]) = L + 1
             /\ c2s'[conn][L + 1] = [filtered |-> mTransportFilters, request |-> m]
             /\ \A i \in 1 .. L : c2s'[conn][i] = c2s[conn][i]
             /\ srv[conn] # "closed"
    BY <2>2, <1>4
  <2>3. QED
    BY <1>3, <2>1, <2>2
<1>8. SUFFICES ASSUME NEW k \in Conns PROVE Carried(k)' /\ Switch(k)'
  BY DEF PerConn
<1>9. Carried(k) /\ Switch(k)
  BY <1>5 DEF PerConn
<1>10. CASE k # conn
  <2>1. c2s'[k] = c2s[k]
    BY <1>3, <1>10
  <2>2. Switch(k)'
    BY <1>1, <1>9, <2>1 DEF Switch, Granted, Refused
  <2>3. Carried(k)'
    BY <1>1, <1>6, <1>9, <2>1, Empty DEF Carried
  <2>4. QED
    BY <2>2, <2>3
<1>11. CASE k = conn
  <2>1. \A i \in DOMAIN c2s'[k] :
            /\ c2s'[k][i].request.call <= ncalls
            /\ c2s'[k][i].request.oneway => "oneway" \in Kinds
            /\ c2s'[k][i].request.call = 0 => ~c2s'[k][i].request.oneway
    BY <1>2, <1>7, <1>9, <1>11 DEF Carried
  <2>2. srv'[k] \in {"none", "closed"} => c2s'[k] = <<>>
    <3>1. srv[k] # "none"
      <4>1. ConnTypes
        BY Types DEF IInv
      <4>2. ~(conn > nconns)
        BY <4>1, <1>1, Bounds DEF ConnTypes, Conns
      <4>3. QED
        BY <4>2, <1>9, <1>11 DEF Carried
    <3>2. QED
      BY <3>1, <1>1, <1>3, <1>11
  <2>3. Carried(k)'
    BY <1>1, <1>6, <1>9, <2>1, <2>2, Empty DEF Carried
  <2>4. \A i \in DOMAIN c2s'[k] :
            /\ c2s'[k][i].filtered = Granted(k)
            /\ c2s'[k][i].request.call = 0 /\ ~Refused(c2s'[k][i].request) => i = Len(c2s'[k])
    <3>1. SUFFICES ASSUME NEW i \in DOMAIN c2s'[k]
                   PROVE  /\ c2s'[k][i].filtered = Granted(k)
                          /\ c2s'[k][i].request.call = 0 /\ ~Refused(c2s'[k][i].request) =>
                                 i = Len(c2s'[k])
      OBVIOUS
    <3>2. CASE i \in DOMAIN c2s[conn] /\ c2s'[conn][i] = c2s[conn][i]
      BY <3>2, <1>2, <1>9, <1>11 DEF Switch, Carried, Leftover
    <3>3. CASE /\ i = Len(c2s'[conn]) /\ srv[conn] # "closed"
               /\ c2s'[conn][i] = [filtered |-> mTransportFilters, request |-> m]
      BY <3>3, <1>2, <1>11
    <3>4. QED
      BY <1>7, <1>11, <3>1, <3>2, <3>3
  <2>5. srv[k] # "serving"
    BY <1>2, <1>11 DEF Leftover
  <2>6. Granted(k)' <=> Granted(k)
    BY <1>1 DEF Granted
  <2>7. Switch(k)'
    BY <1>1, <2>4, <2>5, <2>6 DEF Switch, Refused, Granted
  <2>8. QED
    BY <2>3, <2>7
<1>12. QED
  BY <1>10, <1>11

\* The only new copy is the request that has been sent.
LEMMA WriteOnce == ASSUME IInv, WriteRest PROVE Once' /\ Untouched'
<1> DEFINE m == mRequest[Running]
           L == Len(c2s[conn])
<1>1. /\ conn \in Conns /\ conn # 0 /\ io = "send" /\ pos = 1
      /\ UNCHANGED <<ncalls, nconns, srv, serving, executed, mRcfRuntimeVersion>>
      /\ Sendable' => Sendable
      /\ Resolves
  BY WriteRestControl DEF serverVars, Conns
<1>2. /\ m \in Requests
      /\ m.call # 0 => Sendable /\ m.call = ncalls
      /\ ServerVersion < mRcfRuntimeVersion["user"] /\ m.call # 0 => Refused(m)
  BY <1>1, Sending
<1>3. /\ \A k \in Conns : k # conn => c2s'[k] = c2s[k]
      /\ \/ srv[conn] = "closed" /\ c2s' = c2s /\ c2s[conn] = <<>>
         \/ /\ Len(c2s'[conn]) = L + 1
            /\ c2s'[conn][L + 1] = [filtered |-> mTransportFilters, request |-> m]
            /\ \A i \in 1 .. L : c2s'[conn][i] = c2s[conn][i]
            /\ srv[conn] # "closed"
  BY Written
<1>4. L \in Nat
  BY <1>1, Types, Elements DEF IInv, SentType
<1>5. Once /\ Untouched /\ CallTypes /\ StubTypes
  BY Types DEF IInv
<1> HIDE DEF m, L
<1> DEFINE New(c, k, i) == k = conn /\ i = L + 1 /\ m.call = c /\ ~Refused(m)
<1>6. ASSUME NEW c, NEW k \in Conns, NEW i \in 0 .. Len(c2s'[k]), Copy(c, k, i)', ~New(c, k, i)
      PROVE  i \in 0 .. Len(c2s[k]) /\ Copy(c, k, i)
  <2>1. CASE i = 0
    <3>1. Copy(c, k, i)
      BY <2>1, <1>1, <1>6 DEF Copy
    <3>2. Len(c2s[k]) \in Nat
      BY Types, Elements DEF IInv, SentType
    <3>3. QED
      BY <2>1, <3>1, <3>2
  <2>2. CASE i # 0 /\ c2s'[k] = c2s[k]
    BY <2>2, <1>6 DEF Copy, Refused
  <2>3. CASE i # 0 /\ k = conn /\ c2s'[k] # c2s[k]
    <3>1. /\ Len(c2s'[conn]) = L + 1
          /\ c2s'[conn][L + 1] = [filtered |-> mTransportFilters, request |-> m]
          /\ \A h \in 1 .. L : c2s'[conn][h] = c2s[conn][h]
      BY <1>3, <2>3
    <3>2. c2s'[k][i].request.call = c /\ ~Refused(c2s'[k][i].request)
      BY <1>6, <2>3 DEF Copy, Refused
    <3>3. i # L + 1
      <4>1. ASSUME i = L + 1 PROVE New(c, k, i)
        <5>1. c2s'[k][i].request = m
          BY <4>1, <3>1, <2>3
        <5>2. QED
          BY <5>1, <4>1, <3>2, <2>3
      <4>2. QED
        BY <4>1, <1>6
    <3>4. i \in 1 .. L /\ i \in 0 .. L
      BY <1>4, <2>3, <3>1, <3>3, <1>6
    <3>5. QED
      BY <2>3, <3>1, <3>2, <3>4 DEF Copy, L
  <2>4. QED
    BY <1>3, <2>1, <2>2, <2>3
<1>7. ASSUME NEW c, c # m.call \/ Refused(m)
      PROVE  (NoCopy(c) => NoCopy(c)') /\ (OneCopy(c) => OneCopy(c)')
  <2>1. \A k \in Conns : \A i \in 0 .. Len(c2s'[k]) :
            Copy(c, k, i)' => i \in 0 .. Len(c2s[k]) /\ Copy(c, k, i)
    BY <1>6, <1>7
  <2>2. QED
    BY <2>1 DEF NoCopy, OneCopy
<1>8. ASSUME NEW c, NoCopy(c) PROVE OneCopy(c)'
  <2>1. \A k \in Conns : \A i \in 0 .. Len(c2s'[k]) : Copy(c, k, i)' => k = conn /\ i = L + 1
    BY <1>6, <1>8 DEF NoCopy
  <2>2. QED
    BY <2>1 DEF OneCopy
<1>9. Once'
  <2>1. SUFFICES ASSUME NEW c \in Calls
                 PROVE  (/\ OneCopy(c) /\ executed[c] <= 1
                         /\ executed[c] # 0 => NoCopy(c)
                         /\ c > ncalls => executed[c] = 0 /\ result[c].kind = "none")'
    BY DEF Once
  <2>2. /\ OneCopy(c) /\ executed[c] <= 1
        /\ executed[c] # 0 => NoCopy(c)
        /\ c > ncalls => executed[c] = 0 /\ result[c].kind = "none"
    BY <1>5 DEF Once
  <2>3. c > ncalls => result'[c] = result[c]
    BY <1>1, <1>5, ResolvesLater
  <2>4. OneCopy(c)' /\ (executed[c] # 0 => NoCopy(c)')
    <3>1. CASE c # m.call \/ Refused(m)
      BY <3>1, <1>7, <2>2
    <3>2. CASE c = m.call /\ ~Refused(m)
      <4>1. c # 0
        BY DEF Calls
      <4>2. Sendable /\ c = ncalls
        BY <3>2, <4>1, <1>2
      <4>3. NoCopy(c) /\ executed[c] = 0
        BY <4>2, <1>5 DEF Untouched, Sendable
      <4>4. QED
        BY <4>3, <1>8
    <3>3. QED
      BY <3>1, <3>2
  <2>5. QED
    BY <1>1, <2>2, <2>3, <2>4
<1>10. Untouched'
  <2>1. SUFFICES ASSUME Sendable' PROVE NoCopy(ncalls)' /\ executed'[ncalls'] = 0
    BY DEF Untouched, Sendable
  <2>2. Sendable /\ NoCopy(ncalls) /\ executed[ncalls] = 0
    BY <2>1, <1>1, <1>5 DEF Untouched, Sendable
  <2>3. PICK n : n = ncalls
    OBVIOUS
  <2>4. n # m.call \/ Refused(m)
    <3>1. ASSUME n = m.call PROVE ServerVersion < mRcfRuntimeVersion["user"] /\ m.call # 0
      <4>1. Encoded /\ op = "call" /\ ncalls # 0
        BY <2>2 DEF IInv, Encoded, Sendable
      <4>2. Running = "user"
        BY <4>1, <3>1, <2>3 DEF m, Encoded, Running
      <4>3. ~mEncodedByteBuffers'["user"]
        <5>1. op' # "none"
          BY <2>1 DEF Sendable
        <5>2. mEncodedByteBuffers' = [mEncodedByteBuffers EXCEPT ![Running] = FALSE]
          BY <5>1, WriteRestControl
        <5>3. QED
          BY <5>2, <4>2, <1>5 DEF StubTypes, Stubs
      <4>4. ServerVersion < mRcfRuntimeVersion["user"]
        BY <4>3, <2>1, <1>1 DEF Sendable
      <4>5. QED
        BY <4>1, <4>4, <3>1, <2>3
    <3>2. QED
      BY <3>1, <1>2
  <2>5. NoCopy(n)'
    BY <2>2, <2>3, <2>4, <1>7
  <2>6. n = ncalls'
    BY <2>3, <1>1
  <2>7. QED
    BY <2>2, <2>5, <2>6, <1>1 DEF NoCopy, Copy
<1>11. QED
  BY <1>9, <1>10

LEMMA WriteRestStep == ASSUME IInv, WriteRest PROVE IInv' /\ Resolves
<1> DEFINE m == mRequest[Running]
           L == Len(c2s[conn])
<1>1. /\ Control' /\ conn \in Conns /\ conn # 0 /\ io = "send" /\ pos = 1
      /\ UNCHANGED <<ncalls, mRequest, mTransportFilters, nconns, srv, serving, srvFilters, executed>>
      /\ UNCHANGED serverVars
      /\ Resolves
      /\ \/ Drops(s2c) /\ op' = "none"
         \/ /\ m.oneway /\ Keeps(s2c)
            /\ op' = "none" /\ phase' = "idle" /\ io' = "none"
         \/ /\ ~m.oneway /\ Keeps(s2c) /\ phase' = phase /\ io' = "recv"
  BY WriteRestControl DEF serverVars, Conns
<1>2. /\ m.oneway => "oneway" \in Kinds /\ Quiet(conn)
      /\ Leftover(conn)
  BY <1>1, Sending
<1>3. /\ c2s' \in [Conns -> Seq(Sent)]
      /\ \/ c2s' = c2s /\ c2s[conn] = <<>>
         \/ /\ Len(c2s'[conn]) = L + 1
            /\ c2s'[conn][L + 1] = [filtered |-> mTransportFilters, request |-> m]
            /\ \A i \in 1 .. L : c2s'[conn][i] = c2s[conn][i]
  BY Written
<1>4. /\ L \in Nat /\ DOMAIN c2s[conn] = 1 .. L
      /\ DOMAIN c2s'[conn] = 1 .. Len(c2s'[conn])
  <2>1. c2s[conn] \in Seq(Sent) /\ c2s'[conn] \in Seq(Sent)
    BY <1>1, <1>3, Types DEF IInv, SentType
  <2>2. QED
    BY <2>1, Elements
<1>5. PerConn' /\ Once' /\ Untouched'
  BY WriteConns, WriteOnce
<1>6. SentType' /\ ReceivedType'
  <2>1. ReceivedType
    BY Types DEF IInv
  <2>2. CASE Keeps(s2c)
    BY <2>1, <2>2, <1>3 DEF SentType, ReceivedType, Keeps
  <2>3. CASE Drops(s2c)
    BY <2>1, <2>3, <1>3, Empty DEF SentType, ReceivedType, Drops
  <2>4. QED
    BY <1>1, <2>2, <2>3
<1> HIDE DEF m, L
<1>7. \A i \in DOMAIN c2s'[conn] :
          \/ i \in DOMAIN c2s[conn] /\ c2s'[conn][i] = c2s[conn][i]
          \/ i = Len(c2s'[conn]) /\ c2s'[conn][i].request = m
  <2>1. CASE c2s' = c2s
    BY <2>1
  <2>2. CASE /\ Len(c2s'[conn]) = L + 1
             /\ c2s'[conn][L + 1] = [filtered |-> mTransportFilters, request |-> m]
             /\ \A i \in 1 .. L : c2s'[conn][i] = c2s[conn][i]
    BY <2>2, <1>4
  <2>3. QED
    BY <1>3, <2>1, <2>2
<1>8. \A i \in DOMAIN c2s'[conn] :
          i # Len(c2s'[conn]) => /\ c2s'[conn][i].request.oneway \/ Refused(c2s'[conn][i].request)
                                 /\ "oneway" \in Kinds
  BY <1>2, <1>7 DEF Leftover
<1>9. Agreed'
  <2>1. CASE Drops(s2c)
    BY <2>1, NoConn DEF Drops
  <2>2. CASE Keeps(s2c)
    BY <1>1, <2>2, SameAgreed DEF IInv
  <2>3. QED
    BY <1>1, <2>1, <2>2
<1>10. Exchange'
  <2>1. CASE Drops(s2c)
    BY <2>1, NoConn DEF Drops
  <2>2. CASE m.oneway /\ Keeps(s2c) /\ io' = "none"
    <3>1. \A i \in DOMAIN c2s'[conn] : /\ c2s'[conn][i].request.oneway \/ Refused(c2s'[conn][i].request)
                                       /\ "oneway" \in Kinds
      BY <1>2, <1>7, <2>2 DEF Leftover
    <3>2. RefusalsRetried => \A i \in DOMAIN c2s'[conn] : c2s'[conn][i].request.oneway
      BY <1>2, <1>7, <2>2 DEF Quiet
    <3>3. Quiet(conn)'
      BY <1>1, <1>2, <2>2, <3>1, <3>2 DEF Quiet, Leftover, Keeps, Refused, RefusalsRetried
    <3>4. QED
      BY <2>2, <3>3 DEF Exchange
  <2>3. CASE ~m.oneway /\ Keeps(s2c) /\ phase' = phase /\ io' = "recv"
    <3>1. Running' = Running /\ conn' = conn /\ s2c' = s2c
      BY <2>3 DEF Running, Keeps
    <3>2. PICK r : r = m
      OBVIOUS
    <3>3. \A i \in DOMAIN c2s'[conn] : i = Len(c2s'[conn]) => c2s'[conn][i].request = r
      <4>1. CASE c2s' = c2s /\ c2s[conn] = <<>>
        BY <4>1, Empty
      <4>2. CASE c2s'[conn][L + 1] = [filtered |-> mTransportFilters, request |-> m]
                 /\ Len(c2s'[conn]) = L + 1
        BY <4>2, <3>2
      <4>3. QED
        BY <1>3, <4>1, <4>2
    <3>4. Awaits(conn, r)'
      BY <1>1, <1>2, <1>8, <3>1, <3>3 DEF Awaits, Leftover, Refused
    <3>5. r = mRequest'[Running']
      BY <3>1, <3>2, <1>1 DEF m
    <3>6. Awaits(conn, mRequest[Running])'
      BY <3>4, <3>5 DEF Awaits
    <3>7. QED
      BY <2>3, <3>6 DEF Exchange
  <2>4. QED
    BY <1>1, <2>1, <2>2, <2>3
<1>11. QED
  BY <1>1, <1>5, <1>6, <1>9, <1>10, Together

-----------------------------------------------------------------------------
(***************************************************************************)
(* The server's end of connection c                                        *)
(***************************************************************************)
Still(k) == /\ c2s'[k] = c2s[k] /\ s2c'[k] = s2c[k] /\ srv'[k] = srv[k]
            /\ serving'[k] = serving[k] /\ srvFilters'[k] = srvFilters[k]

ServerSide(c) == /\ UNCHANGED clientVars
                 /\ \A k \in Conns : k # c => Still(k)
                 /\ s2c'[c] = <<>> => s2c[c] = <<>>
                 /\ \A x \in Calls : executed[x] # 0 => executed'[x] # 0

\* What a step of the server has to keep.
LEMMA ServerStep ==
    ASSUME IInv, NEW c \in Conns, ServerSide(c), ConnTypes', SentType', ReceivedType',
           Carried(c)', Switch(c)', Once', Untouched',
           conn = c => /\ Agreed'
                       /\ Quiet(c) => Quiet(c)'
                       /\ Leftover(c) => Leftover(c)'
                       /\ \A m : Awaits(c, m) => Awaits(c, m)'
    PROVE  IInv'
<1>1. CallTypes /\ StubTypes /\ ConnTypes /\ ReceivedType /\ Places /\ Streams /\ Encoded
      /\ PerConn /\ Exchange /\ Agreed
  BY Types DEF IInv
<1>2. /\ UNCHANGED <<op, phase, io, pos, ncalls, result, conn, nconns, mTransportFilters, half, cut>>
      /\ UNCHANGED stubVars
      /\ UNCHANGED <<mConnected, mRcfRuntimeVersion, mTries, mRequest, mEncodedByteBuffers>>
  BY DEF ServerSide, clientVars, callVars, stubVars, transportVars, streamVars
<1>3. CallTypes' /\ StubTypes' /\ Streams' /\ Encoded'
  BY <1>1, <1>2 DEF CallTypes, StubTypes, Streams, Encoded
<1>4. \A k \in Conns : s2c'[k] = <<>> => s2c[k] = <<>>
  BY DEF ServerSide, Still
<1>5. Places'
  <2>1. io = "recv" /\ pos = 1 => conn \in Conns
    BY <1>1, Bounds DEF Places, ConnTypes, Conns
  <2>2. QED
    BY <1>1, <1>2, <1>4, <2>1 DEF Places
<1>6. PerConn'
  <2>1. SUFFICES ASSUME NEW k \in Conns PROVE Carried(k)' /\ Switch(k)'
    BY DEF PerConn
  <2>2. CASE k = c
    BY <2>2
  <2>3. CASE k # c
    <3>1. Still(k) /\ Carried(k) /\ Switch(k)
      BY <2>3, <1>1 DEF ServerSide, PerConn
    <3>2. QED
      BY <3>1, <1>2 DEF Still, Carried, Switch, Granted, Refused
  <2>4. QED
    BY <2>2, <2>3
<1>7. CASE conn = 0
  BY <1>2, <1>3, <1>5, <1>6, <1>7, NoConn, Together DEF Control
<1>8. CASE conn = c
  <2>1. Exchange'
    <3>1. PICK m : m = mRequest[Running]
      OBVIOUS
    <3>2. Running' = Running /\ m = mRequest'[Running']
      BY <1>2, <3>1 DEF Running
    <3>3. io = "recv" => Awaits(c, m)'
      BY <1>1, <1>8, <3>1 DEF Exchange, Conns
    <3>4. io = "recv" => Awaits(c, mRequest[Running])'
      BY <3>2, <3>3 DEF Awaits
    <3>5. QED
      BY <1>1, <1>2, <1>8, <3>2, <3>4 DEF Exchange, Conns, Quiet, Leftover, Awaits
  <2>2. QED
    BY <1>3, <1>5, <1>6, <1>8, <2>1, Together DEF Control
<1>9. CASE conn # 0 /\ conn # c
  <2>1. conn \in Conns /\ Still(conn)
    BY <1>1, <1>9, Bounds DEF ConnTypes, Conns, ServerSide
  <2>2. /\ s2c'[conn] = s2c[conn] /\ c2s'[conn] = c2s[conn] /\ srv'[conn] = srv[conn]
        /\ serving'[conn] = serving[conn] /\ srvFilters'[conn] = srvFilters[conn] /\ conn' = conn
    BY <2>1, <1>2 DEF Still
  <2>3. Agreed'
    BY <1>1, <1>2, <2>2 DEF Agreed, Granted, AnswerComing
  <2>4. (Quiet(conn) => Quiet(conn)') /\ (Leftover(conn) => Leftover(conn)')
    BY <2>2 DEF Quiet, Leftover, Refused, RefusalsRetried
  <2>5. ASSUME NEW m, Awaits(conn, m) PROVE Awaits(conn, m)'
    <3>1. \A i \in DOMAIN s2c[conn] : s2c[conn][i].call # 0 => s2c[conn][i].call \in Calls
      <4>1. s2c[conn] \in Seq(Received)
        BY <1>1, <2>1 DEF ReceivedType
      <4>2. \A i \in DOMAIN s2c[conn] : s2c[conn][i] \in Received
        BY <4>1, Elements
      <4>3. QED
        BY <4>2, Bounds DEF Received, Calls
    <3>2. \A i \in DOMAIN s2c[conn] :
              s2c[conn][i].kind = "answer" /\ s2c[conn][i].call # 0 => executed'[s2c[conn][i].call] # 0
      BY <2>5, <3>1 DEF Awaits, ServerSide
    <3>3. QED
      BY <2>2, <2>5, <3>2 DEF Awaits, Done, Refused
  <2>6. Exchange'
    <3>1. PICK m : m = mRequest[Running]
      OBVIOUS
    <3>2. Running' = Running /\ m = mRequest'[Running']
      BY <1>2, <3>1 DEF Running
    <3>3. io = "recv" => Awaits(conn, m)'
      BY <1>1, <1>9, <2>5, <3>1 DEF Exchange
    <3>4. io = "recv" => Awaits(conn, mRequest[Running])'
      BY <3>2, <3>3 DEF Awaits
    <3>5. QED
      BY <1>1, <1>2, <1>9, <2>4, <3>2, <3>4 DEF Exchange
  <2>7. QED
    BY <1>3, <1>5, <1>6, <2>3, <2>6, Together DEF Control
<1>10. QED
  BY <1>7, <1>8, <1>9

\* Every copy was one before, d places further on if it is on connection k.
Moved(k, d) ==
    \A x \in Calls, j \in Conns : \A i \in 0 .. Len(c2s'[j]) :
        Copy(x, j, i)' => LET p == IF j = k THEN i + d ELSE i
                          IN  p \in 0 .. Len(c2s[j]) /\ Copy(x, j, p)

LEMMA MovedCopies ==
    ASSUME NEW k \in Conns, NEW d \in {0, 1}, Moved(k, d), NEW x \in Calls
    PROVE  (OneCopy(x) => OneCopy(x)') /\ (NoCopy(x) => NoCopy(x)')
<1>1. ASSUME NoCopy(x) PROVE NoCopy(x)'
  BY <1>1 DEF NoCopy, Moved
<1>2. ASSUME OneCopy(x), NEW j \in Conns, NEW l \in Conns, NEW h \in 0 .. Len(c2s'[j]),
             NEW i \in 0 .. Len(c2s'[l]), Copy(x, j, h)', Copy(x, l, i)'
      PROVE  j = l /\ h = i
  <2> DEFINE p == IF j = k THEN h + d ELSE h
             q == IF l = k THEN i + d ELSE i
  <2>1. p \in 0 .. Len(c2s[j]) /\ Copy(x, j, p) /\ q \in 0 .. Len(c2s[l]) /\ Copy(x, l, q)
    BY <1>2 DEF Moved
  <2> HIDE DEF p, q
  <2>2. j = l /\ p = q
    BY <1>2, <2>1 DEF OneCopy
  <2>3. QED
    BY <2>2 DEF p, q
<1>3. OneCopy(x) => OneCopy(x)'
  BY <1>2 DEF OneCopy
<1>4. QED
  BY <1>1, <1>3

\* The copy at place p of connection k is executed, and gone.
Consumes(e, k, d, p) ==
    /\ e \in Calls /\ executed' = [executed EXCEPT ![e] = @ + 1]
    /\ p \in 0 .. Len(c2s[k]) /\ Copy(e, k, p)
    /\ \A i \in 0 .. Len(c2s'[k]) : Copy(e, k, i)' => i + d # p

\* At most one call is executed, one that has been made and had not been executed.
Executes == \/ executed' = executed
            \/ \E e \in Calls : /\ e <= ncalls /\ executed[e] = 0
                                /\ executed' = [executed EXCEPT ![e] = 1]

LEMMA ServerOnce ==
    ASSUME IInv, UNCHANGED clientVars, NEW k \in Conns, NEW d \in {0, 1}, Moved(k, d),
           executed' = executed \/ \E e \in Calls : \E p \in {0, 1} : Consumes(e, k, d, p)
    PROVE  Once' /\ Untouched' /\ (\A x \in Calls : executed[x] # 0 => executed'[x] # 0) /\ Executes
<1>1. ConnTypes /\ CallTypes /\ Once /\ Untouched
  BY Types DEF IInv
<1>2. UNCHANGED <<ncalls, result, op, mEncodedByteBuffers, mRcfRuntimeVersion>>
  BY DEF clientVars, callVars, stubVars
<1>3. ASSUME NEW e \in Calls, NEW p \in {0, 1}, Consumes(e, k, d, p)
      PROVE  /\ executed[e] = 0 /\ executed'[e] = 1 /\ NoCopy(e)' /\ ~NoCopy(e) /\ e <= ncalls
             /\ \A x \in Calls : x # e => executed'[x] = executed[x]
  <2>1. /\ executed' = [executed EXCEPT ![e] = @ + 1]
        /\ p \in 0 .. Len(c2s[k]) /\ Copy(e, k, p)
        /\ \A i \in 0 .. Len(c2s'[k]) : Copy(e, k, i)' => i + d # p
    BY <1>3 DEF Consumes
  <2>2. ~NoCopy(e)
    BY <2>1 DEF NoCopy
  <2>3. executed[e] = 0
    BY <1>1, <2>2 DEF Once
  <2>4. executed'[e] = 1 /\ \A x \in Calls : x # e => executed'[x] = executed[x]
    BY <1>1, <2>1, <2>3 DEF ConnTypes
  <2>5. e <= ncalls
    <3>1. e \in Nat /\ ncalls \in Nat
      BY <1>1, Bounds DEF Calls, CallTypes
    <3>2. QED
      BY <3>1, <2>2, NoCopyYet
  <2>6. NoCopy(e)'
    <3>1. SUFFICES ASSUME NEW j \in Conns, NEW i \in 0 .. Len(c2s'[j]), Copy(e, j, i)' PROVE FALSE
      BY DEF NoCopy
    <3> DEFINE q == IF j = k THEN i + d ELSE i
    <3>2. q \in 0 .. Len(c2s[j]) /\ Copy(e, j, q)
      BY <3>1 DEF Moved
    <3> HIDE DEF q
    <3>3. j = k /\ q = p
      BY <1>1, <2>1, <3>2 DEF Once, OneCopy
    <3>4. QED
      BY <2>1, <3>1, <3>3 DEF q
  <2>7. QED
    BY <2>2, <2>3, <2>4, <2>5, <2>6
<1>4. Once'
  <2>1. SUFFICES ASSUME NEW c \in Calls
                 PROVE  (/\ OneCopy(c) /\ executed[c] <= 1
                         /\ executed[c] # 0 => NoCopy(c)
                         /\ c > ncalls => executed[c] = 0 /\ result[c].kind = "none")'
    BY DEF Once
  <2>2. /\ OneCopy(c) /\ executed[c] <= 1
        /\ executed[c] # 0 => NoCopy(c)
        /\ c > ncalls => executed[c] = 0 /\ result[c].kind = "none"
    BY <1>1 DEF Once
  <2>3. (OneCopy(c) => OneCopy(c)') /\ (NoCopy(c) => NoCopy(c)')
    BY MovedCopies
  <2>4. CASE executed' = executed
    BY <1>2, <2>2, <2>3, <2>4
  <2>5. ASSUME NEW e \in Calls, NEW p \in {0, 1}, Consumes(e, k, d, p)
        PROVE  /\ executed'[c] <= 1 /\ (executed'[c] # 0 => NoCopy(c)')
               /\ c > ncalls => executed'[c] = 0
    <3>1. /\ executed'[e] = 1 /\ NoCopy(e)' /\ e <= ncalls
          /\ \A x \in Calls : x # e => executed'[x] = executed[x]
      BY <1>3, <2>5
    <3>2. CASE c = e
      <4>1. ~(c > ncalls)
        BY <3>1, <3>2, <1>1, Bounds DEF CallTypes, Calls
      <4>2. QED
        BY <3>1, <3>2, <4>1
    <3>3. CASE c # e
      BY <3>1, <3>3, <2>2, <2>3
    <3>4. QED
      BY <3>2, <3>3
  <2>6. QED
    BY <1>2, <2>2, <2>3, <2>4, <2>5
<1>5. Untouched'
  <2>1. SUFFICES ASSUME Sendable' PROVE NoCopy(ncalls)' /\ executed'[ncalls'] = 0
    BY DEF Untouched, Sendable
  <2>2. NoCopy(ncalls) /\ executed[ncalls] = 0
    BY <2>1, <1>1, <1>2 DEF Untouched, Sendable
  <2>3. ncalls \in Calls
    <3>1. op = "call" /\ Encoded
      BY <2>1, <1>2 DEF Sendable, IInv
    <3>2. QED
      BY <3>1, <1>1, Bounds DEF Encoded, CallTypes, Calls
  <2>4. PICK n \in Calls : n = ncalls
    BY <2>3
  <2>5. NoCopy(n)'
    BY <2>2, <2>4, MovedCopies
  <2>6. n = ncalls'
    BY <2>4, <1>2
  <2>7. executed'[n] = 0
    <3>1. ASSUME NEW e \in Calls, NEW p \in {0, 1}, Consumes(e, k, d, p) PROVE executed'[n] = 0
      <4>1. n # e
        BY <1>3, <2>2, <2>4, <3>1
      <4>2. QED
        BY <1>3, <2>2, <2>4, <3>1, <4>1
    <3>2. QED
      BY <3>1, <2>2, <2>4
  <2>8. QED
    BY <2>5, <2>6, <2>7 DEF NoCopy, Copy
<1>6. \A x \in Calls : executed[x] # 0 => executed'[x] # 0
  BY <1>3
<1>7. Executes
  <2>1. ASSUME NEW e \in Calls, NEW p \in {0, 1}, Consumes(e, k, d, p) PROVE Executes
    <3>1. executed[e] = 0 /\ e <= ncalls /\ executed' = [executed EXCEPT ![e] = @ + 1]
      BY <1>3, <2>1 DEF Consumes
    <3>2. executed' = [executed EXCEPT ![e] = 1]
      BY <3>1, <1>1 DEF ConnTypes
    <3>3. QED
      BY <3>1, <3>2 DEF Executes
  <2>2. QED
    BY <2>1 DEF Executes
<1>8. QED
  BY <1>4, <1>5, <1>6, <1>7

\* A message of the server for the client that is still there.
LEMMA Told ==
    ASSUME IInv, NEW c \in Conns, NEW m \in Received, SendTo(c, m)
    PROVE  /\ ReceivedType' /\ (\A k \in Conns : k # c => s2c'[k] = s2c[k])
           /\ c # conn => s2c'[c] = s2c[c]
           /\ c = conn => /\ Len(s2c'[c]) = Len(s2c[c]) + 1 /\ Len(s2c[c]) \in Nat
                          /\ DOMAIN s2c[c] = 1 .. Len(s2c[c])
                          /\ DOMAIN s2c'[c] = 1 .. Len(s2c[c]) + 1
                          /\ s2c'[c][Len(s2c[c]) + 1] = m
                          /\ \A i \in 1 .. Len(s2c[c]) : s2c'[c][i] = s2c[c][i]
           /\ s2c'[c] = <<>> => s2c[c] = <<>>
<1>1. ReceivedType /\ s2c[c] \in Seq(Received)
  BY Types DEF IInv, ReceivedType
<1>2. CASE c # conn
  BY <1>1, <1>2 DEF SendTo, ReceivedType
<1>3. CASE c = conn
  <2>1. s2c' = [s2c EXCEPT ![c] = Append(@, m)]
    BY <1>3 DEF SendTo
  <2>2. s2c'[c] = Append(s2c[c], m) /\ ReceivedType' /\ s2c'[c] \in Seq(Received)
        /\ \A k \in Conns : k # c => s2c'[k] = s2c[k]
    BY <1>1, <2>1, Appended DEF ReceivedType
  <2>3. /\ Len(s2c'[c]) = Len(s2c[c]) + 1 /\ s2c'[c] # <<>>
        /\ s2c'[c][Len(s2c[c]) + 1] = m
        /\ \A i \in 1 .. Len(s2c[c]) : s2c'[c][i] = s2c[c][i]
    BY <1>1, <2>2, Appended
  <2>4. /\ Len(s2c[c]) \in Nat /\ DOMAIN s2c[c] = 1 .. Len(s2c[c])
        /\ DOMAIN s2c'[c] = 1 .. Len(s2c'[c])
    BY <1>1, <2>2, Elements
  <2>5. QED
    BY <1>3, <2>2, <2>3, <2>4
<1>4. QED
  BY <1>2, <1>3

\* While the server works for a request, its filters are the client's, and no
\* answer has been sent.
LEMMA OwnFilters ==
    ASSUME IInv, NEW c \in Conns, conn = c,
           srv[c] = "serving" \/ (srv[c] = "reading" /\ c2s[c] # <<>>)
    PROVE  /\ mTransportFilters = srvFilters[c]
           /\ io = "recv" => \A i \in DOMAIN s2c[c] : s2c[c][i].kind \notin {"answer", "exception"}
           /\ \A i \in DOMAIN s2c[c] : s2c[c][i].kind # "tooLong"
           /\ io = "recv" /\ "oneway" \notin Kinds =>
                  \A i \in DOMAIN s2c[c] : s2c[c][i].kind # "mismatch"
<1>1. Agreed /\ Exchange /\ conn # 0 /\ Carried(c)
  BY DEF IInv, Conns, PerConn
<1>2. io = "recv" => Awaits(c, mRequest[Running])
  BY <1>1 DEF Exchange
<1>3. io = "recv" => \A i \in DOMAIN s2c[c] : s2c[c][i].kind \notin {"answer", "exception"}
  BY <1>2 DEF Awaits, Done
<1>4. io = "recv" /\ "oneway" \notin Kinds => \A i \in DOMAIN s2c[c] : s2c[c][i].kind # "mismatch"
  BY <1>2 DEF Awaits, Done
<1>5. \A i \in DOMAIN s2c[c] : s2c[c][i].kind # "tooLong"
  BY <1>1 DEF Carried
<1>6. mTransportFilters = Granted(c)
  BY <1>1, <1>3 DEF Agreed, AnswerComing
<1>7. Granted(c) = srvFilters[c]
  <2>1. srvFilters[c] \in BOOLEAN
    BY Types DEF IInv, ConnTypes
  <2>2. QED
    BY <2>1 DEF Granted
<1>8. QED
  BY <1>3, <1>4, <1>5, <1>6, <1>7

LEMMA ToldAgreed ==
    ASSUME IInv, NEW c \in Conns, conn = c, NEW m \in Received, SendTo(c, m), srv[c] # "closed",
           UNCHANGED clientVars, mTransportFilters = srvFilters[c], m.filtered = srvFilters[c],
           m.kind = "answer" /\ m.call = 0 => Granted(c)', Granted(c) => Granted(c)',
           \/ srv'[c] = "closed" \/ mTransportFilters = Granted(c)'
           \/ phase = "negotiate" /\ io = "recv" /\ m.kind = "answer"
    PROVE  Agreed'
<1>1. /\ DOMAIN s2c[c] = 1 .. Len(s2c[c]) /\ Len(s2c[c]) \in Nat
      /\ DOMAIN s2c'[c] = 1 .. Len(s2c[c]) + 1
      /\ s2c'[c][Len(s2c[c]) + 1] = m
      /\ \A i \in 1 .. Len(s2c[c]) : s2c'[c][i] = s2c[c][i]
  BY Told
<1>2. conn' = c /\ UNCHANGED <<phase, io, mTransportFilters>>
  BY DEF clientVars, callVars, transportVars
<1>3. \A i \in DOMAIN s2c'[c] : s2c'[c][i] = m \/ (i \in DOMAIN s2c[c] /\ s2c'[c][i] = s2c[c][i])
  BY <1>1
<1>4. \A i \in DOMAIN s2c[c] :
          /\ s2c[c][i].filtered = mTransportFilters
          /\ s2c[c][i].kind = "answer" /\ s2c[c][i].call = 0 => Granted(c)
  BY DEF IInv, Agreed, Conns
<1>5. \A i \in DOMAIN s2c'[c] :
          /\ s2c'[c][i].filtered = mTransportFilters
          /\ s2c'[c][i].kind = "answer" /\ s2c'[c][i].call = 0 => Granted(c)'
  BY <1>3, <1>4
<1>6. m.kind = "answer" => \E i \in DOMAIN s2c'[c] : s2c'[c][i].kind = "answer"
  <2>1. Len(s2c[c]) + 1 \in DOMAIN s2c'[c]
    BY <1>1
  <2>2. QED
    BY <1>1, <2>1
<1>7. QED
  BY <1>2, <1>5, <1>6 DEF Agreed, AnswerComing, Granted

\* A step of the server after which nothing is left to do for the client and
\* nothing has been executed.
LEMMA Emptied ==
    ASSUME IInv, NEW c \in Conns, UNCHANGED <<clientVars, serving, srvFilters, pings, executed>>,
           srv[c] \notin {"none", "closed"}, srv' = [srv EXCEPT ![c] = "closed"],
           c2s' = [c2s EXCEPT ![c] = <<>>]
    PROVE  /\ ConnTypes' /\ SentType' /\ Switch(c)' /\ Once' /\ Untouched' /\ Executes
           /\ c2s'[c] = <<>> /\ srv'[c] = "closed" /\ DOMAIN c2s'[c] = {}
           /\ \A k \in Conns : k # c => c2s'[k] = c2s[k] /\ srv'[k] = srv[k]
           /\ (c > nconns <=> srv[c] = "none") /\ (c # conn => s2c[c] = <<>>)
           /\ nconns' = nconns /\ conn' = conn
<1>1. ConnTypes /\ SentType /\ Carried(c)
  BY Types DEF IInv, PerConn
<1>2. /\ c2s'[c] = <<>> /\ srv'[c] = "closed" /\ DOMAIN c2s'[c] = {} /\ Len(c2s'[c]) = 0
      /\ \A k \in Conns : k # c => c2s'[k] = c2s[k] /\ srv'[k] = srv[k]
  BY <1>1, Empty DEF ConnTypes, SentType
<1>3. nconns' = nconns /\ conn' = conn
  BY DEF clientVars, transportVars
<1>4. ConnTypes' /\ SentType'
  BY <1>1, <1>3, Empty DEF ConnTypes, SentType
<1>5. Switch(c)'
  BY <1>2 DEF Switch
<1>6. Moved(c, 0)
  <2>1. SUFFICES ASSUME NEW x \in Calls, NEW j \in Conns, NEW i \in 0 .. Len(c2s'[j]), Copy(x, j, i)'
                 PROVE  i \in 0 .. Len(c2s[j]) /\ Copy(x, j, i)
    BY DEF Moved
  <2>2. j # c
    BY <1>2, <2>1 DEF Copy
  <2>3. QED
    BY <1>2, <2>1, <2>2 DEF Copy, Refused
<1>7. Once' /\ Untouched' /\ Executes
  BY <1>6, ServerOnce
<1>8. QED
  BY <1>1, <1>2, <1>3, <1>4, <1>5, <1>7 DEF Carried

LEMMA EndConnectionStep ==
    ASSUME IInv, NEW c \in Conns, EndConnection(c)
    PROVE  IInv' /\ UNCHANGED <<result, ncalls>> /\ Executes
<1>1. /\ UNCHANGED <<clientVars, serving, srvFilters, pings, executed, s2c>>
      /\ srv[c] \notin {"none", "closed"} /\ srv' = [srv EXCEPT ![c] = "closed"]
      /\ c2s' = [c2s EXCEPT ![c] = <<>>]
  BY DEF EndConnection
<1>2. /\ ConnTypes' /\ SentType' /\ Switch(c)' /\ Once' /\ Untouched' /\ Executes
      /\ c2s'[c] = <<>> /\ srv'[c] = "closed" /\ DOMAIN c2s'[c] = {}
      /\ \A k \in Conns : k # c => c2s'[k] = c2s[k] /\ srv'[k] = srv[k]
      /\ (c > nconns <=> srv[c] = "none") /\ (c # conn => s2c[c] = <<>>)
      /\ nconns' = nconns /\ conn' = conn
  BY <1>1, Emptied
<1>3. ReceivedType' /\ ServerSide(c)
  BY <1>1, <1>2, Types DEF IInv, ReceivedType, ServerSide, Still
<1>4. Carried(c)'
  BY <1>1, <1>2 DEF IInv, PerConn, Carried
<1>5. conn = c => Agreed'
  BY <1>1, <1>2 DEF IInv, Agreed, Conns, clientVars, transportVars, callVars
<1>6. /\ Quiet(c) => Quiet(c)'
      /\ Leftover(c) => Leftover(c)'
      /\ \A m : Awaits(c, m) => Awaits(c, m)'
  BY <1>1, <1>2 DEF Quiet, Leftover, Awaits, Done, Refused
<1>7. QED
  BY <1>1, <1>2, <1>3, <1>4, <1>5, <1>6, ServerStep DEF clientVars, callVars

LEMMA TooLongStep ==
    ASSUME IInv, NEW c \in Conns, TooLong(c)
    PROVE  IInv' /\ UNCHANGED <<result, ncalls>> /\ Executes
<1> DEFINE t == Message(c, "tooLong", Head(c2s[c]).request.call)
<1>1. /\ UNCHANGED <<clientVars, serving, srvFilters, pings, executed>> /\ SendTo(c, t)
      /\ srv[c] \notin {"none", "closed"} /\ srv' = [srv EXCEPT ![c] = "closed"]
      /\ c2s' = [c2s EXCEPT ![c] = <<>>]
      /\ srv[c] = "reading" /\ c2s[c] # <<>> /\ Head(c2s[c]).filtered = srvFilters[c]
  BY DEF TooLong
<1>2. /\ ConnTypes' /\ SentType' /\ Switch(c)' /\ Once' /\ Untouched' /\ Executes
      /\ c2s'[c] = <<>> /\ srv'[c] = "closed" /\ DOMAIN c2s'[c] = {}
      /\ \A k \in Conns : k # c => c2s'[k] = c2s[k] /\ srv'[k] = srv[k]
      /\ (c > nconns <=> srv[c] = "none") /\ (c # conn => s2c[c] = <<>>)
      /\ nconns' = nconns /\ conn' = conn
  BY <1>1, Emptied
<1>3. t \in Received /\ t.kind = "tooLong" /\ t.filtered = srvFilters[c]
  <2>1. c2s[c] \in Seq(Sent) /\ srvFilters[c] \in BOOLEAN
    BY Types DEF IInv, SentType, ConnTypes
  <2>2. Head(c2s[c]) \in Sent
    BY <1>1, <2>1, Taken
  <2>3. Head(c2s[c]).request.call \in 0 .. MaxCalls
    BY <2>2 DEF Sent, Requests
  <2>4. QED
    BY <2>1, <2>3 DEF Message, Received
<1> HIDE DEF t
<1>4. /\ ReceivedType' /\ (\A k \in Conns : k # c => s2c'[k] = s2c[k])
      /\ c # conn => s2c'[c] = s2c[c]
      /\ c = conn => /\ Len(s2c'[c]) = Len(s2c[c]) + 1 /\ Len(s2c[c]) \in Nat
                     /\ DOMAIN s2c[c] = 1 .. Len(s2c[c])
                     /\ DOMAIN s2c'[c] = 1 .. Len(s2c[c]) + 1
                     /\ s2c'[c][Len(s2c[c]) + 1] = t
                     /\ \A i \in 1 .. Len(s2c[c]) : s2c'[c][i] = s2c[c][i]
      /\ s2c'[c] = <<>> => s2c[c] = <<>>
  BY <1>1, <1>3, Told
<1>5. ServerSide(c)
  BY <1>1, <1>2, <1>4 DEF ServerSide, Still
<1>6. c = conn => /\ mTransportFilters = srvFilters[c]
                  /\ io = "recv" => \A i \in DOMAIN s2c[c] : s2c[c][i].kind \notin {"answer", "exception"}
                  /\ \A i \in DOMAIN s2c[c] : s2c[c][i].kind # "tooLong"
  BY <1>1, OwnFilters
<1>7. Carried(c)'
  <2>1. \A i \in DOMAIN s2c'[c] : s2c'[c][i].kind = "tooLong" => i = Len(s2c'[c]) /\ c = conn
    <3>1. CASE c # conn
      BY <1>2, <1>4, <3>1, Empty
    <3>2. CASE c = conn
      <4>1. DOMAIN s2c[c] = 1 .. Len(s2c[c]) /\ \A i \in DOMAIN s2c[c] : s2c[c][i].kind # "tooLong"
        BY <1>4, <1>6, <3>2
      <4>2. \A i \in DOMAIN s2c'[c] : i = Len(s2c'[c]) \/ (i \in DOMAIN s2c[c] /\ s2c'[c][i] = s2c[c][i])
        BY <1>4, <3>2
      <4>3. QED
        BY <3>2, <4>1, <4>2
    <3>3. QED
      BY <3>1, <3>2
  <2>2. QED
    BY <1>1, <1>2, <1>4, <2>1 DEF IInv, PerConn, Carried
<1>8. conn = c => Agreed'
  BY <1>1, <1>2, <1>3, <1>6, ToldAgreed DEF Granted
<1>9. ASSUME conn = c PROVE /\ Quiet(c) => Quiet(c)'
                            /\ Leftover(c) => Leftover(c)'
                            /\ \A m : Awaits(c, m) => Awaits(c, m)'
  <2>1. \A i \in DOMAIN s2c'[c] : s2c'[c][i] = t \/ (i \in DOMAIN s2c[c] /\ s2c'[c][i] = s2c[c][i])
    BY <1>4, <1>9
  <2>2. ASSUME Leftover(c) PROVE "oneway" \in Kinds
    <3>1. c2s[c] \in Seq(Sent)
      BY Types DEF IInv, SentType
    <3>2. 1 \in DOMAIN c2s[c]
      BY <1>1, <3>1, Elements
    <3>3. QED
      BY <2>2, <3>2 DEF Leftover
  <2>3. Leftover(c) => Leftover(c)'
    BY <1>2, <1>3, <2>1, <2>2 DEF Leftover
  <2>4. Quiet(c) => Quiet(c)'
    BY <1>2, <2>3 DEF Quiet
  <2>5. ASSUME NEW m, Awaits(c, m) PROVE Awaits(c, m)'
    BY <1>1, <1>2, <1>3, <2>1, <2>5, <1>4, <1>9 DEF Awaits, Done, Refused
  <2>6. QED
    BY <2>3, <2>4, <2>5
<1>10. QED
  BY <1>1, <1>2, <1>4, <1>5, <1>7, <1>8, <1>9, ServerStep DEF clientVars, callVars

LEMMA WriteCompletedStep ==
    ASSUME IInv, NEW c \in Conns, WriteCompleted(c)
    PROVE  IInv' /\ UNCHANGED <<result, ncalls>> /\ Executes
<1>1. /\ UNCHANGED clientVars /\ UNCHANGED <<c2s, s2c, serving, pings, executed>>
      /\ srv[c] \in {"replied", "granting"} /\ srv' = [srv EXCEPT ![c] = "reading"]
      /\ srvFilters' = [srvFilters EXCEPT ![c] = @ \/ srv[c] = "granting"]
  BY DEF WriteCompleted, netVars
<1>2. ConnTypes /\ SentType /\ ReceivedType /\ Carried(c) /\ Switch(c)
  BY Types DEF IInv, PerConn
<1>3. /\ srv'[c] = "reading" /\ srvFilters'[c] = Granted(c)
      /\ \A k \in Conns : k # c => srv'[k] = srv[k] /\ srvFilters'[k] = srvFilters[k]
  BY <1>1, <1>2 DEF ConnTypes, Granted
<1>4. Granted(c)' = Granted(c)
  BY <1>2, <1>3 DEF Granted, ConnTypes
<1>5. nconns' = nconns /\ conn' = conn
  BY <1>1 DEF clientVars, transportVars
<1>6. ConnTypes' /\ SentType' /\ ReceivedType'
  BY <1>1, <1>2, <1>5 DEF ConnTypes, SentType, ReceivedType
<1>7. ServerSide(c)
  BY <1>1, <1>3 DEF ServerSide, Still
<1>8. Carried(c)' /\ Switch(c)'
  <2>1. ncalls' = ncalls
    BY <1>1 DEF clientVars, callVars
  <2>2. Carried(c)'
    BY <1>1, <1>2, <1>3, <1>5, <2>1 DEF Carried
  <2>3. Switch(c)'
    BY <1>1, <1>2, <1>3, <1>4 DEF Switch, Refused
  <2>4. QED
    BY <2>2, <2>3
<1>9. Moved(c, 0)
  <2>1. SUFFICES ASSUME NEW x \in Calls, NEW j \in Conns, NEW i \in 0 .. Len(c2s'[j]), Copy(x, j, i)'
                 PROVE  i + 0 \in 0 .. Len(c2s[j]) /\ Copy(x, j, i + 0) /\ Copy(x, j, i)
    BY DEF Moved
  <2>2. Copy(x, j, i)
    BY <1>1, <1>3, <2>1 DEF Copy, Refused
  <2>3. i + 0 = i
    BY <1>1, <1>2, <2>1, Elements DEF SentType
  <2>4. QED
    BY <1>1, <2>1, <2>2, <2>3
<1>10. Once' /\ Untouched' /\ Executes
  BY <1>1, <1>9, ServerOnce
<1>11. conn = c => Agreed'
  BY <1>1, <1>3, <1>4, <1>5 DEF IInv, Agreed, AnswerComing, Conns, clientVars, callVars, transportVars
<1>12. /\ Quiet(c) => Quiet(c)'
       /\ Leftover(c) => Leftover(c)'
       /\ \A m : Awaits(c, m) => Awaits(c, m)'
  BY <1>1, <1>3 DEF Quiet, Leftover, Awaits, Done, Refused, RefusalsRetried
<1>13. QED
  BY <1>1, <1>6, <1>7, <1>8, <1>10, <1>11, <1>12, ServerStep DEF clientVars, callVars

LEMMA SendPingBackStep ==
    ASSUME IInv, NEW c \in Conns, SendPingBack(c)
    PROVE  IInv' /\ UNCHANGED <<result, ncalls>> /\ Executes
<1> DEFINE t == Message(c, "ping", serving[c].call)
<1>1. /\ UNCHANGED <<clientVars, c2s, srv, serving, srvFilters, executed>> /\ SendTo(c, t)
      /\ srv[c] = "serving" /\ pings[c] < MaxPings /\ pings' = [pings EXCEPT ![c] = @ + 1]
  BY DEF SendPingBack
<1>2. ConnTypes /\ SentType /\ ReceivedType /\ Carried(c) /\ Switch(c)
  BY Types DEF IInv, PerConn
<1>3. t \in Received /\ t.kind = "ping" /\ t.filtered = srvFilters[c]
  BY <1>2 DEF ConnTypes, Requests, Message, Received
<1> HIDE DEF t
<1>4. /\ ReceivedType' /\ (\A k \in Conns : k # c => s2c'[k] = s2c[k])
      /\ c # conn => s2c'[c] = s2c[c]
      /\ c = conn => /\ Len(s2c'[c]) = Len(s2c[c]) + 1 /\ Len(s2c[c]) \in Nat
                     /\ DOMAIN s2c[c] = 1 .. Len(s2c[c])
                     /\ DOMAIN s2c'[c] = 1 .. Len(s2c[c]) + 1
                     /\ s2c'[c][Len(s2c[c]) + 1] = t
                     /\ \A i \in 1 .. Len(s2c[c]) : s2c'[c][i] = s2c[c][i]
      /\ s2c'[c] = <<>> => s2c[c] = <<>>
  BY <1>1, <1>3, Told
<1>5. nconns' = nconns /\ conn' = conn /\ ncalls' = ncalls
  BY <1>1 DEF clientVars, transportVars, callVars
<1>6. ConnTypes' /\ SentType'
  <2>1. pings' \in [Conns -> 0 .. MaxPings]
    BY <1>1, <1>2, Bounds DEF ConnTypes
  <2>2. QED
    BY <1>1, <1>2, <1>5, <2>1 DEF ConnTypes, SentType
<1>7. ServerSide(c)
  BY <1>1, <1>4 DEF ServerSide, Still
<1>8. c = conn => /\ mTransportFilters = srvFilters[c]
                  /\ io = "recv" => \A i \in DOMAIN s2c[c] : s2c[c][i].kind \notin {"answer", "exception"}
                  /\ \A i \in DOMAIN s2c[c] : s2c[c][i].kind # "tooLong"
                  /\ io = "recv" /\ "oneway" \notin Kinds =>
                         \A i \in DOMAIN s2c[c] : s2c[c][i].kind # "mismatch"
  BY <1>1, OwnFilters
<1>9. c = conn => \A i \in DOMAIN s2c'[c] : s2c'[c][i] = t \/ (i \in DOMAIN s2c[c] /\ s2c'[c][i] = s2c[c][i])
  BY <1>4
<1>10. Carried(c)' /\ Switch(c)'
  <2>1. \A i \in DOMAIN s2c'[c] : s2c'[c][i].kind # "tooLong"
    <3>1. CASE c # conn
      BY <1>2, <1>4, <3>1, Empty DEF Carried
    <3>2. CASE c = conn
      BY <1>3, <1>8, <1>9, <3>2
    <3>3. QED
      BY <3>1, <3>2
  <2>2. Carried(c)'
    BY <1>1, <1>2, <1>4, <1>5, <2>1 DEF Carried
  <2>3. Switch(c)'
    BY <1>1, <1>2 DEF Switch, Granted, Refused
  <2>4. QED
    BY <2>2, <2>3
<1>11. Moved(c, 0)
  <2>1. SUFFICES ASSUME NEW x \in Calls, NEW j \in Conns, NEW i \in 0 .. Len(c2s'[j]), Copy(x, j, i)'
                 PROVE  i + 0 \in 0 .. Len(c2s[j]) /\ Copy(x, j, i + 0) /\ Copy(x, j, i)
    BY DEF Moved
  <2>2. Copy(x, j, i)
    BY <1>1, <2>1 DEF Copy, Refused
  <2>3. i + 0 = i
    BY <1>1, <1>2, <2>1, Elements DEF SentType
  <2>4. QED
    BY <1>1, <2>1, <2>2, <2>3
<1>12. Once' /\ Untouched' /\ Executes
  BY <1>1, <1>11, ServerOnce
<1>13. conn = c => Agreed'
  <2>1. conn = c => mTransportFilters = Granted(c)'
    BY <1>1, <1>2, <1>8 DEF Granted, ConnTypes
  <2>2. QED
    BY <1>1, <1>3, <1>8, <2>1, ToldAgreed DEF Granted
<1>14. ASSUME conn = c PROVE /\ Quiet(c) => Quiet(c)'
                             /\ Leftover(c) => Leftover(c)'
                             /\ \A m : Awaits(c, m) => Awaits(c, m)'
  <2>1. ~Leftover(c) /\ ~Quiet(c)
    BY <1>1 DEF Leftover, Quiet
  <2>2. ASSUME NEW m, Awaits(c, m) PROVE Awaits(c, m)'
    <3>1. ~Refused(m) /\ serving[c] = m /\ c2s[c] = <<>>
      BY <1>1, <2>2 DEF Awaits
    <3>2. \A i \in DOMAIN s2c[c] : /\ s2c[c][i].kind \notin {"answer", "exception"}
                                   /\ s2c[c][i].kind = "mismatch" => "oneway" \in Kinds
      BY <1>1, <2>2 DEF Awaits, Done
    <3>3. QED
      BY <1>1, <1>3, <1>9, <1>14, <2>2, <3>1, <3>2 DEF Awaits, Done, Refused
  <2>3. QED
    BY <2>1, <2>2
<1>15. QED
  BY <1>1, <1>4, <1>6, <1>7, <1>10, <1>12, <1>13, <1>14, ServerStep DEF clientVars, callVars

LEMMA ReplyStep ==
    ASSUME IInv, NEW c \in Conns, Reply(c)
    PROVE  IInv' /\ UNCHANGED <<result, ncalls>> /\ Executes
<1>1. PICK kind \in {"answer", "exception"} :
          /\ SendTo(c, Message(c, kind, serving[c].call))
          /\ srv' = [srv EXCEPT ![c] = IF GrantsFilters(serving[c].call, kind) THEN "granting" ELSE "replied"]
  BY DEF Reply
<1> DEFINE call == serving[c].call
           t == Message(c, kind, call)
           granted == call = 0 /\ kind = "answer"
<1>2. /\ UNCHANGED <<clientVars, c2s, serving, srvFilters, pings>> /\ SendTo(c, t)
      /\ srv[c] = "serving" /\ srv' = [srv EXCEPT ![c] = IF granted THEN "granting" ELSE "replied"]
      /\ executed' = IF call = 0 THEN executed ELSE [executed EXCEPT ![call] = @ + 1]
  BY <1>1 DEF Reply, GrantsFilters
<1>3. ConnTypes /\ SentType /\ ReceivedType /\ Carried(c) /\ Switch(c)
  BY Types DEF IInv, PerConn
<1>4. t \in Received /\ t.kind = kind /\ t.filtered = srvFilters[c] /\ t.call = call
      /\ call \in 0 .. MaxCalls /\ (call # 0 => call \in Calls)
  BY <1>3, Bounds DEF ConnTypes, Requests, Message, Received, Calls
<1> HIDE DEF t
<1>5. /\ ReceivedType' /\ (\A k \in Conns : k # c => s2c'[k] = s2c[k])
      /\ c # conn => s2c'[c] = s2c[c]
      /\ c = conn => /\ Len(s2c'[c]) = Len(s2c[c]) + 1 /\ Len(s2c[c]) \in Nat
                     /\ DOMAIN s2c[c] = 1 .. Len(s2c[c])
                     /\ DOMAIN s2c'[c] = 1 .. Len(s2c[c]) + 1
                     /\ s2c'[c][Len(s2c[c]) + 1] = t
                     /\ \A i \in 1 .. Len(s2c[c]) : s2c'[c][i] = s2c[c][i]
      /\ s2c'[c] = <<>> => s2c[c] = <<>>
  BY <1>2, <1>4, Told
<1>6. nconns' = nconns /\ conn' = conn /\ ncalls' = ncalls
  BY <1>2 DEF clientVars, transportVars, callVars
<1>7. /\ srv'[c] = IF granted THEN "granting" ELSE "replied"
      /\ \A k \in Conns : k # c => srv'[k] = srv[k]
  BY <1>2, <1>3 DEF ConnTypes
<1>8. ConnTypes' /\ SentType'
  <2>1. executed' \in [Calls -> Nat]
    <3>1. executed \in [Calls -> Nat] /\ (call # 0 => call \in Calls)
      BY <1>3, <1>4 DEF ConnTypes
    <3> HIDE DEF call
    <3>2. QED
      BY <1>2, <3>1
  <2>2. QED
    BY <1>2, <1>3, <1>6, <2>1 DEF ConnTypes, SentType
<1>9. c = conn => /\ mTransportFilters = srvFilters[c]
                  /\ io = "recv" => \A i \in DOMAIN s2c[c] : s2c[c][i].kind \notin {"answer", "exception"}
                  /\ \A i \in DOMAIN s2c[c] : s2c[c][i].kind # "tooLong"
                  /\ io = "recv" /\ "oneway" \notin Kinds =>
                         \A i \in DOMAIN s2c[c] : s2c[c][i].kind # "mismatch"
  BY <1>2, OwnFilters
<1>10. c = conn => \A i \in DOMAIN s2c'[c] : \/ i = Len(s2c'[c]) /\ s2c'[c][i] = t
                                             \/ i \in DOMAIN s2c[c] /\ s2c'[c][i] = s2c[c][i]
  BY <1>5
<1>11. Carried(c)' /\ Switch(c)'
  <2>1. \A i \in DOMAIN s2c'[c] : s2c'[c][i].kind # "tooLong"
    <3>1. CASE c # conn
      BY <1>3, <1>5, <3>1, Empty DEF Carried
    <3>2. CASE c = conn
      BY <1>4, <1>9, <1>10, <3>2
    <3>3. QED
      BY <3>1, <3>2
  <2>2. Carried(c)'
    BY <1>2, <1>3, <1>5, <1>6, <1>7, <2>1 DEF Carried
  <2>3. Switch(c)'
    <3>1. CASE granted
      <4>1. c2s'[c] = <<>> /\ DOMAIN c2s'[c] = {}
        BY <1>2, <1>3, <3>1, Empty DEF Switch
      <4>2. QED
        BY <4>1 DEF Switch
    <3>2. CASE ~granted
      BY <1>2, <1>3, <1>7, <3>2 DEF Switch, Granted, Refused
    <3>3. QED
      BY <3>1, <3>2
  <2>4. QED
    BY <2>2, <2>3
<1>12. Moved(c, 0)
  <2>1. SUFFICES ASSUME NEW x \in Calls, NEW j \in Conns, NEW i \in 0 .. Len(c2s'[j]), Copy(x, j, i)'
                 PROVE  i + 0 \in 0 .. Len(c2s[j]) /\ Copy(x, j, i + 0) /\ Copy(x, j, i)
    BY DEF Moved
  <2>2. Copy(x, j, i)
    BY <1>2, <1>7, <2>1 DEF Copy, Refused
  <2>3. i + 0 = i
    BY <1>2, <1>3, <2>1, Elements DEF SentType
  <2>4. QED
    BY <1>2, <2>1, <2>2, <2>3
<1>13. Once' /\ Untouched' /\ Executes /\ \A x \in Calls : executed[x] # 0 => executed'[x] # 0
  <2>1. CASE call = 0
    BY <1>2, <1>12, <2>1, ServerOnce
  <2>2. CASE call # 0
    <3>1. 0 \in 0 .. Len(c2s[c])
      BY <1>3, Elements DEF SentType
    <3>2. Copy(call, c, 0)
      BY <1>2 DEF Copy
    <3>3. PICK e \in Calls : e = call
      BY <1>4, <2>2
    <3>4. \A i \in 0 .. Len(c2s'[c]) : Copy(e, c, i)' => i + 0 # 0
      <4>1. SUFFICES ASSUME NEW i \in 0 .. Len(c2s'[c]), Copy(e, c, i)', i + 0 = 0 PROVE FALSE
        OBVIOUS
      <4>2. i = 0
        BY <1>2, <1>3, <4>1, Elements DEF SentType
      <4>3. QED
        BY <1>7, <4>1, <4>2 DEF Copy
    <3>5. Consumes(e, c, 0, 0)
      BY <1>2, <2>2, <3>1, <3>2, <3>3, <3>4 DEF Consumes
    <3>6. QED
      BY <1>2, <1>12, <3>5, ServerOnce
  <2>3. QED
    BY <2>1, <2>2
<1>14. ServerSide(c)
  BY <1>2, <1>5, <1>7, <1>13 DEF ServerSide, Still
<1>15. ASSUME conn = c
       PROVE  io = "recv" /\ Awaits(c, mRequest[Running])
  <2>1. Exchange /\ conn # 0 /\ CallTypes /\ Places
    BY <1>15, Types DEF IInv, Conns
  <2>2. ~Leftover(c) /\ ~Quiet(c)
    BY <1>2 DEF Leftover, Quiet
  <2>3. QED
    BY <1>15, <2>1, <2>2 DEF Exchange, CallTypes
<1>16. conn = c => Agreed'
  <2>1. SUFFICES ASSUME conn = c PROVE Agreed'
    OBVIOUS
  <2>2. granted => phase = "negotiate" /\ io = "recv"
    <3>1. CallTypes /\ Places /\ Encoded
      BY Types DEF IInv
    <3>2. granted => mRequest[Running].call = 0
      BY <1>2, <1>15, <2>1 DEF Awaits
    <3>3. QED
      BY <1>15, <2>1, <3>1, <3>2 DEF Places, Encoded, Running, CallTypes
  <2>3. granted => Granted(c)'
    BY <1>7 DEF Granted
  <2>4. Granted(c) => Granted(c)'
    BY <1>2 DEF Granted
  <2>5. ~granted => mTransportFilters = Granted(c)'
    BY <1>2, <1>3, <1>7, <1>9, <2>1 DEF Granted, ConnTypes
  <2>6. QED
    BY <1>2, <1>4, <1>9, <2>1, <2>2, <2>3, <2>4, <2>5, ToldAgreed
<1>17. ASSUME conn = c PROVE /\ Quiet(c) => Quiet(c)'
                             /\ Leftover(c) => Leftover(c)'
                             /\ \A m : Awaits(c, m) => Awaits(c, m)'
  <2>1. ~Leftover(c) /\ ~Quiet(c)
    BY <1>2 DEF Leftover, Quiet
  <2>2. ASSUME NEW m, Awaits(c, m) PROVE Awaits(c, m)'
    <3>1. ~Refused(m) /\ serving[c] = m /\ c2s[c] = <<>> /\ m.call = call
      BY <1>2, <2>2 DEF Awaits
    <3>2. \A i \in DOMAIN s2c[c] : /\ s2c[c][i].kind \notin {"answer", "exception"}
                                   /\ s2c[c][i].kind = "mismatch" => "oneway" \in Kinds
      BY <1>2, <2>2 DEF Awaits, Done
    <3>3. call # 0 => executed'[call] # 0
      BY <1>2, <1>3, <1>4 DEF ConnTypes
    <3>4. Done(c)' /\ srv'[c] # "serving"
      BY <1>2, <1>7, <3>1 DEF Done
    <3>5. ASSUME NEW i \in DOMAIN s2c'[c]
          PROVE  LET r == s2c'[c][i]
                 IN  /\ r.kind \in {"answer", "exception"} => i = Len(s2c'[c]) /\ r.call = m.call
                     /\ r.kind = "answer" /\ r.call # 0 => executed'[r.call] # 0
                     /\ r.kind = "mismatch" => "oneway" \in Kinds
      <4>1. CASE i = Len(s2c'[c]) /\ s2c'[c][i] = t
        BY <4>1, <1>4, <3>1, <3>3
      <4>2. CASE i \in DOMAIN s2c[c] /\ s2c'[c][i] = s2c[c][i]
        BY <4>2, <3>2
      <4>3. QED
        BY <1>10, <1>17, <3>5, <4>1, <4>2
    <3>6. QED
      BY <1>2, <2>2, <3>1, <3>4, <3>5 DEF Awaits, Refused
  <2>3. QED
    BY <2>1, <2>2
<1>18. QED
  BY <1>2, <1>5, <1>8, <1>11, <1>13, <1>14, <1>16, <1>17, ServerStep DEF clientVars, callVars

\* The server takes a message off the stream, and begins to serve it only if
\* it does not refuse it.
LEMMA Heard ==
    ASSUME IInv, NEW c \in Conns, srv[c] = "reading", c2s[c] # <<>>, UNCHANGED clientVars,
           c2s' = [c2s EXCEPT ![c] = Tail(@)],
           \A k \in Conns : k # c => srv'[k] = srv[k] /\ serving'[k] = serving[k],
           srv'[c] = "serving" => /\ serving'[c] = Head(c2s[c]).request
                                  /\ ~Refused(Head(c2s[c]).request)
    PROVE  /\ SentType' /\ Moved(c, 1)
           /\ Len(c2s[c]) \in Nat \ {0} /\ Len(c2s'[c]) = Len(c2s[c]) - 1
           /\ DOMAIN c2s[c] = 1 .. Len(c2s[c]) /\ DOMAIN c2s'[c] = 1 .. Len(c2s[c]) - 1
           /\ \A i \in 1 .. Len(c2s[c]) - 1 : c2s'[c][i] = c2s[c][i + 1]
           /\ \A k \in Conns : k # c => c2s'[k] = c2s[k]
           /\ c2s[c][1] = Head(c2s[c]) /\ Head(c2s[c]) \in Sent
           /\ Len(c2s[c]) = 1 => c2s'[c] = <<>>
<1>1. SentType /\ c2s[c] \in Seq(Sent)
  BY Types DEF IInv, SentType
<1>2. c2s'[c] = Tail(c2s[c]) /\ c2s'[c] \in Seq(Sent) /\ SentType'
      /\ \A k \in Conns : k # c => c2s'[k] = c2s[k]
  BY <1>1, Taken DEF SentType
<1>3. /\ Len(c2s[c]) \in Nat \ {0} /\ Len(c2s'[c]) = Len(c2s[c]) - 1
      /\ \A i \in 1 .. Len(c2s[c]) - 1 : c2s'[c][i] = c2s[c][i + 1]
      /\ c2s[c][1] = Head(c2s[c]) /\ Head(c2s[c]) \in Sent
  <2>1. PICK w \in Seq(Sent) : w = c2s[c]
    BY <1>1
  <2>2. /\ Len(Tail(w)) = Len(w) - 1 /\ Len(w) \in Nat \ {0}
        /\ \A i \in 1 .. Len(w) - 1 : Tail(w)[i] = w[i + 1]
        /\ Head(w) = w[1] /\ Head(w) \in Sent
    BY <2>1, Taken
  <2>3. QED
    BY <1>2, <2>1, <2>2
<1>4. DOMAIN c2s[c] = 1 .. Len(c2s[c]) /\ DOMAIN c2s'[c] = 1 .. Len(c2s'[c])
      /\ (Len(c2s[c]) = 1 => c2s'[c] = <<>>)
  <2>1. DOMAIN c2s[c] = 1 .. Len(c2s[c]) /\ DOMAIN c2s'[c] = 1 .. Len(c2s'[c])
    BY <1>1, <1>2, Elements
  <2>2. Len(c2s[c]) = 1 => c2s'[c] = <<>>
    BY <1>1, <1>2, EmptyTail
  <2>3. QED
    BY <2>1, <2>2
<1>5. Moved(c, 1)
  <2>1. SUFFICES ASSUME NEW x \in Calls, NEW j \in Conns, NEW i \in 0 .. Len(c2s'[j]), Copy(x, j, i)'
                 PROVE  LET p == IF j = c THEN i + 1 ELSE i IN p \in 0 .. Len(c2s[j]) /\ Copy(x, j, p)
    BY DEF Moved
  <2>2. CASE j # c
    BY <1>2, <2>1, <2>2 DEF Copy, Refused
  <2>3. CASE j = c /\ i = 0
    <3>1. srv'[c] = "serving" /\ serving'[c].call = x
      BY <2>1, <2>3 DEF Copy
    <3>2. c2s[c][1].request.call = x /\ ~Refused(c2s[c][1].request)
      BY <1>3, <3>1
    <3>3. i + 1 = 1 /\ 1 \in 0 .. Len(c2s[c])
      BY <1>3, <2>3
    <3>4. Copy(x, c, 1)
      BY <3>2 DEF Copy
    <3>5. QED
      BY <2>3, <3>3, <3>4
  <2>4. CASE j = c /\ i # 0
    <3>1. i \in 1 .. Len(c2s[c]) - 1 /\ i + 1 \in 0 .. Len(c2s[c]) /\ i + 1 # 0
      BY <1>3, <2>1, <2>4
    <3>2. c2s'[c][i].request.call = x /\ ~Refused(c2s'[c][i].request)
      BY <2>1, <2>4 DEF Copy, Refused
    <3>3. c2s[c][i + 1].request.call = x /\ ~Refused(c2s[c][i + 1].request)
      BY <1>3, <3>1, <3>2
    <3>4. QED
      BY <2>4, <3>1, <3>3 DEF Copy
  <2>5. QED
    BY <2>2, <2>3, <2>4
<1>6. QED
  BY <1>2, <1>3, <1>4, <1>5

\* What taking a message leaves true of the messages that follow.
LEMMA HeardConn ==
    ASSUME IInv, NEW c \in Conns, srv[c] = "reading", c2s[c] # <<>>, UNCHANGED clientVars,
           c2s' = [c2s EXCEPT ![c] = Tail(@)], srvFilters' = srvFilters,
           \A k \in Conns : k # c => srv'[k] = srv[k] /\ serving'[k] = serving[k],
           srv'[c] \in {"reading", "serving"},
           srv'[c] = "serving" => /\ serving'[c] = Head(c2s[c]).request
                                  /\ ~Refused(Head(c2s[c]).request)
    PROVE  /\ Switch(c)' /\ Granted(c)' = Granted(c)
           /\ c \in 1 .. nconns' /\ srvFilters'[c] = srvFilters[c] /\ srv'[c] # "none"
           /\ srv'[c] = "serving" => serving'[c].call <= ncalls'
           /\ Head(c2s[c]).request.oneway => Head(c2s[c]).request.call # 0 /\ "oneway" \in Kinds
           /\ \A i \in DOMAIN c2s'[c] : LET m == c2s'[c][i].request
                                        IN  /\ m.call <= ncalls' /\ (m.oneway => "oneway" \in Kinds)
                                            /\ m.call = 0 => ~m.oneway
<1>1. /\ Len(c2s[c]) \in Nat \ {0} /\ Len(c2s'[c]) = Len(c2s[c]) - 1
      /\ DOMAIN c2s[c] = 1 .. Len(c2s[c]) /\ DOMAIN c2s'[c] = 1 .. Len(c2s[c]) - 1
      /\ \A i \in 1 .. Len(c2s[c]) - 1 : c2s'[c][i] = c2s[c][i + 1]
      /\ c2s[c][1] = Head(c2s[c])
      /\ Len(c2s[c]) = 1 => c2s'[c] = <<>>
  BY Heard
<1>2. ConnTypes /\ Carried(c) /\ Switch(c)
  BY Types DEF IInv, PerConn
<1>3. nconns' = nconns /\ ncalls' = ncalls
  BY DEF clientVars, callVars, transportVars
<1>4. 1 \in DOMAIN c2s[c] /\ \A i \in DOMAIN c2s'[c] : i + 1 \in DOMAIN c2s[c] /\ c2s'[c][i] = c2s[c][i + 1]
  BY <1>1
<1>5. Granted(c)' = Granted(c) /\ Granted(c) = srvFilters[c]
  BY <1>2 DEF Granted, ConnTypes
<1>6. Switch(c)'
  <2>1. ASSUME NEW i \in DOMAIN c2s'[c]
        PROVE  /\ c2s'[c][i].filtered = Granted(c)'
               /\ c2s'[c][i].request.call = 0 /\ ~Refused(c2s'[c][i].request) => i = Len(c2s'[c])
    <3>1. i + 1 \in DOMAIN c2s[c] /\ c2s'[c][i] = c2s[c][i + 1]
      BY <1>4, <2>1
    <3>2. c2s'[c][i].filtered = Granted(c)'
      BY <1>2, <1>5, <3>1 DEF Switch
    <3>3. c2s'[c][i].request.call = 0 /\ ~Refused(c2s'[c][i].request) => i + 1 = Len(c2s[c])
      BY <1>2, <3>1 DEF Switch
    <3>4. i + 1 = Len(c2s[c]) => i = Len(c2s'[c])
      BY <1>1, <2>1
    <3>5. QED
      BY <3>2, <3>3, <3>4
  <2>2. ASSUME srv'[c] = "serving", serving'[c].call = 0 PROVE c2s'[c] = <<>>
    <3>1. c2s[c][1].request.call = 0 /\ ~Refused(c2s[c][1].request)
      BY <1>1, <2>2
    <3>2. 1 = Len(c2s[c])
      BY <1>2, <1>4, <3>1 DEF Switch
    <3>3. QED
      BY <1>1, <3>2
  <2>3. QED
    BY <2>1, <2>2 DEF Switch, Refused
<1>7. c \in 1 .. nconns
  BY <1>2, Bounds DEF Carried, Conns, ConnTypes
<1>8. QED
  BY <1>1, <1>2, <1>3, <1>4, <1>5, <1>6, <1>7 DEF Carried

\* What is owed on the connection of the client is the same after it.
LEMMA HeardOwed ==
    ASSUME IInv, NEW c \in Conns, srv[c] = "reading", c2s[c] # <<>>, UNCHANGED clientVars,
           c2s' = [c2s EXCEPT ![c] = Tail(@)],
           \A k \in Conns : k # c => srv'[k] = srv[k] /\ serving'[k] = serving[k],
           srv'[c] \in {"reading", "serving"},
           srv'[c] = "serving" => /\ serving'[c] = Head(c2s[c]).request
                                  /\ ~Refused(Head(c2s[c]).request) /\ ~Head(c2s[c]).request.oneway,
           \A i \in DOMAIN s2c'[c] :
               \/ i \in DOMAIN s2c[c] /\ s2c'[c][i] = s2c[c][i]
               \/ i = Len(s2c'[c]) /\ s2c'[c][i].kind = "mismatch" /\ srv'[c] = "reading"
    PROVE  /\ Quiet(c) => Quiet(c)'
           /\ Leftover(c) => Leftover(c)'
           /\ \A m : Awaits(c, m) => Awaits(c, m)'
<1>1. /\ Len(c2s[c]) \in Nat \ {0} /\ Len(c2s'[c]) = Len(c2s[c]) - 1
      /\ DOMAIN c2s[c] = 1 .. Len(c2s[c]) /\ DOMAIN c2s'[c] = 1 .. Len(c2s[c]) - 1
      /\ \A i \in 1 .. Len(c2s[c]) - 1 : c2s'[c][i] = c2s[c][i + 1]
      /\ c2s[c][1] = Head(c2s[c])
      /\ Len(c2s[c]) = 1 => c2s'[c] = <<>>
  BY Heard
<1>2. 1 \in DOMAIN c2s[c]
      /\ \A i \in DOMAIN c2s'[c] : /\ i + 1 \in DOMAIN c2s[c] /\ c2s'[c][i] = c2s[c][i + 1]
                                   /\ i = Len(c2s'[c]) <=> i + 1 = Len(c2s[c])
  BY <1>1
<1>3. ASSUME Leftover(c) PROVE Leftover(c)'
  <2>1. "oneway" \in Kinds /\ (c2s[c][1].request.oneway \/ Refused(c2s[c][1].request))
    BY <1>2, <1>3 DEF Leftover
  <2>2. srv'[c] # "serving"
    BY <1>1, <2>1
  <2>3. \A i \in DOMAIN s2c'[c] : s2c'[c][i].kind \in {"mismatch", "tooLong"}
    BY <1>3 DEF Leftover
  <2>4. \A i \in DOMAIN c2s'[c] : c2s'[c][i].request.oneway \/ Refused(c2s'[c][i].request)
    BY <1>2, <1>3 DEF Leftover
  <2>5. QED
    BY <2>1, <2>2, <2>3, <2>4 DEF Leftover, Refused
<1>4. ASSUME Quiet(c) PROVE Quiet(c)'
  BY <1>2, <1>3, <1>4 DEF Quiet, RefusalsRetried
<1>5. ASSUME NEW m, Awaits(c, m) PROVE Awaits(c, m)'
  <2>1. ASSUME NEW i \in DOMAIN c2s'[c]
        PROVE  IF i = Len(c2s'[c]) THEN c2s'[c][i].request = m
               ELSE /\ c2s'[c][i].request.oneway \/ Refused(c2s'[c][i].request)
                    /\ "oneway" \in Kinds
    BY <1>2, <1>5, <2>1 DEF Awaits
  <2>2. IF Len(c2s[c]) = 1 THEN c2s[c][1].request = m
        ELSE (c2s[c][1].request.oneway \/ Refused(c2s[c][1].request)) /\ "oneway" \in Kinds
    BY <1>2, <1>5 DEF Awaits
  <2>3. srv'[c] = "serving" => serving'[c] = m /\ c2s'[c] = <<>> /\ ~Refused(m)
    BY <1>1, <2>2
  <2>4. \A i \in DOMAIN s2c[c] : /\ s2c[c][i].kind \notin {"answer", "exception"}
                                 /\ s2c[c][i].kind = "ping" => ~Refused(m)
                                 /\ s2c[c][i].kind = "mismatch" => "oneway" \in Kinds
    BY <1>5 DEF Awaits, Done
  <2>5. srv'[c] = "reading" /\ "oneway" \notin Kinds => Done(c)'
    BY <1>1, <2>2 DEF Done
  <2>6. ASSUME NEW i \in DOMAIN s2c'[c]
        PROVE  /\ s2c'[c][i].kind \notin {"answer", "exception"}
               /\ s2c'[c][i].kind = "ping" => ~Refused(m)
               /\ s2c'[c][i].kind = "mismatch" /\ "oneway" \notin Kinds => i = Len(s2c'[c]) /\ Done(c)'
    BY <2>4, <2>5, <2>6
  <2>7. QED
    BY <2>1, <2>3, <2>6 DEF Awaits, Refused
<1>6. QED
  BY <1>3, <1>4, <1>5

LEMMA ReadStep ==
    ASSUME IInv, NEW c \in Conns, Read(c)
    PROVE  IInv' /\ UNCHANGED <<result, ncalls>> /\ Executes
<1>1. CASE Head(c2s[c]).filtered # srvFilters[c]
  BY <1>1, EndConnectionStep DEF Read, EndConnection
<1>2. CASE Head(c2s[c]).filtered = srvFilters[c]
  <2> DEFINE m == Head(c2s[c]).request
             t == Message(c, "mismatch", m.call)
  <2>1. /\ srv[c] = "reading" /\ c2s[c] # <<>> /\ c2s' = [c2s EXCEPT ![c] = Tail(@)]
        /\ UNCHANGED <<clientVars, srvFilters, pings>>
        /\ \/ Refused(m) /\ SendTo(c, t) /\ UNCHANGED <<srv, serving, executed>>
           \/ /\ ~Refused(m) /\ m.oneway /\ executed' = [executed EXCEPT ![m.call] = @ + 1]
              /\ UNCHANGED <<srv, serving, s2c>>
           \/ /\ ~Refused(m) /\ ~m.oneway /\ UNCHANGED <<executed, s2c>>
              /\ srv' = [srv EXCEPT ![c] = "serving"] /\ serving' = [serving EXCEPT ![c] = m]
    BY <1>2 DEF Read
  <2>2. ConnTypes /\ SentType /\ ReceivedType /\ Carried(c) /\ Switch(c)
    BY Types DEF IInv, PerConn
  <2>3. /\ \A k \in Conns : k # c => srv'[k] = srv[k] /\ serving'[k] = serving[k]
        /\ srv'[c] \in {"reading", "serving"}
        /\ srv'[c] = "serving" => serving'[c] = m /\ ~Refused(m) /\ ~m.oneway
    <3>1. srv \in [Conns -> {"none", "reading", "serving", "replied", "granting", "closed"}]
          /\ serving \in [Conns -> Requests]
      BY <2>2 DEF ConnTypes
    <3>2. CASE UNCHANGED <<srv, serving>>
      BY <2>1, <3>2
    <3>3. CASE /\ ~Refused(m) /\ ~m.oneway
               /\ srv' = [srv EXCEPT ![c] = "serving"] /\ serving' = [serving EXCEPT ![c] = m]
      BY <3>1, <3>3
    <3>4. QED
      BY <2>1, <3>2, <3>3
  <2>4. /\ SentType' /\ Moved(c, 1)
        /\ Len(c2s[c]) \in Nat \ {0} /\ Len(c2s'[c]) = Len(c2s[c]) - 1
        /\ \A k \in Conns : k # c => c2s'[k] = c2s[k]
        /\ c2s[c][1] = Head(c2s[c]) /\ Head(c2s[c]) \in Sent
    BY <2>1, <2>3, Heard
  <2>5. /\ Switch(c)' /\ Granted(c)' = Granted(c)
        /\ c \in 1 .. nconns' /\ srvFilters'[c] = srvFilters[c] /\ srv'[c] # "none"
        /\ srv'[c] = "serving" => serving'[c].call <= ncalls'
        /\ m.oneway => m.call # 0 /\ "oneway" \in Kinds
        /\ \A i \in DOMAIN c2s'[c] : LET r == c2s'[c][i].request
                                     IN  /\ r.call <= ncalls' /\ (r.oneway => "oneway" \in Kinds)
                                         /\ r.call = 0 => ~r.oneway
    BY <2>1, <2>3, HeardConn
  <2>6. m \in Requests /\ m.call \in 0 .. MaxCalls /\ (m.call # 0 => m.call \in Calls)
    <3>1. m \in Requests
      BY <2>4 DEF Sent
    <3> HIDE DEF m
    <3>2. QED
      BY <3>1, Bounds DEF Requests, Calls
  <2>7. t \in Received /\ t.kind = "mismatch" /\ t.filtered = srvFilters[c]
    BY <2>2, <2>6 DEF Message, Received, ConnTypes
  <2>8. nconns' = nconns /\ conn' = conn /\ ncalls' = ncalls
    BY <2>1 DEF clientVars, transportVars, callVars
  <2> HIDE DEF t, m
  <2>9. c = conn => /\ mTransportFilters = srvFilters[c]
                    /\ \A i \in DOMAIN s2c[c] : s2c[c][i].kind # "tooLong"
    BY <2>1, OwnFilters
  <2>10. /\ ReceivedType' /\ (s2c'[c] = <<>> => s2c[c] = <<>>)
         /\ \A k \in Conns : k # c => s2c'[k] = s2c[k]
         /\ c # conn => s2c'[c] = s2c[c]
         /\ \A i \in DOMAIN s2c'[c] :
               \/ i \in DOMAIN s2c[c] /\ s2c'[c][i] = s2c[c][i]
               \/ i = Len(s2c'[c]) /\ s2c'[c][i].kind = "mismatch" /\ srv'[c] = "reading"
    <3>1. CASE SendTo(c, t) /\ srv' = srv
      <4>1. /\ ReceivedType' /\ (\A k \in Conns : k # c => s2c'[k] = s2c[k])
            /\ c # conn => s2c'[c] = s2c[c]
            /\ c = conn => /\ Len(s2c'[c]) = Len(s2c[c]) + 1 /\ Len(s2c[c]) \in Nat
                           /\ DOMAIN s2c[c] = 1 .. Len(s2c[c])
                           /\ DOMAIN s2c'[c] = 1 .. Len(s2c[c]) + 1
                           /\ s2c'[c][Len(s2c[c]) + 1] = t
                           /\ \A i \in 1 .. Len(s2c[c]) : s2c'[c][i] = s2c[c][i]
            /\ s2c'[c] = <<>> => s2c[c] = <<>>
        BY <2>7, <3>1, Told
      <4>2. c = conn => \A i \in DOMAIN s2c'[c] : \/ i = Len(s2c'[c]) /\ s2c'[c][i] = t
                                                  \/ i \in DOMAIN s2c[c] /\ s2c'[c][i] = s2c[c][i]
        BY <4>1
      <4>3. QED
        BY <2>1, <2>7, <3>1, <4>1, <4>2
    <3>2. CASE s2c' = s2c
      BY <2>2, <3>2 DEF ReceivedType
    <3>3. QED
      BY <2>1, <3>1, <3>2
  <2>11. ConnTypes'
    <3>1. executed' \in [Calls -> Nat]
      <4>1. executed \in [Calls -> Nat]
        BY <2>2 DEF ConnTypes
      <4>2. executed' = executed \/ executed' = [executed EXCEPT ![m.call] = @ + 1]
        BY <2>1
      <4>3. PICK e : e = m.call
        OBVIOUS
      <4>4. executed' = executed \/ executed' = [executed EXCEPT ![e] = @ + 1]
        BY <4>2, <4>3
      <4>5. QED
        BY <4>1, <4>4
    <3>2. serving' \in [Conns -> Requests]
      BY <2>1, <2>2, <2>6 DEF ConnTypes
    <3>3. srv' \in [Conns -> {"none", "reading", "serving", "replied", "granting", "closed"}]
      BY <2>1, <2>2 DEF ConnTypes
    <3>4. QED
      BY <2>1, <2>2, <2>8, <3>1, <3>2, <3>3 DEF ConnTypes
  <2>12. Carried(c)'
    <3>1. \A i \in DOMAIN s2c'[c] : s2c'[c][i].kind # "tooLong"
      <4>1. CASE c # conn
        BY <2>2, <2>10, <4>1, Empty DEF Carried
      <4>2. CASE c = conn
        BY <2>9, <2>10, <4>2
      <4>3. QED
        BY <4>1, <4>2
    <3>2. c > nconns' <=> srv'[c] = "none"
      BY <2>5, <2>11 DEF ConnTypes
    <3>3. QED
      BY <2>2, <2>3, <2>5, <2>8, <2>10, <3>1, <3>2 DEF Carried
  <2>13. Once' /\ Untouched' /\ Executes /\ \A x \in Calls : executed[x] # 0 => executed'[x] # 0
    <3>1. CASE executed' = executed
      BY <2>1, <2>4, <3>1, ServerOnce
    <3>2. CASE /\ ~Refused(m) /\ m.oneway /\ executed' = [executed EXCEPT ![m.call] = @ + 1]
               /\ srv' = srv
      <4>1. PICK e \in Calls : e = m.call
        BY <2>5, <2>6, <3>2
      <4>2. Copy(e, c, 1) /\ 1 \in 0 .. Len(c2s[c])
        BY <2>4, <3>2, <4>1 DEF Copy, m
      <4>3. \A i \in 0 .. Len(c2s'[c]) : Copy(e, c, i)' => i + 1 # 1
        <5>1. SUFFICES ASSUME NEW i \in 0 .. Len(c2s'[c]), Copy(e, c, i)', i + 1 = 1 PROVE FALSE
          OBVIOUS
        <5>2. i = 0
          BY <2>4, <5>1
        <5>3. QED
          BY <2>1, <3>2, <5>1, <5>2 DEF Copy
      <4>4. Consumes(e, c, 1, 1)
        BY <3>2, <4>1, <4>2, <4>3 DEF Consumes
      <4>5. QED
        BY <2>1, <2>4, <4>4, ServerOnce
    <3>3. QED
      BY <2>1, <3>1, <3>2
  <2>14. ServerSide(c)
    BY <2>1, <2>3, <2>4, <2>10, <2>13 DEF ServerSide, Still
  <2>15. conn = c => Agreed'
    <3>1. CASE conn = c /\ SendTo(c, t) /\ srv' = srv
      <4>1. mTransportFilters = Granted(c)'
        BY <2>1, <2>2, <2>5, <2>9, <3>1 DEF Granted, ConnTypes
      <4>2. QED
        BY <2>1, <2>5, <2>7, <2>9, <3>1, <4>1, ToldAgreed
    <3>2. CASE conn = c /\ s2c' = s2c
      <4>1. UNCHANGED <<conn, phase, io, mTransportFilters>>
        BY <2>1 DEF clientVars, callVars, transportVars
      <4>2. Agreed /\ conn # 0
        BY <3>2 DEF IInv, Conns
      <4>3. QED
        BY <2>1, <2>5, <3>2, <4>1, <4>2 DEF Agreed, AnswerComing, Granted
    <3>3. QED
      BY <2>1, <3>1, <3>2
  <2>16. /\ Quiet(c) => Quiet(c)'
         /\ Leftover(c) => Leftover(c)'
         /\ \A r : Awaits(c, r) => Awaits(c, r)'
    BY <2>1, <2>3, <2>10, HeardOwed DEF m
  <2>17. QED
    BY <2>1, <2>4, <2>5, <2>8, <2>10, <2>11, <2>12, <2>13, <2>14, <2>15, <2>16, ServerStep
       DEF clientVars, callVars
<1>3. QED
  BY <1>1, <1>2

-----------------------------------------------------------------------------
(***************************************************************************)
(* The invariant                                                           *)
(***************************************************************************)
LEMMA InitInvariant == Init => IInv
<1> SUFFICES ASSUME Init PROVE IInv
  OBVIOUS
<1>1. /\ op = "none" /\ phase = "idle" /\ io = "none" /\ pos = 0 /\ ncalls = 0
      /\ \A s \in Stubs : mTries[s] = 0 /\ mRequest[s] = NoRequest
      /\ conn = 0 /\ nconns = 0 /\ half = FALSE /\ cut = FALSE
      /\ \A k \in Conns : /\ c2s[k] = <<>> /\ s2c[k] = <<>> /\ srv[k] = "none"
                           /\ srvFilters[k] = FALSE
      /\ \A c \in Calls : executed[c] = 0 /\ result[c].kind = "none"
  BY DEF Init
<1>2. TypeOK
  BY InitTypes
<1>3. Places /\ Streams /\ Encoded
  BY <1>1 DEF Places, Streams, Encoded, Stubs, NoRequest, Request
<1>4. \A k \in Conns : DOMAIN c2s[k] = {} /\ DOMAIN s2c[k] = {} /\ Len(c2s[k]) = 0
  BY <1>1, Empty
<1>5. PerConn
  BY <1>1, <1>4, Bounds DEF PerConn, Carried, Switch, Conns
<1>6. Exchange /\ Agreed /\ Untouched
  BY <1>1 DEF Exchange, Agreed, Untouched
<1>7. Once
  <2>1. SUFFICES ASSUME NEW c \in Calls PROVE OneCopy(c)
    BY <1>1 DEF Once
  <2>2. \A k \in Conns : \A i \in 0 .. Len(c2s[k]) : ~Copy(c, k, i)
    BY <1>1, <1>4 DEF Copy
  <2>3. QED
    BY <2>2 DEF OneCopy
<1>8. QED
  BY <1>2, <1>3, <1>5, <1>6, <1>7 DEF IInv

\* What a step of the program is.
LEMMA Steps ==
    ASSUME Next
    PROVE  \/ \E kind \in Kinds : Call(kind)
           \/ Connect \/ Connected \/ RequestFilters \/ Interrupt
           \/ WriteSome \/ ReadLength \/ WriteRest \/ ReadRest
           \/ \E c \in Conns : \/ Read(c) \/ TooLong(c) \/ SendPingBack(c) \/ Reply(c)
                               \/ WriteCompleted(c) \/ EndConnection(c)
  BY DEF Next, ClientStep

LEMMA NextInvariant == ASSUME Connects # "any", IInv, [Next]_vars PROVE IInv'
<1>1. CASE UNCHANGED vars
  <2>1. /\ UNCHANGED <<op, phase, io, pos, ncalls, result, mTransportFilters, conn, nconns, half, cut>>
        /\ UNCHANGED <<mConnected, mRcfRuntimeVersion, mTries, mRequest, mEncodedByteBuffers>>
        /\ UNCHANGED <<c2s, s2c, srv, serving, srvFilters, pings, executed>>
    BY <1>1 DEF vars, callVars, stubVars, transportVars, streamVars, netVars, serverVars
  <2>2. TypeOK'
    <3>1. CallTypes' /\ StubTypes'
      BY <2>1, Types DEF IInv, CallTypes, StubTypes
    <3>2. ConnTypes' /\ SentType' /\ ReceivedType'
      BY <2>1, Types DEF IInv, ConnTypes, SentType, ReceivedType
    <3>3. QED
      BY <3>1, <3>2, Types, PTL
  <2>3. Places' /\ Streams' /\ Encoded'
    BY <2>1 DEF IInv, Places, Streams, Encoded
  <2>4. PerConn'
    BY <2>1 DEF IInv, PerConn, Carried, Switch, Granted, Refused
  <2>5. Exchange'
    BY <2>1 DEF IInv, Exchange, Running, Quiet, Leftover, Awaits, Done, Refused, RefusalsRetried
  <2>6. Once' /\ Untouched'
    <3>1. \A c, k, i : Copy(c, k, i)' <=> Copy(c, k, i)
      BY <2>1 DEF Copy, Refused
    <3>2. \A c \in Calls : (OneCopy(c) => OneCopy(c)') /\ (NoCopy(c) => NoCopy(c)')
      BY <2>1, <3>1 DEF OneCopy, NoCopy
    <3>3. Once'
      BY <2>1, <3>2 DEF IInv, Once
    <3>4. Untouched'
      <4>1. SUFFICES ASSUME Sendable' PROVE NoCopy(ncalls)' /\ executed'[ncalls'] = 0
        BY DEF Untouched, Sendable
      <4>2. NoCopy(ncalls) /\ executed[ncalls] = 0
        BY <2>1, <4>1 DEF IInv, Untouched, Sendable
      <4>3. QED
        BY <2>1, <3>1, <4>2 DEF NoCopy
    <3>5. QED
      BY <3>3, <3>4
  <2>7. Agreed'
    BY <2>1 DEF IInv, Agreed, AnswerComing, Granted
  <2>8. QED
    BY <2>2, <2>3, <2>4, <2>5, <2>6, <2>7 DEF IInv
<1>2. CASE \E kind \in Kinds : Call(kind)
  BY <1>2, CallStep
<1>3. CASE Connect
  BY <1>3, ConnectStep
<1>4. CASE Connected
  BY <1>4, ConnectedStep
<1>5. CASE RequestFilters
  BY <1>5, RequestFiltersStep
<1>6. CASE Interrupt
  BY <1>6, InterruptStep
<1>7. CASE WriteSome \/ ReadLength
  BY <1>7, WriteSomeStep
<1>8. CASE WriteRest
  BY <1>8, WriteRestStep
<1>9. CASE ReadRest
  BY <1>9, ReadRestStep
<1>10. ASSUME NEW c \in Conns, \/ Read(c) \/ TooLong(c) \/ SendPingBack(c) \/ Reply(c)
                               \/ WriteCompleted(c) \/ EndConnection(c)
       PROVE  IInv'
  BY <1>10, ReadStep, TooLongStep, SendPingBackStep, ReplyStep, WriteCompletedStep, EndConnectionStep
<1>11. QED
  BY <1>1, <1>2, <1>3, <1>4, <1>5, <1>6, <1>7, <1>8, <1>9, <1>10, Steps

(* The types and the inductive invariant, for every number of calls,       *)
(* connections and ping backs and every combination of oneway calls,       *)
(* filters and versions, if connect() does not send what a call has left.  *)
THEOREM Inductive == ASSUME Connects # "any" PROVE Spec => []IInv
<1>1. Init => IInv
  BY InitInvariant
<1>2. IInv /\ [Next]_vars => IInv'
  BY NextInvariant
<1>3. QED
  BY <1>1, <1>2, PTL DEF Spec

(* The stream that a call finds is in step, and nothing is owed on it that *)
(* would be taken for the answer to that call, whatever has become of the  *)
(* calls before (ConnectionResetGuard in ClientStub.cpp).                  *)
THEOREM StreamCleanHolds ==
    ASSUME Connects # "any", RefusalsRetried PROVE Spec => []StreamClean
<1>1. IInv => StreamClean
  <2> SUFFICES ASSUME IInv PROVE StreamClean
    OBVIOUS
  <2>1. Places /\ Streams /\ Exchange /\ CallTypes
    BY Types DEF IInv
  <2>2. InStep
    BY <2>1 DEF Streams, InStep
  <2>3. op = "none" /\ conn # 0 => Quiet(conn)
    BY <2>1 DEF Places, Exchange
  <2>4. NothingOwed
    BY <2>3 DEF NothingOwed, Quiet, Leftover
  <2>5. QED
    BY <2>2, <2>4 DEF StreamClean
<1>2. QED
  BY <1>1, Inductive, PTL

(* The client and the server put the transport filters on between the same *)
(* two messages: neither reads with filters what has been sent without, or *)
(* the other way round (onConnectCompleted, onWriteCompleted).             *)
THEOREM FiltersAgreeHolds == ASSUME Connects # "any" PROVE Spec => []FiltersAgree
<1>1. IInv => FiltersAgree
  <2> SUFFICES ASSUME IInv PROVE FiltersAgree
    OBVIOUS
  <2>1. SentType /\ ReceivedType /\ ConnTypes /\ Places /\ Agreed /\ CallTypes
    BY Types DEF IInv
  <2>2. ASSUME NEW c \in Conns, srv[c] = "reading", c2s[c] # <<>>
        PROVE  Head(c2s[c]).filtered = srvFilters[c]
    <3>1. c2s[c] \in Seq(Sent)
      BY <2>1 DEF SentType
    <3>2. Head(c2s[c]) = c2s[c][1] /\ 1 \in DOMAIN c2s[c]
      BY <2>2, <3>1, Taken, Elements
    <3>3. c2s[c][1].filtered = Granted(c)
      BY <3>2 DEF IInv, PerConn, Switch
    <3>4. QED
      BY <2>1, <2>2, <3>2, <3>3 DEF Granted, ConnTypes
  <2>3. ASSUME io = "recv", s2c[conn] # <<>> PROVE Head(s2c[conn]).filtered = mTransportFilters
    <3>1. conn # 0 /\ conn \in Conns
      BY <2>1, <2>3, Bounds DEF Places, ConnTypes, Conns
    <3>2. s2c[conn] \in Seq(Received)
      BY <2>1, <3>1 DEF ReceivedType
    <3>3. Head(s2c[conn]) = s2c[conn][1] /\ 1 \in DOMAIN s2c[conn]
      BY <2>3, <3>2, Taken, Elements
    <3>4. QED
      BY <2>1, <3>1, <3>3 DEF Agreed
  <2>4. QED
    BY <2>2, <2>3 DEF FiltersAgree
<1>2. QED
  BY <1>1, Inductive, PTL

-----------------------------------------------------------------------------
(***************************************************************************)
(* What the caller may rely on                                             *)
(***************************************************************************)

\* The caller has heard of every call it has made.
Asked == \A c \in Calls : c <= ncalls => result[c].kind # "none"

Status(c) == CASE result[c].kind \in {"none", "running"} -> result[c].kind
               [] result[c].kind = "returned" /\ result[c].of = c -> "returned"
               [] result[c].kind = "returned" /\ result[c].of # c -> "wrong"
               [] OTHER -> "ended"

LEMMA Turned ==
    ASSUME NEW n \in Calls, \A c \in Calls : c # n => result'[c] = result[c],
           NEW s, Status(n)' = s
    PROVE  [c \in Calls |-> Status(c)]' = [[c \in Calls |-> Status(c)] EXCEPT ![n] = s]
<1>1. \A c \in Calls : c # n => Status(c)' = Status(c)
  BY DEF Status
<1>2. QED
  BY <1>1

\* The current call.
LEMMA Current ==
    ASSUME IInv, op = "call"
    PROVE  /\ ncalls \in Calls /\ Status(ncalls) = "running" /\ result \in [Calls -> Results]
           /\ mRequest["user"].call = ncalls
<1>1. CallTypes /\ Encoded
  BY Types DEF IInv
<1>2. ncalls \in Calls /\ result[ncalls].kind = "running"
  BY <1>1, Bounds DEF CallTypes, Encoded, Calls
<1>3. QED
  BY <1>1, <1>2 DEF Status, CallTypes, Encoded

LEMMA CallStarts ==
    ASSUME IInv, Asked, NEW kind \in Kinds, Call(kind) PROVE Promise!Next /\ Asked'
<1>1. /\ Control' /\ op' = "call" /\ executed' = executed /\ ncalls' = ncalls + 1
      /\ \A c \in Calls : c # ncalls' => result'[c] = result[c]
  BY CallControl DEF serverVars
<1>2. PICK n : n = ncalls + 1
  OBVIOUS
<1>3. n \in Calls /\ result'[n].kind = "running" /\ n = ncalls' /\ ncalls \in Nat
  BY <1>1, <1>2, Types, Bounds DEF Control, CallTypes, Encoded, Calls, IInv
<1>4. result[n].kind = "none"
  BY <1>2, <1>3 DEF IInv, Once
<1>5. Status(n) = "none" /\ Status(n)' = "running"
  BY <1>3, <1>4 DEF Status
<1>6. [c \in Calls |-> Status(c)]' = [[c \in Calls |-> Status(c)] EXCEPT ![n] = "running"]
  BY <1>1, <1>3, <1>5, Turned
<1>7. Promise!Start(n)
  BY <1>1, <1>3, <1>5, <1>6 DEF Promise!Start, Status
<1>8. Asked'
  <2>1. SUFFICES ASSUME NEW c \in Calls, c <= ncalls + 1 PROVE result'[c].kind # "none"
    BY <1>1 DEF Asked
  <2>2. CASE c = n
    BY <1>3, <2>2
  <2>3. CASE c # n
    BY <1>1, <1>2, <1>3, <2>1, <2>3 DEF Asked, Calls
  <2>4. QED
    BY <2>2, <2>3
<1>9. QED
  BY <1>3, <1>7, <1>8 DEF Promise!Next

\* A call that ends without an answer.
LEMMA Resolved ==
    ASSUME IInv, Asked, Resolves, executed' = executed, ncalls' = ncalls
    PROVE  [Promise!Next]_(Promise!vars) /\ Asked'
<1>1. CASE result' = result
  BY <1>1 DEF Promise!vars, Asked
<1>2. CASE Fails
  <2>1. PICK n \in Calls : n = ncalls
    BY <1>2, Current DEF Fails
  <2>2. PICK kind \in {"sent", "remote", "versioning", "failed"} :
            result' = [result EXCEPT ![n] = [kind |-> kind, of |-> n]]
    BY <1>2, <2>1 DEF Fails
  <2>3. Status(n) = "running" /\ result \in [Calls -> Results]
    BY <1>2, <2>1, Current DEF Fails
  <2>4. /\ result'[n] = [kind |-> kind, of |-> n]
        /\ \A c \in Calls : c # n => result'[c] = result[c]
    BY <2>2, <2>3
  <2>5. Status(n)' = "ended"
    BY <2>4 DEF Status
  <2>6. [c \in Calls |-> Status(c)]' = [[c \in Calls |-> Status(c)] EXCEPT ![n] = "ended"]
    BY <2>4, <2>5, Turned
  <2>7. Promise!End(n)
    BY <2>3, <2>6 DEF Promise!End, Status
  <2>8. Asked'
    BY <2>2, <2>4 DEF Asked
  <2>9. QED
    BY <2>7, <2>8 DEF Promise!Next
<1>3. QED
  BY <1>1, <1>2 DEF Resolves

\* A call that returns does so with its own answer, which has been computed.
LEMMA Returned ==
    ASSUME IInv, Asked, ReadRest, Returns
    PROVE  Promise!Next /\ Asked'
<1>1. /\ op = "call" /\ First.kind = "answer" /\ Running = "user"
      /\ result' = [result EXCEPT ![ncalls] = [kind |-> "returned", of |-> First.call]]
  BY DEF Returns
<1>2. io = "recv" /\ pos = 1 /\ ncalls' = ncalls /\ executed' = executed
  BY ReadRestControl DEF serverVars
<1>3. /\ Awaits(conn, mRequest[Running]) /\ First = s2c[conn][1] /\ 1 \in DOMAIN s2c[conn]
  BY <1>2, AfterRead
<1>4. PICK n \in Calls : n = ncalls
  BY <1>1, Current
<1>5. Status(n) = "running" /\ result \in [Calls -> Results] /\ mRequest["user"].call = n
  BY <1>1, <1>4, Current
<1>6. First.call = n /\ (n # 0 => executed[n] # 0)
  BY <1>1, <1>3, <1>5 DEF Awaits
<1>7. executed[n] = 1
  <2>1. n # 0
    BY <1>4, Bounds DEF Calls
  <2>2. executed[n] \in Nat
    BY Types DEF IInv, ConnTypes
  <2>3. executed[n] <= 1
    BY DEF IInv, Once
  <2>4. QED
    BY <1>6, <2>1, <2>2, <2>3
<1>8. /\ result'[n] = [kind |-> "returned", of |-> n]
      /\ \A c \in Calls : c # n => result'[c] = result[c]
  BY <1>1, <1>4, <1>5, <1>6
<1>9. Status(n)' = "returned"
  BY <1>8 DEF Status
<1>10. [c \in Calls |-> Status(c)]' = [[c \in Calls |-> Status(c)] EXCEPT ![n] = "returned"]
  BY <1>8, <1>9, Turned
<1>11. Promise!Return(n)
  BY <1>2, <1>4, <1>5, <1>7, <1>10 DEF Promise!Return, Status
<1>12. Asked'
  BY <1>2, <1>8 DEF Asked
<1>13. QED
  BY <1>11, <1>12 DEF Promise!Next

\* A call that is executed has been made, and had not been executed before.
LEMMA Executed ==
    ASSUME IInv, Asked, Executes, result' = result, ncalls' = ncalls
    PROVE  [Promise!Next]_(Promise!vars) /\ Asked'
<1>1. Asked'
  BY DEF Asked
<1>2. CASE executed' = executed
  BY <1>1, <1>2 DEF Promise!vars
<1>3. ASSUME NEW e \in Calls, e <= ncalls, executed[e] = 0, executed' = [executed EXCEPT ![e] = 1]
      PROVE  Promise!Next
  <2>1. result[e].kind # "none"
    BY <1>3 DEF Asked
  <2>2. Status(e) # "none"
    BY <2>1 DEF Status
  <2>3. Promise!Execute(e)
    BY <1>3, <2>2 DEF Promise!Execute, Status
  <2>4. QED
    BY <2>3 DEF Promise!Next
<1>4. QED
  BY <1>1, <1>2, <1>3 DEF Executes

LEMMA NextPromise ==
    ASSUME Connects # "any", IInv, Asked, [Next]_vars
    PROVE  [Promise!Next]_(Promise!vars) /\ Asked'
<1>1. CASE UNCHANGED vars
  BY <1>1 DEF vars, callVars, serverVars, Promise!vars, Asked
<1>2. CASE \E kind \in Kinds : Call(kind)
  BY <1>2, CallStarts
<1>3. CASE Connect
  <2>1. UNCHANGED <<result, ncalls, executed>>
    BY <1>3, ConnectControl DEF serverVars
  <2>2. QED
    BY <2>1, Resolved DEF Resolves
<1>4. CASE Connected
  <2>1. UNCHANGED <<result, executed, ncalls>>
    BY <1>4, ConnectedControl
  <2>2. QED
    BY <2>1, Resolved DEF Resolves
<1>5. CASE RequestFilters
  <2>1. UNCHANGED <<result, ncalls, executed>>
    BY <1>5, RequestControl DEF serverVars
  <2>2. QED
    BY <2>1, Resolved DEF Resolves
<1>6. CASE Interrupt
  <2>1. ncalls' = ncalls /\ executed' = executed
    BY <1>6 DEF Interrupt, serverVars
  <2>2. QED
    BY <1>6, <2>1, InterruptStep, Resolved
<1>7. CASE WriteSome \/ ReadLength
  <2>1. ncalls' = ncalls /\ executed' = executed
    BY <1>7 DEF WriteSome, ReadLength, serverVars
  <2>2. QED
    BY <1>7, <2>1, WriteSomeStep, Resolved DEF Resolves
<1>8. CASE WriteRest
  <2>1. ncalls' = ncalls /\ executed' = executed
    BY <1>8 DEF WriteRest, serverVars
  <2>2. QED
    BY <1>8, <2>1, WriteRestStep, Resolved
<1>9. CASE ReadRest
  <2>1. ncalls' = ncalls /\ executed' = executed /\ (Resolves \/ Returns)
    BY <1>9, ReadRestControl DEF serverVars
  <2>2. QED
    BY <1>9, <2>1, Resolved, Returned
<1>10. ASSUME NEW c \in Conns, \/ Read(c) \/ TooLong(c) \/ SendPingBack(c) \/ Reply(c)
                               \/ WriteCompleted(c) \/ EndConnection(c)
       PROVE  [Promise!Next]_(Promise!vars) /\ Asked'
  <2>1. UNCHANGED <<result, ncalls>> /\ Executes
    BY <1>10, ReadStep, TooLongStep, SendPingBackStep, ReplyStep, WriteCompletedStep,
       EndConnectionStep
  <2>2. QED
    BY <2>1, Executed
<1>11. QED
  BY <1>1, <1>2, <1>3, <1>4, <1>5, <1>6, <1>7, <1>8, <1>9, <1>10, Steps

(* The calls implement RemoteCall: whatever is lost, sent again in another *)
(* version, given up or refused, a call is executed at most once, after it *)
(* has been made, and one that returns has been executed and returns its   *)
(* own answer.                                                             *)
THEOREM PromiseKept == ASSUME Connects # "any" PROVE Spec => KeepsPromise
<1>1. Init => Asked /\ Promise!Init
  <2>1. ASSUME Init PROVE /\ ncalls = 0 /\ executed = [c \in Calls |-> 0]
                          /\ \A c \in Calls : result[c].kind = "none"
    BY <2>1 DEF Init
  <2>2. Init => Asked
    BY <2>1, Bounds DEF Asked, Calls
  <2>3. Init => Promise!Init
    BY <2>1 DEF Promise!Init
  <2>4. QED
    BY <2>2, <2>3
<1>2. IInv /\ Asked /\ [Next]_vars => [Promise!Next]_(Promise!vars) /\ Asked'
  BY NextPromise
<1>3. Spec => Promise!Init /\ [][Promise!Next]_(Promise!vars)
  BY <1>1, <1>2, Inductive, PTL DEF Spec
<1>4. QED
  BY <1>3, PTL DEF KeepsPromise, Promise!Spec
=============================================================================
