----------------------------- MODULE ClientCall -----------------------------
(***************************************************************************)
(* Synchronous calls of a client stub (ClientStub.cpp, Marshal.cpp) over   *)
(* TCP connections (ConnectionOrientedClientTransport.cpp and below) to a  *)
(* server.  One thread uses the stub.  A message goes over a connection in *)
(* two parts, its length and the rest, so that a call can be given up in   *)
(* the middle of one.  The server end of a connection is what RequestReply *)
(* promises of an RcfSession, with the checks of decodeRequest, ping backs *)
(* and the filter service; its threads are in RcfSession.                  *)
(***************************************************************************)
EXTENDS Naturals, Sequences

CONSTANTS Kinds,           \* the calls made: a subset of {"twoway", "oneway"}
          Connects,        \* when the application calls connect(), too: "never",
                           \* "clean": unless a call has left a request, or "any"
          UseFilters,      \* the transport of the stub has been given filters
          MessageFilters,  \* the stub has message filters
          Pinged,          \* the stub asks for ping backs
          AutoVersioning,
          ClientVersion,   \* runtime version of the client
          ServerVersion,   \* and of the server
          MaxCalls, MaxConns, MaxPings   \* bounds

ASSUME ConstantsAssumption ==
    /\ Kinds \subseteq {"twoway", "oneway"}
    /\ Connects \in {"never", "clean", "any"}
    /\ {UseFilters, MessageFilters, Pinged, AutoVersioning} \subseteq BOOLEAN
    /\ {ClientVersion, ServerVersion, MaxCalls, MaxConns, MaxPings} \subseteq Nat

Calls == 1 .. MaxCalls
Conns == 1 .. MaxConns
Stubs == {"user", "filter"}   \* the caller's, and the copy that requests filters

VARIABLES
    \* the thread in the stub
    op,        \* "none", "call" or "connect": what the application has called
    phase,     \* "idle", "connect", "negotiate", "renew" or "exchange"
    io,        \* "none", "send" or "recv": what the transport does
    pos,       \* mWriteBufferPos or mReadBufferPos: 0, or 1 within the message
    ncalls,    \* number of calls made
    result,    \* what the caller got of each call
    \* the stubs
    mConnected, mRcfRuntimeVersion, mTries, mRequest, mEncodedByteBuffers,
    \* the transport
    mTransportFilters, conn, nconns,
    half, cut, \* the stream ends, or begins, within a message
    \* the connections, and the server's ends of them
    c2s, s2c, srv, serving, srvFilters, pings, executed

stubVars == <<mConnected, mRcfRuntimeVersion, mTries, mRequest, mEncodedByteBuffers>>
streamVars == <<half, cut>>
netVars == <<c2s, s2c>>
serverVars == <<srv, serving, srvFilters, pings, executed>>
callVars == <<op, phase, io, pos, ncalls, result>>
transportVars == <<mTransportFilters, conn, nconns>>
vars == <<callVars, stubVars, transportVars, streamVars, netVars, serverVars>>

(***************************************************************************)
(* Messages                                                                *)
(***************************************************************************)

\* The header of a request has the runtime version from version 2 on, and the
\* ping back interval from version 5 on.
HeaderVersion(version) ==
    IF version < 2 THEN 0 ELSE IF version < 5 THEN 1 ELSE 2

Request(call, oneway, version) ==
    [call |-> call, oneway |-> oneway, version |-> version]

\* decodeRequest refuses a header it does not know and a client that is newer.
Refused(m) ==
    LET header  == HeaderVersion(m.version)
        version == IF header \in {1, 2} THEN m.version ELSE 1
    IN  header > 3 \/ version > ServerVersion

WantsPings(m) == Pinged /\ HeaderVersion(m.version) = 2

\* What the server makes of its filters and the answer.
Message(c, kind, call) ==
    [kind |-> kind, call |-> call, filtered |-> srvFilters[c]]

\* decodeResponse: control messages are sent without message filters, and a
\* stub that has some takes that for an error.
Decodes(m, stub) ==
    /\ m.filtered = mTransportFilters
    /\ stub = "user" /\ MessageFilters => m.kind \notin {"mismatch", "ping", "tooLong"}

NoRequest == Request(0, FALSE, 0)

Init ==
    /\ op = "none" /\ phase = "idle" /\ io = "none" /\ pos = 0 /\ ncalls = 0
    /\ result = [c \in Calls |-> [kind |-> "none", of |-> c]]
    /\ mConnected = FALSE
    /\ mRcfRuntimeVersion = [s \in Stubs |-> ClientVersion]
    /\ mTries = [s \in Stubs |-> 0]
    /\ mRequest = [s \in Stubs |-> NoRequest]
    /\ mEncodedByteBuffers = [s \in Stubs |-> FALSE]
    /\ mTransportFilters = UseFilters
    /\ conn = 0 /\ nconns = 0 /\ half = FALSE /\ cut = FALSE
    /\ c2s = [c \in Conns |-> <<>>] /\ s2c = [c \in Conns |-> <<>>]
    /\ srv = [c \in Conns |-> "none"]
    /\ serving = [c \in Conns |-> NoRequest]
    /\ srvFilters = [c \in Conns |-> FALSE]
    /\ pings = [c \in Conns |-> 0]
    /\ executed = [c \in Calls |-> 0]

-----------------------------------------------------------------------------
(***************************************************************************)
(* The transport                                                           *)
(***************************************************************************)

\* isFdConnected: not closed by the peer, or something is left to read.  `in'
\* is what the connections still have for the client.
IsConnected(in) == conn # 0 /\ (srv[conn] # "closed" \/ in[conn] # <<>>)

\* close() of the transport.
Close(in) ==
    /\ conn' = 0 /\ half' = FALSE /\ cut' = FALSE
    /\ s2c' = [c \in Conns |-> IF c = conn THEN <<>> ELSE in[c]]

\* A message that has been taken off the stream has been read to its end.
KeepOpen(in) == s2c' = in /\ cut' = (cut /\ in = s2c) /\ UNCHANGED <<conn, half>>

(***************************************************************************)
(* The stub                                                                *)
(***************************************************************************)
Running == IF phase \in {"negotiate", "renew"} THEN "filter" ELSE "user"

\* send() and connect(): a new connection if there is none, or if the peer has
\* closed it and an answer is wanted.
Send(s, oneway, in) ==
    LET reconnect == IF s = "user" THEN ~mConnected \/ (~oneway /\ ~IsConnected(in))
                                   ELSE ~IsConnected(in)
    IN  /\ pos' = 0
        /\ IF reconnect
           THEN /\ phase' = IF s = "user" THEN "connect" ELSE "renew"
                /\ io' = "none" /\ Close(in)
           ELSE /\ phase' = IF s = "user" THEN "exchange" ELSE "negotiate"
                /\ io' = "send" /\ KeepOpen(in)

\* What the application called is over.
Ends(kind, of) ==
    /\ op' = "none" /\ phase' = "idle" /\ io' = "none" /\ pos' = 0
    /\ result' = IF op = "call" THEN [result EXCEPT ![ncalls] = [kind |-> kind, of |-> of]]
                                ELSE result

\* Mutants of Raise: the guard is dismissed when the request has not been sent
\* to its end, or when it has.
RaiseKeepsHalf(remote, kind, in) ==
    /\ IF remote \/ io = "send" THEN KeepOpen(in) ELSE Close(in)
    /\ mConnected' = (mConnected /\ (remote \/ io = "send"))
    /\ Ends(kind, ncalls)

RaiseKeepsReader(remote, kind, in) ==
    /\ IF remote \/ (io = "recv" /\ pos = 0) THEN KeepOpen(in) ELSE Close(in)
    /\ mConnected' = (mConnected /\ (remote \/ io = "recv"))
    /\ Ends(kind, ncalls)

\* An exception.  The guard of a call resets the connection unless the server
\* sent the exception; the copy that requests filters has a guard of its own,
\* and gives the transport back.
Raise(remote, kind, in) ==
    LET copy == Running = "filter"
        keep == remote \/ (op = "connect" /\ ~copy)
    IN  /\ IF keep THEN KeepOpen(in) ELSE Close(in)
        /\ mConnected' = IF copy THEN keep /\ IsConnected(in)
                                 ELSE mConnected /\ keep
        /\ Ends(kind, ncalls)

\* call(), with the reset of mTries in FutureImpl::call().
Call(kind) ==
    LET m == Request(ncalls + 1, kind = "oneway", mRcfRuntimeVersion["user"])
    IN  /\ op = "none" /\ ncalls < MaxCalls
        /\ op' = "call" /\ ncalls' = ncalls + 1
        /\ result' = [result EXCEPT ![ncalls + 1].kind = "running"]
        /\ mTries' = [mTries EXCEPT !["user"] = 0]
        /\ mRequest' = [mRequest EXCEPT !["user"] = m]
        /\ mEncodedByteBuffers' = [mEncodedByteBuffers EXCEPT !["user"] = TRUE]
        /\ Send("user", m.oneway, s2c)
        /\ UNCHANGED <<mConnected, mRcfRuntimeVersion, mTransportFilters, nconns, c2s, serverVars>>

\* connect() called by the application: it sends what an earlier call has left.
Connect ==
    /\ op = "none"
    /\ CASE Connects = "never" -> FALSE
         [] Connects = "clean" -> ~mEncodedByteBuffers["user"]
         [] Connects = "any"   -> TRUE
    /\ op' = "connect"
    /\ \/ mEncodedByteBuffers["user"]
       \/ ~mConnected \/ (~mRequest["user"].oneway /\ ~IsConnected(s2c))
    /\ Send("user", mRequest["user"].oneway, s2c)
    /\ UNCHANGED <<ncalls, result, stubVars, mTransportFilters, nconns, c2s, serverVars>>

\* The exchange, once the stub is connected.
Proceed ==
    /\ mConnected' = TRUE
    /\ IF mEncodedByteBuffers["user"]
       THEN /\ phase' = "exchange" /\ io' = "send" /\ pos' = 0
            /\ UNCHANGED <<op, result>>
       ELSE Ends("returned", ncalls)

\* implConnect has its new connection.
OpenConnection ==
    /\ nconns < MaxConns
    /\ nconns' = nconns + 1 /\ conn' = nconns + 1
    /\ srv' = [srv EXCEPT ![nconns + 1] = "reading"]

\* timedConnect succeeds: onConnectCompleted takes the filters off and, if
\* there are any, requests them of the server.
Connected ==
    /\ phase \in {"connect", "renew"} /\ OpenConnection
    /\ IF phase = "renew"
       THEN /\ phase' = "negotiate" /\ io' = "send" /\ pos' = 0
            /\ UNCHANGED <<op, result, stubVars, mTransportFilters>>
       ELSE IF mTransportFilters
       THEN /\ phase' = "negotiate" /\ mTransportFilters' = FALSE
            /\ UNCHANGED <<op, io, pos, result, stubVars>>
       ELSE /\ Proceed
            /\ UNCHANGED <<mRcfRuntimeVersion, mTries, mRequest, mEncodedByteBuffers,
                           mTransportFilters>>
    /\ UNCHANGED <<ncalls, half, cut, netVars, serving, srvFilters, pings, executed>>

\* requestTransportFilters(filters): a call of a copy of the stub, over the
\* connection just made.
RequestFilters ==
    LET version == mRcfRuntimeVersion["user"]
    IN  /\ phase = "negotiate" /\ io = "none"
        /\ mRcfRuntimeVersion' = [mRcfRuntimeVersion EXCEPT !["filter"] = version]
        /\ mTries' = [mTries EXCEPT !["filter"] = 0]
        /\ mRequest' = [mRequest EXCEPT !["filter"] = Request(0, FALSE, version)]
        /\ mEncodedByteBuffers' = [mEncodedByteBuffers EXCEPT !["filter"] = TRUE]
        /\ Send("filter", FALSE, s2c)
        /\ UNCHANGED <<op, ncalls, result, mConnected, mTransportFilters, nconns, c2s, serverVars>>

\* Mutant of Interrupt: nothing ends a read that gets no answer.
InterruptNoRead ==
    /\ phase \in {"connect", "renew"} \/ io = "send"
    /\ Raise(FALSE, "failed", s2c)
    /\ UNCHANGED <<ncalls, mRcfRuntimeVersion, mTries, mRequest, mEncodedByteBuffers,
                   mTransportFilters, nconns, c2s, serverVars>>

\* A time-out, a failure of the socket, the end of the stream, missing ping
\* backs, or a progress callback that cancels.
Interrupt ==
    /\ phase \in {"connect", "renew"} \/ io # "none"
    /\ Raise(FALSE, "failed", s2c)
    /\ UNCHANGED <<ncalls, mRcfRuntimeVersion, mTries, mRequest, mEncodedByteBuffers,
                   mTransportFilters, nconns, c2s, serverVars>>

\* The first part of the request is written.
WriteSome ==
    /\ io = "send" /\ pos = 0 /\ conn # 0
    /\ pos' = 1 /\ half' = TRUE
    /\ UNCHANGED <<op, phase, io, ncalls, result, stubVars, transportVars, cut, netVars, serverVars>>

\* The rest is written.  The progress callback can still cancel; otherwise
\* onSendCompleted goes on to read, or is done with a oneway call.
WriteRest ==
    LET s == Running
        m == mRequest[s]
    IN  /\ io = "send" /\ pos = 1
        /\ c2s' = IF srv[conn] = "closed" THEN c2s
                  ELSE [c2s EXCEPT ![conn] = Append(@,
                           [filtered |-> mTransportFilters, request |-> m])]
        /\ \/ /\ Raise(FALSE, "failed", s2c)
              /\ UNCHANGED mEncodedByteBuffers
           \/ /\ mEncodedByteBuffers' = [mEncodedByteBuffers EXCEPT ![s] = FALSE]
              /\ half' = FALSE
              /\ IF m.oneway
                 THEN Ends("sent", ncalls)
                 ELSE /\ io' = "recv" /\ pos' = 0
                      /\ UNCHANGED <<op, phase, result>>
              /\ UNCHANGED <<mConnected, conn, cut, s2c>>
        /\ UNCHANGED <<ncalls, mRcfRuntimeVersion, mTries, mRequest, mTransportFilters, nconns,
                       serverVars>>

\* The length of a message is read.
ReadLength ==
    /\ io = "recv" /\ pos = 0 /\ s2c[conn] # <<>>
    /\ pos' = 1 /\ cut' = TRUE
    /\ UNCHANGED <<op, phase, io, ncalls, result, stubVars, transportVars, half, netVars, serverVars>>

(***************************************************************************)
(* onReceiveCompleted                                                      *)
(***************************************************************************)

\* The server is older: once per call, the request is encoded again with the
\* server's version.
VersionMismatch(in) ==
    LET s     == Running
        again == [mRequest[s] EXCEPT !.version = ServerVersion]
    IN  IF ServerVersion < mRcfRuntimeVersion[s] /\ AutoVersioning /\ mTries[s] = 0
        THEN /\ mRcfRuntimeVersion' = [mRcfRuntimeVersion EXCEPT ![s] = ServerVersion]
             /\ mTries' = [mTries EXCEPT ![s] = 1]
             /\ mRequest' = [mRequest EXCEPT ![s] = again]
             /\ mEncodedByteBuffers' = [mEncodedByteBuffers EXCEPT ![s] = TRUE]
             /\ Send(s, again.oneway, in)
             /\ UNCHANGED <<op, result, mConnected, mTransportFilters>>
        ELSE /\ IF ServerVersion < mRcfRuntimeVersion[s] THEN Raise(TRUE, "versioning", in)
                                                         ELSE Raise(FALSE, "failed", in)
             /\ UNCHANGED <<mRcfRuntimeVersion, mTries, mRequest, mEncodedByteBuffers,
                            mTransportFilters>>

\* A ping back: back to receiving.
PingBack(in) ==
    /\ io' = "recv" /\ pos' = 0 /\ KeepOpen(in)
    /\ UNCHANGED <<op, phase, result, stubVars, mTransportFilters>>

\* The answer to the request for filters: they are put on.
FiltersGranted(in) ==
    /\ mTransportFilters' = TRUE /\ KeepOpen(in) /\ Proceed
    /\ UNCHANGED <<mRcfRuntimeVersion, mTries, mRequest, mEncodedByteBuffers>>

ReadRest ==
    LET m  == Head(s2c[conn])
        in == [s2c EXCEPT ![conn] = Tail(@)]
        stubUnchanged == UNCHANGED <<mRcfRuntimeVersion, mTries, mRequest, mEncodedByteBuffers,
                                     mTransportFilters>>
    IN  /\ io = "recv" /\ pos = 1
        /\ CASE ~Decodes(m, Running) -> Raise(FALSE, "failed", in) /\ stubUnchanged
             [] OTHER -> CASE m.kind = "mismatch" -> VersionMismatch(in)
                           [] m.kind = "ping" -> PingBack(in)
                           [] m.kind \in {"exception", "tooLong"} ->
                                Raise(TRUE, "remote", in) /\ stubUnchanged
                           [] m.kind = "answer" /\ Running = "filter" -> FiltersGranted(in)
                           [] m.kind = "answer" /\ Running = "user" ->
                                /\ Ends("returned", m.call) /\ KeepOpen(in)
                                /\ mConnected' = mConnected /\ stubUnchanged
        /\ UNCHANGED <<ncalls, nconns, c2s, serverVars>>

-----------------------------------------------------------------------------
(***************************************************************************)
(* The server's end of connection c                                        *)
(***************************************************************************)
clientVars == <<callVars, stubVars, transportVars, streamVars>>

\* What is sent over a connection that the client has closed is lost.
SendTo(c, m) == s2c' = IF c = conn THEN [s2c EXCEPT ![c] = Append(@, m)] ELSE s2c

\* onReadCompleted.  A message that comes through other filters than it was
\* sent with decodes to nothing the server knows.
Read(c) ==
    LET m == Head(c2s[c]).request
    IN  /\ srv[c] = "reading" /\ c2s[c] # <<>>
        /\ IF Head(c2s[c]).filtered # srvFilters[c]
           THEN /\ srv' = [srv EXCEPT ![c] = "closed"] /\ c2s' = [c2s EXCEPT ![c] = <<>>]
                /\ UNCHANGED <<serving, executed, s2c>>
           ELSE
           /\ c2s' = [c2s EXCEPT ![c] = Tail(@)]
           /\ IF Refused(m)
              THEN /\ SendTo(c, Message(c, "mismatch", m.call))
                   /\ UNCHANGED <<srv, serving, executed>>
              ELSE IF m.oneway
              THEN /\ executed' = [executed EXCEPT ![m.call] = @ + 1]
                   /\ UNCHANGED <<srv, serving, s2c>>
              ELSE /\ srv' = [srv EXCEPT ![c] = "serving"]
                   /\ serving' = [serving EXCEPT ![c] = m]
                   /\ UNCHANGED <<executed, s2c>>
        /\ UNCHANGED <<clientVars, srvFilters, pings>>

\* A length above the maximum: an error, and then the end of the connection.
TooLong(c) ==
    /\ srv[c] = "reading" /\ c2s[c] # <<>>
    /\ Head(c2s[c]).filtered = srvFilters[c]
    /\ c2s' = [c2s EXCEPT ![c] = <<>>]
    /\ SendTo(c, Message(c, "tooLong", Head(c2s[c]).request.call))
    /\ srv' = [srv EXCEPT ![c] = "closed"]
    /\ UNCHANGED <<clientVars, serving, srvFilters, pings, executed>>

\* sendPingBack.
SendPingBack(c) ==
    /\ srv[c] = "serving" /\ WantsPings(serving[c]) /\ pings[c] < MaxPings
    /\ pings' = [pings EXCEPT ![c] = @ + 1]
    /\ SendTo(c, Message(c, "ping", serving[c].call))
    /\ UNCHANGED <<clientVars, c2s, srv, serving, srvFilters, executed>>

\* Mutant of WriteCompleted: the filters are put on after the next read has begun.
WriteCompletedLate(c) ==
    /\ srv[c] \in {"replied", "granting"}
    /\ srv' = [srv EXCEPT ![c] = "reading"]
    /\ UNCHANGED <<clientVars, netVars, serving, srvFilters, pings, executed>>

\* The filter service knows the filters: they are to be put on once the answer
\* has been written.
GrantsFilters(call, kind) == call = 0 /\ kind = "answer"

\* The servant, or the filter service, has run and the response is written.
Reply(c) ==
    LET call == serving[c].call
    IN  /\ srv[c] = "serving"
        /\ executed' = IF call = 0 THEN executed ELSE [executed EXCEPT ![call] = @ + 1]
        /\ \E kind \in {"answer", "exception"} :
             /\ SendTo(c, Message(c, kind, call))
             /\ srv' = [srv EXCEPT ![c] = IF GrantsFilters(call, kind) THEN "granting" ELSE "replied"]
        /\ UNCHANGED <<clientVars, c2s, serving, srvFilters, pings>>

\* onWriteCompleted puts the filters on before it reads on.
WriteCompleted(c) ==
    /\ srv[c] \in {"replied", "granting"}
    /\ srv' = [srv EXCEPT ![c] = "reading"]
    /\ srvFilters' = [srvFilters EXCEPT ![c] = @ \/ srv[c] = "granting"]
    /\ UNCHANGED <<clientVars, netVars, serving, pings, executed>>

\* The server, or the network, ends the connection, or the server finds that
\* the client has.
EndConnection(c) ==
    /\ srv[c] \notin {"none", "closed"}
    /\ srv' = [srv EXCEPT ![c] = "closed"]
    /\ c2s' = [c2s EXCEPT ![c] = <<>>]
    /\ UNCHANGED <<clientVars, s2c, serving, srvFilters, pings, executed>>

-----------------------------------------------------------------------------
ClientStep ==
    \/ Connected \/ RequestFilters \/ Interrupt
    \/ WriteSome \/ WriteRest \/ ReadLength \/ ReadRest

Next ==
    \/ \E kind \in Kinds : Call(kind)
    \/ Connect
    \/ ClientStep
    \/ \E c \in Conns : \/ Read(c) \/ TooLong(c) \/ SendPingBack(c) \/ Reply(c)
                        \/ WriteCompleted(c) \/ EndConnection(c)

Spec == Init /\ [][Next]_vars

\* Every wait of the client has a time-out (mEndTimeMs); nothing is assumed of
\* the server.
FairSpec == Spec /\ WF_vars(ClientStep) /\ WF_vars(Interrupt)

-----------------------------------------------------------------------------
(***************************************************************************)
(* Properties                                                              *)
(***************************************************************************)

\* The types of the variables.
TypeOK ==
    LET requests == [call : 0 .. MaxCalls, oneway : BOOLEAN, version : Nat]
        kinds    == {"answer", "exception", "mismatch", "ping", "tooLong"}
    IN  /\ op \in {"none", "call", "connect"}
        /\ phase \in {"idle", "connect", "negotiate", "renew", "exchange"}
        /\ io \in {"none", "send", "recv"} /\ pos \in {0, 1} /\ ncalls \in 0 .. MaxCalls
        /\ result \in [Calls -> [kind : {"none", "running", "returned", "sent", "remote",
                                         "versioning", "failed"},
                                 of : 0 .. MaxCalls]]
        /\ mConnected \in BOOLEAN
        /\ mRcfRuntimeVersion \in [Stubs -> Nat] /\ mTries \in [Stubs -> {0, 1}]
        /\ mRequest \in [Stubs -> requests] /\ mEncodedByteBuffers \in [Stubs -> BOOLEAN]
        /\ mTransportFilters \in BOOLEAN
        /\ conn \in 0 .. nconns /\ nconns \in 0 .. MaxConns
        /\ {half, cut} \subseteq BOOLEAN
        /\ c2s \in [Conns -> Seq([filtered : BOOLEAN, request : requests])]
        /\ s2c \in [Conns -> Seq([kind : kinds, call : 0 .. MaxCalls, filtered : BOOLEAN])]
        /\ srv \in [Conns -> {"none", "reading", "serving", "replied", "granting", "closed"}]
        /\ serving \in [Conns -> requests] /\ srvFilters \in [Conns -> BOOLEAN]
        /\ pings \in [Conns -> 0 .. MaxPings] /\ executed \in [Calls -> Nat]

\* A call given up in the middle of a message never leaves a stream on which
\* the next message would begin within an old one (ConnectionResetGuard).
InStep == /\ io = "send" /\ pos = 0 => ~half
          /\ io = "recv" /\ pos = 0 => ~cut

\* No answer is under way, or still owed, on a connection that is kept for the
\* next call: it would be taken for the answer to that one.  (The exceptions
\* are refusals of oneway calls, which the code sends though nobody reads them.)
NothingOwed ==
    op = "none" /\ conn # 0 =>
        /\ srv[conn] # "serving"
        /\ \A i \in DOMAIN s2c[conn] : /\ s2c[conn][i].kind \in {"mismatch", "tooLong"}
                                           /\ "oneway" \in Kinds
        /\ \A i \in DOMAIN c2s[conn] : c2s[conn][i].request.oneway

\* The stream that the next call finds, whatever became of the calls before.
StreamClean == InStep /\ NothingOwed

\* Both ends of a connection put the transport filters on between the same two
\* messages: what one has sent with filters the other reads with filters.
FiltersAgree ==
    /\ \A c \in Conns : srv[c] = "reading" /\ c2s[c] # <<>> =>
                            Head(c2s[c]).filtered = srvFilters[c]
    /\ io = "recv" /\ s2c[conn] # <<>> => Head(s2c[conn]).filtered = mTransportFilters

\* Whatever the server does, or does not do, a call ends (mEndTimeMs).
CallsEnd == op # "none" ~> op = "none"

\* What the caller may rely on.
Promise == INSTANCE RemoteCall WITH
    status <- [c \in Calls |->
                 CASE result[c].kind \in {"none", "running"} -> result[c].kind
                   [] result[c].kind = "returned" /\ result[c].of = c -> "returned"
                   [] result[c].kind = "returned" /\ result[c].of # c -> "wrong"
                   [] OTHER -> "ended"]

KeepsPromise == Promise!Spec
=============================================================================
