------------------------ MODULE AsioServerTransport ------------------------
(***************************************************************************)
(* The accept loop of the Asio transports (AsioServerTransport and the     *)
(* session states of TcpAsioServerTransport), with the connection limit    *)
(* and the life of the transport: open, start, stop, close.                *)
(*                                                                         *)
(* Every session state registers itself in mSessions when it is created    *)
(* and leaves it when it is destroyed; it lives as long as a handler that  *)
(* holds it is pending or running.  One session state at a time is meant   *)
(* to wait in async_accept: when its connection arrives, the handler       *)
(* (onAccept) creates the next one, and only then looks at the limit.      *)
(* Handlers run on the threads of the pool, so two onAccept may overlap.   *)
(***************************************************************************)
EXTENDS Integers, FiniteSets

CONSTANTS Sessions,  \* session states; their number is a bound of the model
          Limit,     \* getConnectionLimit(), 0 for no limit
          Faults     \* what else may happen (see AllFaults)

\* "peerGone": the client has hung up before onAccept asks for its address,
\* and remote_endpoint() throws; "acceptError": async_accept fails with an
\* error other than an abort; "restart": the server is started again after a
\* stop() without a close().
AllFaults == {"peerGone", "acceptError", "restart"}

ASSUME SessionsFinite == IsFiniteSet(Sessions)
ASSUME LimitAssumption == Limit \in Nat
ASSUME FaultsAssumption == Faults \subseteq AllFaults

VARIABLES server,    \* the transport as RcfServer sees it
          mStopFlag,
          phase,     \* what each session state is doing
          used,      \* whether the server has been started since it was opened
          faulted    \* history: whether one of the faults has happened

vars == <<server, mStopFlag, phase, used, faulted>>

\* accepting: in async_accept; accepted: in onAccept, the next accept is not
\* yet issued; checking: before the connection limit; live: served by an
\* RcfSession; rejecting: writing the error message, to be closed after it.
Phases == {"none", "accepting", "accepted", "checking", "live", "rejecting"}

TypeOK ==
    /\ server \in {"closed", "open", "started", "closing"}
    /\ mStopFlag \in BOOLEAN
    /\ phase \in [Sessions -> Phases]
    /\ used \in BOOLEAN
    /\ faulted \in BOOLEAN

Init ==
    /\ server = "closed"
    /\ mStopFlag = FALSE
    /\ phase = [s \in Sessions |-> "none"]
    /\ used = FALSE
    /\ faulted = FALSE

In(phases) == {s \in Sessions : phase[s] \in phases}
Become(s, p) == phase' = [phase EXCEPT ![s] = p]

mSessions == Sessions \ In({"none"})
Handlers == In({"accepted", "checking"})

-----------------------------------------------------------------------------
(* The server's calls.                                                      *)

\* RcfServer::open: open() creates the demuxer and the acceptor.
Open ==
    /\ server = "closed"
    /\ server' = "open"
    /\ mStopFlag' = FALSE
    /\ used' = FALSE
    /\ UNCHANGED <<phase, faulted>>

\* RcfServer::start: onServerStart issues an accept, whether or not one of
\* an earlier start is still pending; then the threads are launched.
Start(s) ==
    /\ server = "open"
    /\ used => "restart" \in Faults
    /\ phase[s] = "none"
    /\ mStopFlag' = FALSE
    /\ Become(s, "accepting")
    /\ server' = "started"
    /\ used' = TRUE
    /\ faulted' = (faulted \/ used)

\* RcfServer::stop joins the threads, so no handler is running; what is
\* pending stays in the demuxer.
Stop ==
    /\ server = "started"
    /\ Handlers = {}
    /\ server' = "open"
    /\ UNCHANGED <<mStopFlag, phase, used, faulted>>

\* Faulty variant: close() forgets to set mStopFlag.
CloseUnflagged ==
    /\ server = "open"
    /\ server' = "closing"
    /\ UNCHANGED <<mStopFlag, phase, used, faulted>>

\* close(): the acceptor goes, mStopFlag is set and every session is closed,
\* so every pending operation completes with an error.
Close ==
    /\ server = "open"
    /\ server' = "closing"
    /\ mStopFlag' = TRUE
    /\ UNCHANGED <<phase, used, faulted>>

\* onAccept after an abort: accept again, unless the transport is closing.
\* The same session state is used again.
AcceptAborted(s) ==
    /\ phase[s] = "accepting"
    /\ server = "closing"
    /\ IF mStopFlag THEN Become(s, "none") ELSE UNCHANGED phase
    /\ UNCHANGED <<server, mStopFlag, used, faulted>>

\* The loop in close() runs the handlers of reads and writes: they find an
\* error and mStopFlag, and return.
DrainIo(s) ==
    /\ server = "closing"
    /\ phase[s] \in {"live", "rejecting"}
    /\ Become(s, "none")
    /\ UNCHANGED <<server, mStopFlag, used, faulted>>

\* The loop ends when a run of the demuxer has handled nothing.
Closed ==
    /\ server = "closing"
    /\ mSessions = {}
    /\ server' = "closed"
    /\ UNCHANGED <<mStopFlag, phase, used, faulted>>

-----------------------------------------------------------------------------
(* Handlers, run by the threads of a started server.                        *)

Running == server = "started"

\* A connection arrives.  Bound: as long as there is room for the session
\* states that the running handlers will create.
Arrives(s) ==
    /\ Running /\ phase[s] = "accepting"
    /\ Cardinality(In({"accepted"})) < Cardinality(In({"none"}))
    /\ Become(s, IF mStopFlag THEN "none" ELSE "accepted")
    /\ UNCHANGED <<server, mStopFlag, used, faulted>>

\* implOnAccept throws: the session state goes and no accept is issued.
PeerGone(s) ==
    /\ Running /\ phase[s] = "accepted"
    /\ "peerGone" \in Faults
    /\ Become(s, "none")
    /\ faulted' = TRUE
    /\ UNCHANGED <<server, mStopFlag, used>>

\* onAccept with any other error returns.
AcceptError(s) ==
    /\ Running /\ phase[s] = "accepting"
    /\ "acceptError" \in Faults
    /\ Become(s, "none")
    /\ faulted' = TRUE
    /\ UNCHANGED <<server, mStopFlag, used>>

\* Faulty variant: only the first connection is accepted.
AcceptNextNever(s, n) ==
    /\ Running /\ phase[s] = "accepted" /\ phase[n] = "none"
    /\ Become(s, "checking")
    /\ UNCHANGED <<server, mStopFlag, used, faulted>>

\* Faulty variant: a second accept for every connection.
AcceptNextTwice(s, n) ==
    /\ Running /\ phase[s] = "accepted" /\ phase[n] = "none"
    /\ phase' = [t \in Sessions |-> IF t = s THEN "checking"
                                    ELSE IF phase[t] = "none" THEN "accepting"
                                    ELSE phase[t]]
    /\ UNCHANGED <<server, mStopFlag, used, faulted>>

\* createSessionState()->invokeAsyncAccept().
AcceptNext(s, n) ==
    /\ Running /\ phase[s] = "accepted" /\ phase[n] = "none"
    /\ phase' = [phase EXCEPT ![s] = "checking", ![n] = "accepting"]
    /\ UNCHANGED <<server, mStopFlag, used, faulted>>

\* isClientAddrAllowed is false: nothing holds the session state any more.
NotAllowed(s) ==
    /\ Running /\ phase[s] = "checking"
    /\ Become(s, "none")
    /\ UNCHANGED <<server, mStopFlag, used, faulted>>

\* Faulty variant: one too many.
FullAndOne == 1 + 1 + 1 + Limit

\* The number of sessions that a full server has: one in accept, the one
\* that is being checked, and Limit others.
Full == 1 + 1 + Limit

\* The assertion of onAccept: it throws when it fails, and the session state
\* goes (a debug build aborts).
CheckAssertion(s) ==
    /\ Running /\ phase[s] = "checking"
    /\ Limit # 0 /\ Cardinality(mSessions) > Full
    /\ Become(s, "none")
    /\ UNCHANGED <<server, mStopFlag, used, faulted>>

\* onReadWrite(0) of a faked write: the session reads its first request.
Allow(s) ==
    /\ Running /\ phase[s] = "checking"
    /\ Limit = 0 \/ Cardinality(mSessions) < Full
    /\ Become(s, "live")
    /\ UNCHANGED <<server, mStopFlag, used, faulted>>

\* sendServerError(RcfError_ConnectionLimitExceeded).
Reject(s) ==
    /\ Running /\ phase[s] = "checking"
    /\ Limit # 0 /\ Cardinality(mSessions) = Full
    /\ Become(s, "rejecting")
    /\ UNCHANGED <<server, mStopFlag, used, faulted>>

\* The error has been written: the handler drops what the client has sent.
Rejected(s) ==
    /\ Running /\ phase[s] = "rejecting"
    /\ Become(s, "none")
    /\ UNCHANGED <<server, mStopFlag, used, faulted>>

\* The connection ends: its read or write completes with an error.
SessionEnds(s) ==
    /\ Running /\ phase[s] = "live"
    /\ Become(s, "none")
    /\ UNCHANGED <<server, mStopFlag, used, faulted>>

Handler(s) ==
    \/ \E n \in Sessions : AcceptNext(s, n)
    \/ CheckAssertion(s) \/ Allow(s) \/ Reject(s)

Next ==
    \/ Open \/ Stop \/ Close \/ Closed
    \/ \E s \in Sessions :
          \/ Start(s) \/ AcceptAborted(s) \/ DrainIo(s)
          \/ Arrives(s) \/ PeerGone(s) \/ AcceptError(s)
          \/ NotAllowed(s) \/ Rejected(s) \/ SessionEnds(s)
          \/ Handler(s)

Spec == Init /\ [][Next]_vars

\* A handler that runs gets to its end, and close() runs the handlers it
\* has cancelled.  Nobody has to connect, to hang up or to stop the server.
FairSpec ==
    /\ Spec
    /\ \A s \in Sessions :
          /\ WF_vars(Handler(s))
          /\ WF_vars(AcceptAborted(s))
          /\ WF_vars(DrainIo(s))
    /\ WF_vars(Closed)

-----------------------------------------------------------------------------
(* Properties.                                                              *)

Chain == In({"accepting", "accepted"})

\* From the first start to the close() exactly one session state waits for a
\* connection, or is a handler about to issue the next accept.
OneAccept ==
    ~faulted =>
       IF server = "started" \/ (server = "open" /\ used)
       THEN \E s \in Sessions : Chain = {s}
       ELSE server # "closing" => Chain = {}

\* No more connections are served than the limit allows, though every
\* handler counts the sessions while others accept, reject and end.
LimitHolds == ~faulted /\ Limit # 0 => Cardinality(In({"live"})) <= Limit

\* One more connection may slip in when faults have ended the chain of
\* accepts: the check takes for granted that a session is in accept.
LimitNearly == Limit # 0 => Cardinality(In({"live"})) <= Limit + 1

\* The assertion of onAccept, when it is evaluated.  It fails without any
\* fault, when several clients come at once (README, section 5).
LimitAssertion ==
    Limit # 0 /\ In({"checking"}) # {} => Cardinality(mSessions) <= Full

\* A connection is turned away only when there are Limit others.
RejectsOnlyAtLimit ==
    [][\A s \in Sessions :
          ~faulted /\ phase[s] = "checking" /\ phase'[s] = "rejecting"
             => Cardinality(mSessions \ (In({"accepting"}) \cup {s})) >= Limit]_vars

\* The server accepts again after every connection, as long as it runs.
AcceptsAgain ==
    Running ~> (In({"accepting"}) # {} \/ ~Running \/ faulted)

\* close() comes to its end, and no session state is left then.
CloseEnds == server = "closing" ~> (server = "closed" /\ mSessions = {})

\* The flag of a close() is down again when handlers run.
Flags ==
    /\ server \in {"open", "started"} => ~mStopFlag
    /\ server = "started" => used

\* What the proofs need: the types, and the safety properties, which are
\* inductive together.
IInv == TypeOK /\ Flags /\ OneAccept /\ LimitHolds
=============================================================================
