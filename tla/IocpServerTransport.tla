------------------------ MODULE IocpServerTransport ------------------------
(***************************************************************************)
(* The accept side of the Windows transports (TcpIocpServerTransport on    *)
(* IocpServerTransport): a thread of its own keeps a stock of accepts      *)
(* pending, the threads of the pool take what completes from the           *)
(* completion port and check the connection limit, and RcfServer starts    *)
(* and stops them all.                                                     *)
(*                                                                         *)
(* mQueuedAccepts counts the accepts that are pending, under a mutex of    *)
(* its own; mSessions, under another, is what the limit is checked by.     *)
(* An accept is posted before it is counted, and a session state that is   *)
(* destroyed while it still is Accepting counts down once more.            *)
(***************************************************************************)
EXTENDS Integers, FiniteSets

CONSTANTS Sessions,   \* session states; their number is a bound of the model
          Limit,      \* getConnectionLimit(), 0 for no limit
          Threshold,  \* mQueuedAcceptsThreshold, 10 in the code
          Augment,    \* mQueuedAcceptsAugment, 10 in the code
          Modulus,    \* the number of values of mQueuedAccepts, an unsigned int
          Faults,     \* what else may happen (see AllFaults)
          MaxFaults   \* bound on how many of the faults happen

\* "denied": the address of a client is not allowed; "throws": accept()
\* throws; "converts": the application turns a client's connection into a
\* session; "held": it keeps a session, by an Amd, beyond a stop().
AllFaults == {"denied", "throws", "converts", "held"}

ASSUME SessionsFinite == IsFiniteSet(Sessions)
ASSUME ConstantsAssumption ==
    /\ Limit \in Nat /\ MaxFaults \in Nat
    /\ Threshold \in Nat \ {0} /\ Augment \in Nat \ {0}
    /\ Modulus \in Nat /\ Modulus > Cardinality(Sessions) + Threshold
    /\ Faults \subseteq AllFaults

VARIABLES server,          \* the server, and how far its stop() is
          cycling,         \* whether the threads of the pool run
          mStopFlag,
          mQueuedAccepts,
          mSessions,
          phase,           \* what each session state is doing
          acceptor,        \* where the acceptor thread is
          posting,         \* the accepts generateAccepts has yet to post
          current,         \* the session state whose accept has thrown
          past             \* history: faults, and the races below

vars == <<server, cycling, mStopFlag, mQueuedAccepts, mSessions, phase,
          acceptor, posting, current, past>>

\* posted: AcceptEx is pending; allowed: below the limit, the address is not
\* yet checked; rejecting: the error is being written; live: served by an
\* RcfSession; held: live, and referred to by the application; accepting: to
\* be destroyed with mPreState Accepting; gone: its derived destructor has
\* run or has nothing to count.
Phases == {"none", "posted", "allowed", "rejecting", "live", "held", "accepting", "gone"}

TypeOK ==
    /\ server \in {"off", "running", "flagged", "joining", "crashed"}
    /\ cycling \in BOOLEAN
    /\ mStopFlag \in BOOLEAN
    /\ mQueuedAccepts \in 0 .. Modulus - 1
    /\ mSessions \subseteq Sessions
    /\ phase \in [Sessions -> Phases]
    /\ acceptor \in {"off", "test", "lock", "waiting", "again", "generate",
                     "augment", "post", "count", "unwind"}
    /\ posting \in 0 .. Augment
    /\ acceptor = "post" => posting > 0
    /\ current \in Sessions \cup {"none"}
    /\ past \subseteq AllFaults \cup {"early", "missed"}

Init ==
    /\ server = "off"
    /\ cycling = FALSE
    /\ mStopFlag = FALSE
    /\ mQueuedAccepts = 0
    /\ mSessions = {}
    /\ phase = [s \in Sessions |-> "none"]
    /\ acceptor = "off"
    /\ posting = 0
    /\ current = "none"
    /\ past = {}

In(phases) == {s \in Sessions : phase[s] \in phases}
Become(s, p) == phase' = [phase EXCEPT ![s] = p]
Happens(fault) ==
    /\ fault \in Faults
    /\ Cardinality((past \cup {fault}) \cap AllFaults) <= MaxFaults
    /\ past' = past \cup {fault}

\* ++ and -- of an unsigned number.
Up(n) == IF n = Modulus - 1 THEN 0 ELSE n + 1
Down(n) == IF n = 0 THEN Modulus - 1 ELSE n - 1

Stopping == server \in {"flagged", "joining"}
StopFlag == Stopping \/ mStopFlag

-----------------------------------------------------------------------------
(* The acceptor thread: a FixedThreadPool of one repeats cycleAccepts.      *)

Acceptor(from, to) == acceptor = from /\ acceptor' = to

Test ==
    /\ Acceptor("test", IF StopFlag THEN "off" ELSE "lock")
    /\ UNCHANGED <<server, cycling, mStopFlag, mQueuedAccepts, mSessions, phase,
                   posting, current, past>>

\* Waits once, for a notification.  stopAccepts does not take the mutex, so
\* its own may have come before: then nobody is left to notify.
LockAndWait ==
    /\ Acceptor("lock", IF mQueuedAccepts >= Threshold THEN "waiting" ELSE "again")
    /\ past' = IF mQueuedAccepts >= Threshold /\ server = "joining"
               THEN past \cup {"missed"} ELSE past
    /\ UNCHANGED <<server, cycling, mStopFlag, mQueuedAccepts, mSessions, phase,
                   posting, current>>

TestAgain ==
    /\ Acceptor("again", IF StopFlag THEN "off" ELSE "generate")
    /\ UNCHANGED <<server, cycling, mStopFlag, mQueuedAccepts, mSessions, phase,
                   posting, current, past>>

\* generateAccepts reads the count, and lets go of the mutex.
Generate ==
    /\ Acceptor("generate", IF mQueuedAccepts < Threshold THEN "augment" ELSE "test")
    /\ UNCHANGED <<server, cycling, mStopFlag, mQueuedAccepts, mSessions, phase,
                   posting, current, past>>

\* One extra connection, to report the limit to.  The difference is of
\* unsigned numbers: beyond the limit it is a large one.
Room ==
    IF Limit # 0 /\ Cardinality(mSessions) <= Limit + 1
          /\ Limit + 1 - Cardinality(mSessions) < Augment
    THEN Limit + 1 - Cardinality(mSessions)
    ELSE Augment

\* Bound: as many as there are session states.
ReadRoom ==
    /\ posting' = IF Room < Cardinality(In({"none"})) THEN Room ELSE Cardinality(In({"none"}))
    /\ Acceptor("augment", IF posting' = 0 THEN "test" ELSE "post")
    /\ UNCHANGED <<server, cycling, mStopFlag, mQueuedAccepts, mSessions, phase,
                   current, past>>

\* accept(): the session state registers itself, and AcceptEx is pending.
PostAccept(s) ==
    /\ Acceptor("post", "count")
    /\ phase[s] = "none"
    /\ mSessions' = mSessions \cup {s}
    /\ Become(s, "posted")
    /\ posting' = posting - 1
    /\ UNCHANGED <<server, cycling, mStopFlag, mQueuedAccepts, current, past>>

\* accept() throws, and the session state goes while the stack unwinds.
\* Without a socket its destructor throws before it counts (closesocket).
PostThrows(s) ==
    /\ Acceptor("post", "unwind")
    /\ phase[s] = "none"
    /\ mSessions' = mSessions \cup {s}
    /\ \E p \in {"accepting", "gone"} : Become(s, p)
    /\ posting' = 0
    /\ current' = s
    /\ Happens("throws")
    /\ UNCHANGED <<server, cycling, mStopFlag, mQueuedAccepts>>

Unwound ==
    /\ current \notin In({"accepting", "gone"})
    /\ Acceptor("unwind", "test")
    /\ current' = "none"
    /\ UNCHANGED <<server, cycling, mStopFlag, mQueuedAccepts, mSessions, phase,
                   posting, past>>

CountAccept ==
    /\ Acceptor("count", IF posting = 0 THEN "test" ELSE "post")
    /\ mQueuedAccepts' = Up(mQueuedAccepts)
    /\ UNCHANGED <<server, cycling, mStopFlag, mSessions, phase, posting, current,
                   past>>

-----------------------------------------------------------------------------
(* Completions, handled by the threads of the pool.                         *)

\* Faulty variant: nobody tells the acceptor that an accept is gone.
CountDownQuietly ==
    /\ mQueuedAccepts' = Down(mQueuedAccepts)
    /\ UNCHANGED acceptor

\* What both onAccept and the destructor do, under the mutex of the count.
CountDown ==
    /\ mQueuedAccepts' = Down(mQueuedAccepts)
    /\ acceptor' = IF acceptor = "waiting" /\ mQueuedAccepts' < Threshold
                   THEN "again" ELSE acceptor

\* Faulty variant: one too many.
FullAndOne == Limit # 0 /\ Cardinality(mSessions) >= 2 + Limit
Full == Limit # 0 /\ Cardinality(mSessions) >= 1 + Limit

\* implOnAccept: the limit is checked by whoever finds no accept left.
\* "early": the acceptor has not yet counted the accept.
OnAccept(s) ==
    /\ cycling /\ phase[s] = "posted"
    /\ CountDown
    /\ Become(s, IF mQueuedAccepts' = 0 /\ Full THEN "rejecting" ELSE "allowed")
    /\ past' = IF mQueuedAccepts = 0 THEN past \cup {"early"} ELSE past
    /\ UNCHANGED <<server, cycling, mStopFlag, mSessions, posting, current>>

\* onCompletion of an accept with an error: nothing holds the session state.
AcceptAborted(s) ==
    /\ cycling /\ phase[s] = "posted"
    /\ Become(s, "accepting")
    /\ UNCHANGED <<server, cycling, mStopFlag, mQueuedAccepts, mSessions, acceptor,
                   posting, current, past>>

\* A faked write, so that the session reads its first request.
AddressAllowed(s) ==
    /\ cycling /\ phase[s] = "allowed"
    /\ Become(s, "live")
    /\ UNCHANGED <<server, cycling, mStopFlag, mQueuedAccepts, mSessions, acceptor,
                   posting, current, past>>

\* The session state goes, and still is Accepting.
AddressDenied(s) ==
    /\ cycling /\ phase[s] = "allowed"
    /\ Become(s, "accepting")
    /\ Happens("denied")
    /\ UNCHANGED <<server, cycling, mStopFlag, mQueuedAccepts, mSessions, acceptor,
                   posting, current>>

\* The connection ends, or the error that rejects it has been written.
Ends(s) ==
    /\ cycling /\ phase[s] \in {"live", "rejecting"}
    /\ Become(s, "gone")
    /\ UNCHANGED <<server, cycling, mStopFlag, mQueuedAccepts, mSessions, acceptor,
                   posting, current, past>>

\* ~TcpIocpSessionState, and then ~IocpSessionState.
DestroyAccepting(s) ==
    /\ phase[s] = "accepting"
    /\ CountDown
    /\ Become(s, "gone")
    /\ past' = IF mQueuedAccepts = 0 THEN past \cup {"early"} ELSE past
    /\ UNCHANGED <<server, cycling, mStopFlag, mSessions, posting, current>>

Unregister(s) ==
    /\ phase[s] = "gone"
    /\ mSessions' = mSessions \ {s}
    /\ Become(s, "none")
    /\ UNCHANGED <<server, cycling, mStopFlag, mQueuedAccepts, acceptor, posting,
                   current, past>>

-----------------------------------------------------------------------------
(* The application.                                                         *)

\* createServerSession, whatever the limit.  Bound: once, and while there is
\* a session state that no accept needs.
Converts(s) ==
    /\ server = "running" /\ phase[s] = "none" /\ "converts" \notin past
    /\ Cardinality(In({"none"})) > posting
    /\ mSessions' = mSessions \cup {s}
    /\ Become(s, "live")
    /\ Happens("converts")
    /\ UNCHANGED <<server, cycling, mStopFlag, mQueuedAccepts, acceptor, posting,
                   current>>

\* An Amd that is not committed until the connection is over.  Bound: once.
Holds(s) ==
    /\ cycling /\ phase[s] = "live" /\ "held" \notin past
    /\ Become(s, "held")
    /\ Happens("held")
    /\ UNCHANGED <<server, cycling, mStopFlag, mQueuedAccepts, mSessions, acceptor,
                   posting, current>>

\* At any time, and by a thread the server does not know.
Releases(s) ==
    /\ phase[s] = "held"
    /\ Become(s, "gone")
    /\ UNCHANGED <<server, cycling, mStopFlag, mQueuedAccepts, mSessions, acceptor,
                   posting, current, past>>

-----------------------------------------------------------------------------
(* The server: start() opens the transport and launches the threads, stop() *)
(* joins them, the acceptor first, and closes the transport.                *)

Start ==
    /\ server = "off"
    /\ server' = "running"
    /\ mQueuedAccepts' = 0
    /\ mSessions' = {}
    /\ cycling' = TRUE
    /\ acceptor' = "test"
    /\ posting' = 0
    /\ current' = "none"
    /\ UNCHANGED <<mStopFlag, phase, past>>

Stop ==
    /\ server = "running"
    /\ server' = "flagged"
    /\ UNCHANGED <<cycling, mStopFlag, mQueuedAccepts, mSessions, phase, acceptor,
                   posting, current, past>>

\* Faulty variant: nobody is notified.
StopAcceptsQuietly ==
    /\ server = "flagged"
    /\ server' = "joining"
    /\ mStopFlag' = TRUE
    /\ UNCHANGED <<cycling, mQueuedAccepts, mSessions, phase, acceptor, posting,
                   current, past>>

StopAccepts ==
    /\ server = "flagged"
    /\ server' = "joining"
    /\ mStopFlag' = TRUE
    /\ acceptor' = IF acceptor = "waiting" THEN "again" ELSE acceptor
    /\ UNCHANGED <<cycling, mQueuedAccepts, mSessions, phase, posting, current,
                   past>>

\* The threads of the pool end when they have handled what they took.
CyclesEnd ==
    /\ Stopping /\ cycling
    /\ \A s \in Sessions : phase[s] \notin {"allowed", "accepting", "gone"}
    /\ cycling' = FALSE
    /\ UNCHANGED <<server, mStopFlag, mQueuedAccepts, mSessions, phase, acceptor,
                   posting, current, past>>

\* onServerStop, with all threads joined: close() locks the weak pointers of
\* mSessions and drops what each session state holds of itself.  One whose
\* destructor the application has begun cannot be locked.  Accepts count
\* down as they go, and the next open() forgets the count.
Close ==
    /\ server = "joining" /\ acceptor = "off" /\ ~cycling
    /\ IF \E s \in mSessions : phase[s] = "gone"
       THEN /\ server' = "crashed"
            /\ UNCHANGED <<mSessions, phase>>
       ELSE /\ server' = "off"
            /\ mSessions' = mSessions \cap In({"held"})
            /\ phase' = [s \in Sessions |->
                            IF s \in mSessions /\ phase[s] # "held" THEN "none" ELSE phase[s]]
    /\ mStopFlag' = FALSE
    /\ mQueuedAccepts' = LET pending == Cardinality(mSessions \cap In({"posted"}))
                         IN  IF pending = 0 THEN 0 ELSE Modulus - pending
    /\ UNCHANGED <<cycling, acceptor, posting, current, past>>

-----------------------------------------------------------------------------
AcceptorStep ==
    \/ Test \/ LockAndWait \/ TestAgain \/ Generate \/ ReadRoom \/ Unwound \/ CountAccept
    \/ \E s \in Sessions : PostAccept(s) \/ PostThrows(s)

Handler(s) ==
    \/ AddressAllowed(s) \/ AddressDenied(s) \/ DestroyAccepting(s) \/ Unregister(s)

ServerStep == StopAccepts \/ CyclesEnd \/ Close

Next ==
    \/ AcceptorStep \/ ServerStep \/ Start \/ Stop
    \/ \E s \in Sessions :
          \/ OnAccept(s) \/ AcceptAborted(s) \/ Handler(s) \/ Ends(s)
          \/ Converts(s) \/ Holds(s) \/ Releases(s)

Spec == Init /\ [][Next]_vars

\* Every thread goes on while it can.  Clients come and go as they like, and
\* nobody has to start or stop the server.
FairSpec ==
    /\ Spec
    /\ WF_vars(AcceptorStep)
    /\ WF_vars(StopAccepts) /\ WF_vars(CyclesEnd) /\ WF_vars(Close)
    /\ \A s \in Sessions : WF_vars(Handler(s))

-----------------------------------------------------------------------------
(* Properties.                                                              *)

Connections == mSessions \cap In({"live", "held"})

\* Not always so: an accept that completes before it is counted takes the
\* unsigned count below zero and hides the check (README, section 5).
LimitKept == Limit # 0 => Cardinality(Connections) <= Limit

\* The limit holds for connections that are accepted, though the count lags
\* behind the accepts, unless an accept completes before it is counted or a
\* destructor has counted down what nobody counted up.
LimitHolds ==
    past \cap {"early", "denied", "throws", "converts"} = {} => LimitKept

\* Whatever happens, but for converted connections, one too many at most.
LimitNearly ==
    Limit # 0 /\ "converts" \notin past => Cardinality(Connections) <= Limit + 1

\* A client is turned away only if Limit others are there.  Not so while the
\* count lags behind (README, section 5).
RejectsOnlyAtLimit ==
    [][\A s \in Sessions :
          phase[s] = "posted" /\ phase'[s] = "rejecting"
             => Cardinality(mSessions \ (In({"posted"}) \cup {s})) >= Limit]_vars

\* A running server has an accept pending, or it is full.
Open == In({"posted"}) # {} \/ (Limit # 0 /\ Cardinality(mSessions) > Limit)

\* Fails once a count has gone wrong: the acceptor may wait for ever.
StaysOpen == (server = "running") ~> (Open \/ server # "running")

\* A running server without a pending accept gets one, or it is full, though
\* the count and the sessions are read and changed in separate sections.
AcceptsAgain ==
    (server = "running") ~>
       (Open \/ server # "running" \/ past \cap {"denied", "throws"} # {})

\* The acceptor gets the notification of stopAccepts.  It may not: that
\* does not take the mutex (README, section 5).
NoMissedStop == "missed" \notin past

\* close() finds every session state of mSessions alive.  Not if the
\* application lets go of one at that moment.
CloseFindsSessions == server # "crashed"

\* stop() returns: the acceptor and the pool end, close() finds every
\* session state alive, unless the acceptor has missed its notification or
\* the application has kept a session.
StopReturns ==
    Stopping ~> (server = "off" \/ past \cap {"missed", "held"} # {})
=============================================================================
