--------------------------- MODULE ObjectFactory ---------------------------
(***************************************************************************)
(* Objects that clients create on the server (ObjectFactoryService.cpp).   *)
(* Each has one of a fixed number of tokens (Token.cpp), by which its      *)
(* client calls it.  A thread of the service sweeps away the objects that  *)
(* have not been used for some time, and to which nothing else refers.     *)
(* Clients use the service each over a session of its own; the thread that *)
(* serves a request of client c is c's, too.                               *)
(***************************************************************************)
EXTENDS Naturals, Sequences, FiniteSets

CONSTANTS Clients,
          NumTokens,     \* numberOfTokens
          SweepFrom,     \* number of used tokens above mCleanupThreshold
          StaleDeletes,  \* clients also delete objects that have timed out
          MaxObjects     \* bound: objects created

ASSUME ConstantsAssumption ==
    /\ {NumTokens, SweepFrom} \subseteq Nat \ {0} /\ SweepFrom <= NumTokens
    /\ StaleDeletes \in BOOLEAN /\ MaxObjects \in Nat /\ Clients # {}

Tokens == 1 .. NumTokens        \* mTokenSpace; 0 is Token()
Objects == 1 .. MaxObjects      \* 0 is no object

VARIABLES
    \* the service
    mAvailableTokens, mStubMap,
    sweep,     \* token the sweep is at, 0 between sweeps
    taken,     \* token whose object the sweep has dropped, and has yet to return
    \* the objects, numbered as they are created
    nobjects, kind, owner,
    old,       \* more than mClientStubTimeoutS has passed since touch()
    deleted,   \* its client has asked for its deletion
    \* the requests and sessions
    pc,        \* what the thread that serves the client does next
    newToken,  \* the token requestToken has given it
    ref,       \* the object it refers to
    cached,    \* mCachedStubEntryPtr of the session
    \* the clients
    token,     \* target token of the client's stub
    mine       \* the object it was given for

tokenVars == <<mAvailableTokens, mStubMap>>
sweepVars == <<sweep, taken>>
objectVars == <<nobjects, kind, owner, old, deleted>>
threadVars == <<pc, newToken, ref, cached>>
clientVars == <<token, mine>>
ofVars == <<tokenVars, sweepVars, objectVars, threadVars, clientVars>>

OfInit ==
    /\ mAvailableTokens = [i \in 1 .. NumTokens |-> NumTokens + 1 - i]
    /\ mStubMap = [t \in Tokens |-> 0]
    /\ sweep = 0 /\ taken = 0
    /\ nobjects = 0 /\ kind = [o \in Objects |-> "none"]
    /\ owner = [o \in Objects |-> CHOOSE c \in Clients : TRUE]
    /\ old = [o \in Objects |-> FALSE] /\ deleted = {}
    /\ pc = [c \in Clients |-> "idle"]
    /\ newToken = [c \in Clients |-> 0]
    /\ ref = [c \in Clients |-> 0] /\ cached = [c \in Clients |-> 0]
    /\ token = [c \in Clients |-> 0] /\ mine = [c \in Clients |-> 0]

\* Client c can send a request.
Ready(c) == pc[c] = "idle"

\* TokenMapped::touch.
Touch(o) == old' = [old EXCEPT ![o] = FALSE]

\* requestToken, which can fail: TokenRequestFailed.
RequestToken(c) ==
    /\ mAvailableTokens # <<>>
    /\ newToken' = [newToken EXCEPT ![c] = mAvailableTokens[Len(mAvailableTokens)]]
    /\ mAvailableTokens' = SubSeq(mAvailableTokens, 1, Len(mAvailableTokens) - 1)

\* returnToken.
ReturnToken(t) == mAvailableTokens' = Append(mAvailableTokens, t)

\* A new object, and the first half of addObject.  The request goes to the
\* service, whose own stub replaces what the session has cached.
NewObject(c, k) ==
    /\ RequestToken(c)
    /\ nobjects < MaxObjects
    /\ nobjects' = nobjects + 1
    /\ kind' = [kind EXCEPT ![nobjects + 1] = k]
    /\ owner' = [owner EXCEPT ![nobjects + 1] = c]
    /\ ref' = [ref EXCEPT ![c] = nobjects + 1]
    /\ cached' = [cached EXCEPT ![c] = 0]
    /\ pc' = [pc EXCEPT ![c] = "store"]
    /\ UNCHANGED <<mStubMap, sweepVars, old, deleted, clientVars>>

\* createObject, until it has its token.
CreateObject(c) == Ready(c) /\ NewObject(c, "stub")

\* The second half of addObject.
AddObject(c) ==
    /\ pc[c] = "store"
    /\ mStubMap' = [mStubMap EXCEPT ![newToken[c]] = ref[c]]
    /\ token' = [token EXCEPT ![c] = newToken[c]]
    /\ mine' = [mine EXCEPT ![c] = ref[c]]
    /\ newToken' = [newToken EXCEPT ![c] = 0]
    /\ UNCHANGED <<mAvailableTokens, sweepVars, objectVars>>

\* createObject is done: the session caches the object.
CreatedObject(c) ==
    /\ AddObject(c) /\ kind[ref[c]] = "stub"
    /\ cached' = [cached EXCEPT ![c] = ref[c]]
    /\ ref' = [ref EXCEPT ![c] = 0]
    /\ pc' = [pc EXCEPT ![c] = "idle"]

\* A call of the object: locateStubEntryPtr and processRequest.
Invoke(c) ==
    LET o == mStubMap[token[c]]
    IN  /\ Ready(c) /\ token[c] # 0 /\ o # 0 /\ kind[o] = "stub"
        /\ ref' = [ref EXCEPT ![c] = o] /\ cached' = [cached EXCEPT ![c] = o]
        /\ Touch(o)
        /\ pc' = [pc EXCEPT ![c] = "serving"]
        /\ UNCHANGED <<tokenVars, sweepVars, nobjects, kind, owner, deleted, newToken, clientVars>>

\* Its servant has run (~StubEntryTouch).
Invoked(c) ==
    /\ pc[c] = "serving"
    /\ Touch(ref[c])
    /\ ref' = [ref EXCEPT ![c] = 0] /\ pc' = [pc EXCEPT ![c] = "idle"]
    /\ UNCHANGED <<tokenVars, sweepVars, nobjects, kind, owner, deleted, newToken, cached, clientVars>>

\* deleteObject, called once by the client's stub, or for its upload by
\* removeUpload.  Nothing checks that the token is still in use, or whose.
DeleteObject(c) ==
    /\ Ready(c) /\ token[c] # 0 /\ mine[c] \notin deleted
    /\ StaleDeletes \/ ~old[mine[c]]
    /\ ReturnToken(token[c])
    /\ mStubMap' = [mStubMap EXCEPT ![token[c]] = 0]
    /\ deleted' = deleted \cup {mine[c]}
    /\ cached' = [cached EXCEPT ![c] = 0]
    /\ UNCHANGED <<sweepVars, nobjects, kind, owner, old, pc, newToken, ref, clientVars>>

\* The time-out of an object passes.
Age(o) ==
    /\ ~old[o] /\ \E t \in Tokens : mStubMap[t] = o
    /\ old' = [old EXCEPT ![o] = TRUE]
    /\ UNCHANGED <<tokenVars, sweepVars, nobjects, kind, owner, deleted, threadVars, clientVars>>

\* The connection ends, and with it the session; the client's next call is
\* over a new one.
EndSession(c) ==
    /\ Ready(c)
    /\ cached' = [cached EXCEPT ![c] = 0]
    /\ UNCHANGED <<tokenVars, sweepVars, objectVars, pc, newToken, ref, clientVars>>

-----------------------------------------------------------------------------
(***************************************************************************)
(* The thread of the service                                               *)
(***************************************************************************)

\* tokenMappedPtr.unique(): only the map refers to the object.
Unique(o) == \A c \in Clients : ref[c] # o /\ cached[c] # o

NextToken == sweep' = (sweep + 1) % (NumTokens + 1)

\* cycleCleanup, woken by createObject or by its interval.
BeginSweep ==
    /\ sweep = 0 /\ NumTokens - Len(mAvailableTokens) >= SweepFrom
    /\ NextToken
    /\ UNCHANGED <<tokenVars, taken, objectVars, threadVars, clientVars>>

\* Mutants of SweepObject: an object is dropped although it is in use, or
\* its token is returned before it is dropped.
SweepObjectUsed ==
    LET o == mStubMap[sweep]
    IN  /\ sweep # 0 /\ taken = 0
        /\ IF o # 0 /\ Unique(o)
           THEN /\ mStubMap' = [mStubMap EXCEPT ![sweep] = 0]
                /\ taken' = sweep /\ UNCHANGED sweep
           ELSE NextToken /\ UNCHANGED <<mStubMap, taken>>
        /\ UNCHANGED <<mAvailableTokens, objectVars, threadVars, clientVars>>

\* cleanupStubMap, for one token: under the mutexes of the map and the token
\* the object is dropped ...
SweepObject ==
    LET o == mStubMap[sweep]
    IN  /\ sweep # 0 /\ taken = 0
        /\ IF o # 0 /\ Unique(o) /\ old[o]
           THEN /\ mStubMap' = [mStubMap EXCEPT ![sweep] = 0]
                /\ taken' = sweep /\ UNCHANGED sweep
           ELSE NextToken /\ UNCHANGED <<mStubMap, taken>>
        /\ UNCHANGED <<mAvailableTokens, objectVars, threadVars, clientVars>>

\* Mutants of SweepReturn: the token is returned twice, or never.
SweepReturnTwice ==
    /\ taken # 0
    /\ mAvailableTokens' = mAvailableTokens \o <<taken, taken>>
    /\ taken' = 0 /\ NextToken
    /\ UNCHANGED <<mStubMap, objectVars, threadVars, clientVars>>

SweepReturnNever ==
    /\ taken # 0
    /\ taken' = 0 /\ NextToken
    /\ UNCHANGED <<tokenVars, objectVars, threadVars, clientVars>>

\* ... and later its token is returned.
SweepReturn ==
    /\ taken # 0
    /\ ReturnToken(taken)
    /\ taken' = 0 /\ NextToken
    /\ UNCHANGED <<mStubMap, objectVars, threadVars, clientVars>>

-----------------------------------------------------------------------------
OfThread(c) == CreatedObject(c) \/ Invoked(c)
Sweep == BeginSweep \/ SweepObject \/ SweepReturn

OfNext ==
    \/ \E c \in Clients : CreateObject(c) \/ Invoke(c) \/ DeleteObject(c) \/ OfThread(c)
                          \/ EndSession(c)
    \/ \E o \in Objects : Age(o)
    \/ Sweep

OfSpec == OfInit /\ [][OfNext]_ofVars

-----------------------------------------------------------------------------
(***************************************************************************)
(* Properties                                                              *)
(***************************************************************************)

\* A token is in one place at a time: available, on its way to or from the
\* map, or in the map with one object.
Available == {mAvailableTokens[i] : i \in DOMAIN mAvailableTokens}
InMap == {t \in Tokens : mStubMap[t] # 0}
OnTheWay == {newToken[c] : c \in Clients} \ {0}
OneHolder ==
    /\ \A i, j \in DOMAIN mAvailableTokens : mAvailableTokens[i] = mAvailableTokens[j] => i = j
    /\ Available \cap (InMap \cup OnTheWay \cup {taken}) = {}
    /\ taken \notin InMap \cup OnTheWay
    /\ OnTheWay \cap InMap = {}
    /\ \A c, d \in Clients : c # d /\ newToken[c] = newToken[d] => newToken[c] = 0

\* A client reaches the object it has created by its token, until the
\* time-out has passed since its last call, or it has deleted the object.
Reachable ==
    \A c \in Clients :
        mine[c] # 0 /\ mine[c] \notin deleted =>
            old[mine[c]] \/ mStubMap[token[c]] = mine[c]

\* When all tokens are taken, for objects that nobody has used for long or
\* still refers to, one becomes available, or an object is used again.
AllIdle ==
    /\ \A t \in InMap : old[mStubMap[t]] /\ Unique(mStubMap[t])
    /\ \A c \in Clients : pc[c] = "idle"
TokensReturn == (mAvailableTokens = <<>> /\ AllIdle) ~> (mAvailableTokens # <<>> \/ ~AllIdle)
=============================================================================
