---------------------------- MODULE AsyncCallInv ----------------------------
(***************************************************************************)
(* The inductive invariant behind EndedOnce of AsyncCall: who has the      *)
(* mutex of the current OverlappedAmi, whose operation can still be heard  *)
(* of, and where the callback of a call is.                                *)
(***************************************************************************)
EXTENDS AsyncCall

Workers == {"io", "connect"}   \* the threads that handle operations

\* The types, as far as they matter.
AsyncTypes ==
    /\ gen \in Nat \ {0} /\ ncalls \in 0 .. MaxCalls
    /\ DOMAIN taken = Pool /\ taken = [t \in Pool |-> taken[t]]
    /\ holds \in [Threads -> Nat] /\ inCallback \in [Threads -> 0 .. MaxCalls]
    /\ ran \in [Calls -> Nat] /\ endedBy \in [Calls -> 0 .. MaxCalls] /\ dropped \subseteq Calls
    /\ mAsyncCallback \in 0 .. MaxCalls

\* A handler has the mutex of the current OverlappedAmi, to which what it has
\* taken belongs; a callback may have an older one.  Nobody shares a mutex.
Mutexes ==
    /\ \A t, u \in Threads : holds[t] = holds[u] /\ holds[t] # 0 => t = u
    /\ holds["app"] = 0
    /\ \A t \in Pool : holds[t] # 0 /\ inCallback[t] = 0 => holds[t] = gen /\ taken[t].gen = gen

\* No call is under way.
Ended == ncalls = 0 \/ endedBy[ncalls] # 0 \/ ncalls \in dropped

\* An operation that will be heard of: its OverlappedAmi has not been detached.
Heard(o) == o.gen = gen
Handling(t) == Heard(taken[t]) /\ inCallback[t] = 0

\* There is at most one, and it is the current call's.
Own(o) == /\ o.gen \in Nat /\ o.gen <= gen
          /\ Heard(o) => o.call = ncalls /\ ~Ended /\ mAsyncTimerReason # "Wait"
OneHeard ==
    /\ \A o \in ops : Own(o)
    /\ \A t \in Workers : inCallback[t] = 0 => Own(taken[t])
    /\ \A o, p \in ops : Heard(o) /\ Heard(p) => o = p
    /\ \A o \in ops, t \in Workers : ~(Heard(o) /\ Handling(t))
    /\ ~(Handling("io") /\ Handling("connect"))

\* A call that has run its callback has ended, and a callback that has not been
\* run is the current call's.
Callbacks ==
    /\ \A c \in Calls :
           /\ endedBy[c] \in {0, c}
           /\ ran[c] # 0 => ran[c] = 1 /\ endedBy[c] # 0 /\ c \notin dropped
           /\ c > ncalls => endedBy[c] = 0 /\ ran[c] = 0 /\ c \notin dropped
    /\ mAsyncCallback # 0 => /\ mAsyncCallback = ncalls /\ ran[ncalls] = 0
                             /\ ncalls \notin dropped

AsyncInv == AsyncTypes /\ Mutexes /\ OneHeard /\ Callbacks /\ mTimerEntry.call = ncalls
=============================================================================
