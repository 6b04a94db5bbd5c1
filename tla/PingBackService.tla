-------------------------- MODULE PingBackService --------------------------
(***************************************************************************)
(* The ping back service, its timer heap (TimerHeap) and the 32-bit clock. *)
(*                                                                         *)
(* A call that wants ping backs puts an entry with a time into the heap;   *)
(* the thread of the service pops the entries that have expired, pings and *)
(* adds the next, then sleeps until the top of the heap is due.  Times are *)
(* unsigned and wrap around.  The heap orders them by their distance from  *)
(* a base, and the base is moved now and then without ordering it anew.    *)
(*                                                                         *)
(* The heap is a set: of two equal entries one is kept, and entries of the *)
(* same time leave in any order.  What a session does with its connection  *)
(* is the subject of RcfSession.                                           *)
(***************************************************************************)
EXTENDS Integers

CONSTANTS Sessions,
          Intervals,    \* ping back intervals that clients ask for
          Modulus,      \* 2^32: the number of values of the clock
          Second,       \* 1000: the first ping, the least interval, the longest sleep
          Slack,        \* 10 s: the base is put so far before the first entry
          RebaseAfter,  \* 1 h: a base older than this is moved
          MaxDelay,     \* bound: ticks that pass while the service is awake
          PromptSessions \* bound, if TRUE: a session stores its entry in time

MaxTimeout == ((Modulus - 1) \div 10) * 9

ASSUME IntervalsAssumption == Intervals \subseteq Nat /\ Second \in Nat \ {0}
ASSUME SessionsAssumption == PromptSessions \in BOOLEAN
ASSUME ClockAssumption ==
    /\ Modulus \in Nat \ {0} /\ Slack \in Nat /\ RebaseAfter \in Nat /\ MaxDelay \in Nat
    /\ Slack + 2 * MaxDelay <= RebaseAfter
    /\ RebaseAfter + Slack + 2 * Second + 4 * MaxDelay < MaxTimeout
    /\ MaxTimeout + 2 * MaxDelay <= Modulus
    /\ \A i \in Intervals : i < Modulus

VARIABLES now,         \* getCurrentTimeMs()
          mBaseTimeMs,
          mTimerHeap,
          call,        \* each session's call: none, or where it is with its entry
          first,       \* mPingBackTimerEntry.first of each session
          held,        \* the entry a session is about to store or to remove
          pc,          \* next step of the service's thread
          entry,       \* the entry it has popped or is about to add, if any
          left,        \* for how long it may go on sleeping
          delay        \* ticks since it woke up

heapVars == <<mBaseTimeMs, mTimerHeap>>
sessionVars == <<call, first, held>>
vars == <<now, heapVars, sessionVars, pc, entry, left, delay>>

Times == 0..(Modulus - 1)
Entries == Times \X Sessions

TypeOK ==
    /\ now \in Times /\ mBaseTimeMs \in Times
    /\ mTimerHeap \subseteq Entries
    /\ call \in [Sessions -> {"none", "registering", "pinged", "removing"}]
    /\ first \in [Sessions -> Times] /\ held \in [Sessions -> Times]
    /\ pc \in {"rebase", "pop", "send", "add", "wait", "asleep"}
    /\ entry \subseteq Entries
    /\ left \in 0..Second
    /\ delay \in 0..MaxDelay

-----------------------------------------------------------------------------
\* Unsigned arithmetic.
Minus(a, b) == IF b <= a THEN a - b ELSE a - b + Modulus
Plus(a, d) == IF a + d < Modulus THEN a + d ELSE a + d - Modulus

\* How long until time t; the last tenth of the range counts as the past.
GenerateTimeoutMs(t) == LET ms == Minus(t, now) IN IF ms < MaxTimeout THEN ms ELSE 0

\* The order of the heap.
Key(e) == Minus(e[1], mBaseTimeMs)
IsTop(e) == e \in mTimerHeap /\ \A f \in mTimerHeap : Key(e) <= Key(f)

TooOld == Minus(now, mBaseTimeMs) > RebaseAfter

-----------------------------------------------------------------------------
\* The server is made, and its service starts with an empty heap.
Init ==
    /\ now \in Times
    /\ mBaseTimeMs = IF now > RebaseAfter THEN Minus(now, Slack) ELSE 0
    /\ mTimerHeap = {}
    /\ call = [s \in Sessions |-> "none"]
    /\ first = [s \in Sessions |-> 0] /\ held = [s \in Sessions |-> 0]
    /\ pc = "rebase" /\ entry = {}
    /\ left = 0 /\ delay = 0

FirstFire == Plus(now, Second)

\* A request begins; notify_all ends the sleep of the service.
RegisterSession(s) ==
    /\ call[s] = "none" /\ call' = [call EXCEPT ![s] = "registering"]
    /\ mTimerHeap' = mTimerHeap \cup {<<FirstFire, s>>}
    /\ held' = [held EXCEPT ![s] = FirstFire]
    /\ \/ pc = "asleep" /\ pc' = "rebase" /\ left' = 0 /\ delay' = 0
       \/ pc # "asleep" /\ UNCHANGED <<pc, left, delay>>
    /\ UNCHANGED <<now, mBaseTimeMs, first, entry>>

StoreEntry(s) ==
    /\ call[s] = "registering" /\ call' = [call EXCEPT ![s] = "pinged"]
    /\ first' = [first EXCEPT ![s] = held[s]] /\ held' = [held EXCEPT ![s] = 0]
    /\ UNCHANGED <<now, heapVars, pc, entry, left, delay>>

\* The request ends: its last entry is taken out, if it is in the heap.
ClearEntry(s) ==
    /\ call[s] = "pinged" /\ call' = [call EXCEPT ![s] = "removing"]
    /\ held' = [held EXCEPT ![s] = first[s]] /\ first' = [first EXCEPT ![s] = 0]
    /\ UNCHANGED <<now, heapVars, pc, entry, left, delay>>

UnregisterSession(s) ==
    /\ call[s] = "removing" /\ call' = [call EXCEPT ![s] = "none"]
    /\ mTimerHeap' = mTimerHeap \ {<<held[s], s>>}
    /\ held' = [held EXCEPT ![s] = 0]
    /\ UNCHANGED <<now, mBaseTimeMs, first, pc, entry, left, delay>>

\* cycle() begins.
Rebase ==
    /\ pc = "rebase" /\ pc' = "pop"
    /\ \/ ~TooOld /\ UNCHANGED mBaseTimeMs
       \/ TooOld /\ mTimerHeap = {} /\ mBaseTimeMs' = Minus(now, Slack)
       \/ TooOld /\ \E e \in mTimerHeap : IsTop(e) /\ mBaseTimeMs' = Minus(e[1], Slack)
    /\ UNCHANGED <<now, mTimerHeap, sessionVars, entry, left, delay>>

PopExpiredEntry(e) ==
    /\ pc = "pop" /\ pc' = "send"
    /\ IsTop(e) /\ GenerateTimeoutMs(e[1]) = 0
    /\ mTimerHeap' = mTimerHeap \ {e} /\ entry' = {e}
    /\ UNCHANGED <<now, mBaseTimeMs, sessionVars, left, delay>>

NextInterval(i) == IF i < Second THEN Second ELSE i
NextFire(i) == Plus(now, NextInterval(i))

\* Mutant: the session keeps the entry it has registered first.
SendPingBackKeeps(s, i) ==
    /\ pc = "send" /\ \E e \in entry : e[2] = s
    /\ \/ call[s] = "pinged" /\ entry' = {<<NextFire(i), s>>} /\ pc' = "add"
       \/ call[s] # "pinged" /\ entry' = {} /\ pc' = "pop"
    /\ UNCHANGED <<now, heapVars, sessionVars, left, delay>>

\* Between two requests sendPingBack() returns false and the entry is dropped.
\* The interval is read without a lock, so it may be another request's.
SendPingBack(s, i) ==
    /\ pc = "send" /\ \E e \in entry : e[2] = s
    /\ \/ /\ call[s] = "pinged"
          /\ first' = [first EXCEPT ![s] = NextFire(i)]
          /\ entry' = {<<NextFire(i), s>>} /\ pc' = "add"
       \/ /\ call[s] # "pinged"
          /\ entry' = {} /\ pc' = "pop" /\ UNCHANGED first
    /\ UNCHANGED <<now, heapVars, call, held, left, delay>>

AddNextEntry ==
    /\ pc = "add" /\ pc' = "pop"
    /\ mTimerHeap' = mTimerHeap \cup entry /\ entry' = {}
    /\ UNCHANGED <<now, mBaseTimeMs, sessionVars, left, delay>>

\* Mutant: the service sleeps until the top is due, however long.
NextEntryTimeoutUncut(e) == GenerateTimeoutMs(e[1])

NextEntryTimeoutMs(e) ==
    IF GenerateTimeoutMs(e[1]) < Second THEN GenerateTimeoutMs(e[1]) ELSE Second

NothingExpired ==
    /\ pc = "pop" /\ pc' = "wait"
    /\ \/ mTimerHeap = {} /\ left' = Second
       \/ \E e \in mTimerHeap :
              /\ IsTop(e) /\ GenerateTimeoutMs(e[1]) > 0
              /\ left' = NextEntryTimeoutMs(e)
    /\ UNCHANGED <<now, heapVars, sessionVars, entry, delay>>

\* timed_wait; a registration before this point has notified nobody.
Sleep ==
    /\ pc = "wait" /\ pc' = "asleep"
    /\ UNCHANGED <<now, heapVars, sessionVars, entry, left, delay>>

\* At the end of the sleep or earlier: waits below a second are cut short by
\* the conversion to nanoseconds.
Wake ==
    /\ pc = "asleep" /\ pc' = "rebase" /\ left' = 0 /\ delay' = 0
    /\ UNCHANGED <<now, heapVars, sessionVars, entry>>

\* Signed distance of time t from now, as generateTimeoutMs reads it.
Ahead(t) == IF Minus(t, now) < MaxTimeout THEN Minus(t, now) ELSE Minus(t, now) - Modulus

\* Every session stores its entry before the entry expires.
RegistrationsInTime == \A s \in Sessions : call[s] = "registering" => Ahead(held[s]) > 1

\* Time passes in a sleep, and while the service is awake or late to wake up
\* for MaxDelay ticks at most.
Tick ==
    /\ \/ pc = "asleep" /\ left > 0 /\ left' = left - 1 /\ UNCHANGED delay
       \/ delay < MaxDelay /\ delay' = delay + 1 /\ UNCHANGED left
    /\ PromptSessions => RegistrationsInTime
    /\ now' = Plus(now, 1)
    /\ UNCHANGED <<heapVars, sessionVars, pc, entry>>

Service ==
    \/ Rebase
    \/ \E e \in mTimerHeap : PopExpiredEntry(e)
    \/ \E s \in Sessions, i \in Intervals : SendPingBack(s, i)
    \/ AddNextEntry
    \/ NothingExpired
    \/ Sleep
    \/ Wake

Next ==
    \/ \E s \in Sessions :
          RegisterSession(s) \/ StoreEntry(s) \/ ClearEntry(s) \/ UnregisterSession(s)
    \/ Service
    \/ Tick

Spec == Init /\ [][Next]_vars

-----------------------------------------------------------------------------
(* Where no client asks for more, the base stays behind every new entry.    *)
ShortIntervals == \A i \in Intervals : i <= Slack + Second

(* "The lowest elements are at the top of the heap" (TimerCompare): though  *)
(* the clock wraps and the base moves, the top is the entry that is due     *)
(* first, so no entry waits behind a later one.                             *)
EarliestOnTop ==
    \A e, f \in mTimerHeap : IsTop(e) => Ahead(e[1]) <= Ahead(f[1])

(* rebase() may leave the vector as it is (setCompare(..., false)): moving  *)
(* the base does not change the order of any two entries.                   *)
RebaseKeepsOrder ==
    [][\A e, f \in mTimerHeap : Key(e) <= Key(f) => Key(e)' <= Key(f)']_vars

(* No ping back is later than the thread's own delays, although a           *)
(* registration while the service is about to sleep wakes nobody: a sleep   *)
(* is never longer than the first interval.                                 *)
InTime == \A e \in mTimerHeap : Ahead(e[1]) >= -2 * MaxDelay

(* A call in progress never loses its entry, whatever older entries of its  *)
(* session are still under way: it will be pinged again.                    *)
CallHasEntry ==
    \A s \in Sessions : call[s] = "pinged" => <<first[s], s>> \in mTimerHeap \cup entry

-----------------------------------------------------------------------------
(* The inductive invariants: CallInv of the calls, where sessions are       *)
(* prompt, and IInv of the times, where intervals are short.  Lag is the signed distance from the base to    *)
(* now; the base lies ahead of now by a second at most, and behind it by    *)
(* what passes between two rebases.  Lag + Ahead(t) does not change while   *)
(* time passes: no entry is before the base, and the order of the keys is   *)
(* the order of the times.                                                  *)

Oldest == RebaseAfter + Second + 2 * MaxDelay
Furthest == Slack + Second

Lag == IF Minus(now, mBaseTimeMs) <= Oldest THEN Minus(now, mBaseTimeMs)
       ELSE Minus(now, mBaseTimeMs) - Modulus

Loop == {"pop", "send", "add"}

BaseRange ==
    /\ -Second <= Lag /\ Lag <= Oldest
    /\ pc = "rebase" => Lag <= RebaseAfter + Second + MaxDelay + delay
    /\ pc \in Loop => Lag <= RebaseAfter + delay
    /\ pc \in {"wait", "asleep"} => Lag + left <= RebaseAfter + Second + delay

InRange(t) ==
    /\ Ahead(t) <= Furthest
    /\ Lag + Ahead(t) >= 0
    /\ pc \in {"wait", "asleep"} => Ahead(t) >= left - delay
    /\ pc \notin {"wait", "asleep"} => Ahead(t) >= -MaxDelay - delay

EntriesInRange ==
    /\ \A e \in mTimerHeap : InRange(e[1])
    /\ pc = "add" => \A e \in entry : InRange(e[1])

OneInHand ==
    /\ entry = {} <=> pc \notin {"send", "add"}
    /\ \A e, f \in entry : e = f

Registering ==
    \A s \in Sessions :
        call[s] = "registering" =>
            Ahead(held[s]) \in 1..Second /\ <<held[s], s>> \in mTimerHeap

CallInv == OneInHand /\ Registering /\ CallHasEntry

IInv == TypeOK /\ BaseRange /\ EntriesInRange
=============================================================================
