------------------------- MODULE MCPingBackService -------------------------
(* Small clocks and few sessions for TLC.                                   *)
EXTENDS PingBackService, TLC

Symmetry == Permutations(Sessions)

\* A state but for the value of the clock: only differences of times matter,
\* so states that a shift of all times turns into each other behave alike.
FromNow(t) == Minus(t, now)
EntriesFromNow(E) == {<<FromNow(e[1]), e[2]>> : e \in E}
View ==
    <<FromNow(mBaseTimeMs), EntriesFromNow(mTimerHeap), EntriesFromNow(entry), call,
      [s \in Sessions |-> IF call[s] = "pinged" THEN FromNow(first[s]) ELSE 0],
      [s \in Sessions |-> IF call[s] \in {"registering", "removing"}
                          THEN FromNow(held[s]) ELSE 0],
      pc, left, delay>>
=============================================================================
