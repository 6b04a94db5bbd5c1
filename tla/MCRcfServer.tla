---------------------------- MODULE MCRcfServer ----------------------------
(* Small servers for TLC: a transport, which has no stop flag of its own,   *)
(* and a service that has one.                                              *)
EXTENDS RcfServer

CONSTANTS Transport, Cleanup

TwoServices == {Transport, Cleanup}
First == <<Transport>>
Both == <<Transport, Cleanup>>

\* Without the operation and argument of a call that has returned.
View ==
    <<serverVars, lockVars, serviceVars, pc, todo, copied,
      [c \in Callers |-> IF pc[c] \in {"idle", "threw"} THEN <<>> ELSE <<op[c], arg[c]>>]>>
=============================================================================
