----------------------------- MODULE RemoteCall -----------------------------
(***************************************************************************)
(* What a client stub promises its caller: a call is executed at most      *)
(* once, and a call that returns has been executed before.  A call that    *)
(* ends otherwise may have been executed or not, and may still be.         *)
(***************************************************************************)
EXTENDS Naturals

CONSTANT Calls

VARIABLES status,    \* what the caller knows of each call
          executed   \* how often the servant has executed each

vars == <<status, executed>>

Init == status = [c \in Calls |-> "none"] /\ executed = [c \in Calls |-> 0]

Start(c) == /\ status[c] = "none"
            /\ status' = [status EXCEPT ![c] = "running"]
            /\ UNCHANGED executed

Execute(c) == /\ status[c] # "none" /\ executed[c] = 0
              /\ executed' = [executed EXCEPT ![c] = 1]
              /\ UNCHANGED status

Return(c) == /\ status[c] = "running" /\ executed[c] = 1
             /\ status' = [status EXCEPT ![c] = "returned"]
             /\ UNCHANGED executed

End(c) == /\ status[c] = "running"
          /\ status' = [status EXCEPT ![c] = "ended"]
          /\ UNCHANGED executed

Next == \E c \in Calls : Start(c) \/ Execute(c) \/ Return(c) \/ End(c)

Spec == Init /\ [][Next]_vars
=============================================================================
