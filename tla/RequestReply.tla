---------------------------- MODULE RequestReply ----------------------------
(***************************************************************************)
(* What a session promises its peer: requests are taken one at a time, a   *)
(* request that wants a reply gets at most one, and the next request is    *)
(* not taken before it.                                                    *)
(***************************************************************************)
EXTENDS Naturals, Sequences

VARIABLES request,     \* number of the request taken last
          wantsReply,  \* it is a twoway request
          replies      \* numbers of the requests replied to, in order

vars == <<request, wantsReply, replies>>

Init == request = 0 /\ wantsReply = FALSE /\ replies = <<>>

Replied == \E i \in DOMAIN replies : replies[i] = request

Take == /\ wantsReply => Replied
        /\ request' = request + 1
        /\ wantsReply' \in BOOLEAN
        /\ UNCHANGED replies

Reply == /\ wantsReply /\ ~Replied
         /\ replies' = Append(replies, request)
         /\ UNCHANGED <<request, wantsReply>>

Next == Take \/ Reply

Spec == Init /\ [][Next]_vars
=============================================================================
