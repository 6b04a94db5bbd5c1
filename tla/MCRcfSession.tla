---------------------------- MODULE MCRcfSession ----------------------------
(* Small instances of RcfSession, and its inductive invariant, for TLC.     *)
(* Oneway requests and ping backs do not share a connection (README,        *)
(* section 5), so the client of a connection uses the one or the other.     *)
EXTENDS RcfSessionInv

VARIABLE uses

Allowed == PeerKinds \ (IF uses = "oneway" THEN {"pinged"} ELSE {"oneway"})

UnmixedInit == Init /\ uses \in {"oneway", "pinged"}
UnmixedNext == Next /\ mRequest' \in Allowed /\ UNCHANGED uses
UnmixedSpec == UnmixedInit /\ [][UnmixedNext]_<<vars, uses>> /\ Fairness

(* Every request is answered, if it wants an answer, and then the session   *)
(* reads again, be the request asynchronous, refused or oneway, unless the  *)
(* connection breaks, is converted, or its subscription has ended.  With    *)
(* ping backs a reply can be lost (README, section 5).  The peer may stop   *)
(* before it sends another request, so reqNo > n excuses nothing.           *)
ServesEveryRequest ==
    \A n \in Replies :
        (uses = "oneway" /\ reqNo = n) ~>
            \/ Broken
            \/ /\ (Oneway \/ Replied(n) \/ reqNo > n)
               /\ (mState = "Reading" \/ mCloseSessionAfterWrite \/ mStopCallInProgress)
=============================================================================
