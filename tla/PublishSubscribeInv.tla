------------------------- MODULE PublishSubscribeInv -------------------------
(***************************************************************************)
(* The inductive invariants of PublishSubscribe, which its proofs use.     *)
(***************************************************************************)
EXTENDS PublishSubscribe

\* The types of the variables that the subscribers use.
SubTypes ==
    /\ nconns \in 0 .. MaxConns /\ published \in Nat
    /\ of \in [Conns -> Subscribers \cup {None}]
    /\ wire \in [Conns -> Seq(Nat)]
    /\ phase \in [Subscribers -> {"idle", "asking", "subscribed", "ending", "ended"}]
    /\ conn \in [Subscribers -> 0 .. nconns]
    /\ {reading, calling, got} \subseteq [Conns -> Nat]
    /\ mStopCallInProgress \subseteq 1 .. nconns

\* A session works step by step: it reads after the reply, calls after it has
\* read, and is not called into once endSubscribe has its mutex.
Stages ==
    \A k \in Conns :
        /\ (reading[k] # None \/ calling[k] # None) => got[k] # None
        /\ calling[k] # None => k \notin mStopCallInProgress
        /\ got[k] # None => k <= nconns

\* The connection a subscriber is concerned with is its own, and new when it
\* asks for a subscription.
OwnConn ==
    \A s \in Subscribers :
        /\ phase[s] \in {"asking", "subscribed", "ending"} =>
               conn[s] # None /\ of[conn[s]] = s
        /\ phase[s] = "asking" =>
               got[conn[s]] = None /\ conn[s] \notin mStopCallInProgress

\* A connection whose messages may still reach an object is that of the
\* subscription which endSubscribe will end.
Current ==
    \A k \in Conns \ mStopCallInProgress :
        got[k] # None =>
            /\ of[k] \in Subscribers /\ conn[of[k]] = k
            /\ phase[of[k]] \in {"subscribed", "ending"}

SubInv == SubTypes /\ Stages /\ OwnConn

-----------------------------------------------------------------------------
(* The order of the messages.                                               *)

\* The message that follows a on connection k.
Follows(k, a, b) == b = (IF a = Reply THEN from[k] ELSE a) + 1

\* The last message that the subscriber of k knows, and the last one sent to it.
Seen(k) == IF reading[k] # None THEN reading[k]
           ELSE IF calling[k] # None THEN calling[k] ELSE got[k]
LastOf(k) == IF wire[k] = <<>> THEN Seen(k) ELSE wire[k][Len(wire[k])]
Level(k) == IF LastOf(k) = Reply THEN from[k] ELSE LastOf(k)

\* The messages of a connection follow each other.
Chain(k) ==
    /\ reading[k] = None \/ calling[k] = None
    /\ reading[k] # None => got[k] # None /\ Follows(k, got[k], reading[k])
    /\ calling[k] # None => got[k] # None /\ Follows(k, got[k], calling[k])
    /\ wire[k] # <<>> =>
           IF got[k] = None THEN wire[k][1] = Reply ELSE Follows(k, Seen(k), wire[k][1])
    /\ \A i \in 2 .. Len(wire[k]) : Follows(k, wire[k][i - 1], wire[k][i])
    /\ \A i \in 1 .. Len(wire[k]) : wire[k][i] # None

\* What a session of the publisher has sent.
SentBy(k) ==
    /\ session[k] \in {"none", "accepted"} => wire[k] = <<>> /\ got[k] = None
    /\ session[k] = "replied" =>
           /\ wire[k] # <<>> => Len(wire[k]) = 1 /\ got[k] = None
           /\ reading[k] = None /\ calling[k] = None
           /\ k \notin peerGone => LastOf(k) = Reply
    /\ session[k] = "subscribed" /\ k \notin peerGone => LastOf(k) # None
    /\ session[k] = "gone" => k \notin open \ peerGone
    /\ k \in peerGone => wire[k] = <<>>

\* The lists of the multicast transport, and the descriptors.
Listed == Range(mClientTransports) \cup Range(sending) \cup Range(sent)
Lists ==
    /\ {mClientTransports, sending, sent} \subseteq Seq(Conns)
    /\ IsInjective(mClientTransports) /\ IsInjective(sending) /\ IsInjective(sent)
    /\ Range(mClientTransports) \cap Range(sending) = {}
    /\ Range(mClientTransports) \cap Range(sent) = {}
    /\ Range(sending) \cap Range(sent) = {}
    /\ \A k \in Listed : session[k] \in {"subscribed", "gone"}
    /\ ~publishing => sending = <<>> /\ sent = <<>>
Descriptors ==
    /\ open \subseteq 1 .. nconns /\ \A k \in 1 .. nconns : fd[k] = k
    /\ \A k \in Conns : k > nconns => session[k] = "none"
    /\ mStopCallInProgress \subseteq peerGone

\* Every message has been sent to a subscriber, except one that is being sent.
Fed(k) ==
    session[k] = "subscribed" =>
        /\ k \in Listed
        /\ Level(k) = IF k \in Range(sending) THEN published - 1 ELSE published
UpToDate == \A k \in Conns : k \in open \ peerGone => Fed(k)

OrderTypes ==
    /\ published \in 0 .. MaxPublished /\ publishing \in BOOLEAN
    /\ publishing => published # 0
    /\ from \in [Conns -> 0 .. MaxPublished] /\ fd \in [Conns -> Nat]
    /\ peerGone \subseteq Conns
    /\ session \in [Conns -> {"none", "accepted", "replied", "subscribed", "gone"}]

Sessions == \A k \in Conns : Chain(k) /\ SentBy(k)

InvOfOrder == OrderTypes /\ Sessions /\ Lists /\ Descriptors /\ UpToDate
OrderInv == SubInv /\ InvOfOrder
=============================================================================
