-------------------------- MODULE PublishSubscribe --------------------------
(***************************************************************************)
(* Publishing and subscribing.  A publisher (PublishingService.cpp,        *)
(* MulticastClientTransport.cpp) sends each message to the connections of  *)
(* its subscribers, which it may also end for having been idle             *)
(* (SessionTimeoutService.cpp).  A subscriber (SubscriptionService.cpp)    *)
(* asks for its subscription over a new connection, then makes a server    *)
(* session of it, which calls the subscriber's object for each message.    *)
(***************************************************************************)
EXTENDS Naturals, Sequences, FiniteSetsExt

CONSTANTS Subscribers,    \* each with one object to subscribe
          MaxConns,       \* bound: connections made
          MaxPublished,   \* bound: messages published
          Window,         \* messages that fit into a connection
          ReusesFds,      \* the descriptor of a closed connection is given again
          Resubscribes    \* objects are subscribed anew when a connection is lost

ASSUME PublishAssumption ==
    /\ {MaxConns, MaxPublished, Window} \subseteq Nat \ {0}
    /\ {ReusesFds, Resubscribes} \subseteq BOOLEAN

Conns == 1 .. MaxConns
None == 0          \* no connection, no message
Reply == MaxPublished + 1

VARIABLES
    \* the connections
    nconns, of,        \* how many, and the subscribers that have made them
    fd, open,          \* descriptor at the publisher, and whether it is open
    wire,              \* messages on their way to the subscriber
    peerGone,          \* the subscriber has closed its end
    \* the publisher
    session,           \* state of its session
    informed,          \* mOnDisconnectCallback has been called for it
    published,         \* messages published
    mClientTransports, \* connections of subscribers
    sending,           \* the list that send() has swapped out, and has yet to visit
    sent,              \* those of it that stay
    publishing,        \* send() is under way
    from,              \* last message published before the connection was added
    \* the subscribers
    phase, conn,       \* what the application does, over which connection
    reading,           \* message that the session has read
    calling,           \* message that the object is called with
    got,               \* last message it has been called with
    mStopCallInProgress

connVars == <<nconns, of, fd, open, wire, peerGone>>
sendVars == <<published, mClientTransports, sending, sent, publishing>>
pubVars == <<session, informed, sendVars, from>>
appVars == <<phase, conn>>
subVars == <<appVars, reading, calling, got, mStopCallInProgress>>
vars == <<connVars, pubVars, subVars>>

\* The subscriber closes its end of k; what is under way is lost.
CloseEnd(k) == peerGone' = peerGone \cup {k} /\ wire' = [wire EXCEPT ![k] = <<>>]

All(x) == [k \in Conns |-> x]

Init ==
    /\ nconns = 0 /\ of = All(None) /\ fd = All(None) /\ open = {}
    /\ wire = All(<<>>) /\ peerGone = {}
    /\ session = All("none") /\ informed = {}
    /\ published = 0 /\ mClientTransports = <<>> /\ from = All(None)
    /\ sending = <<>> /\ sent = <<>> /\ publishing = FALSE
    /\ phase = [s \in Subscribers |-> "idle"] /\ conn = [s \in Subscribers |-> None]
    /\ reading = All(None) /\ calling = All(None) /\ got = All(None)
    /\ mStopCallInProgress = {}

\* The connection that has a descriptor, if any.
At(f) == {k \in open : fd[k] = f}

\* Descriptors that a new connection may get.
Taken == {fd[k] : k \in IF ReusesFds THEN open ELSE 1 .. nconns}
NewFd == Min((1 .. MaxConns) \ Taken)

-----------------------------------------------------------------------------
(***************************************************************************)
(* The sessions of the publisher                                           *)
(***************************************************************************)

\* Mutant of RequestSubscription: the transport is added before the reply
\* has been written.
RequestSubscriptionAdds(k) ==
    /\ session[k] = "accepted" /\ k \notin peerGone
    /\ session' = [session EXCEPT ![k] = "early"]
    /\ mClientTransports' = Append(mClientTransports, k)
    /\ from' = [from EXCEPT ![k] = published]
    /\ UNCHANGED <<connVars, informed, published, sending, sent, publishing, subVars>>

\* requestSubscription makes the transport, which is to be added when the
\* reply has been written; the reply goes out.
RequestSubscription(k) ==
    /\ session[k] = "accepted" /\ k \notin peerGone
    /\ session' = [session EXCEPT ![k] = "replied"]
    /\ wire' = [wire EXCEPT ![k] = Append(@, Reply)]
    /\ UNCHANGED <<nconns, of, fd, open, peerGone, informed, sendVars, from, subVars>>

\* onWriteCompleted calls addSubscriberTransport; then the session reads.
AddSubscriberTransport(k) ==
    /\ session[k] = "replied"
    /\ session' = [session EXCEPT ![k] = "subscribed"]
    /\ mClientTransports' = Append(mClientTransports, k)
    /\ from' = [from EXCEPT ![k] = published]
    /\ UNCHANGED <<connVars, informed, published, sending, sent, publishing, subVars>>

\* Mutant of SessionEnds: the callback is forgotten.
SessionEndsUnnoticed(k) ==
    /\ session[k] = "subscribed" /\ (k \in peerGone \/ k \notin open)
    /\ session' = [session EXCEPT ![k] = "gone"]
    /\ UNCHANGED <<connVars, informed, sendVars, from, subVars>>

\* The write or the read of a session fails, and the session is destroyed.
\* The transport shares its socket, which stays open until it goes, too.
SessionEnds(k) ==
    /\ session[k] = "subscribed" /\ (k \in peerGone \/ k \notin open)
    /\ session' = [session EXCEPT ![k] = "gone"]
    /\ informed' = informed \cup {k}
    /\ UNCHANGED <<connVars, sendVars, from, subVars>>

\* The same before the transport is added.  The callback has been set if the
\* request has been served.
RequestEnds(k) ==
    /\ session[k] = "accepted" /\ k \in peerGone
    /\ session' = [session EXCEPT ![k] = "gone"]
    /\ informed' \in {informed, informed \cup {k}}
    /\ open' = open \ {k}
    /\ UNCHANGED <<nconns, of, fd, wire, peerGone, sendVars, from, subVars>>

\* SessionTimeoutService::cycle: a session that has had no request for long
\* is disconnected, which closes its socket.  The transport keeps the
\* descriptor.
Disconnect(k) ==
    /\ session[k] = "subscribed" /\ k \in open
    /\ open' = open \ {k}
    /\ UNCHANGED <<nconns, of, fd, wire, peerGone, pubVars, subVars>>

-----------------------------------------------------------------------------
(***************************************************************************)
(* MulticastClientTransport::send, called by one thread                    *)
(***************************************************************************)

BeginSend ==
    /\ ~publishing /\ published < MaxPublished
    /\ publishing' = TRUE
    /\ published' = published + 1
    /\ sending' = mClientTransports /\ sent' = <<>> /\ mClientTransports' = <<>>
    /\ UNCHANGED <<connVars, session, informed, from, subVars>>

\* The transport writes to whatever connection has its descriptor.
Writable(k) == \E j \in At(fd[Head(sending)]) : j = k /\ k \notin peerGone

Send(k) ==
    /\ publishing /\ sending # <<>> /\ Writable(k) /\ Len(wire[k]) < Window
    /\ wire' = [wire EXCEPT ![k] = Append(@, published)]
    /\ sent' = Append(sent, Head(sending)) /\ sending' = Tail(sending)
    /\ UNCHANGED <<nconns, of, fd, open, peerGone, session, informed, published,
                   mClientTransports, publishing, from, subVars>>

\* Not connected, or the send times out: the transport closes its socket, if
\* it is still open, and is dropped.
Drop ==
    /\ publishing /\ sending # <<>>
    /\ \A k \in Conns : Writable(k) => Len(wire[k]) = Window
    /\ open' = open \ {Head(sending)}
    /\ sending' = Tail(sending)
    /\ UNCHANGED <<nconns, of, fd, wire, peerGone, session, informed, published,
                   mClientTransports, sent, publishing, from, subVars>>

\* Mutant of EndSend: the list as it was when send() began.
EndSendForgets ==
    /\ publishing /\ sending = <<>>
    /\ mClientTransports' = sent /\ sent' = <<>> /\ publishing' = FALSE
    /\ UNCHANGED <<connVars, session, informed, published, sending, from, subVars>>

\* reswap: subscribers added meanwhile are kept.
EndSend ==
    /\ publishing /\ sending = <<>>
    /\ mClientTransports' = sent \o mClientTransports /\ sent' = <<>> /\ publishing' = FALSE
    /\ UNCHANGED <<connVars, session, informed, published, sending, from, subVars>>

-----------------------------------------------------------------------------
(***************************************************************************)
(* Subscribers                                                             *)
(***************************************************************************)

\* beginSubscribeNamed connects and sends its request, perhaps after an
\* earlier subscription of the object has ended.
BeginSubscribe(s) ==
    /\ phase[s] \in {"idle", "ended"} /\ nconns < MaxConns
    /\ nconns' = nconns + 1
    /\ of' = [of EXCEPT ![nconns'] = s] /\ conn' = [conn EXCEPT ![s] = nconns']
    /\ fd' = [fd EXCEPT ![nconns'] = NewFd] /\ open' = open \cup {nconns'}
    /\ session' = [session EXCEPT ![nconns'] = "accepted"]
    /\ phase' = [phase EXCEPT ![s] = "asking"]
    /\ UNCHANGED <<wire, peerGone, informed, sendVars, from, reading, calling, got,
                   mStopCallInProgress>>

\* It has the answer, and makes a session of the connection, which reads.
OnRequestSubscriptionCompleted(s) ==
    LET k == conn[s]
    IN  /\ phase[s] = "asking" /\ wire[k] # <<>>
        /\ wire' = [wire EXCEPT ![k] = Tail(@)]
        /\ phase' = [phase EXCEPT ![s] = "subscribed"]
        /\ got' = [got EXCEPT ![k] = Head(wire[k])]
        /\ UNCHANGED <<nconns, of, fd, open, peerGone, pubVars, conn, reading, calling,
                       mStopCallInProgress>>

\* Its session reads a message ...
Read(k) ==
    /\ got[k] # None /\ reading[k] = None /\ calling[k] = None
    /\ k \notin peerGone /\ k \notin mStopCallInProgress /\ wire[k] # <<>>
    /\ reading' = [reading EXCEPT ![k] = Head(wire[k])]
    /\ wire' = [wire EXCEPT ![k] = Tail(@)]
    /\ UNCHANGED <<nconns, of, fd, open, peerGone, pubVars, appVars, calling, got,
                   mStopCallInProgress>>

\* Mutant of OnReadCompleted: the flag is not tested.
OnReadCompletedAlways(k) ==
    /\ reading[k] # None
    /\ reading' = [reading EXCEPT ![k] = None]
    /\ calling' = [calling EXCEPT ![k] = reading[k]]
    /\ UNCHANGED <<connVars, pubVars, appVars, got, mStopCallInProgress>>

\* ... and calls the object with it, under mStopCallInProgressMutex.
OnReadCompleted(k) ==
    /\ reading[k] # None
    /\ reading' = [reading EXCEPT ![k] = None]
    /\ calling' = [calling EXCEPT ![k] = IF k \in mStopCallInProgress THEN None ELSE reading[k]]
    /\ UNCHANGED <<connVars, pubVars, appVars, got, mStopCallInProgress>>

\* The object returns.
Called(k) ==
    /\ calling[k] # None
    /\ calling' = [calling EXCEPT ![k] = None]
    /\ got' = [got EXCEPT ![k] = calling[k]]
    /\ UNCHANGED <<connVars, pubVars, appVars, reading, mStopCallInProgress>>

\* endSubscribeNamed has removed the subscription, and will take
\* mStopCallInProgressMutex.
EndSubscribe(s) ==
    /\ phase[s] = "subscribed"
    /\ phase' = [phase EXCEPT ![s] = "ending"]
    /\ UNCHANGED <<connVars, pubVars, conn, reading, calling, got, mStopCallInProgress>>

\* Mutant of EndSubscribed: it does not wait for the mutex.
EndSubscribedAtOnce(s) ==
    /\ phase[s] = "ending"
    /\ mStopCallInProgress' = mStopCallInProgress \cup {conn[s]}
    /\ phase' = [phase EXCEPT ![s] = "ended"]
    /\ CloseEnd(conn[s])
    /\ UNCHANGED <<nconns, of, fd, open, pubVars, conn, reading, calling, got>>

\* It has it, and returns; the transport of the subscription goes with it.
EndSubscribed(s) ==
    /\ phase[s] = "ending" /\ calling[conn[s]] = None
    /\ mStopCallInProgress' = mStopCallInProgress \cup {conn[s]}
    /\ phase' = [phase EXCEPT ![s] = "ended"]
    /\ CloseEnd(conn[s])
    /\ UNCHANGED <<nconns, of, fd, open, pubVars, conn, reading, calling, got>>

\* The connection is lost, or the publisher has closed it, before the reply.
AskFails(s) ==
    /\ phase[s] = "asking" /\ wire[conn[s]] = <<>>
    /\ CloseEnd(conn[s])
    /\ phase' = [phase EXCEPT ![s] = "idle"]
    /\ UNCHANGED <<nconns, of, fd, open, pubVars, conn, reading, calling, got,
                   mStopCallInProgress>>

\* The connection is lost later.  The application may notice, with
\* isConnected(), and subscribe the object anew.
Lost(s) ==
    /\ phase[s] = "subscribed" /\ conn[s] \notin peerGone
    /\ CloseEnd(conn[s])
    /\ phase' = [phase EXCEPT ![s] = IF Resubscribes THEN "idle" ELSE @]
    /\ UNCHANGED <<nconns, of, fd, open, pubVars, conn, reading, calling, got,
                   mStopCallInProgress>>

-----------------------------------------------------------------------------
PubThread(k) ==
    RequestSubscription(k) \/ AddSubscriberTransport(k) \/ SessionEnds(k) \/ RequestEnds(k)
SubThread(k) == Read(k) \/ OnReadCompleted(k) \/ Called(k)

Next ==
    \/ \E k \in Conns : PubThread(k) \/ Disconnect(k) \/ Send(k) \/ SubThread(k)
    \/ BeginSend \/ Drop \/ EndSend
    \/ \E s \in Subscribers :
           \/ BeginSubscribe(s) \/ OnRequestSubscriptionCompleted(s) \/ AskFails(s)
           \/ EndSubscribe(s) \/ EndSubscribed(s) \/ Lost(s)

\* The threads of the publisher run.
Fairness == \A k \in Conns : WF_vars(PubThread(k))

Spec == Init /\ [][Next]_vars /\ Fairness

-----------------------------------------------------------------------------
(***************************************************************************)
(* Properties                                                              *)
(***************************************************************************)

\* What the subscriber of k has got and will get.
Known(m) == IF m = None THEN <<>> ELSE <<m>>
Messages(k) == Known(got[k]) \o Known(calling[k]) \o Known(reading[k]) \o wire[k]

\* What a subscriber has got and will get over a connection: first the reply
\* to its request, then every message published since it was added, in order
\* and without a gap, up to the last one unless one end has closed it.
InOrder ==
    \A k \in Conns \ mStopCallInProgress :
        LET all == Messages(k)
        IN  /\ got[k] = None /\ wire[k] # <<>> => Head(wire[k]) = Reply
            /\ \A i \in 2 .. Len(all) : all[i] = (IF all[i - 1] = Reply THEN from[k] ELSE all[i - 1]) + 1
            /\ ~publishing /\ session[k] = "subscribed" /\ k \in open \ peerGone =>
                   all[Len(all)] \in {published, Reply}
                   /\ (all[Len(all)] = Reply => from[k] = published)

\* Once endSubscribe has returned, the object is not called any more
\* (SubscriptionService.cpp:271).
NoCallAfterEnd ==
    \A s \in Subscribers : phase[s] = "ended" =>
        \A k \in Conns : of[k] = s => calling[k] = None

\* The publisher learns of every subscriber that has gone.
Informed == \A k \in Conns : (k \in peerGone /\ session[k] = "subscribed") ~> k \in informed
=============================================================================
