--------------------------- MODULE ClientCallInv ---------------------------
(***************************************************************************)
(* The inductive invariant of ClientCall, if connect() is not called       *)
(* after a call has left its request (Connects # "any"): where the stub    *)
(* is, what a connection carries while it waits for an answer and when it  *)
(* does not, where a request can still be, and who has put on filters.     *)
(***************************************************************************)
EXTENDS ClientCall

\* A refusal is answered by a second try, unless nobody leaves refusals behind.
RefusalsRetried == AutoVersioning \/ "oneway" \notin Kinds

(***************************************************************************)
(* The stub                                                                *)
(***************************************************************************)
Places ==
    /\ op = "none" <=> phase = "idle"
    /\ phase \in {"idle", "connect", "renew"} => io = "none"
    /\ phase \in {"connect", "renew"} => conn = 0
    /\ phase = "negotiate" => conn # 0
    /\ phase = "exchange" => io # "none" /\ op = "call"
    /\ conn = 0 => io # "recv" /\ pos = 0
    /\ io = "none" => pos = 0
    /\ io = "recv" /\ pos = 1 => s2c[conn] # <<>>
    /\ phase \in {"negotiate", "renew"} => ~mTransportFilters

\* A stream that ends within a message belongs to a send or a read under way.
Streams == /\ half => io = "send" /\ pos = 1
           /\ cut => io = "recv" /\ pos = 1

\* What the stubs have encoded, and with which version.
Encoded ==
    /\ op = "call" =>
           /\ ncalls # 0 /\ result[ncalls].kind = "running"
           /\ mRequest["user"].call = ncalls
           /\ mRequest["user"].version = mRcfRuntimeVersion["user"]
           /\ mEncodedByteBuffers["user"] \/ (phase = "exchange" /\ io = "recv")
           /\ phase = "exchange" /\ io = "recv" => ~mEncodedByteBuffers["user"]
           /\ mTries["user"] = 1 \/ (phase = "exchange" /\ io = "recv") => ~mRequest["user"].oneway
    /\ op = "connect" => ~mEncodedByteBuffers["user"]
    /\ mRequest["filter"].call = 0 /\ ~mRequest["filter"].oneway
    /\ phase = "renew" \/ (phase = "negotiate" /\ io # "none") =>
           mRequest["filter"].version = mRcfRuntimeVersion["filter"]
    /\ \A s \in Stubs :
           /\ mTries[s] = 1 => AutoVersioning /\ mRcfRuntimeVersion[s] = ServerVersion
           /\ mRequest[s].oneway => "oneway" \in Kinds

(***************************************************************************)
(* The connections                                                         *)
(***************************************************************************)

\* Connections that have not been made, or have been closed, carry nothing.
Carried(k) ==
    /\ k > nconns <=> srv[k] = "none"
    /\ srv[k] \in {"none", "closed"} => c2s[k] = <<>>
    /\ srv[k] = "none" => ~srvFilters[k]
    /\ k # conn => s2c[k] = <<>>
    /\ \A i \in DOMAIN c2s[k] : LET m == c2s[k][i].request
                                IN  /\ m.call <= ncalls /\ (m.oneway => "oneway" \in Kinds)
                                    /\ m.call = 0 => ~m.oneway
    /\ srv[k] = "serving" => serving[k].call <= ncalls
    /\ \A i \in DOMAIN s2c[k] : s2c[k][i].kind = "tooLong" => i = Len(s2c[k]) /\ srv[k] = "closed"

\* The server has nothing to do for the client.
Done(k) == srv[k] # "serving" /\ c2s[k] = <<>>

\* What calls that are over leave on a connection: oneway requests and their
\* refusals, and requests that are going to be refused.
Leftover(k) ==
    /\ srv[k] # "serving"
    /\ \A i \in DOMAIN s2c[k] : s2c[k][i].kind \in {"mismatch", "tooLong"} /\ "oneway" \in Kinds
    /\ \A i \in DOMAIN c2s[k] : /\ c2s[k][i].request.oneway \/ Refused(c2s[k][i].request)
                                /\ "oneway" \in Kinds

Quiet(k) == /\ Leftover(k)
            /\ RefusalsRetried => \A i \in DOMAIN c2s[k] : c2s[k][i].request.oneway

\* The request m is the last on the connection, or at the server, or has its
\* response as the last one, or is lost.
Awaits(k, m) ==
    /\ \A i \in DOMAIN c2s[k] :
           IF i = Len(c2s[k]) THEN c2s[k][i].request = m
           ELSE /\ c2s[k][i].request.oneway \/ Refused(c2s[k][i].request)
                /\ "oneway" \in Kinds
    /\ srv[k] = "serving" => serving[k] = m /\ c2s[k] = <<>> /\ ~Refused(m)
    /\ \A i \in DOMAIN s2c[k] :
           LET r == s2c[k][i]
           IN  /\ r.kind \in {"answer", "exception"} => i = Len(s2c[k]) /\ r.call = m.call /\ Done(k)
               /\ r.kind = "answer" /\ r.call # 0 => executed[r.call] # 0
               /\ r.kind \in {"answer", "exception", "ping"} => ~Refused(m)
               /\ r.kind = "mismatch" /\ "oneway" \notin Kinds => i = Len(s2c[k]) /\ Done(k)

Exchange ==
    conn # 0 =>
        /\ io = "none" \/ (io = "send" /\ mTries[Running] = 0) => Quiet(conn)
        /\ io = "send" => Leftover(conn)
        /\ io = "recv" => Awaits(conn, mRequest[Running])

(***************************************************************************)
(* Executions                                                              *)
(***************************************************************************)

\* A request of call c that can still be executed: i is its place among the
\* messages, 0 the servant.
Copy(c, k, i) ==
    IF i = 0 THEN srv[k] = "serving" /\ serving[k].call = c
    ELSE c2s[k][i].request.call = c /\ ~Refused(c2s[k][i].request)

NoCopy(c) == \A k \in Conns : \A i \in 0 .. Len(c2s[k]) : ~Copy(c, k, i)

OneCopy(c) ==
    \A j, k \in Conns : \A h \in 0 .. Len(c2s[j]), i \in 0 .. Len(c2s[k]) :
        Copy(c, j, h) /\ Copy(c, k, i) => j = k /\ h = i

Once ==
    \A c \in Calls :
        /\ OneCopy(c) /\ executed[c] <= 1
        /\ executed[c] # 0 => NoCopy(c)
        /\ c > ncalls => executed[c] = 0 /\ result[c].kind = "none"

\* A request that can still be sent has not been accepted by any server.
Untouched ==
    op = "call" /\ (mEncodedByteBuffers["user"] \/ ServerVersion < mRcfRuntimeVersion["user"]) =>
        NoCopy(ncalls) /\ executed[ncalls] = 0

(***************************************************************************)
(* Filters                                                                 *)
(***************************************************************************)

\* The filters that the server has when it reads on.
Granted(k) == srvFilters[k] \/ srv[k] = "granting"

\* A request for filters is the last message without them.
Switch(k) ==
    /\ \A i \in DOMAIN c2s[k] :
           /\ c2s[k][i].filtered = Granted(k)
           /\ c2s[k][i].request.call = 0 /\ ~Refused(c2s[k][i].request) => i = Len(c2s[k])
    /\ srv[k] = "serving" /\ serving[k].call = 0 => c2s[k] = <<>>

\* The client has put on the filters of its connection, or is yet to read that
\* they are granted.
AnswerComing == \E i \in DOMAIN s2c[conn] : s2c[conn][i].kind = "answer"
Agreed ==
    conn # 0 =>
        /\ \A i \in DOMAIN s2c[conn] :
               /\ s2c[conn][i].filtered = mTransportFilters
               /\ s2c[conn][i].kind = "answer" /\ s2c[conn][i].call = 0 =>
                      srv[conn] = "closed" \/ Granted(conn)
        /\ \/ srv[conn] = "closed" \/ mTransportFilters = Granted(conn)
           \/ phase = "negotiate" /\ io = "recv" /\ AnswerComing

PerConn == \A k \in Conns : Carried(k) /\ Switch(k)

IInv == /\ TypeOK /\ Places /\ Streams /\ Encoded /\ PerConn /\ Exchange
        /\ Once /\ Untouched /\ Agreed
=============================================================================
