----------------------------- MODULE SspiFilter -----------------------------
(***************************************************************************)
(* The filters that authenticate a connection and protect what it carries: *)
(* SspiFilter.cpp and, where `schannel' is TRUE, Schannel.cpp, a client's  *)
(* and a server's over one connection.  A filter stands between its        *)
(* transport's messages (above) and its socket (below).  The first         *)
(* operation from above starts a handshake and waits in the filter until   *)
(* that is over.  Blocks go over the wire in units, of which a read or a   *)
(* write may take any number; one unit stands for a few bytes.             *)
(*                                                                         *)
(* The security functions of the operating system are external: they hand  *)
(* out `legs' tokens, by turns, starting with the client's, and a refused  *)
(* token makes the server's call fail.  A call that fails leaves the size  *)
(* of its output token as it was, as the code expects.                     *)
(***************************************************************************)
EXTENDS Naturals, SequencesExt

CONSTANTS Packages,          \* [schannel, legs, extra]: extra is what protection adds
          Refusals,          \* tokens the server may refuse; 0 stands for none
          Messages,          \* the messages: lengths of their buffers
          Transport,         \* of the server: "iocp" or "asio"
          MaxMessageLength,
          HeaderLen, TokenLen, StatusLen, ReadAhead,   \* in units
          MaxCalls, MaxAborts                          \* bounds

\* Of Schannel's handshake the client has the first word and the server the last.
ASSUME ConstantsAssumption ==
    /\ \A p \in Packages :
          /\ p.legs \in Nat \ {0} /\ p.extra \in Nat /\ p.schannel \in BOOLEAN
          /\ p.schannel => p.legs % 2 = 0
    /\ Refusals \subseteq Nat
    /\ Transport \in {"iocp", "asio"}
    /\ \A m \in Messages : m \in Seq(Nat \ {0}) /\ m # <<>>
    /\ {HeaderLen, TokenLen, StatusLen, ReadAhead} \subseteq Nat \ {0}
    /\ {MaxMessageLength, MaxCalls, MaxAborts} \subseteq Nat

Ends == {"client", "server"}
Peer(e) == IF e = "client" THEN "server" ELSE "client"

VARIABLES
    package,     \* what both ends have agreed on
    refused,     \* the token the server refuses, 0 if none
    filter,      \* the filters
    wire,        \* units on their way to an end
    up,          \* the ends that have the connection open
    user,        \* the transports above the filters
    sent,        \* how many units of messages an end has written
    delivered,   \* those that have come out of its filter
    calls, aborts

filterVars == <<package, refused, filter, wire, up, user, sent, delivered, calls, aborts>>

\* SspiFilter's members.  mReadBuffer has the mReadBufferPos units read of a
\* block, `plain' what has not been fetched of a decrypted one, `remaining' what
\* lies behind it (mRemainingDataPos), mWriteBuffer what is still to be written;
\* `posted' is the operation under way below.  completed and got go up.
NewFilter ==
    [mPreState |-> "Ready", mContextState |-> "AuthContinue",
     mBytesRequestedOrig |-> 0, mWriteByteBufferOrig |-> <<>>,
     mReadBuffer |-> <<>>, mReadBufferLen |-> 0, plain |-> <<>>, remaining |-> <<>>,
     mWriteBuffer |-> <<>>, posted |-> "none",
     completed |-> "none", got |-> <<>>, threw |-> FALSE]

\* A transport above: what it writes of its message, what it still has to read
\* of the length or of the data of its peer's, whether it has polled for it.
NewUser(phase) ==
    [phase |-> phase, buffers |-> <<>>, message |-> 0,
     part |-> "length", need |-> 1, polled |-> FALSE]

FilterInit ==
    /\ package \in Packages
    /\ refused \in {k \in Refusals : k <= package.legs}
    /\ filter = [e \in Ends |-> NewFilter]
    /\ wire = [e \in Ends |-> <<>>] /\ up = Ends
    /\ user = [e \in Ends |-> NewUser(IF e = "client" THEN "idle" ELSE "reading")]
    /\ sent = [e \in Ends |-> 0] /\ delivered = [e \in Ends |-> <<>>]
    /\ calls = 0 /\ aborts = 0

-----------------------------------------------------------------------------
(***************************************************************************)
(* Blocks                                                                  *)
(***************************************************************************)

Token(n) == [kind |-> "token", token |-> n]
Status(ok) == [kind |-> "status", ok |-> ok]
Data(units) == [kind |-> "data", data |-> units]

\* What the length field says.
BodyLen(b) ==
    CASE b.kind = "token" -> TokenLen
      [] b.kind = "status" -> StatusLen
      [] b.kind = "data" -> package.extra + Len(b.data)

Size(b) == HeaderLen + BodyLen(b)
Frame(b) == [i \in 1 .. Size(b) |-> [block |-> b, at |-> i]]

First(s, n) == SubSeq(s, 1, n)
From(s, n) == SubSeq(s, n + 1, Len(s))
Least(m, n) == IF m < n THEN m ELSE n

\* The first block of `raw' is not whole.
Incomplete(raw) == raw = <<>> \/ Len(raw) < Size(raw[1].block)

\* With token k read (0: none yet), what a security function gives.
Emits(k) == k + 1 <= package.legs
Accepted(k) == k + 1 >= package.legs

-----------------------------------------------------------------------------
(***************************************************************************)
(* SspiFilter: what an event makes of a filter f                           *)
(***************************************************************************)

\* readBuffer, after resizeReadBuffer(len).
PostRead(f, raw, len) ==
    [f EXCEPT !.mReadBuffer = raw, !.mReadBufferLen = len, !.posted = "read"]

ReadNewBlock(f) == PostRead(f, <<>>, IF package.schannel THEN ReadAhead ELSE HeaderLen)
ReadMore(f, raw) == PostRead(f, raw, Len(raw) + ReadAhead)

\* writeBuffer.
PostWrite(f, units) == [f EXCEPT !.mWriteBuffer = units, !.posted = "write"]

Throw(f) == [f EXCEPT !.threw = TRUE]
Acknowledged(f) == [f EXCEPT !.mContextState = "AuthOkAck"]

\* Mutant of ServePlain: the position is not moved.
ServePlainAgain(f) ==
    [f EXCEPT !.completed = "read", !.got = First(f.plain, Least(f.mBytesRequestedOrig, Len(f.plain)))]

\* As much as was asked for of the decrypted block; the rest stays.
ServePlain(f) ==
    LET n == Least(f.mBytesRequestedOrig, Len(f.plain))
    IN  [f EXCEPT !.completed = "read", !.got = First(f.plain, n), !.plain = From(f.plain, n)]

\* decryptReadBuffer, then the read that waits for it.
DecryptBlock(f, raw) ==
    LET b == raw[1].block
    IN  IF raw = Frame(b) /\ b.kind = "data" THEN ServePlain([f EXCEPT !.plain = b.data])
                                             ELSE Throw(f)

\* Mutant of DecryptRecord: what lies behind the record is dropped.
DecryptRecordOnly(f, raw) ==
    IF Incomplete(raw) THEN ReadMore(f, raw)
    ELSE ServePlain([f EXCEPT !.plain = raw[1].block.data])

\* decryptReadBufferSchannel, then the read that waits for it.
DecryptRecord(f, raw) ==
    IF Incomplete(raw) THEN ReadMore(f, raw)
    ELSE LET b == raw[1].block
         IN  IF First(raw, Size(b)) = Frame(b) /\ b.kind = "data"
             THEN ServePlain([f EXCEPT !.plain = b.data, !.remaining = From(raw, Size(b))])
             ELSE Throw(f)

\* ReadIssued with a context: from the decrypted block, from what lies behind it
\* (shiftReadBuffer), or from a new one.
ServeRead(f) ==
    CASE f.plain # <<>> -> ServePlain(f)
      [] f.plain = <<>> /\ f.remaining # <<>> ->
            DecryptRecord([f EXCEPT !.remaining = <<>>], f.remaining)
      [] f.plain = <<>> /\ f.remaining = <<>> -> ReadNewBlock(f)

\* WriteIssued with a context.
StartWrite(f) == PostWrite(f, Frame(Data(f.mWriteByteBufferOrig)))

\* resumeUserIo.
ResumeUserIo(f) == IF f.mPreState = "Reading" THEN ServeRead(f) ELSE StartWrite(f)

\* InitializeSecurityContext with token k read (0: none yet), and what follows.
InitializeContext(f, k) ==
    IF Emits(k)
    THEN PostWrite([f EXCEPT !.mContextState = IF Accepted(k) THEN "AuthOk" ELSE "AuthContinue"],
                   Frame(Token(k + 1)))
    ELSE ResumeUserIo(Acknowledged(f))

\* Mutant of ClientHandshake: a block of the server's own is taken for good news.
ClientTrusts(f, b) ==
    IF b.kind = "status" THEN ResumeUserIo(Acknowledged(f)) ELSE InitializeContext(f, b.token)

\* SspiClientFilter::doHandshake.  A client that has sent its last token waits for
\* a block of the server's own; before, such a block reports a failure and is no
\* token: InitializeSecurityContext fails.
ClientHandshake(f, b) ==
    CASE f.mContextState = "AuthOk" ->
            IF b = Status(TRUE) THEN ResumeUserIo(Acknowledged(f)) ELSE Throw(f)
      [] f.mContextState # "AuthOk" ->
            IF b.kind = "token" THEN InitializeContext(f, b.token) ELSE Throw(f)

\* Mutant of ServerHandshake: no block of its own when there is no token to send.
ServerHandshakeSilent(f, b) ==
    LET k == b.token
        g == [f EXCEPT !.mContextState = IF Accepted(k) THEN "AuthOk" ELSE "AuthContinue"]
    IN  CASE k = refused ->
                PostWrite([f EXCEPT !.mContextState = "AuthFailed"], Frame(Status(FALSE)))
          [] k # refused /\ Emits(k) -> PostWrite(g, Frame(Token(k + 1)))
          [] k # refused /\ ~Emits(k) -> ResumeUserIo(Acknowledged(g))

\* SspiServerFilter::doHandshake: the next token, or a block of the server's own.
ServerHandshake(f, b) ==
    LET k == b.token
        g == [f EXCEPT !.mContextState = IF Accepted(k) THEN "AuthOk" ELSE "AuthContinue"]
    IN  CASE k = refused ->
                PostWrite([f EXCEPT !.mContextState = "AuthFailed"], Frame(Status(FALSE)))
          [] k # refused /\ Emits(k) -> PostWrite(g, Frame(Token(k + 1)))
          [] k # refused /\ ~Emits(k) -> PostWrite(g, Frame(Status(TRUE)))

\* Schannel reads on until it has a token, and does not expect more than that.
OneToken(f, raw, next) ==
    CASE Incomplete(raw) -> ReadMore(f, raw)
      [] ~Incomplete(raw) /\ Len(raw) > Size(raw[1].block) -> Throw(f)
      [] ~Incomplete(raw) /\ Len(raw) = Size(raw[1].block) -> next

\* SspiClientFilter::doHandshakeSchannel.
ClientHandshakeSchannel(f, raw) == OneToken(f, raw, InitializeContext(f, raw[1].block.token))

\* SspiServerFilter::doHandshakeSchannel.  Of a refusal nothing is written: the
\* write is that of the buffer as it is, which has gone already, or which the read
\* of no bytes has cleared that precedes a message with "iocp".  (With "asio" there
\* is no such read: for the first token the buffer is init's placeholder of one
\* byte, which is written and fails the assertion in onWriteCompleted_.)
ServerHandshakeSchannel(f, raw) ==
    LET k == raw[1].block.token
    IN  OneToken(f, raw,
            IF k = refused
            THEN PostWrite(f, <<>>)
            ELSE PostWrite([f EXCEPT !.mContextState =
                                IF Accepted(k) THEN "AuthOk" ELSE "AuthContinue"],
                           Frame(Token(k + 1))))

\* handleEvent(ReadCompleted).
BlockRead(e, f, raw) ==
    CASE f.mContextState = "AuthOkAck" ->
            IF package.schannel THEN DecryptRecord(f, raw) ELSE DecryptBlock(f, raw)
      [] f.mContextState # "AuthOkAck" /\ e = "client" ->
            IF package.schannel THEN ClientHandshakeSchannel(f, raw)
                                ELSE ClientHandshake(f, raw[1].block)
      [] f.mContextState # "AuthOkAck" /\ e = "server" ->
            IF package.schannel THEN ServerHandshakeSchannel(f, raw)
                                ELSE ServerHandshake(f, raw[1].block)

\* onReadCompleted: units have come.  completeReadBlock takes the length field
\* first, then the rest.
OnReadCompleted(e, f, units) ==
    LET raw == f.mReadBuffer \o units
        len == f.mReadBufferLen
        polling == f.mPreState = "Reading" /\ f.mBytesRequestedOrig = 0
        blocks == ~polling /\ ~package.schannel
    IN  CASE polling -> [f EXCEPT !.completed = "zero"]
          [] blocks /\ Len(raw) = HeaderLen /\ len = HeaderLen ->
                IF BodyLen(raw[1].block) > MaxMessageLength
                THEN Throw(f)
                ELSE PostRead(f, raw, Size(raw[1].block))
          [] blocks /\ Len(raw) < len -> PostRead(f, raw, len)
          [] OTHER -> BlockRead(e, f, raw)

\* handleHandshakeEvent(WriteCompleted) of the client and of the server.
ClientTokenWritten(f) == ReadNewBlock(f)

ServerTokenWritten(f) ==
    CASE f.mContextState = "AuthOk" -> ResumeUserIo(Acknowledged(f))
      [] f.mContextState = "AuthFailed" -> Throw(f)
      [] f.mContextState = "AuthContinue" -> ReadNewBlock(f)

\* onWriteCompleted: n units have gone.  completeWriteBlock writes the rest.
OnWriteCompleted(e, f, n) ==
    LET rest == From(f.mWriteBuffer, n)
    IN  CASE rest # <<>> -> PostWrite(f, rest)
          [] rest = <<>> /\ f.mContextState = "AuthOkAck" -> [f EXCEPT !.completed = "write"]
          [] rest = <<>> /\ f.mContextState # "AuthOkAck" ->
                IF e = "client" THEN ClientTokenWritten(f) ELSE ServerTokenWritten(f)

\* read.  A read of nothing asks whether there is anything to read.
Read(f, n) ==
    LET g == [f EXCEPT !.mPreState = "Reading", !.mBytesRequestedOrig = n]
    IN  CASE n = 0 /\ (f.plain # <<>> \/ f.remaining # <<>>) -> [f EXCEPT !.completed = "zero"]
          [] n = 0 /\ f.plain = <<>> /\ f.remaining = <<>> ->
                [g EXCEPT !.mReadBuffer = <<>>, !.posted = "zero"]
          [] n # 0 -> IF f.mContextState = "AuthOkAck" THEN ServeRead(g) ELSE ReadNewBlock(g)

\* write, of one buffer.
Write(f, units) ==
    LET g == [f EXCEPT !.mPreState = "Writing", !.mWriteByteBufferOrig = units]
    IN  IF f.mContextState = "AuthOkAck" THEN StartWrite(g) ELSE InitializeContext(g, 0)

-----------------------------------------------------------------------------
(***************************************************************************)
(* The transports above                                                    *)
(***************************************************************************)

Total(m) == FoldLeft(+, 0, m)

\* Follows from ConstantsAssumption, by induction over a message.
ASSUME TotalAssumption == \A m \in Messages : Total(m) \in Nat \ {0}

\* What the completion of f's operation means to a transport: the next buffer
\* goes out, or the peer's message is awaited; its length, then its data come in.
Resumed(e, f) ==
    LET u == user[e]
        need == u.need - Len(f.got)
    IN  CASE f.completed = "none" -> u
          [] f.completed = "zero" -> [u EXCEPT !.polled = TRUE]
          [] f.completed = "write" /\ Len(u.buffers) > 1 -> [u EXCEPT !.buffers = Tail(@)]
          [] f.completed = "write" /\ Len(u.buffers) = 1 ->
                [NewUser("reading") EXCEPT !.message = u.message]
          [] f.completed = "read" /\ need > 0 -> [u EXCEPT !.need = need]
          [] f.completed = "read" /\ need = 0 /\ u.part = "length" ->
                [u EXCEPT !.part = "data", !.need = user[Peer(e)].message - 1]
          [] f.completed = "read" /\ need = 0 /\ u.part = "data" ->
                [u EXCEPT !.phase = IF e = "client" THEN "idle" ELSE "invoking"]

\* End e has dealt with an event, which has made f of its filter: what that has
\* completed goes up.  A filter that threw takes the connection with it.
Settle(e, f) ==
    /\ filter' = [filter EXCEPT ![e] = [f EXCEPT !.completed = "none", !.got = <<>>]]
    /\ user' = [user EXCEPT ![e] = Resumed(e, f)]
    /\ delivered' = [delivered EXCEPT ![e] = @ \o f.got]
    /\ up' = IF f.threw THEN up \ {e} ELSE up

Idle(e) == e \in up /\ filter[e].posted = "none"

\* A call of the client's.
Call(m) ==
    /\ Idle("client") /\ user["client"].phase = "idle" /\ calls < MaxCalls
    /\ calls' = calls + 1
    /\ user' = [user EXCEPT !["client"] =
                    [NewUser("writing") EXCEPT !.buffers = m, !.message = Total(m)]]
    /\ UNCHANGED <<package, refused, filter, wire, up, sent, delivered, aborts>>

\* The server's reply.
Reply(m) ==
    /\ Idle("server") /\ user["server"].phase = "invoking"
    /\ user' = [user EXCEPT !["server"] =
                    [NewUser("writing") EXCEPT !.buffers = m, !.message = Total(m)]]
    /\ UNCHANGED <<package, refused, filter, wire, up, sent, delivered, calls, aborts>>

\* The next buffer of a message.
IssueWrite(e) ==
    /\ Idle(e) /\ user[e].phase = "writing"
    /\ LET n == Head(user[e].buffers)
       IN  /\ sent' = [sent EXCEPT ![e] = @ + n]
           /\ Settle(e, Write(filter[e], [i \in 1 .. n |-> sent[e] + i]))
    /\ UNCHANGED <<package, refused, wire, calls, aborts>>

\* The rest of a length or of data.  The server's transport for completion ports
\* polls before a message.
IssueRead(e) ==
    /\ Idle(e) /\ user[e].phase = "reading"
    /\ LET polls == e = "server" /\ Transport = "iocp" /\ ~user[e].polled
       IN  Settle(e, Read(filter[e], IF polls THEN 0 ELSE user[e].need))
    /\ UNCHANGED <<package, refused, wire, sent, calls, aborts>>

\* Below: some of what is on the wire has been read.
ReadDone(e) ==
    LET f == filter[e]
        room == f.mReadBufferLen - Len(f.mReadBuffer)
    IN  /\ e \in up /\ wire[e] # <<>>
        /\ \/ /\ f.posted = "read"
              /\ \E n \in 1 .. Least(room, Len(wire[e])) :
                    /\ wire' = [wire EXCEPT ![e] = From(@, n)]
                    /\ Settle(e, OnReadCompleted(e, [f EXCEPT !.posted = "none"], First(wire[e], n)))
           \/ /\ f.posted = "zero"
              /\ Settle(e, OnReadCompleted(e, [f EXCEPT !.posted = "none"], <<>>))
              /\ UNCHANGED wire
        /\ UNCHANGED <<package, refused, sent, calls, aborts>>

\* Below: some of a block has been written.
WriteDone(e) ==
    LET f == filter[e]
    IN  /\ e \in up /\ f.posted = "write"
        /\ \E n \in 1 .. Len(f.mWriteBuffer) :
              /\ wire' = [wire EXCEPT ![Peer(e)] = @ \o First(f.mWriteBuffer, n)]
              /\ Settle(e, OnWriteCompleted(e, [f EXCEPT !.posted = "none"], n))
        /\ UNCHANGED <<package, refused, sent, calls, aborts>>

\* A write of nothing: a completion port takes it for the end of the connection.
EmptyWriteDone(e) ==
    LET f == filter[e]
    IN  /\ e \in up /\ f.posted = "write" /\ f.mWriteBuffer = <<>>
        /\ IF e = "server" /\ Transport = "iocp"
           THEN up' = up \ {e} /\ UNCHANGED <<filter, user, delivered>>
           ELSE Settle(e, OnWriteCompleted(e, [f EXCEPT !.posted = "none"], 0))
        /\ UNCHANGED <<package, refused, wire, sent, calls, aborts>>

\* The thread that issued an operation has ended, and with it the operation: the
\* completion port passes it on as one that moved nothing.  (An empty write that
\* ends so has the outcome it has with asio.)
Aborted ==
    LET f == [filter["server"] EXCEPT !.posted = "none"]
    IN  /\ "server" \in up /\ Transport = "iocp" /\ aborts < MaxAborts
        /\ filter["server"].posted # "none"
        /\ filter["server"].posted = "write" => f.mWriteBuffer # <<>>
        /\ aborts' = aborts + 1
        /\ Settle("server", IF filter["server"].posted = "write"
                            THEN OnWriteCompleted("server", f, 0)
                            ELSE OnReadCompleted("server", f, <<>>))
        /\ UNCHANGED <<package, refused, wire, sent, calls>>

\* The other end has closed the connection and there is nothing more to read.
EndOfStream(e) ==
    /\ e \in up /\ Peer(e) \notin up /\ wire[e] = <<>>
    /\ filter[e].posted \in {"read", "zero"}
    /\ up' = up \ {e}
    /\ UNCHANGED <<package, refused, filter, wire, user, sent, delivered, calls, aborts>>

Io(e) == ReadDone(e) \/ WriteDone(e) \/ EmptyWriteDone(e) \/ EndOfStream(e)
Above(e) == IssueWrite(e) \/ IssueRead(e)

FilterNext ==
    \/ \E m \in Messages : Call(m) \/ Reply(m)
    \/ \E e \in Ends : Io(e) \/ Above(e)
    \/ Aborted

FilterSpec == FilterInit /\ [][FilterNext]_filterVars

\* A transport goes on when its operation is done, the application answers, and
\* what has been written arrives.
FilterFairness ==
    /\ \A e \in Ends : WF_filterVars(Io(e)) /\ WF_filterVars(Above(e))
    /\ WF_filterVars(\E m \in Messages : Reply(m))

FilterFairSpec == FilterSpec /\ FilterFairness

-----------------------------------------------------------------------------
(***************************************************************************)
(* Properties                                                              *)
(***************************************************************************)

\* Partial reads and writes, blocks that end inside what was read and reads that
\* end inside a block: what comes out at one end is what went in at the other,
\* in order, with nothing lost between (completeReadBlock, shiftReadBuffer and
\* the read of handleEvent from a decrypted block).
Delivered ==
    \A e \in Ends :
        /\ Len(delivered[e]) <= sent[Peer(e)]
        /\ \A i \in DOMAIN delivered[e] : delivered[e][i] = i

\* A client takes its context for good only if the server has accepted it, and a
\* server that refuses never has a client that goes on: the last token and the
\* server's own block tell the two apart (doHandshake of both ends).  Nothing comes
\* out of the server's end before the client has its context for good.
Agreement ==
    LET ctx == [e \in Ends |-> filter[e].mContextState]
    IN  /\ ctx["client"] = "AuthOkAck" => ctx["server"] \in {"AuthOk", "AuthOkAck"}
        /\ delivered["server"] # <<>> => ctx["client"] = "AuthOkAck"

\* Every call has its reply or breaks the connection: the two ends never both wait
\* for the other's next block, in the handshake or after it (handleHandshakeEvent
\* of both ends), however little a read or a write moves.
ExchangeEnds ==
    user["client"].phase = "writing" ~> (user["client"].phase = "idle" \/ "client" \notin up)
=============================================================================
