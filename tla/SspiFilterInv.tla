--------------------------- MODULE SspiFilterInv ---------------------------
(***************************************************************************)
(* The inductive invariant behind Delivered and Agreement of SspiFilter:   *)
(* what is between the two ends, unit by unit.                             *)
(***************************************************************************)
EXTENDS SspiFilter

Blocks == [kind : {"token"}, token : Nat] \cup [kind : {"status"}, ok : BOOLEAN]
          \cup [kind : {"data"}, data : Seq(Nat)]
Units == [block : Blocks, at : Nat]

FilterTypes ==
    [mPreState : {"Ready", "Reading", "Writing"},
     mContextState : {"AuthContinue", "AuthOk", "AuthOkAck", "AuthFailed"},
     mBytesRequestedOrig : Nat, mWriteByteBufferOrig : Seq(Nat),
     mReadBuffer : Seq(Units), mReadBufferLen : Nat, plain : Seq(Nat), remaining : Seq(Units),
     mWriteBuffer : Seq(Units), posted : {"none", "read", "write", "zero"},
     completed : {"none", "read", "write", "zero"}, got : Seq(Nat), threw : BOOLEAN]

UserTypes ==
    [phase : {"idle", "reading", "writing", "invoking"}, buffers : Seq(Nat \ {0}), message : Nat,
     part : {"length", "data"}, need : Nat, polled : BOOLEAN]

TypesOK ==
    /\ package \in Packages /\ refused \in Nat
    /\ filter \in [Ends -> FilterTypes] /\ wire \in [Ends -> Seq(Units)] /\ up \subseteq Ends
    /\ \A e \in Ends : filter[e].completed = "none" /\ filter[e].got = <<>>
    /\ user \in [Ends -> UserTypes]
    /\ sent \in [Ends -> Nat] /\ delivered \in [Ends -> Seq(Nat)]
    /\ calls \in Nat /\ aborts \in Nat

\* What a filter has read and not dealt with, and what it is writing.
HeldBy(f) == IF f.posted = "read" THEN f.mReadBuffer ELSE f.remaining
LeftBy(f) == IF f.posted = "write" THEN f.mWriteBuffer ELSE <<>>

\* What is on its way into end e.
Stream(e) == HeldBy(filter[e]) \o (wire[e] \o LeftBy(filter[Peer(e)]))

-----------------------------------------------------------------------------
\* The units of s are those after `from'.
Numbered(s, from) == \A i \in 1 .. Len(s) : s[i] = from + i

Before(b) == b.data[1] - 1
After(b) == b.data[1] + Len(b.data) - 1

\* s is made of whole data blocks: the units after `from' and up to `to'.
DataStream(s, from, to) ==
    /\ IF s = <<>> THEN from = to ELSE s[1].at = 1 /\ Before(s[1].block) = from
    /\ \A i \in 1 .. Len(s) : s[i].at = 1 =>
          LET b == s[i].block
              next == i + Size(b)
          IN  /\ b \in Blocks /\ b.kind = "data" /\ b.data # <<>> /\ Numbered(b.data, Before(b))
              /\ next <= Len(s) + 1
              /\ \A a \in 1 .. Size(b) : s[i + a - 1] = [block |-> b, at |-> a]
              /\ After(b) <= to
              /\ IF next > Len(s) THEN After(b) = to
                                  ELSE s[next].at = 1 /\ Before(s[next].block) = After(b)

-----------------------------------------------------------------------------
\* Without Schannel a block is read in two parts, and neither is there yet.
BlockPending(f) ==
    /\ Len(f.mReadBuffer) < f.mReadBufferLen
    /\ \/ f.mReadBufferLen = HeaderLen
       \/ f.mReadBuffer # <<>> /\ f.mReadBufferLen = Size(f.mReadBuffer[1].block)

NothingHeld(f) == f.plain = <<>> /\ f.remaining = <<>>

\* A filter of an open connection.
FilterOK(f) ==
    /\ ~f.threw
    /\ f.posted = "read" =>
          /\ NothingHeld(f)
          /\ f.mPreState = "Reading" => f.mBytesRequestedOrig # 0
          /\ f.mContextState = "AuthOkAck" => f.mPreState = "Reading"
          /\ ~package.schannel => BlockPending(f)
    /\ f.posted = "zero" =>
          f.mPreState = "Reading" /\ f.mBytesRequestedOrig = 0 /\ NothingHeld(f)
    /\ f.mContextState # "AuthOkAck" => NothingHeld(f)
    /\ f.remaining # <<>> => package.schannel

\* The filter's operation is the one its transport awaits.
Coupled(f, u) ==
    /\ f.posted # "none" =>
          \/ u.phase = "writing" /\ f.mPreState = "Writing"
          \/ /\ u.phase = "reading" /\ f.mPreState = "Reading"
             /\ f.mBytesRequestedOrig = IF f.posted = "zero" THEN 0 ELSE u.need
    /\ f.posted = "write" /\ f.mContextState = "AuthOkAck" => u.phase = "writing"

UserOK(u) ==
    /\ u.phase = "writing" => u.buffers # <<>> /\ u.message > 0
    /\ u.phase = "reading" /\ u.part = "length" => u.need > 0

EndsOK ==
    /\ \A e \in up : FilterOK(filter[e]) /\ Coupled(filter[e], user[e])
    /\ \A e \in Ends : UserOK(user[e]) /\ (sent[e] > 0 => user[e].message > 0)

-----------------------------------------------------------------------------
\* The handshake: token k of the client's is on its way, or the answer to one.
Asked(k) ==
    /\ k % 2 = 1 /\ Stream("server") = Frame(Token(k))
    /\ filter["server"].mContextState = "AuthContinue" /\ filter["server"].posted # "write"
    /\ "client" \in up =>
          filter["client"].mContextState = IF k = package.legs THEN "AuthOk" ELSE "AuthContinue"

AnsweredBy(k) ==
    /\ k % 2 = 0 /\ Stream("client") = Frame(Token(k))
    /\ filter["client"].mContextState = "AuthContinue"
    /\ filter["server"].mContextState \in
          IF k = package.legs THEN {"AuthOk", "AuthOkAck"} ELSE {"AuthContinue"}

Verdict ==
    /\ ~package.schannel
    /\ \/ /\ Stream("client") = Frame(Status(TRUE)) /\ filter["client"].mContextState = "AuthOk"
          /\ filter["server"].mContextState \in {"AuthOk", "AuthOkAck"}
       \/ Stream("client") = Frame(Status(FALSE))

NotStarted ==
    /\ user["client"].phase \in {"idle", "writing"}
    /\ filter["client"].posted = "none" /\ filter["client"].mContextState = "AuthContinue"
    /\ Stream("client") = <<>> /\ sent["client"] = 0
    /\ "server" \in up =>
          /\ Stream("server") = <<>> /\ filter["server"].mContextState = "AuthContinue"
          /\ filter["server"].posted # "write"

\* The client's first buffer waits for the handshake's end.
FirstWrite ==
    LET C == filter["client"]
    IN  /\ C.mPreState = "Writing" /\ user["client"].phase = "writing"
        /\ C.mWriteByteBufferOrig # <<>> /\ Numbered(C.mWriteByteBufferOrig, 0)
        /\ sent["client"] = Len(C.mWriteByteBufferOrig)

UnderWay ==
    /\ FirstWrite
    /\ \/ /\ filter["client"].posted = "read" \/ (filter["client"].posted = "write" /\ filter["client"].mWriteBuffer # <<>>)
          /\ Stream("client") = <<>>
          /\ "server" \in up => \E k \in 1 .. package.legs : Asked(k)
       \/ /\ filter["client"].posted = "read"
          /\ "server" \in up => Stream("server") = <<>>
          /\ \/ \E k \in 1 .. package.legs : AnsweredBy(k)
             \/ Verdict
             \/ Stream("client") = <<>>

ServerWaits ==
    LET S == filter["server"]
    IN  /\ user["server"].phase = "reading" /\ sent["server"] = 0
        /\ \A e \in Ends : delivered[e] = <<>>
        /\ "server" \in up =>
              /\ NothingHeld(S)
              /\ S.posted = "write" => S.mPreState = "Reading" /\ S.mBytesRequestedOrig # 0
              /\ Stream("server") = <<>> \/ \E k \in 1 .. package.legs : Asked(k)

\* What a server that writes has to say.
ServerStates ==
    LET S == filter["server"]
    IN  /\ S.mContextState = "AuthOk" => S.posted = "write" /\ S.mWriteBuffer # <<>>
        /\ "server" \in up =>
              /\ S.mContextState = "AuthFailed" => S.posted = "write" /\ S.mWriteBuffer # <<>>
              /\ S.mContextState = "AuthContinue" /\ S.posted = "write" =>
                    S.mWriteBuffer # <<>> \/ ("client" \in up => Stream("client") = <<>>)

Handshake ==
    filter["client"].mContextState # "AuthOkAck" =>
        ServerWaits /\ ("client" \in up => NotStarted \/ UnderWay)

\* Data flow with a context at both ends.
DataFlow(e) ==
    LET from == Len(delivered[e])
    IN  /\ Numbered(filter[e].plain, from)
        /\ DataStream(Stream(e), from + Len(filter[e].plain), sent[Peer(e)])

DataPhase ==
    filter["client"].mContextState = "AuthOkAck" =>
        /\ filter["server"].mContextState = "AuthOkAck"
        /\ \A e \in up : DataFlow(e)

Safe == \A e \in Ends : Numbered(delivered[e], 0) /\ Len(delivered[e]) <= sent[Peer(e)]

FilterInv == TypesOK /\ EndsOK /\ ServerStates /\ Handshake /\ DataPhase /\ Safe
=============================================================================
