-------------------------- MODULE FileTransferInv --------------------------
(***************************************************************************)
(* The inductive invariant of FileTransfer, which its proofs use.          *)
(***************************************************************************)
EXTENDS FileTransfer

Chunk == [of : Clients, at : Nat]
Uploader == {NoSession} \cup (Clients \X BOOLEAN)
Position == {"idle", "open", "store", "serving", "find", "chunk"}
Outcome == {"none", "sending", "done"}

TokenTypes ==
    /\ mAvailableTokens \in Seq(Tokens) /\ mStubMap \in [Tokens -> Objects \cup {0}]
    /\ sweep \in 0 .. NumTokens /\ taken \in Tokens \cup {0}

ObjectTypes ==
    /\ nobjects \in 0 .. MaxObjects /\ kind \in [Objects -> {"none", "stub", "upload"}]
    /\ owner \in [Objects -> Clients] /\ old \in [Objects -> BOOLEAN]
    /\ deleted \subseteq Objects \cup {0}

ThreadTypes ==
    /\ pc \in [Clients -> Position]
    /\ newToken \in [Clients -> Tokens \cup {0}] /\ token \in [Clients -> Tokens \cup {0}]
    /\ ref \in [Clients -> Objects \cup {0}] /\ cached \in [Clients -> Objects \cup {0}]
    /\ mine \in [Clients -> Objects \cup {0}]

UploadTypes ==
    /\ streamPos \in [Objects -> Nat] /\ mUploader \in [Objects -> Uploader]
    /\ mCompleted \subseteq Objects /\ mFailed \subseteq Objects
    /\ upload \in [Clients -> Outcome] /\ pos \in [Clients -> Nat]

FileTypes ==
    /\ tested \in [Clients -> Nat] /\ path \in [Objects -> Objects \cup {0}]
    /\ file \in [Objects -> SUBSET Chunk] /\ unnoticed \subseteq Objects

TypeOK == TokenTypes /\ ObjectTypes /\ ThreadTypes /\ UploadTypes /\ FileTypes

\* The token a thread has been given is on its way to the map, and a thread that
\* serves an object refers to it.
Holding ==
    \A c \in Clients :
        /\ (newToken[c] # 0) <=> (pc[c] = "store")
        /\ pc[c] \in {"store", "serving", "chunk"} => ref[c] # 0

\* A request that uploads is one of uploadFile, which has a token once the first
\* chunk has found its object.
Seeking ==
    \A c \in Clients :
        /\ pc[c] \in {"open", "find", "chunk"} => upload[c] = "sending"
        /\ pc[c] = "store" /\ kind[ref[c]] = "upload" => upload[c] = "sending"
        /\ upload[c] = "sending" /\ pc[c] \notin {"open", "store"} => token[c] # 0

\* Nothing else knows of an object on its way to the map.
Fresh ==
    \A c \in Clients : pc[c] = "store" =>
        /\ owner[ref[c]] = c /\ ~old[ref[c]]
        /\ \A t \in Tokens : mStubMap[t] # ref[c]
        /\ \A d \in Clients : /\ cached[d] # ref[c] /\ mine[d] # ref[c]
                              /\ ref[d] = ref[c] => d = c

\* A client has a token if it has an object, which it has created.
Mine ==
    \A c \in Clients : /\ (mine[c] # 0) <=> (token[c] # 0)
                       /\ mine[c] # 0 => owner[mine[c]] = c

\* No object is in two places of the map.
Placed ==
    \A t, u \in Tokens : mStubMap[t] # 0 /\ mStubMap[t] = mStubMap[u] => t = u

\* An object nobody can reach or still refers to.
Gone(o) == Unique(o) /\ \A t \in Tokens : mStubMap[t] # o

\* A client's object is under its token, or has timed out and is gone.
Kept ==
    \A c \in Clients :
        mine[c] # 0 /\ mine[c] \notin deleted =>
            mStubMap[token[c]] = mine[c] \/ (old[mine[c]] /\ Gone(mine[c]))

\* Nothing knows of the objects to come.
Young ==
    \A o \in Objects : o > nobjects =>
        /\ ~old[o] /\ \A t \in Tokens : mStubMap[t] # o
        /\ \A c \in Clients : ref[c] # o /\ cached[c] # o /\ mine[c] # o

TokenInv == OneHolder /\ Holding /\ Seeking /\ Fresh /\ Mine /\ Placed /\ Kept /\ Young

\* A stream gets no further than the end of the file, where the upload is
\* complete, if the code can tell; and once there is a chunk only the owner's
\* session writes to it.
Files ==
    \A o \in Objects :
        /\ streamPos[o] <= Chunks
        /\ o \in mCompleted => streamPos[o] = Chunks
        /\ streamPos[o] = Chunks => o \in mCompleted \cup unnoticed
        /\ streamPos[o] # 0 => o <= nobjects /\ mUploader[o] \in {owner[o]} \X BOOLEAN

\* Under its token a client finds no other object of its own, and with the first
\* chunk none of anybody else.
Finds ==
    \A c \in Clients :
        /\ token[c] # 0 =>
             LET o == mStubMap[token[c]] IN o # 0 /\ owner[o] = c => o = mine[c]
        /\ pc[c] = "find" /\ pos[c] = 1 => mStubMap[token[c]] = mine[c] /\ ~old[mine[c]]
        /\ pc[c] = "chunk" /\ (pos[c] = 1 \/ owner[ref[c]] = c) => ref[c] = mine[c]

\* The state of uploadFile.
Uploads ==
    \A c \in Clients :
        /\ pc[c] \in {"find", "chunk"} \/ upload[c] = "sending" => pos[c] >= 1
        /\ pc[c] = "store" => upload[c] # "done"
        /\ upload[c] = "done" => mine[c] \in mCompleted \cup unnoticed

FileInv == Files /\ Finds /\ Uploads

IInv == TypeOK /\ TokenInv /\ FileInv

\* No two threads draw the same name at a time, so an upload has a file of its
\* own, in which are the chunks that its stream has accepted.
OwnFiles ==
    /\ \A c \in Clients : /\ pc[c] = "open" => tested[c] = MaxObjects
                          /\ pc[c] = "chunk" => kind[ref[c]] = "upload"
    /\ \A o \in Objects : /\ path[o] \in {0, o}
                          /\ kind[o] = "upload" => path[o] = o

Intact(o) == file[o] = {[of |-> owner[o], at |-> i] : i \in 1 .. streamPos[o]}

DiskInv == OwnFiles /\ \A o \in Objects \ unnoticed : Intact(o)
=============================================================================
