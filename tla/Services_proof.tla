--------------------------- MODULE Services_proof ---------------------------
(***************************************************************************)
(* Proofs about the services that are built on sessions and calls, for any *)
(* values of their constants.                                              *)
(*                                                                         *)
(* FileTransfer and the object factory it builds on: if clients delete     *)
(* their objects only before these time out, no token is in two places, an *)
(* object in use stays where its client looks for it; and if no two        *)
(* threads draw the same name for a file at a time, a complete file is the *)
(* file that was sent, unless the stream has failed without notice.        *)
(*                                                                         *)
(* PublishSubscribe: if a descriptor is not given again, a subscriber gets *)
(* every message in order; if objects are subscribed anew only after       *)
(* endSubscribe, an object is not called once that has returned.           *)
(***************************************************************************)
EXTENDS FileTransferInv, PublishSubscribeInv, SequenceTheorems, TLAPS

-----------------------------------------------------------------------------
(***************************************************************************)
(* FileTransfer                                                            *)
(***************************************************************************)

LEMMA ConstantFacts ==
    /\ NumTokens \in Nat /\ MaxObjects \in Nat /\ Chunks \in Nat /\ Chunks >= 1
    /\ NumTokens >= 1 /\ 0 \notin Tokens /\ 0 \notin Objects
    /\ Tokens = (0 .. NumTokens) \ {0} /\ Objects = 1 .. MaxObjects
BY ConstantsAssumption, FileAssumption DEF Tokens, Objects

\* What the values of a sequence without repetitions are after the last one has
\* been taken ...
LEMMA Pop ==
    ASSUME NEW S, NEW s \in Seq(S), s # <<>>,
           \A i, j \in DOMAIN s : s[i] = s[j] => i = j,
           NEW f, f = SubSeq(s, 1, Len(s) - 1)
    PROVE  /\ f \in Seq(S) /\ s[Len(s)] \in S
           /\ \A i \in DOMAIN f : i \in DOMAIN s /\ f[i] = s[i] /\ f[i] # s[Len(s)]
           /\ \A i, j \in DOMAIN f : f[i] = f[j] => i = j
<1>1. Len(s) \in Nat /\ Len(s) > 0 /\ DOMAIN s = 1 .. Len(s)
  OBVIOUS
<1>2. f \in Seq(S) /\ Len(f) = Len(s) - 1
  BY <1>1
<1>3. \A i \in 1 .. Len(f) : f[i] = s[i]
  BY <1>1, <1>2
<1>4. DOMAIN f = 1 .. Len(f) /\ s[Len(s)] \in S
  BY <1>1, <1>2
<1>5. QED
  BY <1>1, <1>2, <1>3, <1>4

\* ... and after a new one has been added.
LEMMA Push ==
    ASSUME NEW S, NEW s \in Seq(S), NEW x \in S,
           \A i, j \in DOMAIN s : s[i] = s[j] => i = j,
           \A i \in DOMAIN s : s[i] # x,
           NEW a, a = Append(s, x)
    PROVE  /\ a \in Seq(S)
           /\ \A i \in DOMAIN a : a[i] = x \/ (i \in DOMAIN s /\ a[i] = s[i])
           /\ \A i, j \in DOMAIN a : a[i] = a[j] => i = j
<1>1. a \in Seq(S) /\ Len(a) = Len(s) + 1 /\ Len(s) \in Nat
  OBVIOUS
<1>2. DOMAIN a = 1 .. Len(s) + 1 /\ DOMAIN s = 1 .. Len(s)
  BY <1>1
<1>3. \A i \in 1 .. Len(s) : a[i] = s[i]
  OBVIOUS
<1>4. a[Len(s) + 1] = x
  OBVIOUS
<1>5. \A i \in DOMAIN a : i = Len(s) + 1 \/ i \in DOMAIN s
  BY <1>1, <1>2
<1>6. \A i \in DOMAIN s : a[i] = s[i] /\ a[i] # x
  BY <1>2, <1>3
<1>7. \A i, j \in DOMAIN a : a[i] = a[j] => i = j
  BY <1>4, <1>5, <1>6
<1>8. QED
  BY <1>1, <1>4, <1>5, <1>6, <1>7

\* OneHolder, token by token.
Single ==
    /\ \A i, j \in DOMAIN mAvailableTokens : mAvailableTokens[i] = mAvailableTokens[j] => i = j
    /\ \A i \in DOMAIN mAvailableTokens :
           /\ mStubMap[mAvailableTokens[i]] = 0 /\ mAvailableTokens[i] # taken
           /\ \A c \in Clients : newToken[c] # mAvailableTokens[i]
    /\ taken # 0 => mStubMap[taken] = 0 /\ \A c \in Clients : newToken[c] # taken
    /\ \A c \in Clients : newToken[c] # 0 => mStubMap[newToken[c]] = 0
    /\ \A c, d \in Clients : c # d /\ newToken[c] = newToken[d] => newToken[c] = 0

LEMMA SingleIsOneHolder == TypeOK => (OneHolder <=> Single)
<1> SUFFICES ASSUME TypeOK PROVE OneHolder <=> Single
  OBVIOUS
<1>1. /\ \A i \in DOMAIN mAvailableTokens : mAvailableTokens[i] \in Tokens
      /\ \A c \in Clients : newToken[c] \in Tokens \cup {0}
      /\ taken \in Tokens \cup {0} /\ 0 \notin Tokens
  BY ConstantFacts DEF TypeOK, TokenTypes, ObjectTypes, ThreadTypes
<1>2. OneHolder => Single
  <2> SUFFICES ASSUME OneHolder PROVE Single
    OBVIOUS
  <2>1. ASSUME NEW i \in DOMAIN mAvailableTokens
        PROVE  /\ mStubMap[mAvailableTokens[i]] = 0 /\ mAvailableTokens[i] # taken
               /\ \A c \in Clients : newToken[c] # mAvailableTokens[i]
    BY <1>1 DEF OneHolder, Available, InMap, OnTheWay
  <2>2. taken # 0 => mStubMap[taken] = 0 /\ \A c \in Clients : newToken[c] # taken
    BY <1>1 DEF OneHolder, InMap, OnTheWay
  <2>3. \A c \in Clients : newToken[c] # 0 => mStubMap[newToken[c]] = 0
    BY <1>1 DEF OneHolder, InMap, OnTheWay
  <2>4. QED
    BY <2>1, <2>2, <2>3 DEF OneHolder, Single
<1>3. Single => OneHolder
  BY <1>1 DEF OneHolder, Single, Available, InMap, OnTheWay
<1>4. QED
  BY <1>2, <1>3

-----------------------------------------------------------------------------
(***************************************************************************)
(* Types                                                                   *)
(***************************************************************************)

\* The values that the types name.
LEMMA Values ==
    /\ \A v \in {"idle", "open", "store", "serving", "find", "chunk"} : v \in Position
    /\ \A v \in {"none", "sending", "done"} : v \in Outcome
    /\ NoSession \in Uploader
    /\ \A c \in Clients : Session(c) \in Uploader /\ Ended(c) \in Uploader
    /\ \A c \in Clients, n \in Nat : [of |-> c, at |-> n] \in Chunk
BY DEF Position, Outcome, Uploader, Chunk, Session, Ended

LEMMA TypeInit == FtInit => TypeOK
<1> SUFFICES ASSUME FtInit PROVE TypeOK
  OBVIOUS
<1> USE ConstantFacts, Values DEF FtInit, OfInit
<1>1. TokenTypes
  <2>1. \A i \in 1 .. NumTokens : NumTokens + 1 - i \in Tokens
    BY DEF Tokens
  <2>2. mAvailableTokens \in Seq(Tokens)
    BY <2>1
  <2>3. QED
    BY <2>2 DEF TokenTypes
<1>2. ObjectTypes
  <2>1. (CHOOSE c \in Clients : TRUE) \in Clients
    BY ConstantsAssumption
  <2>2. QED
    BY <2>1 DEF ObjectTypes
<1>3. ThreadTypes
  BY DEF ThreadTypes
<1>4. UploadTypes
  BY DEF UploadTypes
<1>5. FileTypes
  BY DEF FileTypes
<1>6. QED
  BY <1>1, <1>2, <1>3, <1>4, <1>5 DEF TypeOK

\* The steps that end a request for an upload.
Answering(c) ==
    \/ OpenFails(c) \/ NoUpload(c) \/ ConcurrentUpload(c) \/ Refuse(c)
    \/ WriteChunk(c) \/ WriteFails(c) \/ FlushFails(c)

LEMMA Answered ==
    ASSUME NEW c \in Clients, Answering(c)
    PROVE  /\ \E ok \in BOOLEAN : Answer(c, ok)
           /\ pc[c] \in {"open", "find", "chunk"} /\ UNCHANGED <<old, path>>
BY DEF Answering, OpenFails, NoUpload, ConcurrentUpload, Refuse, WriteChunk, WriteFails, FlushFails,
       Writes, ToFile, Accept, uploadVars, fileVars

\* The steps that may change the tokens; all others leave them and the sweep alone.
LEMMA TokensAlone ==
    ASSUME NEW c \in Clients,
           \/ Invoke(c) \/ Invoked(c) \/ PrepareUpload(c) \/ UploadChunk(c)
           \/ FindTokenMappedUpload(c) \/ Answering(c) \/ NewSession(c)
    PROVE  UNCHANGED <<tokenVars, sweepVars, nobjects, kind, owner, deleted, newToken, clientVars>>
BY Answered DEF Invoke, Invoked, PrepareUpload, UploadChunk, FindTokenMappedUpload, NewSession,
                EndSession, Answer, objectVars

LEMMA TokenTypesNext == TypeOK /\ Holding /\ Seeking /\ [FtNext]_ftVars => TokenTypes'
<1> SUFFICES ASSUME TypeOK, Holding, Seeking, [FtNext]_ftVars PROVE TokenTypes'
  OBVIOUS
<1> USE ConstantFacts DEF TypeOK, TokenTypes
<1>1. CASE UNCHANGED <<tokenVars, sweepVars>>
  BY <1>1 DEF tokenVars, sweepVars
<1>2. ASSUME NEW c \in Clients, NEW k, NewObject(c, k) PROVE TokenTypes'
  <2>1. SubSeq(mAvailableTokens, 1, Len(mAvailableTokens) - 1) \in Seq(Tokens)
    BY <1>2 DEF NewObject, RequestToken
  <2>2. QED
    BY <1>2, <2>1 DEF NewObject, RequestToken, sweepVars
<1>3. ASSUME NEW c \in Clients, AddObject(c) PROVE TokenTypes'
  BY <1>3 DEF AddObject, sweepVars, ThreadTypes
<1>4. ASSUME NEW c \in Clients, DeleteObject(c) PROVE TokenTypes'
  <2>1. token[c] \in Tokens
    BY <1>4 DEF DeleteObject, ThreadTypes
  <2>2. QED
    BY <1>4, <2>1 DEF DeleteObject, ReturnToken, sweepVars
<1>5. (sweep + 1) % (NumTokens + 1) \in 0 .. NumTokens
  OBVIOUS
<1>6. CASE BeginSweep
  BY <1>5, <1>6 DEF BeginSweep, NextToken, tokenVars
<1>7. CASE SweepObject
  <2>1. sweep \in Tokens
    BY <1>7 DEF SweepObject
  <2>2. QED
    BY <1>5, <1>7, <2>1 DEF SweepObject, NextToken
<1>8. CASE SweepReturn
  BY <1>5, <1>8 DEF SweepReturn, ReturnToken, NextToken
<1>9. ASSUME NEW c \in Clients,
             Objs(c) \/ PrepareUpload(c) \/ UploadChunk(c) \/ UploadThread(c) \/ NewSession(c)
      PROVE  TokenTypes'
  <2>1. CASE Objs(c)
    BY <1>1, <1>2, <1>3, <1>4, <2>1, TokensAlone DEF Objs, CreateObject, OfThread, CreatedObject
  <2>2. CASE UploadThread(c)
    BY <1>1, <1>2, <1>3, <2>2, TokensAlone DEF UploadThread, Answering, OpenUpload, AddUpload
  <2>3. QED
    BY <1>1, <1>9, <2>1, <2>2, TokensAlone
<1>10. ASSUME NEW o \in Objects, Passes(o) PROVE TokenTypes'
  BY <1>1, <1>10 DEF Passes, Age
<1>11. CASE UNCHANGED ftVars
  BY <1>1, <1>11 DEF ftVars, ofVars
<1>12. QED
  BY <1>6, <1>7, <1>8, <1>9, <1>10, <1>11 DEF FtNext, Sweep

LEMMA ObjectTypesNext == TypeOK /\ Holding /\ Seeking /\ [FtNext]_ftVars => ObjectTypes'
<1> SUFFICES ASSUME TypeOK, Holding, Seeking, [FtNext]_ftVars PROVE ObjectTypes'
  OBVIOUS
<1> USE ConstantFacts DEF TypeOK, ObjectTypes
<1>1. CASE UNCHANGED objectVars
  BY <1>1 DEF objectVars
<1>2. ASSUME NEW c \in Clients, NEW k \in {"stub", "upload"}, NewObject(c, k) PROVE ObjectTypes'
  <2>1. nobjects + 1 \in Objects /\ nobjects + 1 \in 0 .. MaxObjects
    BY <1>2 DEF NewObject
  <2>2. QED
    BY <1>2, <2>1 DEF NewObject
<1>3. ASSUME NEW c \in Clients, DeleteObject(c) PROVE ObjectTypes'
  BY <1>3 DEF DeleteObject, ThreadTypes
<1>4. ASSUME NEW o, Touch(o), UNCHANGED <<nobjects, kind, owner, deleted>> PROVE ObjectTypes'
  BY <1>4 DEF Touch
<1>5. ASSUME NEW c \in Clients, Objs(c) PROVE ObjectTypes'
  BY <1>1, <1>2, <1>3, <1>4, <1>5 DEF Objs, CreateObject, Invoke, Invoked, OfThread, CreatedObject,
                                     AddObject
<1>6. ASSUME NEW c \in Clients, UploadThread(c) PROVE ObjectTypes'
  <2>1. CASE AddUpload(c)
    BY <1>1, <2>1 DEF AddUpload, AddObject
  <2>2. CASE FindTokenMappedUpload(c)
    BY <1>4, <2>2 DEF FindTokenMappedUpload
  <2>3. CASE Answering(c)
    BY <1>1, <2>3, Answered DEF Answer, objectVars
  <2>4. CASE OpenUpload(c)
    BY <1>2, <2>4 DEF OpenUpload
  <2>5. QED
    BY <1>6, <2>1, <2>2, <2>3, <2>4 DEF UploadThread, Answering
<1>7. ASSUME NEW o \in Objects, Passes(o) PROVE ObjectTypes'
  BY <1>7 DEF Passes, Age
<1>8. CASE Sweep \/ UNCHANGED ftVars
  BY <1>1, <1>8 DEF Sweep, BeginSweep, SweepObject, SweepReturn, ftVars, ofVars
<1>9. ASSUME NEW c \in Clients, PrepareUpload(c) \/ UploadChunk(c) \/ NewSession(c)
      PROVE  ObjectTypes'
  BY <1>1, <1>9 DEF PrepareUpload, UploadChunk, NewSession, EndSession
<1>10. QED
  BY <1>5, <1>6, <1>7, <1>8, <1>9 DEF FtNext

LEMMA ThreadTypesNext == TypeOK /\ Holding /\ Seeking /\ [FtNext]_ftVars => ThreadTypes'
<1> SUFFICES ASSUME TypeOK, Holding, Seeking, [FtNext]_ftVars PROVE ThreadTypes'
  OBVIOUS
<1> USE ConstantFacts, Values DEF TypeOK, ThreadTypes
<1>1. CASE UNCHANGED <<threadVars, clientVars>>
  BY <1>1 DEF threadVars, clientVars
<1>2. ASSUME NEW c \in Clients, NEW k, NewObject(c, k) PROVE ThreadTypes'
  <2>1. mAvailableTokens[Len(mAvailableTokens)] \in Tokens
    BY <1>2 DEF NewObject, RequestToken, TokenTypes
  <2>2. nobjects + 1 \in Objects
    BY <1>2 DEF NewObject, ObjectTypes
  <2>3. QED
    BY <1>2, <2>1, <2>2 DEF NewObject, RequestToken, clientVars
<1>3. ASSUME NEW c \in Clients, CreatedObject(c) \/ AddUpload(c) PROVE ThreadTypes'
  <2>1. newToken[c] \in Tokens \cup {0} /\ ref[c] \in Objects \cup {0}
    OBVIOUS
  <2>2. /\ newToken' = [newToken EXCEPT ![c] = 0] /\ ref' = [ref EXCEPT ![c] = 0]
        /\ token' = [token EXCEPT ![c] = newToken[c]] /\ mine' = [mine EXCEPT ![c] = ref[c]]
        /\ cached' \in {cached, [cached EXCEPT ![c] = ref[c]]}
        /\ pc' \in {[pc EXCEPT ![c] = "idle"], [pc EXCEPT ![c] = "find"]}
    BY <1>3 DEF CreatedObject, AddUpload, AddObject
  <2>3. QED
    BY <2>1, <2>2
<1>4. ASSUME NEW c \in Clients, Objs(c) PROVE ThreadTypes'
  <2>1. CASE Invoke(c)
    BY <2>1 DEF Invoke, clientVars, TokenTypes
  <2>2. CASE Invoked(c)
    BY <2>2 DEF Invoked, clientVars
  <2>3. CASE DeleteObject(c)
    BY <2>3 DEF DeleteObject, clientVars
  <2>4. QED
    BY <1>2, <1>3, <1>4, <2>1, <2>2, <2>3 DEF Objs, CreateObject, OfThread
<1>5. ASSUME NEW c \in Clients, UploadThread(c) PROVE ThreadTypes'
  <2>1. CASE FindTokenMappedUpload(c)
    <3>1. mStubMap[token[c]] \in Objects \cup {0}
      BY <2>1 DEF FindTokenMappedUpload, Seeking, TokenTypes
    <3>2. QED
      BY <2>1, <3>1 DEF FindTokenMappedUpload, clientVars
  <2>2. CASE Answering(c)
    BY <2>2, Answered DEF Answer, clientVars
  <2>3. CASE OpenUpload(c)
    BY <1>2, <2>3 DEF OpenUpload
  <2>4. QED
    BY <1>3, <1>5, <2>1, <2>2, <2>3 DEF UploadThread, Answering
<1>6. ASSUME NEW c \in Clients, PrepareUpload(c) \/ UploadChunk(c) \/ NewSession(c)
      PROVE  ThreadTypes'
  BY <1>6 DEF PrepareUpload, UploadChunk, NewSession, EndSession, clientVars
<1>7. CASE Sweep \/ UNCHANGED ftVars
  BY <1>1, <1>7 DEF Sweep, BeginSweep, SweepObject, SweepReturn, ftVars, ofVars
<1>8. ASSUME NEW o \in Objects, Passes(o) PROVE ThreadTypes'
  BY <1>1, <1>8 DEF Passes, Age
<1>9. QED
  BY <1>4, <1>5, <1>6, <1>7, <1>8 DEF FtNext

LEMMA UploadTypesNext == TypeOK /\ Holding /\ Seeking /\ [FtNext]_ftVars => UploadTypes'
<1> SUFFICES ASSUME TypeOK, Holding, Seeking, [FtNext]_ftVars PROVE UploadTypes'
  OBVIOUS
<1> USE ConstantFacts, Values DEF TypeOK, UploadTypes
<1>1. CASE UNCHANGED <<streamPos, mUploader, mCompleted, mFailed, upload, pos>>
  BY <1>1
<1>2. ASSUME NEW c \in Clients, Objs(c) PROVE UploadTypes'
  BY <1>2 DEF Objs, uploadVars
<1>3. ASSUME NEW c \in Clients, PrepareUpload(c) PROVE UploadTypes'
  BY <1>3 DEF PrepareUpload
<1>4. ASSUME NEW c \in Clients, UploadChunk(c) \/ NewSession(c) PROVE UploadTypes'
  <2>1. CASE UploadChunk(c)
    BY <2>1 DEF UploadChunk, uploadVars
  <2>2. CASE NewSession(c)
    BY <2>2 DEF NewSession, uploaderVars
  <2>3. QED
    BY <1>4, <2>1, <2>2
<1>5. ASSUME NEW c \in Clients, UploadThread(c) PROVE UploadTypes'
  <2>1. CASE OpenUpload(c) \/ AddUpload(c) \/ FindTokenMappedUpload(c)
    BY <1>1, <2>1 DEF OpenUpload, AddUpload, FindTokenMappedUpload, uploadVars, uploaderVars
  <2>2. ASSUME NEW ok \in BOOLEAN, Answer(c, ok)
        PROVE  upload' \in [Clients -> Outcome] /\ pos' \in [Clients -> Nat]
    BY <2>2 DEF Answer
  <2>3. CASE OpenFails(c) \/ NoUpload(c) \/ ConcurrentUpload(c)
    BY <2>2, <2>3 DEF OpenFails, NoUpload, ConcurrentUpload, uploadVars
  <2>4. pc[c] = "chunk" => ref[c] \in Objects
    BY DEF Holding, ThreadTypes
  <2>5. CASE Refuse(c)
    BY <2>2, <2>5 DEF Refuse
  <2>6. CASE WriteFails(c)
    BY <2>2, <2>4, <2>6 DEF WriteFails, Writes
  <2>7. ASSUME ref[c] \in Objects, Accept(c, ref[c])
        PROVE  /\ streamPos' \in [Objects -> Nat] /\ mUploader' \in [Objects -> Uploader]
               /\ mFailed' \subseteq Objects
               /\ upload' \in [Clients -> Outcome] /\ pos' \in [Clients -> Nat]
    <3>1. Answer(c, TRUE) /\ TRUE \in BOOLEAN
      BY <2>7 DEF Accept
    <3>2. upload' \in [Clients -> Outcome] /\ pos' \in [Clients -> Nat]
      BY <2>2, <3>1
    <3>3. streamPos' \in [Objects -> Nat] /\ mUploader' \in [Objects -> Uploader]
      BY <2>7 DEF Accept
    <3>4. mFailed' \subseteq Objects
      BY <2>7 DEF Accept
    <3>5. QED
      BY <3>2, <3>3, <3>4
  <2>8. CASE WriteChunk(c)
    <3>1. mCompleted' \subseteq Objects
      BY <2>4, <2>8 DEF WriteChunk, Writes, ToFile
    <3>2. QED
      BY <2>4, <2>7, <2>8, <3>1 DEF WriteChunk, Writes, ToFile
  <2>9. CASE FlushFails(c)
    <3>1. mCompleted' \subseteq Objects
      BY <2>4, <2>9 DEF FlushFails, Writes
    <3>2. QED
      BY <2>4, <2>7, <2>9, <3>1 DEF FlushFails, Writes
  <2>10. QED
    BY <1>5, <2>1, <2>3, <2>5, <2>6, <2>8, <2>9 DEF UploadThread
<1>6. CASE UNCHANGED ftVars
  BY <1>1, <1>6 DEF ftVars, uploadVars, uploaderVars
<1>7. CASE UNCHANGED <<uploadVars, uploaderVars>>
  BY <1>1, <1>7 DEF uploadVars, uploaderVars
<1>8. QED
  BY <1>2, <1>3, <1>4, <1>5, <1>6, <1>7 DEF FtNext

\* The steps that do not touch the files of uploads.
LEMMA FilesAlone ==
    ASSUME NEW c \in Clients,
           \/ Objs(c) \/ UploadChunk(c) \/ NewSession(c) \/ AddUpload(c)
           \/ FindTokenMappedUpload(c) \/ NoUpload(c) \/ ConcurrentUpload(c) \/ Refuse(c)
           \/ WriteFails(c)
    PROVE  UNCHANGED fileVars
BY DEF Objs, UploadChunk, NewSession, AddUpload, FindTokenMappedUpload, NoUpload, ConcurrentUpload,
       Refuse, WriteFails, uploadVars

LEMMA FileTypesNext == TypeOK /\ Holding /\ Seeking /\ [FtNext]_ftVars => FileTypes'
<1> SUFFICES ASSUME TypeOK, Holding, Seeking, [FtNext]_ftVars PROVE FileTypes'
  OBVIOUS
<1> USE ConstantFacts, Values DEF TypeOK, FileTypes
<1>1. CASE UNCHANGED fileVars
  BY <1>1 DEF fileVars
<1>2. ASSUME NEW f, Truncate(f) PROVE file' \in [Objects -> SUBSET Chunk]
  BY <1>2 DEF Truncate
<1>3. ASSUME NEW c \in Clients, PrepareUpload(c) PROVE FileTypes'
  BY <1>3 DEF PrepareUpload, ObjectTypes
<1>4. ASSUME NEW c \in Clients, OpenUpload(c) PROVE FileTypes'
  <2>1. nobjects + 1 \in Objects /\ \A o \in Objects : path[o] \in Objects \cup {0}
    BY <1>4 DEF OpenUpload, NewObject, ObjectTypes
  <2>2. \A f \in Found(c) \cup {nobjects + 1} : f \in Objects \cup {0}
    BY <2>1 DEF Found, Live
  <2>3. PICK f \in Found(c) \cup {nobjects + 1} :
                path' = [path EXCEPT ![nobjects + 1] = f] /\ Truncate(f)
    BY <1>4 DEF OpenUpload
  <2>4. file' \in [Objects -> SUBSET Chunk]
    BY <1>2, <2>3
  <2>5. path' \in [Objects -> Objects \cup {0}]
    BY <2>2, <2>3
  <2>6. tested' \in [Clients -> Nat] /\ unnoticed' \subseteq Objects
    BY <1>4 DEF OpenUpload
  <2>7. QED
    BY <2>4, <2>5, <2>6
<1>5. ASSUME NEW c \in Clients, OpenFails(c) PROVE FileTypes'
  BY <1>2, <1>5 DEF OpenFails
<1>6. ASSUME NEW c \in Clients, WriteChunk(c) PROVE FileTypes'
  <2>1. [of |-> c, at |-> pos[c]] \in Chunk
    BY DEF UploadTypes
  <2>2. file' \in [Objects -> SUBSET Chunk]
    BY <1>6, <2>1 DEF WriteChunk, ToFile
  <2>3. QED
    BY <1>6, <2>2 DEF WriteChunk, ToFile, Accept
<1>7. ASSUME NEW c \in Clients, FlushFails(c) PROVE FileTypes'
  <2>1. ref[c] \in Objects
    BY <1>7 DEF FlushFails, Writes, Holding, ThreadTypes
  <2>2. QED
    BY <1>7, <2>1 DEF FlushFails, Accept
<1>8. CASE UNCHANGED ftVars \/ UNCHANGED <<uploadVars, uploaderVars>>
  BY <1>1, <1>8 DEF ftVars, uploadVars
<1>9. QED
  BY <1>1, <1>3, <1>4, <1>5, <1>6, <1>7, <1>8, FilesAlone DEF FtNext, UploadThread

LEMMA TypeNext == TypeOK /\ Holding /\ Seeking /\ [FtNext]_ftVars => TypeOK'
BY TokenTypesNext, ObjectTypesNext, ThreadTypesNext, UploadTypesNext, FileTypesNext DEF TypeOK

-----------------------------------------------------------------------------
(***************************************************************************)
(* Tokens and objects                                                      *)
(***************************************************************************)

\* Tokens are numbers other than 0, and so are objects.
LEMMA NotZero == 0 \notin Tokens /\ 0 \notin Objects
BY ConstantFacts

\* A step that moves no token: client c's thread lets go of an object or refers
\* to one in the map, and an object it can reach is used.
LEMMA Quiet ==
    ASSUME TypeOK, Single, Holding, Fresh, Mine, Placed, Kept, Young,
           NEW c \in Clients, pc[c] # "store",
           NEW p, p # "store", pc' = [pc EXCEPT ![c] = p],
           NEW r, ref' = [ref EXCEPT ![c] = r],
           NEW h, cached' = [cached EXCEPT ![c] = h],
           r \in {0, ref[c]} \/ \E t \in Tokens : mStubMap[t] = r,
           h \in {0, cached[c]} \/ \E t \in Tokens : mStubMap[t] = h,
           p \in {"serving", "chunk"} => r # 0,
           old' \in [Objects -> BOOLEAN],
           \A o \in Objects : old'[o] => old[o],
           \A o \in Objects : old[o] /\ ~old'[o] =>
               ref[c] = o \/ \E t \in Tokens : mStubMap[t] = o,
           UNCHANGED <<tokenVars, taken, nobjects, owner, deleted, newToken, clientVars>>
    PROVE  Single' /\ Holding' /\ Fresh' /\ Mine' /\ Placed' /\ Kept' /\ Young'
<1> USE NotZero DEF tokenVars, clientVars
<1>1. Single' /\ Placed' /\ Mine'
  BY DEF Single, Placed, Mine
<1>2. \A d \in Clients : pc'[d] = (IF d = c THEN p ELSE pc[d])
  BY DEF TypeOK, TokenTypes, ObjectTypes, ThreadTypes
<1>3. \A d \in Clients : ref'[d] = (IF d = c THEN r ELSE ref[d])
  BY DEF TypeOK, TokenTypes, ObjectTypes, ThreadTypes
<1>4. \A d \in Clients : cached'[d] = (IF d = c THEN h ELSE cached[d])
  BY DEF TypeOK, TokenTypes, ObjectTypes, ThreadTypes
<1>5. Holding'
  BY <1>2, <1>3 DEF Holding
<1>6. ASSUME NEW o \in Objects, \A t \in Tokens : mStubMap[t] # o, NEW d \in Clients
      PROVE  /\ ref'[d] = o => ref[d] = o
             /\ cached'[d] = o => cached[d] = o
  BY <1>3, <1>4, <1>6
<1>7. Fresh'
  <2> SUFFICES ASSUME NEW d \in Clients, pc'[d] = "store" PROVE Fresh!(d)!2'
    BY DEF Fresh
  <2>1. pc[d] = "store" /\ d # c /\ ref'[d] = ref[d] /\ ref[d] \in Objects
    BY <1>2, <1>3 DEF Holding, TypeOK, TokenTypes, ObjectTypes, ThreadTypes
  <2>2. QED
    BY <1>6, <2>1 DEF Fresh
<1>8. ASSUME NEW o \in Objects, Gone(o), old[o]
      PROVE  Gone(o)' /\ old'[o]
  BY <1>6, <1>8 DEF Gone, Unique
<1>9. \A d \in Clients : mine[d] # 0 => mine[d] \in Objects
  BY DEF TypeOK, TokenTypes, ObjectTypes, ThreadTypes
<1>10. Kept'
  BY <1>8, <1>9 DEF Kept
<1>11. Young'
  BY <1>6 DEF Young
<1>12. QED
  BY <1>1, <1>5, <1>7, <1>10, <1>11

\* A token leaves the sequence for a new object.
LEMMA NewObjectKeeps ==
    ASSUME TypeOK, Single, Holding, Fresh, Mine, Placed, Kept, Young,
           NEW c \in Clients, pc[c] # "store", NEW k, NewObject(c, k)
    PROVE  Single' /\ Holding' /\ Fresh' /\ Mine' /\ Placed' /\ Kept' /\ Young'
<1> USE NotZero DEF NewObject, sweepVars, clientVars
<1> DEFINE t == mAvailableTokens[Len(mAvailableTokens)]
           o == nobjects + 1
<1>1. newToken[c] = 0 /\ mAvailableTokens # <<>> /\ newToken' = [newToken EXCEPT ![c] = t]
      /\ mAvailableTokens' = SubSeq(mAvailableTokens, 1, Len(mAvailableTokens) - 1)
  BY DEF Holding, RequestToken
<1>2. mAvailableTokens \in Seq(Tokens)
  BY DEF TypeOK, TokenTypes, ObjectTypes, ThreadTypes
<1>3. /\ t \in Tokens
      /\ \A i \in DOMAIN mAvailableTokens' :
            /\ i \in DOMAIN mAvailableTokens /\ mAvailableTokens'[i] = mAvailableTokens[i]
            /\ mAvailableTokens'[i] # t
      /\ \A i, j \in DOMAIN mAvailableTokens' :
            mAvailableTokens'[i] = mAvailableTokens'[j] => i = j
  <2>1. \A i, j \in DOMAIN mAvailableTokens : mAvailableTokens[i] = mAvailableTokens[j] => i = j
    BY DEF Single
  <2>2. QED
    BY <1>1, <1>2, <2>1, Pop
<1>4. Len(mAvailableTokens) \in DOMAIN mAvailableTokens
  BY <1>1, <1>2
<1>5. mStubMap[t] = 0 /\ t # taken /\ \A d \in Clients : newToken[d] # t
  BY <1>4 DEF Single
<1>6. \A d \in Clients : newToken'[d] = (IF d = c THEN t ELSE newToken[d])
  BY <1>1 DEF TypeOK, TokenTypes, ObjectTypes, ThreadTypes
<1>7. Single'
  BY <1>3, <1>5, <1>6 DEF Single
<1>8. Placed'
  BY DEF Placed
<1>9. o \in Objects /\ o > nobjects /\ \A x \in Objects : x > nobjects' => x > nobjects /\ x # o
  BY ConstantFacts DEF TypeOK, TokenTypes, ObjectTypes, ThreadTypes
<1>10. /\ \A d \in Clients : pc'[d] = (IF d = c THEN "store" ELSE pc[d])
       /\ \A d \in Clients : ref'[d] = (IF d = c THEN o ELSE ref[d])
       /\ \A d \in Clients : cached'[d] = (IF d = c THEN 0 ELSE cached[d])
       /\ \A x \in Objects : owner'[x] = (IF x = o THEN c ELSE owner[x])
  BY DEF TypeOK, TokenTypes, ObjectTypes, ThreadTypes
<1>11. /\ ~old[o] /\ \A u \in Tokens : mStubMap[u] # o
       /\ \A d \in Clients : ref[d] # o /\ cached[d] # o /\ mine[d] # o
  BY <1>9 DEF Young
<1>12. Holding'
  BY <1>3, <1>6, <1>9, <1>10 DEF Holding
<1>13. Mine'
  <2>1. \A d \in Clients : mine[d] # 0 => mine[d] \in Objects
    BY DEF TypeOK, TokenTypes, ObjectTypes, ThreadTypes
  <2>2. QED
    BY <1>10, <1>11, <2>1 DEF Mine
<1>14. Fresh'
  <2> SUFFICES ASSUME NEW d \in Clients, pc'[d] = "store" PROVE Fresh!(d)!2'
    BY DEF Fresh
  <2>1. CASE d = c
    BY <1>9, <1>10, <1>11, <2>1
  <2>2. CASE d # c
    <3>1. pc[d] = "store" /\ ref'[d] = ref[d] /\ ref[d] \in Objects /\ ref[d] # o
      BY <1>10, <1>11, <2>2 DEF Holding, TypeOK, TokenTypes, ObjectTypes, ThreadTypes
    <3>2. QED
      BY <1>10, <3>1 DEF Fresh
  <2>3. QED
    BY <2>1, <2>2
<1>15. ASSUME NEW x \in Objects, Gone(x), x # o
       PROVE  Gone(x)'
  BY <1>10, <1>15 DEF Gone, Unique
<1>16. Kept'
  <2>1. \A d \in Clients : mine[d] # 0 => mine[d] \in Objects /\ mine[d] # o
    BY <1>11 DEF TypeOK, TokenTypes, ObjectTypes, ThreadTypes
  <2>2. QED
    BY <1>15, <2>1 DEF Kept
<1>17. Young'
  BY <1>9, <1>10 DEF Young
<1>18. QED
  BY <1>7, <1>8, <1>12, <1>13, <1>14, <1>16, <1>17

\* The object and its token get into the map.
LEMMA AddObjectKeeps ==
    ASSUME TypeOK, Single, Holding, Fresh, Mine, Placed, Kept, Young,
           NEW c \in Clients, AddObject(c),
           NEW p, p \in {"idle", "find"}, pc' = [pc EXCEPT ![c] = p],
           ref' = [ref EXCEPT ![c] = 0],
           NEW h, h \in {ref[c], cached[c]}, cached' = [cached EXCEPT ![c] = h]
    PROVE  Single' /\ Holding' /\ Fresh' /\ Mine' /\ Placed' /\ Kept' /\ Young'
<1> USE NotZero DEF AddObject, sweepVars, objectVars
<1> DEFINE t == newToken[c]
           o == ref[c]
<1>1. t \in Tokens /\ o \in Objects
  BY DEF TypeOK, TokenTypes, ObjectTypes, ThreadTypes, Holding
<1>2. mStubMap[t] = 0 /\ t # taken
  BY <1>1 DEF Single
<1>3. \A d \in Clients : d # c => newToken[d] # t
  BY <1>1 DEF Single
<1>4. \A i \in DOMAIN mAvailableTokens : mAvailableTokens[i] # t
  BY DEF Single
<1>5. /\ \A u \in Tokens : mStubMap'[u] = (IF u = t THEN o ELSE mStubMap[u])
      /\ \A d \in Clients : newToken'[d] = (IF d = c THEN 0 ELSE newToken[d])
      /\ \A d \in Clients : pc'[d] = (IF d = c THEN p ELSE pc[d])
      /\ \A d \in Clients : ref'[d] = (IF d = c THEN 0 ELSE ref[d])
      /\ \A d \in Clients : cached'[d] = (IF d = c THEN h ELSE cached[d])
      /\ \A d \in Clients : token'[d] = (IF d = c THEN t ELSE token[d])
      /\ \A d \in Clients : mine'[d] = (IF d = c THEN o ELSE mine[d])
  BY DEF TypeOK, TokenTypes, ObjectTypes, ThreadTypes
<1>6. Single'
  <2>1. taken \in Tokens \cup {0} /\ \A d \in Clients : newToken[d] \in Tokens \cup {0}
    BY DEF TypeOK, TokenTypes, ObjectTypes, ThreadTypes
  <2>2. \A i \in DOMAIN mAvailableTokens : mAvailableTokens[i] \in Tokens
    BY DEF TypeOK, TokenTypes, ObjectTypes, ThreadTypes
  <2>3. QED
    BY <1>1, <1>2, <1>3, <1>4, <1>5, <2>1, <2>2 DEF Single
<1>7. /\ owner[o] = c /\ ~old[o] /\ \A u \in Tokens : mStubMap[u] # o
      /\ \A d \in Clients : cached[d] # o /\ mine[d] # o /\ (ref[d] = o => d = c)
  BY DEF Fresh
<1>8. Placed'
  BY <1>1, <1>5, <1>7 DEF Placed
<1>9. Holding'
  BY <1>1, <1>5 DEF Holding
<1>10. Mine'
  BY <1>1, <1>5, <1>7 DEF Mine
<1>11. Fresh'
  <2> SUFFICES ASSUME NEW d \in Clients, pc'[d] = "store" PROVE Fresh!(d)!2'
    BY DEF Fresh
  <2>1. pc[d] = "store" /\ d # c /\ ref'[d] = ref[d] /\ ref[d] \in Objects /\ ref[d] # o
    BY <1>5, <1>7 DEF Holding, TypeOK, TokenTypes, ObjectTypes, ThreadTypes
  <2>2. QED
    BY <1>5, <2>1 DEF Fresh
<1>12. ASSUME NEW x \in Objects, Gone(x), x # o
       PROVE  Gone(x)'
  BY <1>5, <1>12 DEF Gone, Unique
<1>13. Kept'
  <2> SUFFICES ASSUME NEW d \in Clients, NEW m, m = mine'[d], m # 0, m \notin deleted
               PROVE  mStubMap'[token'[d]] = m \/ (old[m] /\ Gone(m)')
    BY DEF Kept, Gone, Unique
  <2>1. CASE d = c
    BY <1>1, <1>5, <2>1
  <2>2. CASE d # c
    <3>1. m = mine[d] /\ token'[d] = token[d] /\ m # o /\ m \in Objects /\ token[d] \in Tokens
      BY <1>5, <1>7, <2>2 DEF TypeOK, TokenTypes, ObjectTypes, ThreadTypes, Mine
    <3>2. mStubMap[token[d]] = m \/ (old[m] /\ Gone(m))
      BY <3>1 DEF Kept
    <3>3. CASE mStubMap[token[d]] = m
      BY <1>2, <1>5, <3>1, <3>3
    <3>4. CASE old[m] /\ Gone(m)
      BY <1>12, <3>1, <3>4
    <3>5. QED
      BY <3>2, <3>3, <3>4
  <2>3. QED
    BY <2>1, <2>2
<1>14. Young'
  <2>1. ~(o > nobjects)
    BY <1>1 DEF Young
  <2>2. QED
    BY <1>5, <2>1 DEF Young
<1>15. QED
  BY <1>6, <1>8, <1>9, <1>10, <1>11, <1>13, <1>14

\* A client's object is dropped in time, and its token returned.
LEMMA DeleteObjectKeeps ==
    ASSUME TypeOK, Single, Holding, Fresh, Mine, Placed, Kept, Young, ~StaleDeletes,
           NEW c \in Clients, DeleteObject(c)
    PROVE  Single' /\ Holding' /\ Fresh' /\ Mine' /\ Placed' /\ Kept' /\ Young'
<1> USE NotZero DEF DeleteObject, ReturnToken, Ready, sweepVars, clientVars
<1> DEFINE t == token[c]
           o == mine[c]
<1>1. t \in Tokens /\ o \in Objects /\ owner[o] = c
  BY DEF TypeOK, ThreadTypes, Mine
<1>2. mStubMap[t] = o
  BY <1>1 DEF Kept
<1>3. /\ t # taken
      /\ \A i \in DOMAIN mAvailableTokens : mAvailableTokens[i] # t
      /\ \A d \in Clients : newToken[d] # t
  BY <1>1, <1>2 DEF Single
<1>4. /\ \A u \in Tokens : mStubMap'[u] = (IF u = t THEN 0 ELSE mStubMap[u])
      /\ \A d \in Clients : cached'[d] = (IF d = c THEN 0 ELSE cached[d])
  BY DEF TypeOK, TokenTypes, ThreadTypes
<1>5. Single'
  <2>1. mAvailableTokens \in Seq(Tokens)
    BY DEF TypeOK, TokenTypes
  <2>2. \A i, j \in DOMAIN mAvailableTokens : mAvailableTokens[i] = mAvailableTokens[j] => i = j
    BY DEF Single
  <2>3. /\ \A i \in DOMAIN mAvailableTokens' :
              mAvailableTokens'[i] = t
              \/ (i \in DOMAIN mAvailableTokens /\ mAvailableTokens'[i] = mAvailableTokens[i])
        /\ \A i, j \in DOMAIN mAvailableTokens' :
              mAvailableTokens'[i] = mAvailableTokens'[j] => i = j
    BY <1>1, <1>3, <2>1, <2>2, Push
  <2>4. \A i \in DOMAIN mAvailableTokens : mAvailableTokens[i] \in Tokens
    BY <2>1
  <2>5. taken \in Tokens \cup {0} /\ \A d \in Clients : newToken[d] \in Tokens \cup {0}
    BY DEF TypeOK, TokenTypes, ThreadTypes
  <2>6. QED
    BY <1>1, <1>3, <1>4, <2>3, <2>4, <2>5 DEF Single
<1>6. Holding' /\ Mine' /\ Placed'
  BY <1>4 DEF Holding, Mine, Placed
<1>7. ASSUME NEW x \in Objects, \A u \in Tokens : mStubMap[u] # x
      PROVE  \A u \in Tokens : mStubMap'[u] # x
  BY <1>4, <1>7
<1>8. Fresh'
  BY <1>4, <1>7 DEF Fresh, Holding, TypeOK, ThreadTypes
<1>9. ASSUME NEW x \in Objects, Gone(x) PROVE Gone(x)'
  BY <1>4, <1>7, <1>9 DEF Gone, Unique
<1>10. Kept'
  <2> SUFFICES ASSUME NEW d \in Clients, mine[d] # 0, mine[d] \notin deleted, d # c
               PROVE  mStubMap'[token[d]] = mine[d] \/ (old[mine[d]] /\ Gone(mine[d])')
    BY DEF Kept, Gone, Unique
  <2>1. mine[d] \in Objects /\ token[d] \in Tokens /\ mine[d] # o
    BY <1>1 DEF Mine, TypeOK, ThreadTypes
  <2>2. CASE mStubMap[token[d]] = mine[d]
    BY <1>2, <1>4, <2>1, <2>2
  <2>3. CASE old[mine[d]] /\ Gone(mine[d])
    BY <1>9, <2>1, <2>3
  <2>4. QED
    BY <2>2, <2>3 DEF Kept
<1>11. Young'
  BY <1>4, <1>7 DEF Young
<1>12. QED
  BY <1>5, <1>6, <1>8, <1>10, <1>11

\* The sweep drops an object that has timed out and that nothing refers to.
LEMMA SweepObjectKeeps ==
    ASSUME TypeOK, Single, Holding, Fresh, Mine, Placed, Kept, Young, SweepObject
    PROVE  Single' /\ Holding' /\ Fresh' /\ Mine' /\ Placed' /\ Kept' /\ Young'
<1> USE NotZero DEF SweepObject, objectVars, threadVars, clientVars
<1> DEFINE o == mStubMap[sweep]
<1>1. CASE UNCHANGED <<mStubMap, taken>>
  BY <1>1 DEF Single, Holding, Fresh, Mine, Placed, Kept, Young, Gone, Unique
<1>2. CASE ~UNCHANGED <<mStubMap, taken>>
  <2>1. /\ sweep \in Tokens /\ o \in Objects /\ Unique(o) /\ old[o]
        /\ taken' = sweep /\ mStubMap' = [mStubMap EXCEPT ![sweep] = 0]
    BY <1>2, ConstantFacts DEF TypeOK, TokenTypes
  <2>2. \A u \in Tokens : mStubMap'[u] = (IF u = sweep THEN 0 ELSE mStubMap[u])
    BY <2>1 DEF TypeOK, TokenTypes
  <2>3. Single'
    <3>1. \A i \in DOMAIN mAvailableTokens : mAvailableTokens[i] \in Tokens
      BY DEF TypeOK, TokenTypes
    <3>2. \A d \in Clients : newToken[d] \in Tokens \cup {0}
      BY DEF TypeOK, ThreadTypes
    <3>3. \A d \in Clients : newToken[d] # sweep
      BY <2>1 DEF Single
    <3>4. \A i \in DOMAIN mAvailableTokens : mAvailableTokens[i] # sweep
      BY <2>1 DEF Single
    <3>5. QED
      BY <2>1, <2>2, <3>1, <3>2, <3>3, <3>4 DEF Single
  <2>4. Holding' /\ Mine' /\ Placed'
    BY <2>2 DEF Holding, Mine, Placed
  <2>5. ASSUME NEW x \in Objects, \A u \in Tokens : mStubMap[u] # x
        PROVE  \A u \in Tokens : mStubMap'[u] # x
    BY <2>2, <2>5
  <2>6. Fresh' /\ Young'
    BY <2>5 DEF Fresh, Young, Holding, TypeOK, ThreadTypes
  <2>7. ASSUME NEW x \in Objects, Gone(x) PROVE Gone(x)'
    BY <2>5, <2>7 DEF Gone, Unique
  <2>8. ASSUME NEW x \in Objects, x = o PROVE Gone(x)'
    <3>1. \A u \in Tokens : mStubMap'[u] # x
      BY <2>1, <2>2, <2>8 DEF Placed
    <3>2. QED
      BY <2>1, <2>8, <3>1 DEF Gone, Unique
  <2>9. Kept'
    <3> SUFFICES ASSUME NEW d \in Clients, NEW m, m = mine[d], m # 0, m \notin deleted
                 PROVE  mStubMap'[token[d]] = m \/ (old[m] /\ Gone(m)')
      BY DEF Kept, Gone, Unique
    <3>1. m \in Objects /\ token[d] \in Tokens
      BY DEF Mine, TypeOK, ThreadTypes
    <3>2. CASE mStubMap[token[d]] = m
      BY <2>1, <2>2, <2>8, <3>1, <3>2
    <3>3. CASE old[m] /\ Gone(m)
      BY <2>7, <3>1, <3>3
    <3>4. QED
      BY <3>2, <3>3 DEF Kept
  <2>10. QED
    BY <2>3, <2>4, <2>6, <2>9
<1>3. QED
  BY <1>1, <1>2

\* The sweep returns the token.
LEMMA SweepReturnKeeps ==
    ASSUME TypeOK, Single, Holding, Fresh, Mine, Placed, Kept, Young, SweepReturn
    PROVE  Single' /\ Holding' /\ Fresh' /\ Mine' /\ Placed' /\ Kept' /\ Young'
<1> USE NotZero DEF SweepReturn, ReturnToken, objectVars, threadVars, clientVars
<1>1. mAvailableTokens \in Seq(Tokens) /\ taken \in Tokens
  BY DEF TypeOK, TokenTypes
<1>2. /\ \A i, j \in DOMAIN mAvailableTokens : mAvailableTokens[i] = mAvailableTokens[j] => i = j
      /\ \A i \in DOMAIN mAvailableTokens : mAvailableTokens[i] # taken
      /\ mStubMap[taken] = 0 /\ \A c \in Clients : newToken[c] # taken
  BY DEF Single
<1>3. /\ \A i \in DOMAIN mAvailableTokens' :
            mAvailableTokens'[i] = taken
            \/ (i \in DOMAIN mAvailableTokens /\ mAvailableTokens'[i] = mAvailableTokens[i])
      /\ \A i, j \in DOMAIN mAvailableTokens' :
            mAvailableTokens'[i] = mAvailableTokens'[j] => i = j
  BY <1>1, <1>2, Push
<1>4. \A i \in DOMAIN mAvailableTokens' : mAvailableTokens'[i] # 0
  BY <1>1, <1>3
<1>5. Single'
  BY <1>2, <1>3, <1>4 DEF Single
<1>6. QED
  BY <1>5 DEF Holding, Fresh, Mine, Placed, Kept, Young, Gone, Unique

\* An object in the map times out.
LEMMA AgeKeeps ==
    ASSUME TypeOK, Single, Holding, Fresh, Mine, Placed, Kept, Young, NEW o \in Objects, Age(o)
    PROVE  Single' /\ Holding' /\ Fresh' /\ Mine' /\ Placed' /\ Kept' /\ Young'
<1> USE DEF Age, tokenVars, sweepVars, threadVars, clientVars
<1>1. Single' /\ Holding' /\ Mine' /\ Placed'
  BY DEF Single, Holding, Mine, Placed
<1>2. \A x \in Objects : old'[x] <=> old[x] \/ x = o
  BY DEF TypeOK, ObjectTypes
<1>3. Fresh' /\ Young'
  BY <1>2 DEF Fresh, Young, Holding, TypeOK, ThreadTypes
<1>4. Kept'
  BY <1>2 DEF Kept, Gone, Unique, TypeOK, ThreadTypes
<1>5. QED
  BY <1>1, <1>3, <1>4

LEMMA SeekingNext == TypeOK /\ Holding /\ Seeking /\ Young /\ [FtNext]_ftVars => Seeking'
<1> SUFFICES ASSUME TypeOK, Holding, Seeking, Young, [FtNext]_ftVars PROVE Seeking'
  OBVIOUS
<1>1. CASE UNCHANGED <<pc, upload, token, ref, kind>>
  BY <1>1 DEF Seeking
<1>2. ASSUME NEW c \in Clients, UNCHANGED <<token, kind>>,
             \A d \in Clients \ {c} : pc'[d] = pc[d] /\ ref'[d] = ref[d] /\ upload'[d] = upload[d],
             pc'[c] # "store", pc'[c] \in {"open", "find", "chunk"} => upload'[c] = "sending",
             upload'[c] = "sending" /\ pc'[c] # "open" => token[c] # 0
      PROVE  Seeking'
  BY <1>2 DEF Seeking
<1>3. ASSUME NEW c \in Clients, NEW k \in {"stub", "upload"}, NewObject(c, k),
             NEW u \in Outcome, upload' = [upload EXCEPT ![c] = u], k = "upload" => u = "sending"
      PROVE  Seeking'
  <2>1. nobjects + 1 \in Objects /\ nobjects + 1 > nobjects
    BY <1>3, ConstantFacts DEF NewObject, TypeOK, ObjectTypes
  <2>2. \A d \in Clients : ref[d] # nobjects + 1
    BY <2>1 DEF Young
  <2>3. \A d \in Clients : pc[d] = "store" => ref[d] \in Objects
    BY DEF Holding, TypeOK, ThreadTypes
  <2>4. /\ pc' = [pc EXCEPT ![c] = "store"] /\ ref' = [ref EXCEPT ![c] = nobjects + 1]
        /\ kind' = [kind EXCEPT ![nobjects + 1] = k] /\ token' = token
    BY <1>3 DEF NewObject, clientVars
  <2>5. QED
    BY <1>3, <2>1, <2>2, <2>3, <2>4
    DEF Seeking, TypeOK, ThreadTypes, ObjectTypes, UploadTypes
<1>4. ASSUME NEW c \in Clients, AddObject(c), UNCHANGED upload,
             NEW p, pc' = [pc EXCEPT ![c] = p], ref' = [ref EXCEPT ![c] = 0],
             \/ p = "idle"
             \/ p = "find" /\ kind[ref[c]] = "upload"
      PROVE  Seeking'
  <2>1. newToken[c] # 0 /\ pc[c] = "store"
    BY <1>4 DEF AddObject, Holding
  <2>2. token' = [token EXCEPT ![c] = newToken[c]] /\ kind' = kind
    BY <1>4 DEF AddObject, objectVars
  <2>3. QED
    BY <1>4, <2>1, <2>2 DEF Seeking, TypeOK, ThreadTypes
<1>5. pc \in [Clients -> Position] /\ ref \in [Clients -> Objects \cup {0}]
      /\ upload \in [Clients -> Outcome]
  BY DEF TypeOK, ThreadTypes, UploadTypes
<1>6. ASSUME NEW c \in Clients, Objs(c) PROVE Seeking'
  <2>1. CASE CreateObject(c) /\ upload' = [upload EXCEPT ![c] = "none"]
    <3>1. NewObject(c, "stub")
      BY <2>1 DEF CreateObject
    <3>2. QED
      BY <1>3, <2>1, <3>1, Values
  <2>2. CASE (Invoke(c) \/ Invoked(c)) /\ UNCHANGED upload
    <3>1. upload[c] = "sending" => token[c] # 0
      BY <2>2 DEF Invoke, Invoked, Ready, Seeking
    <3>2. UNCHANGED <<token, kind>>
      BY <2>2 DEF Invoke, Invoked, clientVars
    <3>3. CASE Invoke(c)
      BY <1>2, <1>5, <2>2, <3>1, <3>2, <3>3 DEF Invoke
    <3>4. CASE Invoked(c)
      BY <1>2, <1>5, <2>2, <3>1, <3>2, <3>4 DEF Invoked
    <3>5. QED
      BY <2>2, <3>3, <3>4
  <2>3. CASE DeleteObject(c) /\ UNCHANGED upload
    BY <1>1, <2>3 DEF DeleteObject, clientVars
  <2>4. CASE CreatedObject(c) /\ UNCHANGED upload
    BY <1>4, <2>4 DEF CreatedObject
  <2>5. QED
    BY <1>6, <2>1, <2>2, <2>3, <2>4 DEF Objs, OfThread
<1>7. ASSUME NEW c \in Clients, UploadThread(c) PROVE Seeking'
  <2>1. CASE AddUpload(c)
    BY <1>4, <2>1 DEF AddUpload, uploaderVars
  <2>2. CASE FindTokenMappedUpload(c)
    <3>1. upload[c] = "sending" /\ token[c] # 0
      BY <2>2 DEF FindTokenMappedUpload, Seeking
    <3>2. UNCHANGED <<token, kind, upload>>
      BY <2>2 DEF FindTokenMappedUpload, clientVars, uploaderVars
    <3>3. QED
      BY <1>2, <1>5, <2>2, <3>1, <3>2 DEF FindTokenMappedUpload
  <2>3. ASSUME NEW ok \in BOOLEAN, Answer(c, ok), ok => token[c] # 0 PROVE Seeking'
    <3>1. /\ pc' = [pc EXCEPT ![c] = "idle"] /\ ref' = [ref EXCEPT ![c] = 0]
          /\ \A d \in Clients \ {c} : upload'[d] = upload[d]
          /\ upload'[c] = "sending" => ok
          /\ UNCHANGED <<token, kind>>
      BY <1>5, <2>3 DEF Answer, clientVars
    <3>2. QED
      BY <1>2, <1>5, <2>3, <3>1
  <2>4. CASE OpenFails(c)
    BY <2>3, <2>4 DEF OpenFails
  <2>5. CASE Answering(c) /\ ~OpenFails(c)
    <3>1. pc[c] \in {"find", "chunk"}
      BY <2>5 DEF Answering, NoUpload, ConcurrentUpload, Refuse, WriteChunk, WriteFails, FlushFails, Writes
    <3>2. token[c] # 0
      BY <3>1 DEF Seeking
    <3>3. QED
      BY <2>3, <2>5, <3>2, Answered
  <2>6. CASE OpenUpload(c)
    <3>1. NewObject(c, "upload") /\ upload[c] = "sending" /\ upload' = [upload EXCEPT ![c] = "sending"]
      BY <1>5, <2>6 DEF OpenUpload, Seeking, uploaderVars
    <3>2. QED
      BY <1>3, <3>1, Values
  <2>7. QED
    BY <1>7, <2>1, <2>2, <2>4, <2>5, <2>6 DEF UploadThread, Answering
<1>8. ASSUME NEW c \in Clients, PrepareUpload(c) \/ UploadChunk(c) \/ NewSession(c) PROVE Seeking'
  <2>1. CASE PrepareUpload(c)
    BY <1>2, <1>5, <2>1 DEF PrepareUpload, clientVars, objectVars
  <2>2. CASE UploadChunk(c)
    BY <2>2 DEF UploadChunk, Ready, Seeking, clientVars, objectVars, TypeOK, ThreadTypes
  <2>3. CASE NewSession(c)
    BY <1>1, <2>3 DEF NewSession, EndSession, clientVars, objectVars, uploaderVars
  <2>4. QED
    BY <1>8, <2>1, <2>2, <2>3
<1>9. CASE Sweep /\ UNCHANGED <<uploadVars, uploaderVars>>
  BY <1>1, <1>9 DEF Sweep, BeginSweep, SweepObject, SweepReturn, objectVars, threadVars, clientVars,
                    uploaderVars
<1>10. ASSUME NEW o \in Objects, Passes(o), UNCHANGED <<uploadVars, uploaderVars>> PROVE Seeking'
  BY <1>1, <1>10 DEF Passes, Age, threadVars, clientVars, uploaderVars
<1>11. CASE UNCHANGED ftVars
  BY <1>1, <1>11 DEF ftVars, ofVars, objectVars, threadVars, clientVars, uploaderVars
<1>12. QED
  BY <1>6, <1>7, <1>8, <1>9, <1>10, <1>11 DEF FtNext

\* The token invariant, with OneHolder token by token.
TokenParts == Single /\ Holding /\ Fresh /\ Mine /\ Placed /\ Kept /\ Young

LEMMA TokenPartsNext ==
    TypeOK /\ TokenParts /\ Seeking /\ ~StaleDeletes /\ [FtNext]_ftVars => TokenParts'
<1> SUFFICES ASSUME TypeOK, TokenParts, Seeking, ~StaleDeletes, [FtNext]_ftVars PROVE TokenParts'
  OBVIOUS
<1> USE DEF TokenParts
<1>1. CASE UNCHANGED <<mAvailableTokens, mStubMap, taken, nobjects, owner, old, deleted,
                       pc, newToken, ref, cached, token, mine>>
  BY <1>1 DEF Single, Holding, Fresh, Mine, Placed, Kept, Young, Gone, Unique
<1>2. ASSUME NEW c \in Clients, NEW k, NewObject(c, k), pc[c] # "store" PROVE TokenParts'
  BY <1>2, NewObjectKeeps
<1>3. /\ \A c \in Clients : ref = [ref EXCEPT ![c] = ref[c]]
      /\ \A c \in Clients : cached = [cached EXCEPT ![c] = cached[c]]
      /\ \A c \in Clients : pc = [pc EXCEPT ![c] = pc[c]]
      /\ \A c \in Clients : ref[c] \in Objects \cup {0} /\ cached[c] \in Objects \cup {0}
      /\ \A c \in Clients : token[c] # 0 => token[c] \in Tokens
      /\ old \in [Objects -> BOOLEAN]
  BY DEF TypeOK, ThreadTypes, ObjectTypes
<1>4. ASSUME NEW c \in Clients, CreatedObject(c) \/ AddUpload(c) PROVE TokenParts'
  <2>1. AddObject(c) /\ ref' = [ref EXCEPT ![c] = 0]
    BY <1>4 DEF CreatedObject, AddUpload
  <2>2. CASE CreatedObject(c)
    BY <2>1, <2>2, AddObjectKeeps DEF CreatedObject
  <2>3. CASE AddUpload(c)
    BY <1>3, <2>1, <2>3, AddObjectKeeps DEF AddUpload
  <2>4. QED
    BY <1>4, <2>2, <2>3
<1>5. ASSUME NEW c \in Clients, Answering(c) PROVE TokenParts'
  <2>1. "idle" # "store" /\ ~("idle" \in {"serving", "chunk"})
    OBVIOUS
  <2>2. /\ pc[c] # "store" /\ pc' = [pc EXCEPT ![c] = "idle"] /\ ref' = [ref EXCEPT ![c] = 0]
        /\ cached' = [cached EXCEPT ![c] = cached[c]]
        /\ UNCHANGED <<tokenVars, taken, nobjects, owner, old, deleted, newToken, clientVars>>
    BY <1>3, <1>5, Answered DEF Answer, sweepVars
  <2>3. QED
    BY <1>3, <2>1, <2>2, Quiet
<1>6. ASSUME NEW c \in Clients, Invoke(c) PROVE TokenParts'
  <2> DEFINE o == mStubMap[token[c]]
  <2>1. o # 0 /\ token[c] \in Tokens /\ pc[c] # "store"
    BY <1>3, <1>6 DEF Invoke, Ready
  <2>2. \E t \in Tokens : mStubMap[t] = o
    BY <2>1
  <2>3. /\ old' \in [Objects -> BOOLEAN] /\ \A x \in Objects : old'[x] => old[x]
        /\ \A x \in Objects : old[x] /\ ~old'[x] => x = o
    BY <1>3, <1>6 DEF Invoke, Touch
  <2>4. /\ pc' = [pc EXCEPT ![c] = "serving"] /\ ref' = [ref EXCEPT ![c] = o]
        /\ cached' = [cached EXCEPT ![c] = o]
        /\ UNCHANGED <<tokenVars, taken, nobjects, owner, deleted, newToken, clientVars>>
    BY <1>6 DEF Invoke, sweepVars
  <2>5. QED
    BY <2>1, <2>2, <2>3, <2>4, Quiet
<1>7. ASSUME NEW c \in Clients, Invoked(c) PROVE TokenParts'
  <2>1. /\ old' \in [Objects -> BOOLEAN] /\ \A x \in Objects : old'[x] => old[x]
        /\ \A x \in Objects : old[x] /\ ~old'[x] => x = ref[c]
    BY <1>3, <1>7 DEF Invoked, Touch
  <2>2. /\ pc[c] # "store" /\ pc' = [pc EXCEPT ![c] = "idle"] /\ ref' = [ref EXCEPT ![c] = 0]
        /\ cached' = [cached EXCEPT ![c] = cached[c]]
        /\ UNCHANGED <<tokenVars, taken, nobjects, owner, deleted, newToken, clientVars>>
    BY <1>3, <1>7 DEF Invoked, sweepVars
  <2>3. "idle" # "store" /\ ~("idle" \in {"serving", "chunk"})
    OBVIOUS
  <2>4. QED
    BY <2>1, <2>2, <2>3, Quiet
<1>8. ASSUME NEW c \in Clients, FindTokenMappedUpload(c) PROVE TokenParts'
  <2> DEFINE o == mStubMap[token[c]]
  <2>1. o # 0 /\ token[c] \in Tokens /\ pc[c] # "store"
    BY <1>3, <1>8 DEF FindTokenMappedUpload, Seeking
  <2>2. \E t \in Tokens : mStubMap[t] = o
    BY <2>1
  <2>3. /\ old' \in [Objects -> BOOLEAN] /\ \A x \in Objects : old'[x] => old[x]
        /\ \A x \in Objects : old[x] /\ ~old'[x] => x = o
    BY <1>3, <1>8 DEF FindTokenMappedUpload, Touch
  <2>4. /\ pc' = [pc EXCEPT ![c] = "chunk"] /\ ref' = [ref EXCEPT ![c] = o]
        /\ cached' = [cached EXCEPT ![c] = cached[c]]
        /\ UNCHANGED <<tokenVars, taken, nobjects, owner, deleted, newToken, clientVars>>
    BY <1>3, <1>8 DEF FindTokenMappedUpload, sweepVars
  <2>5. QED
    BY <2>1, <2>2, <2>3, <2>4, Quiet
<1>9. ASSUME NEW c \in Clients, PrepareUpload(c) \/ UploadChunk(c) \/ NewSession(c)
      PROVE  TokenParts'
  <2>1. /\ pc[c] = "idle" /\ cached' = [cached EXCEPT ![c] = 0]
        /\ ref' = [ref EXCEPT ![c] = ref[c]]
        /\ UNCHANGED <<tokenVars, taken, nobjects, owner, old, deleted, newToken, clientVars>>
    BY <1>3, <1>9 DEF PrepareUpload, UploadChunk, NewSession, EndSession, Ready, sweepVars, objectVars
  <2>2. CASE UploadChunk(c)
    <3>1. pc' = [pc EXCEPT ![c] = "find"]
      BY <2>2 DEF UploadChunk
    <3>2. "find" # "store" /\ ~("find" \in {"serving", "chunk"})
      OBVIOUS
    <3>3. QED
      BY <1>3, <2>1, <3>1, <3>2, Quiet
  <2>3. CASE NewSession(c)
    <3>1. pc' = [pc EXCEPT ![c] = "idle"]
      BY <1>3, <2>1, <2>3 DEF NewSession, EndSession
    <3>2. "idle" # "store" /\ ~("idle" \in {"serving", "chunk"})
      OBVIOUS
    <3>3. QED
      BY <1>3, <2>1, <3>1, <3>2, Quiet
  <2>4. CASE PrepareUpload(c)
    <3>1. pc' = [pc EXCEPT ![c] = "open"]
      BY <2>4 DEF PrepareUpload
    <3>2. "open" # "store" /\ ~("open" \in {"serving", "chunk"})
      OBVIOUS
    <3>3. QED
      BY <1>3, <2>1, <3>1, <3>2, Quiet
  <2>5. QED
    BY <1>9, <2>2, <2>3, <2>4
<1>10. ASSUME NEW c \in Clients, Objs(c) PROVE TokenParts'
  BY <1>2, <1>4, <1>6, <1>7, <1>10, DeleteObjectKeeps DEF Objs, CreateObject, OfThread, Ready
<1>11. ASSUME NEW c \in Clients, OpenUpload(c) PROVE TokenParts'
  BY <1>2, <1>11 DEF OpenUpload
<1>12. ASSUME NEW c \in Clients, UploadThread(c) PROVE TokenParts'
  BY <1>4, <1>5, <1>8, <1>11, <1>12 DEF UploadThread, Answering
<1>13. CASE Sweep
  <2>1. CASE BeginSweep
    BY <1>1, <2>1 DEF BeginSweep, tokenVars, objectVars, threadVars, clientVars
  <2>2. QED
    BY <1>13, <2>1, SweepObjectKeeps, SweepReturnKeeps DEF Sweep
<1>14. ASSUME NEW o \in Objects, Passes(o) PROVE TokenParts'
  BY <1>14, AgeKeeps DEF Passes
<1>15. CASE UNCHANGED ftVars
  BY <1>1, <1>15 DEF ftVars, ofVars, tokenVars, sweepVars, objectVars, threadVars, clientVars
<1>16. QED
  BY <1>9, <1>10, <1>11, <1>12, <1>13, <1>14, <1>15 DEF FtNext

-----------------------------------------------------------------------------
(***************************************************************************)
(* Uploads                                                                 *)
(***************************************************************************)

\* What an uploader's session can be.
LEMMA SomeSession == ASSUME NEW c, NEW x \in {c} \X BOOLEAN PROVE x # NoSession
  BY DEF NoSession

LEMMA SessionOf == ASSUME NEW c, NEW d, Session(d) \in {c} \X BOOLEAN PROVE d = c
  BY DEF Session

LEMMA SessionEnded ==
    ASSUME NEW c, NEW d, Session(d) \in {c} \X BOOLEAN PROVE Ended(d) \in {c} \X BOOLEAN
<1>1. d = c
  BY SessionOf
<1>2. QED
  BY <1>1 DEF Ended

\* Whoever may write to a file that has chunks is its owner.
LEMMA WriterOwns ==
    ASSUME TypeOK, Files, NEW c \in Clients, NEW o \in Objects, MayUpload(c, o), streamPos[o] # 0
    PROVE  owner[o] = c /\ mUploader[o] = Session(c)
<1>1. mUploader[o] \in {owner[o]} \X BOOLEAN
  BY DEF Files
<1>2. mUploader[o] # NoSession
  BY <1>1, SomeSession
<1>3. mUploader[o] = Session(c)
  BY <1>2 DEF MayUpload
<1>4. QED
  BY <1>1, <1>3, SessionOf

\* A chunk that is written is the next one of the object's owner, and the object
\* the one that client has been given.
LEMMA ChunkFits ==
    ASSUME TypeOK, TokenParts, Seeking, FileInv, NEW c \in Clients, NEW o, Writes(c, o)
    PROVE  /\ o \in Objects /\ o = mine[c] /\ owner[o] = c /\ o <= nobjects
           /\ streamPos[o] \in Nat /\ pos[c] = streamPos[o] + 1 /\ pos[c] <= Chunks
<1>1. o \in Objects /\ o <= nobjects /\ nobjects \in Nat
  BY DEF Writes, TokenParts, Holding, Young, TypeOK, ThreadTypes, ObjectTypes, Objects
<1>2. streamPos[o] \in Nat /\ pos[c] \in Nat
  BY <1>1 DEF TypeOK, UploadTypes
<1>3. pos[c] = streamPos[o] + 1 /\ pos[c] <= Chunks
  BY <1>2 DEF Writes, AtOffset
<1>4. CASE pos[c] = 1
  <2>1. o = mine[c]
    BY <1>4 DEF Writes, FileInv, Finds
  <2>2. QED
    BY <1>1, <1>2, <1>3, <2>1, NotZero DEF TokenParts, Mine
<1>5. CASE pos[c] # 1
  <2>1. streamPos[o] # 0
    BY <1>3, <1>5
  <2>2. owner[o] = c
    BY <1>1, <2>1, WriterOwns DEF Writes, FileInv
  <2>3. o = mine[c]
    BY <2>2 DEF Writes, FileInv, Finds
  <2>4. QED
    BY <1>1, <1>2, <1>3, <2>2, <2>3
<1>6. QED
  BY <1>4, <1>5

LEMMA FilesNext ==
    TypeOK /\ TokenParts /\ Seeking /\ FileInv /\ [FtNext]_ftVars => Files'
<1> SUFFICES ASSUME TypeOK, TokenParts, Seeking, FileInv, [FtNext]_ftVars PROVE Files'
  OBVIOUS
<1> USE DEF FileInv
<1>1. CASE UNCHANGED <<streamPos, mUploader, mCompleted, unnoticed, nobjects, owner>>
  BY <1>1 DEF Files
<1>2. ASSUME NEW c \in Clients, NEW k, NewObject(c, k),
             UNCHANGED <<streamPos, mUploader, mCompleted, unnoticed>>
      PROVE  Files'
  <2>1. nobjects \in Nat /\ nobjects' = nobjects + 1 /\ owner' = [owner EXCEPT ![nobjects + 1] = c]
    BY <1>2 DEF NewObject, TypeOK, ObjectTypes
  <2>2. \A o \in Objects : o \in Nat
    BY DEF Objects
  <2>3. \A o \in Objects : o <= nobjects => o # nobjects + 1 /\ o <= nobjects' /\ owner'[o] = owner[o]
    BY <2>1, <2>2 DEF TypeOK, ObjectTypes
  <2>4. QED
    BY <1>2, <2>3 DEF Files
\* A refused or failing chunk takes the upload only if nobody has begun it.
<1>3. ASSUME NEW c \in Clients, pc[c] = "chunk", MayUpload(c, ref[c]),
             mUploader' = [mUploader EXCEPT ![ref[c]] = Session(c)],
             UNCHANGED <<streamPos, mCompleted, unnoticed, nobjects, owner>>
      PROVE  Files'
  <2>1. ref[c] \in Objects
    BY <1>3 DEF TokenParts, Holding, TypeOK, ThreadTypes
  <2>2. \A o \in Objects : streamPos[o] # 0 => mUploader'[o] = mUploader[o]
    BY <1>3, <2>1, WriterOwns DEF TypeOK, UploadTypes
  <2>3. QED
    BY <1>3, <2>2 DEF Files
\* A chunk that the stream accepts completes the upload when it is the last one
\* and the code sees it; only the last one does.
<1>4. ASSUME NEW c \in Clients, NEW o, Writes(c, o), Accept(c, o),
             mCompleted' \in {mCompleted, mCompleted \cup {o}},
             mCompleted' # mCompleted => streamPos'[o] = Chunks,
             unnoticed' \in {unnoticed, unnoticed \cup {o}},
             streamPos'[o] = Chunks => o \in mCompleted' \cup unnoticed'
      PROVE  Files'
  <2>1. /\ o \in Objects /\ owner[o] = c /\ o <= nobjects
        /\ streamPos[o] \in Nat /\ pos[c] = streamPos[o] + 1 /\ pos[c] <= Chunks
    BY <1>4, ChunkFits
  <2>2. /\ \A x \in Objects : streamPos'[x] = IF x = o THEN streamPos[o] + 1 ELSE streamPos[x]
        /\ \A x \in Objects : mUploader'[x] = IF x = o THEN Session(c) ELSE mUploader[x]
        /\ UNCHANGED <<nobjects, owner>>
    BY <1>4 DEF Accept, Answer, TypeOK, UploadTypes
  <2>3. o \notin mCompleted /\ Session(c) \in {c} \X BOOLEAN
    BY <1>4 DEF Writes, AtOffset, Session
  <2>4. ASSUME NEW x \in Objects, x # o
        PROVE  /\ streamPos'[x] <= Chunks
               /\ x \in mCompleted' => streamPos'[x] = Chunks
               /\ streamPos'[x] = Chunks => x \in mCompleted' \cup unnoticed'
               /\ streamPos'[x] # 0 => x <= nobjects' /\ mUploader'[x] \in {owner'[x]} \X BOOLEAN
    BY <1>4, <2>2, <2>4 DEF Files
  <2>5. /\ streamPos'[o] <= Chunks
        /\ o \in mCompleted' => streamPos'[o] = Chunks
        /\ o <= nobjects' /\ mUploader'[o] \in {owner'[o]} \X BOOLEAN
    BY <1>4, <2>1, <2>2, <2>3
  <2>6. QED
    BY <1>4, <2>4, <2>5 DEF Files
<1>5. ASSUME NEW c \in Clients, UploadThread(c) PROVE Files'
  <2>1. CASE OpenFails(c) \/ AddUpload(c) \/ FindTokenMappedUpload(c) \/ NoUpload(c)
             \/ ConcurrentUpload(c)
    BY <1>1, <2>1 DEF OpenFails, AddUpload, AddObject, objectVars, FindTokenMappedUpload, NoUpload,
                      ConcurrentUpload, Answer, uploadVars, fileVars
  <2>2. CASE Refuse(c) \/ WriteFails(c)
    BY <1>3, <2>2 DEF Refuse, WriteFails, Writes, Answer, fileVars
  <2>3. CASE OpenUpload(c)
    BY <1>2, <2>3 DEF OpenUpload
  <2>4. CASE WriteChunk(c)
    BY <1>4, <2>4 DEF WriteChunk, ToFile
  <2>5. CASE FlushFails(c)
    BY <1>4, <2>5 DEF FlushFails
  <2>6. QED
    BY <1>5, <2>1, <2>2, <2>3, <2>4, <2>5 DEF UploadThread
<1>6. ASSUME NEW c \in Clients, Objs(c) PROVE Files'
  <2>1. UNCHANGED <<streamPos, mUploader, mCompleted, unnoticed>>
    BY <1>6 DEF Objs, uploadVars, fileVars
  <2>2. CASE CreateObject(c)
    BY <1>2, <2>1, <2>2 DEF CreateObject
  <2>3. CASE Invoke(c) \/ DeleteObject(c) \/ OfThread(c)
    BY <1>1, <2>1, <2>3 DEF Invoke, DeleteObject, OfThread, CreatedObject, AddObject, objectVars, Invoked
  <2>4. QED
    BY <1>6, <2>2, <2>3 DEF Objs
<1>7. ASSUME NEW c \in Clients, PrepareUpload(c) \/ UploadChunk(c) PROVE Files'
  BY <1>1, <1>7 DEF PrepareUpload, UploadChunk, objectVars, uploadVars, fileVars
<1>8. ASSUME NEW c \in Clients, NewSession(c) PROVE Files'
  <2>1. UNCHANGED <<streamPos, mCompleted, unnoticed, nobjects, owner>>
    BY <1>8 DEF NewSession, EndSession, objectVars, fileVars
  <2>2. ASSUME NEW o \in Objects, mUploader[o] \in {owner[o]} \X BOOLEAN
        PROVE  mUploader'[o] \in {owner[o]} \X BOOLEAN
    <3>1. mUploader'[o] = IF mUploader[o] = Session(c) THEN Ended(c) ELSE mUploader[o]
      BY <1>8 DEF NewSession
    <3>2. CASE mUploader[o] = Session(c)
      BY <2>2, <3>1, <3>2, SessionEnded
    <3>3. CASE mUploader[o] # Session(c)
      BY <2>2, <3>1, <3>3
    <3>4. QED
      BY <3>2, <3>3
  <2>3. QED
    BY <2>1, <2>2 DEF Files
<1>9. CASE (Sweep \/ \E o \in Objects : Passes(o)) /\ UNCHANGED <<uploadVars, uploaderVars>>
  BY <1>1, <1>9 DEF Sweep, BeginSweep, SweepObject, SweepReturn, Passes, Age, objectVars, uploadVars,
                    fileVars
<1>10. CASE UNCHANGED ftVars
  BY <1>1, <1>10 DEF ftVars, ofVars, objectVars, uploadVars, fileVars
<1>11. QED
  BY <1>5, <1>6, <1>7, <1>8, <1>9, <1>10 DEF FtNext

LEMMA UploadsNext ==
    TypeOK /\ TokenParts /\ Seeking /\ FileInv /\ [FtNext]_ftVars => Uploads'
<1> SUFFICES ASSUME TypeOK, TokenParts, Seeking, FileInv, [FtNext]_ftVars PROVE Uploads'
  OBVIOUS
<1>1. /\ pc \in [Clients -> Position] /\ upload \in [Clients -> Outcome] /\ pos \in [Clients -> Nat]
      /\ mine \in [Clients -> Objects \cup {0}]
      /\ \A c \in Clients : pc[c] \in {"find", "chunk"} \/ upload[c] = "sending" => pos[c] >= 1
      /\ \A c \in Clients : pc[c] = "store" => upload[c] # "done"
      /\ \A c \in Clients : upload[c] = "done" => mine[c] \in mCompleted \cup unnoticed
  BY DEF TypeOK, ThreadTypes, UploadTypes, FileInv, Uploads
<1>2. CASE UNCHANGED <<pc, upload, pos, mine, mCompleted, unnoticed>>
  BY <1>1, <1>2 DEF Uploads
\* A step of one client.
<1>3. ASSUME NEW c \in Clients,
             \A d \in Clients \ {c} : /\ pc'[d] = pc[d] /\ upload'[d] = upload[d]
                                      /\ pos'[d] = pos[d] /\ mine'[d] = mine[d],
             mCompleted \subseteq mCompleted', unnoticed \subseteq unnoticed',
             pc'[c] \in {"find", "chunk"} \/ upload'[c] = "sending" => pos'[c] >= 1,
             pc'[c] = "store" => upload'[c] # "done",
             upload'[c] = "done" => mine'[c] \in mCompleted' \cup unnoticed'
      PROVE  Uploads'
  BY <1>1, <1>3 DEF Uploads
<1>4. ASSUME NEW c \in Clients, NEW k, NewObject(c, k),
             NEW u \in {"none", "sending"}, upload' = [upload EXCEPT ![c] = u],
             NEW n \in Nat, pos' = [pos EXCEPT ![c] = n], u = "sending" => n >= 1,
             UNCHANGED <<mCompleted, unnoticed>>
      PROVE  Uploads'
  <2>1. /\ pc' = [pc EXCEPT ![c] = "store"] /\ UNCHANGED mine
    BY <1>4 DEF NewObject, clientVars
  <2>2. /\ pc'[c] = "store" /\ upload'[c] = u /\ pos'[c] = n
        /\ \A d \in Clients \ {c} : /\ pc'[d] = pc[d] /\ upload'[d] = upload[d]
                                    /\ pos'[d] = pos[d] /\ mine'[d] = mine[d]
    BY <1>1, <1>4, <2>1
  <2>3. QED
    BY <1>3, <1>4, <2>1, <2>2
<1>5. ASSUME NEW c \in Clients, CreatedObject(c) \/ AddUpload(c),
             UNCHANGED <<mCompleted, unnoticed, upload, pos>>
      PROVE  Uploads'
  <2>1. /\ pc[c] = "store" /\ mine' = [mine EXCEPT ![c] = ref[c]]
        /\ \E p \in Position : pc' = [pc EXCEPT ![c] = p]
    BY <1>5, Values DEF CreatedObject, AddUpload, AddObject
  <2>2. CASE CreatedObject(c)
    <3>1. pc' = [pc EXCEPT ![c] = "idle"]
      BY <2>2 DEF CreatedObject
    <3>2. QED
      BY <1>1, <1>3, <1>5, <2>1, <3>1
  <2>3. CASE AddUpload(c)
    <3>1. pc' = [pc EXCEPT ![c] = "find"] /\ upload[c] = "sending"
      BY <2>1, <2>3 DEF AddUpload, Seeking
    <3>2. QED
      BY <1>1, <1>3, <1>5, <2>1, <3>1
  <2>4. QED
    BY <1>5, <2>2, <2>3
<1>6. ASSUME NEW c \in Clients, NEW p \in {"idle", "serving"}, pc' = [pc EXCEPT ![c] = p],
             UNCHANGED <<mCompleted, unnoticed, upload, pos, mine>>
      PROVE  Uploads'
  BY <1>1, <1>3, <1>6
<1>7. ASSUME NEW c \in Clients, Objs(c) PROVE Uploads'
  <2>1. UNCHANGED <<mCompleted, unnoticed, pos>>
    BY <1>7 DEF Objs, uploadVars, fileVars
  <2>2. CASE CreateObject(c) /\ upload' = [upload EXCEPT ![c] = "none"]
    <3>1. pos' = [pos EXCEPT ![c] = pos[c]] /\ pos[c] \in Nat
      BY <1>1, <2>1
    <3>2. QED
      BY <1>4, <2>1, <2>2, <3>1 DEF CreateObject
  <2>3. CASE (Invoke(c) \/ Invoked(c)) /\ UNCHANGED upload
    BY <1>6, <2>1, <2>3 DEF Invoke, Invoked, clientVars
  <2>4. CASE DeleteObject(c) /\ UNCHANGED upload
    BY <1>2, <2>1, <2>4 DEF DeleteObject, clientVars
  <2>5. CASE CreatedObject(c) /\ UNCHANGED upload
    BY <1>5, <2>1, <2>5
  <2>6. QED
    BY <1>7, <2>2, <2>3, <2>4, <2>5 DEF Objs, OfThread
<1>8. ASSUME NEW c \in Clients, PrepareUpload(c) PROVE Uploads'
  <2>1. /\ pos' = [pos EXCEPT ![c] = 1] /\ pc' = [pc EXCEPT ![c] = "open"]
        /\ upload' = [upload EXCEPT ![c] = "sending"] /\ UNCHANGED <<mine, mCompleted, unnoticed>>
    BY <1>8 DEF PrepareUpload, clientVars
  <2>2. pos'[c] >= 1 /\ pc'[c] = "open" /\ upload'[c] = "sending"
    BY <1>1, <2>1
  <2>3. QED
    BY <1>1, <1>3, <2>1, <2>2
<1>9. ASSUME NEW c \in Clients, UploadChunk(c) PROVE Uploads'
  <2>1. /\ pos' = [pos EXCEPT ![c] = pos[c] + 1] /\ pc' = [pc EXCEPT ![c] = "find"]
        /\ upload[c] = "sending" /\ UNCHANGED <<upload, mine, mCompleted, unnoticed>>
    BY <1>9 DEF UploadChunk, clientVars, uploadVars, fileVars
  <2>2. pos'[c] >= 1 /\ pc'[c] = "find" /\ upload'[c] = "sending"
    BY <1>1, <2>1
  <2>3. QED
    BY <1>1, <1>3, <2>1, <2>2
<1>10. ASSUME NEW c \in Clients, UploadThread(c) PROVE Uploads'
  <2>1. CASE AddUpload(c)
    <3>1. UNCHANGED <<mCompleted, unnoticed, upload, pos>>
      BY <2>1 DEF AddUpload, uploadVars, fileVars, uploaderVars
    <3>2. QED
      BY <1>5, <2>1, <3>1
  <2>2. CASE FindTokenMappedUpload(c)
    <3>1. /\ pc[c] = "find" /\ pc' = [pc EXCEPT ![c] = "chunk"]
          /\ UNCHANGED <<upload, pos, mine, mCompleted, unnoticed>>
      BY <2>2 DEF FindTokenMappedUpload, clientVars, uploadVars, fileVars, uploaderVars
    <3>2. QED
      BY <1>1, <1>3, <3>1
  <2>3. CASE OpenUpload(c)
    <3>1. /\ pc[c] = "open" /\ NewObject(c, "upload")
          /\ UNCHANGED <<upload, pos, mCompleted, unnoticed>>
      BY <2>3 DEF OpenUpload, uploaderVars
    <3>2. upload[c] = "sending" /\ pos[c] \in Nat /\ pos[c] >= 1
      BY <1>1, <3>1 DEF Seeking
    <3>3. upload' = [upload EXCEPT ![c] = "sending"] /\ pos' = [pos EXCEPT ![c] = pos[c]]
      BY <1>1, <3>1, <3>2
    <3>4. QED
      BY <1>4, <3>1, <3>2, <3>3
  <2>4. ASSUME NEW ok \in BOOLEAN, Answer(c, ok), pc[c] \in {"open", "find", "chunk"},
               mCompleted \subseteq mCompleted', unnoticed \subseteq unnoticed',
               ok /\ pos[c] = Chunks => mine[c] \in mCompleted' \cup unnoticed'
        PROVE  Uploads'
    <3>1. /\ pc' = [pc EXCEPT ![c] = "idle"] /\ UNCHANGED mine
          /\ upload' = [upload EXCEPT ![c] = IF ~ok THEN "none"
                                             ELSE IF pos[c] = Chunks THEN "done" ELSE "sending"]
          /\ pos' = [pos EXCEPT ![c] = IF upload'[c] = "sending" THEN @ ELSE 0]
      BY <2>4 DEF Answer, clientVars
    <3>2. pos[c] >= 1
      BY <1>1, <2>4 DEF Seeking
    <3>3. /\ pc'[c] = "idle" /\ (upload'[c] = "sending" => pos'[c] >= 1)
          /\ upload'[c] = "done" => ok /\ pos[c] = Chunks
      BY <1>1, <3>1, <3>2
    <3>4. \A d \in Clients \ {c} : /\ pc'[d] = pc[d] /\ upload'[d] = upload[d]
                                   /\ pos'[d] = pos[d] /\ mine'[d] = mine[d]
      BY <1>1, <3>1
    <3>5. QED
      BY <1>3, <2>4, <3>1, <3>3, <3>4
  <2>5. CASE OpenFails(c) \/ NoUpload(c) \/ ConcurrentUpload(c) \/ Refuse(c) \/ WriteFails(c)
    <3>1. /\ Answer(c, FALSE) /\ pc[c] \in {"open", "find", "chunk"}
          /\ UNCHANGED <<mCompleted, unnoticed>>
      BY <2>5 DEF OpenFails, NoUpload, ConcurrentUpload, Refuse, WriteFails, Writes, uploadVars, fileVars
    <3>2. QED
      BY <2>4, <3>1
  <2>6. CASE WriteChunk(c) \/ FlushFails(c)
    <3> DEFINE o == ref[c]
    <3>1. Writes(c, o) /\ Accept(c, o)
      BY <2>6 DEF WriteChunk, FlushFails, ToFile
    <3>2. o \in Objects /\ o = mine[c] /\ pos[c] = streamPos[o] + 1
      BY <3>1, ChunkFits
    <3>3. /\ Answer(c, TRUE) /\ pc[c] = "chunk" /\ streamPos'[o] = pos[c]
      BY <3>1, <3>2 DEF Accept, Writes, TypeOK, UploadTypes
    <3>4. /\ mCompleted \subseteq mCompleted' /\ unnoticed \subseteq unnoticed'
          /\ pos[c] = Chunks => o \in mCompleted' \cup unnoticed'
      BY <2>6, <3>3 DEF WriteChunk, FlushFails, ToFile
    <3>5. QED
      BY <2>4, <3>2, <3>3, <3>4
  <2>7. QED
    BY <1>10, <2>1, <2>2, <2>3, <2>5, <2>6 DEF UploadThread
<1>11. ASSUME NEW c \in Clients, NewSession(c) PROVE Uploads'
  BY <1>2, <1>11 DEF NewSession, EndSession, clientVars, fileVars, uploaderVars
<1>12. CASE (Sweep \/ \E o \in Objects : Passes(o)) /\ UNCHANGED <<uploadVars, uploaderVars>>
  BY <1>2, <1>12 DEF Sweep, BeginSweep, SweepObject, SweepReturn, Passes, Age, threadVars, clientVars,
                     uploadVars, fileVars, uploaderVars
<1>13. CASE UNCHANGED ftVars
  BY <1>2, <1>13 DEF ftVars, ofVars, threadVars, clientVars, uploadVars, fileVars, uploaderVars
<1>14. QED
  BY <1>7, <1>8, <1>9, <1>10, <1>11, <1>12, <1>13 DEF FtNext

LEMMA FindsNext ==
    TypeOK /\ TokenParts /\ Seeking /\ FileInv /\ ~StaleDeletes /\ [FtNext]_ftVars => Finds'
<1> SUFFICES ASSUME TypeOK, TokenParts, Seeking, FileInv, ~StaleDeletes, [FtNext]_ftVars
             PROVE  Finds'
  OBVIOUS
<1>1. /\ pc \in [Clients -> Position] /\ pos \in [Clients -> Nat]
      /\ token \in [Clients -> Tokens \cup {0}] /\ newToken \in [Clients -> Tokens \cup {0}]
      /\ ref \in [Clients -> Objects \cup {0}] /\ mine \in [Clients -> Objects \cup {0}]
      /\ mStubMap \in [Tokens -> Objects \cup {0}]
      /\ owner \in [Objects -> Clients] /\ old \in [Objects -> BOOLEAN]
      /\ 0 \notin Tokens /\ 0 \notin Objects
  BY ConstantFacts DEF TypeOK, TokenTypes, ObjectTypes, ThreadTypes, UploadTypes
<1>2. \A c \in Clients :
        /\ token[c] # 0 /\ mStubMap[token[c]] # 0 /\ owner[mStubMap[token[c]]] = c =>
             mStubMap[token[c]] = mine[c]
        /\ pc[c] = "find" /\ pos[c] = 1 => mStubMap[token[c]] = mine[c] /\ ~old[mine[c]]
        /\ pc[c] = "chunk" /\ (pos[c] = 1 \/ owner[ref[c]] = c) => ref[c] = mine[c]
  BY DEF FileInv, Finds
<1>3. \A c \in Clients :
        /\ pc[c] = "find" => token[c] # 0 /\ token[c] \in Tokens
                             /\ mine[c] # 0 /\ mine[c] \in Objects /\ owner[mine[c]] = c
        /\ pc[c] = "chunk" => ref[c] # 0 /\ ref[c] \in Objects
  BY <1>1 DEF TokenParts, Seeking, Holding, Mine
<1>4. CASE UNCHANGED <<mStubMap, owner, token, mine, pos, old, pc, ref>>
  BY <1>2, <1>4 DEF Finds
\* A client's next step, and perhaps another use of an object.
<1>5. ASSUME NEW c \in Clients, UNCHANGED <<mStubMap, owner, token, mine>>,
             \E n : pos' = [pos EXCEPT ![c] = n],
             \A o \in Objects : old'[o] => old[o],
             NEW p \in {"idle", "open", "serving"}, pc' = [pc EXCEPT ![c] = p],
             \E r : ref' = [ref EXCEPT ![c] = r]
      PROVE  Finds'
  <2>1. p # "find" /\ p # "chunk" /\ pc'[c] = p
    BY <1>1, <1>5
  <2>2. \A d \in Clients \ {c} : pc'[d] = pc[d] /\ ref'[d] = ref[d] /\ pos'[d] = pos[d]
    BY <1>1, <1>5
  <2>3. QED
    BY <1>2, <1>3, <1>5, <2>1, <2>2 DEF Finds
<1>6. ASSUME NEW c \in Clients, NEW k, NewObject(c, k),
             \A d \in Clients \ {c} : pos'[d] = pos[d]
      PROVE  Finds'
  <2> DEFINE n == nobjects + 1
  <2>1. /\ nobjects < MaxObjects /\ owner' = [owner EXCEPT ![n] = c]
        /\ ref' = [ref EXCEPT ![c] = n] /\ pc' = [pc EXCEPT ![c] = "store"]
        /\ UNCHANGED <<mStubMap, token, mine, old>>
    BY <1>6 DEF NewObject, clientVars
  <2>2. n \in Objects /\ n > nobjects
    BY <2>1, ConstantFacts DEF TypeOK, ObjectTypes
  <2>3. /\ \A t \in Tokens : mStubMap[t] # n
        /\ \A d \in Clients : ref[d] # n /\ mine[d] # n
    BY <2>2 DEF TokenParts, Young
  <2>4. \A x \in Objects : x # n => owner'[x] = owner[x]
    BY <1>1, <2>1
  <2>5. /\ pc'[c] # "find" /\ pc'[c] # "chunk"
        /\ \A d \in Clients \ {c} : pc'[d] = pc[d] /\ ref'[d] = ref[d]
    BY <1>1, <2>1
  <2>6. \A d \in Clients : token[d] # 0 /\ mStubMap[token[d]] # 0 =>
          owner'[mStubMap[token[d]]] = owner[mStubMap[token[d]]]
    BY <1>1, <2>3, <2>4
  <2>7. \A d \in Clients : ref[d] # 0 => owner'[ref[d]] = owner[ref[d]]
    BY <1>1, <2>3, <2>4
  <2>8. QED
    BY <1>2, <1>3, <1>6, <2>1, <2>5, <2>6, <2>7 DEF Finds
<1>7. ASSUME NEW c \in Clients, CreatedObject(c) \/ AddUpload(c), UNCHANGED pos PROVE Finds'
  <2> DEFINE t == newToken[c]
             o == ref[c]
  <2>1. /\ pc[c] = "store" /\ mStubMap' = [mStubMap EXCEPT ![t] = o]
        /\ token' = [token EXCEPT ![c] = t] /\ mine' = [mine EXCEPT ![c] = o]
        /\ ref' = [ref EXCEPT ![c] = 0] /\ UNCHANGED <<owner, old>>
        /\ pc' \in {[pc EXCEPT ![c] = "idle"], [pc EXCEPT ![c] = "find"]}
    BY <1>7 DEF CreatedObject, AddUpload, AddObject, objectVars
  <2>2. t \in Tokens /\ o \in Objects /\ t # 0 /\ o # 0 /\ mStubMap[t] = 0 /\ owner[o] = c /\ ~old[o]
    BY <1>1, <2>1 DEF TokenParts, Holding, Single, Fresh
  <2>3. \A u \in Tokens : mStubMap'[u] = IF u = t THEN o ELSE mStubMap[u]
    BY <1>1, <2>1
  <2>4. token'[c] = t /\ mine'[c] = o /\ pc'[c] # "chunk"
    BY <1>1, <2>1
  <2>5. \A d \in Clients \ {c} : /\ token'[d] = token[d] /\ mine'[d] = mine[d]
                                 /\ ref'[d] = ref[d] /\ pc'[d] = pc[d]
    BY <1>1, <2>1
  <2>6. ASSUME NEW d \in Clients \ {c}, token[d] # 0, mStubMap'[token[d]] # 0,
               owner[mStubMap'[token[d]]] = d
        PROVE  mStubMap'[token[d]] = mine[d]
    BY <1>1, <1>2, <2>2, <2>3, <2>6
  <2>7. ASSUME NEW d \in Clients \ {c}, pc[d] = "find", pos[d] = 1
        PROVE  mStubMap'[token[d]] = mine[d]
    BY <1>1, <1>2, <1>3, <2>2, <2>3, <2>7
  <2>8. QED
    BY <1>2, <1>7, <2>1, <2>2, <2>3, <2>4, <2>5, <2>6, <2>7 DEF Finds
\* The map loses an object, or several.
<1>8. ASSUME NEW t \in Tokens, mStubMap' = [mStubMap EXCEPT ![t] = 0],
             UNCHANGED <<owner, token, mine, pos, old, pc, ref>>,
             \A d \in Clients : pc[d] = "find" /\ pos[d] = 1 => token[d] # t
      PROVE  Finds'
  <2>1. \A u \in Tokens : mStubMap'[u] = IF u = t THEN 0 ELSE mStubMap[u]
    BY <1>1, <1>8
  <2>2. \A d \in Clients : token[d] # 0 => token[d] \in Tokens
    BY <1>1
  <2>3. QED
    BY <1>2, <1>3, <1>8, <2>1, <2>2 DEF Finds
<1>9. ASSUME NEW c \in Clients, DeleteObject(c), UNCHANGED pos PROVE Finds'
  <2>1. /\ pc[c] = "idle" /\ token[c] # 0 /\ mine[c] \notin deleted /\ ~old[mine[c]]
        /\ mStubMap' = [mStubMap EXCEPT ![token[c]] = 0]
        /\ UNCHANGED <<owner, token, mine, old, pc, ref>>
    BY <1>9 DEF DeleteObject, Ready, clientVars
  <2>2. mine[c] # 0 /\ owner[mine[c]] = c
    BY <2>1 DEF TokenParts, Mine
  <2>3. mStubMap[token[c]] = mine[c]
    BY <2>1, <2>2 DEF TokenParts, Kept
  <2>4. \A d \in Clients : pc[d] = "find" /\ pos[d] = 1 => token[d] # token[c]
    BY <1>2, <1>3, <2>1, <2>2, <2>3
  <2>5. token[c] \in Tokens
    BY <1>1, <2>1
  <2>6. QED
    BY <1>8, <1>9, <2>1, <2>4, <2>5
<1>10. CASE SweepObject /\ UNCHANGED <<uploadVars, uploaderVars>>
  <2>1. UNCHANGED <<owner, token, mine, pos, old, pc, ref>>
    BY <1>10 DEF SweepObject, objectVars, threadVars, clientVars, uploaderVars
  <2>2. CASE UNCHANGED mStubMap
    BY <1>4, <2>1, <2>2
  <2>3. CASE mStubMap' # mStubMap
    <3>1. /\ sweep \in Tokens /\ old[mStubMap[sweep]]
          /\ mStubMap' = [mStubMap EXCEPT ![sweep] = 0]
      BY <1>10, <2>3, ConstantFacts DEF SweepObject, TypeOK, TokenTypes
    <3>2. \A d \in Clients : pc[d] = "find" /\ pos[d] = 1 => token[d] # sweep
      BY <1>2, <3>1
    <3>3. QED
      BY <1>8, <2>1, <3>1, <3>2
  <2>4. QED
    BY <2>2, <2>3
<1>11. ASSUME NEW c \in Clients, FindTokenMappedUpload(c) PROVE Finds'
  <2> DEFINE o == mStubMap[token[c]]
  <2>1. /\ pc[c] = "find" /\ o # 0 /\ old' = [old EXCEPT ![o] = FALSE]
        /\ ref' = [ref EXCEPT ![c] = o] /\ pc' = [pc EXCEPT ![c] = "chunk"]
        /\ UNCHANGED <<mStubMap, owner, token, mine, pos>>
    BY <1>11 DEF FindTokenMappedUpload, Touch, tokenVars, clientVars, uploaderVars
  <2>2. \A x \in Objects : old'[x] => old[x]
    BY <1>1, <2>1
  <2>3. /\ pc'[c] = "chunk" /\ ref'[c] = o
        /\ \A d \in Clients \ {c} : pc'[d] = pc[d] /\ ref'[d] = ref[d]
    BY <1>1, <2>1
  <2>4. pos[c] = 1 \/ owner[o] = c => o = mine[c]
    BY <1>2, <1>3, <2>1
  <2>5. QED
    BY <1>2, <1>3, <2>1, <2>2, <2>3, <2>4 DEF Finds
<1>12. ASSUME NEW c \in Clients, UploadChunk(c) PROVE Finds'
  <2>1. /\ pc[c] = "idle" /\ upload[c] = "sending" /\ pos' = [pos EXCEPT ![c] = pos[c] + 1]
        /\ pc' = [pc EXCEPT ![c] = "find"] /\ UNCHANGED <<mStubMap, owner, token, mine, old, ref>>
    BY <1>12 DEF UploadChunk, Ready, tokenVars, objectVars, clientVars
  <2>2. pos[c] >= 1 /\ pos[c] \in Nat
    BY <1>1, <2>1 DEF FileInv, Uploads
  <2>3. pos'[c] # 1 /\ pc'[c] # "chunk"
    BY <1>1, <2>1, <2>2
  <2>4. \A d \in Clients \ {c} : pc'[d] = pc[d] /\ pos'[d] = pos[d]
    BY <1>1, <2>1
  <2>5. QED
    BY <1>2, <2>1, <2>3, <2>4 DEF Finds
<1>13. ASSUME NEW c \in Clients, Objs(c) PROVE Finds'
  <2>1. UNCHANGED pos
    BY <1>13 DEF Objs
  <2>2. CASE CreateObject(c)
    BY <1>6, <2>1, <2>2 DEF CreateObject
  <2>3. CASE Invoke(c) \/ Invoked(c)
    <3>1. /\ UNCHANGED <<mStubMap, owner, token, mine>>
          /\ \E p \in {"idle", "serving"} : pc' = [pc EXCEPT ![c] = p]
          /\ \E r : ref' = [ref EXCEPT ![c] = r]
      BY <2>3 DEF Invoke, Invoked, tokenVars, clientVars
    <3>2. \E o : old' = [old EXCEPT ![o] = FALSE]
      BY <2>3 DEF Invoke, Invoked, Touch
    <3>3. \A x \in Objects : old'[x] => old[x]
      BY <1>1, <3>2
    <3>4. \E n : pos' = [pos EXCEPT ![c] = n]
      BY <1>1, <2>1
    <3>5. QED
      BY <1>5, <3>1, <3>3, <3>4
  <2>4. CASE DeleteObject(c)
    BY <1>9, <2>1, <2>4
  <2>5. CASE CreatedObject(c)
    BY <1>7, <2>1, <2>5
  <2>6. QED
    BY <1>13, <2>2, <2>3, <2>4, <2>5 DEF Objs, OfThread
<1>14. ASSUME NEW c \in Clients, PrepareUpload(c) PROVE Finds'
  <2>1. /\ pos' = [pos EXCEPT ![c] = 1] /\ pc' = [pc EXCEPT ![c] = "open"]
        /\ UNCHANGED <<mStubMap, owner, token, mine, old, ref>>
    BY <1>14 DEF PrepareUpload, tokenVars, objectVars, clientVars
  <2>2. ref' = [ref EXCEPT ![c] = ref[c]]
    BY <1>1, <2>1
  <2>3. QED
    BY <1>5, <2>1, <2>2
<1>15. ASSUME NEW c \in Clients, UploadThread(c) PROVE Finds'
  <2>1. CASE AddUpload(c)
    BY <1>7, <2>1 DEF AddUpload, uploaderVars
  <2>2. CASE Answering(c)
    <3>1. PICK ok \in BOOLEAN : Answer(c, ok)
      BY <2>2, Answered
    <3>2. UNCHANGED <<mStubMap, owner, token, mine, old>>
      BY <2>2, <3>1, Answered DEF Answer, tokenVars, clientVars
    <3>3. QED
      BY <1>5, <3>1, <3>2 DEF Answer
  <2>3. CASE OpenUpload(c)
    BY <1>6, <2>3 DEF OpenUpload, uploaderVars
  <2>4. QED
    BY <1>11, <1>15, <2>1, <2>2, <2>3 DEF UploadThread, Answering
<1>16. ASSUME NEW c \in Clients, NewSession(c) PROVE Finds'
  BY <1>4, <1>16 DEF NewSession, EndSession, tokenVars, objectVars, clientVars, uploaderVars
<1>17. CASE (BeginSweep \/ SweepReturn) /\ UNCHANGED <<uploadVars, uploaderVars>>
  BY <1>4, <1>17 DEF BeginSweep, SweepReturn, tokenVars, objectVars, threadVars, clientVars, uploaderVars
<1>18. ASSUME NEW o \in Objects, Passes(o), UNCHANGED <<uploadVars, uploaderVars>> PROVE Finds'
  <2>1. /\ old' = [old EXCEPT ![o] = TRUE] /\ \A d \in Clients : pc[d] = "find" => mine[d] # o
        /\ UNCHANGED <<mStubMap, owner, token, mine, pos, pc, ref>>
    BY <1>18 DEF Passes, Age, tokenVars, threadVars, clientVars, uploaderVars
  <2>2. \A x \in Objects : x # o => old'[x] = old[x]
    BY <1>1, <2>1
  <2>3. QED
    BY <1>2, <1>3, <2>1, <2>2 DEF Finds
<1>19. CASE UNCHANGED ftVars
  BY <1>4, <1>19 DEF ftVars, ofVars, tokenVars, objectVars, threadVars, clientVars, uploaderVars
<1>20. QED
  BY <1>10, <1>12, <1>13, <1>14, <1>15, <1>16, <1>17, <1>18, <1>19 DEF FtNext, Sweep

-----------------------------------------------------------------------------
(***************************************************************************)
(* Theorems                                                                *)
(***************************************************************************)

LEMMA InvInit == FtInit => TokenParts /\ Seeking /\ FileInv
<1> SUFFICES ASSUME FtInit PROVE TokenParts /\ Seeking /\ FileInv
  OBVIOUS
<1> USE ConstantFacts DEF FtInit, OfInit
<1>1. /\ pc = [c \in Clients |-> "idle"] /\ newToken = [c \in Clients |-> 0]
      /\ ref = [c \in Clients |-> 0] /\ cached = [c \in Clients |-> 0]
      /\ token = [c \in Clients |-> 0] /\ mine = [c \in Clients |-> 0]
      /\ upload = [c \in Clients |-> "none"]
      /\ mStubMap = [t \in Tokens |-> 0] /\ old = [o \in Objects |-> FALSE]
      /\ mAvailableTokens = [i \in 1 .. NumTokens |-> NumTokens + 1 - i] /\ taken = 0
  OBVIOUS
<1>2. Single
  <2>1. \A i \in 1 .. NumTokens : mAvailableTokens[i] \in Tokens
    BY <1>1 DEF Tokens
  <2>2. \A i, j \in 1 .. NumTokens : mAvailableTokens[i] = mAvailableTokens[j] => i = j
    BY <1>1
  <2>3. QED
    BY <1>1, <2>1, <2>2 DEF Single
<1>3. Holding /\ Fresh /\ Mine /\ Placed /\ Kept /\ Young
  BY <1>1 DEF Holding, Fresh, Mine, Placed, Kept, Young
<1>4. Seeking
  BY <1>1 DEF Seeking
<1>5. Files
  BY DEF Files
<1>6. Finds /\ Uploads
  BY <1>1 DEF Finds, Uploads
<1>7. QED
  BY <1>2, <1>3, <1>4, <1>5, <1>6 DEF TokenParts, FileInv

\* The invariant, in the form in which it is inductive.
Inductive == TypeOK /\ TokenParts /\ Seeking /\ FileInv

LEMMA InductiveNext == ~StaleDeletes /\ Inductive /\ [FtNext]_ftVars => Inductive'
<1> SUFFICES ASSUME ~StaleDeletes, Inductive, [FtNext]_ftVars PROVE Inductive'
  OBVIOUS
<1>1. TypeOK'
  BY TypeNext DEF Inductive, TokenParts
<1>2. TokenParts'
  BY TokenPartsNext DEF Inductive
<1>3. Seeking'
  BY SeekingNext DEF Inductive, TokenParts
<1>4. FileInv'
  BY FilesNext, FindsNext, UploadsNext DEF Inductive, FileInv
<1>5. QED
  BY <1>1, <1>2, <1>3, <1>4 DEF Inductive

\* If clients delete only objects that have not timed out, the invariant of
\* FileTransferInv holds: the state of the service, the objects, the uploads and
\* the clients has its types, tokens and objects are where they should be, and
\* files have the chunks of their owners.
THEOREM Invariance == ~StaleDeletes => (FtSpec => []IInv)
<1> SUFFICES ASSUME ~StaleDeletes PROVE FtSpec => []IInv
  OBVIOUS
<1>1. FtInit => Inductive
  BY TypeInit, InvInit DEF Inductive
<1>2. Inductive /\ [FtNext]_ftVars => Inductive'
  BY InductiveNext
<1>3. Inductive => IInv
  BY SingleIsOneHolder DEF Inductive, TokenParts, IInv, TokenInv
<1>4. QED
  BY <1>1, <1>2, <1>3, PTL DEF FtSpec

\* A token is in one place at a time, whatever requests, time-outs and sweeps
\* come between: none is given to two objects, and none returned twice.
THEOREM OneHolderHolds == ~StaleDeletes => (FtSpec => []OneHolder)
<1>1. IInv => OneHolder
  BY DEF IInv, TokenInv
<1>2. QED
  BY <1>1, Invariance, PTL

\* An object that its client has not deleted, and whose time-out has not
\* passed, is where its client looks for it.
THEOREM ReachableHolds == ~StaleDeletes => (FtSpec => []Reachable)
<1>1. IInv => Reachable
  BY DEF IInv, TokenInv, Kept, Reachable
<1>2. QED
  BY <1>1, Invariance, PTL

-----------------------------------------------------------------------------
(***************************************************************************)
(* The files of uploads                                                    *)
(***************************************************************************)

LEMMA OwnFilesNext ==
    TypeOK /\ TokenParts /\ ~SameNames /\ OwnFiles /\ [FtNext]_ftVars => OwnFiles'
<1> SUFFICES ASSUME TypeOK, TokenParts, ~SameNames, OwnFiles, [FtNext]_ftVars PROVE OwnFiles'
  OBVIOUS
<1>1. /\ pc \in [Clients -> Position] /\ ref \in [Clients -> Objects \cup {0}]
      /\ kind \in [Objects -> {"none", "stub", "upload"}] /\ path \in [Objects -> Objects \cup {0}]
      /\ tested \in [Clients -> Nat] /\ nobjects \in Nat /\ 0 \notin Objects
      /\ MaxObjects \in Nat /\ Objects = 1 .. MaxObjects
  BY ConstantFacts DEF TypeOK, ThreadTypes, ObjectTypes, FileTypes
<1>2. CASE UNCHANGED <<pc, tested, ref, kind, path>>
  BY <1>2 DEF OwnFiles
\* A step of one client.
<1>3. ASSUME NEW c \in Clients, UNCHANGED <<kind, path>>,
             \A d \in Clients \ {c} : pc'[d] = pc[d] /\ tested'[d] = tested[d] /\ ref'[d] = ref[d],
             pc'[c] = "open" => tested'[c] = MaxObjects,
             pc'[c] = "chunk" => kind[ref'[c]] = "upload"
      PROVE  OwnFiles'
  BY <1>3 DEF OwnFiles
<1>4. ASSUME NEW c \in Clients, NEW k \in {"stub", "upload"}, NewObject(c, k),
             NEW t \in Nat, tested' = [tested EXCEPT ![c] = t],
             NEW f, path' = [path EXCEPT ![nobjects + 1] = f], f \in {0, nobjects + 1},
             k = "upload" => f = nobjects + 1
      PROVE  OwnFiles'
  <2> DEFINE n == nobjects + 1
  <2>1. /\ n \in Objects /\ n > nobjects /\ pc' = [pc EXCEPT ![c] = "store"]
        /\ ref' = [ref EXCEPT ![c] = n] /\ kind' = [kind EXCEPT ![n] = k]
    BY <1>1, <1>4 DEF NewObject
  <2>2. \A d \in Clients : pc[d] = "chunk" => ref[d] \in Objects /\ ref[d] # n
    BY <1>1, <2>1 DEF TokenParts, Young, Holding
  <2>3. \A d \in Clients : pc'[d] = (IF d = c THEN "store" ELSE pc[d])
    BY <1>1, <2>1
  <2>4. \A d \in Clients : d # c => ref'[d] = ref[d] /\ tested'[d] = tested[d]
    BY <1>1, <1>4, <2>1
  <2>5. /\ \A o \in Objects : kind'[o] = (IF o = n THEN k ELSE kind[o])
        /\ \A o \in Objects : path'[o] = (IF o = n THEN f ELSE path[o])
    BY <1>1, <1>4, <2>1
  <2>6. QED
    BY <1>4, <2>2, <2>3, <2>4, <2>5 DEF OwnFiles
<1>5. ASSUME NEW c \in Clients, Objs(c) PROVE OwnFiles'
  <2>1. UNCHANGED <<tested, path>>
    BY <1>5 DEF Objs, uploadVars, fileVars
  <2>2. CASE CreateObject(c)
    <3>1. /\ path' = [path EXCEPT ![nobjects + 1] = path[nobjects + 1]]
          /\ tested' = [tested EXCEPT ![c] = tested[c]] /\ tested[c] \in Nat
      BY <1>1, <2>1
    <3>2. path[nobjects + 1] \in {0, nobjects + 1}
      BY <1>1, <2>2 DEF CreateObject, NewObject, OwnFiles
    <3>3. NewObject(c, "stub")
      BY <2>2 DEF CreateObject
    <3>4. QED
      BY <1>4, <3>1, <3>2, <3>3
  <2>3. CASE Invoke(c) \/ Invoked(c) \/ CreatedObject(c)
    <3>1. /\ \E p \in {"serving", "idle"} : pc' = [pc EXCEPT ![c] = p]
          /\ \E r : ref' = [ref EXCEPT ![c] = r]
          /\ UNCHANGED kind
      BY <2>3 DEF Invoke, Invoked, CreatedObject, AddObject, objectVars
    <3>2. QED
      BY <1>1, <1>3, <2>1, <3>1
  <2>4. CASE DeleteObject(c)
    BY <1>2, <2>1, <2>4 DEF DeleteObject
  <2>5. QED
    BY <1>5, <2>2, <2>3, <2>4 DEF Objs, OfThread
<1>6. ASSUME NEW c \in Clients, PrepareUpload(c) PROVE OwnFiles'
  <2>1. /\ pc' = [pc EXCEPT ![c] = "open"] /\ tested' = [tested EXCEPT ![c] = MaxObjects]
        /\ UNCHANGED <<ref, kind, path>>
    BY <1>6 DEF PrepareUpload, objectVars
  <2>2. QED
    BY <1>1, <1>3, <2>1
<1>7. ASSUME NEW c \in Clients, UploadChunk(c) \/ NewSession(c) PROVE OwnFiles'
  <2>1. /\ \E p \in {"find", "idle"} : pc' = [pc EXCEPT ![c] = p]
        /\ UNCHANGED <<tested, ref, kind, path>>
    BY <1>1, <1>7 DEF UploadChunk, NewSession, EndSession, Ready, objectVars, uploadVars, fileVars
  <2>2. QED
    BY <1>1, <1>3, <2>1
<1>8. ASSUME NEW c \in Clients, OpenUpload(c) PROVE OwnFiles'
  <2>1. Found(c) = {}
    BY <1>1, <1>8 DEF OpenUpload, OwnFiles, Found
  <2>2. PICK f \in {nobjects + 1} : path' = [path EXCEPT ![nobjects + 1] = f]
    BY <1>8, <2>1 DEF OpenUpload
  <2>3. /\ NewObject(c, "upload") /\ tested' = [tested EXCEPT ![c] = 0] /\ 0 \in Nat
    BY <1>8 DEF OpenUpload
  <2>4. QED
    BY <1>4, <2>2, <2>3
<1>9. ASSUME NEW c \in Clients, UploadThread(c) PROVE OwnFiles'
  <2>1. CASE AddUpload(c)
    <3>1. /\ pc' = [pc EXCEPT ![c] = "find"] /\ ref' = [ref EXCEPT ![c] = 0]
          /\ UNCHANGED <<tested, kind, path>>
      BY <2>1 DEF AddUpload, AddObject, objectVars, uploadVars, fileVars
    <3>2. QED
      BY <1>1, <1>3, <3>1
  <2>2. CASE FindTokenMappedUpload(c)
    <3>1. /\ pc' = [pc EXCEPT ![c] = "chunk"] /\ \E o : ref' = [ref EXCEPT ![c] = o] /\ kind[o] = "upload"
          /\ UNCHANGED <<tested, kind, path>>
      BY <2>2 DEF FindTokenMappedUpload, uploadVars, fileVars
    <3>2. QED
      BY <1>1, <1>3, <3>1
  <2>3. CASE Answering(c)
    <3>1. /\ pc' = [pc EXCEPT ![c] = "idle"] /\ ref' = [ref EXCEPT ![c] = 0] /\ UNCHANGED <<kind, path>>
      BY <2>3, Answered DEF Answer
    <3>2. tested' = tested \/ tested' = [tested EXCEPT ![c] = 0]
      BY <2>3 DEF Answering, OpenFails, NoUpload, ConcurrentUpload, Refuse, WriteChunk, WriteFails,
                  FlushFails, ToFile, Accept, uploadVars, fileVars
    <3>3. QED
      BY <1>1, <1>3, <3>1, <3>2
  <2>4. QED
    BY <1>8, <1>9, <2>1, <2>2, <2>3 DEF UploadThread, Answering
<1>10. CASE (Sweep \/ \E o \in Objects : Passes(o)) /\ UNCHANGED <<uploadVars, uploaderVars>>
  BY <1>2, <1>10 DEF Sweep, BeginSweep, SweepObject, SweepReturn, Passes, Age, objectVars, threadVars,
                     uploadVars, fileVars
<1>11. CASE UNCHANGED ftVars
  BY <1>2, <1>11 DEF ftVars, ofVars, objectVars, threadVars, uploadVars, fileVars
<1>12. QED
  BY <1>5, <1>6, <1>7, <1>9, <1>10, <1>11 DEF FtNext

\* A chunk goes to the file of its own upload only, after all the others.
LEMMA IntactNext ==
    TypeOK /\ TokenParts /\ Seeking /\ FileInv /\ DiskInv /\ ~SameNames /\ [FtNext]_ftVars
        => \A o \in Objects \ unnoticed' : Intact(o)'
<1> SUFFICES ASSUME TypeOK, TokenParts, Seeking, FileInv, DiskInv, ~SameNames, [FtNext]_ftVars
             PROVE  \A o \in Objects \ unnoticed' : Intact(o)'
  OBVIOUS
<1> USE DEF DiskInv
<1>1. CASE UNCHANGED <<streamPos, file, unnoticed, owner>>
  BY <1>1 DEF Intact
<1>2. /\ streamPos \in [Objects -> Nat] /\ file \in [Objects -> SUBSET Chunk]
      /\ owner \in [Objects -> Clients] /\ path \in [Objects -> Objects \cup {0}]
      /\ nobjects \in Nat /\ 0 \notin Objects /\ MaxObjects \in Nat /\ Objects = 1 .. MaxObjects
      /\ unnoticed \subseteq Objects /\ tested \in [Clients -> Nat]
  BY ConstantFacts DEF TypeOK, ObjectTypes, UploadTypes, FileTypes
<1>3. ASSUME NEW c \in Clients, NEW k, NewObject(c, k), UNCHANGED <<streamPos, unnoticed>>,
             \A o \in Objects : file'[o] = file[o] \/ (o = nobjects + 1 /\ file'[o] = {})
      PROVE  \A o \in Objects \ unnoticed' : Intact(o)'
  <2>1. owner' = [owner EXCEPT ![nobjects + 1] = c]
    BY <1>3 DEF NewObject
  <2>2. ASSUME NEW o \in Objects \ unnoticed', o # nobjects + 1 PROVE Intact(o)'
    <3>1. owner'[o] = owner[o] /\ file'[o] = file[o] /\ streamPos'[o] = streamPos[o]
      BY <1>2, <1>3, <2>1, <2>2
    <3>2. Intact(o)
      BY <1>3, <2>2
    <3>3. QED
      BY <3>1, <3>2 DEF Intact
  <2>3. ASSUME NEW o \in Objects \ unnoticed', o = nobjects + 1 PROVE Intact(o)'
    <3>1. streamPos[o] = 0 /\ streamPos'[o] = 0
      BY <1>2, <1>3, <2>3 DEF FileInv, Files
    <3>2. Intact(o)
      BY <1>3, <2>3
    <3>3. file[o] = {}
      BY <3>1, <3>2 DEF Intact
    <3>4. file'[o] = {}
      BY <1>3, <3>3
    <3>5. QED
      BY <3>1, <3>4 DEF Intact
  <2>4. QED
    BY <2>2, <2>3
<1>4. ASSUME NEW c \in Clients, OpenUpload(c) PROVE \A o \in Objects \ unnoticed' : Intact(o)'
  <2>1. Found(c) = {}
    BY <1>2, <1>4 DEF OpenUpload, OwnFiles, Found
  <2>2. Truncate(nobjects + 1)
    BY <1>4, <2>1 DEF OpenUpload
  <2>3. \A o \in Objects : o \in InFile(nobjects + 1) => o = nobjects + 1
    BY <1>2 DEF InFile, Live, OwnFiles
  <2>4. \A o \in Objects : file'[o] = file[o] \/ (o = nobjects + 1 /\ file'[o] = {})
    BY <2>2, <2>3 DEF Truncate
  <2>5. QED
    BY <1>3, <1>4, <2>4 DEF OpenUpload
<1>5. ASSUME NEW c \in Clients, OpenFails(c) PROVE \A o \in Objects \ unnoticed' : Intact(o)'
  <2>1. Found(c) = {}
    BY <1>2, <1>5 DEF OpenFails, OwnFiles, Found
  <2>2. UNCHANGED <<streamPos, file, unnoticed, owner>>
    BY <1>5, <2>1 DEF OpenFails, Answer
  <2>3. QED
    BY <1>1, <2>2
<1>6. ASSUME NEW c \in Clients, NEW o, Writes(c, o), Accept(c, o)
      PROVE  /\ o \in Objects /\ owner[o] = c /\ pos[c] = streamPos[o] + 1 /\ streamPos[o] \in Nat
             /\ path[o] = o /\ o \in Live
             /\ owner' = owner
             /\ \A x \in Objects : streamPos'[x] = (IF x = o THEN streamPos[o] + 1 ELSE streamPos[x])
  <2>1. o \in Objects /\ owner[o] = c /\ pos[c] = streamPos[o] + 1 /\ streamPos[o] \in Nat
    BY <1>6, ChunkFits
  <2>2. path[o] = o /\ o \in Live
    BY <1>6, <2>1 DEF Writes, OwnFiles, Live
  <2>3. QED
    BY <1>2, <1>6, <2>1, <2>2 DEF Accept, Answer
<1>7. ASSUME NEW c \in Clients, WriteChunk(c) PROVE \A o \in Objects \ unnoticed' : Intact(o)'
  <2>1. PICK o : o = ref[c]
    OBVIOUS
  <2> DEFINE ch == [of |-> c, at |-> pos[c]]
  <2>2. Writes(c, o) /\ Accept(c, o) /\ unnoticed' = unnoticed
    BY <1>7, <2>1 DEF WriteChunk, ToFile
  <2>3. \A x \in Objects : x \in InFile(path[o]) <=> x = o
    BY <1>6, <2>2, <1>2 DEF InFile, Live, OwnFiles
  <2>4. /\ file'[o] = {y \in file[o] : y.at # pos[c]} \cup {ch}
        /\ \A x \in Objects : x # o => file'[x] = file[x]
    BY <1>6, <1>7, <2>1, <2>2, <2>3 DEF WriteChunk, ToFile
  <2>5. ASSUME o \notin unnoticed PROVE Intact(o)'
    <3>1. file[o] = {[of |-> c, at |-> i] : i \in 1 .. streamPos[o]}
      BY <1>6, <2>2, <2>5 DEF Intact
    <3>2. \A y \in file[o] : y.at # pos[c]
      BY <1>6, <2>2, <3>1
    <3>3. file'[o] = file[o] \cup {ch}
      BY <2>4, <3>2
    <3>4. 1 .. pos[c] = (1 .. streamPos[o]) \cup {pos[c]}
      BY <1>6, <2>2
    <3>5. file'[o] = {[of |-> c, at |-> i] : i \in 1 .. pos[c]}
      BY <3>1, <3>3, <3>4
    <3>6. owner'[o] = c /\ streamPos'[o] = pos[c]
      BY <1>6, <2>2
    <3>7. QED
      BY <3>5, <3>6 DEF Intact
  <2>6. ASSUME NEW x \in Objects \ unnoticed, x # o PROVE Intact(x)'
    BY <1>6, <2>2, <2>4, <2>6 DEF Intact
  <2>7. QED
    BY <2>2, <2>5, <2>6
<1>8. ASSUME NEW c \in Clients, FlushFails(c) PROVE \A o \in Objects \ unnoticed' : Intact(o)'
  <2>1. /\ Writes(c, ref[c]) /\ Accept(c, ref[c]) /\ unnoticed' = unnoticed \cup {ref[c]}
        /\ file' = file
    BY <1>8 DEF FlushFails
  <2>2. ASSUME NEW x \in Objects \ unnoticed, x # ref[c] PROVE Intact(x)'
    BY <1>6, <2>1, <2>2 DEF Intact
  <2>3. QED
    BY <2>1, <2>2
<1>9. ASSUME NEW c \in Clients,
             UploadThread(c), ~(OpenUpload(c) \/ OpenFails(c) \/ WriteChunk(c) \/ FlushFails(c))
      PROVE  \A o \in Objects \ unnoticed' : Intact(o)'
  BY <1>1, <1>9 DEF UploadThread, AddUpload, AddObject, FindTokenMappedUpload, NoUpload,
                    ConcurrentUpload, Refuse, WriteFails, Answer, objectVars, uploadVars, fileVars
<1>10. ASSUME NEW c \in Clients, Objs(c) PROVE \A o \in Objects \ unnoticed' : Intact(o)'
  <2>1. UNCHANGED <<streamPos, file, unnoticed>>
    BY <1>10 DEF Objs, uploadVars, fileVars
  <2>2. CASE CreateObject(c)
    BY <1>3, <2>1, <2>2 DEF CreateObject
  <2>3. CASE Invoke(c) \/ DeleteObject(c) \/ OfThread(c)
    BY <1>1, <2>1, <2>3 DEF Invoke, DeleteObject, OfThread, CreatedObject, AddObject, Invoked, objectVars
  <2>4. QED
    BY <1>10, <2>2, <2>3 DEF Objs
<1>11. ASSUME NEW c \in Clients, PrepareUpload(c) \/ UploadChunk(c) \/ NewSession(c)
       PROVE  \A o \in Objects \ unnoticed' : Intact(o)'
  BY <1>1, <1>11 DEF PrepareUpload, UploadChunk, NewSession, EndSession, objectVars, uploadVars, fileVars
<1>12. CASE (Sweep \/ \E o \in Objects : Passes(o)) /\ UNCHANGED <<uploadVars, uploaderVars>>
  BY <1>1, <1>12 DEF Sweep, BeginSweep, SweepObject, SweepReturn, Passes, Age, objectVars, uploadVars,
                     fileVars
<1>13. CASE UNCHANGED ftVars
  BY <1>1, <1>13 DEF ftVars, ofVars, objectVars, uploadVars, fileVars
<1>14. QED
  BY <1>4, <1>5, <1>7, <1>8, <1>9, <1>10, <1>11, <1>12, <1>13 DEF FtNext

\* A complete file is the file its client has sent, and a client's upload is
\* done only when the file is complete, but for failures that the code has not
\* noticed: if clients delete only objects that have not timed out, and no two
\* threads draw the same name for a file at a time.
THEOREM UploadIntactHolds == ~StaleDeletes /\ ~SameNames => (FtSpec => []UploadIntact)
<1> SUFFICES ASSUME ~StaleDeletes, ~SameNames PROVE FtSpec => []UploadIntact
  OBVIOUS
<1>1. FtInit => Inductive /\ DiskInv
  <2> SUFFICES ASSUME FtInit PROVE DiskInv
    BY TypeInit, InvInit DEF Inductive
  <2>1. OwnFiles
    BY DEF FtInit, OfInit, OwnFiles
  <2>2. \A o \in Objects : Intact(o)
    BY DEF FtInit, Intact
  <2>3. QED
    BY <2>1, <2>2 DEF DiskInv
<1>2. Inductive /\ DiskInv /\ [FtNext]_ftVars => (Inductive /\ DiskInv)'
  BY InductiveNext, OwnFilesNext, IntactNext DEF Inductive, DiskInv
<1>3. Inductive /\ DiskInv => UploadIntact
  <2> SUFFICES ASSUME Inductive, DiskInv PROVE UploadIntact
    OBVIOUS
  <2>1. ASSUME NEW o \in mCompleted \ unnoticed
        PROVE  file[o] = {[of |-> owner[o], at |-> i] : i \in 1 .. Chunks}
    <3>1. o \in Objects
      BY DEF Inductive, TypeOK, UploadTypes
    <3>2. streamPos[o] = Chunks
      BY <3>1 DEF Inductive, FileInv, Files
    <3>3. QED
      BY <3>1, <3>2 DEF DiskInv, Intact
  <2>2. \A c \in Clients : upload[c] = "done" => mine[c] \in mCompleted \cup unnoticed
    BY DEF Inductive, FileInv, Uploads
  <2>3. QED
    BY <2>1, <2>2 DEF UploadIntact
<1>4. QED
  BY <1>1, <1>2, <1>3, PTL DEF FtSpec
-----------------------------------------------------------------------------
(***************************************************************************)
(* PublishSubscribe: the subscribers                                       *)
(***************************************************************************)

LEMMA SubInit == Init => SubInv
<1> SUFFICES ASSUME Init PROVE SubInv
  OBVIOUS
<1>1. SubTypes
  BY PublishAssumption DEF Init, SubTypes, All, None, Reply
<1>2. Stages /\ OwnConn
  BY DEF Init, Stages, OwnConn, All, None
<1>3. QED
  BY <1>1, <1>2 DEF SubInv

\* The actions of the publisher's side touch none of the subscribers' state.
LEMMA Publisher ==
    ASSUME SubInv, UNCHANGED <<nconns, of, subVars>>,
           published' \in Nat, wire' \in [Conns -> Seq(Nat)]
    PROVE  SubInv'
BY DEF SubInv, SubTypes, Stages, OwnConn, subVars, appVars, Conns

LEMMA SubNext == SubInv /\ [Next]_vars => SubInv'
<1> SUFFICES ASSUME SubInv, [Next]_vars PROVE SubInv'
  OBVIOUS
<1> USE PublishAssumption DEF SubInv, None
<1>0. nconns \in Nat /\ MaxConns \in Nat /\ MaxPublished \in Nat
      /\ \A n \in 1 .. nconns : n \in Conns
  BY DEF SubTypes, Conns
<1>Empty. <<>> \in Seq(Nat)
  OBVIOUS
<1>1. CASE UNCHANGED vars
  BY <1>1, Publisher DEF SubTypes, vars, connVars, pubVars, sendVars
<1>2. ASSUME NEW k \in Conns, PubThread(k) \/ Disconnect(k)
      PROVE  SubInv'
  <2>1. CASE RequestSubscription(k)
    <3>1. Append(wire[k], Reply) \in Seq(Nat)
      BY <1>0 DEF SubTypes, Reply
    <3>2. wire' \in [Conns -> Seq(Nat)]
      BY <2>1, <3>1 DEF RequestSubscription, SubTypes
    <3>3. QED
      BY <2>1, <3>2, Publisher DEF RequestSubscription, SubTypes, sendVars
  <2>2. CASE AddSubscriberTransport(k) \/ SessionEnds(k) \/ RequestEnds(k) \/ Disconnect(k)
    BY <2>2, Publisher DEF AddSubscriberTransport, SessionEnds, RequestEnds, Disconnect,
                           SubTypes, connVars, sendVars, pubVars
  <2>3. QED
    BY <1>2, <2>1, <2>2 DEF PubThread
<1>3. ASSUME NEW k \in Conns, Send(k)
      PROVE  SubInv'
  <2>1. Append(wire[k], published) \in Seq(Nat)
    BY DEF SubTypes
  <2>2. wire' \in [Conns -> Seq(Nat)]
    BY <1>3, <2>1 DEF Send, SubTypes
  <2>3. QED
    BY <1>3, <2>2, Publisher DEF Send, SubTypes
<1>4. CASE BeginSend \/ Drop \/ EndSend
  <2>1. UNCHANGED <<nconns, of, wire, subVars>> /\ published' \in Nat
    BY <1>4 DEF BeginSend, Drop, EndSend, SubTypes, connVars
  <2>2. QED
    BY <2>1, Publisher DEF SubTypes
<1>5. ASSUME NEW k \in Conns, SubThread(k)
      PROVE  SubInv'
  <2>1. CASE Read(k)
    <3>1. wire[k] \in Seq(Nat) /\ wire[k] # <<>>
      BY <2>1 DEF Read, SubTypes
    <3>2. Head(wire[k]) \in Nat /\ Tail(wire[k]) \in Seq(Nat)
      BY <3>1
    <3>3. reading' \in [Conns -> Nat] /\ wire' \in [Conns -> Seq(Nat)]
      BY <2>1, <3>2 DEF Read, SubTypes
    <3>4. SubTypes'
      BY <2>1, <3>3 DEF Read, SubTypes, pubVars, sendVars, appVars
    <3>5. Stages'
      BY <2>1 DEF Read, SubTypes, Stages
    <3>6. OwnConn'
      BY <2>1 DEF Read, OwnConn, appVars
    <3>7. QED
      BY <3>4, <3>5, <3>6
  <2>2. CASE OnReadCompleted(k)
    <3>1. SubTypes'
      BY <2>2 DEF OnReadCompleted, SubTypes, connVars, pubVars, sendVars, appVars
    <3>2. Stages'
      BY <2>2 DEF OnReadCompleted, SubTypes, Stages, connVars
    <3>3. OwnConn'
      BY <2>2 DEF OnReadCompleted, OwnConn, connVars, appVars
    <3>4. QED
      BY <3>1, <3>2, <3>3
  <2>3. CASE Called(k)
    <3>1. got[k] # None
      BY <2>3 DEF Called, Stages
    <3>2. SubTypes'
      BY <2>3 DEF Called, SubTypes, connVars, pubVars, sendVars, appVars
    <3>3. Stages'
      BY <2>3, <3>1 DEF Called, SubTypes, Stages, connVars
    <3>4. OwnConn'
      BY <2>3, <3>1 DEF Called, SubTypes, OwnConn, connVars, appVars
    <3>5. QED
      BY <3>2, <3>3, <3>4
  <2>4. QED
    BY <1>5, <2>1, <2>2, <2>3 DEF SubThread
<1>6. ASSUME NEW s \in Subscribers, BeginSubscribe(s)
      PROVE  SubInv'
  <2> DEFINE n == nconns + 1
  <2>1. n \in Conns /\ nconns' = n
    BY <1>0, <1>6 DEF BeginSubscribe, Conns
  <2>2. n \notin mStopCallInProgress /\ got[n] = None /\ \A r \in Subscribers : conn[r] # n
    BY <1>0, <2>1 DEF SubTypes, Stages
  <2>3. SubTypes'
    <3>1. of' \in [Conns -> Subscribers \cup {None}]
      BY <1>6, <2>1 DEF BeginSubscribe, SubTypes
    <3>2. conn' \in [Subscribers -> 0 .. nconns']
      BY <1>0, <1>6, <2>1 DEF BeginSubscribe, SubTypes
    <3>3. nconns' \in 0 .. MaxConns /\ mStopCallInProgress' \subseteq 1 .. nconns'
      BY <1>0, <1>6, <2>1 DEF BeginSubscribe, SubTypes, Conns
    <3>4. QED
      BY <1>6, <3>1, <3>2, <3>3 DEF BeginSubscribe, SubTypes, sendVars
  <2>4. Stages'
    BY <1>0, <1>6, <2>1 DEF BeginSubscribe, SubTypes, Stages, Conns
  <2>5. OwnConn'
    BY <1>0, <1>6, <2>1, <2>2 DEF BeginSubscribe, SubTypes, OwnConn
  <2>6. QED
    BY <2>3, <2>4, <2>5
<1>7. ASSUME NEW s \in Subscribers, OnRequestSubscriptionCompleted(s)
      PROVE  SubInv'
  <2> DEFINE k == conn[s]
  <2>1. k \in 1 .. nconns /\ of[k] = s
    BY <1>0, <1>7 DEF OnRequestSubscriptionCompleted, OwnConn, SubTypes
  <2>2. k \in Conns /\ k <= nconns
    BY <1>0, <2>1
  <2>3. wire[k] \in Seq(Nat) /\ wire[k] # <<>>
    BY <1>7, <2>2 DEF OnRequestSubscriptionCompleted, SubTypes
  <2>4. Head(wire[k]) \in Nat /\ Tail(wire[k]) \in Seq(Nat)
    BY <2>3
  <2>5. SubTypes'
    BY <1>7, <2>4 DEF OnRequestSubscriptionCompleted, SubTypes, pubVars, sendVars
  <2>6. got[k] = None /\ reading[k] = None /\ calling[k] = None
    BY <1>7, <2>2 DEF OnRequestSubscriptionCompleted, OwnConn, Stages
  <2>7. Stages'
    BY <1>7, <2>2, <2>6 DEF OnRequestSubscriptionCompleted, SubTypes, Stages
  <2>8. OwnConn'
    <3> SUFFICES ASSUME NEW r \in Subscribers PROVE OwnConn!(r)'
      BY DEF OwnConn
    <3>1. CASE r = s
      BY <1>7, <2>1, <3>1, <1>0 DEF OnRequestSubscriptionCompleted, SubTypes, OwnConn
    <3>2. CASE r # s
      <4>1. phase'[r] = phase[r] /\ conn' = conn /\ of' = of
        BY <1>7, <3>2 DEF OnRequestSubscriptionCompleted, SubTypes
      <4>2. phase[r] = "asking" => conn[r] # k
        BY <2>1, <3>2 DEF OwnConn
      <4>3. phase[r] = "asking" => got'[conn[r]] = got[conn[r]]
        BY <1>7, <4>2 DEF OnRequestSubscriptionCompleted, SubTypes
      <4>4. QED
        BY <1>7, <4>1, <4>3 DEF OnRequestSubscriptionCompleted, OwnConn
    <3>3. QED
      BY <3>1, <3>2
  <2>9. QED
    BY <2>5, <2>7, <2>8
<1>8. ASSUME NEW s \in Subscribers, AskFails(s) \/ Lost(s)
      PROVE  SubInv'
  <2>1. wire' \in [Conns -> Seq(Nat)]
    <3>1. wire' = [wire EXCEPT ![conn[s]] = <<>>]
      BY <1>8 DEF AskFails, Lost, CloseEnd
    <3>2. QED
      BY <3>1, <1>Empty DEF SubTypes
  <2>2. phase' = [phase EXCEPT ![s] = "idle"] \/ phase' = phase
    BY <1>8 DEF AskFails, Lost, SubTypes
  <2>3. UNCHANGED <<nconns, of, published, conn, reading, calling, got, mStopCallInProgress>>
    BY <1>8 DEF AskFails, Lost, pubVars, sendVars
  <2>4. SubTypes'
    BY <2>1, <2>2, <2>3 DEF SubTypes
  <2>5. Stages'
    BY <2>3 DEF Stages
  <2>6. OwnConn'
    BY <2>2, <2>3 DEF SubTypes, OwnConn
  <2>7. QED
    BY <2>4, <2>5, <2>6
<1>9. ASSUME NEW s \in Subscribers, EndSubscribe(s)
      PROVE  SubInv'
  <2>1. SubTypes'
    BY <1>9 DEF EndSubscribe, SubTypes, connVars, pubVars, sendVars
  <2>2. Stages' /\ OwnConn'
    BY <1>9 DEF EndSubscribe, SubTypes, Stages, OwnConn, connVars
  <2>3. QED
    BY <2>1, <2>2
<1>10. ASSUME NEW s \in Subscribers, EndSubscribed(s)
       PROVE  SubInv'
  <2>1. conn[s] \in 1 .. nconns /\ of[conn[s]] = s
    BY <1>0, <1>10 DEF EndSubscribed, OwnConn, SubTypes
  <2>2. SubTypes'
    BY <1>10, <2>1, <1>Empty DEF EndSubscribed, CloseEnd, SubTypes, pubVars, sendVars
  <2>3. Stages'
    BY <1>10 DEF EndSubscribed, Stages
  <2>4. OwnConn'
    BY <1>10, <2>1 DEF EndSubscribed, SubTypes, OwnConn
  <2>5. QED
    BY <2>2, <2>3, <2>4
<1>11. QED
  BY <1>1, <1>2, <1>3, <1>4, <1>5, <1>6, <1>7, <1>8, <1>9, <1>10 DEF Next

\* Every step keeps the subscriptions current that endSubscribe will end.
LEMMA CurrentNext ==
    ASSUME ~Resubscribes, SubInv, Current, [Next]_vars
    PROVE  Current'
<1> USE DEF SubInv, None
<1>1. ASSUME UNCHANGED <<of, conn, phase, mStopCallInProgress>>,
             \A k \in Conns : got'[k] # None => got[k] # None
      PROVE  Current'
  BY <1>1 DEF Current
<1>2. ASSUME NEW k \in Conns, PubThread(k) \/ Disconnect(k) \/ Send(k) \/ SubThread(k)
      PROVE  Current'
  <2>1. CASE Called(k)
    BY <1>1, <2>1 DEF Called, SubTypes, Stages, connVars, appVars
  <2>2. CASE Read(k) \/ OnReadCompleted(k)
    BY <1>1, <2>2 DEF Read, OnReadCompleted, connVars, appVars
  <2>3. CASE PubThread(k) \/ Disconnect(k) \/ Send(k)
    BY <1>1, <2>3 DEF PubThread, RequestSubscription, AddSubscriberTransport, SessionEnds,
                      RequestEnds, Disconnect, Send, connVars, subVars, appVars
  <2> QED
    BY <1>2, <2>1, <2>2, <2>3 DEF SubThread
<1>3. CASE BeginSend \/ Drop \/ EndSend \/ UNCHANGED vars
  BY <1>1, <1>3 DEF BeginSend, Drop, EndSend, vars, connVars, subVars, appVars
<1>4. ASSUME NEW s \in Subscribers, BeginSubscribe(s)
      PROVE  Current'
  <2>1. nconns' \in Conns /\ nconns' = nconns + 1 /\ nconns \in Nat
    BY <1>4, PublishAssumption DEF BeginSubscribe, SubTypes, Conns
  <2>2. got[nconns'] = None
    BY <2>1 DEF SubTypes, Stages
  <2>. QED  BY <1>4, <2>1, <2>2 DEF BeginSubscribe, SubTypes, Current
<1>5. ASSUME NEW s \in Subscribers, OnRequestSubscriptionCompleted(s)
      PROVE  Current'
  <2>1. conn[s] \in Conns /\ of[conn[s]] = s
    BY <1>5, PublishAssumption DEF OnRequestSubscriptionCompleted, OwnConn, SubTypes, Conns
  <2>. QED  BY <1>5, <2>1 DEF OnRequestSubscriptionCompleted, SubTypes, Current
<1>6. ASSUME NEW s \in Subscribers, AskFails(s) \/ Lost(s)
      PROVE  Current'
  <2>1. (phase' = [phase EXCEPT ![s] = "idle"] /\ phase[s] = "asking") \/ phase' = phase
    BY <1>6 DEF AskFails, Lost, SubTypes
  <2>. QED  BY <1>6, <2>1 DEF AskFails, Lost, SubTypes, Current, pubVars
<1>7. ASSUME NEW s \in Subscribers, EndSubscribe(s) \/ EndSubscribed(s)
      PROVE  Current'
  <2>1. /\ UNCHANGED <<of, conn, got>> /\ mStopCallInProgress \subseteq mStopCallInProgress'
        /\ \/ phase' = [phase EXCEPT ![s] = "ending"]
           \/ /\ phase' = [phase EXCEPT ![s] = "ended"]
              /\ conn[s] \in mStopCallInProgress'
    BY <1>7 DEF EndSubscribe, EndSubscribed, connVars
  <2> SUFFICES ASSUME NEW k \in Conns \ mStopCallInProgress', got[k] # None
               PROVE  /\ of[k] \in Subscribers /\ conn[of[k]] = k
                      /\ phase'[of[k]] \in {"subscribed", "ending"}
    BY <2>1 DEF Current
  <2>2. /\ of[k] \in Subscribers /\ conn[of[k]] = k
        /\ phase[of[k]] \in {"subscribed", "ending"}
    BY <2>1 DEF Current
  <2>. QED  BY <2>1, <2>2 DEF SubTypes
<1> QED
  BY <1>2, <1>3, <1>4, <1>5, <1>6, <1>7 DEF Next

\* The invariant of the subscribers, for objects that are subscribed anew only
\* after endSubscribe (SubscriptionService.cpp:143 overwrites the entry of an
\* earlier subscription).
THEOREM SubInvariance == ASSUME ~Resubscribes PROVE Spec => [](SubInv /\ Current)
<1>1. Init => SubInv /\ Current
  <2>1. Init => Current
    BY DEF Init, Current, All, None
  <2>. QED  BY <2>1, SubInit
<1>2. SubInv /\ Current /\ [Next]_vars => (SubInv /\ Current)'
  BY SubNext, CurrentNext
<1>. QED  BY <1>1, <1>2, PTL DEF Spec

\* endSubscribe returns only when no call of the object is in progress, and
\* none begins afterwards (SubscriptionService.cpp:271).
THEOREM NoCallAfterEndHolds == ASSUME ~Resubscribes PROVE Spec => []NoCallAfterEnd
<1>1. SubInv /\ Current => NoCallAfterEnd
  BY DEF SubInv, Stages, Current, NoCallAfterEnd
<1>2. QED
  BY <1>1, SubInvariance, PTL

-----------------------------------------------------------------------------
(***************************************************************************)
(* PublishSubscribe: the order of the messages                             *)
(***************************************************************************)

\* What an element taken from the front of a list, one put at its end, and a
\* list put before another leave.
LEMMA ListOps ==
    ASSUME NEW S, NEW q \in Seq(S)
    PROVE  /\ q # <<>> => /\ Head(q) \in S /\ Tail(q) \in Seq(S)
                          /\ Range(q) = Range(Tail(q)) \cup {Head(q)}
                          /\ IsInjective(q) => IsInjective(Tail(q)) /\ Head(q) \notin Range(Tail(q))
           /\ \A x \in S : /\ Append(q, x) \in Seq(S)
                           /\ Range(Append(q, x)) = Range(q) \cup {x}
                           /\ IsInjective(q) /\ x \notin Range(q) => IsInjective(Append(q, x))
           /\ \A r \in Seq(S) : /\ q \o r \in Seq(S)
                                /\ Range(q \o r) = Range(q) \cup Range(r)
                                /\ IsInjective(q) /\ IsInjective(r) /\ Range(q) \cap Range(r) = {}
                                      => IsInjective(q \o r)
           /\ q = <<>> => Range(q) = {} /\ IsInjective(q)
<1>0. Len(q) \in Nat /\ DOMAIN q = 1 .. Len(q)
  BY LenProperties
<1>1. ASSUME q # <<>>
      PROVE  /\ Head(q) \in S /\ Tail(q) \in Seq(S)
             /\ Range(q) = Range(Tail(q)) \cup {Head(q)}
             /\ IsInjective(q) => IsInjective(Tail(q)) /\ Head(q) \notin Range(Tail(q))
  <2>1. /\ Head(q) \in S /\ Tail(q) \in Seq(S)
        /\ Len(Tail(q)) = Len(q) - 1 /\ \A i \in 1 .. Len(Tail(q)) : Tail(q)[i] = q[i + 1]
    BY <1>1, HeadTailProperties
  <2>2. Len(q) >= 1 /\ DOMAIN Tail(q) = 1 .. Len(q) - 1 /\ Head(q) = q[1]
    BY <1>0, <1>1, <2>1, EmptySeq, LenProperties
  <2>3. \A i \in DOMAIN Tail(q) : i + 1 \in DOMAIN q /\ Tail(q)[i] = q[i + 1] /\ i + 1 # 1 /\ i \in Nat
    BY <1>0, <2>1, <2>2
  <2>4. \A i \in DOMAIN q : i = 1 \/ (i - 1 \in DOMAIN Tail(q) /\ Tail(q)[i - 1] = q[i])
    <3> TAKE i \in DOMAIN q
    <3>1. CASE i # 1
      <4>1. i - 1 \in 1 .. Len(q) - 1 /\ (i - 1) + 1 = i
        BY <1>0, <2>2, <3>1
      <4>. QED  BY <4>1, <2>1, <2>2
    <3>. QED  BY <3>1
  <2>5. Range(q) = Range(Tail(q)) \cup {Head(q)}
    <3>1. 1 \in DOMAIN q
      BY <1>0, <2>2
    <3>2. ASSUME NEW i \in DOMAIN q
          PROVE  q[i] \in Range(Tail(q)) \cup {Head(q)}
      BY <2>2, <2>4 DEF Range
    <3>3. \A i \in DOMAIN Tail(q) : Tail(q)[i] \in Range(q)
      BY <2>3 DEF Range
    <3>4. Head(q) \in Range(q)
      BY <2>2, <3>1 DEF Range
    <3>5. Range(q) \subseteq Range(Tail(q)) \cup {Head(q)}
      BY <3>2 DEF Range
    <3>6. Range(Tail(q)) \subseteq Range(q)
      BY <3>3 DEF Range
    <3>. QED  BY <3>4, <3>5, <3>6
  <2>6. ASSUME IsInjective(q)
        PROVE  IsInjective(Tail(q)) /\ Head(q) \notin Range(Tail(q))
    <3>1. 1 \in DOMAIN q
      BY <1>0, <2>2
    <3>2. \A i, j \in DOMAIN Tail(q) : Tail(q)[i] = Tail(q)[j] => i = j
      <4> TAKE i, j \in DOMAIN Tail(q)
      <4>1. i + 1 = j + 1 => i = j
        BY <2>3
      <4>. QED  BY <4>1, <2>3, <2>6 DEF IsInjective
    <3>3. \A i \in DOMAIN Tail(q) : Tail(q)[i] # q[1]
      BY <2>3, <2>6, <3>1 DEF IsInjective
    <3>. QED  BY <2>2, <3>2, <3>3 DEF IsInjective, Range
  <2>. QED  BY <2>1, <2>5, <2>6
<1>2. ASSUME NEW x \in S
      PROVE  /\ Append(q, x) \in Seq(S)
             /\ Range(Append(q, x)) = Range(q) \cup {x}
             /\ IsInjective(q) /\ x \notin Range(q) => IsInjective(Append(q, x))
  <2>1. /\ Append(q, x) \in Seq(S) /\ Len(Append(q, x)) = Len(q) + 1
        /\ \A i \in 1 .. Len(q) : Append(q, x)[i] = q[i]
        /\ Append(q, x)[Len(q) + 1] = x
    BY AppendProperties
  <2>2. DOMAIN Append(q, x) = 1 .. Len(q) + 1
    BY <2>1, LenProperties
  <2>3. \A i \in DOMAIN Append(q, x) :
           \/ i \in DOMAIN q /\ Append(q, x)[i] = q[i]
           \/ i = Len(q) + 1 /\ Append(q, x)[i] = x
    BY <1>0, <2>1, <2>2
  <2>4. DOMAIN q \subseteq DOMAIN Append(q, x) /\ Len(q) + 1 \in DOMAIN Append(q, x)
    BY <1>0, <2>2
  <2>5. Range(Append(q, x)) = Range(q) \cup {x}
    BY <1>0, <2>1, <2>3, <2>4 DEF Range
  <2>6. IsInjective(q) /\ x \notin Range(q) => IsInjective(Append(q, x))
    BY <2>3 DEF IsInjective, Range
  <2>. QED  BY <2>1, <2>5, <2>6
<1>3. ASSUME NEW r \in Seq(S)
      PROVE  /\ q \o r \in Seq(S)
             /\ Range(q \o r) = Range(q) \cup Range(r)
             /\ IsInjective(q) /\ IsInjective(r) /\ Range(q) \cap Range(r) = {}
                   => IsInjective(q \o r)
  <2>1. /\ q \o r \in Seq(S) /\ Len(q \o r) = Len(q) + Len(r)
        /\ \A i \in 1 .. Len(q) + Len(r) :
              (q \o r)[i] = IF i <= Len(q) THEN q[i] ELSE r[i - Len(q)]
    BY ConcatProperties
  <2>2. /\ DOMAIN (q \o r) = 1 .. Len(q) + Len(r)
        /\ Len(r) \in Nat /\ DOMAIN r = 1 .. Len(r)
    BY <2>1, LenProperties
  <2>3. \A i \in DOMAIN (q \o r) :
           \/ i \in DOMAIN q /\ (q \o r)[i] = q[i]
           \/ i - Len(q) \in DOMAIN r /\ (q \o r)[i] = r[i - Len(q)] /\ i \in Nat
    BY <1>0, <2>1, <2>2
  <2>4. \A i, j \in DOMAIN (q \o r) : i - Len(q) = j - Len(q) => i = j
    BY <1>0, <2>2
  <2>5. ASSUME IsInjective(q), IsInjective(r), Range(q) \cap Range(r) = {}
        PROVE  IsInjective(q \o r)
    <3> SUFFICES ASSUME NEW i \in DOMAIN (q \o r), NEW j \in DOMAIN (q \o r),
                        (q \o r)[i] = (q \o r)[j]
                 PROVE  i = j
      BY DEF IsInjective
    <3>1. CASE i \in DOMAIN q /\ (q \o r)[i] = q[i] /\ j \in DOMAIN q /\ (q \o r)[j] = q[j]
      BY <2>5, <3>1 DEF IsInjective
    <3>2. CASE /\ i - Len(q) \in DOMAIN r /\ (q \o r)[i] = r[i - Len(q)]
               /\ j - Len(q) \in DOMAIN r /\ (q \o r)[j] = r[j - Len(q)]
      BY <2>4, <2>5, <3>2 DEF IsInjective
    <3>3. CASE /\ i \in DOMAIN q /\ (q \o r)[i] = q[i]
               /\ j - Len(q) \in DOMAIN r /\ (q \o r)[j] = r[j - Len(q)]
      BY <2>5, <3>3 DEF Range
    <3>4. CASE /\ i - Len(q) \in DOMAIN r /\ (q \o r)[i] = r[i - Len(q)]
               /\ j \in DOMAIN q /\ (q \o r)[j] = q[j]
      BY <2>5, <3>4 DEF Range
    <3>. QED  BY <2>3, <3>1, <3>2, <3>3, <3>4
  <2>. QED  BY <2>1, <2>5, RangeConcatenation
<1>4. ASSUME q = <<>>
      PROVE  Range(q) = {} /\ IsInjective(q)
  BY <1>4 DEF Range, IsInjective
<1>. QED  BY <1>1, <1>2, <1>3, <1>4

-----------------------------------------------------------------------------
(* The messages of one connection.                                          *)

\* What a connection has, is unchanged.
Still(k) == /\ wire'[k] = wire[k] /\ got'[k] = got[k] /\ calling'[k] = calling[k]
            /\ reading'[k] = reading[k] /\ from'[k] = from[k]

LEMMA StillOps ==
    ASSUME NEW k \in Conns, Still(k)
    PROVE  Chain(k)' = Chain(k) /\ LastOf(k)' = LastOf(k) /\ Level(k)' = Level(k)
BY DEF Still, Chain, LastOf, Level, Seen, Follows

LEMMA Longer ==
    ASSUME NEW w \in Seq(Nat), NEW m \in Nat
    PROVE  /\ Append(w, m) # <<>> /\ Len(Append(w, m)) = Len(w) + 1
           /\ \A i \in 1 .. Len(w) : Append(w, m)[i] = w[i]
           /\ Append(w, m)[Len(w) + 1] = m
BY AppendProperties

\* A message put on the wire follows the last one.
LEMMA Sent ==
    ASSUME NEW k \in Conns, SubTypes, Chain(k), NEW m \in Nat \ {None},
           wire'[k] = Append(wire[k], m),
           UNCHANGED <<got, calling, reading, from>>,
           IF LastOf(k) = None THEN m = Reply /\ got[k] = None ELSE Follows(k, LastOf(k), m)
    PROVE  Chain(k)' /\ LastOf(k)' = m
<1>1. /\ wire[k] \in Seq(Nat) /\ Len(wire[k]) \in Nat
      /\ got[k] \in Nat /\ calling[k] \in Nat /\ reading[k] \in Nat
  BY DEF SubTypes
<1>2. /\ wire'[k] # <<>> /\ Len(wire'[k]) = Len(wire[k]) + 1 /\ wire'[k][Len(wire[k]) + 1] = m
      /\ \A i \in 1 .. Len(wire[k]) : wire'[k][i] = wire[k][i]
  <2>1. /\ Append(wire[k], m) # <<>> /\ Len(Append(wire[k], m)) = Len(wire[k]) + 1
        /\ \A i \in 1 .. Len(wire[k]) : Append(wire[k], m)[i] = wire[k][i]
        /\ Append(wire[k], m)[Len(wire[k]) + 1] = m
    BY <1>1, Longer
  <2>. QED  BY <2>1
<1>3. LastOf(k)' = m
  BY <1>2 DEF LastOf
<1>4. \A i \in 1 .. Len(wire'[k]) : wire'[k][i] # None
  BY <1>1, <1>2 DEF Chain
<1>5. (\A i \in 2 .. Len(wire[k]) : Follows(k, wire[k][i - 1], wire[k][i]))'
  <2> SUFFICES ASSUME NEW i \in 2 .. Len(wire'[k])
               PROVE  Follows(k, wire'[k][i - 1], wire'[k][i])
    BY DEF Follows
  <2>1. CASE i = Len(wire[k]) + 1
    <3>1. i - 1 = Len(wire[k]) /\ Len(wire[k]) >= 1 /\ i - 1 \in 1 .. Len(wire[k])
      BY <1>1, <1>2, <2>1
    <3>2. wire[k] # <<>> /\ LastOf(k) = wire'[k][i - 1] /\ LastOf(k) # None
      BY <1>1, <1>2, <3>1 DEF LastOf, Chain
    <3>. QED  BY <1>2, <2>1, <3>2
  <2>2. CASE i # Len(wire[k]) + 1
    <3>1. i \in 2 .. Len(wire[k]) /\ i \in 1 .. Len(wire[k]) /\ i - 1 \in 1 .. Len(wire[k])
      BY <1>1, <1>2, <2>2
    <3>. QED  BY <1>2, <3>1 DEF Chain
  <2>. QED  BY <2>1, <2>2
<1>6. IF got[k] = None THEN wire'[k][1] = Reply ELSE Follows(k, Seen(k), wire'[k][1])
  <2>1. CASE wire[k] = <<>>
    <3>1. wire'[k][1] = m /\ LastOf(k) = Seen(k)
      BY <1>2, <2>1, EmptySeq DEF LastOf
    <3>2. got[k] = None <=> Seen(k) = None
      BY DEF Seen, Chain
    <3>. QED  BY <3>1, <3>2
  <2>2. CASE wire[k] # <<>>
    <3>1. wire'[k][1] = wire[k][1]
      BY <1>1, <1>2, <2>2, EmptySeq
    <3>. QED  BY <2>2, <3>1 DEF Chain
  <2>. QED  BY <2>1, <2>2
<1>. QED
  BY <1>3, <1>4, <1>5, <1>6 DEF Chain, Follows, Seen

LEMMA Shorter ==
    ASSUME NEW w \in Seq(Nat), Len(w) = 1
    PROVE  Tail(w) = <<>>
<1>1. w # <<>>
  <2>1. w = <<>> => Len(w) = 0
    BY EmptySeq
  <2>. QED  BY <2>1
<1>2. Tail(w) \in Seq(Nat) /\ Len(Tail(w)) = 0
  BY <1>1, HeadTailProperties
<1>. QED  BY <1>2, EmptySeq

\* A message put before others that follow it.
LEMMA Prefixed ==
    ASSUME NEW k, NEW x \in Nat, NEW w \in Seq(Nat),
           w # <<>> => Follows(k, x, w[1]),
           \A i \in 2 .. Len(w) : Follows(k, w[i - 1], w[i])
    PROVE  /\ <<x>> \o w \in Seq(Nat) /\ Len(<<x>> \o w) = 1 + Len(w) /\ Len(w) \in Nat
           /\ (<<x>> \o w)[1] = x /\ <<x>> \o w # <<>>
           /\ \A i \in 2 .. Len(<<x>> \o w) : Follows(k, (<<x>> \o w)[i - 1], (<<x>> \o w)[i])
           /\ (<<x>> \o w)[Len(<<x>> \o w)] = IF w = <<>> THEN x ELSE w[Len(w)]
<1> DEFINE v == <<x>> \o w
<1>1. <<x>> \in Seq(Nat) /\ Len(<<x>>) = 1 /\ <<x>>[1] = x /\ Len(w) \in Nat
  OBVIOUS
<1>2. /\ v \in Seq(Nat) /\ Len(v) = 1 + Len(w)
      /\ \A i \in 1 .. 1 + Len(w) : v[i] = IF i <= 1 THEN <<x>>[i] ELSE w[i - 1]
  BY <1>1, ConcatProperties
<1>3. v[1] = x /\ \A i \in 2 .. 1 + Len(w) : v[i] = w[i - 1]
  BY <1>1, <1>2
<1>4. w = <<>> <=> Len(w) = 0
  BY EmptySeq
<1>5. ASSUME NEW i \in 2 .. Len(v)
      PROVE  Follows(k, v[i - 1], v[i])
  <2>1. CASE i = 2
    BY <1>1, <1>2, <1>3, <1>4, <2>1
  <2>2. CASE i # 2
    <3>1. i - 1 \in 2 .. Len(w) /\ i - 1 \in 2 .. 1 + Len(w) /\ i \in 2 .. 1 + Len(w)
      BY <1>1, <1>2, <2>2
    <3>2. v[i - 1] = w[(i - 1) - 1] /\ v[i] = w[i - 1]
      BY <1>3, <3>1
    <3>. QED  BY <3>1, <3>2
  <2>. QED  BY <2>1, <2>2
<1>6. v[Len(v)] = IF w = <<>> THEN x ELSE w[Len(w)]
  <2>1. CASE w = <<>>
    BY <1>2, <1>3, <1>4, <2>1
  <2>2. CASE w # <<>>
    <3>1. 1 + Len(w) \in 2 .. 1 + Len(w) /\ (1 + Len(w)) - 1 = Len(w)
      BY <1>1, <1>4, <2>2
    <3>. QED  BY <1>2, <1>3, <2>2, <3>1
  <2>. QED  BY <2>1, <2>2
<1>7. v # <<>>
  BY <1>1, <1>2
<1>. QED  BY <1>1, <1>2, <1>3, <1>5, <1>6, <1>7

\* A message taken from the wire is the next one for the subscriber.
LEMMA Received ==
    ASSUME NEW k \in Conns, SubTypes, Chain(k), wire[k] # <<>>,
           reading[k] = None, calling[k] = None,
           wire'[k] = Tail(wire[k]), UNCHANGED <<calling, from>>,
           IF got[k] = None THEN got'[k] = Head(wire[k]) /\ reading'[k] = None
                            ELSE got'[k] = got[k] /\ reading'[k] = Head(wire[k])
    PROVE  Chain(k)' /\ LastOf(k)' = LastOf(k)
<1>1. wire[k] \in Seq(Nat) /\ Len(wire[k]) \in Nat /\ Len(wire[k]) >= 1
  BY EmptySeq, LenProperties DEF SubTypes
<1>2. /\ Len(wire'[k]) = Len(wire[k]) - 1 /\ Head(wire[k]) = wire[k][1]
      /\ \A i \in 1 .. Len(wire'[k]) : wire'[k][i] = wire[k][i + 1]
      /\ wire'[k] \in Seq(Nat)
  BY <1>1, HeadTailProperties
<1>3. wire[k][1] # None /\ (wire'[k] = <<>> <=> Len(wire[k]) = 1)
  <2>1. wire[k][1] # None
    BY <1>1 DEF Chain
  <2>2. wire'[k] = <<>> <=> Len(wire'[k]) = 0
    BY <1>2, EmptySeq
  <2>. QED  BY <1>1, <1>2, <2>1, <2>2
<1>4. Seen(k)' = wire[k][1]
  BY <1>1, <1>2, <1>3 DEF Seen, Chain
<1>5. (wire[k] # <<>> => Follows(k, Seen(k), wire[k][1]))'
  <2> SUFFICES ASSUME wire'[k] # <<>> PROVE Follows(k, wire[k][1], wire'[k][1])
    BY <1>4 DEF Follows
  <2>1. wire'[k][1] = wire[k][2] /\ 2 \in 2 .. Len(wire[k]) /\ 2 - 1 = 1
    BY <1>1, <1>2, <1>3, EmptySeq
  <2>. QED  BY <2>1 DEF Chain
<1>6. (\A i \in 2 .. Len(wire[k]) : Follows(k, wire[k][i - 1], wire[k][i]))'
  <2> SUFFICES ASSUME NEW i \in 2 .. Len(wire'[k])
               PROVE  Follows(k, wire'[k][i - 1], wire'[k][i])
    BY DEF Follows
  <2>1. /\ i + 1 \in 2 .. Len(wire[k]) /\ (i + 1) - 1 = i /\ (i - 1) + 1 = i
        /\ i \in 1 .. Len(wire'[k]) /\ i - 1 \in 1 .. Len(wire'[k])
    BY <1>1, <1>2
  <2>. QED  BY <1>2, <2>1 DEF Chain
<1>7. \A i \in 1 .. Len(wire'[k]) : wire'[k][i] # None
  <2> TAKE i \in 1 .. Len(wire'[k])
  <2>1. i + 1 \in 1 .. Len(wire[k])
    BY <1>1, <1>2
  <2>. QED  BY <1>2, <2>1 DEF Chain
<1>8. LastOf(k)' = LastOf(k)
  <2>1. CASE wire'[k] = <<>>
    BY <1>1, <1>2, <1>3, <1>4, <2>1 DEF LastOf
  <2>2. CASE wire'[k] # <<>>
    <3>1. Len(wire'[k]) \in 1 .. Len(wire'[k]) /\ Len(wire'[k]) + 1 = Len(wire[k])
      BY <1>1, <1>2, <2>2, EmptySeq
    <3>. QED  BY <1>2, <2>2, <3>1 DEF LastOf
  <2>. QED  BY <2>1, <2>2
<1>9. got'[k] # None
  BY <1>2, <1>3 DEF Chain
<1>10. reading'[k] # None => got[k] # None /\ got'[k] = got[k] /\ Follows(k, got[k], reading'[k])
  BY <1>2 DEF Chain, Seen
<1>. QED
  BY <1>4, <1>5, <1>6, <1>7, <1>8, <1>9, <1>10 DEF Chain, Follows

\* The wire is cut: what the subscriber has stays.
LEMMA Cut ==
    ASSUME NEW k \in Conns, Chain(k), wire'[k] = <<>>, UNCHANGED <<got, calling, reading, from>>
    PROVE  Chain(k)'
BY EmptySeq DEF Chain, Follows, Seen

-----------------------------------------------------------------------------
(* The steps.                                                               *)

LEMMA Bounds ==
    ASSUME SubTypes
    PROVE  /\ nconns \in Nat /\ MaxConns \in Nat /\ MaxPublished \in Nat /\ Window \in Nat
           /\ Reply \in Nat /\ Reply > MaxPublished /\ Reply # None
           /\ 1 .. nconns \subseteq Conns
BY PublishAssumption DEF SubTypes, Conns, Reply, None

\* A connection that a step leaves alone.
LEMMA Frame ==
    ASSUME NEW d \in Conns, Sessions, Still(d), session'[d] = session[d],
           d \in peerGone' <=> d \in peerGone, d \in open' => d \in open
    PROVE  Chain(d)' /\ SentBy(d)'
BY StillOps DEF Sessions, SentBy, Still

LEMMA FedFrame ==
    ASSUME NEW d \in Conns, UpToDate, Still(d), session'[d] = session[d],
           d \in (open \ peerGone)' => d \in open \ peerGone,
           d \in Listed => d \in Listed', d \in Range(sending') <=> d \in Range(sending),
           published' = published
    PROVE  d \in (open \ peerGone)' => Fed(d)'
BY StillOps DEF UpToDate, Fed

LEMMA ListedConns ==
    ASSUME Lists
    PROVE  Listed \subseteq Conns
BY RangeOfSeq DEF Lists, Listed

\* A session writes its reply, adds its transport, or ends.
LEMMA OrderSession ==
    ASSUME OrderInv, NEW k \in Conns, PubThread(k) \/ Disconnect(k)
    PROVE  InvOfOrder'
<1> USE DEF OrderInv, InvOfOrder, SubInv
<1>0. /\ Reply \in Nat \ {None} /\ published \in 0 .. MaxPublished
      /\ <<>> \in Seq(Nat) /\ wire[k] \in Seq(Nat)
  BY Bounds, EmptySeq DEF OrderTypes, SubTypes
<1>1. CASE RequestSubscription(k)
  <2>1. /\ session[k] = "accepted" /\ k \notin peerGone
        /\ session' = [session EXCEPT ![k] = "replied"]
        /\ wire' = [wire EXCEPT ![k] = Append(@, Reply)]
        /\ UNCHANGED <<nconns, of, fd, open, peerGone, informed, from>>
        /\ UNCHANGED <<published, mClientTransports, sending, sent, publishing>>
        /\ UNCHANGED <<reading, calling, got, mStopCallInProgress>>
    BY <1>1 DEF RequestSubscription, sendVars, subVars
  <2>2. wire[k] = <<>> /\ got[k] = None /\ reading[k] = None /\ calling[k] = None
    BY <2>1 DEF Sessions, SentBy, Chain
  <2>3. LastOf(k) = None
    BY <2>2 DEF LastOf, Seen
  <2>4. wire'[k] = Append(wire[k], Reply) /\ session'[k] = "replied"
    BY <2>1 DEF OrderTypes, SubTypes
  <2>5. Chain(k)' /\ LastOf(k)' = Reply
    BY <1>0, <2>1, <2>2, <2>3, <2>4, Sent DEF Sessions
  <2>6. Len(wire'[k]) = 1
    BY <2>2, <2>4
  <2>7. SentBy(k)'
    BY <2>1, <2>2, <2>4, <2>5, <2>6 DEF SentBy
  <2>8. \A d \in Conns \ {k} : Still(d) /\ session'[d] = session[d]
    BY <2>1 DEF Still, OrderTypes, SubTypes
  <2>9. Sessions'
    BY <2>1, <2>5, <2>7, <2>8, Frame DEF Sessions
  <2>10. Listed' = Listed /\ k \notin Listed
    BY <2>1 DEF Listed, Lists
  <2>11. OrderTypes' /\ Lists' /\ Descriptors'
    <3>1. OrderTypes'
      BY <2>1 DEF OrderTypes
    <3>2. \A d \in Listed : session'[d] = session[d]
      BY <2>8, <2>10, ListedConns
    <3>3. Lists'
      BY <2>1, <2>10, <3>2 DEF Lists
    <3>4. Descriptors'
      BY <2>1, <2>8 DEF Descriptors
    <3>. QED  BY <3>1, <3>3, <3>4
  <2>12. Fed(k)'
    BY <2>4 DEF Fed
  <2>13. UpToDate'
    BY <2>1, <2>8, <2>10, <2>12, FedFrame DEF UpToDate
  <2> QED  BY <2>9, <2>11, <2>13
<1>2. CASE AddSubscriberTransport(k)
  <2>1. /\ session[k] = "replied"
        /\ session' = [session EXCEPT ![k] = "subscribed"]
        /\ mClientTransports' = Append(mClientTransports, k)
        /\ from' = [from EXCEPT ![k] = published]
        /\ UNCHANGED <<nconns, of, fd, open, wire, peerGone, informed>>
        /\ UNCHANGED <<published, sending, sent, publishing>>
        /\ UNCHANGED <<reading, calling, got, mStopCallInProgress>>
    BY <1>2 DEF AddSubscriberTransport, connVars, subVars
  <2>2. session'[k] = "subscribed" /\ from'[k] = published
    BY <2>1 DEF OrderTypes
  <2>3. /\ wire[k] # <<>> => Len(wire[k]) = 1 /\ got[k] = None
        /\ reading[k] = None /\ calling[k] = None /\ k \notin peerGone => LastOf(k) = Reply
    BY <2>1 DEF Sessions, SentBy
  <2>4. reading[k] = None /\ calling[k] = None
    BY <2>1 DEF Sessions, SentBy
  <2>5. LastOf(k)' = LastOf(k)
    BY <2>1 DEF LastOf, Seen
  <2>6. Chain(k)'
    BY <2>1, <2>3, <2>4, EmptySeq DEF Sessions, Chain, Follows, Seen
  <2>7. SentBy(k)'
    BY <1>0, <2>1, <2>2, <2>3, <2>4, <2>5 DEF SentBy, Sessions
  <2>8. \A d \in Conns \ {k} : Still(d) /\ session'[d] = session[d]
    BY <2>1 DEF Still, OrderTypes, SubTypes
  <2>9. Sessions'
    BY <2>1, <2>6, <2>7, <2>8, Frame DEF Sessions
  <2>10. k \notin Listed /\ mClientTransports \in Seq(Conns) /\ IsInjective(mClientTransports)
    BY <2>1 DEF Lists
  <2>11. /\ mClientTransports' \in Seq(Conns) /\ IsInjective(mClientTransports')
         /\ Range(mClientTransports') = Range(mClientTransports) \cup {k}
    BY <2>1, <2>10, ListOps DEF Listed
  <2>12. Listed' = Listed \cup {k}
    BY <2>1, <2>11 DEF Listed
  <2>13. Lists'
    BY <2>1, <2>2, <2>8, <2>10, <2>11, <2>12 DEF Lists, Listed
  <2>14. OrderTypes' /\ Descriptors'
    BY <1>0, <2>1 DEF OrderTypes, Descriptors
  <2>15. k \notin peerGone => Fed(k)'
    BY <2>1, <2>2, <2>3, <2>4, <2>5, <2>10, <2>12 DEF Fed, Level, Listed
  <2>16. UpToDate'
    BY <2>1, <2>8, <2>12, <2>15, FedFrame DEF UpToDate
  <2> QED  BY <2>9, <2>13, <2>14, <2>16
<1>3. CASE SessionEnds(k) \/ RequestEnds(k) \/ Disconnect(k)
  <2>1. /\ \/ session' = session
           \/ /\ session' = [session EXCEPT ![k] = "gone"]
              /\ session[k] \in {"accepted", "subscribed"} /\ k \notin open' \ peerGone
        /\ session[k] = "accepted" \/ session[k] = "subscribed"
        /\ open' \subseteq open
        /\ UNCHANGED <<nconns, of, fd, wire, peerGone, from>>
        /\ UNCHANGED <<published, mClientTransports, sending, sent, publishing>>
        /\ UNCHANGED <<reading, calling, got, mStopCallInProgress>>
    BY <1>3 DEF SessionEnds, RequestEnds, Disconnect, connVars, pubVars, sendVars, subVars
  <2>2. \A d \in Conns : Still(d) /\ (d # k => session'[d] = session[d])
    BY <2>1 DEF Still, OrderTypes
  <2>3. session'[k] = session[k] \/ (session'[k] = "gone" /\ k \notin open' \ peerGone)
    BY <2>1 DEF OrderTypes
  <2>4. Chain(k)' /\ SentBy(k)'
    BY <2>1, <2>2, <2>3, StillOps DEF Sessions, SentBy
  <2>5. Sessions'
    BY <2>1, <2>2, <2>4, Frame DEF Sessions
  <2>6. Listed' = Listed
    BY <2>1 DEF Listed
  <2>7. Lists'
    <3>1. \A d \in Listed : session'[d] \in {"subscribed", "gone"}
      BY <2>2, <2>3, ListedConns DEF Lists
    <3>. QED  BY <2>1, <2>6, <3>1 DEF Lists
  <2>8. OrderTypes' /\ Descriptors'
    BY <2>1 DEF OrderTypes, Descriptors
  <2>9. session'[k] # session[k] => Fed(k)'
    BY <2>3 DEF Fed
  <2>10. UpToDate'
    BY <2>1, <2>2, <2>6, <2>9, FedFrame DEF UpToDate
  <2> QED  BY <2>5, <2>7, <2>8, <2>10
<1> QED  BY <1>1, <1>2, <1>3 DEF PubThread

\* A connection that a list names is one of those that were made, and only it
\* is written to.
LEMMA WritableIsHead ==
    ASSUME OrderInv, sending # <<>>, NEW k \in Conns, Writable(k)
    PROVE  k = Head(sending) /\ k \in open \ peerGone
<1> USE DEF OrderInv, InvOfOrder, SubInv
<1>1. PICK j \in At(fd[Head(sending)]) : j = k /\ k \notin peerGone
  BY DEF Writable
<1>2. k \in open /\ fd[k] = fd[Head(sending)]
  BY <1>1 DEF At
<1>3. Head(sending) \in Listed /\ Head(sending) \in Conns
  BY ListOps DEF Lists, Listed
<1>4. session[Head(sending)] # "none"
  BY <1>3 DEF Lists
<1>5. Head(sending) \in 1 .. nconns /\ k \in 1 .. nconns
  BY <1>2, <1>3, <1>4, Bounds DEF Descriptors, Conns
<1>. QED  BY <1>1, <1>2, <1>5 DEF Descriptors

\* A message is sent to the next connection of the list, or this is dropped.
LEMMA OrderVisit ==
    ASSUME OrderInv, NEW k \in Conns, Send(k) \/ Drop
    PROVE  InvOfOrder'
<1> USE DEF OrderInv, InvOfOrder, SubInv
<1> DEFINE h == Head(sending)
<1>1. /\ publishing /\ sending # <<>> /\ sending' = Tail(sending)
      /\ open' \subseteq open
      /\ UNCHANGED <<nconns, of, fd, peerGone, session, from, published, mClientTransports>>
      /\ UNCHANGED <<publishing, reading, calling, got, mStopCallInProgress>>
  BY DEF Send, Drop, subVars
<1>2. /\ h \in Conns /\ Tail(sending) \in Seq(Conns)
      /\ Range(sending) = Range(Tail(sending)) \cup {h}
      /\ IsInjective(Tail(sending)) /\ h \notin Range(Tail(sending))
  BY <1>1, ListOps DEF Lists
<1>3. h \in Listed /\ h \notin Range(mClientTransports) /\ h \notin Range(sent)
  BY <1>2 DEF Lists, Listed
<1>4. CASE Send(k)
  <2>1. k = h /\ k \in open \ peerGone
    BY <1>1, <1>4, WritableIsHead DEF Send
  <2>2. /\ wire' = [wire EXCEPT ![k] = Append(@, published)]
        /\ sent' = Append(sent, h) /\ open' = open
    BY <1>4 DEF Send
  <2>3. session[k] = "subscribed"
    BY <1>3, <2>1 DEF Lists, Sessions, SentBy
  <2>4. /\ published \in Nat \ {None} /\ published # Reply /\ from[k] \in Nat
        /\ wire[k] \in Seq(Nat)
    BY <1>1, Bounds DEF OrderTypes, SubTypes, None
  <2>5. LastOf(k) # None /\ Level(k) = published - 1
    BY <1>2, <2>1, <2>3 DEF Sessions, SentBy, UpToDate, Fed
  <2>6. Follows(k, LastOf(k), published)
    BY <2>4, <2>5 DEF Follows, Level
  <2>7. wire'[k] = Append(wire[k], published)
    BY <2>2 DEF SubTypes
  <2>8. Chain(k)' /\ LastOf(k)' = published
    BY <1>1, <2>4, <2>5, <2>6, <2>7, Sent DEF Sessions
  <2>9. SentBy(k)'
    BY <1>1, <2>1, <2>3, <2>4, <2>8 DEF SentBy
  <2>10. \A d \in Conns \ {k} : Still(d)
    BY <1>1, <2>2 DEF Still, SubTypes
  <2>11. Sessions'
    BY <1>1, <2>2, <2>8, <2>9, <2>10, Frame DEF Sessions
  <2>12. /\ sent' \in Seq(Conns) /\ IsInjective(sent')
         /\ Range(sent') = Range(sent) \cup {h}
    BY <1>2, <1>3, <2>2, ListOps DEF Lists
  <2>13. Listed' = Listed
    BY <1>1, <1>2, <2>12 DEF Listed
  <2>14. Lists'
    <3>1. {mClientTransports', sending', sent'} \subseteq Seq(Conns)
      BY <1>1, <1>2, <2>12 DEF Lists
    <3>2. /\ Range(mClientTransports') \cap Range(sending') = {}
          /\ Range(mClientTransports') \cap Range(sent') = {}
          /\ Range(sending') \cap Range(sent') = {}
      BY <1>1, <1>2, <1>3, <2>12 DEF Lists
    <3>. QED  BY <1>1, <1>2, <2>12, <2>13, <3>1, <3>2 DEF Lists
  <2>15. OrderTypes' /\ Descriptors'
    BY <1>1, <2>2 DEF OrderTypes, Descriptors
  <2>16. Fed(k)'
    <3>1. Level(k)' = published
      BY <2>4, <2>8 DEF Level
    <3>2. k \in Listed' /\ k \notin Range(sending')
      BY <1>1, <1>2, <1>3, <2>1, <2>13
    <3>. QED  BY <1>1, <3>1, <3>2 DEF Fed
  <2>17. \A d \in Conns \ {k} : d \in Range(sending') <=> d \in Range(sending)
    BY <1>1, <1>2, <2>1
  <2>18. UpToDate'
    BY <1>1, <2>2, <2>10, <2>13, <2>16, <2>17, FedFrame DEF UpToDate
  <2> QED  BY <2>11, <2>14, <2>15, <2>18
<1>5. CASE Drop
  <2>1. wire' = wire /\ sent' = sent /\ open' = open \ {h}
    BY <1>5 DEF Drop
  <2>2. \A d \in Conns : Still(d)
    BY <1>1, <2>1 DEF Still
  <2>3. Sessions'
    BY <1>1, <2>2, Frame DEF Sessions
  <2>4. Listed' = Listed \ {h}
    BY <1>1, <1>2, <1>3, <2>1 DEF Listed
  <2>5. Lists'
    <3>1. {mClientTransports', sending', sent'} \subseteq Seq(Conns)
      BY <1>1, <1>2, <2>1 DEF Lists
    <3>2. /\ Range(mClientTransports') \cap Range(sending') = {}
          /\ Range(sending') \cap Range(sent') = {}
      BY <1>1, <1>2, <2>1 DEF Lists
    <3>. QED  BY <1>1, <1>2, <2>1, <2>4, <3>1, <3>2 DEF Lists
  <2>6. OrderTypes' /\ Descriptors'
    BY <1>1, <2>1 DEF OrderTypes, Descriptors
  <2>7. h \notin (open \ peerGone)'
    BY <2>1
  <2>8. \A d \in Conns \ {h} :
           (d \in Listed => d \in Listed') /\ (d \in Range(sending') <=> d \in Range(sending))
    BY <1>1, <1>2, <2>4
  <2>9. UpToDate'
    BY <1>1, <2>1, <2>2, <2>7, <2>8, FedFrame DEF UpToDate
  <2> QED  BY <2>3, <2>5, <2>6, <2>9
<1> QED  BY <1>4, <1>5

\* send() takes the list, and puts back what stays of it.
LEMMA OrderSwap ==
    ASSUME OrderInv, BeginSend \/ EndSend
    PROVE  InvOfOrder'
<1> USE DEF OrderInv, InvOfOrder, SubInv
<1>1. /\ UNCHANGED <<nconns, of, fd, open, wire, peerGone, session, from>>
      /\ UNCHANGED <<reading, calling, got, mStopCallInProgress>>
  BY DEF BeginSend, EndSend, connVars, subVars
<1>2. \A d \in Conns : Still(d)
  BY <1>1 DEF Still
<1>3. Sessions'
  BY <1>1, <1>2, Frame DEF Sessions
<1>4. Descriptors'
  BY <1>1 DEF Descriptors
<1>5. CASE BeginSend
  <2>1. /\ ~publishing /\ published < MaxPublished
        /\ publishing' = TRUE /\ published' = published + 1
        /\ sending' = mClientTransports /\ sent' = <<>> /\ mClientTransports' = <<>>
    BY <1>5 DEF BeginSend
  <2>2. sending = <<>> /\ sent = <<>> /\ Range(sending) = {} /\ Range(sent) = {}
    BY <2>1, ListOps DEF Lists
  <2>3. /\ Range(sent') = {} /\ Range(mClientTransports') = {}
        /\ IsInjective(sent') /\ IsInjective(mClientTransports') /\ <<>> \in Seq(Conns)
    BY <2>1, EmptySeq, ListOps
  <2>4. Listed' = Listed
    BY <2>1, <2>2, <2>3 DEF Listed
  <2>5. Lists'
    BY <1>1, <2>1, <2>3, <2>4 DEF Lists
  <2>6. published' \in 0 .. MaxPublished /\ published' # 0 /\ published' - 1 = published
    BY <2>1, Bounds DEF OrderTypes
  <2>7. OrderTypes'
    BY <1>1, <2>1, <2>6 DEF OrderTypes
  <2>8. UpToDate'
    <3> SUFFICES ASSUME NEW d \in Conns, d \in open \ peerGone, session[d] = "subscribed"
                 PROVE  d \in Listed' /\ Level(d)' = IF d \in Range(sending') THEN published' - 1 ELSE published'
      BY <1>1 DEF UpToDate, Fed
    <3>1. d \in Listed /\ Level(d) = published /\ Level(d)' = Level(d)
      BY <1>2, <2>2, StillOps DEF UpToDate, Fed
    <3>2. d \in Range(sending')
      BY <2>1, <2>2, <3>1 DEF Listed
    <3>. QED  BY <2>4, <2>6, <3>1, <3>2
  <2> QED  BY <1>3, <1>4, <2>5, <2>7, <2>8
<1>6. CASE EndSend
  <2>1. /\ publishing /\ sending = <<>> /\ sending' = sending /\ published' = published
        /\ mClientTransports' = sent \o mClientTransports /\ sent' = <<>> /\ publishing' = FALSE
    BY <1>6 DEF EndSend
  <2>2. /\ mClientTransports' \in Seq(Conns) /\ IsInjective(mClientTransports')
        /\ Range(mClientTransports') = Range(sent) \cup Range(mClientTransports)
    BY <2>1, ListOps DEF Lists
  <2>3. Range(sent') = {} /\ IsInjective(sent') /\ <<>> \in Seq(Conns) /\ Range(sending) = {}
    BY <2>1, EmptySeq, ListOps
  <2>4. Listed' = Listed
    BY <2>1, <2>2, <2>3 DEF Listed
  <2>5. Lists'
    BY <1>1, <2>1, <2>2, <2>3, <2>4 DEF Lists
  <2>6. OrderTypes'
    BY <1>1, <2>1 DEF OrderTypes
  <2>7. UpToDate'
    BY <1>1, <1>2, <2>1, <2>4, FedFrame DEF UpToDate
  <2> QED  BY <1>3, <1>4, <2>5, <2>6, <2>7
<1> QED  BY <1>5, <1>6

\* A step of a subscriber's session of one connection, or of its application.
LEMMA OrderLocal ==
    ASSUME OrderInv, NEW k \in Conns,
           UNCHANGED <<nconns, of, fd, open, pubVars>>,
           \A d \in Conns \ {k} : Still(d),
           peerGone' = peerGone \/ peerGone' = peerGone \cup {k},
           mStopCallInProgress' \subseteq mStopCallInProgress \cup (peerGone' \cap {k}),
           Chain(k)' /\ SentBy(k)',
           k \notin peerGone' => LastOf(k)' = LastOf(k)
    PROVE  InvOfOrder'
<1> USE DEF OrderInv, InvOfOrder
<1>1. UNCHANGED <<session, from, published, mClientTransports, sending, sent, publishing>>
  BY DEF pubVars, sendVars
<1>2. Sessions'
  <2>1. \A d \in Conns \ {k} : d \in peerGone' <=> d \in peerGone
    OBVIOUS
  <2>. QED  BY <1>1, <2>1, Frame DEF Sessions
<1>3. Listed' = Listed
  BY <1>1 DEF Listed
<1>4. OrderTypes' /\ Lists' /\ Descriptors'
  BY <1>1, <1>3 DEF OrderTypes, Lists, Descriptors
<1>5. UpToDate'
  <2> SUFFICES ASSUME NEW d \in Conns, d \in (open \ peerGone)'
               PROVE  Fed(d)'
    BY DEF UpToDate
  <2>1. CASE d = k
    <3>1. Level(k)' = Level(k) /\ k \in open \ peerGone
      BY <1>1, <2>1 DEF Level
    <3>. QED  BY <1>1, <1>3, <2>1, <3>1 DEF UpToDate, Fed
  <2>2. CASE d # k
    BY <1>1, <1>3, <2>2, FedFrame
  <2> QED  BY <2>1, <2>2
<1> QED  BY <1>2, <1>4, <1>5

\* The subscriber's session reads a message, calls the object, and returns.
LEMMA OrderSubThread ==
    ASSUME OrderInv, NEW k \in Conns, SubThread(k)
    PROVE  InvOfOrder'
<1> USE DEF OrderInv, InvOfOrder, SubInv
<1>0. session' = session /\ from' = from /\ Chain(k) /\ SentBy(k)
  BY DEF SubThread, Read, OnReadCompleted, Called, pubVars, Sessions
<1>1. CASE Read(k)
  <2>1. /\ got[k] # None /\ reading[k] = None /\ calling[k] = None
        /\ k \notin peerGone /\ wire[k] # <<>>
        /\ reading' = [reading EXCEPT ![k] = Head(wire[k])]
        /\ wire' = [wire EXCEPT ![k] = Tail(@)]
        /\ UNCHANGED <<nconns, of, fd, open, peerGone, pubVars, calling, got>>
        /\ mStopCallInProgress' = mStopCallInProgress
    BY <1>1 DEF Read
  <2>2. wire'[k] = Tail(wire[k]) /\ reading'[k] = Head(wire[k])
    BY <2>1 DEF SubTypes
  <2>3. Chain(k)' /\ LastOf(k)' = LastOf(k)
    BY <1>0, <2>1, <2>2, Received
  <2>4. SentBy(k)'
    BY <1>0, <2>1, <2>3 DEF SentBy
  <2>5. \A d \in Conns \ {k} : Still(d)
    BY <1>0, <2>1 DEF Still, SubTypes
  <2> QED  BY <2>1, <2>3, <2>4, <2>5, OrderLocal
<1>2. CASE OnReadCompleted(k)
  <2>1. /\ reading[k] # None
        /\ reading' = [reading EXCEPT ![k] = None]
        /\ calling' = [calling EXCEPT ![k] = IF k \in mStopCallInProgress THEN None ELSE reading[k]]
        /\ UNCHANGED <<nconns, of, fd, open, wire, peerGone, pubVars, got>>
        /\ mStopCallInProgress' = mStopCallInProgress
    BY <1>2 DEF OnReadCompleted, connVars
  <2>2. /\ got[k] # None /\ Follows(k, got[k], reading[k]) /\ calling[k] = None
        /\ reading'[k] = None /\ wire'[k] = wire[k]
        /\ calling'[k] = None \/ calling'[k] = reading[k]
        /\ k \notin peerGone => calling'[k] = reading[k]
    BY <1>0, <2>1 DEF SubTypes, Chain, Descriptors
  <2>3. k \in peerGone => wire[k] = <<>>
    BY <1>0 DEF SentBy
  <2>4. k \notin peerGone => Seen(k)' = Seen(k)
    BY <2>1, <2>2 DEF Seen
  <2>5. k \notin peerGone => LastOf(k)' = LastOf(k)
    BY <2>2, <2>4 DEF LastOf
  <2>6. Chain(k)'
    <3>1. wire[k] # <<>> => Follows(k, Seen(k)', wire[k][1])
      BY <1>0, <2>2, <2>3, <2>4 DEF Chain
    <3>. QED  BY <1>0, <2>1, <2>2, <3>1 DEF Chain, Follows
  <2>7. SentBy(k)'
    BY <1>0, <2>1, <2>2, <2>5 DEF SentBy
  <2>8. \A d \in Conns \ {k} : Still(d)
    BY <1>0, <2>1 DEF Still, SubTypes
  <2> QED  BY <2>1, <2>5, <2>6, <2>7, <2>8, OrderLocal
<1>3. CASE Called(k)
  <2>1. /\ calling[k] # None
        /\ calling' = [calling EXCEPT ![k] = None]
        /\ got' = [got EXCEPT ![k] = calling[k]]
        /\ UNCHANGED <<nconns, of, fd, open, wire, peerGone, pubVars, reading>>
        /\ mStopCallInProgress' = mStopCallInProgress
    BY <1>3 DEF Called, connVars
  <2>2. /\ got[k] # None /\ reading[k] = None /\ reading'[k] = None /\ wire'[k] = wire[k]
        /\ calling'[k] = None /\ got'[k] = calling[k]
    BY <1>0, <2>1 DEF SubTypes, Chain
  <2>3. Seen(k)' = Seen(k)
    BY <2>1, <2>2 DEF Seen
  <2>4. LastOf(k)' = LastOf(k)
    BY <2>2, <2>3 DEF LastOf
  <2>5. Chain(k)'
    <3>1. wire[k] # <<>> => Follows(k, Seen(k)', wire[k][1])
      BY <1>0, <2>2, <2>3 DEF Chain
    <3>. QED  BY <1>0, <2>1, <2>2, <3>1 DEF Chain, Follows
  <2>6. SentBy(k)'
    BY <1>0, <2>1, <2>2, <2>4 DEF SentBy
  <2>7. \A d \in Conns \ {k} : Still(d)
    BY <1>0, <2>1 DEF Still, SubTypes
  <2> QED  BY <2>1, <2>4, <2>5, <2>6, <2>7, OrderLocal
<1> QED  BY <1>1, <1>2, <1>3 DEF SubThread

\* A subscriber gets its answer, ends its subscription, or loses its connection.
LEMMA OrderSubscriber ==
    ASSUME OrderInv, NEW s \in Subscribers,
           \/ OnRequestSubscriptionCompleted(s) \/ AskFails(s)
           \/ EndSubscribe(s) \/ EndSubscribed(s) \/ Lost(s)
    PROVE  InvOfOrder'
<1> USE DEF OrderInv, InvOfOrder, SubInv
<1>0. PICK k \in Conns : k = conn[s]
  <2>1. phase[s] \in {"asking", "subscribed", "ending"}
    BY DEF OnRequestSubscriptionCompleted, AskFails, EndSubscribe, EndSubscribed, Lost
  <2>2. conn[s] \in 1 .. nconns
    BY <2>1, Bounds DEF OwnConn, SubTypes, None
  <2>. QED  BY <2>2, Bounds
<1>1. session' = session /\ from' = from /\ Chain(k) /\ SentBy(k)
  BY <1>0 DEF OnRequestSubscriptionCompleted, AskFails, EndSubscribe, EndSubscribed, Lost,
              pubVars, Sessions
<1>2. CASE OnRequestSubscriptionCompleted(s)
  <2>1. /\ phase[s] = "asking" /\ wire[k] # <<>>
        /\ wire' = [wire EXCEPT ![k] = Tail(@)]
        /\ got' = [got EXCEPT ![k] = Head(wire[k])]
        /\ UNCHANGED <<nconns, of, fd, open, peerGone, pubVars, reading, calling>>
        /\ mStopCallInProgress' = mStopCallInProgress
    BY <1>0, <1>2 DEF OnRequestSubscriptionCompleted
  <2>2. got[k] = None /\ reading[k] = None /\ calling[k] = None
    BY <1>0, <2>1 DEF OwnConn, Stages
  <2>3. wire'[k] = Tail(wire[k]) /\ got'[k] = Head(wire[k]) /\ reading'[k] = None
    BY <1>0, <2>1, <2>2 DEF SubTypes
  <2>4. Chain(k)' /\ LastOf(k)' = LastOf(k)
    BY <1>0, <1>1, <2>1, <2>2, <2>3, Received
  <2>5. SentBy(k)'
    <3>1. session[k] = "replied" => wire'[k] = <<>>
      BY <1>1, <2>1, <2>3, Shorter, <1>0 DEF SentBy, SubTypes
    <3>. QED  BY <1>1, <2>1, <2>2, <2>3, <2>4, <3>1 DEF SentBy
  <2>6. \A d \in Conns \ {k} : Still(d)
    BY <1>1, <2>1 DEF Still, SubTypes
  <2> QED  BY <1>0, <2>1, <2>4, <2>5, <2>6, OrderLocal
<1>3. CASE AskFails(s) \/ EndSubscribed(s) \/ Lost(s)
  <2>1. /\ peerGone' = peerGone \cup {k} /\ wire' = [wire EXCEPT ![k] = <<>>]
        /\ UNCHANGED <<nconns, of, fd, open, pubVars, reading, calling, got>>
        /\ mStopCallInProgress' \subseteq mStopCallInProgress \cup {k}
    BY <1>0, <1>3 DEF AskFails, EndSubscribed, Lost, CloseEnd
  <2>2. wire'[k] = <<>>
    BY <1>0, <2>1 DEF SubTypes
  <2>3. Chain(k)'
    BY <1>0, <1>1, <2>1, <2>2, Cut
  <2>4. SentBy(k)'
    BY <1>1, <2>1, <2>2 DEF SentBy
  <2>5. \A d \in Conns \ {k} : Still(d)
    BY <1>1, <2>1 DEF Still, SubTypes
  <2> QED  BY <1>0, <2>1, <2>3, <2>4, <2>5, OrderLocal
<1>4. CASE EndSubscribe(s)
  <2>1. /\ UNCHANGED <<nconns, of, fd, open, wire, peerGone, pubVars, reading, calling, got>>
        /\ mStopCallInProgress' = mStopCallInProgress
    BY <1>4 DEF EndSubscribe, connVars
  <2>2. \A d \in Conns : Still(d)
    BY <1>1, <2>1 DEF Still
  <2>3. Chain(k)' /\ LastOf(k)' = LastOf(k) /\ SentBy(k)'
    BY <1>0, <1>1, <2>1, <2>2, StillOps DEF SentBy
  <2> QED  BY <1>0, <2>1, <2>2, <2>3, OrderLocal
<1> QED  BY <1>2, <1>3, <1>4

\* A new connection has a descriptor of its own.
LEMMA OrderBegin ==
    ASSUME ~ReusesFds, OrderInv, NEW s \in Subscribers, BeginSubscribe(s)
    PROVE  InvOfOrder'
<1> USE DEF OrderInv, InvOfOrder, SubInv
<1>0. PICK n \in Nat : n = nconns + 1
  BY Bounds
<1>1. /\ nconns < MaxConns /\ nconns' = n
      /\ fd' = [fd EXCEPT ![nconns'] = NewFd] /\ open' = open \cup {nconns'}
      /\ session' = [session EXCEPT ![nconns'] = "accepted"]
      /\ UNCHANGED <<wire, peerGone, informed, published, mClientTransports, sending, sent>>
      /\ UNCHANGED <<publishing, from, reading, calling, got, mStopCallInProgress>>
  BY <1>0 DEF BeginSubscribe, sendVars
<1>2. n \in Conns /\ n \notin 1 .. nconns /\ nconns \in Nat /\ n = nconns + 1
  BY <1>0, <1>1, Bounds DEF Conns
<1>3. NewFd = n
  <2>1. Taken = 1 .. nconns
    BY DEF Taken, Descriptors
  <2>2. n \in (1 .. MaxConns) \ Taken /\ \A y \in (1 .. MaxConns) \ Taken : n <= y
    BY <1>1, <1>2, <2>1, Bounds
  <2>3. \A x \in (1 .. MaxConns) \ Taken : (\A y \in (1 .. MaxConns) \ Taken : x <= y) => x = n
    BY <2>2
  <2>. QED  BY <2>2, <2>3 DEF NewFd, Min
<1>4. session[n] = "none" /\ session'[n] = "accepted"
  BY <1>1, <1>2 DEF Descriptors, OrderTypes
<1>5. \A d \in Conns : Still(d) /\ (d # n => session'[d] = session[d])
  BY <1>1, <1>2 DEF Still, OrderTypes
<1>6. Chain(n)' /\ SentBy(n)'
  BY <1>1, <1>2, <1>4, <1>5, StillOps DEF Sessions, SentBy
<1>7. Sessions'
  BY <1>1, <1>5, <1>6, Frame DEF Sessions
<1>8. Listed' = Listed /\ n \notin Listed
  BY <1>1, <1>4 DEF Listed, Lists
<1>9. Lists'
  <2>1. \A d \in Listed : session'[d] = session[d]
    BY <1>5, <1>8, ListedConns
  <2>. QED  BY <1>1, <1>8, <2>1 DEF Lists
<1>10. OrderTypes'
  BY <1>1, <1>2, <1>3 DEF OrderTypes
<1>11. Descriptors'
  <2>1. open' \subseteq 1 .. nconns'
    BY <1>1, <1>2 DEF Descriptors
  <2>2. \A d \in 1 .. nconns' : fd'[d] = d
    BY <1>1, <1>2, <1>3 DEF Descriptors, OrderTypes, Conns
  <2>3. \A d \in Conns : d > nconns' => d > nconns /\ d # n
    BY <1>1, <1>2 DEF Conns
  <2>. QED  BY <1>1, <1>5, <2>1, <2>2, <2>3 DEF Descriptors
<1>12. UpToDate'
  <2>1. Fed(n)'
    BY <1>4 DEF Fed
  <2>. QED  BY <1>1, <1>5, <1>8, <2>1, FedFrame DEF UpToDate
<1> QED  BY <1>7, <1>9, <1>10, <1>11, <1>12

\* Every step keeps the order, if a descriptor is not given again.
LEMMA OrderNext ==
    ASSUME ~ReusesFds, OrderInv, [Next]_vars
    PROVE  OrderInv'
<1> USE DEF OrderInv
<1>1. SubInv'
  BY SubNext
<1>2. CASE UNCHANGED vars
  <2>1. UNCHANGED <<nconns, of, fd, open, wire, peerGone, session, from, published, mClientTransports>>
    BY <1>2 DEF vars, connVars, pubVars, sendVars
  <2>2. UNCHANGED <<sending, sent, publishing, reading, calling, got, mStopCallInProgress>>
    BY <1>2 DEF vars, pubVars, sendVars, subVars
  <2>3. \A d \in Conns : Still(d)
    BY <2>1, <2>2 DEF Still
  <2>4. Sessions' /\ UpToDate' /\ Listed' = Listed
    BY <2>1, <2>2, <2>3, Frame, FedFrame DEF InvOfOrder, Sessions, UpToDate, Listed
  <2>. QED  BY <1>1, <2>1, <2>2, <2>4 DEF InvOfOrder, OrderTypes, Lists, Descriptors
<1>3. ASSUME NEW k \in Conns, PubThread(k) \/ Disconnect(k) \/ Send(k) \/ SubThread(k)
      PROVE  InvOfOrder'
  BY <1>3, OrderSession, OrderVisit, OrderSubThread
<1>4. ASSUME BeginSend \/ EndSend
      PROVE  InvOfOrder'
  BY <1>4, OrderSwap
<1>5. ASSUME Drop
      PROVE  InvOfOrder'
  <2>1. 1 \in Conns
    BY PublishAssumption DEF Conns
  <2>. QED  BY <1>5, <2>1, OrderVisit
<1>6. ASSUME NEW s \in Subscribers,
             \/ BeginSubscribe(s) \/ OnRequestSubscriptionCompleted(s) \/ AskFails(s)
             \/ EndSubscribe(s) \/ EndSubscribed(s) \/ Lost(s)
      PROVE  InvOfOrder'
  BY <1>6, OrderBegin, OrderSubscriber
<1> QED
  BY <1>1, <1>2, <1>3, <1>4, <1>5, <1>6 DEF Next

LEMMA OrderInit == Init => OrderInv
<1> SUFFICES ASSUME Init PROVE OrderInv
  OBVIOUS
<1>1. /\ \A k \in Conns : wire[k] = <<>> /\ got[k] = None /\ calling[k] = None /\ reading[k] = None
      /\ \A k \in Conns : session[k] = "none" /\ from[k] = None
  BY DEF Init, All
<1>2. Sessions
  BY <1>1, EmptySeq DEF Sessions, Chain, SentBy, Init
<1>3. Lists
  <2>1. Range(<<>>) = {} /\ IsInjective(<<>>) /\ <<>> \in Seq(Conns)
    BY EmptySeq, ListOps
  <2>. QED  BY <2>1 DEF Init, Lists, Listed
<1>4. OrderTypes
  <2>1. 0 \in 0 .. MaxPublished /\ 0 \in Nat
    BY PublishAssumption
  <2>. QED  BY <2>1 DEF Init, OrderTypes, All, None
<1>5. Descriptors
  BY <1>1 DEF Init, Descriptors
<1>6. UpToDate
  BY DEF Init, UpToDate
<1> QED  BY <1>2, <1>3, <1>4, <1>5, <1>6, SubInit DEF OrderInv, InvOfOrder

\* The invariant says what the messages of a connection are.
LEMMA OrderFromInv == OrderInv => InOrder
<1> SUFFICES ASSUME OrderInv, NEW k \in Conns
             PROVE  /\ got[k] = None /\ wire[k] # <<>> => Head(wire[k]) = Reply
                    /\ \A i \in 2 .. Len(Messages(k)) :
                           Follows(k, Messages(k)[i - 1], Messages(k)[i])
                    /\ ~publishing /\ session[k] = "subscribed" /\ k \in open \ peerGone =>
                           Messages(k)[Len(Messages(k))] \in {published, Reply}
                           /\ (Messages(k)[Len(Messages(k))] = Reply => from[k] = published)
  BY DEF InOrder, Follows
<1> USE DEF OrderInv, InvOfOrder, SubInv
<1> DEFINE w == wire[k]  m == Messages(k)
<1>1. /\ w \in Seq(Nat) /\ Len(w) \in Nat /\ got[k] \in Nat /\ calling[k] \in Nat
      /\ reading[k] \in Nat /\ Chain(k)
  BY LenProperties DEF SubTypes, Sessions
<1>2. got[k] = None /\ w # <<>> => Head(w) = Reply
  BY <1>1 DEF Chain
<1>3. /\ Len(m) \in Nat
      /\ \A i \in 2 .. Len(m) : Follows(k, m[i - 1], m[i])
      /\ LastOf(k) # None => m[Len(m)] = LastOf(k)
  <2>1. CASE got[k] = None
    <3>1. m = w
      BY <1>1, <2>1, ConcatEmptySeq, EmptySeq DEF Messages, Known, Chain
    <3>2. LastOf(k) # None => m[Len(m)] = LastOf(k)
      BY <2>1, <3>1 DEF LastOf, Seen, Chain, Sessions
    <3>. QED  BY <1>1, <3>1, <3>2 DEF Chain
  <2>2. CASE got[k] # None /\ reading[k] = None /\ calling[k] = None
    <3>1. m = <<got[k]>> \o w
      <4>1. /\ Known(got[k]) = <<got[k]>> /\ Known(calling[k]) = <<>> /\ Known(reading[k]) = <<>>
            /\ <<got[k]>> \in Seq(Nat)
        BY <1>1, <2>2 DEF Known
      <4>. QED  BY <4>1, ConcatEmptySeq DEF Messages
    <3>2. /\ w # <<>> => Follows(k, got[k], w[1])
          /\ \A i \in 2 .. Len(w) : Follows(k, w[i - 1], w[i])
      BY <1>1, <2>2 DEF Chain, Seen
    <3>3. LastOf(k) = IF w = <<>> THEN got[k] ELSE w[Len(w)]
      BY <2>2 DEF LastOf, Seen
    <3>. DEFINE v == <<got[k]>> \o w
    <3>4. /\ Len(v) \in Nat /\ \A i \in 2 .. Len(v) : Follows(k, v[i - 1], v[i])
          /\ v[Len(v)] = IF w = <<>> THEN got[k] ELSE w[Len(w)]
      BY <1>1, <3>2, Prefixed
    <3>5. m = v
      BY <3>1
    <3>. HIDE DEF m, v
    <3>. QED  BY <3>3, <3>4, <3>5
  <2>3. CASE got[k] # None /\ (reading[k] # None \/ calling[k] # None)
    <3>1. Seen(k) \in Nat /\ Seen(k) # None /\ Follows(k, got[k], Seen(k))
      BY <1>1, <2>3 DEF Seen, Chain
    <3>2. m = (<<got[k]>> \o <<Seen(k)>>) \o w
      <4>1. Known(got[k]) = <<got[k]>> /\ <<got[k]>> \in Seq(Nat)
        BY <1>1, <2>3 DEF Known
      <4>2. \/ Known(calling[k]) = <<>> /\ Known(reading[k]) = <<Seen(k)>>
            \/ Known(calling[k]) = <<Seen(k)>> /\ Known(reading[k]) = <<>>
        BY <1>1, <2>3 DEF Known, Seen, Chain
      <4>3. <<got[k]>> \o <<>> = <<got[k]>>
        BY <4>1, ConcatEmptySeq
      <4>4. <<got[k]>> \o <<Seen(k)>> \in Seq(Nat)
        BY <1>1, <3>1
      <4>5. (<<got[k]>> \o <<Seen(k)>>) \o <<>> = <<got[k]>> \o <<Seen(k)>>
        BY <4>4, ConcatEmptySeq
      <4>. QED  BY <4>1, <4>2, <4>3, <4>5 DEF Messages
    <3>3. m = <<got[k]>> \o (<<Seen(k)>> \o w)
      BY <1>1, <3>1, <3>2, ConcatAssociative
    <3>4. /\ w # <<>> => Follows(k, Seen(k), w[1])
          /\ \A i \in 2 .. Len(w) : Follows(k, w[i - 1], w[i])
      BY <1>1, <2>3 DEF Chain
    <3>5. LastOf(k) = IF w = <<>> THEN Seen(k) ELSE w[Len(w)]
      BY DEF LastOf
    <3>. DEFINE v == <<Seen(k)>> \o w
    <3>6. /\ v \in Seq(Nat) /\ Len(v) \in Nat /\ v[1] = Seen(k) /\ v # <<>>
          /\ \A i \in 2 .. Len(v) : Follows(k, v[i - 1], v[i])
          /\ v[Len(v)] = LastOf(k)
      BY <1>1, <3>1, <3>4, <3>5, Prefixed
    <3>7. m = <<got[k]>> \o v
      BY <3>3
    <3>8. v # <<>> => Follows(k, got[k], v[1])
      BY <3>1, <3>6
    <3>. HIDE DEF m, v
    <3>. QED  BY <1>1, <3>6, <3>7, <3>8, Prefixed
  <2>. QED  BY <1>1, <2>1, <2>2, <2>3 DEF Chain
<1>4. ASSUME ~publishing, session[k] = "subscribed", k \in open \ peerGone
      PROVE  m[Len(m)] \in {published, Reply} /\ (m[Len(m)] = Reply => from[k] = published)
  <2>1. Level(k) = published /\ LastOf(k) # None
    BY <1>4, ListOps DEF UpToDate, Fed, Lists, Sessions, SentBy
  <2>2. m[Len(m)] = LastOf(k)
    BY <1>3, <2>1
  <2>. QED  BY <2>1, <2>2 DEF Level
<1> QED  BY <1>2, <1>3, <1>4

\* Over every connection a subscriber gets the reply to its request, then every
\* message published since it was added, in order and without a gap: for any
\* subscribers, connections, messages and window, objects that are subscribed
\* anew included, if the descriptor of a closed connection is not given again.
THEOREM InOrderHolds == ASSUME ~ReusesFds PROVE Spec => []InOrder
<1>1. OrderInv /\ [Next]_vars => OrderInv'
  BY OrderNext
<1>. QED  BY <1>1, OrderInit, OrderFromInv, PTL DEF Spec
=============================================================================
