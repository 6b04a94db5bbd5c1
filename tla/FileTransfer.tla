---------------------------- MODULE FileTransfer ----------------------------
(***************************************************************************)
(* Files that clients upload by token (FileTransferService.cpp and         *)
(* ClientStub::uploadFile): an upload is an object of the object factory,  *)
(* with a temporary file that grows chunk by chunk, through a stream that  *)
(* may notice late, or never, that a write has failed.  All files have the *)
(* same size.  A chunk is the record of the client and its place in the    *)
(* file, and what a file has is the set of its chunks.                     *)
(***************************************************************************)
EXTENDS ObjectFactory

CONSTANTS Chunks,       \* chunks of a file
          SameNames,    \* rand() gives two threads the same name at a time
          Reconnecting, \* clients whose connections may end
          MaxUploads,   \* bound: uploads that are there when another begins
          MaxFailing    \* bound: the last object whose stream may fail

ASSUME FileAssumption ==
    /\ {Chunks, MaxUploads, MaxFailing} \subseteq Nat \ {0} /\ Reconnecting \subseteq Clients
    /\ SameNames \in BOOLEAN

VARIABLES
    \* the uploads
    streamPos,  \* chunks the file stream has accepted: where it stands
    mUploader,  \* the session that uploads, NoSession before the first chunk
    mCompleted, mFailed,
    \* their files
    tested,     \* the last object whose file does not have the name that is drawn
    path,       \* the upload that has first opened the file, or 0
    file,       \* the chunks in it
    unnoticed,  \* history: uploads with a failure that the code has not noticed
    \* the clients
    upload,     \* state of uploadFile: "none" also when it has failed
    pos         \* chunks it has sent, 0 when it is not sending

fileVars == <<tested, path, file, unnoticed>>
uploadVars == <<streamPos, mUploader, mCompleted, mFailed, fileVars>>
uploaderVars == <<upload, pos>>
ftVars == <<ofVars, uploadVars, uploaderVars>>

\* The client's session, and any that it has had before.
NoSession == <<>>
Session(c) == <<c, TRUE>>
Ended(c) == <<c, FALSE>>

FtInit ==
    /\ OfInit
    /\ streamPos = [o \in Objects |-> 0]
    /\ mUploader = [o \in Objects |-> NoSession]
    /\ mCompleted = {} /\ mFailed = {}
    /\ tested = [c \in Clients |-> 0] /\ path = [o \in Objects |-> 0]
    /\ file = [o \in Objects |-> {}] /\ unnoticed = {}
    /\ upload = [c \in Clients |-> "none"] /\ pos = [c \in Clients |-> 0]

\* The objects that something still refers to.  With the last reference an
\* upload is destroyed, and its file is removed.
Live == {o \in Objects : (\E t \in Tokens : mStubMap[t] = o) \/ \E c \in Clients : ref[c] = o}

\* The uploads whose streams are open on file f.
InFile(f) == {o \in Live : path[o] = f}

\* uploadFile sends its first chunk: prepareUploadImpl draws a name for a
\* temporary file that no file has ...
PrepareUpload(c) ==
    /\ Ready(c) /\ upload[c] # "sending"
    /\ nobjects < MaxObjects /\ Cardinality({o \in Objects : kind[o] = "upload"}) < MaxUploads
    /\ tested' = [tested EXCEPT ![c] = IF SameNames THEN nobjects ELSE MaxObjects]
    /\ upload' = [upload EXCEPT ![c] = "sending"] /\ pos' = [pos EXCEPT ![c] = 1]
    /\ pc' = [pc EXCEPT ![c] = "open"] /\ cached' = [cached EXCEPT ![c] = 0]
    /\ UNCHANGED <<tokenVars, sweepVars, objectVars, newToken, ref, clientVars,
                   streamPos, mUploader, mCompleted, mFailed, path, file, unnoticed>>

\* Mutant of Found: fileExists is not called.
FoundAny(c) == {path[o] : o \in Live} \ {0}

\* The files that may have the name by now.
Found(c) == {path[o] : o \in Live} \cap (tested[c] + 1 .. MaxObjects)

\* Opening a file empties it, for whoever else has it open too.
Truncate(f) == file' = [o \in Objects |-> IF o \in InFile(f) THEN {} ELSE file[o]]

\* ... opens the file, and takes a token ...
OpenUpload(c) ==
    /\ pc[c] = "open"
    /\ NewObject(c, "upload")
    /\ \E f \in Found(c) \cup {nobjects + 1} :
           path' = [path EXCEPT ![nobjects + 1] = f] /\ Truncate(f)
    /\ tested' = [tested EXCEPT ![c] = 0]
    /\ UNCHANGED <<streamPos, mUploader, mCompleted, mFailed, unnoticed, uploaderVars>>

\* prepareUploadImpl is done.
AddUpload(c) ==
    /\ AddObject(c) /\ kind[ref[c]] = "upload"
    /\ ref' = [ref EXCEPT ![c] = 0]
    /\ pc' = [pc EXCEPT ![c] = "find"]
    /\ UNCHANGED <<cached, uploadVars, uploaderVars>>

\* uploadFile sends another chunk.
UploadChunk(c) ==
    /\ Ready(c) /\ upload[c] = "sending"
    /\ pos' = [pos EXCEPT ![c] = @ + 1]
    /\ pc' = [pc EXCEPT ![c] = "find"] /\ cached' = [cached EXCEPT ![c] = 0]
    /\ UNCHANGED <<tokenVars, sweepVars, objectVars, newToken, ref, clientVars,
                   uploadVars, upload>>

\* The reply to the chunk: uploadFile goes on, ends or throws.
Answer(c, ok) ==
    /\ pc' = [pc EXCEPT ![c] = "idle"] /\ ref' = [ref EXCEPT ![c] = 0]
    /\ upload' = [upload EXCEPT ![c] = IF ~ok THEN "none"
                                       ELSE IF pos[c] = Chunks THEN "done" ELSE "sending"]
    /\ pos' = [pos EXCEPT ![c] = IF upload'[c] = "sending" THEN @ ELSE 0]
    /\ UNCHANGED <<tokenVars, sweepVars, nobjects, kind, owner, deleted, newToken, cached,
                   clientVars>>

\* ... unless it does not open, or there is no token.
OpenFails(c) ==
    /\ pc[c] = "open"
    /\ UNCHANGED file \/ \E f \in Found(c) : Truncate(f)
    /\ tested' = [tested EXCEPT ![c] = 0]
    /\ Answer(c, FALSE)
    /\ UNCHANGED <<old, streamPos, mUploader, mCompleted, mFailed, path, unnoticed>>

\* findTokenMappedUpload.
FindTokenMappedUpload(c) ==
    LET o == mStubMap[token[c]]
    IN  /\ pc[c] = "find" /\ o # 0 /\ kind[o] = "upload"
        /\ ref' = [ref EXCEPT ![c] = o] /\ Touch(o)
        /\ pc' = [pc EXCEPT ![c] = "chunk"]
        /\ UNCHANGED <<tokenVars, sweepVars, nobjects, kind, owner, deleted, newToken, cached,
                       clientVars, uploadVars, uploaderVars>>

NoUpload(c) ==
    /\ pc[c] = "find"
    /\ LET o == mStubMap[token[c]] IN ~(o # 0 /\ kind[o] = "upload")
    /\ Answer(c, FALSE)
    /\ UNCHANGED <<old, uploadVars>>

\* Only the session of the first chunk may go on with an upload.
MayUpload(c, o) == mUploader[o] \in {NoSession, Session(c)}

ConcurrentUpload(c) ==
    /\ pc[c] = "chunk" /\ ~MayUpload(c, ref[c])
    /\ Answer(c, FALSE)
    /\ UNCHANGED <<old, uploadVars>>

\* The offset must be where the stream stands, and the chunk fit in the file.
AtOffset(c, o) == pos[c] - 1 = streamPos[o] /\ o \notin mCompleted /\ pos[c] <= Chunks

MayFail(o) == o <= MaxFailing

\* The stream does not accept the chunk: an earlier write has failed, it is for
\* another offset, or tellp fails, so that no offset is the right one.
Refuse(c) ==
    LET o == ref[c]
    IN  /\ pc[c] = "chunk" /\ MayUpload(c, o)
        /\ o \in mFailed \/ ~AtOffset(c, o) \/ MayFail(o)
        /\ mUploader' = [mUploader EXCEPT ![o] = Session(c)]
        /\ Answer(c, FALSE)
        /\ UNCHANGED <<old, streamPos, mCompleted, mFailed, fileVars>>

\* The stream accepts the chunk.
Accept(c, o) ==
    /\ mUploader' = [mUploader EXCEPT ![o] = Session(c)]
    /\ streamPos' = [streamPos EXCEPT ![o] = @ + 1]
    /\ Answer(c, TRUE)
    /\ UNCHANGED <<old, mFailed, tested, path>>

\* The chunk gets to the file, in the place of what is there.
ToFile(c, o) ==
    /\ Accept(c, o)
    /\ file' = [x \in Objects |->
                   IF x \in InFile(path[o])
                   THEN {ch \in file[x] : ch.at # pos[c]} \cup {[of |-> c, at |-> pos[c]]}
                   ELSE file[x]]
    /\ mCompleted' = mCompleted \cup {x \in {o} : streamPos'[o] = Chunks}
    /\ UNCHANGED unnoticed

\* Mutants of WriteChunk: neither the session nor the offset is checked.
WriteChunkAnywhere(c) ==
    LET o == ref[c]
    IN  /\ pc[c] = "chunk" /\ MayUpload(c, o) /\ o \notin mFailed \cup mCompleted
        /\ ToFile(c, o)

WriteChunkOfAny(c) ==
    LET o == ref[c]
    IN  pc[c] = "chunk" /\ o \notin mFailed /\ AtOffset(c, o) /\ ToFile(c, o)

\* The chunk is one that uploadChunkImpl writes.
Writes(c, o) ==
    pc[c] = "chunk" /\ o = ref[c] /\ MayUpload(c, o) /\ o \notin mFailed /\ AtOffset(c, o)

\* It writes the chunk.
WriteChunk(c) == Writes(c, ref[c]) /\ ToFile(c, ref[c])

\* The stream fails at once: the disk is full, say.
WriteFails(c) ==
    /\ Writes(c, ref[c]) /\ MayFail(ref[c])
    /\ mUploader' = [mUploader EXCEPT ![ref[c]] = Session(c)]
    /\ mFailed' = mFailed \cup {ref[c]}
    /\ Answer(c, FALSE)
    /\ UNCHANGED <<old, streamPos, mCompleted, fileVars>>

\* The stream fails when it gets its buffer to the file, in tellp or in close.
\* Nothing checks that: without its position an upload is not complete yet, but
\* one whose stream does not close is.
FlushFails(c) ==
    LET o == ref[c]
    IN  /\ Writes(c, o) /\ MayFail(o) /\ Accept(c, o)
        /\ \/ UNCHANGED mCompleted
           \/ streamPos'[o] = Chunks /\ mCompleted' = mCompleted \cup {o}
        /\ unnoticed' = unnoticed \cup {o}
        /\ UNCHANGED file

\* The connection has ended; the client goes on over a new one.  (The end of a
\* session that neither uploads nor has an object cached changes nothing.)
NewSession(c) ==
    /\ EndSession(c)
    /\ c \in Reconnecting /\ (upload[c] = "sending" \/ cached[c] # 0)
    /\ mUploader' = [o \in Objects |-> IF mUploader[o] = Session(c) THEN Ended(c) ELSE mUploader[o]]
    /\ UNCHANGED <<streamPos, mCompleted, mFailed, fileVars, uploaderVars>>

-----------------------------------------------------------------------------
UploadThread(c) ==
    \/ OpenUpload(c) \/ OpenFails(c) \/ AddUpload(c)
    \/ FindTokenMappedUpload(c) \/ NoUpload(c) \/ ConcurrentUpload(c)
    \/ Refuse(c) \/ WriteChunk(c) \/ WriteFails(c) \/ FlushFails(c)

\* The steps of ObjectFactory.  A client uses its target token, or deletes
\* its object, only when no upload of its own is under way.
Objs(c) ==
    /\ \/ CreateObject(c) /\ upload[c] # "sending" /\ upload' = [upload EXCEPT ![c] = "none"]
       \/ (Invoke(c) \/ DeleteObject(c)) /\ upload[c] # "sending" /\ UNCHANGED upload
       \/ OfThread(c) /\ UNCHANGED upload
    /\ UNCHANGED <<uploadVars, pos>>

\* The time-out of an object is longer than the thread takes from storing it
\* to finding it.
Passes(o) == Age(o) /\ \A c \in Clients : ~(pc[c] = "find" /\ mine[c] = o)

FtNext ==
    \/ \E c \in Clients : Objs(c) \/ PrepareUpload(c) \/ UploadChunk(c) \/ UploadThread(c)
                          \/ NewSession(c)
    \/ (Sweep \/ \E o \in Objects : Passes(o)) /\ UNCHANGED <<uploadVars, uploaderVars>>

\* The thread of the service runs.
FtFairness == WF_ftVars(Sweep /\ UNCHANGED <<uploadVars, uploaderVars>>)

FtSpec == FtInit /\ [][FtNext]_ftVars /\ FtFairness

-----------------------------------------------------------------------------
\* A file that is complete for the server is the file that its client has sent:
\* every chunk once, in its place, and none of anybody else; and what is done
\* for the client is complete; whatever becomes of connections, tokens, names
\* and other clients' files meanwhile.  Only a failure that the stream reports
\* where the code does not look makes an exception.
UploadIntact ==
    /\ \A o \in mCompleted \ unnoticed :
           file[o] = {[of |-> owner[o], at |-> i] : i \in 1 .. Chunks}
    /\ \A c \in Clients : upload[c] = "done" => mine[c] \in mCompleted \cup unnoticed
=============================================================================
