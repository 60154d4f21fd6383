---------------------------- MODULE RemoteUpload ----------------------------
(***************************************************************************)
(* The chunked upload of one artifact of one remote attempt: _upload of    *)
(* remote_worker.py and _store_upload_chunk of remote_api.py.  The server  *)
(* keeps the bytes in a partial file beside a metadata file until the      *)
(* final chunk.  A request holds the file lock from its first step to its  *)
(* answer, so one request at a time is between its steps.  The network may *)
(* deliver a request late and more than once, the server or its host may   *)
(* crash between any two steps, the client's file may change after it was  *)
(* hashed, and the client never sends again after an error or a timeout.   *)
(* The client holds the lease of the attempt.                              *)
(***************************************************************************)
EXTENDS Naturals, Sequences

CONSTANTS
    Bytes,          \* the size of the artifact
    ChunkBytes,     \* MAX_CHUNK_BYTES
    NoFile,
    MaxCrashes      \* bound

\* A byte that is not the artifact's: a file was extended but its data did
\* not reach the disk, or the client read it after a change.
Other == 0

ASSUME UploadAssumption ==
    /\ Bytes \in Nat \ {0}
    /\ ChunkBytes \in Nat \ {0}
    /\ NoFile \notin Seq(0..Bytes)
    /\ MaxCrashes \in Nat

Artifact == [n \in 1..Bytes |-> n]
Requests == [offset : 0..Bytes - 1, changed : BOOLEAN]

VARIABLES
    client,         \* send, wait, uploaded, or gaveup
    offset,         \* the offset of the client's current chunk
    changed,        \* the client's file is no longer what it hashed
    requests,       \* what the network may still deliver
    reply,          \* the answer to the request the client waits for
    handler,        \* the next step of the request that holds the lock
    request,        \* that request
    destination, partial, metadata,     \* the files
    crashes

clientVars == <<client, offset, changed, requests>>
files == <<destination, partial, metadata>>
uploadVars == <<clientVars, reply, handler, request, files, crashes>>

\* The variables keep to what the two programs can hold: offsets stay inside
\* the artifact (invalid-offset), and the partial file never outgrows it.
UploadTypeOK ==
    /\ client \in {"send", "wait", "uploaded", "gaveup"}
    /\ offset \in 0..Bytes - 1
    /\ changed \in BOOLEAN
    /\ requests \subseteq Requests
    /\ reply \in [kind : {"none", "next", "complete", "refused"}, next : 0..Bytes]
    /\ handler \in {"idle", "open", "describe", "touch", "append", "write", "seal",
                    "discard", "unlink"}
    /\ request \in Requests
    /\ destination = NoFile \/ destination \in Seq(0..Bytes)
    /\ partial = NoFile \/ (partial \in Seq(0..Bytes) /\ Len(partial) <= Bytes)
    /\ metadata \in {"none", "torn", "whole"}
    /\ crashes \in 0..MaxCrashes

NoReply == [kind |-> "none", next |-> 0]

UploadInit ==
    /\ client = "send"
    /\ offset = 0
    /\ changed = FALSE
    /\ requests = {}
    /\ reply = NoReply
    /\ handler = "idle"
    /\ request = [offset |-> 0, changed |-> FALSE]
    /\ destination = NoFile
    /\ partial = NoFile
    /\ metadata = "none"
    /\ crashes = 0

\* The end of the chunk at o: every chunk is full but the last one.
ChunkEnd(o) == IF o + ChunkBytes < Bytes THEN o + ChunkBytes ELSE Bytes
Final(o) == ChunkEnd(o) = Bytes

\* The bytes of request q.
Chunk(q) ==
    LET bytes == SubSeq(Artifact, q.offset + 1, ChunkEnd(q.offset))
    IN IF q.changed THEN [n \in DOMAIN bytes |-> Other] ELSE bytes

-----------------------------------------------------------------------------
(* The client.                                                             *)

Send ==
    /\ client = "send"
    /\ requests' = requests \cup {[offset |-> offset, changed |-> changed]}
    /\ reply' = NoReply
    /\ client' = "wait"
    /\ UNCHANGED <<offset, changed, handler, request, files, crashes>>

ReceiveComplete ==
    /\ client = "wait"
    /\ reply.kind = "complete"
    /\ client' = "uploaded"
    /\ UNCHANGED <<offset, changed, requests, reply, handler, request, files, crashes>>

\* Mutant: the client checks the acknowledgement and does not move on.
ReceiveNextSame ==
    /\ client = "wait"
    /\ reply.kind = "next"
    /\ client' = IF reply.next < ChunkEnd(offset) THEN "gaveup" ELSE "send"
    /\ UNCHANGED <<offset, changed, requests, reply, handler, request, files, crashes>>

\* The server holds more than was sent; when it holds everything without
\* having finished, the last full chunk is sent again as the final one.
ReceiveNext ==
    /\ client = "wait"
    /\ reply.kind = "next"
    /\ IF reply.next < ChunkEnd(offset)
       THEN client' = "gaveup" /\ UNCHANGED offset
       ELSE /\ offset' = IF reply.next < Bytes THEN reply.next
                         ELSE IF Bytes > ChunkBytes THEN Bytes - ChunkBytes ELSE 0
            /\ client' = "send"
    /\ UNCHANGED <<changed, requests, reply, handler, request, files, crashes>>

\* An error answer, a lost connection or a timeout: the attempt fails.
GiveUp ==
    /\ client = "wait"
    /\ client' = "gaveup"
    /\ UNCHANGED <<offset, changed, requests, reply, handler, request, files, crashes>>

\* Something else writes the client's file after _upload hashed it.
Change ==
    /\ client \in {"send", "wait"}
    /\ ~changed
    /\ changed' = TRUE
    /\ UNCHANGED <<client, offset, requests, reply, handler, request, files, crashes>>

-----------------------------------------------------------------------------
(* The server.                                                             *)

HandlerTo(step) == handler' = step /\ UNCHANGED <<request, reply>>

\* The request ends; a client that waits for it may get the answer.
Answer(kind, n) ==
    /\ handler' = "idle"
    /\ reply' = IF client = "wait" /\ request.offset = offset
                THEN [kind |-> kind, next |-> n] ELSE reply
    /\ UNCHANGED request

Refuse == Answer("refused", 0)

Begin(q) ==
    /\ handler = "idle"
    /\ q \in requests
    /\ request' = q
    /\ handler' = "open"
    /\ UNCHANGED <<clientVars, reply, files, crashes>>

OpenUpload ==
    /\ handler = "open"
    /\ CASE destination = Artifact -> Answer("complete", Bytes) /\ UNCHANGED files
         [] destination = NoFile /\ partial = NoFile /\ metadata = "none" /\ request.offset = 0
              -> metadata' = "torn" /\ HandlerTo("describe") /\ UNCHANGED <<destination, partial>>
         [] destination = NoFile /\ partial # NoFile /\ metadata = "whole"
              -> HandlerTo("append") /\ UNCHANGED files
         [] OTHER -> Refuse /\ UNCHANGED files
    /\ UNCHANGED <<clientVars, crashes>>

Describe ==
    /\ handler = "describe"
    /\ metadata' = "whole"
    /\ HandlerTo("touch")
    /\ UNCHANGED <<clientVars, destination, partial, crashes>>

Touch ==
    /\ handler = "touch"
    /\ partial' = <<>>
    /\ HandlerTo("append")
    /\ UNCHANGED <<clientVars, destination, metadata, crashes>>

\* A chunk goes to the end of the partial file, or repeats what is there.
Compare ==
    /\ handler = "append"
    /\ CASE Len(partial) = request.offset -> HandlerTo("write")
         [] /\ Len(partial) > request.offset
            /\ Len(partial) >= ChunkEnd(request.offset)
            /\ SubSeq(partial, request.offset + 1, ChunkEnd(request.offset)) = Chunk(request)
              -> HandlerTo("seal")
         [] OTHER -> Refuse
    /\ UNCHANGED <<clientVars, files, crashes>>

Write ==
    /\ handler = "write"
    /\ partial' = partial \o Chunk(request)
    /\ HandlerTo("seal")
    /\ UNCHANGED <<clientVars, destination, metadata, crashes>>

\* Mutant: the size is checked, the digest is not.
SealBySize ==
    /\ handler = "seal"
    /\ IF ~Final(request.offset)
       THEN Answer("next", Len(partial)) /\ UNCHANGED <<destination, partial>>
       ELSE /\ Len(partial) = Bytes
            /\ destination' = partial
            /\ partial' = NoFile
            /\ HandlerTo("unlink")
    /\ UNCHANGED <<clientVars, metadata, crashes>>

\* The final chunk: check size and digest, then rename.
Seal ==
    /\ handler = "seal"
    /\ CASE ~Final(request.offset)
              -> Answer("next", Len(partial)) /\ UNCHANGED <<destination, partial>>
         [] Final(request.offset) /\ Len(partial) # Bytes
              -> Refuse /\ UNCHANGED <<destination, partial>>
         [] Final(request.offset) /\ Len(partial) = Bytes /\ partial # Artifact
              -> partial' = NoFile /\ HandlerTo("discard") /\ UNCHANGED destination
         [] Final(request.offset) /\ partial = Artifact
              -> destination' = partial /\ partial' = NoFile /\ HandlerTo("unlink")
    /\ UNCHANGED <<clientVars, metadata, crashes>>

Discard ==
    /\ handler = "discard"
    /\ metadata' = "none"
    /\ Refuse
    /\ UNCHANGED <<clientVars, destination, partial, crashes>>

Unlink ==
    /\ handler = "unlink"
    /\ metadata' = "none"
    /\ Answer("complete", Bytes)
    /\ UNCHANGED <<clientVars, destination, partial, crashes>>

\* A crash in the middle of a write leaves some of the chunk, whose last
\* byte may be lost.
Torn(q) ==
    {SubSeq(Chunk(q), 1, n) : n \in 0..Len(Chunk(q))}
        \cup {Append(SubSeq(Chunk(q), 1, n), Other) : n \in 0..Len(Chunk(q)) - 1}

Crash ==
    /\ handler # "idle"
    /\ crashes < MaxCrashes
    /\ crashes' = crashes + 1
    /\ handler' = "idle"
    /\ IF handler = "write"
       THEN \E bytes \in Torn(request) : partial' = partial \o bytes
       ELSE UNCHANGED partial
    /\ UNCHANGED <<clientVars, reply, request, destination, metadata>>

\* The directory is flushed only after the rename: until then the names of
\* the partial upload may vanish with the power, and the rename be undone.
HostLoses ==
    /\ crashes < MaxCrashes
    /\ crashes' = crashes + 1
    /\ handler' = "idle"
    /\ \/ /\ destination = NoFile
          /\ partial' \in {NoFile, partial}
          /\ metadata' \in {"none", metadata}
          /\ UNCHANGED destination
       \/ /\ handler = "unlink"
          /\ destination' = NoFile
          /\ partial' = destination
          /\ UNCHANGED metadata
    /\ UNCHANGED <<clientVars, reply, request>>

-----------------------------------------------------------------------------
Handle ==
    \/ OpenUpload \/ Describe \/ Touch \/ Compare \/ Write \/ Seal \/ Discard \/ Unlink

UploadNext ==
    \/ Send \/ ReceiveComplete \/ ReceiveNext \/ GiveUp \/ Change
    \/ \E q \in requests : Begin(q)
    \/ Handle
    \/ Crash \/ HostLoses

UploadSpec == UploadInit /\ [][UploadNext]_uploadVars

\* A request that is sent is served, and the client times out.
UploadFairness ==
    /\ WF_uploadVars(Send)
    /\ WF_uploadVars(ReceiveComplete \/ ReceiveNext \/ GiveUp)
    /\ WF_uploadVars(Handle)

-----------------------------------------------------------------------------
\* An artifact appears under its name only whole (_store_upload_chunk), and
\* a client that was told so can rely on it (_upload).
ArtifactWhole ==
    /\ destination \in {NoFile, Artifact}
    /\ client = "uploaded" => destination = Artifact

\* Late and duplicated requests alone are never refused (the replay branches
\* of _store_upload_chunk): while nothing crashed and the file is what was
\* hashed, every replay finds its bytes, or the finished artifact.
ReplaysAccepted == crashes = 0 /\ ~changed => reply.kind # "refused"

\* The loop of _upload ends: no sequence of acknowledgements makes it send
\* the same chunks for ever.
UploadEnds == client = "wait" ~> client \in {"uploaded", "gaveup"}

\* An accepted artifact is the file the worker sent, and a repeated request
\* of an upload is never refused (remote_api.py).
UploadExact == UploadTypeOK /\ ArtifactWhole /\ ReplaysAccepted
=============================================================================
