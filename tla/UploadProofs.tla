---------------------------- MODULE UploadProofs ----------------------------
(***************************************************************************)
(* What the chunked upload promises for every size of artifact and chunk,  *)
(* any number of late and repeated requests, and any number of crashes.    *)
(*                                                                         *)
(* That an artifact is whole rests on when each file exists.  That a       *)
(* replay is never refused rests on the offsets in flight: while nothing   *)
(* crashed, each of them is the end of the partial file, or starts a chunk *)
(* that the partial file already holds.                                    *)
(***************************************************************************)
EXTENDS RemoteUpload, SequenceTheorems, TLAPS

\* When each file exists, by the next step of the request in progress.
FilesMatch ==
    /\ handler \in {"describe", "touch", "append", "write", "seal", "discard"}
           => destination = NoFile
    /\ handler \in {"append", "write", "seal"} => partial # NoFile
    /\ handler = "write" => Len(partial) = request.offset
    /\ handler = "unlink" => destination = Artifact
    /\ reply.kind = "complete" \/ client = "uploaded"
           => destination = Artifact /\ handler \in {"idle", "open"}

\* An offset that the server accepts with this partial file.
Fits(file, o) ==
    /\ file = NoFile => o = 0
    /\ file # NoFile => o = Len(file) \/ ChunkEnd(o) <= Len(file)

\* While nothing crashed and the client's file is what it hashed.
Calm ==
    /\ reply.kind # "refused"
    /\ handler # "discard"
    /\ \A q \in requests : ~q.changed
    /\ handler # "idle" => ~request.changed
    /\ destination = NoFile =>
          /\ Fits(partial, offset)
          /\ \A q \in requests : Fits(partial, q.offset)
          /\ handler # "idle" => Fits(partial, request.offset)
          /\ reply.kind = "next" => Fits(partial, reply.next) /\ reply.next < Bytes
          /\ handler \in {"describe", "touch"} => partial = NoFile
          /\ handler = "touch" => metadata = "whole"
          /\ partial = NoFile /\ handler \in {"idle", "open"} => metadata = "none"
          /\ partial # NoFile =>
                /\ metadata = "whole"
                /\ \A n \in 1..Len(partial) : partial[n] = n
                /\ Len(partial) = Bytes
                      => handler = "seal" /\ Final(request.offset)
          /\ handler = "seal" => ChunkEnd(request.offset) <= Len(partial)

\* The inductive invariant.
UploadInv ==
    /\ UploadTypeOK
    /\ FilesMatch
    /\ destination \in {NoFile, Artifact}
    /\ crashes = 0 /\ ~changed => Calm

-----------------------------------------------------------------------------
(* Chunks.                                                                 *)

LEMMA ArtifactLemma ==
    /\ Artifact \in Seq(0..Bytes) /\ Len(Artifact) = Bytes
    /\ \A n \in 1..Bytes : Artifact[n] = n
    /\ NoFile # Artifact
<1>1. Artifact \in Seq(0..Bytes) /\ Len(Artifact) = Bytes /\ \A n \in 1..Bytes : Artifact[n] = n
  BY UploadAssumption DEF Artifact
<1>. QED  BY <1>1, UploadAssumption

LEMMA ChunkEndLemma ==
    ASSUME NEW o \in 0..Bytes - 1
    PROVE  ChunkEnd(o) \in o + 1..Bytes
BY UploadAssumption DEF ChunkEnd

\* A chunk has the length its offset says, and the artifact's bytes unless
\* the file changed.
LEMMA ChunkLemma ==
    ASSUME NEW q \in Requests
    PROVE  /\ Chunk(q) \in Seq(0..Bytes)
           /\ Len(Chunk(q)) = ChunkEnd(q.offset) - q.offset
           /\ ~q.changed => \A n \in 1..Len(Chunk(q)) : Chunk(q)[n] = q.offset + n
<1>. DEFINE o == q.offset
            e == ChunkEnd(o)
            bytes == SubSeq(Artifact, o + 1, e)
<1>1. o \in 0..Bytes - 1 /\ e \in o + 1..Bytes /\ Bytes \in Nat /\ q.changed \in BOOLEAN
  BY ChunkEndLemma, UploadAssumption DEF Requests
<1>. HIDE DEF o, e
<1>2. \A i \in o + 1..e : Artifact[i] \in 0..Bytes /\ Artifact[i] = i
  BY <1>1, ArtifactLemma
<1>3. /\ bytes \in Seq(0..Bytes)
      /\ Len(bytes) = e - o
      /\ \A i \in 1..e - o : bytes[i] = o + i
  <2>1. /\ bytes \in Seq(0..Bytes)
        /\ Len(bytes) = IF o + 1 <= e THEN e - (o + 1) + 1 ELSE 0
        /\ \A i \in 1..e - (o + 1) + 1 : bytes[i] = Artifact[o + 1 + i - 1]
    BY <1>1, <1>2, SubSeqProperties
  <2>2. \A i \in 1..e - o : bytes[i] = Artifact[o + i]
    BY <1>1, <2>1
  <2>. QED  BY <1>1, <1>2, <2>1, <2>2
<1>. HIDE DEF bytes
<1>4. CASE q.changed
  <2>1. Chunk(q) = [n \in DOMAIN bytes |-> Other]
    BY <1>4 DEF Chunk, bytes, o, e
  <2>2. DOMAIN bytes = 1..e - o
    BY <1>3
  <2>3. Chunk(q) = [n \in 1..e - o |-> 0]
    BY <2>1, <2>2 DEF Other
  <2>4. Chunk(q) \in Seq(0..Bytes) /\ Len(Chunk(q)) = e - o
    BY <1>1, <2>3
  <2>. QED  BY <1>4, <2>4 DEF o, e
<1>5. CASE ~q.changed
  <2>1. Chunk(q) = bytes
    BY <1>5 DEF Chunk, bytes, o, e
  <2>. QED  BY <1>3, <2>1 DEF o, e
<1>. QED  BY <1>1, <1>4, <1>5

\* A crash in the middle of a write leaves no more bytes than the chunk has.
LEMMA TornLemma ==
    ASSUME NEW q \in Requests, NEW bytes \in Torn(q)
    PROVE  bytes \in Seq(0..Bytes) /\ Len(bytes) <= Len(Chunk(q))
<1>1. /\ Chunk(q) \in Seq(0..Bytes) /\ Len(Chunk(q)) \in Nat
      /\ \A i \in 1..Len(Chunk(q)) : Chunk(q)[i] \in 0..Bytes
      /\ Other \in 0..Bytes
  BY ChunkLemma, UploadAssumption DEF Other
<1>2. ASSUME NEW n \in 0..Len(Chunk(q))
      PROVE  SubSeq(Chunk(q), 1, n) \in Seq(0..Bytes) /\ Len(SubSeq(Chunk(q), 1, n)) = n
  <2>1. /\ SubSeq(Chunk(q), 1, n) \in Seq(0..Bytes)
        /\ Len(SubSeq(Chunk(q), 1, n)) = IF 1 <= n THEN n - 1 + 1 ELSE 0
    BY <1>1, SubSeqProperties
  <2>. QED  BY <1>1, <2>1
<1>3. CASE \E n \in 0..Len(Chunk(q)) : bytes = SubSeq(Chunk(q), 1, n)
  BY <1>1, <1>2, <1>3
<1>4. CASE \E n \in 0..Len(Chunk(q)) - 1 : bytes = Append(SubSeq(Chunk(q), 1, n), Other)
  <2>1. PICK n \in 0..Len(Chunk(q)) - 1 : bytes = Append(SubSeq(Chunk(q), 1, n), Other)
    BY <1>4
  <2>2. n \in 0..Len(Chunk(q)) /\ n + 1 <= Len(Chunk(q))
    BY <1>1
  <2>3. SubSeq(Chunk(q), 1, n) \in Seq(0..Bytes) /\ Len(SubSeq(Chunk(q), 1, n)) = n
    BY <1>2, <2>2
  <2>. QED  BY <1>1, <2>1, <2>2, <2>3, AppendProperties
<1>. QED  BY <1>3, <1>4 DEF Torn

-----------------------------------------------------------------------------
(* Types and files.                                                        *)

\* The partial file after a write, whole or torn, stays inside the artifact.
LEMMA WriteLemma ==
    ASSUME UploadInv, handler = "write", NEW bytes \in Seq(0..Bytes),
           Len(bytes) <= Len(Chunk(request))
    PROVE  /\ partial \o bytes \in Seq(0..Bytes)
           /\ Len(partial \o bytes) = request.offset + Len(bytes)
           /\ Len(partial \o bytes) <= Bytes
           /\ \A n \in 1..Len(partial) : (partial \o bytes)[n] = partial[n]
           /\ \A n \in 1..Len(bytes) : (partial \o bytes)[request.offset + n] = bytes[n]
<1>1. /\ partial \in Seq(0..Bytes) /\ Len(partial) = request.offset
      /\ request \in Requests
  BY DEF UploadInv, UploadTypeOK, FilesMatch
<1>2. /\ request.offset \in 0..Bytes - 1 /\ Bytes \in Nat
      /\ Len(Chunk(request)) = ChunkEnd(request.offset) - request.offset
      /\ ChunkEnd(request.offset) \in request.offset + 1..Bytes
  BY <1>1, ChunkLemma, ChunkEndLemma, UploadAssumption DEF Requests
<1>3. Len(bytes) \in Nat
  OBVIOUS
<1>4. /\ partial \o bytes \in Seq(0..Bytes)
      /\ Len(partial \o bytes) = Len(partial) + Len(bytes)
      /\ \A i \in 1..Len(partial) + Len(bytes) :
            (partial \o bytes)[i] = IF i <= Len(partial) THEN partial[i]
                                    ELSE bytes[i - Len(partial)]
  BY <1>1, ConcatProperties
<1>. DEFINE o == request.offset
            whole == partial \o bytes
            l == Len(bytes)
<1>5. /\ o \in 0..Bytes - 1 /\ Bytes \in Nat /\ l \in Nat /\ o + l <= Bytes
      /\ whole \in Seq(0..Bytes) /\ Len(whole) = o + l /\ Len(partial) = o
      /\ \A i \in 1..o + l : whole[i] = IF i <= o THEN partial[i] ELSE bytes[i - o]
  BY <1>1, <1>2, <1>3, <1>4
<1>. HIDE DEF o, whole, l
<1>6. \A n \in 1..o : whole[n] = partial[n]
  BY <1>5
<1>7. \A n \in 1..l : whole[o + n] = bytes[n]
  <2>. TAKE n \in 1..l
  <2>1. o + n \in 1..o + l /\ ~(o + n <= o) /\ o + n - o = n
    BY <1>5
  <2>. QED  BY <1>5, <2>1
<1>. QED  BY <1>5, <1>6, <1>7 DEF o, whole, l

LEMMA TypeStep ==
    ASSUME UploadInv, [UploadNext]_uploadVars
    PROVE  UploadTypeOK'
<1>. USE DEF UploadTypeOK, clientVars, files
<1>1. /\ UploadTypeOK /\ FilesMatch /\ Bytes \in Nat \ {0} /\ ChunkBytes \in Nat \ {0}
      /\ Artifact \in Seq(0..Bytes) /\ Len(Artifact) = Bytes /\ NoFile \notin Seq(0..Bytes)
  BY ArtifactLemma, UploadAssumption DEF UploadInv
<1>2. ASSUME NEW kind \in {"next", "complete", "refused"}, NEW n \in 0..Bytes, Answer(kind, n)
      PROVE  /\ handler' = "idle" /\ request' = request
             /\ reply' \in [kind : {"none", "next", "complete", "refused"}, next : 0..Bytes]
  BY <1>1, <1>2 DEF Answer
<1>3. CASE Send
  BY <1>1, <1>3 DEF Send, NoReply, Requests
<1>4. CASE ReceiveComplete \/ GiveUp \/ Change
  BY <1>1, <1>4 DEF ReceiveComplete, GiveUp, Change
<1>5. CASE ReceiveNext
  <2>1. offset' \in 0..Bytes - 1 /\ client' \in {"send", "gaveup"}
    BY <1>1, <1>5 DEF ReceiveNext
  <2>. QED  BY <1>1, <1>5, <2>1 DEF ReceiveNext
<1>6. ASSUME NEW q \in requests, Begin(q) PROVE UploadTypeOK'
  BY <1>1, <1>6 DEF Begin
<1>7. CASE OpenUpload
  <2>1. /\ UNCHANGED <<client, offset, changed, requests, crashes, destination, partial>>
        /\ metadata' \in {"torn", metadata}
        /\ \/ Answer("complete", Bytes) \/ Answer("refused", 0)
           \/ HandlerTo("describe") \/ HandlerTo("append")
    BY <1>7 DEF OpenUpload, Refuse
  <2>2. /\ handler' \in {"idle", "describe", "append"} /\ request' = request
        /\ reply' \in [kind : {"none", "next", "complete", "refused"}, next : 0..Bytes]
    BY <1>1, <1>2, <2>1 DEF HandlerTo
  <2>. QED  BY <1>1, <2>1, <2>2
<1>8. CASE Describe \/ Touch
  <2>1. <<>> \in Seq(0..Bytes) /\ Len(<<>>) <= Bytes
    BY <1>1, EmptySeq
  <2>. QED  BY <1>1, <1>8, <2>1 DEF Describe, Touch, HandlerTo
<1>9. CASE Compare
  <2>1. /\ UNCHANGED <<client, offset, changed, requests, crashes, destination, partial, metadata>>
        /\ HandlerTo("write") \/ HandlerTo("seal") \/ Answer("refused", 0)
    BY <1>9 DEF Compare, Refuse
  <2>2. /\ handler' \in {"idle", "write", "seal"} /\ request' = request
        /\ reply' \in [kind : {"none", "next", "complete", "refused"}, next : 0..Bytes]
    BY <1>1, <1>2, <2>1 DEF HandlerTo
  <2>. QED  BY <1>1, <2>1, <2>2
<1>10. CASE Write
  <2>1. partial' \in Seq(0..Bytes) /\ Len(partial') <= Bytes
    <3>1. /\ request \in Requests /\ handler = "write"
          /\ partial' = partial \o Chunk(request)
      BY <1>1, <1>10 DEF Write
    <3>2. Chunk(request) \in Seq(0..Bytes) /\ Len(Chunk(request)) <= Len(Chunk(request))
      BY <3>1, ChunkLemma
    <3>. QED  BY <3>1, <3>2, WriteLemma
  <2>. QED  BY <1>1, <1>10, <2>1 DEF Write, HandlerTo
<1>11. CASE Seal
  <2>1. partial \in Seq(0..Bytes) /\ Len(partial) \in 0..Bytes
    BY <1>1, <1>11 DEF Seal, FilesMatch
  <2>2. /\ UNCHANGED <<client, offset, changed, requests, crashes, metadata>>
        /\ \/ /\ Answer("next", Len(partial)) \/ Answer("refused", 0)
              /\ UNCHANGED <<destination, partial>>
           \/ partial' = NoFile /\ HandlerTo("discard") /\ UNCHANGED destination
           \/ partial' = NoFile /\ HandlerTo("unlink") /\ destination' = partial
    BY <1>11 DEF Seal, Refuse
  <2>3. /\ handler' \in {"idle", "discard", "unlink"} /\ request' = request
        /\ reply' \in [kind : {"none", "next", "complete", "refused"}, next : 0..Bytes]
        /\ destination' \in {destination, partial} /\ partial' \in {partial, NoFile}
    BY <1>1, <1>2, <2>1, <2>2 DEF HandlerTo
  <2>. QED  BY <1>1, <2>1, <2>2, <2>3
<1>12. CASE Discard \/ Unlink
  <2>1. /\ UNCHANGED <<client, offset, changed, requests, crashes, destination, partial>>
        /\ metadata' = "none"
        /\ Answer("refused", 0) \/ Answer("complete", Bytes)
    BY <1>12 DEF Discard, Unlink, Refuse
  <2>2. /\ handler' = "idle" /\ request' = request
        /\ reply' \in [kind : {"none", "next", "complete", "refused"}, next : 0..Bytes]
    BY <1>1, <1>2, <2>1
  <2>. QED  BY <1>1, <2>1, <2>2
<1>13. CASE Crash
  <2>1. crashes' \in 0..MaxCrashes
    BY <1>1, <1>13, UploadAssumption DEF Crash
  <2>2. partial' = NoFile \/ (partial' \in Seq(0..Bytes) /\ Len(partial') <= Bytes)
    <3>1. CASE handler = "write"
      <4>1. PICK bytes \in Torn(request) : partial' = partial \o bytes
        BY <1>13, <3>1 DEF Crash
      <4>2. bytes \in Seq(0..Bytes) /\ Len(bytes) <= Len(Chunk(request))
        BY <1>1, TornLemma
      <4>. QED  BY <3>1, <4>1, <4>2, WriteLemma
    <3>2. CASE handler # "write"
      BY <1>1, <1>13, <3>2 DEF Crash
    <3>. QED  BY <3>1, <3>2
  <2>. QED  BY <1>1, <1>13, <2>1, <2>2 DEF Crash
<1>14. CASE HostLoses
  <2>1. crashes' \in 0..MaxCrashes
    BY <1>1, <1>14, UploadAssumption DEF HostLoses
  <2>. QED  BY <1>1, <1>14, <2>1 DEF HostLoses, FilesMatch
<1>15. CASE UNCHANGED uploadVars
  BY <1>1, <1>15 DEF uploadVars
<1>. QED  BY <1>3, <1>4, <1>5, <1>6, <1>7, <1>8, <1>9, <1>10, <1>11, <1>12, <1>13, <1>14, <1>15
          DEF UploadNext, Handle

LEMMA FilesStep ==
    ASSUME UploadInv, [UploadNext]_uploadVars
    PROVE  FilesMatch' /\ destination' \in {NoFile, Artifact}
<1>. USE DEF FilesMatch, clientVars, files
<1>1. /\ UploadTypeOK /\ FilesMatch /\ destination \in {NoFile, Artifact}
      /\ Artifact # NoFile /\ Artifact \in Seq(0..Bytes) /\ Len(Artifact) = Bytes
      /\ NoFile \notin Seq(0..Bytes)
  BY ArtifactLemma, UploadAssumption DEF UploadInv
<1>2. ASSUME NEW kind, NEW n, Answer(kind, n)
      PROVE  /\ handler' = "idle" /\ request' = request
             /\ reply'.kind = "complete" => kind = "complete" \/ reply.kind = "complete"
  BY <1>2 DEF Answer
<1>3. CASE Send \/ ReceiveComplete \/ ReceiveNext \/ GiveUp \/ Change
  BY <1>1, <1>3 DEF Send, ReceiveComplete, ReceiveNext, GiveUp, Change, NoReply
<1>4. ASSUME NEW q \in requests, Begin(q)
      PROVE  FilesMatch' /\ destination' \in {NoFile, Artifact}
  BY <1>1, <1>4 DEF Begin
<1>5. CASE OpenUpload
  <2>1. /\ UNCHANGED <<client, destination, partial>> /\ handler = "open"
        /\ \/ destination = Artifact /\ Answer("complete", Bytes)
           \/ Answer("refused", 0)
           \/ destination = NoFile /\ HandlerTo("describe")
           \/ destination = NoFile /\ partial # NoFile /\ HandlerTo("append")
    BY <1>5 DEF OpenUpload, Refuse
  <2>2. CASE Answer("complete", Bytes) /\ destination = Artifact
    BY <1>1, <1>2, <2>1, <2>2
  <2>3. CASE Answer("refused", 0)
    <3>1. handler' = "idle" /\ request' = request /\ (reply'.kind = "complete" => reply.kind = "complete")
      BY <1>2, <2>3
    <3>. QED  BY <1>1, <2>1, <3>1
  <2>4. CASE destination = NoFile /\ HandlerTo("describe")
    BY <1>1, <2>1, <2>4 DEF HandlerTo
  <2>5. CASE destination = NoFile /\ partial # NoFile /\ HandlerTo("append")
    BY <1>1, <2>1, <2>5 DEF HandlerTo
  <2>. QED  BY <2>1, <2>2, <2>3, <2>4, <2>5
<1>6. CASE Describe
  BY <1>1, <1>6 DEF Describe, HandlerTo
<1>7. CASE Touch
  <2>1. <<>> # NoFile
    BY <1>1, EmptySeq
  <2>. QED  BY <1>1, <1>7, <2>1 DEF Touch, HandlerTo
<1>8. CASE Compare
  <2>1. /\ UNCHANGED <<client, destination, partial>> /\ handler = "append"
        /\ \/ HandlerTo("write") /\ Len(partial) = request.offset
           \/ HandlerTo("seal")
           \/ Answer("refused", 0)
    BY <1>8 DEF Compare, Refuse
  <2>2. CASE Answer("refused", 0)
    <3>1. handler' = "idle" /\ request' = request /\ (reply'.kind = "complete" => reply.kind = "complete")
      BY <1>2, <2>2
    <3>. QED  BY <1>1, <2>1, <3>1
  <2>3. CASE HandlerTo("write") /\ Len(partial) = request.offset
    BY <1>1, <2>1, <2>3 DEF HandlerTo
  <2>4. CASE HandlerTo("seal")
    BY <1>1, <2>1, <2>4 DEF HandlerTo
  <2>. QED  BY <2>1, <2>2, <2>3, <2>4
<1>9. CASE Write
  <2>1. partial' # NoFile
    <3>1. /\ request \in Requests /\ handler = "write"
          /\ partial' = partial \o Chunk(request)
      BY <1>1, <1>9 DEF Write, UploadTypeOK
    <3>2. Chunk(request) \in Seq(0..Bytes) /\ Len(Chunk(request)) <= Len(Chunk(request))
      BY <3>1, ChunkLemma
    <3>3. partial' \in Seq(0..Bytes)
      BY <3>1, <3>2, WriteLemma
    <3>. QED  BY <1>1, <3>3
  <2>. QED  BY <1>1, <1>9, <2>1 DEF Write, HandlerTo
<1>10. CASE Seal
  <2>1. /\ client' = client /\ handler = "seal"
        /\ \/ /\ Answer("next", Len(partial)) \/ Answer("refused", 0)
              /\ UNCHANGED <<destination, partial>>
           \/ partial' = NoFile /\ HandlerTo("discard") /\ UNCHANGED destination
           \/ partial = Artifact /\ partial' = NoFile /\ HandlerTo("unlink") /\ destination' = partial
    BY <1>10 DEF Seal, Refuse
  <2>2. CASE /\ Answer("next", Len(partial)) \/ Answer("refused", 0)
             /\ UNCHANGED <<destination, partial>>
    <3>1. handler' = "idle" /\ request' = request /\ (reply'.kind = "complete" => reply.kind = "complete")
      BY <1>2, <2>2
    <3>. QED  BY <1>1, <2>1, <2>2, <3>1
  <2>3. CASE partial' = NoFile /\ HandlerTo("discard") /\ UNCHANGED destination
    BY <1>1, <2>1, <2>3 DEF HandlerTo
  <2>4. CASE partial = Artifact /\ partial' = NoFile /\ HandlerTo("unlink") /\ destination' = partial
    BY <1>1, <2>1, <2>4 DEF HandlerTo
  <2>. QED  BY <2>1, <2>2, <2>3, <2>4
<1>11. CASE Discard
  <2>1. handler' = "idle" /\ request' = request /\ (reply'.kind = "complete" => reply.kind = "complete")
    BY <1>2, <1>11 DEF Discard, Refuse
  <2>. QED  BY <1>1, <1>11, <2>1 DEF Discard
<1>12. CASE Unlink
  <2>1. handler' = "idle" /\ request' = request
    BY <1>2, <1>12 DEF Unlink
  <2>. QED  BY <1>1, <1>12, <2>1 DEF Unlink
<1>13. CASE Crash
  BY <1>1, <1>13 DEF Crash
<1>14. CASE HostLoses
  BY <1>1, <1>14 DEF HostLoses
<1>15. CASE UNCHANGED uploadVars
  BY <1>1, <1>15 DEF uploadVars
<1>. QED  BY <1>3, <1>4, <1>5, <1>6, <1>7, <1>8, <1>9, <1>10, <1>11, <1>12, <1>13, <1>14, <1>15
          DEF UploadNext, Handle

-----------------------------------------------------------------------------
(* Replays.                                                                *)

\* An offset fits on while the partial file grows by the chunk at its end.
LEMMA FitsGrow ==
    ASSUME NEW file \in Seq(0..Bytes), NEW longer \in Seq(0..Bytes),
           Len(file) \in 0..Bytes - 1, Len(longer) = ChunkEnd(Len(file)),
           NEW o \in 0..Bytes, Fits(file, o)
    PROVE  Fits(longer, o)
<1>1. /\ file # NoFile /\ longer # NoFile
      /\ ChunkEnd(o) \in 0..Bytes /\ Bytes \in Nat
      /\ Len(longer) \in Len(file)..Bytes
  BY ChunkEndLemma, UploadAssumption DEF ChunkEnd
<1>. QED  BY <1>1 DEF Fits

\* What the partial file holds of a chunk, while nothing was torn.
LEMMA SameChunk ==
    ASSUME NEW file \in Seq(0..Bytes), \A n \in 1..Len(file) : file[n] = n,
           NEW q \in Requests, ~q.changed, ChunkEnd(q.offset) <= Len(file)
    PROVE  SubSeq(file, q.offset + 1, ChunkEnd(q.offset)) = Chunk(q)
<1>. DEFINE o == q.offset
            e == ChunkEnd(o)
            part == SubSeq(file, o + 1, e)
<1>1. o \in 0..Bytes - 1 /\ e \in o + 1..Bytes /\ Bytes \in Nat /\ Len(file) \in Nat
  BY ChunkEndLemma, UploadAssumption DEF Requests
<1>2. /\ Chunk(q) \in Seq(0..Bytes) /\ Len(Chunk(q)) = e - o
      /\ \A n \in 1..e - o : Chunk(q)[n] = o + n
  BY ChunkLemma
<1>3. e <= Len(file)
  OBVIOUS
<1>. HIDE DEF o, e
<1>4. \A i \in o + 1..e : file[i] \in 0..Bytes /\ file[i] = i
  BY <1>1, <1>3
<1>5. /\ part \in Seq(0..Bytes)
      /\ Len(part) = IF o + 1 <= e THEN e - (o + 1) + 1 ELSE 0
      /\ \A i \in 1..e - (o + 1) + 1 : part[i] = file[o + 1 + i - 1]
  BY <1>1, <1>4, SubSeqProperties
<1>. HIDE DEF part
<1>6. Len(part) = e - o /\ \A i \in 1..e - o : part[i] = o + i
  <2>1. Len(part) = e - o
    BY <1>1, <1>5
  <2>2. ASSUME NEW i \in 1..e - o PROVE part[i] = o + i
    <3>1. /\ i \in 1..e - (o + 1) + 1 /\ o + 1 + i - 1 = o + i
          /\ o + i \in o + 1..e
      BY <1>1
    <3>. QED  BY <1>4, <1>5, <3>1
  <2>. QED  BY <2>1, <2>2
<1>7. part = Chunk(q)
  BY <1>2, <1>5, <1>6, SeqEqual
<1>. QED  BY <1>7 DEF part, o, e

\* A partial file as long as the artifact is the artifact.
LEMMA WholeFile ==
    ASSUME NEW file \in Seq(0..Bytes), \A n \in 1..Len(file) : file[n] = n, Len(file) = Bytes
    PROVE  file = Artifact
<1>1. \A i \in 1..Len(file) : file[i] = Artifact[i]
  BY ArtifactLemma
<1>. QED  BY <1>1, ArtifactLemma, SeqEqual

\* The steps of the client, and the start of a request.
LEMMA CalmClient ==
    ASSUME UploadInv, Calm, ~changed,
           \/ Send \/ ReceiveComplete \/ ReceiveNext \/ GiveUp
           \/ \E q \in requests : Begin(q)
    PROVE  Calm'
<1>. USE DEF Calm, clientVars, files
<1>1. CASE Send
  BY <1>1 DEF Send, NoReply
<1>2. CASE ReceiveComplete \/ GiveUp
  BY <1>2 DEF ReceiveComplete, GiveUp
<1>3. CASE ReceiveNext
  <2>1. destination = NoFile => offset' \in {offset, reply.next}
    BY <1>3 DEF ReceiveNext
  <2>. QED  BY <1>3, <2>1 DEF ReceiveNext
<1>4. ASSUME NEW q \in requests, Begin(q) PROVE Calm'
  BY <1>4 DEF Begin
<1>. QED  BY <1>1, <1>2, <1>3, <1>4

\* The steps of the server.
LEMMA CalmServer ==
    ASSUME UploadInv, Calm, Handle
    PROVE  Calm'
<1>. USE DEF clientVars, files
<1>1. /\ UploadTypeOK /\ FilesMatch /\ destination \in {NoFile, Artifact}
      /\ Bytes \in Nat \ {0} /\ NoFile \notin Seq(0..Bytes) /\ Artifact # NoFile
      /\ request \in Requests /\ request.offset \in 0..Bytes - 1
      /\ partial # NoFile => partial \in Seq(0..Bytes) /\ Len(partial) \in 0..Bytes
  BY ArtifactLemma, UploadAssumption DEF UploadInv, UploadTypeOK, Requests
<1>2. ASSUME NEW kind \in {"next", "complete"}, NEW n, Answer(kind, n)
      PROVE  /\ handler' = "idle" /\ request' = request
             /\ reply' = reply \/ reply' = [kind |-> kind, next |-> n]
  BY <1>2 DEF Answer
<1>3. CASE OpenUpload
  <2>1. CASE destination = Artifact
    <3>1. Answer("complete", Bytes) /\ UNCHANGED <<clientVars, files>>
      BY <1>1, <1>3, <2>1 DEF OpenUpload
    <3>. QED  BY <1>1, <1>2, <2>1, <3>1 DEF Calm
  <2>2. CASE destination = NoFile /\ partial = NoFile
    <3>1. metadata = "none" /\ request.offset = 0
      BY <1>3, <2>2 DEF Calm, OpenUpload, Fits
    <3>2. HandlerTo("describe") /\ UNCHANGED <<clientVars, destination, partial>>
      BY <1>1, <1>3, <2>2, <3>1 DEF OpenUpload
    <3>. QED  BY <2>2, <1>3, <3>2 DEF Calm, HandlerTo, OpenUpload
  <2>3. CASE destination = NoFile /\ partial # NoFile
    <3>1. metadata = "whole"
      BY <2>3 DEF Calm
    <3>2. HandlerTo("append") /\ UNCHANGED <<clientVars, files>>
      BY <1>1, <1>3, <2>3, <3>1 DEF OpenUpload
    <3>. QED  BY <1>3, <2>3, <3>2 DEF Calm, HandlerTo, OpenUpload
  <2>. QED  BY <1>1, <2>1, <2>2, <2>3
<1>4. CASE Describe
  BY <1>1, <1>4 DEF Describe, HandlerTo, Calm, FilesMatch
<1>5. CASE Touch
  <2>1. /\ <<>> # NoFile /\ Len(<<>>) = 0
        /\ destination = NoFile /\ partial = NoFile /\ metadata = "whole"
    BY <1>1, <1>5, EmptySeq DEF Touch, FilesMatch, Calm
  <2>2. \A o : Fits(NoFile, o) => Fits(<<>>, o)
    BY <2>1 DEF Fits
  <2>. QED  BY <1>1, <1>5, <2>1, <2>2 DEF Touch, HandlerTo, Calm
<1>6. CASE Compare
  <2>1. /\ destination = NoFile /\ partial # NoFile /\ handler = "append"
        /\ UNCHANGED <<clientVars, files>>
    BY <1>1, <1>6 DEF Compare, FilesMatch
  <2>2. /\ Fits(partial, request.offset) /\ Len(partial) # Bytes /\ ~request.changed
        /\ \A n \in 1..Len(partial) : partial[n] = n
    BY <2>1 DEF Calm
  <2>3. CASE Len(partial) = request.offset
    <3>1. HandlerTo("write")
      BY <1>1, <1>6, <2>3 DEF Compare
    <3>. QED  BY <2>1, <2>2, <3>1 DEF Calm, HandlerTo
  <2>4. CASE Len(partial) # request.offset
    <3>1. ChunkEnd(request.offset) <= Len(partial)
      BY <2>1, <2>2, <2>4 DEF Fits
    <3>2. SubSeq(partial, request.offset + 1, ChunkEnd(request.offset)) = Chunk(request)
      BY <1>1, <2>1, <2>2, <3>1, SameChunk
    <3>3. ChunkEnd(request.offset) \in request.offset + 1..Bytes
      BY <1>1, ChunkEndLemma
    <3>4. Len(partial) > request.offset /\ Len(partial) >= ChunkEnd(request.offset)
      BY <1>1, <2>1, <3>1, <3>3
    <3>5. HandlerTo("seal")
      BY <1>6, <2>4, <3>2, <3>4 DEF Compare
    <3>. QED  BY <2>1, <2>2, <3>1, <3>5 DEF Calm, HandlerTo
  <2>. QED  BY <2>3, <2>4
<1>7. CASE Write
  <2>1. /\ destination = NoFile /\ partial # NoFile /\ handler = "write"
        /\ Len(partial) = request.offset
        /\ partial' = partial \o Chunk(request) /\ HandlerTo("seal")
        /\ UNCHANGED <<clientVars, destination, metadata>>
    BY <1>1, <1>7 DEF Write, FilesMatch
  <2>2. /\ ~request.changed /\ \A n \in 1..Len(partial) : partial[n] = n
        /\ metadata = "whole" /\ reply.kind # "refused"
    BY <2>1 DEF Calm
  <2>. DEFINE o == request.offset
              l == Len(Chunk(request))
  <2>3. /\ Chunk(request) \in Seq(0..Bytes) /\ l <= l
        /\ l = ChunkEnd(o) - o /\ ChunkEnd(o) \in o + 1..Bytes
        /\ \A n \in 1..l : Chunk(request)[n] = o + n
    BY <1>1, <2>2, ChunkLemma, ChunkEndLemma
  <2>4. /\ partial' \in Seq(0..Bytes)
        /\ Len(partial') = o + l
        /\ \A n \in 1..Len(partial) : partial'[n] = partial[n]
        /\ \A n \in 1..l : partial'[o + n] = Chunk(request)[n]
    BY <2>1, <2>3, WriteLemma
  <2>. HIDE DEF l
  <2>5. Len(partial') = ChunkEnd(o) /\ partial' # NoFile
    BY <1>1, <2>3, <2>4
  <2>6. \A n \in 1..Len(partial') : partial'[n] = n
    <3>. DEFINE e == ChunkEnd(o)
    <3>0. /\ o \in 0..Bytes - 1 /\ Bytes \in Nat /\ e \in o + 1..Bytes /\ l = e - o
          /\ Len(partial) = o /\ Len(partial') = o + l
      BY <1>1, <2>1, <2>3, <2>4
    <3>. HIDE DEF o, e
    <3>. TAKE n \in 1..Len(partial')
    <3>1. o \in Nat /\ l \in Nat /\ Len(partial) = o /\ n \in 1..o + l
      BY <3>0
    <3>2. CASE n <= o
      BY <2>2, <2>4, <3>1, <3>2
    <3>3. CASE n > o
      <4>1. n - o \in 1..l /\ o + (n - o) = n
        BY <3>1, <3>3
      <4>. QED  BY <2>3, <2>4, <4>1
    <3>. QED  BY <3>1, <3>2, <3>3
  <2>7. \A x \in 0..Bytes : Fits(partial, x) => Fits(partial', x)
    BY <1>1, <2>1, <2>4, <2>5, FitsGrow
  <2>8. /\ offset \in 0..Bytes /\ \A q \in requests : q.offset \in 0..Bytes
        /\ reply.next \in 0..Bytes /\ request.offset \in 0..Bytes
    BY <1>1 DEF UploadTypeOK, Requests
  <2>9. Fits(partial', offset') /\ \A q \in requests' : Fits(partial', q.offset)
    BY <2>1, <2>7, <2>8 DEF Calm
  <2>10. Fits(partial', request'.offset) /\ ~request'.changed
    BY <2>1, <2>2, <2>7, <2>8 DEF Calm, HandlerTo
  <2>11. reply'.kind = "next" => Fits(partial', reply'.next) /\ reply'.next < Bytes
    BY <2>1, <2>7, <2>8 DEF Calm, HandlerTo
  <2>12. /\ Len(partial') = Bytes => Final(request'.offset)
         /\ ChunkEnd(request'.offset) <= Len(partial')
    BY <2>1, <2>3, <2>5 DEF HandlerTo, Final
  <2>. QED  BY <2>1, <2>2, <2>5, <2>6, <2>9, <2>10, <2>11, <2>12 DEF Calm, HandlerTo
<1>8. CASE Seal
  <2>1. /\ destination = NoFile /\ partial # NoFile /\ handler = "seal"
        /\ partial \in Seq(0..Bytes) /\ Len(partial) \in 0..Bytes
    BY <1>1, <1>8 DEF Seal, FilesMatch
  <2>2. /\ \A n \in 1..Len(partial) : partial[n] = n
        /\ Len(partial) = Bytes => Final(request.offset)
        /\ ChunkEnd(request.offset) <= Len(partial)
    BY <2>1 DEF Calm
  <2>3. CASE ~Final(request.offset)
    <3>1. Answer("next", Len(partial)) /\ UNCHANGED <<clientVars, files>>
      BY <1>8, <2>3 DEF Seal
    <3>2. Len(partial) < Bytes /\ Fits(partial, Len(partial))
      BY <1>1, <2>1, <2>2, <2>3 DEF Fits
    <3>3. reply'.kind # "refused" /\ handler' = "idle" /\ request' = request
          /\ (reply'.kind = "next" => Fits(partial, reply'.next) /\ reply'.next < Bytes)
      BY <1>2, <2>1, <3>1, <3>2 DEF Calm
    <3>. QED  BY <2>1, <2>2, <3>1, <3>2, <3>3 DEF Calm
  <2>4. CASE Final(request.offset)
    <3>1. Len(partial) = Bytes
      BY <1>1, <2>1, <2>2, <2>4 DEF Final
    <3>2. partial = Artifact
      BY <2>1, <2>2, <3>1, WholeFile
    <3>3. destination' = Artifact /\ HandlerTo("unlink") /\ UNCHANGED clientVars
      BY <1>8, <2>4, <3>1, <3>2 DEF Seal
    <3>. QED  BY <1>1, <2>1, <3>3 DEF Calm, HandlerTo
  <2>. QED  BY <2>3, <2>4
<1>9. CASE Discard
  BY <1>9 DEF Discard, Calm
<1>10. CASE Unlink
  <2>1. /\ destination' = Artifact /\ Answer("complete", Bytes)
        /\ UNCHANGED clientVars /\ handler = "unlink"
    BY <1>1, <1>10 DEF Unlink, FilesMatch
  <2>. QED  BY <1>1, <1>2, <2>1 DEF Calm
<1>. QED  BY <1>3, <1>4, <1>5, <1>6, <1>7, <1>8, <1>9, <1>10 DEF Handle

-----------------------------------------------------------------------------
(* The theorem.                                                            *)

LEMMA InitUpload == UploadInit => UploadInv
<1>. SUFFICES ASSUME UploadInit PROVE UploadInv
  OBVIOUS
<1>1. UploadTypeOK
  <2>1. 0 \in 0..Bytes - 1 /\ 0 \in 0..Bytes /\ 0 \in 0..MaxCrashes
    BY UploadAssumption
  <2>2. request \in Requests /\ reply \in [kind : {"none", "next", "complete", "refused"}, next : 0..Bytes]
    BY <2>1 DEF UploadInit, NoReply, Requests
  <2>. QED  BY <2>1, <2>2 DEF UploadInit, UploadTypeOK
<1>. QED  BY <1>1, ArtifactLemma DEF UploadInit, UploadInv, FilesMatch, Calm, Fits, NoReply

LEMMA UploadStep == UploadInv /\ [UploadNext]_uploadVars => UploadInv'
<1>. SUFFICES ASSUME UploadInv, [UploadNext]_uploadVars PROVE UploadInv'
  OBVIOUS
<1>1. UploadTypeOK' /\ FilesMatch' /\ (destination \in {NoFile, Artifact})'
  BY TypeStep, FilesStep
<1>2. ASSUME crashes' = 0, ~changed'
      PROVE  Calm'
  <2>1. crashes \in Nat /\ changed \in BOOLEAN /\ UploadTypeOK
    BY UploadAssumption DEF UploadInv, UploadTypeOK
  <2>2. CASE Send \/ ReceiveComplete \/ ReceiveNext \/ GiveUp \/ \E q \in requests : Begin(q)
    <3>1. crashes = 0 /\ ~changed
      BY <1>2, <2>2 DEF Send, ReceiveComplete, ReceiveNext, GiveUp, Begin, clientVars
    <3>. QED  BY <2>2, <3>1, CalmClient DEF UploadInv
  <2>3. CASE Handle
    <3>1. UNCHANGED <<clientVars, crashes>>
      BY <2>3, Zenon DEF Handle, OpenUpload, Describe, Touch, Compare, Write, Seal, Discard,
                         Unlink
    <3>2. crashes = 0 /\ ~changed
      BY <1>2, <3>1 DEF clientVars
    <3>. QED  BY <2>3, <3>2, CalmServer DEF UploadInv
  <2>4. CASE Change
    BY <1>2, <2>4 DEF Change
  <2>5. CASE Crash \/ HostLoses
    BY <1>2, <2>1, <2>5 DEF Crash, HostLoses
  <2>6. CASE UNCHANGED uploadVars
    BY <1>2, <2>6 DEF uploadVars, clientVars, files, UploadInv, Calm
  <2>. QED  BY <2>2, <2>3, <2>4, <2>5, <2>6 DEF UploadNext
<1>. QED  BY <1>1, <1>2 DEF UploadInv

\* Whatever the sizes, however late or often a request arrives, and whenever
\* the server or its host dies: an artifact appears under its name only
\* whole, a client that was told so can rely on it, and while nothing crashed
\* no replay is refused (_upload, _store_upload_chunk).
THEOREM UploadSafe == UploadSpec => []UploadExact
<1>1. UploadInv => UploadExact
  BY DEF UploadInv, UploadExact, ArtifactWhole, ReplaysAccepted, FilesMatch, Calm
<1>. QED  BY <1>1, InitUpload, UploadStep, PTL DEF UploadSpec
=============================================================================
