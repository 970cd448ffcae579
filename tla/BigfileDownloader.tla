------------------------- MODULE BigfileDownloader -------------------------
(***************************************************************************)
(* The downloader of lib/downbigfile.go: one call at a time, which may be  *)
(* killed, over files that stay.  A file is downloaded in one piece or as  *)
(* chunks by several workers, each chunk in a part file of its own; the    *)
(* parts are then merged under the final name.  What is on the disk is a   *)
(* sequence of bytes <<version of the resource, position>>.                *)
(***************************************************************************)
EXTENDS Integers, SequencesExt

CONSTANTS
  SizeOf,        \* the size of each version of the resource, in order
  ChunkSize,     \* chunkSize
  SmallFile,     \* singleThreadThreshold
  MinFile,       \* the 512 bytes below which DownloadMultithread gives up
  ErrorSizes,    \* the lengths of the error pages the server may answer with
  Workers,       \* the goroutines of downloadAllChunks
  MaxRetries,    \* maxRetries of a chunk
  MaxAttempts,   \* maxRetries of DownloadWithRetry
  MaxTrouble,    \* bound: failed requests, error pages, broken bodies, ignored ranges, kills
  NoFile

ASSUME DownloaderAssumption ==
  /\ SizeOf \in Seq(Nat \ {0}) /\ SizeOf # <<>>
  /\ {ChunkSize, MaxAttempts} \subseteq Nat \ {0}
  /\ {SmallFile, MinFile, MaxRetries, MaxTrouble} \subseteq Nat
  /\ ErrorSizes \subseteq {n \in Nat \ {0} : n >= MinFile}
  /\ NoFile \notin Seq(Nat \X Nat)

VARIABLES
  version,       \* what the server has
  final, part,   \* the disk
  kind, pc,      \* the call: which function, and where it is
  attempt,       \* attempt of DownloadWithRetry
  body,          \* the answer being copied by downloadWithResume
  size, queue,   \* fileSize and the chunks nobody took yet
  work,          \* per worker: its chunk, the failed tries, the answer being read
  failed,        \* lastErr # nil, and after the merge a file that is too short
  next,          \* chunk to merge or to clean up
  result,        \* of the last call
  blame,         \* history: what may have spoilt a file
  trouble

disk == <<final, part>>
callVars == <<pc, attempt, body, size, queue, work, failed, next, result>>
vars == <<version, disk, kind, callVars, blame, trouble>>

Whole(v) == [i \in 1..SizeOf[v] |-> <<v, i>>]
Count(n) == (n + ChunkSize - 1) \div ChunkSize
StartOf(c) == (c - 1) * ChunkSize + 1
EndOf(c, n) == IF c = Count(n) THEN n ELSE c * ChunkSize
Length(c, n) == EndOf(c, n) - StartOf(c) + 1

Least(a, b) == IF a < b THEN a ELSE b

\* (mutant: the end of a range taken for exclusive)
SliceTooLong(v, c, n) == SubSeq(Whole(v), StartOf(c), Least(EndOf(c, n) + 1, SizeOf[v]))

\* The answer to a request for a chunk of a file of n bytes; <<>>: status 416.
Slice(v, c, n) == SubSeq(Whole(v), StartOf(c), Least(EndOf(c, n), SizeOf[v]))

\* What a call may take for the size of the file.
Sizes == {SizeOf[v] : v \in DOMAIN SizeOf} \cup ErrorSizes

Chunks == UNION {1..Count(n) : n \in Sizes}
Idle == [chunk |-> 0, tries |-> 0, body |-> NoFile]

Init ==
  /\ version = 1
  /\ final = NoFile /\ part = [c \in Chunks |-> NoFile]
  /\ kind = "smart" /\ pc = "idle"
  /\ attempt = 0 /\ body = NoFile /\ size = 0 /\ queue = <<>>
  /\ work = [w \in Workers |-> Idle]
  /\ failed = FALSE /\ next = 0
  /\ result = "none" /\ blame = {} /\ trouble = 0

Trouble == trouble < MaxTrouble /\ trouble' = trouble + 1

Return(r) ==
  /\ pc' = "idle" /\ result' = r
  /\ attempt' = 0 /\ body' = NoFile /\ size' = 0 /\ queue' = <<>>
  /\ work' = [w \in Workers |-> Idle]
  /\ failed' = FALSE /\ next' = 0

Go(step) == pc' = step /\ UNCHANGED <<attempt, body, size, queue, work, failed, next, result>>

-----------------------------------------------------------------------------
(* The call, and the download in one piece. *)

\* SmartDownload, DownloadMultithread, DownloadWithRetry: a file that exists is
\* taken for the whole file.
Call(k) ==
  /\ pc = "idle"
  /\ kind' = k
  /\ IF final # NoFile
     THEN pc' = "idle" /\ result' = "ok" /\ UNCHANGED attempt
     ELSE /\ pc' = CASE k = "smart" -> "size" [] k = "multi" -> "head" [] k = "retry" -> "get"
          /\ result' = "running" /\ attempt' = 1
  /\ UNCHANGED <<version, disk, body, size, queue, work, failed, next, blame, trouble>>

\* getFileSize, and the choice of SmartDownload.
GetSize ==
  /\ pc = "size"
  /\ \/ Trouble /\ Return("err")
     \/ Go(IF SizeOf[version] < SmallFile THEN "get" ELSE "head") /\ UNCHANGED trouble
  /\ UNCHANGED <<version, disk, kind, blame>>

\* An attempt of downloadWithResume failed: only DownloadWithRetry tries again.
AttemptFailed ==
  IF kind = "retry" /\ attempt < MaxAttempts
  THEN /\ pc' = "get" /\ attempt' = attempt + 1 /\ body' = NoFile
       /\ UNCHANGED <<size, queue, work, failed, next, result>>
  ELSE Return("err")

\* downloadWithResume up to the copy.  The early return for a file that exists
\* stands before the computation of startPos, which is therefore always 0.
Get ==
  /\ pc = "get"
  /\ \/ final # NoFile /\ Return("ok") /\ UNCHANGED <<final, trouble>>
     \/ final = NoFile /\ Trouble /\ AttemptFailed /\ UNCHANGED final
     \/ /\ final = NoFile
        /\ final' = <<>> /\ body' = Whole(version) /\ pc' = "copy"
        /\ UNCHANGED <<attempt, size, queue, work, failed, next, result, trouble>>
  /\ UNCHANGED <<version, part, kind, blame>>

Copy ==
  /\ pc = "copy"
  /\ IF Len(final) < Len(body)
     THEN final' = Append(final, body[Len(final) + 1]) /\ UNCHANGED callVars
     ELSE Return("ok") /\ UNCHANGED final
  /\ UNCHANGED <<version, part, kind, blame, trouble>>

\* io.Copy fails: the file stays as it is.
BreakCopy ==
  /\ pc = "copy" /\ Len(final) < Len(body)
  /\ Trouble /\ AttemptFailed
  /\ blame' = blame \cup {"short copy"}
  /\ UNCHANGED <<version, disk, kind>>

-----------------------------------------------------------------------------
(* The chunks. *)

\* The file is taken to have n bytes, and its chunks go into the channel.
Plan(n) ==
  IF n < MinFile THEN Return("err")
  ELSE /\ size' = n
       /\ queue' = [i \in 1..Count(n) |-> i]
       /\ pc' = "chunks"
       /\ UNCHANGED <<attempt, body, work, failed, next, result>>

\* client.Head: the status of the answer is not looked at, so the length of an
\* error page (403, 404, 503) is taken for the size of the file.
HeadRequest ==
  /\ pc = "head"
  /\ \/ Trouble /\ Return("err") /\ UNCHANGED blame
     \/ Plan(SizeOf[version]) /\ UNCHANGED <<blame, trouble>>
     \/ \E n \in ErrorSizes :
          Trouble /\ Plan(n) /\ blame' = blame \cup {"wrong size"}
  /\ UNCHANGED <<version, disk, kind>>

\* What a receive leaves in the channel.
Taken(chunks) == Tail(chunks)

Take(w) ==
  /\ pc = "chunks" /\ work[w].chunk = 0 /\ queue # <<>>
  /\ work' = [work EXCEPT ![w].chunk = Head(queue)]
  /\ queue' = Taken(queue)
  /\ UNCHANGED <<version, disk, kind, pc, attempt, body, size, failed, next, result, blame, trouble>>

Works(w) == pc = "chunks" /\ work[w].chunk # 0
Need(w) == Length(work[w].chunk, size)

\* The worker is through with its chunk.
Finish(w) == work' = [work EXCEPT ![w] = Idle] /\ UNCHANGED failed

\* (mutant: the retries of a worker never end)
AgainForever(w) == work' = [work EXCEPT ![w].body = NoFile] /\ UNCHANGED failed

\* (mutant: one try too many)
AgainOnceMore(w) ==
  IF work[w].tries <= MaxRetries
  THEN work' = [work EXCEPT ![w].tries = @ + 1, ![w].body = NoFile] /\ UNCHANGED failed
  ELSE work' = [work EXCEPT ![w] = Idle] /\ failed' = TRUE

\* downloadChunkOnce failed.
Again(w) ==
  IF work[w].tries < MaxRetries
  THEN work' = [work EXCEPT ![w].tries = @ + 1, ![w].body = NoFile] /\ UNCHANGED failed
  ELSE work' = [work EXCEPT ![w] = Idle] /\ failed' = TRUE

Answer(w, bytes) ==
  /\ work' = [work EXCEPT ![w].body = bytes]
  /\ part' = [part EXCEPT ![work[w].chunk] = <<>>]
  /\ UNCHANGED failed

Unlink(w) == part' = [part EXCEPT ![work[w].chunk] = NoFile]

\* (mutant: the size is compared the wrong way round at the boundary)
TooShortOrEqual(bytes, n) == Len(bytes) <= n

\* verifyDownload: only a file that is too short is wrong.
TooShort(bytes, n) == Len(bytes) < n

\* downloadChunkOnce: an old part is taken or removed, else it is requested.
Once(w) ==
  LET c == work[w].chunk
      slice == Slice(version, c, size)
  IN  /\ Works(w) /\ work[w].body = NoFile
      /\ \/ /\ part[c] # NoFile /\ ~TooShort(part[c], Need(w))
            /\ Finish(w) /\ UNCHANGED <<part, blame, trouble>>
         \/ /\ part[c] # NoFile /\ TooShort(part[c], Need(w))
            /\ Unlink(w) /\ Again(w) /\ UNCHANGED <<blame, trouble>>
         \/ /\ part[c] = NoFile /\ slice # <<>>
            /\ Answer(w, slice) /\ UNCHANGED <<blame, trouble>>
         \/ /\ part[c] = NoFile /\ slice = <<>>
            /\ Again(w) /\ UNCHANGED <<part, blame, trouble>>
         \/ /\ part[c] = NoFile /\ Trouble
            /\ Again(w) /\ UNCHANGED <<part, blame>>
         \/ /\ part[c] = NoFile /\ Trouble   \* status 200: the server ignores the range
            /\ Answer(w, Whole(version)) /\ blame' = blame \cup {"range ignored"}
      /\ UNCHANGED <<version, final, kind, pc, attempt, body, size, queue, next, result>>

Read(w) ==
  LET c == work[w].chunk
      answer == work[w].body
  IN  /\ Works(w) /\ answer # NoFile
      /\ IF Len(part[c]) < Len(answer)
         THEN /\ part' = [part EXCEPT ![c] = Append(@, answer[Len(@) + 1])]
              /\ UNCHANGED <<work, failed>>
         ELSE IF TooShort(part[c], Need(w)) THEN Unlink(w) /\ Again(w)
         ELSE Finish(w) /\ UNCHANGED part
      /\ UNCHANGED <<version, final, kind, pc, attempt, body, size, queue, next, result,
                     blame, trouble>>

BreakRead(w) ==
  /\ Works(w) /\ work[w].body # NoFile
  /\ Len(part[work[w].chunk]) < Len(work[w].body)
  /\ Trouble /\ Unlink(w) /\ Again(w)
  /\ UNCHANGED <<version, final, kind, pc, attempt, body, size, queue, next, result, blame>>

\* wg.Wait, and what DownloadMultithread does with the outcome.
Wait ==
  /\ pc = "chunks" /\ queue = <<>> /\ \A w \in Workers : work[w].chunk = 0
  /\ IF failed THEN Return("err") /\ UNCHANGED final
     ELSE /\ final' = <<>> /\ next' = 1 /\ pc' = "merge"
          /\ UNCHANGED <<attempt, body, size, queue, work, failed, result>>
  /\ UNCHANGED <<version, part, kind, blame, trouble>>

-----------------------------------------------------------------------------
(* The merge. *)

\* mergeFiles, one chunk; after the last one the size is verified.
Merge ==
  /\ pc = "merge"
  /\ \/ /\ next <= Count(size) /\ part[next] # NoFile
        /\ final' = final \o part[next] /\ next' = next + 1
        /\ UNCHANGED <<pc, attempt, body, size, queue, work, failed, result>>
     \/ /\ next > Count(size)
        /\ final' = IF TooShort(final, size) THEN NoFile ELSE final
        /\ failed' = TooShort(final, size)
        /\ pc' = "cleanup" /\ next' = 1
        /\ UNCHANGED <<attempt, body, size, queue, work, result>>
  /\ UNCHANGED <<version, part, kind, blame, trouble>>

\* (mutant: a failed merge leaves its file)
Kept(file) == file

\* removeFile after a failed merge.
Removed(file) == NoFile

\* A chunk cannot be opened or copied: the parts stay for the next call.
BreakMerge ==
  /\ pc = "merge" /\ next <= Count(size)
  /\ IF part[next] = NoFile THEN UNCHANGED trouble ELSE Trouble
  /\ final' = Removed(final)
  /\ Return("err")
  /\ UNCHANGED <<version, part, kind, blame>>

\* cleanupTempFiles, before the call returns in either case.
Cleanup ==
  /\ pc = "cleanup"
  /\ IF next <= Count(size)
     THEN /\ part' = [part EXCEPT ![next] = NoFile]
          /\ next' = next + 1
          /\ UNCHANGED <<pc, attempt, body, size, queue, work, failed, result>>
     ELSE Return(IF failed THEN "err" ELSE "ok") /\ UNCHANGED part
  /\ UNCHANGED <<version, final, kind, blame, trouble>>

-----------------------------------------------------------------------------
(* The world. *)

\* The process dies: the files stay.
Kill ==
  /\ pc # "idle" /\ Trouble
  /\ blame' = CASE pc = "copy"  -> blame \cup {"short copy"}
                [] pc = "merge" -> blame \cup {"merge killed"}
                [] OTHER -> blame
  /\ Return("killed")
  /\ UNCHANGED <<version, disk, kind>>

\* The server gets a new version of the resource.
Publish ==
  /\ version < Len(SizeOf)
  /\ version' = version + 1
  /\ blame' = IF pc = "idle" /\ final = NoFile /\ \A c \in Chunks : part[c] = NoFile
              THEN blame ELSE blame \cup {"changed"}
  /\ UNCHANGED <<disk, kind, callVars, trouble>>

WorkerStep(w) == Take(w) \/ Once(w) \/ Read(w) \/ BreakRead(w)
MainStep == GetSize \/ Get \/ Copy \/ BreakCopy \/ HeadRequest \/ Wait \/ Merge \/ BreakMerge \/ Cleanup

Next == \/ \E k \in {"smart", "multi", "retry"} : Call(k)
        \/ MainStep
        \/ \E w \in Workers : WorkerStep(w)
        \/ Kill
        \/ Publish

\* Nobody has to call; a call that runs is scheduled, and so is each goroutine.
Spec == /\ Init /\ [][Next]_vars
        /\ WF_vars(MainStep) /\ \A w \in Workers : WF_vars(WorkerStep(w))

-----------------------------------------------------------------------------
Bytes == (DOMAIN SizeOf) \X Nat
Files == Seq(Bytes) \cup {NoFile}

TypeOK ==
  /\ version \in DOMAIN SizeOf
  /\ final \in Files /\ part \in [Chunks -> Files]
  /\ kind \in {"smart", "multi", "retry"}
  /\ pc \in {"idle", "size", "get", "copy", "head", "chunks", "merge", "cleanup"}
  /\ attempt \in 0..MaxAttempts /\ body \in Files
  /\ size \in Nat /\ queue \in Seq(Chunks)
  /\ work \in [Workers -> [chunk : Chunks \cup {0}, tries : 0..MaxRetries, body : Files]]
  /\ failed \in BOOLEAN /\ next \in Nat
  /\ result \in {"none", "running", "ok", "err", "killed"}
  /\ blame \subseteq {"short copy", "range ignored", "merge killed", "changed", "wrong size"}
  /\ trouble \in 0..MaxTrouble

\* No more than a size read off an error page is to blame.
Mild == {"wrong size"}

\* Between calls the final name holds nothing or a beginning of the resource, no
\* byte twice, missing or in the wrong place, whatever failed or was killed on the
\* way, and the whole of it when no error page was taken for the size (verifyDownload
\* checks against that size).  Four things are excepted that the code has no answer
\* to: a copy or a merge cut short, a range the server ignored, a resource that
\* changed in between.
FinalIsWhole ==
  pc = "idle" /\ blame \subseteq Mild /\ final # NoFile =>
    /\ IsPrefix(final, Whole(version))
    /\ blame = {} => final = Whole(version)

\* The parts, one after the other, never hold a byte twice or in the wrong place,
\* also after a kill, while several workers write and when the size is wrong: each
\* is a beginning of its own chunk (os.Create, the read loop, removeFile on every
\* error).
PartsAreSlices ==
  \A c \in Chunks : blame \subseteq Mild /\ part[c] # NoFile =>
    LET before == (c - 1) * ChunkSize IN
    /\ Len(part[c]) <= ChunkSize /\ before + Len(part[c]) <= SizeOf[version]
    /\ \A i \in DOMAIN part[c] : part[c][i] = <<version, before + i>>

\* A part nothing has to be added to: where the size may be wrong, only a part as
\* long as a chunk is sure to be one.
Complete(c) ==
  /\ part[c] # NoFile
  /\ Len(part[c]) = IF blame = {} THEN Length(c, SizeOf[version]) ELSE ChunkSize

\* The final file has the bytes of the part, at their place.
Holds(file, c) ==
  LET before == (c - 1) * ChunkSize IN
  /\ file # NoFile /\ before + Len(part[c]) <= Len(file)
  /\ \A i \in DOMAIN part[c] : file[before + i] = part[c][i]

\* No step of a call throws away a complete part before its bytes stand in a merged
\* file that passed its check, which is the whole resource when the size was right:
\* a call after a kill does not start from nothing.
CompletePartsStay ==
  [][\A c \in Chunks :
       blame' \subseteq Mild /\ Complete(c) =>
         \/ part'[c] = part[c]
         \/ /\ pc = "cleanup" /\ Holds(final, c)
            /\ blame = {} => final = Whole(version)]_vars

\* Two workers never write the same part.
OneWriter ==
  \A v, w \in Workers : v # w /\ work[v].chunk = work[w].chunk => work[v].chunk = 0

\* Every call returns or is killed: no worker waits for another, no retry is endless.
CallReturns == pc # "idle" ~> pc = "idle"

\* A download that ended well has the whole file (lib/downbigfile.go: "download
\* with resume"): violated, since an attempt that finds the broken file of the
\* attempt before answers that it is there.
ResumeCompletes ==
  result = "ok" /\ kind = "retry" /\ blame \subseteq {"short copy"} => final = Whole(version)
=============================================================================
