---------------------- MODULE BigfileDownloaderProofs ----------------------
(***************************************************************************)
(* What the downloader leaves on the disk, for any resource, chunk size,   *)
(* number of workers, retries and troubles.  The arithmetic of the chunks  *)
(* is in the first lemmas.  Of the two halves of the invariant one says    *)
(* who works on which chunk (Shared), whatever happened, and the other     *)
(* what the files hold as long as no more is to blame than a wrong size    *)
(* (Clean), and as long as nothing is (Exact).                             *)
(***************************************************************************)
EXTENDS BigfileDownloader, SequenceTheorems, TLAPS

\* The bytes of the first c chunks.
Off(c) == c * ChunkSize

LEMMA Constants ==
  /\ ChunkSize \in Nat /\ ChunkSize > 0
  /\ MaxAttempts \in Nat /\ MaxAttempts > 0
  /\ MaxRetries \in Nat /\ MaxTrouble \in Nat /\ SmallFile \in Nat
  /\ 1 \in DOMAIN SizeOf
  /\ \A v \in DOMAIN SizeOf : v \in Nat /\ SizeOf[v] \in Nat /\ SizeOf[v] > 0
  /\ MinFile \in Nat /\ \A n \in ErrorSizes : n \in Nat /\ n > 0 /\ ~(n < MinFile)
BY DownloaderAssumption

LEMMA OffFacts ==
  /\ Off(0) = 0
  /\ \A c \in Int : Off(c) \in Int /\ Off(c + 1) = Off(c) + ChunkSize
  /\ \A c \in Nat : Off(c) \in Nat
<1>1. \A c \in Int : Off(c + 1) = Off(c) + ChunkSize
  BY Constants DEF Off
<1>. QED BY <1>1, Constants DEF Off

LEMMA OffGrows ==
  ASSUME NEW c \in Nat, NEW d \in Nat, c <= d
  PROVE  Off(c) <= Off(d)
<1>1. PICK k \in Nat : d = c + k BY d - c \in Nat
<1>2. Off(d) = Off(c) + k * ChunkSize BY <1>1, Constants DEF Off
<1>3. k * ChunkSize \in Nat BY Constants
<1>. QED BY <1>2, <1>3, OffFacts

\* The last chunk is the one that reaches the end.
LEMMA CountFacts ==
  ASSUME NEW n \in Nat, n > 0
  PROVE  /\ Count(n) \in Nat /\ Count(n) > 0
         /\ Off(Count(n) - 1) < n /\ n <= Off(Count(n))
<1>. DEFINE k == (n + ChunkSize - 1) \div ChunkSize
<1>1. n + ChunkSize - 1 \in Nat BY Constants
<1>2. /\ k \in Nat /\ k * ChunkSize <= n + ChunkSize - 1
      /\ n + ChunkSize - 1 < (k + 1) * ChunkSize
  BY <1>1, Constants, Z3
<1>3. k = Count(n) BY DEF Count
<1>. HIDE DEF k
<1>4. (k + 1) * ChunkSize = Off(k) + ChunkSize BY <1>2, OffFacts DEF Off
<1>5. k * ChunkSize = Off(k) BY DEF Off
<1>6. Off(k) = Off(k - 1) + ChunkSize
  <2>1. k - 1 \in Int /\ (k - 1) + 1 = k BY <1>2
  <2>. QED BY <2>1, OffFacts
<1>7. /\ Off(k) \in Nat /\ Off(k - 1) \in Int BY <1>2, OffFacts
<1>8. Off(k) >= n BY <1>2, <1>4, <1>7, Constants
<1>9. k # 0 BY <1>8, OffFacts
<1>10. Off(k - 1) < n BY <1>2, <1>5, <1>6, <1>7, Constants
<1>. QED BY <1>2, <1>3, <1>8, <1>9, <1>10

\* A chunk lies inside the file, right behind the chunk before.
LEMMA ChunkFacts ==
  ASSUME NEW n \in Nat, n > 0, NEW c \in 1..Count(n)
  PROVE  /\ StartOf(c) = Off(c - 1) + 1 /\ Off(c - 1) \in Nat
         /\ Length(c, n) \in Nat /\ Length(c, n) > 0 /\ Length(c, n) <= ChunkSize
         /\ Off(c - 1) + Length(c, n) = EndOf(c, n)
         /\ EndOf(c, n) \in Nat /\ EndOf(c, n) <= n
         /\ EndOf(c, n) = IF c = Count(n) THEN n ELSE Off(c)
<1>1. /\ Count(n) \in Nat /\ Off(Count(n) - 1) < n /\ n <= Off(Count(n))
  BY CountFacts
<1>2. /\ c \in Nat /\ c - 1 \in Nat /\ c <= Count(n) BY <1>1
<1>3. /\ Off(c) = Off(c - 1) + ChunkSize /\ Off(c) \in Nat /\ Off(c - 1) \in Nat
  <2>1. (c - 1) + 1 = c BY <1>2
  <2>. QED BY <1>2, <2>1, OffFacts
<1>4. StartOf(c) = Off(c - 1) + 1 BY DEF StartOf, Off
<1>5. EndOf(c, n) = IF c = Count(n) THEN n ELSE Off(c) BY DEF EndOf, Off
<1>6. c # Count(n) => Off(c) < n
  <2>1. SUFFICES ASSUME c # Count(n) PROVE Off(c) < n OBVIOUS
  <2>2. c <= Count(n) - 1 /\ Count(n) - 1 \in Nat BY <1>1, <1>2, <2>1
  <2>3. Off(c) <= Off(Count(n) - 1) BY <1>2, <2>2, OffGrows
  <2>4. Off(Count(n) - 1) \in Nat BY <2>2, OffFacts
  <2>. QED BY <1>1, <1>3, <2>3, <2>4
<1>7. Length(c, n) = EndOf(c, n) - Off(c - 1) BY <1>3, <1>4, <1>5 DEF Length
<1>8. CASE c = Count(n)
  BY <1>1, <1>3, <1>4, <1>5, <1>7, <1>8, Constants
<1>9. CASE c # Count(n)
  BY <1>1, <1>3, <1>4, <1>5, <1>6, <1>7, <1>9, Constants
<1>. QED BY <1>8, <1>9

-----------------------------------------------------------------------------
(* Files. *)

LEMMA NoFileIsNone == NoFile \notin Seq(Bytes)
<1>1. DOMAIN SizeOf \subseteq Nat BY Constants
<1>2. Bytes \subseteq Nat \X Nat BY <1>1 DEF Bytes
<1>3. Seq(Bytes) \subseteq Seq(Nat \X Nat) BY <1>2
<1>. QED BY <1>3, DownloaderAssumption

LEMMA EmptyIsFile == <<>> \in Seq(Bytes) /\ <<>> # NoFile
<1>1. <<>> \in Seq(Bytes) OBVIOUS
<1>. QED BY <1>1, NoFileIsNone

LEMMA WholeFacts ==
  ASSUME NEW v \in DOMAIN SizeOf
  PROVE  /\ Whole(v) \in Seq(Bytes) /\ Len(Whole(v)) = SizeOf[v]
         /\ \A i \in 1..SizeOf[v] : Whole(v)[i] = <<v, i>>
<1>1. SizeOf[v] \in Nat BY Constants
<1>2. \A i \in 1..SizeOf[v] : <<v, i>> \in Bytes BY <1>1 DEF Bytes
<1>. QED BY <1>1, <1>2 DEF Whole

LEMMA SliceIsFile ==
  ASSUME NEW v \in DOMAIN SizeOf, NEW n \in Nat, n > 0, NEW c \in 1..Count(n)
  PROVE  Slice(v, c, n) \in Seq(Bytes)
<1>1. /\ StartOf(c) \in Nat /\ StartOf(c) >= 1 /\ EndOf(c, n) \in Nat
  BY ChunkFacts
<1>2. SizeOf[v] \in Nat BY Constants
<1>. DEFINE e == Least(EndOf(c, n), SizeOf[v])
<1>3. e \in Int /\ e <= SizeOf[v] BY <1>1, <1>2 DEF Least
<1>. HIDE DEF e
<1>4. \A i \in StartOf(c)..e : Whole(v)[i] \in Bytes
  <2>1. \A i \in StartOf(c)..e : i \in 1..SizeOf[v] BY <1>1, <1>2, <1>3
  <2>2. \A i \in 1..SizeOf[v] : Whole(v)[i] \in Bytes
    BY <1>2, WholeFacts DEF Bytes
  <2>. QED BY <2>1, <2>2
<1>5. SubSeq(Whole(v), StartOf(c), e) \in Seq(Bytes)
  BY <1>1, <1>3, <1>4, SubSeqProperties
<1>. QED BY <1>5 DEF Slice, e

\* The answer for a chunk is a beginning of the chunk, also when the size is wrong.
LEMMA SliceFacts ==
  ASSUME NEW v \in DOMAIN SizeOf, NEW n \in Nat, n > 0, NEW c \in 1..Count(n),
         Slice(v, c, n) # <<>>
  PROVE  /\ c \in 1..Count(SizeOf[v])
         /\ Len(Slice(v, c, n)) \in Nat
         /\ Len(Slice(v, c, n)) <= Length(c, SizeOf[v])
         /\ \A i \in 1..Len(Slice(v, c, n)) : Slice(v, c, n)[i] = <<v, Off(c - 1) + i>>
<1>. DEFINE S == SizeOf[v]
            e == Least(EndOf(c, n), S)
            s == SubSeq(Whole(v), StartOf(c), e)
<1>1. /\ S \in Nat /\ S > 0 /\ Count(S) \in Nat /\ Count(n) \in Nat
      /\ S <= Off(Count(S)) /\ n <= Off(Count(n))
  BY Constants, CountFacts
<1>2. /\ StartOf(c) = Off(c - 1) + 1 /\ Off(c - 1) \in Nat
      /\ EndOf(c, n) \in Nat /\ EndOf(c, n) = IF c = Count(n) THEN n ELSE Off(c)
  BY ChunkFacts
<1>3. /\ c \in Nat /\ c - 1 \in Nat /\ Off(c) \in Nat BY <1>1, OffFacts
<1>4. e \in Nat /\ e <= S /\ e <= Off(c) BY <1>1, <1>2, <1>3 DEF Least
<1>. HIDE DEF e, S
<1>5. \A i \in StartOf(c)..e : Whole(v)[i] = <<v, i>> /\ Whole(v)[i] \in Bytes
  <2>1. \A i \in StartOf(c)..e : i \in 1..S BY <1>1, <1>2, <1>4
  <2>2. \A i \in 1..S : <<v, i>> \in Bytes BY <1>1 DEF Bytes, S
  <2>. QED BY <2>1, <2>2, WholeFacts DEF S
<1>6. StartOf(c) \in Int /\ e \in Int BY <1>2, <1>4
<1>7. /\ s \in Seq(Bytes)
      /\ Len(s) = IF StartOf(c) <= e THEN e - StartOf(c) + 1 ELSE 0
      /\ \A i \in 1..(e - StartOf(c) + 1) : s[i] = Whole(v)[StartOf(c) + i - 1]
  BY <1>5, <1>6, SubSeqProperties
<1>8. s = Slice(v, c, n) BY DEF Slice, e, S
<1>. HIDE DEF s
<1>9. StartOf(c) <= e
  <2>1. Len(s) # 0 BY <1>7, <1>8
  <2>. QED BY <1>7, <2>1
<1>10. Len(s) = e - Off(c - 1) BY <1>2, <1>4, <1>7, <1>9
<1>11. c <= Count(S)
  <2>1. SUFFICES ASSUME ~(c <= Count(S)) PROVE FALSE OBVIOUS
  <2>2. Count(S) <= c - 1 BY <1>1, <1>3, <2>1
  <2>3. Off(Count(S)) <= Off(c - 1) BY <1>1, <1>3, <2>2, OffGrows
  <2>4. Off(Count(S)) \in Nat BY <1>1, OffFacts
  <2>. QED BY <1>1, <1>2, <1>4, <1>9, <2>3, <2>4
<1>12. c \in 1..Count(S) BY <1>1, <1>3, <1>11
<1>13. /\ Off(c - 1) + Length(c, S) = EndOf(c, S) /\ Length(c, S) \in Nat
       /\ EndOf(c, S) = IF c = Count(S) THEN S ELSE Off(c)
  BY <1>1, <1>12, ChunkFacts
<1>14. Len(s) <= Length(c, S) /\ Len(s) \in Nat
  BY <1>1, <1>2, <1>3, <1>4, <1>7, <1>9, <1>10, <1>13
<1>15. \A i \in 1..Len(s) : s[i] = <<v, Off(c - 1) + i>>
  <2>1. \A i \in 1..Len(s) :
          /\ i \in 1..(e - StartOf(c) + 1)
          /\ StartOf(c) + i - 1 \in StartOf(c)..e /\ StartOf(c) + i - 1 = Off(c - 1) + i
    BY <1>2, <1>4, <1>10
  <2>. QED BY <1>5, <1>7, <2>1
<1>. QED BY <1>8, <1>12, <1>14, <1>15 DEF S

LEMMA ChunksOf ==
  ASSUME NEW n \in Sizes
  PROVE  /\ n \in Nat /\ n > 0 /\ Count(n) \in Nat /\ Count(n) > 0
         /\ \A c \in 1..Count(n) : c \in Chunks /\ c \in Nat /\ c # 0
<1>1. n \in Nat /\ n > 0 BY Constants DEF Sizes
<1>2. Count(n) \in Nat /\ Count(n) > 0 BY <1>1, CountFacts
<1>3. 1..Count(n) \subseteq Chunks BY DEF Chunks
<1>. QED BY <1>1, <1>2, <1>3

LEMMA ChunksAreNat == Chunks \subseteq Nat \ {0}
<1>1. ASSUME NEW n \in Sizes PROVE 1..Count(n) \subseteq Nat \ {0}
  <2>1. n \in Nat /\ n > 0 BY Constants DEF Sizes
  <2>2. Count(n) \in Nat BY <2>1, CountFacts
  <2>. QED BY <2>2
<1>. QED BY <1>1 DEF Chunks

-----------------------------------------------------------------------------
(* The invariant. *)

\* The chunks leave the queue in order, each to one worker, and a worker that
\* reads an answer has created the part it writes.
Shared ==
  /\ pc # "chunks" => queue = <<>> /\ \A w \in Workers : work[w].chunk = 0
  /\ pc \in {"chunks", "merge", "cleanup"} => size \in Sizes
  /\ pc = "chunks" =>
       /\ Len(queue) <= Count(size)
       /\ \A i \in 1..Len(queue) : queue[i] = Count(size) - Len(queue) + i
       /\ \A w \in Workers : work[w].chunk <= Count(size) - Len(queue)
  /\ pc \in {"merge", "cleanup"} => next \in 1..(Count(size) + 1)
  /\ pc \in {"copy", "merge"} => final # NoFile
  /\ pc = "copy" => body # NoFile
  /\ OneWriter
  /\ \A w \in Workers : work[w].body # NoFile =>
       work[w].chunk # 0 /\ part[work[w].chunk] # NoFile

\* A file that begins like a version of the resource.
Begins(file, v) == Len(file) <= SizeOf[v] /\ \A i \in 1..Len(file) : file[i] = <<v, i>>

\* A part that begins like its chunk.
PartBegins(p, c, v) ==
  /\ c \in 1..Count(SizeOf[v]) /\ Len(p) <= Length(c, SizeOf[v])
  /\ \A i \in 1..Len(p) : p[i] = <<v, Off(c - 1) + i>>

\* A part the call has nothing to add to.
Enough(c) == part[c] # NoFile /\ Len(part[c]) >= Length(c, size)

\* What the merge has copied before chunk c of n bytes.
Merged(file, c, n) == IF c <= Count(n) THEN Len(file) = Off(c - 1) ELSE Len(file) >= n

\* The file reaches to the end of the part.
Reaches(c) == Off(c - 1) + Len(part[c]) <= Len(final)

Clean ==
  /\ \A c \in Chunks : part[c] # NoFile => PartBegins(part[c], c, version)
  /\ final # NoFile => Begins(final, version)
  /\ \A w \in Workers : work[w].body # NoFile =>
       work[w].body = Slice(version, work[w].chunk, size) /\ work[w].body # <<>>
  /\ pc = "copy" => body = Whole(version)
  /\ pc = "chunks" /\ ~failed =>
       \A c \in 1..(Count(size) - Len(queue)) :
         Enough(c) \/ \E w \in Workers : work[w].chunk = c
  /\ pc = "merge" =>
       /\ \A c \in 1..Count(size) : Enough(c)
       /\ Merged(final, next, size) /\ \A c \in 1..(next - 1) : Reaches(c)
  /\ pc = "cleanup" =>
       /\ final # NoFile
       /\ \A c \in 1..Count(size) : part[c] # NoFile => Reaches(c)

\* Nothing is to blame: the size is right, and so is the file that was verified.
Exact ==
  /\ pc \in {"chunks", "merge", "cleanup"} => size = SizeOf[version]
  /\ pc \notin {"copy", "merge"} => final \in {NoFile, Whole(version)}

Cleanly == (blame \subseteq Mild => Clean) /\ (blame = {} => Exact)

IInv == TypeOK /\ Shared /\ Cleanly

-----------------------------------------------------------------------------
(* One step of a worker. *)

Task == [chunk : Chunks \cup {0}, tries : 0..MaxRetries, body : Files]

LEMMA IdleIsTask ==
  Idle \in Task /\ Idle.chunk = 0 /\ Idle.body = NoFile
<1>1. 0 \in 0..MaxRetries BY Constants
<1>2. NoFile \in Files /\ 0 \in Chunks \cup {0} BY DEF Files
<1>3. Idle = [chunk |-> 0, tries |-> 0, body |-> NoFile] BY DEF Idle
<1>4. Idle \in Task BY <1>1, <1>2, <1>3 DEF Task
<1>. QED BY <1>3, <1>4

LEMMA QueueFacts ==
  ASSUME TypeOK
  PROVE  queue \in Seq(Chunks) /\ Len(queue) \in Nat
<1>1. queue \in Seq(Chunks) BY DEF TypeOK
<1>. QED BY <1>1, LenProperties

LEMMA AtWork ==
  ASSUME TypeOK, Shared, NEW w \in Workers, Works(w)
  PROVE  /\ pc = "chunks" /\ size \in Sizes /\ size \in Nat /\ size > 0
         /\ work[w].chunk \in 1..Count(size) /\ work[w].chunk \in Chunks
         /\ work[w].chunk <= Count(size) - Len(queue)
         /\ Len(queue) \in Nat /\ Count(size) \in Nat
         /\ part[work[w].chunk] \in Files /\ work[w] \in Task
<1>1. /\ work[w] \in Task /\ pc = "chunks" /\ work[w].chunk # 0
  BY DEF TypeOK, Task, Works
<1>2. /\ work[w].chunk \in Chunks /\ work[w].chunk \in Nat
      /\ part[work[w].chunk] \in Files
  BY <1>1, ChunksAreNat DEF TypeOK, Task
<1>3. size \in Sizes /\ work[w].chunk <= Count(size) - Len(queue)
  BY <1>1 DEF Shared
<1>4. /\ size \in Nat /\ size > 0 /\ Count(size) \in Nat BY <1>3, ChunksOf
<1>5. Len(queue) \in Nat BY QueueFacts
<1>. QED BY <1>1, <1>2, <1>3, <1>4, <1>5

\* A worker goes on with task t and leaves f as its part.
Moves(w, t, f) ==
  /\ Works(w) /\ t \in Task /\ f \in Files /\ t.chunk \in {0, work[w].chunk}
  /\ work' = [work EXCEPT ![w] = t]
  /\ part' = [part EXCEPT ![work[w].chunk] = f]
  /\ t.body # NoFile => t.chunk # 0 /\ f # NoFile
  /\ failed' \in BOOLEAN /\ (failed => failed')
  /\ UNCHANGED <<version, final, kind, pc, attempt, body, size, queue, next, result>>

MovesCleanly(w, t, f) ==
  /\ f # NoFile => PartBegins(f, work[w].chunk, version)
  /\ t.body # NoFile => t.body = Slice(version, t.chunk, size) /\ t.body # <<>>
  /\ t.chunk = 0 /\ ~failed' =>
       f # NoFile /\ Len(f) >= Length(work[w].chunk, size)

Blames == {"short copy", "range ignored", "merge killed", "changed", "wrong size"}

LEMMA MovesShared ==
  ASSUME TypeOK, Shared, NEW w \in Workers, NEW t, NEW f, Moves(w, t, f),
         blame' \subseteq Blames, trouble' \in 0..MaxTrouble
  PROVE  TypeOK' /\ Shared'
<1>. DEFINE c == work[w].chunk
<1>1. /\ Works(w) /\ t \in Task /\ f \in Files /\ t.chunk \in {0, c}
      /\ work' = [work EXCEPT ![w] = t] /\ part' = [part EXCEPT ![c] = f]
      /\ t.body # NoFile => t.chunk # 0 /\ f # NoFile
      /\ failed' \in BOOLEAN
      /\ UNCHANGED <<version, final, kind, pc, attempt, body, size, queue, next, result>>
  BY DEF Moves
<1>2. /\ pc = "chunks" /\ size \in Sizes /\ c \in Chunks /\ c # 0
      /\ c <= Count(size) - Len(queue) /\ Len(queue) \in Nat /\ Count(size) \in Nat
      /\ 0 <= Count(size) - Len(queue)
  BY <1>1, AtWork DEF Works, Shared
<1>. HIDE DEF c
<1>3. /\ work' \in [Workers -> Task] /\ work'[w] = t
      /\ \A u \in Workers : u # w => work'[u] = work[u]
  BY <1>1 DEF TypeOK, Task
<1>4. /\ part' \in [Chunks -> Files] /\ part'[c] = f
      /\ \A d \in Chunks : d # c => part'[d] = part[d]
  BY <1>1, <1>2 DEF TypeOK
<1>5. TypeOK' BY <1>1, <1>3, <1>4 DEF TypeOK, Task, Blames
<1>6. \A u \in Workers : work[u] \in Task BY DEF TypeOK, Task
<1>7. \A u \in Workers : work'[u].chunk \in {0, work[u].chunk}
  BY <1>1, <1>3 DEF c
<1>8. OneWriter' BY <1>7 DEF OneWriter, Shared
<1>9. \A u \in Workers : work'[u].chunk <= Count(size) - Len(queue)
  BY <1>1, <1>2, <1>7 DEF Shared
<1>10. ASSUME NEW u \in Workers, work'[u].body # NoFile
       PROVE  work'[u].chunk # 0 /\ part'[work'[u].chunk] # NoFile
  <2>1. CASE u = w BY <1>1, <1>3, <1>4, <1>10, <2>1 DEF c
  <2>2. CASE u # w
    <3>1. /\ work'[u] = work[u] /\ work[u].chunk # 0
          /\ part[work[u].chunk] # NoFile
      BY <1>3, <1>10, <2>2 DEF Shared
    <3>2. work[u].chunk # c BY <1>2, <2>2, <3>1 DEF c, Shared, OneWriter
    <3>3. work[u].chunk \in Chunks BY <1>6, <3>1 DEF Task
    <3>. QED BY <1>4, <3>1, <3>2, <3>3
  <2>. QED BY <2>1, <2>2
<1>11. Shared' BY <1>1, <1>2, <1>8, <1>9, <1>10 DEF Shared
<1>. QED BY <1>5, <1>11

LEMMA MovesClean ==
  ASSUME TypeOK, Shared, Clean, NEW w \in Workers, NEW t, NEW f, Moves(w, t, f),
         MovesCleanly(w, t, f)
  PROVE  Clean' /\ (Exact => Exact')
<1>. DEFINE c == work[w].chunk
<1>1. /\ Works(w) /\ t \in Task /\ f \in Files /\ t.chunk \in {0, c}
      /\ work' = [work EXCEPT ![w] = t] /\ part' = [part EXCEPT ![c] = f]
      /\ t.body # NoFile => t.chunk # 0 /\ f # NoFile
      /\ failed' \in BOOLEAN /\ (failed => failed')
      /\ UNCHANGED <<version, final, kind, pc, attempt, body, size, queue, next, result>>
  BY DEF Moves
<1>2. /\ f # NoFile => PartBegins(f, c, version)
      /\ t.body # NoFile => t.body = Slice(version, t.chunk, size) /\ t.body # <<>>
      /\ t.chunk = 0 /\ ~failed' => f # NoFile /\ Len(f) >= Length(c, size)
  BY DEF MovesCleanly
<1>. HIDE DEF c
<1>3. pc = "chunks" /\ c \in Chunks /\ c # 0 /\ size \in Sizes
  BY <1>1, AtWork DEF Works, c
<1>4. /\ work'[w] = t
      /\ \A u \in Workers : u # w => work'[u] = work[u]
  BY <1>1 DEF TypeOK, Task
<1>5. /\ part'[c] = f
      /\ \A d \in Chunks : d # c => part'[d] = part[d]
  BY <1>1, <1>3 DEF TypeOK
<1>6. \A d \in Chunks : part'[d] # NoFile => PartBegins(part'[d], d, version')
  BY <1>1, <1>2, <1>5 DEF Clean
<1>7. \A u \in Workers : work'[u].body # NoFile =>
        /\ work'[u].body = Slice(version', work'[u].chunk, size')
        /\ work'[u].body # <<>>
  BY <1>1, <1>2, <1>4 DEF Clean
<1>8. ASSUME ~failed', NEW d \in 1..(Count(size) - Len(queue))
      PROVE  Enough(d)' \/ \E u \in Workers : work'[u].chunk = d
  <2>1. d \in Chunks
    <3>1. /\ Count(size) \in Nat /\ Len(queue) \in Nat
      BY <1>3, ChunksOf, QueueFacts
    <3>2. d \in 1..Count(size) BY <3>1
    <3>. QED BY <1>3, <3>2, ChunksOf
  <2>2. Enough(d) \/ \E u \in Workers : work[u].chunk = d
    BY <1>1, <1>3, <1>8 DEF Clean
  <2>3. CASE d = c
    BY <1>1, <1>2, <1>4, <1>5, <1>8, <2>3 DEF Enough
  <2>4. CASE d # c
    <3>1. Enough(d) => Enough(d)' BY <1>1, <1>5, <2>1, <2>4 DEF Enough
    <3>2. \A u \in Workers : work[u].chunk = d => work'[u].chunk = d
      BY <1>4, <2>4 DEF c
    <3>. QED BY <2>2, <3>1, <3>2
  <2>. QED BY <2>3, <2>4
<1>9. pc' = "chunks" /\ size' = size /\ queue' = queue BY <1>1, <1>3
<1>10. final' # NoFile => Begins(final', version')
  BY <1>1 DEF Clean
<1>11. Clean' BY <1>6, <1>7, <1>8, <1>9, <1>10 DEF Clean
<1>12. Exact => Exact' BY <1>1, <1>3 DEF Exact
<1>. QED BY <1>11, <1>12

LEMMA TroubleFacts ==
  ASSUME TypeOK, Trouble \/ UNCHANGED trouble
  PROVE  trouble' \in 0..MaxTrouble
<1>1. trouble \in 0..MaxTrouble BY DEF TypeOK
<1>. QED BY <1>1, Constants DEF Trouble

LEMMA AgainTask ==
  ASSUME TypeOK, NEW w \in Workers, Again(w)
  PROVE  \E t \in Task :
           /\ work' = [work EXCEPT ![w] = t]
           /\ t.chunk \in {0, work[w].chunk} /\ t.body = NoFile
           /\ failed' \in BOOLEAN /\ (failed => failed')
           /\ (t.chunk # work[w].chunk => failed')
<1>1. work[w] \in Task /\ failed \in BOOLEAN BY DEF TypeOK, Task
<1>2. CASE work[w].tries < MaxRetries
  <2>. DEFINE t == [work[w] EXCEPT !.tries = @ + 1, !.body = NoFile]
  <2>1. /\ work[w].tries + 1 \in 0..MaxRetries /\ NoFile \in Files
    BY <1>1, <1>2, Constants DEF Task, Files
  <2>2. t \in Task /\ t.chunk = work[w].chunk /\ t.body = NoFile
    BY <1>1, <2>1 DEF Task
  <2>3. work' = [work EXCEPT ![w] = t] /\ failed' = failed BY <1>2 DEF Again
  <2>. HIDE DEF t
  <2>. QED BY <1>1, <2>2, <2>3
<1>3. CASE ~(work[w].tries < MaxRetries)
  <2>1. work' = [work EXCEPT ![w] = Idle] /\ failed' = TRUE BY <1>3 DEF Again
  <2>. QED BY <2>1, IdleIsTask
<1>. QED BY <1>2, <1>3

\* A try that failed leaves no part.
LEMMA AgainMoves ==
  ASSUME TypeOK, Shared, NEW w \in Workers, Works(w), Again(w),
         part' = [part EXCEPT ![work[w].chunk] = NoFile],
         UNCHANGED <<version, final, kind, pc, attempt, body, size, queue, next, result>>
  PROVE  \E t, f : Moves(w, t, f) /\ MovesCleanly(w, t, f)
<1>1. PICK t \in Task :
        /\ work' = [work EXCEPT ![w] = t]
        /\ t.chunk \in {0, work[w].chunk} /\ t.body = NoFile
        /\ failed' \in BOOLEAN /\ (failed => failed')
        /\ (t.chunk # work[w].chunk => failed')
  BY AgainTask
<1>2. NoFile \in Files BY DEF Files
<1>3. work[w].chunk # 0 BY DEF Works
<1>4. Moves(w, t, NoFile) BY <1>1, <1>2 DEF Moves
<1>5. MovesCleanly(w, t, NoFile) BY <1>1, <1>3 DEF MovesCleanly
<1>. QED BY <1>4, <1>5

\* A worker whose part is long enough is through.
LEMMA FinishMoves ==
  ASSUME TypeOK, Shared, NEW w \in Workers, Works(w), Finish(w), UNCHANGED part,
         part[work[w].chunk] # NoFile, ~TooShort(part[work[w].chunk], Need(w)),
         UNCHANGED <<version, final, kind, pc, attempt, body, size, queue, next, result>>
  PROVE  \E t, f : Moves(w, t, f) /\ (Clean => MovesCleanly(w, t, f))
<1>. DEFINE c == work[w].chunk
            p == part[c]
<1>1. /\ c \in Chunks /\ p \in Files /\ p # NoFile /\ ~(Len(p) < Length(c, size))
      /\ size \in Nat /\ size > 0 /\ c \in 1..Count(size)
  BY AtWork DEF TooShort, Need
<1>2. part = [part EXCEPT ![c] = p] BY DEF TypeOK
<1>3. Moves(w, Idle, p)
  BY <1>1, <1>2, IdleIsTask DEF Moves, Finish, TypeOK
<1>4. ASSUME Clean PROVE MovesCleanly(w, Idle, p)
  <2>1. PartBegins(p, c, version)
    BY <1>1, <1>4 DEF Clean
  <2>2. Len(p) >= Length(c, size)
    <3>1. Len(p) \in Nat BY <1>1 DEF Files
    <3>2. Length(c, size) \in Nat BY <1>1, ChunkFacts
    <3>. QED BY <1>1, <3>1, <3>2
  <2>. QED BY <1>1, <2>1, <2>2, IdleIsTask DEF MovesCleanly
<1>. QED BY <1>3, <1>4

LEMMA AnswerMoves ==
  ASSUME TypeOK, Shared, NEW w \in Workers, Works(w), NEW bytes \in Seq(Bytes),
         Answer(w, bytes),
         UNCHANGED <<version, final, kind, pc, attempt, body, size, queue, next, result>>
  PROVE  \E t, f : /\ Moves(w, t, f)
                   /\ Clean /\ bytes = Slice(version, work[w].chunk, size) /\ bytes # <<>>
                        => MovesCleanly(w, t, f)
<1>. DEFINE c == work[w].chunk
            t == [work[w] EXCEPT !.body = bytes]
<1>1. /\ c \in Chunks /\ work[w] \in Task /\ c # 0
      /\ size \in Nat /\ size > 0 /\ c \in 1..Count(size)
  BY AtWork DEF Works
<1>2. t \in Task /\ t.chunk = c /\ t.body = bytes BY <1>1 DEF Task, Files
<1>3. /\ work' = [work EXCEPT ![w] = t] /\ part' = [part EXCEPT ![c] = <<>>]
      /\ failed' = failed
  BY DEF Answer
<1>. HIDE DEF t
<1>4. Moves(w, t, <<>>)
  BY <1>1, <1>2, <1>3, EmptyIsFile DEF Moves, TypeOK, Files
<1>5. ASSUME Clean, bytes = Slice(version, c, size), bytes # <<>>
      PROVE  MovesCleanly(w, t, <<>>)
  <2>1. version \in DOMAIN SizeOf BY DEF TypeOK
  <2>2. c \in 1..Count(SizeOf[version]) BY <1>1, <1>5, <2>1, SliceFacts
  <2>3. Length(c, SizeOf[version]) \in Nat BY <2>1, <2>2, Constants, ChunkFacts
  <2>4. PartBegins(<<>>, c, version) BY <2>2, <2>3 DEF PartBegins
  <2>. QED BY <1>1, <1>2, <1>5, <2>4 DEF MovesCleanly
<1>. QED BY <1>4, <1>5

\* One more byte of the answer.
LEMMA AppendMoves ==
  ASSUME TypeOK, Shared, NEW w \in Workers, Works(w), work[w].body # NoFile,
         Len(part[work[w].chunk]) < Len(work[w].body),
         part' = [part EXCEPT ![work[w].chunk] =
                    Append(@, work[w].body[Len(@) + 1])],
         UNCHANGED <<work, failed>>,
         UNCHANGED <<version, final, kind, pc, attempt, body, size, queue, next, result>>
  PROVE  \E t, f : Moves(w, t, f) /\ (Clean => MovesCleanly(w, t, f))
<1>. DEFINE c == work[w].chunk
            p == part[c]
            b == work[w].body
            f == Append(p, b[Len(p) + 1])
<1>1. /\ c \in Chunks /\ work[w] \in Task /\ c # 0 /\ p \in Files
      /\ size \in Nat /\ size > 0 /\ c \in 1..Count(size)
  BY AtWork DEF Works
<1>2. p # NoFile BY DEF Shared
<1>3. p \in Seq(Bytes) /\ b \in Seq(Bytes) BY <1>1, <1>2 DEF Task, Files
<1>4. part' = [part EXCEPT ![c] = f] BY <1>1 DEF TypeOK
<1>5. work' = [work EXCEPT ![w] = work[w]] BY DEF TypeOK
<1>. HIDE DEF c, p, b
<1>6. Len(p) \in Nat /\ Len(b) \in Nat /\ Len(p) < Len(b) BY <1>3 DEF p, b, c
<1>7. b[Len(p) + 1] \in Bytes BY <1>3, <1>6
<1>8. /\ f \in Seq(Bytes) /\ Len(f) = Len(p) + 1 /\ f[Len(p) + 1] = b[Len(p) + 1]
      /\ \A i \in 1..Len(p) : f[i] = p[i]
  BY <1>3, <1>7, AppendProperties
<1>9. f # NoFile /\ f \in Files BY <1>8, NoFileIsNone DEF Files
<1>. HIDE DEF f
<1>10. Moves(w, work[w], f)
  BY <1>1, <1>4, <1>5, <1>9 DEF Moves, TypeOK, c
<1>11. ASSUME Clean PROVE MovesCleanly(w, work[w], f)
  <2>1. PartBegins(p, c, version) /\ b = Slice(version, c, size) /\ b # <<>>
    BY <1>1, <1>2, <1>11 DEF Clean, p, b, c
  <2>2. version \in DOMAIN SizeOf BY DEF TypeOK
  <2>3. c \in 1..Count(SizeOf[version]) BY <2>1 DEF PartBegins
  <2>4. /\ Len(b) <= Length(c, SizeOf[version])
        /\ \A i \in 1..Len(b) : b[i] = <<version, Off(c - 1) + i>>
    <3>1. c \in 1..Count(size) BY <1>1 DEF c
    <3>. QED BY <1>1, <2>1, <2>2, <3>1, SliceFacts
  <2>8. Length(c, SizeOf[version]) \in Nat BY <2>2, <2>3, Constants, ChunkFacts
  <2>5. b[Len(p) + 1] = <<version, Off(c - 1) + (Len(p) + 1)>> BY <1>6, <2>4
  <2>6. \A i \in 1..(Len(p) + 1) : i \in 1..Len(p) \/ i = Len(p) + 1 BY <1>6
  <2>7. PartBegins(f, c, version)
    BY <1>6, <1>8, <2>1, <2>3, <2>4, <2>5, <2>6, <2>8 DEF PartBegins
  <2>. QED BY <1>1, <2>1, <2>7 DEF MovesCleanly, b, c
<1>. QED BY <1>10, <1>11

\* What every step owes.
Keeps ==
  /\ TypeOK' /\ Shared'
  /\ blame \subseteq blame' /\ (blame' \subseteq Mild /\ Clean => Clean')
  /\ blame' = {} /\ Clean /\ Exact => Exact'

LEMMA OnceKeeps ==
  ASSUME TypeOK, Shared, NEW w \in Workers, Once(w)
  PROVE  Keeps
<1>. DEFINE c == work[w].chunk
            slice == Slice(version, c, size)
<1>1. /\ Works(w) /\ work[w].body = NoFile
      /\ UNCHANGED <<version, final, kind, pc, attempt, body, size, queue, next, result>>
  BY DEF Once
<1>2. /\ blame \subseteq Blames /\ c \in Chunks /\ version \in DOMAIN SizeOf
      /\ size \in Nat /\ size > 0 /\ c \in 1..Count(size)
  BY <1>1, AtWork DEF TypeOK, Blames
<1>3. trouble' \in 0..MaxTrouble
  <2>1. Trouble \/ UNCHANGED trouble BY DEF Once
  <2>. QED BY <2>1, TroubleFacts
<1>4. blame' \in {blame, blame \cup {"range ignored"}} BY DEF Once
<1>5. blame \subseteq blame' /\ blame' \subseteq Blames BY <1>2, <1>4 DEF Blames
<1>6. \E t, f : Moves(w, t, f) /\ (Clean /\ blame' \subseteq Mild => MovesCleanly(w, t, f))
  <2>1. CASE /\ part[c] # NoFile /\ ~TooShort(part[c], Need(w))
             /\ Finish(w) /\ UNCHANGED part
    BY <1>1, <2>1, FinishMoves
  <2>2. CASE Unlink(w) /\ Again(w)
    <3>1. part' = [part EXCEPT ![c] = NoFile] BY <2>2 DEF Unlink
    <3>. QED BY <1>1, <2>2, <3>1, AgainMoves
  <2>3. CASE slice # <<>> /\ Answer(w, slice)
    <3>1. slice \in Seq(Bytes) BY <1>2, SliceIsFile
    <3>. QED BY <1>1, <2>3, <3>1, AnswerMoves
  <2>4. CASE part[c] = NoFile /\ Again(w) /\ UNCHANGED part
    <3>1. part' = [part EXCEPT ![c] = NoFile] BY <2>4 DEF TypeOK
    <3>. QED BY <1>1, <2>4, <3>1, AgainMoves
  <2>5. CASE Answer(w, Whole(version)) /\ blame' = blame \cup {"range ignored"}
    <3>1. Whole(version) \in Seq(Bytes) BY <1>2, WholeFacts
    <3>2. ~(blame' \subseteq Mild) BY <2>5 DEF Mild
    <3>3. \E t, f : Moves(w, t, f) BY <1>1, <2>5, <3>1, AnswerMoves
    <3>. QED BY <3>2, <3>3
  <2>. QED BY <2>1, <2>2, <2>3, <2>4, <2>5 DEF Once
<1>7. blame' = {} => blame' \subseteq Mild OBVIOUS
<1>. QED BY <1>3, <1>5, <1>6, <1>7, MovesShared, MovesClean DEF Keeps

LEMMA ReadKeeps ==
  ASSUME TypeOK, Shared, NEW w \in Workers, Read(w) \/ BreakRead(w)
  PROVE  Keeps
<1>. DEFINE c == work[w].chunk
<1>1. /\ Works(w) /\ work[w].body # NoFile
      /\ UNCHANGED <<version, final, kind, pc, attempt, body, size, queue, next, result>>
      /\ blame' = blame
  BY DEF Read, BreakRead
<1>2. blame' \subseteq Blames BY <1>1 DEF TypeOK, Blames
<1>3. trouble' \in 0..MaxTrouble
  <2>1. Trouble \/ UNCHANGED trouble BY DEF Read, BreakRead
  <2>. QED BY <2>1, TroubleFacts
<1>4. part[c] # NoFile BY <1>1 DEF Shared
<1>5. \E t, f : Moves(w, t, f) /\ (Clean => MovesCleanly(w, t, f))
  <2>1. CASE Unlink(w) /\ Again(w)
    <3>1. part' = [part EXCEPT ![c] = NoFile] BY <2>1 DEF Unlink
    <3>. QED BY <1>1, <2>1, <3>1, AgainMoves
  <2>2. CASE ~TooShort(part[c], Need(w)) /\ Finish(w) /\ UNCHANGED part
    BY <1>1, <1>4, <2>2, FinishMoves
  <2>3. CASE /\ Len(part[c]) < Len(work[w].body)
             /\ part' = [part EXCEPT ![c] = Append(@, work[w].body[Len(@) + 1])]
             /\ UNCHANGED <<work, failed>>
    BY <1>1, <2>3, AppendMoves
  <2>. QED BY <2>1, <2>2, <2>3 DEF Read, BreakRead
<1>6. blame' \subseteq Mild => blame \subseteq Mild BY <1>1
<1>. QED BY <1>1, <1>2, <1>3, <1>5, <1>6, MovesShared, MovesClean DEF Keeps

\* The next chunk of the queue is nobody's yet.
LEMMA TakeKeeps ==
  ASSUME TypeOK, Shared, NEW w \in Workers, Take(w)
  PROVE  Keeps
<1>. DEFINE n == Count(size)
            c == Head(queue)
            t == [work[w] EXCEPT !.chunk = c]
<1>1. /\ pc = "chunks" /\ work[w].chunk = 0 /\ queue # <<>>
      /\ work' = [work EXCEPT ![w] = t] /\ queue' = Tail(queue)
      /\ UNCHANGED <<version, disk, kind, pc, attempt, body, size, failed, next,
                     result, blame, trouble>>
  BY DEF Take, Taken
<1>2. /\ queue \in Seq(Chunks) /\ Len(queue) \in Nat /\ Len(queue) > 0
      /\ c = queue[1] /\ c \in Chunks
      /\ queue' \in Seq(Chunks) /\ Len(queue') = Len(queue) - 1
      /\ \A i \in 1..(Len(queue) - 1) : queue'[i] = queue[i + 1]
  <2>1. queue \in Seq(Chunks) BY QueueFacts
  <2>. QED BY <1>1, <2>1, HeadTailProperties, LenProperties
<1>3. size \in Sizes /\ n \in Nat /\ Len(queue) <= n BY <1>1, ChunksOf DEF Shared
<1>4. c = n - Len(queue) + 1
  <2>1. \A i \in 1..Len(queue) : queue[i] = n - Len(queue) + i BY <1>1 DEF Shared
  <2>. QED BY <1>2, <2>1
<1>5. c # 0 /\ c \in Nat BY <1>2, ChunksAreNat
<1>6. work[w] \in Task /\ work[w].body = NoFile
  BY <1>1 DEF TypeOK, Task, Shared
<1>7. t \in Task /\ t.chunk = c /\ t.body = NoFile BY <1>2, <1>6 DEF Task
<1>. HIDE DEF t, c, n
<1>8. /\ work' \in [Workers -> Task] /\ work'[w] = t
      /\ \A u \in Workers : u # w => work'[u] = work[u]
  BY <1>1, <1>7 DEF TypeOK, Task
<1>9. TypeOK' BY <1>1, <1>2, <1>8 DEF TypeOK, Task, disk
<1>10. \A u \in Workers : work[u].chunk \in Nat /\ work[u].chunk <= n - Len(queue)
  <2>1. \A u \in Workers : work[u].chunk \in Chunks \cup {0} BY DEF TypeOK
  <2>2. \A u \in Workers : work[u].chunk <= n - Len(queue)
    BY <1>1 DEF Shared, n
  <2>3. Chunks \cup {0} \subseteq Nat BY ChunksAreNat
  <2>4. \A u \in Workers : work[u].chunk \in Nat BY <2>1, <2>3, Zenon
  <2>. QED BY <2>2, <2>4
<1>11. Shared'
  <2>1. \A u \in Workers : work'[u].chunk <= n - Len(queue')
    BY <1>2, <1>3, <1>4, <1>5, <1>7, <1>8, <1>10
  <2>2. \A u \in Workers : u # w => work'[u].chunk # c
    BY <1>2, <1>3, <1>4, <1>8, <1>10
  <2>3. OneWriter' BY <1>7, <1>8, <2>2 DEF OneWriter, Shared
  <2>4. \A i \in 1..Len(queue') : queue'[i] = n - Len(queue') + i
    <3>1. \A i \in 1..Len(queue) : queue[i] = n - Len(queue) + i
      BY <1>1 DEF Shared, n
    <3>2. \A i \in 1..(Len(queue) - 1) :
            i + 1 \in 1..Len(queue) /\ n - Len(queue) + (i + 1) = n - (Len(queue) - 1) + i
      BY <1>2, <1>3
    <3>. QED BY <1>2, <3>1, <3>2
  <2>5. \A u \in Workers : work'[u].body # NoFile =>
          work'[u].chunk # 0 /\ part'[work'[u].chunk] # NoFile
    BY <1>1, <1>7, <1>8 DEF Shared, disk
  <2>6. Len(queue') <= n BY <1>2, <1>3
  <2>. QED BY <1>1, <1>3, <2>1, <2>3, <2>4, <2>5, <2>6 DEF Shared, disk, n
<1>12. ASSUME Clean PROVE Clean'
  <2>1. ASSUME ~failed, NEW d \in 1..(n - Len(queue'))
        PROVE  Enough(d)' \/ \E u \in Workers : work'[u].chunk = d
    <3>1. CASE d = c BY <1>7, <1>8, <3>1
    <3>2. CASE d # c
      <4>1. d \in 1..(n - Len(queue))
        <5>1. n - Len(queue') = c /\ n - Len(queue) = c - 1 BY <1>2, <1>3, <1>4
        <5>2. d \in 1..c BY <5>1
        <5>. QED BY <1>5, <3>2, <5>1, <5>2
      <4>2. Enough(d) \/ \E u \in Workers : work[u].chunk = d
        BY <1>1, <1>12, <2>1, <4>1 DEF Clean, n
      <4>3. Enough(d) => Enough(d)' BY <1>1 DEF Enough, disk
      <4>4. d # 0 BY <4>1
      <4>. QED BY <1>1, <1>8, <4>2, <4>3, <4>4
    <3>. QED BY <3>1, <3>2
  <2>2. \A u \in Workers : work'[u].body # NoFile =>
          work'[u].body = Slice(version, work'[u].chunk, size) /\ work'[u].body # <<>>
    BY <1>7, <1>8, <1>12 DEF Clean
  <2>. QED BY <1>1, <1>12, <2>1, <2>2 DEF Clean, disk, n
<1>13. Exact => Exact' BY <1>1 DEF Exact, disk
<1>. QED BY <1>1, <1>9, <1>11, <1>12, <1>13 DEF Keeps

-----------------------------------------------------------------------------
(* One step of the call. *)

LEMMA ReturnKeeps ==
  ASSUME TypeOK, NEW r \in {"ok", "err", "killed"}, Return(r),
         UNCHANGED <<version, kind>>, final' \in Files, part' \in [Chunks -> Files],
         blame' \subseteq Blames, trouble' \in 0..MaxTrouble
  PROVE  /\ TypeOK' /\ Shared'
         /\ /\ \A c \in Chunks : part'[c] # NoFile => PartBegins(part'[c], c, version)
            /\ final' # NoFile => Begins(final', version)
            => Clean'
         /\ final' \in {NoFile, Whole(version)} => Exact'
<1>1. /\ pc' = "idle" /\ result' = r /\ attempt' = 0 /\ body' = NoFile /\ size' = 0
      /\ queue' = <<>> /\ work' = [w \in Workers |-> Idle]
      /\ failed' = FALSE /\ next' = 0
  BY DEF Return
<1>2. <<>> \in Seq(Chunks) OBVIOUS
<1>3. /\ work' \in [Workers -> Task]
      /\ \A w \in Workers : work'[w].chunk = 0 /\ work'[w].body = NoFile
  BY <1>1, IdleIsTask
<1>4. 0 \in 0..MaxAttempts /\ NoFile \in Files BY Constants DEF Files
<1>5. TypeOK' BY <1>1, <1>2, <1>3, <1>4 DEF TypeOK, Task, Blames
<1>6. Shared' BY <1>1, <1>3 DEF Shared, OneWriter
<1>7. ASSUME \A c \in Chunks : part'[c] # NoFile => PartBegins(part'[c], c, version),
             final' # NoFile => Begins(final', version)
      PROVE  Clean'
  BY <1>1, <1>3, <1>7 DEF Clean
<1>8. final' \in {NoFile, Whole(version)} => Exact' BY <1>1 DEF Exact
<1>. QED BY <1>5, <1>6, <1>7, <1>8

\* Return with the disk as it was.
LEMMA ReturnCalmly ==
  ASSUME TypeOK, NEW r \in {"ok", "err", "killed"}, Return(r),
         UNCHANGED <<version, kind, disk>>, Trouble \/ UNCHANGED trouble,
         blame \subseteq blame', blame' \subseteq Blames,
         blame' = {} => pc \notin {"copy", "merge"}
  PROVE  Keeps
<1>1. /\ trouble' \in 0..MaxTrouble /\ final' \in Files /\ part' \in [Chunks -> Files]
  BY TroubleFacts DEF TypeOK, disk
<1>2. ASSUME Clean
      PROVE  /\ \A c \in Chunks : part'[c] # NoFile => PartBegins(part'[c], c, version)
             /\ final' # NoFile => Begins(final', version)
  BY <1>2 DEF Clean, disk
<1>3. ASSUME Exact, blame' = {} PROVE final' \in {NoFile, Whole(version)}
  BY <1>3 DEF Exact, disk
<1>. QED BY <1>1, <1>2, <1>3, ReturnKeeps DEF Keeps

Calm == {"idle", "size", "get", "head"}

LEMMA CalmKeeps ==
  ASSUME TypeOK, Shared, TypeOK', pc # "chunks", pc' \in Calm,
         UNCHANGED <<version, disk, size, queue, work>>,
         blame \subseteq blame', blame' = {} => pc \notin {"copy", "merge"}
  PROVE  Keeps
<1>1. Shared' BY DEF Shared, OneWriter, Calm, disk
<1>2. ASSUME Clean PROVE Clean'
  BY <1>2 DEF Clean, Shared, Calm, disk
<1>3. ASSUME Exact, blame' = {} PROVE Exact'
  BY <1>3 DEF Exact, Calm, disk
<1>. QED BY <1>1, <1>2, <1>3 DEF Keeps

LEMMA CallKeeps ==
  ASSUME TypeOK, Shared, NEW k \in {"smart", "multi", "retry"}, Call(k)
  PROVE  Keeps
<1>1. /\ pc = "idle" /\ kind' = k /\ pc' \in Calm /\ result' \in {"ok", "running"}
      /\ attempt' \in {attempt, 1}
      /\ UNCHANGED <<version, disk, body, size, queue, work, failed, next, blame, trouble>>
  BY DEF Call, Calm
<1>2. attempt' \in 0..MaxAttempts
  <2>1. attempt \in 0..MaxAttempts BY DEF TypeOK
  <2>. QED BY <1>1, <2>1, Constants
<1>3. TypeOK' BY <1>1, <1>2 DEF TypeOK, Calm, disk
<1>. QED BY <1>1, <1>3, CalmKeeps

LEMMA GetSizeKeeps ==
  ASSUME TypeOK, Shared, GetSize
  PROVE  Keeps
<1>1. pc = "size" /\ UNCHANGED <<version, disk, kind, blame>> BY DEF GetSize
<1>2. CASE Trouble /\ Return("err")
  BY <1>1, <1>2, ReturnCalmly DEF TypeOK, Blames
<1>3. CASE /\ Go(IF SizeOf[version] < SmallFile THEN "get" ELSE "head")
           /\ UNCHANGED trouble
  <2>1. pc' \in Calm BY <1>3 DEF Go, Calm
  <2>2. TypeOK' BY <1>1, <1>3, <2>1 DEF TypeOK, Go, Calm, disk
  <2>. QED BY <1>1, <1>3, <2>1, <2>2, CalmKeeps DEF Go
<1>. QED BY <1>2, <1>3 DEF GetSize

LEMMA AttemptFailedKeeps ==
  ASSUME TypeOK, Shared, pc # "chunks", Trouble, AttemptFailed,
         UNCHANGED <<version, disk, kind>>,
         blame \subseteq blame', blame' \subseteq Blames,
         blame' = {} => pc \notin {"copy", "merge"}
  PROVE  Keeps
<1>1. CASE kind = "retry" /\ attempt < MaxAttempts
  <2>1. /\ pc' = "get" /\ attempt' = attempt + 1 /\ body' = NoFile
        /\ UNCHANGED <<size, queue, work, failed, next, result>>
    BY <1>1 DEF AttemptFailed
  <2>2. attempt' \in 0..MaxAttempts
    <3>1. attempt \in 0..MaxAttempts BY DEF TypeOK
    <3>. QED BY <1>1, <2>1, <3>1, Constants
  <2>3. trouble' \in 0..MaxTrouble /\ NoFile \in Files BY TroubleFacts DEF Files
  <2>4. TypeOK' BY <2>1, <2>2, <2>3 DEF TypeOK, Blames, disk
  <2>. QED BY <2>1, <2>4, CalmKeeps DEF Calm
<1>2. CASE Return("err") BY <1>2, ReturnCalmly
<1>. QED BY <1>1, <1>2 DEF AttemptFailed

LEMMA GetKeeps ==
  ASSUME TypeOK, Shared, Get
  PROVE  Keeps
<1>1. pc = "get" /\ UNCHANGED <<version, part, kind, blame>> BY DEF Get
<1>2. blame' \subseteq Blames BY <1>1 DEF TypeOK, Blames
<1>3. CASE final # NoFile /\ Return("ok") /\ UNCHANGED <<final, trouble>>
  BY <1>1, <1>2, <1>3, ReturnCalmly DEF disk
<1>4. CASE final = NoFile /\ Trouble /\ AttemptFailed /\ UNCHANGED final
  BY <1>1, <1>2, <1>4, AttemptFailedKeeps DEF disk
<1>5. CASE /\ final' = <<>> /\ body' = Whole(version) /\ pc' = "copy"
           /\ UNCHANGED <<attempt, size, queue, work, failed, next, result, trouble>>
  <2>1. /\ version \in DOMAIN SizeOf /\ Whole(version) \in Seq(Bytes)
        /\ Whole(version) # NoFile
    BY WholeFacts, NoFileIsNone DEF TypeOK
  <2>2. TypeOK' BY <1>1, <1>5, <2>1, EmptyIsFile DEF TypeOK, Files
  <2>3. Shared' BY <1>1, <1>5, <2>1, EmptyIsFile DEF Shared, OneWriter
  <2>4. Begins(<<>>, version) BY <2>1, Constants DEF Begins
  <2>5. ASSUME Clean PROVE Clean' BY <1>1, <1>5, <2>4, <2>5 DEF Clean, Shared
  <2>6. Exact => Exact' BY <1>1, <1>5 DEF Exact
  <2>. QED BY <1>1, <2>2, <2>3, <2>5, <2>6 DEF Keeps
<1>. QED BY <1>3, <1>4, <1>5 DEF Get

\* A file that begins like a version and is as long is that version.
LEMMA LongEnough ==
  ASSUME NEW v \in DOMAIN SizeOf, NEW file \in Seq(Bytes), Begins(file, v),
         Len(file) >= SizeOf[v]
  PROVE  file = Whole(v)
<1>1. /\ Len(file) \in Nat /\ SizeOf[v] \in Nat BY Constants, LenProperties
<1>2. Len(file) = SizeOf[v] BY <1>1 DEF Begins
<1>3. \A i \in 1..Len(file) : file[i] = Whole(v)[i]
  BY <1>2, WholeFacts DEF Begins
<1>4. Len(file) = Len(Whole(v)) /\ Whole(v) \in Seq(Bytes) BY <1>2, WholeFacts
<1>. QED BY <1>3, <1>4, SeqEqual

LEMMA CopyKeeps ==
  ASSUME TypeOK, Shared, Copy
  PROVE  Keeps
<1>1. pc = "copy" /\ UNCHANGED <<version, part, kind, blame, trouble>> BY DEF Copy
<1>2. /\ final \in Seq(Bytes) /\ body \in Seq(Bytes) /\ version \in DOMAIN SizeOf
      /\ blame' \subseteq Blames
  BY <1>1 DEF TypeOK, Shared, Files, Blames
<1>3. Len(final) \in Nat /\ Len(body) \in Nat BY <1>2, LenProperties
<1>4. CASE Len(final) < Len(body) /\ final' = Append(final, body[Len(final) + 1])
           /\ UNCHANGED callVars
  <2>. DEFINE b == body[Len(final) + 1]
  <2>1. b \in Bytes BY <1>2, <1>3, <1>4
  <2>2. /\ final' \in Seq(Bytes) /\ Len(final') = Len(final) + 1
        /\ final'[Len(final) + 1] = b /\ \A i \in 1..Len(final) : final'[i] = final[i]
    BY <1>2, <1>4, <2>1, AppendProperties
  <2>3. TypeOK' BY <1>1, <1>4, <2>2 DEF TypeOK, Files, callVars
  <2>4. Shared' BY <1>1, <1>4, <2>2, NoFileIsNone DEF Shared, OneWriter, callVars
  <2>5. ASSUME Clean PROVE Clean'
    <3>1. body = Whole(version) /\ Begins(final, version) BY <1>1, <2>5 DEF Clean, Shared
    <3>2. b = <<version, Len(final) + 1>> /\ Len(final) + 1 <= SizeOf[version]
      BY <1>2, <1>3, <1>4, <3>1, WholeFacts, Constants
    <3>3. \A i \in 1..(Len(final) + 1) : i \in 1..Len(final) \/ i = Len(final) + 1
      BY <1>3
    <3>4. Begins(final', version) BY <2>2, <3>1, <3>2, <3>3 DEF Begins
    <3>. QED BY <1>1, <1>4, <2>5, <3>4 DEF Clean, callVars
  <2>6. Exact => Exact' BY <1>1, <1>4 DEF Exact, callVars
  <2>. QED BY <1>1, <2>3, <2>4, <2>5, <2>6 DEF Keeps
<1>5. CASE ~(Len(final) < Len(body)) /\ Return("ok") /\ UNCHANGED final
  <2>1. final' \in Files /\ part' \in [Chunks -> Files] /\ trouble' \in 0..MaxTrouble
    BY <1>1, <1>5 DEF TypeOK
  <2>2. ASSUME Clean
        PROVE  /\ \A c \in Chunks : part'[c] # NoFile => PartBegins(part'[c], c, version)
               /\ final' # NoFile => Begins(final', version)
               /\ final' = Whole(version)
    <3>1. body = Whole(version) /\ Begins(final, version) BY <1>1, <2>2 DEF Clean, Shared
    <3>2. Len(final) >= SizeOf[version] BY <1>2, <1>3, <1>5, <3>1, WholeFacts
    <3>3. final = Whole(version) BY <1>2, <3>1, <3>2, LongEnough
    <3>. QED BY <1>1, <1>5, <2>2, <3>3 DEF Clean
  <2>. QED BY <1>1, <1>2, <1>5, <2>1, <2>2, ReturnKeeps DEF Keeps
<1>. QED BY <1>4, <1>5 DEF Copy

LEMMA BreakCopyKeeps ==
  ASSUME TypeOK, Shared, BreakCopy
  PROVE  Keeps
<1>1. /\ pc = "copy" /\ Trouble /\ AttemptFailed
      /\ blame' = blame \cup {"short copy"} /\ UNCHANGED <<version, disk, kind>>
  BY DEF BreakCopy
<1>2. blame' \subseteq Blames /\ blame' # {} BY <1>1 DEF TypeOK, Blames
<1>. QED BY <1>1, <1>2, AttemptFailedKeeps

\* A size to start with: of the version, or of an error page.
LEMMA PlanKeeps ==
  ASSUME TypeOK, Shared, NEW n \in Sizes, Plan(n), pc = "head",
         UNCHANGED <<version, disk, kind>>, Trouble \/ UNCHANGED trouble,
         blame \subseteq blame', blame' \subseteq Blames,
         blame' = {} => n = SizeOf[version]
  PROVE  Keeps
<1>1. CASE Return("err") BY <1>1, ReturnCalmly
<1>2. CASE /\ size' = n
           /\ queue' = [i \in 1..Count(n) |-> i]
           /\ pc' = "chunks"
           /\ UNCHANGED <<attempt, body, work, failed, next, result>>
  <2>1. trouble' \in 0..MaxTrouble BY TroubleFacts
  <2>2. /\ n \in Nat /\ Count(n) \in Nat /\ Count(n) > 0
        /\ \A c \in 1..Count(n) : c \in Chunks
    BY ChunksOf
  <2>3. /\ queue' \in Seq(Chunks) /\ Len(queue') = Count(n)
        /\ \A i \in 1..Count(n) : queue'[i] = i
    BY <1>2, <2>2
  <2>4. TypeOK' BY <1>2, <2>1, <2>2, <2>3 DEF TypeOK, Blames, disk
  <2>5. \A w \in Workers : work'[w].chunk = 0 BY <1>2 DEF Shared
  <2>6. Shared'
    <3>1. \A i \in 1..Len(queue') : queue'[i] = Count(n) - Len(queue') + i
      BY <2>2, <2>3
    <3>2. \A w \in Workers : work'[w].chunk <= Count(n) - Len(queue')
      BY <2>2, <2>3, <2>5
    <3>3. Len(queue') <= Count(n) BY <2>2, <2>3
    <3>. QED BY <1>2, <2>5, <3>1, <3>2, <3>3 DEF Shared, OneWriter, disk
  <2>7. ASSUME Clean PROVE Clean'
    <3>1. 1..(Count(n) - Len(queue')) = {} BY <2>2, <2>3
    <3>2. \A w \in Workers : work'[w].body = NoFile BY <1>2 DEF Shared
    <3>. QED BY <1>2, <2>7, <3>1, <3>2 DEF Clean, disk
  <2>8. ASSUME Exact, blame' = {} PROVE Exact' BY <1>2, <2>8 DEF Exact, disk
  <2>. QED BY <2>4, <2>6, <2>7, <2>8 DEF Keeps
<1>. QED BY <1>1, <1>2 DEF Plan

LEMMA HeadRequestKeeps ==
  ASSUME TypeOK, Shared, HeadRequest
  PROVE  Keeps
<1>1. pc = "head" /\ UNCHANGED <<version, disk, kind>> /\ blame \subseteq Blames
  BY DEF HeadRequest, TypeOK, Blames
<1>2. CASE Trouble /\ Return("err") /\ UNCHANGED blame
  BY <1>1, <1>2, ReturnCalmly
<1>3. CASE Plan(SizeOf[version]) /\ UNCHANGED <<blame, trouble>>
  <2>1. SizeOf[version] \in Sizes BY DEF TypeOK, Sizes
  <2>. QED BY <1>1, <1>3, <2>1, PlanKeeps
<1>4. ASSUME NEW n \in ErrorSizes, Trouble, Plan(n), blame' = blame \cup {"wrong size"}
      PROVE  Keeps
  <2>1. n \in Sizes BY DEF Sizes
  <2>2. blame' \subseteq Blames /\ blame' # {} BY <1>1, <1>4 DEF Blames
  <2>. QED BY <1>1, <1>4, <2>1, <2>2, PlanKeeps
<1>. QED BY <1>2, <1>3, <1>4 DEF HeadRequest

LEMMA WaitKeeps ==
  ASSUME TypeOK, Shared, Wait
  PROVE  Keeps
<1>1. /\ pc = "chunks" /\ queue = <<>> /\ \A w \in Workers : work[w].chunk = 0
      /\ UNCHANGED <<version, part, kind, blame, trouble>>
  BY DEF Wait
<1>2. CASE failed /\ Return("err") /\ UNCHANGED final
  BY <1>1, <1>2, ReturnCalmly DEF TypeOK, Blames, disk
<1>3. CASE /\ ~failed /\ final' = <<>> /\ next' = 1 /\ pc' = "merge"
           /\ UNCHANGED <<attempt, body, size, queue, work, failed, result>>
  <2>1. /\ size \in Sizes /\ size \in Nat /\ Count(size) \in Nat /\ Count(size) > 0
    BY <1>1, ChunksOf DEF Shared
  <2>2. TypeOK' BY <1>1, <1>3, EmptyIsFile DEF TypeOK, Files
  <2>3. Shared' BY <1>1, <1>3, <2>1, EmptyIsFile DEF Shared, OneWriter
  <2>4. ASSUME Clean PROVE Clean'
    <3>1. \A c \in 1..Count(size) : Enough(c)
      <4>1. Count(size) - Len(queue) = Count(size) BY <1>1, <2>1
      <4>2. \A c \in 1..Count(size) : Enough(c) \/ \E w \in Workers : work[w].chunk = c
        BY <1>1, <1>3, <2>4, <4>1 DEF Clean
      <4>. QED BY <1>1, <2>1, <4>2
    <3>2. \A c \in 1..Count(size) : Enough(c)' BY <1>1, <1>3, <3>1 DEF Enough
    <3>3. Merged(<<>>, 1, size) /\ Begins(<<>>, version)
      <4>1. version \in DOMAIN SizeOf BY DEF TypeOK
      <4>. QED BY <2>1, <4>1, OffFacts, Constants DEF Merged, Begins
    <3>. QED BY <1>1, <1>3, <2>1, <2>4, <3>2, <3>3 DEF Clean, Shared
  <2>5. Exact => Exact' BY <1>1, <1>3 DEF Exact
  <2>. QED BY <1>1, <2>2, <2>3, <2>4, <2>5 DEF Keeps
<1>. QED BY <1>2, <1>3 DEF Wait

\* The next part continues the file where the merge stands.
LEMMA MergePart ==
  ASSUME NEW v \in DOMAIN SizeOf, NEW n \in Nat, n > 0, NEW c \in 1..Count(n),
         NEW file \in Seq(Bytes), Begins(file, v), Len(file) = Off(c - 1),
         NEW p \in Seq(Bytes), PartBegins(p, c, v), Len(p) >= Length(c, n)
  PROVE  /\ file \o p \in Seq(Bytes) /\ Begins(file \o p, v)
         /\ Len(file \o p) = Off(c - 1) + Len(p)
         /\ Merged(file \o p, c + 1, n)
<1>. DEFINE S == SizeOf[v]
<1>1. /\ S \in Nat /\ S > 0 /\ Count(S) \in Nat /\ Count(n) \in Nat
      /\ c \in 1..Count(S) /\ Len(p) \in Nat
  BY Constants, CountFacts, LenProperties DEF PartBegins
<1>2. /\ Off(c - 1) \in Nat /\ Length(c, S) \in Nat /\ Length(c, S) <= ChunkSize
      /\ Off(c - 1) + Length(c, S) <= S
  BY <1>1, ChunkFacts
<1>3. /\ Length(c, n) \in Nat /\ Off(c - 1) + Length(c, n) = EndOf(c, n)
      /\ EndOf(c, n) = IF c = Count(n) THEN n ELSE Off(c)
  BY ChunkFacts
<1>4. Off(c) = Off(c - 1) + ChunkSize
  <2>1. c - 1 \in Int /\ (c - 1) + 1 = c BY <1>1
  <2>. QED BY <2>1, OffFacts
<1>5. Len(p) <= Length(c, S) BY DEF PartBegins
<1>6. /\ file \o p \in Seq(Bytes) /\ Len(file \o p) = Len(file) + Len(p)
      /\ \A i \in 1..(Len(file) + Len(p)) :
           (file \o p)[i] = IF i <= Len(file) THEN file[i] ELSE p[i - Len(file)]
  BY ConcatProperties
<1>. HIDE DEF S
<1>7. Len(file \o p) = Off(c - 1) + Len(p) /\ Len(file \o p) <= S
  BY <1>1, <1>2, <1>5, <1>6
<1>8. ASSUME NEW i \in 1..(Len(file) + Len(p)) PROVE (file \o p)[i] = <<v, i>>
  <2>1. CASE i <= Len(file)
    <3>1. i \in 1..Len(file) BY <1>2, <2>1
    <3>. QED BY <1>6, <2>1, <3>1 DEF Begins
  <2>2. CASE ~(i <= Len(file))
    <3>1. i - Len(file) \in 1..Len(p) BY <1>1, <1>2, <2>2
    <3>2. p[i - Len(file)] = <<v, Off(c - 1) + (i - Len(file))>>
      BY <3>1 DEF PartBegins
    <3>3. Off(c - 1) + (i - Len(file)) = i BY <1>2
    <3>. QED BY <1>6, <2>2, <3>2, <3>3
  <2>. QED BY <2>1, <2>2
<1>9. Begins(file \o p, v) BY <1>6, <1>7, <1>8 DEF Begins, S
<1>10. CASE c = Count(n)
  <2>1. ~(c + 1 <= Count(n)) BY <1>1, <1>10
  <2>2. Len(file \o p) >= n BY <1>1, <1>2, <1>3, <1>7, <1>10
  <2>. QED BY <1>6, <1>7, <1>9, <2>1, <2>2 DEF Merged
<1>11. CASE c # Count(n)
  <2>1. Len(p) = ChunkSize BY <1>1, <1>2, <1>3, <1>4, <1>5, <1>11, Constants
  <2>2. c + 1 <= Count(n) /\ (c + 1) - 1 = c BY <1>1, <1>11
  <2>. QED BY <1>4, <1>6, <1>7, <1>9, <2>1, <2>2 DEF Merged
<1>. QED BY <1>10, <1>11

LEMMA MergeKeeps ==
  ASSUME TypeOK, Shared, Merge
  PROVE  Keeps
<1>1. pc = "merge" /\ UNCHANGED <<version, part, kind, blame, trouble>> BY DEF Merge
<1>2. /\ size \in Sizes /\ size \in Nat /\ Count(size) \in Nat /\ Count(size) > 0
      /\ \A c \in 1..Count(size) : c \in Chunks
      /\ next \in 1..(Count(size) + 1) /\ version \in DOMAIN SizeOf
  BY <1>1, ChunksOf DEF Shared, TypeOK
<1>3. final \in Seq(Bytes) /\ Len(final) \in Nat
  <2>1. final \in Seq(Bytes) BY <1>1 DEF TypeOK, Shared, Files
  <2>. QED BY <2>1, LenProperties
<1>4. CASE /\ next <= Count(size) /\ part[next] # NoFile
           /\ final' = final \o part[next] /\ next' = next + 1
           /\ UNCHANGED <<pc, attempt, body, size, queue, work, failed, result>>
  <2>1. next \in 1..Count(size) /\ next \in Chunks BY <1>2, <1>4
  <2>2. part[next] \in Seq(Bytes) BY <1>4, <2>1 DEF TypeOK, Files
  <2>3. final' \in Seq(Bytes) BY <1>3, <1>4, <2>2, ConcatProperties
  <2>4. next' \in 1..(Count(size) + 1) /\ next' \in Nat BY <1>2, <1>4, <2>1
  <2>5. TypeOK' BY <1>1, <1>4, <2>3, <2>4 DEF TypeOK, Files
  <2>6. Shared' BY <1>1, <1>4, <2>3, <2>4, NoFileIsNone DEF Shared, OneWriter
  <2>7. ASSUME Clean PROVE Clean'
    <3>1. /\ Enough(next) /\ PartBegins(part[next], next, version)
          /\ Begins(final, version) /\ Len(final) = Off(next - 1)
      BY <1>1, <1>4, <2>1, <2>7 DEF Clean, Shared, Merged
    <3>2. Len(part[next]) >= Length(next, size) /\ size > 0
      BY <1>2, <3>1, ChunksOf DEF Enough
    <3>3. /\ Begins(final', version) /\ Len(final') = Off(next - 1) + Len(part[next])
          /\ Merged(final', next + 1, size)
      <4>1. /\ Begins(final \o part[next], version)
            /\ Len(final \o part[next]) = Off(next - 1) + Len(part[next])
            /\ Merged(final \o part[next], next + 1, size)
        BY <1>2, <1>3, <2>1, <2>2, <3>1, <3>2, MergePart, ZenonT(60)
      <4>. QED BY <1>4, <4>1
    <3>4. \A c \in 1..Count(size) : Enough(c)' BY <1>1, <1>4, <2>7 DEF Clean, Enough
    <3>5. ASSUME NEW c \in 1..(next' - 1) PROVE Reaches(c)'
      <4>1. CASE c = next
        <5>1. Off(next - 1) + Len(part[next]) <= Len(final')
          BY <2>2, <2>3, <3>3, LenProperties
        <5>. QED BY <1>1, <4>1, <5>1 DEF Reaches
      <4>2. CASE c # next
        <5>1. c \in 1..(next - 1) /\ c \in Chunks /\ c - 1 \in Nat
          BY <1>2, <1>4, <2>1, <4>2
        <5>2. Reaches(c) /\ part[c] # NoFile
          BY <1>1, <1>2, <2>1, <2>7, <5>1 DEF Clean, Enough
        <5>3. part[c] \in Seq(Bytes) BY <5>1, <5>2 DEF TypeOK, Files
        <5>4. Off(c - 1) + Len(part[c]) <= Off(next - 1)
          BY <3>1, <5>2 DEF Reaches
        <5>5. /\ Len(part[c]) \in Nat /\ Len(part[next]) \in Nat
              /\ Off(c - 1) \in Nat /\ Off(next - 1) \in Nat
          <6>1. next - 1 \in Nat BY <2>1
          <6>. QED BY <2>2, <5>1, <5>3, <6>1, OffFacts, LenProperties
        <5>6. Off(c - 1) + Len(part[c]) <= Len(final') BY <3>3, <5>4, <5>5
        <5>. QED BY <1>1, <5>6 DEF Reaches
      <4>. QED BY <4>1, <4>2
    <3>6. \A w \in Workers : work'[w].body = NoFile BY <1>1, <1>4 DEF Shared
    <3>. QED BY <1>1, <1>4, <2>7, <3>3, <3>4, <3>5, <3>6 DEF Clean
  <2>8. Exact => Exact' BY <1>1, <1>4 DEF Exact
  <2>. QED BY <1>1, <2>5, <2>6, <2>7, <2>8 DEF Keeps
<1>5. CASE /\ next > Count(size)
           /\ final' = IF TooShort(final, size) THEN NoFile ELSE final
           /\ failed' = TooShort(final, size)
           /\ pc' = "cleanup" /\ next' = 1
           /\ UNCHANGED <<attempt, body, size, queue, work, result>>
  <2>1. final' \in Files BY <1>3, <1>5 DEF Files
  <2>2. failed' \in BOOLEAN BY <1>5 DEF TooShort
  <2>3. TypeOK' BY <1>1, <1>5, <2>1, <2>2 DEF TypeOK
  <2>4. Shared' BY <1>1, <1>2, <1>5 DEF Shared, OneWriter
  <2>5. ASSUME Clean PROVE final' = final /\ final # NoFile /\ Len(final) >= size
    <3>1. Len(final) >= size /\ final # NoFile
      BY <1>1, <1>2, <1>5, <2>5 DEF Clean, Merged, Shared
    <3>2. ~TooShort(final, size) BY <1>2, <1>3, <3>1 DEF TooShort
    <3>. QED BY <1>5, <3>1, <3>2
  <2>6. ASSUME Clean PROVE Clean'
    <3>1. \A c \in 1..Count(size) : c \in 1..(next - 1) BY <1>2, <1>5
    <3>2. \A c \in 1..Count(size) : Reaches(c)'
      BY <1>1, <2>5, <2>6, <3>1 DEF Clean, Reaches
    <3>3. \A w \in Workers : work'[w].body = NoFile BY <1>1, <1>5 DEF Shared
    <3>. QED BY <1>1, <1>5, <2>5, <2>6, <3>2, <3>3 DEF Clean
  <2>7. ASSUME Clean, Exact PROVE Exact'
    <3>1. size = SizeOf[version] /\ Begins(final, version)
      BY <1>1, <2>5, <2>7 DEF Clean, Exact
    <3>2. final = Whole(version) BY <1>2, <1>3, <2>5, <2>7, <3>1, LongEnough
    <3>. QED BY <1>1, <1>5, <2>5, <2>7, <3>1, <3>2 DEF Exact
  <2>. QED BY <1>1, <2>3, <2>4, <2>6, <2>7 DEF Keeps
<1>. QED BY <1>4, <1>5 DEF Merge

LEMMA BreakMergeKeeps ==
  ASSUME TypeOK, Shared, BreakMerge
  PROVE  Keeps
<1>1. /\ pc = "merge" /\ final' = NoFile /\ Return("err")
      /\ UNCHANGED <<version, part, kind, blame>>
  BY DEF BreakMerge, Removed
<1>2. trouble' \in 0..MaxTrouble
  <2>1. Trouble \/ UNCHANGED trouble BY DEF BreakMerge
  <2>. QED BY <2>1, TroubleFacts
<1>3. /\ final' \in Files /\ part' \in [Chunks -> Files] /\ blame' \subseteq Blames
  BY <1>1 DEF TypeOK, Files, Blames
<1>4. Clean => \A c \in Chunks : part'[c] # NoFile => PartBegins(part'[c], c, version)
  BY <1>1 DEF Clean
<1>. QED BY <1>1, <1>2, <1>3, <1>4, ReturnKeeps DEF Keeps

LEMMA CleanupKeeps ==
  ASSUME TypeOK, Shared, Cleanup
  PROVE  Keeps
<1>1. pc = "cleanup" /\ UNCHANGED <<version, final, kind, blame, trouble>>
  BY DEF Cleanup
<1>2. CASE /\ next <= Count(size)
           /\ part' = [part EXCEPT ![next] = NoFile]
           /\ next' = next + 1
           /\ UNCHANGED <<pc, attempt, body, size, queue, work, failed, result>>
  <2>1. /\ size \in Nat /\ Count(size) \in Nat /\ next \in 1..(Count(size) + 1)
        /\ \A c \in 1..Count(size) : c \in Chunks
    BY <1>1, ChunksOf DEF Shared
  <2>2. next \in Chunks /\ next' \in 1..(Count(size) + 1) /\ next' \in Nat
    BY <1>2, <2>1
  <2>3. /\ part' \in [Chunks -> Files] /\ part'[next] = NoFile
        /\ \A c \in Chunks : c # next => part'[c] = part[c]
    BY <1>2, <2>2 DEF TypeOK, Files
  <2>4. TypeOK' BY <1>1, <1>2, <2>2, <2>3 DEF TypeOK
  <2>5. \A w \in Workers : work'[w].chunk = 0 /\ work'[w].body = NoFile
    BY <1>1, <1>2 DEF Shared
  <2>6. Shared' BY <1>1, <1>2, <2>2, <2>5 DEF Shared, OneWriter
  <2>7. ASSUME Clean PROVE Clean'
    <3>1. \A c \in Chunks : part'[c] # NoFile => PartBegins(part'[c], c, version)
      BY <2>3, <2>7 DEF Clean
    <3>2. ASSUME NEW c \in 1..Count(size), part'[c] # NoFile PROVE Reaches(c)'
      BY <1>1, <2>1, <2>3, <2>7, <3>2 DEF Clean, Reaches
    <3>. QED BY <1>1, <1>2, <2>5, <2>7, <3>1, <3>2 DEF Clean
  <2>8. Exact => Exact' BY <1>1, <1>2 DEF Exact
  <2>. QED BY <1>1, <2>4, <2>6, <2>7, <2>8 DEF Keeps
<1>3. CASE Return(IF failed THEN "err" ELSE "ok") /\ UNCHANGED part
  BY <1>1, <1>3, ReturnCalmly DEF TypeOK, Blames, disk
<1>. QED BY <1>2, <1>3 DEF Cleanup

LEMMA KillKeeps ==
  ASSUME TypeOK, Shared, Kill
  PROVE  Keeps
<1>1. Trouble /\ Return("killed") /\ UNCHANGED <<version, disk, kind>> BY DEF Kill
<1>2. /\ blame \subseteq blame' /\ blame' \subseteq Blames
      /\ blame' = {} => pc \notin {"copy", "merge"}
  BY DEF Kill, TypeOK, Blames
<1>. QED BY <1>1, <1>2, ReturnCalmly

\* A new version is to blame for whatever is there already.
LEMMA PublishKeeps ==
  ASSUME TypeOK, Shared, Publish
  PROVE  Keeps
<1>1. /\ version < Len(SizeOf) /\ version' = version + 1
      /\ UNCHANGED <<disk, kind, callVars, trouble>>
  BY DEF Publish
<1>2. /\ blame \subseteq blame' /\ blame' \subseteq Blames
      /\ blame' \subseteq Mild => /\ pc = "idle" /\ final = NoFile
                                  /\ \A c \in Chunks : part[c] = NoFile
  BY DEF Publish, TypeOK, Blames, Mild
<1>3. version' \in DOMAIN SizeOf
  <2>1. SizeOf \in Seq(Nat \ {0}) BY DownloaderAssumption
  <2>2. DOMAIN SizeOf = 1..Len(SizeOf) /\ Len(SizeOf) \in Nat
    BY <2>1, LenProperties
  <2>3. version \in 1..Len(SizeOf) BY <2>2 DEF TypeOK
  <2>. QED BY <1>1, <2>2, <2>3
<1>4. TypeOK' BY <1>1, <1>2, <1>3 DEF TypeOK, Blames, disk, callVars
<1>5. Shared' BY <1>1 DEF Shared, OneWriter, disk, callVars
<1>6. ASSUME blame' \subseteq Mild PROVE Clean' /\ Exact'
  <2>1. \A w \in Workers : work'[w].body = NoFile
    BY <1>1, <1>2, <1>6 DEF Shared, callVars
  <2>. QED BY <1>1, <1>2, <1>6, <2>1 DEF Clean, Exact, disk, callVars
<1>7. blame' = {} => blame' \subseteq Mild OBVIOUS
<1>. QED BY <1>2, <1>4, <1>5, <1>6, <1>7 DEF Keeps

-----------------------------------------------------------------------------
(* The theorems. *)

LEMMA Start == Init => IInv
<1>. SUFFICES ASSUME Init PROVE IInv OBVIOUS
<1>1. /\ version = 1 /\ final = NoFile /\ part = [c \in Chunks |-> NoFile]
      /\ kind = "smart" /\ pc = "idle" /\ attempt = 0 /\ body = NoFile /\ size = 0
      /\ queue = <<>> /\ work = [w \in Workers |-> Idle]
      /\ failed = FALSE /\ next = 0
      /\ result = "none" /\ blame = {} /\ trouble = 0
  BY DEF Init
<1>2. <<>> \in Seq(Chunks) OBVIOUS
<1>3. /\ work \in [Workers -> Task]
      /\ \A w \in Workers : work[w].chunk = 0 /\ work[w].body = NoFile
  BY <1>1, IdleIsTask
<1>4. 0 \in 0..MaxAttempts /\ 0 \in 0..MaxTrouble /\ NoFile \in Files
      /\ 1 \in DOMAIN SizeOf
  BY Constants DEF Files
<1>5. TypeOK BY <1>1, <1>2, <1>3, <1>4 DEF TypeOK, Task
<1>6. Shared BY <1>1, <1>3 DEF Shared, OneWriter
<1>7. Clean /\ Exact BY <1>1, <1>3 DEF Clean, Exact
<1>. QED BY <1>5, <1>6, <1>7 DEF IInv, Cleanly

LEMMA StepKeeps ==
  ASSUME TypeOK, Shared, Next
  PROVE  Keeps
<1>1. ASSUME NEW k \in {"smart", "multi", "retry"}, Call(k) PROVE Keeps
  BY <1>1, CallKeeps
<1>2. CASE MainStep
  BY <1>2, GetSizeKeeps, GetKeeps, CopyKeeps, BreakCopyKeeps, HeadRequestKeeps,
     WaitKeeps, MergeKeeps, BreakMergeKeeps, CleanupKeeps DEF MainStep
<1>3. ASSUME NEW w \in Workers, WorkerStep(w) PROVE Keeps
  BY <1>3, TakeKeeps, OnceKeeps, ReadKeeps DEF WorkerStep
<1>4. CASE Kill BY <1>4, KillKeeps
<1>5. CASE Publish BY <1>5, PublishKeeps
<1>. QED BY <1>1, <1>2, <1>3, <1>4, <1>5 DEF Next

LEMMA Step == IInv /\ [Next]_vars => IInv'
<1>. SUFFICES ASSUME IInv, [Next]_vars PROVE IInv' OBVIOUS
<1>1. CASE Next
  <2>1. Keeps BY <1>1, StepKeeps DEF IInv
  <2>2. blame' \subseteq Mild => blame \subseteq Mild /\ Clean
    BY <2>1 DEF Keeps, IInv, Cleanly
  <2>3. blame' = {} => blame = {} /\ Clean /\ Exact
    BY <2>1, <2>2 DEF Keeps, IInv, Cleanly
  <2>. QED BY <2>1, <2>2, <2>3 DEF Keeps, IInv, Cleanly
<1>2. CASE UNCHANGED vars
  <2>1. TypeOK' BY <1>2 DEF IInv, TypeOK, vars, disk, callVars
  <2>2. Shared' BY <1>2 DEF IInv, Shared, OneWriter, vars, disk, callVars
  <2>3. Cleanly'
    BY <1>2 DEF IInv, Cleanly, Clean, Exact, Enough, Reaches, vars, disk, callVars
  <2>. QED BY <2>1, <2>2, <2>3 DEF IInv
<1>. QED BY <1>1, <1>2

LEMMA Inductive == Spec => []IInv
BY Start, Step, PTL DEF Spec

\* The state of the call and of the files has its type (the variables of
\* lib/downbigfile.go as the model keeps them).
THEOREM TypeCorrect == Spec => []TypeOK
<1>1. IInv => TypeOK BY DEF IInv
<1>. QED BY <1>1, Inductive, PTL

\* Two workers of downloadAllChunks never write the same part file, with any
\* number of workers and whatever fails: the channel hands each chunk out once.
THEOREM OneWriterHolds == Spec => []OneWriter
<1>1. IInv => OneWriter BY DEF IInv, Shared
<1>. QED BY <1>1, Inductive, PTL

\* Each part file is a beginning of its own chunk, for any size and chunk size,
\* also after kills and retries and when an error page was taken for the size.
THEOREM PartsAreSlicesHolds == Spec => []PartsAreSlices
<1>1. ASSUME IInv, NEW c \in Chunks, blame \subseteq Mild, part[c] # NoFile
      PROVE  LET before == (c - 1) * ChunkSize IN
             /\ Len(part[c]) <= ChunkSize /\ before + Len(part[c]) <= SizeOf[version]
             /\ \A i \in DOMAIN part[c] : part[c][i] = <<version, before + i>>
  <2>. DEFINE n == SizeOf[version]
              p == part[c]
  <2>1. PartBegins(p, c, version) BY <1>1 DEF IInv, Cleanly, Clean
  <2>2. p \in Seq(Bytes) /\ n \in Nat /\ n > 0
    BY <1>1, Constants DEF IInv, TypeOK, Files
  <2>3. Len(p) \in Nat /\ DOMAIN p = 1..Len(p) BY <2>2, LenProperties
  <2>4. /\ c \in 1..Count(n) /\ Len(p) <= Length(c, n)
        /\ \A i \in 1..Len(p) : p[i] = <<version, Off(c - 1) + i>>
    BY <2>1 DEF PartBegins
  <2>. HIDE DEF n, p
  <2>5. /\ Off(c - 1) \in Nat /\ Length(c, n) \in Nat /\ Length(c, n) <= ChunkSize
        /\ Off(c - 1) + Length(c, n) <= n
    BY <2>2, <2>4, ChunkFacts
  <2>6. Len(p) <= ChunkSize /\ Off(c - 1) + Len(p) <= n
    BY <2>2, <2>3, <2>4, <2>5, Constants
  <2>7. (c - 1) * ChunkSize = Off(c - 1) BY DEF Off
  <2>. QED BY <2>3, <2>4, <2>6, <2>7 DEF n, p
<1>2. IInv => PartsAreSlices BY <1>1 DEF PartsAreSlices
<1>. QED BY <1>2, Inductive, PTL

LEMMA BeginsIsPrefix ==
  ASSUME NEW v \in DOMAIN SizeOf, NEW file \in Seq(Bytes), Begins(file, v)
  PROVE  IsPrefix(file, Whole(v))
<1>. DEFINE n == Len(file)
<1>1. /\ n \in Nat /\ SizeOf[v] \in Nat /\ n <= SizeOf[v]
  BY Constants, LenProperties DEF Begins
<1>2. Whole(v) \in Seq(Bytes) /\ Len(Whole(v)) = SizeOf[v] BY WholeFacts
<1>3. SubSeq(file, 1, n) = file BY <1>1
<1>4. SubSeq(Whole(v), 1, n) \in Seq(Bytes) /\ Len(SubSeq(Whole(v), 1, n)) = n
  BY <1>1, <1>2
<1>5. \A i \in 1..n : file[i] = SubSeq(Whole(v), 1, n)[i]
  <2>1. \A i \in 1..n : i \in 1..SizeOf[v] BY <1>1
  <2>2. \A i \in 1..n : SubSeq(Whole(v), 1, n)[i] = Whole(v)[i] BY <1>1, <1>2
  <2>. QED BY <2>1, <2>2, WholeFacts DEF Begins
<1>6. file = SubSeq(Whole(v), 1, n) BY <1>4, <1>5, SeqEqual
<1>. QED BY <1>1, <1>2, <1>3, <1>6 DEF IsPrefix

\* Between calls the final name holds nothing or a beginning of the resource, and
\* the whole of it when no error page was taken for the size.
THEOREM FinalIsWholeHolds == Spec => []FinalIsWhole
<1>1. ASSUME IInv, pc = "idle", blame \subseteq Mild, final # NoFile
      PROVE  IsPrefix(final, Whole(version)) /\ (blame = {} => final = Whole(version))
  <2>1. /\ version \in DOMAIN SizeOf /\ final \in Seq(Bytes) /\ Begins(final, version)
    BY <1>1 DEF IInv, TypeOK, Files, Cleanly, Clean
  <2>2. blame = {} => final = Whole(version) BY <1>1 DEF IInv, Cleanly, Exact
  <2>. QED BY <2>1, <2>2, BeginsIsPrefix
<1>2. IInv => FinalIsWhole BY <1>1 DEF FinalIsWhole
<1>. QED BY <1>2, Inductive, PTL

\* A worker touches a part only while something of it is missing.
LEMMA WorkerLeaves ==
  ASSUME TypeOK, Shared, Clean, blame = {} => Exact, NEW w \in Workers, WorkerStep(w),
         NEW c \in Chunks, Complete(c)
  PROVE  part'[c] = part[c]
<1>1. CASE Take(w) BY <1>1 DEF Take, disk
<1>2. ASSUME Works(w), c # work[w].chunk, NEW f,
             part' = [part EXCEPT ![work[w].chunk] = f]
      PROVE  part'[c] = part[c]
  BY <1>2 DEF TypeOK
<1>3. ASSUME Works(w), c = work[w].chunk
      PROVE  /\ part[c] # NoFile /\ ~TooShort(part[c], Need(w))
             /\ work[w].body # NoFile => ~(Len(part[c]) < Len(work[w].body))
  <2>. DEFINE S == SizeOf[version]
  <2>1. /\ version \in DOMAIN SizeOf /\ c \in 1..Count(size)
        /\ size \in Nat /\ size > 0 /\ pc = "chunks"
    BY <1>3, AtWork DEF TypeOK
  <2>2. PartBegins(part[c], c, version) /\ part[c] # NoFile BY DEF Complete, Clean
  <2>3. /\ S \in Nat /\ S > 0 /\ c \in 1..Count(S)
    BY <2>1, <2>2, Constants DEF PartBegins
  <2>4. /\ Length(c, size) \in Nat /\ Length(c, size) <= ChunkSize
        /\ Length(c, S) \in Nat /\ Length(c, S) <= ChunkSize
    BY <2>1, <2>3, ChunkFacts
  <2>5. /\ Len(part[c]) \in {ChunkSize, Length(c, S)}
        /\ Len(part[c]) >= Length(c, size) /\ Len(part[c]) >= Length(c, S)
    <3>1. CASE blame = {}
      <4>1. size = S BY <2>1, <3>1 DEF Exact
      <4>2. Len(part[c]) = Length(c, S) BY <3>1 DEF Complete
      <4>. QED BY <2>4, <4>1, <4>2
    <3>2. CASE blame # {}
      <4>1. Len(part[c]) = ChunkSize BY <3>2 DEF Complete
      <4>. QED BY <2>4, <4>1, Constants
    <3>. QED BY <3>1, <3>2
  <2>6. ~TooShort(part[c], Need(w)) BY <1>3, <2>4, <2>5, Constants DEF TooShort, Need
  <2>7. ASSUME work[w].body # NoFile PROVE ~(Len(part[c]) < Len(work[w].body))
    <3>1. work[w].body = Slice(version, c, size) /\ work[w].body # <<>>
      BY <1>3, <2>7 DEF Clean
    <3>2. Len(work[w].body) \in Nat /\ Len(work[w].body) <= Length(c, S)
      BY <2>1, <3>1, SliceFacts
    <3>. QED BY <2>4, <2>5, <3>2, Constants
  <2>. QED BY <2>2, <2>6, <2>7
<1>4. CASE Once(w)
  <2>1. Works(w) BY <1>4 DEF Once
  <2>2. c = work[w].chunk => UNCHANGED part
    BY <1>3, <1>4, <2>1 DEF Once
  <2>3. UNCHANGED part \/ \E f : part' = [part EXCEPT ![work[w].chunk] = f]
    BY <1>4 DEF Once, Unlink, Answer
  <2>. QED BY <1>2, <2>1, <2>2, <2>3
<1>5. CASE Read(w) \/ BreakRead(w)
  <2>1. Works(w) /\ work[w].body # NoFile BY <1>5 DEF Read, BreakRead
  <2>2. c = work[w].chunk => UNCHANGED part
    BY <1>3, <1>5, <2>1 DEF Read, BreakRead
  <2>3. UNCHANGED part \/ \E f : part' = [part EXCEPT ![work[w].chunk] = f]
    BY <1>5 DEF Read, BreakRead, Unlink
  <2>. QED BY <1>2, <2>1, <2>2, <2>3
<1>. QED BY <1>1, <1>4, <1>5 DEF WorkerStep

\* What the clean-up removes stands in the final file.
LEMMA CleanupLeaves ==
  ASSUME TypeOK, Shared, Clean, Cleanup, NEW c \in Chunks, part[c] # NoFile,
         part'[c] # part[c]
  PROVE  Holds(final, c)
<1>1. pc = "cleanup" BY DEF Cleanup
<1>2. c = next /\ next <= Count(size) BY DEF Cleanup, TypeOK
<1>3. /\ size \in Sizes /\ Count(size) \in Nat /\ next \in 1..(Count(size) + 1)
  BY <1>1, ChunksOf DEF Shared
<1>4. Reaches(c) /\ final # NoFile /\ Begins(final, version)
  BY <1>1, <1>2, <1>3 DEF Clean
<1>5. PartBegins(part[c], c, version) BY DEF Clean
<1>6. part[c] \in Seq(Bytes) /\ final \in Seq(Bytes) BY <1>4 DEF TypeOK, Files
<1>7. /\ Len(part[c]) \in Nat /\ DOMAIN part[c] = 1..Len(part[c]) /\ Len(final) \in Nat
  BY <1>6, LenProperties
<1>8. Off(c - 1) \in Nat
  <2>1. c - 1 \in Nat BY <1>2, <1>3
  <2>. QED BY <2>1, OffFacts
<1>9. Off(c - 1) + Len(part[c]) <= Len(final) BY <1>4 DEF Reaches
<1>10. \A i \in 1..Len(part[c]) : final[Off(c - 1) + i] = part[c][i]
  <2>1. \A i \in 1..Len(part[c]) : Off(c - 1) + i \in 1..Len(final)
    BY <1>7, <1>8, <1>9
  <2>. QED BY <1>4, <1>5, <2>1 DEF Begins, PartBegins
<1>11. (c - 1) * ChunkSize = Off(c - 1) BY DEF Off
<1>. QED BY <1>4, <1>7, <1>9, <1>10, <1>11 DEF Holds

\* A call after a kill finds the complete parts of the call before: no step throws
\* one away before its bytes stand in a merged file that passed its check.
THEOREM CompletePartsStayHolds == Spec => CompletePartsStay
<1>. DEFINE Stays(c) ==
              \/ part'[c] = part[c]
              \/ /\ pc = "cleanup" /\ Holds(final, c)
                 /\ blame = {} => final = Whole(version)
<1>1. ASSUME IInv, [Next]_vars, NEW c \in Chunks, blame' \subseteq Mild, Complete(c)
      PROVE  Stays(c)
  <2>1. TypeOK /\ Shared /\ part[c] # NoFile BY <1>1 DEF IInv, Complete
  <2>2. Clean /\ (blame = {} => Exact)
    <3>1. blame \subseteq blame'
      <4>1. CASE Next BY <2>1, <4>1, StepKeeps DEF Keeps
      <4>2. CASE UNCHANGED vars BY <4>2 DEF vars
      <4>. QED BY <1>1, <4>1, <4>2
    <3>. QED BY <1>1, <3>1 DEF IInv, Cleanly
  <2>3. CASE \E w \in Workers : WorkerStep(w)
    BY <1>1, <2>1, <2>2, <2>3, WorkerLeaves
  <2>4. CASE MainStep /\ ~Cleanup
    BY <2>4 DEF MainStep, GetSize, Get, Copy, BreakCopy, HeadRequest, Wait, Merge,
       BreakMerge, disk
  <2>5. CASE Cleanup
    <3>1. pc = "cleanup" BY <2>5 DEF Cleanup
    <3>2. blame = {} => final = Whole(version)
      BY <2>2, <3>1 DEF Clean, Exact
    <3>3. part'[c] # part[c] => Holds(final, c)
      BY <2>1, <2>2, <2>5, CleanupLeaves
    <3>. QED BY <3>1, <3>2, <3>3
  <2>6. CASE Kill \/ Publish \/ \E k \in {"smart", "multi", "retry"} : Call(k)
    BY <2>6 DEF Kill, Publish, Call, disk
  <2>7. CASE UNCHANGED vars BY <2>7 DEF vars, disk
  <2>. QED BY <1>1, <2>3, <2>4, <2>5, <2>6, <2>7 DEF Next
<1>2. IInv /\ [Next]_vars =>
        \A c \in Chunks :
          blame' \subseteq Mild /\ Complete(c) =>
            \/ part'[c] = part[c]
            \/ /\ pc = "cleanup" /\ Holds(final, c)
               /\ blame = {} => final = Whole(version)
  BY <1>1
<1>3. IInv /\ [Next]_vars =>
        [\A c \in Chunks :
          blame' \subseteq Mild /\ Complete(c) =>
            \/ part'[c] = part[c]
            \/ /\ pc = "cleanup" /\ Holds(final, c)
               /\ blame = {} => final = Whole(version)]_vars
  BY <1>2
<1>. QED BY <1>3, Inductive, PTL DEF Spec, CompletePartsStay
=============================================================================
