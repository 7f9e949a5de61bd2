--------------------------- MODULE DownloadProofs ---------------------------
(***************************************************************************)
(* Proofs about Download: types for any number of writers, that a download *)
(* which is resumed by one writer from a server that does not change the   *)
(* body only ever holds a prefix of it and implements FileOutcome, and     *)
(* that its chunks stay in their places when the body does change.         *)
(***************************************************************************)
EXTENDS Download, SequenceTheorems, TLAPS

LEMMA WrittenType ==
    ASSUME NEW f \in Seq(Chunks), NEW at \in Nat \ {0}, NEW chunk \in Chunks
    PROVE  /\ Written(f, at, chunk) \in Seq(Chunks)
           /\ Len(Written(f, at, chunk)) = MaxOf(Len(f), at)
<1>1. MaxOf(Len(f), at) \in Nat
  BY DEF MaxOf
<1>2. \A i \in 1..MaxOf(Len(f), at) :
         (IF i = at THEN chunk ELSE IF i <= Len(f) THEN f[i] ELSE Hole) \in Chunks
  BY DEF Chunks
<1> QED BY <1>1, <1>2 DEF Written

LEMMA BodyType ==
    ASSUME NEW b \in Bodies
    PROVE  /\ Body(b) \in Seq(Chunks)
           /\ Len(Body(b)) = Size[b]
           /\ \A i \in 1..Size[b] : Body(b)[i] = Chunk(b, i)
BY DownloadAssumption DEF Body, Chunk, Chunks

\* what a response to a range consists of
LEMMA RestOfBody ==
    ASSUME NEW b \in Bodies, NEW n \in 0..Size[b]
    PROVE  LET rest == SubSeq(Body(b), n + 1, Size[b])
           IN  /\ rest \in Seq(Chunks)
               /\ Len(rest) = Size[b] - n
               /\ \A i \in 1..Len(rest) : rest[i] = Chunk(b, n + i)
<1>1. Size[b] \in Nat
  BY DownloadAssumption
<1>2. CASE n = Size[b]
  BY <1>1, <1>2, BodyType, SubSeqProperties
<1>3. CASE n < Size[b]
  BY <1>1, <1>3, BodyType, SubSeqProperties
<1> QED BY <1>1, <1>2, <1>3

-----------------------------------------------------------------------------
\* the writer of a fresh file is never before its beginning
Typed == TypeOK /\ \A w \in Writers : Len(stream[w]) <= length[w]

LEMMA DownloadTypeInit == Init => Typed
<1> SUFFICES ASSUME Init PROVE Typed
  OBVIOUS
<1> USE DownloadAssumption DEF Init
<1>1. exists \in BOOLEAN /\ truncate \in [Writers -> BOOLEAN]
  BY Zenon
<1>2. file \in Seq(Chunks) /\ stream \in [Writers -> Seq(Chunks)]
  OBVIOUS
<1>3. ASSUME NEW w \in Writers PROVE Len(stream[w]) <= length[w]
  <2>1. stream[w] = <<>> /\ length[w] = 0
    OBVIOUS
  <2>2. Len(<<>>) = 0
    OBVIOUS
  <2> QED BY <2>1, <2>2
<1> QED BY <1>1, <1>2, <1>3 DEF Typed, TypeOK, States

LEMMA ResponseType ==
    ASSUME Typed, NEW w \in Writers, start[w] < Size[body] \/ ~Resumes
    PROVE  Rest(w) \in Seq(Chunks)
<1>1. body \in Bodies /\ start[w] \in Nat
  BY DEF Typed, TypeOK
<1>2. CASE Resumes
  <2>1. start[w] \in 0..Size[body]
    BY <1>1, <1>2, DownloadAssumption
  <2> QED BY <1>1, <1>2, <2>1, RestOfBody DEF Rest
<1>3. CASE ~Resumes
  BY <1>1, <1>3, BodyType DEF Rest
<1> QED BY <1>2, <1>3

LEMMA DownloadTypeNext == Typed /\ [Next]_vars => Typed'
<1> SUFFICES ASSUME Typed, [Next]_vars PROVE Typed'
  OBVIOUS
<1> USE DownloadAssumption
<1> USE DEF disk, attempts, Typed
<1>1. ASSUME NEW w \in Writers, Step(w) PROVE Typed'
  <2>1. CASE Begin(w)
    BY <2>1 DEF Begin, TypeOK, States
  <2>2. CASE Stat(w)
    <3>1. truncate' \in [Writers -> BOOLEAN]
      BY <2>2, Zenon DEF Stat, TypeOK
    <3> QED BY <2>2, <3>1 DEF Stat, TypeOK, States
  <2>3. CASE Respond(w)
    <3>1. Rest(w) \in Seq(Chunks) /\ start[w] \in Nat
      BY <2>3, ResponseType DEF Respond, TypeOK
    <3> QED BY <2>3, <3>1 DEF Respond, TypeOK, States
  <2>4. CASE NothingLeft(w)
    BY <2>4 DEF NothingLeft, TypeOK, States
  <2>5. CASE Open(w)
    BY <2>5 DEF Open, TypeOK, States
  <2>6. CASE Receive(w)
    <3>1. /\ Head(stream[w]) \in Chunks
          /\ Tail(stream[w]) \in Seq(Chunks)
          /\ Len(Tail(stream[w])) <= length[w]
      BY <2>6, HeadTailProperties DEF Receive, TypeOK
    <3>2. Position(w) \in Nat \ {0}
      BY DEF Position, TypeOK
    <3>3. file' \in Seq(Chunks)
      BY <2>6, <3>1, <3>2, WrittenType DEF Receive, TypeOK
    <3> QED BY <2>6, <3>1, <3>3 DEF Receive, TypeOK
  <2>7. CASE Flush(w)
    BY <2>7 DEF Flush, TypeOK, States
  <2>8. CASE Insert(w)
    BY <2>8 DEF Insert, TypeOK, States
  <2> QED BY <1>1, <2>1, <2>2, <2>3, <2>4, <2>5, <2>6, <2>7, <2>8 DEF Step
<1>2. ASSUME NEW w \in Writers, TimesOut(w) \/ Fails(w) PROVE Typed'
  <2>1. faults' \in 0..MaxFaults
    BY <1>2 DEF TimesOut, Fails, Fault, TypeOK
  <2>2. pc' \in [Writers -> States]
    BY <1>2 DEF TimesOut, Fails, TypeOK, States
  <2> QED BY <1>2, <2>1, <2>2 DEF TimesOut, Fails, TypeOK
<1>3. CASE Crash
  BY <1>3 DEF Crash, Fault, TypeOK, States
<1>4. CASE Replaced
  BY <1>4 DEF Replaced, TypeOK
<1>5. CASE UNCHANGED vars
  BY <1>5 DEF vars, TypeOK
<1> QED BY <1>1, <1>2, <1>3, <1>4, <1>5 DEF Next

\* Every behaviour of the downloads is well typed, with any number of writers.
THEOREM DownloadType == Spec => []TypeOK
<1>1. Typed => TypeOK
  BY DEF Typed
<1> QED BY <1>1, DownloadTypeInit, DownloadTypeNext, PTL DEF Spec

-----------------------------------------------------------------------------
(***************************************************************************)
(* One writer at a time, a server that honours RANGE, and a body that does *)
(* not change.                                                             *)
(***************************************************************************)
OneWriter == /\ \A v, w \in Writers : v = w
             /\ Bodies = {FirstBody}
             /\ Resumes

LEMMA ResumableInit == Init => Resumable
<1> SUFFICES ASSUME Init PROVE Resumable
  OBVIOUS
<1>1. Len(file) = 0 /\ file = <<>>
  BY DEF Init
<1> QED BY <1>1, DownloadAssumption DEF Init, Resumable, OnDisk, ToCome, Complete

\* A response is what the file lacks.
LEMMA ResumableRespond ==
    ASSUME OneWriter, Typed, Resumable, NEW w \in Writers, Respond(w)
    PROVE  Resumable'
<1> USE DownloadAssumption
<1> USE DEF disk
<1>a. start[w] = Len(file) /\ body = FirstBody /\ Len(file) <= Size[FirstBody]
  <2>1. pc[w] \in {"head", "open"}
    BY DEF Respond
  <2> QED BY <2>1, Zenon DEF Resumable, OnDisk
<1>b. Len(file) \in Nat /\ Size[FirstBody] \in Nat
  BY DEF Typed, TypeOK
<1>1. start[w] = Len(file) /\ start[w] \in 0..Size[FirstBody] /\ body = FirstBody
  BY <1>a, <1>b
<1>2. /\ Rest(w) \in Seq(Chunks)
      /\ Len(Rest(w)) = Size[FirstBody] - Len(file)
      /\ \A i \in 1..Len(Rest(w)) : Rest(w)[i] = Chunk(FirstBody, Len(file) + i)
  BY <1>1, RestOfBody DEF Rest, OneWriter
<1>3. /\ stream'[w] = Rest(w)
      /\ length'[w] = Size[FirstBody]
      /\ pc'[w] = "open"
  BY <1>1, <1>2 DEF Respond, Typed, TypeOK
<1>4. ToCome(w)'
  BY <1>2, <1>3 DEF ToCome, Respond
<1>5. UNCHANGED <<body, exists, file, recorded, start, truncate>>
  BY DEF Respond
<1>6. \A v \in Writers : v = w
  BY DEF OneWriter
<1> QED BY <1>3, <1>4, <1>5, <1>6 DEF Resumable, OnDisk, Complete, Respond

\* A chunk that arrives is the next one of the file.
LEMMA ResumableReceive ==
    ASSUME OneWriter, Typed, Resumable, NEW w \in Writers, Receive(w)
    PROVE  Resumable'
<1> USE DownloadAssumption
<1> USE DEF disk
<1>1. ToCome(w) /\ exists /\ OnDisk /\ body = FirstBody
  BY DEF Receive, Resumable
<1>2. /\ stream[w] \in Seq(Chunks) /\ stream[w] # <<>>
      /\ file \in Seq(Chunks) /\ Len(file) \in Nat
  BY DEF Receive, Typed, TypeOK
<1>3. /\ Len(stream[w]) \in Nat \ {0}
      /\ Head(stream[w]) = stream[w][1]
      /\ Head(stream[w]) \in Chunks
      /\ Len(Tail(stream[w])) = Len(stream[w]) - 1
      /\ \A i \in 1..Len(Tail(stream[w])) : Tail(stream[w])[i] = stream[w][i + 1]
  BY <1>2, HeadTailProperties
<1>4. Position(w) = Len(file) + 1
  BY <1>1, <1>2, <1>3 DEF Position, ToCome
<1>5. /\ file' = Written(file, Len(file) + 1, Head(stream[w]))
      /\ stream'[w] = Tail(stream[w])
  BY <1>4 DEF Receive, Typed, TypeOK
<1>6. Len(file') = Len(file) + 1
  <2>1. MaxOf(Len(file), Len(file) + 1) = Len(file) + 1
    BY <1>2 DEF MaxOf
  <2>2. Len(file) + 1 \in Nat \ {0}
    BY <1>2
  <2> QED BY <1>2, <1>3, <1>5, <2>1, <2>2, WrittenType
<1>7. \A i \in 1..Len(file') : file'[i] = Chunk(FirstBody, i)
  <2>1. MaxOf(Len(file), Len(file) + 1) = Len(file) + 1
    BY <1>2 DEF MaxOf
  <2>2. \A i \in 1..Len(file) : file'[i] = file[i]
    BY <1>2, <1>5, <2>1 DEF Written
  <2>3. file'[Len(file) + 1] = Head(stream[w])
    BY <1>2, <1>5, <2>1 DEF Written
  <2>4. stream[w][1] = Chunk(FirstBody, Len(file) + 1)
    BY <1>1, <1>3 DEF ToCome
  <2> QED BY <1>1, <1>2, <1>3, <1>6, <2>2, <2>3, <2>4 DEF OnDisk
<1>8. UNCHANGED <<body, exists, recorded, pc, start, truncate, length>>
  BY DEF Receive
<1>9. OnDisk'
  BY <1>1, <1>3, <1>6, <1>7, <1>8 DEF OnDisk, ToCome
<1>10. ToCome(w)'
  <2>1. /\ length'[w] = Size[FirstBody]
        /\ Len(stream'[w]) = Size[FirstBody] - Len(file')
    BY <1>1, <1>2, <1>3, <1>5, <1>6, <1>8 DEF ToCome
  <2>2. ASSUME NEW i \in 1..Len(stream'[w])
        PROVE  stream'[w][i] = Chunk(FirstBody, Len(file') + i)
    <3>1. i + 1 \in 1..Len(stream[w]) /\ stream'[w][i] = stream[w][i + 1]
      BY <1>3, <1>5
    <3>2. stream[w][i + 1] = Chunk(FirstBody, Len(file) + (i + 1))
      BY <1>1, <3>1 DEF ToCome
    <3>3. Len(file) + (i + 1) = Len(file') + i
      BY <1>2, <1>6
    <3> QED BY <3>1, <3>2, <3>3
  <2> QED BY <2>1, <2>2 DEF ToCome
<1>11. \A v \in Writers : v = w
  BY DEF OneWriter
<1>12. recorded = 0
  BY <1>1, <1>2, <1>3 DEF Resumable, Complete, ToCome
<1> QED BY <1>1, <1>8, <1>9, <1>10, <1>11, <1>12 DEF Resumable, Receive

LEMMA ResumableNext ==
    ASSUME OneWriter, Typed, Resumable, [Next]_vars
    PROVE  Resumable'
<1> USE DownloadAssumption
<1> USE DEF disk, attempts, OnDisk, ToCome, Complete
<1>a. \A v, w \in Writers : v = w
  BY DEF OneWriter
<1>b. /\ pc \in [Writers -> States]
      /\ Len(file) \in Nat
      /\ Size[FirstBody] \in Nat
  BY DEF Typed, TypeOK
<1>1. ASSUME NEW w \in Writers, Step(w) PROVE Resumable'
  <2>1. CASE Begin(w)
    BY <2>1, <1>a, <1>b DEF Begin, Resumable
  <2>2. CASE Stat(w)
    <3>1. start'[w] = Len(file)
      BY <2>2, <1>b DEF Stat, Resumable, Typed, TypeOK
    <3>2. truncate'[w] = ~exists
      BY <2>2, Zenon DEF Stat, Typed, TypeOK
    <3>3. pc'[w] = "head"
      BY <2>2, <1>b DEF Stat
    <3>4. UNCHANGED <<body, exists, file, recorded, stream, length>>
      BY <2>2 DEF Stat
    <3> QED BY <3>1, <3>2, <3>3, <3>4, <1>a DEF Resumable
  <2>3. CASE Respond(w)
    BY <2>3, ResumableRespond
  <2>4. CASE NothingLeft(w)
    <3>a. start[w] >= Size[body] /\ pc[w] \in {"head", "open"}
      BY <2>4 DEF NothingLeft
    <3>b. start[w] = Len(file) /\ body = FirstBody
      BY <3>a, Zenon DEF Resumable
    <3>1. start[w] = Len(file) /\ body = FirstBody /\ Len(file) >= Size[FirstBody]
      BY <3>a, <3>b
    <3>2. Len(file) = Size[FirstBody] /\ Len(file) # 0
      BY <3>1, <1>b DEF Resumable
    <3>3. exists
      BY <3>2 DEF Resumable
    <3>4. pc' = [pc EXCEPT ![w] = "ok"]
      BY <2>4 DEF NothingLeft
    <3>5. UNCHANGED <<body, exists, file, recorded, start, truncate, stream, length>>
      BY <2>4 DEF NothingLeft
    <3> QED BY <3>2, <3>3, <3>4, <3>5, <1>a, <1>b DEF Resumable
  <2>5. CASE Open(w)
    <3>a. pc[w] \in {"head", "open"} /\ file' = IF truncate[w] THEN <<>> ELSE file
      BY <2>5 DEF Open
    <3>1. file' = file
      BY <3>a, Zenon DEF Resumable
    <3>2. pc'[w] = "body" /\ exists'
      BY <2>5, <1>b DEF Open
    <3>3. UNCHANGED <<body, recorded, start, truncate, stream, length>>
      BY <2>5 DEF Open
    <3>4. ToCome(w)
      BY <2>5 DEF Open, Resumable
    <3> QED BY <3>1, <3>2, <3>3, <3>4, <1>a DEF Resumable
  <2>6. CASE Receive(w)
    BY <2>6, ResumableReceive
  <2>7. CASE Flush(w)
    BY <2>7, <1>a, <1>b DEF Flush, Resumable
  <2>8. CASE Insert(w)
    BY <2>8, <1>a, <1>b DEF Insert, Resumable
  <2> QED BY <1>1, <2>1, <2>2, <2>3, <2>4, <2>5, <2>6, <2>7, <2>8 DEF Step
<1>2. ASSUME NEW w \in Writers, TimesOut(w) \/ Fails(w) PROVE Resumable'
  BY <1>2, <1>a, <1>b DEF TimesOut, Fails, Fault, Resumable
<1>3. CASE Crash
  BY <1>3 DEF Crash, Fault, Resumable
<1>4. CASE Replaced
  BY <1>4 DEF Replaced, OneWriter, Typed, TypeOK
<1>5. CASE UNCHANGED vars
  BY <1>5 DEF vars, Resumable
<1> QED BY <1>1, <1>2, <1>3, <1>4, <1>5 DEF Next

LEMMA ResumableInvariant ==
    ASSUME OneWriter
    PROVE  Spec => [](Typed /\ Resumable)
<1>1. Typed /\ Resumable /\ [Next]_vars => Typed' /\ Resumable'
  BY DownloadTypeNext, ResumableNext
<1> QED BY <1>1, DownloadTypeInit, ResumableInit, PTL DEF Spec

\* Why resumption works: what is on disk and what is still to come make up the
\* body at every point of every attempt.
THEOREM ResumableHolds ==
    ASSUME OneWriter
    PROVE  Spec => []Resumable
BY ResumableInvariant, PTL

\* The file on disk begins like the body, after any interruptions.
THEOREM FileStaysPrefix ==
    ASSUME OneWriter
    PROVE  Spec => []FileIsPrefix
<1>1. Resumable => FileIsPrefix
  BY DownloadAssumption DEF Resumable, OnDisk, FileIsPrefix
<1> QED BY <1>1, ResumableInvariant, PTL

LEMMA CompleteIsWhole ==
    ASSUME Typed, Resumable, Complete
    PROVE  Whole /\ Len(file) = Size[FirstBody]
<1>1. file \in Seq(Chunks) /\ Len(file) = Size[FirstBody]
  BY DEF Typed, TypeOK, Complete
<1>2. file = Body(FirstBody)
  BY <1>1, BodyType, DownloadAssumption DEF Resumable, OnDisk
<1> QED BY <1>1, <1>2, DownloadAssumption DEF Whole

\* An attempt that ends well, status 416 included, leaves the whole body.
THEOREM SuccessLeavesWholeFile ==
    ASSUME OneWriter
    PROVE  Spec => []OkIsWhole
<1>1. Typed /\ Resumable => OkIsWhole
  BY CompleteIsWhole DEF Resumable, OkIsWhole
<1> QED BY <1>1, ResumableInvariant, PTL

\* A stored content length is that of the file, and the file is whole.
THEOREM ResultsMatchFiles ==
    ASSUME OneWriter
    PROVE  Spec => []ResultMatchesFile
<1>1. Typed /\ Resumable => ResultMatchesFile
  BY CompleteIsWhole DEF Resumable, ResultMatchesFile
<1> QED BY <1>1, ResumableInvariant, PTL

LEMMA FileGrows ==
    ASSUME OneWriter, Typed, Resumable, [Next]_vars
    PROVE  [/\ Len(file') >= Len(file)
            /\ \A i \in 1..Len(file) : file'[i] = file[i]]_vars
<1> USE DEF disk, attempts
<1>a. file \in Seq(Chunks) /\ Len(file) \in Nat
  BY DEF Typed, TypeOK
<1>1. CASE UNCHANGED file
  BY <1>1, <1>a
<1>2. ASSUME NEW w \in Writers, Receive(w)
      PROVE  /\ Len(file') >= Len(file)
             /\ \A i \in 1..Len(file) : file'[i] = file[i]
  <2>1. ToCome(w) /\ Len(stream[w]) \in Nat
    BY <1>2 DEF Receive, Resumable, Typed, TypeOK
  <2>2. Position(w) = Len(file) + 1
    BY <2>1, <1>a, DownloadAssumption DEF Position, ToCome
  <2>3. file' = Written(file, Len(file) + 1, Head(stream[w]))
    BY <1>2, <2>2 DEF Receive
  <2>4. MaxOf(Len(file), Len(file) + 1) = Len(file) + 1
    BY <1>a DEF MaxOf
  <2>5. Head(stream[w]) \in Chunks /\ Len(file) + 1 \in Nat \ {0}
    BY <1>2, <1>a, HeadTailProperties DEF Receive, Typed, TypeOK
  <2>6. Len(file') = Len(file) + 1
    BY <1>a, <2>3, <2>4, <2>5, WrittenType
  <2>7. \A i \in 1..Len(file) : file'[i] = file[i]
    BY <1>a, <2>3, <2>4 DEF Written
  <2> QED BY <1>a, <2>6, <2>7
<1>3. ASSUME NEW w \in Writers, Open(w) PROVE UNCHANGED file
  BY <1>3, Zenon DEF Open, Resumable, OnDisk
<1>4. CASE UNCHANGED vars
  BY <1>4
<1> QED BY <1>1, <1>2, <1>3, <1>4
        DEF Next, Step, Begin, Stat, Respond, NothingLeft, Flush, Insert,
            TimesOut, Fails, Crash, Replaced

\* What is on disk is never asked for again nor written over.
THEOREM NothingIsDownloadedTwice ==
    ASSUME OneWriter
    PROVE  Spec => NothingIsRepeated
BY ResumableInvariant, FileGrows, PTL DEF Spec, NothingIsRepeated

-----------------------------------------------------------------------------
(***************************************************************************)
(* One writer at a time and a server that honours RANGE, while the body    *)
(* under the url may change.                                               *)
(***************************************************************************)
OneResumes == /\ \A v, w \in Writers : v = w
              /\ Resumes

LEMMA AlignedInit == Init => Aligned
<1> SUFFICES ASSUME Init PROVE Aligned
  OBVIOUS
<1>1. Len(file) = 0 /\ file = <<>>
  BY DEF Init
<1> QED BY <1>1 DEF Init, Aligned, InPlace

\* A response continues the file, with chunks of the body the server has now.
LEMMA AlignedRespond ==
    ASSUME OneResumes, Typed, Aligned, NEW w \in Writers, Respond(w)
    PROVE  Aligned'
<1> USE DEF disk
<1>a. body \in Bodies /\ Len(file) \in Nat /\ Size[body] \in Nat
  BY DownloadAssumption DEF Typed, TypeOK
<1>b. start[w] = Len(file) /\ start[w] < Size[body]
  <2>1. pc[w] \in {"head", "open"} /\ start[w] < Size[body]
    BY DEF Respond, OneResumes
  <2> QED BY <2>1, Zenon DEF Aligned
<1>1. /\ Rest(w) \in Seq(Chunks)
      /\ Len(Rest(w)) \in Nat
      /\ \A i \in 1..Len(Rest(w)) : Rest(w)[i] = Chunk(body, Len(file) + i)
  <2>1. start[w] \in 0..Size[body]
    BY <1>a, <1>b
  <2>2. Rest(w) = SubSeq(Body(body), start[w] + 1, Size[body])
    BY Zenon DEF Rest, OneResumes
  <2>3. /\ Rest(w) \in Seq(Chunks)
        /\ Len(Rest(w)) = Size[body] - start[w]
        /\ \A i \in 1..Len(Rest(w)) : Rest(w)[i] = Chunk(body, start[w] + i)
    <3> DEFINE n == start[w]
    <3>1. n \in 0..Size[body] /\ body \in Bodies
      BY <1>a, <2>1
    <3>2. Rest(w) = SubSeq(Body(body), n + 1, Size[body])
      BY <2>2
    <3> HIDE DEF n
    <3>3. /\ Rest(w) \in Seq(Chunks)
          /\ Len(Rest(w)) = Size[body] - n
          /\ \A i \in 1..Len(Rest(w)) : Rest(w)[i] = Chunk(body, n + i)
      BY <3>1, <3>2, RestOfBody
    <3> QED BY <3>3 DEF n
  <2> QED BY <1>a, <1>b, <2>1, <2>3
<1>2. /\ stream'[w] = Rest(w)
      /\ length'[w] = Len(file) + Len(Rest(w))
      /\ pc'[w] = "open"
  BY <1>b, <1>1 DEF Respond, Typed, TypeOK
<1>3. UNCHANGED <<body, exists, file, start, truncate>>
  BY DEF Respond
<1>4. \A i \in 1..Len(stream'[w]) : \E b \in Bodies : stream'[w][i] = Chunk(b, Len(file) + i)
  BY <1>a, <1>1, <1>2
<1>5. \A v \in Writers : v = w
  BY DEF OneResumes
<1>6. pc[w] = "head"
  BY DEF Respond
<1> QED BY <1>2, <1>3, <1>4, <1>5, <1>6 DEF Aligned, InPlace

\* A chunk that arrives goes to the end of the file.
LEMMA AlignedReceive ==
    ASSUME OneResumes, Typed, Aligned, NEW w \in Writers, Receive(w)
    PROVE  Aligned'
<1> DEFINE n == Len(file)
<1>1. /\ length[w] = n + Len(stream[w]) /\ exists
      /\ \A i \in 1..Len(stream[w]) : \E b \in Bodies : stream[w][i] = Chunk(b, n + i)
      /\ \A i \in 1..n : \E b \in Bodies : file[i] = Chunk(b, i)
  BY DEF Receive, Aligned, InPlace
<1>2. /\ stream[w] \in Seq(Chunks) /\ stream[w] # <<>>
      /\ file \in Seq(Chunks) /\ n \in Nat
  BY DEF Receive, Typed, TypeOK
<1>3. /\ Len(stream[w]) \in Nat \ {0}
      /\ Head(stream[w]) = stream[w][1]
      /\ Head(stream[w]) \in Chunks
      /\ Len(Tail(stream[w])) = Len(stream[w]) - 1
      /\ \A i \in 1..Len(Tail(stream[w])) : Tail(stream[w])[i] = stream[w][i + 1]
  BY <1>2, HeadTailProperties
<1>4. Position(w) = n + 1
  BY <1>1, <1>2, <1>3 DEF Position
<1>5. /\ file' = Written(file, n + 1, Head(stream[w]))
      /\ stream'[w] = Tail(stream[w])
  BY <1>4 DEF Receive, Typed, TypeOK
<1>6. MaxOf(n, n + 1) = n + 1
  BY <1>2 DEF MaxOf
<1>7. Len(file') = n + 1
  <2>1. n + 1 \in Nat \ {0}
    BY <1>2
  <2> QED BY <1>2, <1>3, <1>5, <1>6, <2>1, WrittenType
<1>8. \A i \in 1..n : file'[i] = file[i]
  BY <1>2, <1>5, <1>6 DEF Written
<1>9. file'[n + 1] = stream[w][1]
  BY <1>2, <1>3, <1>5, <1>6 DEF Written
<1>10. InPlace'
  <2>1. \E b \in Bodies : file'[n + 1] = Chunk(b, n + 1)
    BY <1>1, <1>3, <1>9
  <2>2. ASSUME NEW i \in 1..Len(file') PROVE \E b \in Bodies : file'[i] = Chunk(b, i)
    <3>1. i \in 1..n \/ i = n + 1
      BY <1>2, <1>7
    <3> QED BY <1>1, <1>8, <2>1, <3>1
  <2> QED BY <2>2 DEF InPlace
<1>11. ASSUME NEW i \in 1..Len(stream'[w])
       PROVE  \E b \in Bodies : stream'[w][i] = Chunk(b, Len(file') + i)
  <2>1. i + 1 \in 1..Len(stream[w]) /\ stream'[w][i] = stream[w][i + 1]
    BY <1>3, <1>5
  <2>2. n + (i + 1) = Len(file') + i
    BY <1>2, <1>7
  <2> QED BY <1>1, <2>1, <2>2
<1>12. length'[w] = Len(file') + Len(stream'[w])
  <2>1. length'[w] = n + Len(stream[w])
    BY <1>1 DEF Receive
  <2>2. Len(stream'[w]) = Len(stream[w]) - 1
    BY <1>3, <1>5
  <2> DEFINE a == Len(stream[w])
             c == Len(file')
             d == Len(stream'[w])
  <2>3. n \in Nat /\ a \in Nat
    BY <1>2, <1>3
  <2>4. c = n + 1 /\ d = a - 1 /\ length'[w] = n + a
    BY <1>7, <2>1, <2>2
  <2> HIDE DEF n, a, c, d
  <2>5. length'[w] = c + d
    BY <2>3, <2>4
  <2> QED BY <2>5 DEF c, d
<1>13. \A v \in Writers : v = w
  BY DEF OneResumes
<1>14. pc[w] = "body" /\ UNCHANGED <<exists, pc>>
  BY DEF Receive
<1>15. pc'[w] = "body" /\ exists'
  BY <1>1, <1>14
<1>16. ASSUME NEW v \in Writers
       PROVE  /\ pc'[v] \in {"head", "open"} => FALSE
              /\ length'[v] = Len(file') + Len(stream'[v])
              /\ \A i \in 1..Len(stream'[v]) :
                    \E b \in Bodies : stream'[v][i] = Chunk(b, Len(file') + i)
  <2>1. v = w
    BY <1>13
  <2> QED BY <1>11, <1>12, <1>15, <2>1
<1> QED BY <1>10, <1>15, <1>16 DEF Aligned

LEMMA AlignedNext ==
    ASSUME OneResumes, Typed, Aligned, [Next]_vars
    PROVE  Aligned'
<1> USE DEF disk, attempts, InPlace
<1>a. \A v, w \in Writers : v = w
  BY DEF OneResumes
<1>b. pc \in [Writers -> States] /\ Len(file) \in Nat
  BY DEF Typed, TypeOK
<1>1. ASSUME NEW w \in Writers, Step(w) PROVE Aligned'
  <2>1. CASE Begin(w)
    BY <2>1, <1>a, <1>b DEF Begin, Aligned
  <2>2. CASE Stat(w)
    <3>1. start'[w] = Len(file)
      <4>1. start'[w] = IF exists THEN Len(file) ELSE 0
        BY <2>2, Zenon DEF Stat, Typed, TypeOK
      <4>2. ~exists => Len(file) = 0
        BY DEF Aligned
      <4> QED BY <4>1, <4>2
    <3>2. truncate'[w] = ~exists
      BY <2>2, Zenon DEF Stat, Typed, TypeOK
    <3>3. pc'[w] = "head"
      BY <2>2, <1>b DEF Stat
    <3>4. UNCHANGED <<body, exists, file, stream, length>>
      BY <2>2 DEF Stat
    <3> QED BY <3>1, <3>2, <3>3, <3>4, <1>a DEF Aligned
  <2>3. CASE Respond(w)
    BY <2>3, AlignedRespond
  <2>4. CASE NothingLeft(w)
    BY <2>4, <1>a, <1>b DEF NothingLeft, Aligned
  <2>5. CASE Open(w)
    <3>a. pc[w] \in {"head", "open"} /\ file' = IF truncate[w] THEN <<>> ELSE file
      BY <2>5 DEF Open
    <3>1. file' = file
      BY <3>a, Zenon DEF Aligned
    <3>2. pc[w] = "open" /\ pc'[w] = "body" /\ exists'
      BY <2>5, <1>b DEF Open
    <3>3. UNCHANGED <<start, truncate, stream, length>>
      BY <2>5 DEF Open
    <3> QED BY <3>1, <3>2, <3>3, <1>a DEF Aligned
  <2>6. CASE Receive(w)
    BY <2>6, AlignedReceive
  <2>7. CASE Flush(w)
    BY <2>7, <1>a, <1>b DEF Flush, Aligned
  <2>8. CASE Insert(w)
    BY <2>8, <1>a, <1>b DEF Insert, Aligned
  <2> QED BY <1>1, <2>1, <2>2, <2>3, <2>4, <2>5, <2>6, <2>7, <2>8 DEF Step
<1>2. ASSUME NEW w \in Writers, TimesOut(w) \/ Fails(w) PROVE Aligned'
  BY <1>2, <1>a, <1>b DEF TimesOut, Fails, Fault, Aligned
<1>3. CASE Crash
  BY <1>3 DEF Crash, Fault, Aligned
<1>4. CASE Replaced
  BY <1>4 DEF Replaced, Aligned
<1>5. CASE UNCHANGED vars
  BY <1>5 DEF vars, Aligned
<1> QED BY <1>1, <1>2, <1>3, <1>4, <1>5 DEF Next

\* However often the body under the url changes between the attempts, each
\* chunk is at its own place in the file (iobound.rs start_byte and append).
THEOREM ChunksStayInPlace ==
    ASSUME OneResumes
    PROVE  Spec => []InPlace
<1>1. Typed /\ Aligned /\ [Next]_vars => Typed' /\ Aligned'
  BY DownloadTypeNext, AlignedNext
<1>2. Aligned => InPlace
  BY DEF Aligned
<1> QED BY <1>1, <1>2, DownloadTypeInit, AlignedInit, PTL DEF Spec

-----------------------------------------------------------------------------
(***************************************************************************)
(* What the processing stage takes a download for.                         *)
(***************************************************************************)
LEMMA OutcomeStart == Writers # {} /\ Init => Stage!OutcomeInit
<1> SUFFICES ASSUME Writers # {}, Init PROVE Stage!OutcomeInit
  OBVIOUS
<1>1. TheWriter \in Writers
  BY DEF TheWriter
<1>2. ~Whole
  <2>1. ASSUME NEW b \in Bodies, file = Body(b) PROVE FALSE
    BY <2>1, BodyType, DownloadAssumption DEF Init
  <2> QED BY <2>1 DEF Whole
<1>3. pc[TheWriter] = "idle"
  BY <1>1 DEF Init
<1>4. Attempt = "off"
  BY <1>3 DEF Attempt
<1>5. ~(recorded # 0)
  BY DEF Init
<1> QED BY <1>2, <1>4, <1>5 DEF Stage!OutcomeInit

LEMMA OutcomeStep ==
    ASSUME OneWriter, Writers # {}, Typed, Resumable, [Next]_vars
    PROVE  [Stage!OutcomeNext]_(Stage!outcome)
<1> USE DEF disk, attempts
<1> DEFINE u == TheWriter
<1>1. u \in Writers /\ \A w \in Writers : w = u
  BY DEF TheWriter, OneWriter
<1> HIDE DEF u
<1>a. /\ Attempt = IF pc[u] = "idle" THEN "off" ELSE IF pc[u] \in Resting THEN pc[u] ELSE "working"
      /\ Attempt' = IF pc'[u] = "idle" THEN "off" ELSE IF pc'[u] \in Resting THEN pc'[u] ELSE "working"
  BY DEF Attempt, u, Resting
<1>b. pc \in [Writers -> States] /\ Len(file) \in Nat
  BY DEF Typed, TypeOK
<1>c. Whole \in BOOLEAN /\ Whole' \in BOOLEAN
  BY DEF Whole
<1>d. UNCHANGED file => Whole' = Whole
  BY DEF Whole
<1>2. CASE Begin(u)
  <2>1. Attempt # "working" /\ Attempt' = "working"
    BY <1>1, <1>2, <1>a, <1>b DEF Begin, Resting
  <2>2. Whole' = Whole /\ (recorded # 0)' = (recorded # 0)
    BY <1>2, <1>d DEF Begin
  <2> QED BY <2>1, <2>2 DEF Stage!OutcomeNext, Stage!Begin
<1>3. CASE Stat(u) \/ Respond(u) \/ Flush(u)
  <2>1. Attempt' = Attempt
    BY <1>1, <1>3, <1>a, <1>b DEF Stat, Respond, Flush, Resting
  <2>2. Whole' = Whole /\ (recorded # 0)' = (recorded # 0)
    BY <1>3, <1>d DEF Stat, Respond, Flush
  <2> QED BY <2>1, <2>2 DEF Stage!outcome
<1>4. CASE Open(u)
  <2>1. Attempt' = Attempt
    BY <1>1, <1>4, <1>a, <1>b DEF Open, Resting
  <2>2. file' = file
    <3>1. pc[u] \in {"head", "open"} /\ file' = IF truncate[u] THEN <<>> ELSE file
      BY <1>4 DEF Open
    <3> QED BY <1>1, <3>1, Zenon DEF Resumable, OnDisk
  <2>3. recorded' = recorded
    BY <1>4 DEF Open
  <2> QED BY <1>d, <2>1, <2>2, <2>3 DEF Stage!outcome
<1>5. CASE Receive(u)
  <2>1. Attempt = "working" /\ Attempt' = Attempt /\ recorded' = recorded
    BY <1>1, <1>5, <1>a, <1>b DEF Receive, Resting
  <2>2. ~Whole
    <3>1. /\ ToCome(u) /\ stream[u] # <<>> /\ stream[u] \in Seq(Chunks)
      BY <1>1, <1>5 DEF Receive, Resumable, Typed, TypeOK
    <3>2. Len(stream[u]) \in Nat \ {0}
      BY <3>1
    <3>3. Len(file) # Size[FirstBody]
      BY <1>b, <3>1, <3>2, DownloadAssumption DEF ToCome
    <3> QED BY <3>3, BodyType, DownloadAssumption DEF Whole, OneWriter
  <2>3. CASE Whole'
    BY <2>1, <2>3, <1>c DEF Stage!OutcomeNext, Stage!Arrive
  <2>4. CASE ~Whole'
    <3>1. Whole' = Whole
      BY <2>2, <2>4, <1>c
    <3> QED BY <2>1, <3>1 DEF Stage!outcome
  <2> QED BY <2>3, <2>4
<1>6. CASE NothingLeft(u) \/ Insert(u)
  <2>1. Attempt = "working" /\ Attempt' = "ok"
    BY <1>1, <1>6, <1>a, <1>b DEF NothingLeft, Insert, Resting
  <2>2. Complete
    <3>1. CASE NothingLeft(u)
      <4>1. start[u] >= Size[body] /\ pc[u] \in {"head", "open"}
        BY <3>1 DEF NothingLeft
      <4>2. start[u] = Len(file) /\ body = FirstBody
        BY <1>1, <4>1, Zenon DEF Resumable
      <4>3. Len(file) = Size[FirstBody] /\ Len(file) # 0
        BY <1>b, <4>1, <4>2, DownloadAssumption DEF Resumable, OnDisk
      <4> QED BY <4>3 DEF Resumable, OnDisk, Complete
    <3>2. CASE Insert(u)
      BY <1>1, <3>2 DEF Insert, Resumable
    <3> QED BY <1>6, <3>1, <3>2
  <2>3. Whole /\ Whole' = Whole
    BY <1>6, <1>d, <2>2, CompleteIsWhole DEF NothingLeft, Insert
  <2>4. (recorded # 0)' \in {recorded # 0, TRUE}
    <3>1. CASE NothingLeft(u)
      BY <3>1 DEF NothingLeft
    <3>2. CASE Insert(u)
      <4>1. recorded' = length[u] /\ pc[u] = "insert"
        BY <3>2 DEF Insert
      <4>2. length[u] = Size[FirstBody] /\ Size[FirstBody] # 0
        BY <1>1, <4>1, DownloadAssumption DEF Resumable
      <4> QED BY <4>1, <4>2
    <3> QED BY <1>6, <3>1, <3>2
  <2> QED BY <2>1, <2>3, <2>4 DEF Stage!OutcomeNext, Stage!Succeed
<1>7. CASE TimesOut(u) \/ Fails(u)
  <2>1. Attempt = "working" /\ Attempt' \in {"timeout", "error"}
    BY <1>1, <1>7, <1>a, <1>b DEF TimesOut, Fails, Resting
  <2>2. Whole' = Whole /\ (recorded # 0)' = (recorded # 0)
    BY <1>7, <1>d DEF TimesOut, Fails
  <2> QED BY <2>1, <2>2 DEF Stage!OutcomeNext, Stage!GiveUp
<1>8. CASE Crash
  <2>1. Attempt' = "off"
    BY <1>1, <1>8, <1>a DEF Crash
  <2>2. Whole' = Whole /\ (recorded # 0)' = (recorded # 0)
    BY <1>8, <1>d DEF Crash
  <2> QED BY <2>1, <2>2 DEF Stage!OutcomeNext, Stage!Stop
<1>9. ~Replaced
  BY DEF Replaced, OneWriter, Typed, TypeOK
<1>10. CASE UNCHANGED vars
  BY <1>10, <1>a, <1>d DEF vars, Stage!outcome
<1>11. ASSUME NEW w \in Writers, Step(w) PROVE [Stage!OutcomeNext]_(Stage!outcome)
  BY <1>1, <1>2, <1>3, <1>4, <1>5, <1>6, <1>11 DEF Step
<1> QED BY <1>1, <1>7, <1>8, <1>9, <1>10, <1>11 DEF Next

\* A download resumed by one writer at a time is, to the processing stage, a
\* file that is whole or not and an attempt that ends well only if it is: what
\* TaskPipeline's Fetches, FindsWholeFile, TimesOut and DownloadFails assume.
THEOREM DownloadImplementsOutcome ==
    ASSUME OneWriter, Writers # {}
    PROVE  Spec => ImplementsOutcome
<1>1. Typed /\ Resumable /\ [Next]_vars => [Stage!OutcomeNext]_(Stage!outcome)
  BY OutcomeStep
<1> QED BY <1>1, OutcomeStart, ResumableInvariant, PTL
        DEF Spec, ImplementsOutcome, Stage!OutcomeSpec
=============================================================================
