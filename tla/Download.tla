------------------------------ MODULE Download ------------------------------
(***************************************************************************)
(* Downloads into one file (iobound.rs `download_file_and_store_result`):  *)
(* look at what is on disk, ask the server for the rest, write chunk after *)
(* chunk, record the result.  Attempts follow each other in any number,    *)
(* after a timeout, an error, a restart, or a success (TaskPipeline says   *)
(* when); two Writers are attempts of two processors at the same file.     *)
(*                                                                         *)
(* Bytes are counted in chunks.  write_all hands a chunk to a background   *)
(* thread and flush waits for it; a writer that is dropped with chunks on  *)
(* their way is one that received fewer, so that receiving a chunk and     *)
(* writing it are one step here.                                           *)
(***************************************************************************)
EXTENDS Naturals, Sequences

CONSTANTS
    Writers,      \* processors that may work on the file
    Bodies,       \* what the server has under the url, one after the other
    FirstBody,    \* the one it has at first
    Size,         \* number of chunks of each body
    Resumes,      \* does the server honour the RANGE header?
    MaxFaults,    \* bound: timeouts, errors and restarts
    Hole          \* what a file has where nobody wrote

ASSUME DownloadAssumption ==
    /\ FirstBody \in Bodies
    /\ Size \in [Bodies -> Nat \ {0}]
    /\ Resumes \in BOOLEAN
    /\ MaxFaults \in Nat

VARIABLES
    body,      \* what the server has now
    exists,    \* is there a file?
    file,      \* its chunks
    recorded,  \* content_length of the stored result, 0 without one
    pc,        \* where each attempt is
    start,     \* start_byte of each attempt
    truncate,  \* was there no file when it looked?
    stream,    \* chunks of its response that are still to come
    length,    \* its content_length
    faults     \* how often the bounded faults have happened

disk == <<exists, file>>
attempts == <<pc, start, truncate, stream, length>>
vars == <<body, disk, recorded, attempts, faults>>

Chunk(b, i) == <<b, i>>
Body(b) == [i \in 1..Size[b] |-> Chunk(b, i)]

\* "idle" before the first attempt and after a restart, "stat" after
\* create_dir_all, "head" before the response, "open" with it, "body" while
\* chunks are written, "insert" before the result is stored; the last three
\* are the ends of an attempt
States == {"idle", "stat", "head", "open", "body", "insert", "ok", "timeout", "error"}
Resting == {"idle", "ok", "timeout", "error"}

Init ==
    /\ body = FirstBody
    /\ exists = FALSE
    /\ file = <<>>
    /\ recorded = 0
    /\ pc = [w \in Writers |-> "idle"]
    /\ start = [w \in Writers |-> 0]
    /\ truncate = [w \in Writers |-> FALSE]
    /\ stream = [w \in Writers |-> <<>>]
    /\ length = [w \in Writers |-> 0]
    /\ faults = 0

-----------------------------------------------------------------------------
\* Agent::process is called, the directory is there
Begin(w) ==
    /\ pc[w] \in Resting
    /\ pc' = [pc EXCEPT ![w] = "stat"]
    /\ stream' = [stream EXCEPT ![w] = <<>>]
    /\ UNCHANGED <<body, disk, recorded, start, truncate, length, faults>>

\* A mutant of Stat: a partial file is started over.
StatIgnoresPartial(w) ==
    /\ pc[w] = "stat"
    /\ start' = [start EXCEPT ![w] = 0]
    /\ truncate' = [truncate EXCEPT ![w] = TRUE]
    /\ pc' = [pc EXCEPT ![w] = "head"]
    /\ UNCHANGED <<body, disk, recorded, stream, length, faults>>

\* metadata(out_file)
Stat(w) ==
    /\ pc[w] = "stat"
    /\ start' = [start EXCEPT ![w] = IF exists THEN Len(file) ELSE 0]
    /\ truncate' = [truncate EXCEPT ![w] = ~exists]
    /\ pc' = [pc EXCEPT ![w] = "head"]
    /\ UNCHANGED <<body, disk, recorded, stream, length, faults>>

\* A mutant of Rest: the range begins one byte late.
RestFromNext(w) == SubSeq(Body(body), start[w] + 2, Size[body])

\* what the server sends in response to RANGE: bytes=start-
Rest(w) ==
    IF Resumes THEN SubSeq(Body(body), start[w] + 1, Size[body]) ELSE Body(body)

\* A mutant of Respond: content_length leaves out what was there before.
RespondWithRest(w) ==
    /\ pc[w] = "head"
    /\ start[w] < Size[body] \/ ~Resumes
    /\ stream' = [stream EXCEPT ![w] = Rest(w)]
    /\ length' = [length EXCEPT ![w] = Len(Rest(w))]
    /\ pc' = [pc EXCEPT ![w] = "open"]
    /\ UNCHANGED <<body, disk, recorded, start, truncate, faults>>

\* a status of 200..299 with a content-length
Respond(w) ==
    /\ pc[w] = "head"
    /\ start[w] < Size[body] \/ ~Resumes
    /\ stream' = [stream EXCEPT ![w] = Rest(w)]
    /\ length' = [length EXCEPT ![w] = start[w] + Len(Rest(w))]
    /\ pc' = [pc EXCEPT ![w] = "open"]
    /\ UNCHANGED <<body, disk, recorded, start, truncate, faults>>

\* nothing is left: 416, the attempt is over
NothingLeft(w) ==
    /\ pc[w] = "head"
    /\ start[w] >= Size[body] /\ Resumes
    /\ pc' = [pc EXCEPT ![w] = "ok"]
    /\ UNCHANGED <<body, disk, recorded, start, truncate, stream, length, faults>>

\* the file is created and truncated only if there was none, else appended to
Open(w) ==
    /\ pc[w] = "open"
    /\ exists' = TRUE
    /\ file' = IF truncate[w] THEN <<>> ELSE file
    /\ pc' = [pc EXCEPT ![w] = "body"]
    /\ UNCHANGED <<body, recorded, start, truncate, stream, length, faults>>

\* A mutant of Position: a resumed file is written from its beginning.
PositionFromStart(w) == length[w] - start[w] - Len(stream[w]) + 1

\* where the next chunk goes: at the end of a file that was opened to append,
\* after what it wrote before in a file that was opened to write
Position(w) ==
    IF truncate[w] THEN length[w] - Len(stream[w]) + 1 ELSE Len(file) + 1

MaxOf(a, b) == IF a >= b THEN a ELSE b

Written(f, at, chunk) ==
    [i \in 1..MaxOf(Len(f), at) |->
        IF i = at THEN chunk ELSE IF i <= Len(f) THEN f[i] ELSE Hole]

Receive(w) ==
    /\ pc[w] = "body"
    /\ stream[w] # <<>>
    /\ file' = Written(file, Position(w), Head(stream[w]))
    /\ stream' = [stream EXCEPT ![w] = Tail(stream[w])]
    /\ UNCHANGED <<body, exists, recorded, pc, start, truncate, length, faults>>

\* the end of the body
Flush(w) ==
    /\ pc[w] = "body"
    /\ stream[w] = <<>>
    /\ pc' = [pc EXCEPT ![w] = "insert"]
    /\ UNCHANGED <<body, disk, recorded, start, truncate, stream, length, faults>>

\* results.insert with content_length
Insert(w) ==
    /\ pc[w] = "insert"
    /\ recorded' = length[w]
    /\ pc' = [pc EXCEPT ![w] = "ok"]
    /\ UNCHANGED <<body, disk, start, truncate, stream, length, faults>>

Step(w) ==
    \/ Begin(w)
    \/ Stat(w)
    \/ Respond(w)
    \/ NothingLeft(w)
    \/ Open(w)
    \/ Receive(w)
    \/ Flush(w)
    \/ Insert(w)

-----------------------------------------------------------------------------
Fault ==
    /\ faults < MaxFaults
    /\ faults' = faults + 1

\* 15 seconds without a response, 10 seconds without a chunk
TimesOut(w) ==
    /\ Fault
    /\ pc[w] \in {"head", "body"}
    /\ pc' = [pc EXCEPT ![w] = "timeout"]
    /\ UNCHANGED <<body, disk, recorded, start, truncate, stream, length>>

\* create_dir_all, another status, no content-length, open, a broken
\* connection, write_all, flush, or the insertion fails
Fails(w) ==
    /\ Fault
    /\ pc[w] \notin Resting
    /\ pc' = [pc EXCEPT ![w] = "error"]
    /\ UNCHANGED <<body, disk, recorded, start, truncate, stream, length>>

\* The program is killed and started again
Crash ==
    /\ Fault
    /\ pc' = [w \in Writers |-> "idle"]
    /\ UNCHANGED <<body, disk, recorded, start, truncate, stream, length>>

\* the server has something else under the same url
Replaced ==
    /\ \E b \in Bodies \ {body} : body' = b
    /\ UNCHANGED <<disk, recorded, attempts, faults>>

Next ==
    \/ \E w \in Writers : Step(w) \/ TimesOut(w) \/ Fails(w)
    \/ Crash
    \/ Replaced

Spec == Init /\ [][Next]_vars
FairSpec == Spec /\ \A w \in Writers : WF_vars(Step(w))

-----------------------------------------------------------------------------
Chunks == {Hole} \cup (Bodies \X Nat)

\* Every variable keeps its type.
TypeOK ==
    /\ body \in Bodies
    /\ exists \in BOOLEAN
    /\ file \in Seq(Chunks)
    /\ recorded \in Nat
    /\ pc \in [Writers -> States]
    /\ start \in [Writers -> Nat]
    /\ truncate \in [Writers -> BOOLEAN]
    /\ stream \in [Writers -> Seq(Chunks)]
    /\ length \in [Writers -> Nat]
    /\ faults \in 0..MaxFaults

\* However often it was interrupted and resumed, the file on disk begins like
\* a body the server has: no chunk is missing, doubled or out of place.
FileIsPrefix ==
    \E b \in Bodies :
        /\ Len(file) <= Size[b]
        /\ \A i \in 1..Len(file) : file[i] = Chunk(b, i)

\* When the body under the url changes, resumption still puts every chunk in
\* its place, though the chunks may be of different bodies.
InPlace == \A i \in 1..Len(file) : \E b \in Bodies : file[i] = Chunk(b, i)

Whole == \E b \in Bodies : file = Body(b)

\* An attempt that ends well leaves the whole body on disk, whether it wrote
\* the end of it or was told by status 416 that nothing is left.
OkIsWhole == \A w \in Writers : pc[w] = "ok" => Whole

\* The content length in the result table is the length of the file.
ResultMatchesFile == recorded # 0 => Whole /\ recorded = Len(file)

\* What was downloaded is never downloaded again: the file only grows, and
\* what is in it is not written over.
NothingIsRepeated ==
    [][/\ Len(file') >= Len(file)
       /\ \A i \in 1..Len(file) : file'[i] = file[i]]_vars

\* Why resumption works, for one writer and one body: at each point of an
\* attempt, what is on disk and what is still to come make up the body.
OnDisk == /\ Len(file) <= Size[FirstBody]
          /\ \A i \in 1..Len(file) : file[i] = Chunk(FirstBody, i)
          /\ ~exists => file = <<>>

ToCome(w) == /\ length[w] = Size[FirstBody]
             /\ Len(stream[w]) = Size[FirstBody] - Len(file)
             /\ \A i \in 1..Len(stream[w]) :
                   stream[w][i] = Chunk(FirstBody, Len(file) + i)

Complete == exists /\ Len(file) = Size[FirstBody]

Resumable ==
    /\ body = FirstBody
    /\ OnDisk
    /\ recorded # 0 => Complete /\ recorded = Size[FirstBody]
    /\ \A w \in Writers :
          /\ pc[w] \in {"head", "open"} =>
                start[w] = Len(file) /\ truncate[w] = ~exists
          /\ pc[w] \in {"open", "body"} => ToCome(w)
          /\ pc[w] = "body" => exists
          /\ pc[w] = "insert" => length[w] = Size[FirstBody]
          /\ pc[w] \in {"insert", "ok"} => Complete

\* Why the chunks stay in their places, for one writer, while the body may
\* change: what is still to come continues what is on disk.
Aligned ==
    /\ InPlace
    /\ ~exists => file = <<>>
    /\ \A w \in Writers :
          /\ pc[w] \in {"head", "open"} =>
                start[w] = Len(file) /\ truncate[w] = ~exists
          /\ pc[w] \in {"open", "body"} =>
                /\ length[w] = Len(file) + Len(stream[w])
                /\ \A i \in 1..Len(stream[w]) :
                      \E b \in Bodies : stream[w][i] = Chunk(b, Len(file) + i)
          /\ pc[w] = "body" => exists

\* When faults cease, the file becomes whole.
EventuallyWhole == <>[]Whole

\* One file with one writer at a time is what the processing stage takes it for.
TheWriter == CHOOSE w \in Writers : TRUE
Attempt == CASE pc[TheWriter] = "idle"  -> "off"
             [] pc[TheWriter] \in Resting \ {"idle"} -> pc[TheWriter]
             [] OTHER                 -> "working"
Stage == INSTANCE FileOutcome WITH
    whole <- Whole, recorded <- recorded # 0, attempt <- Attempt

ImplementsOutcome == Stage!OutcomeSpec
=============================================================================
