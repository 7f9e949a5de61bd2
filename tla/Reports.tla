------------------------------- MODULE Reports -------------------------------
(***************************************************************************)
(* The report stage (engine/stage/report/mod.rs, engine/report/generic.rs) *)
(* with its incremental cache: a loop cuts the crate table into chunks,    *)
(* processors turn each into a report, an aggregator merges those into the *)
(* top-level report.  What has been reported is marked as done and only    *)
(* added to the states that are kept on disk, per crate and for all.       *)
(*                                                                         *)
(* A report is the number of times each version was counted in it; merging *)
(* adds.  The channel of results is left out: its receiver does nothing    *)
(* but receive, and what it has received only matters as a sum.            *)
(*                                                                         *)
(* A round that is left early leaves its processors behind: they finish    *)
(* their chunks beside the next rounds.  Nothing locks the states on disk. *)
(***************************************************************************)
EXTENDS Naturals, Sequences, FiniteSets

CONSTANTS
    Crates,      \* numbers, in the order of the crates' keys
    Versions,    \* pairs of a crate and a number, in the order of versions
    Yankable,    \* bound: versions that may be yanked and unyanked
    Workers,     \* processors, those that earlier rounds have left behind too
    ChunkSize,   \* 500
    MaxFaults    \* bound: errors, deadlines and restarts

ASSUME ReportsAssumption ==
    /\ Crates \subseteq Nat /\ IsFiniteSet(Crates)
    /\ Versions \subseteq Crates \X Nat /\ IsFiniteSet(Versions)
    /\ Yankable \subseteq Versions
    /\ ChunkSize \in Nat \ {0}
    /\ MaxFaults \in Nat

VARIABLES
    listed,    \* the crate table; each fetch stores all of it in key order
    results,   \* versions with a result of their extraction
    yanked,    \* versions that are yanked
    marked,    \* table report_done
    cache,     \* the state of each crate on disk
    top,       \* the top-level state on disk
    phase,     \* where the loop is: "off", "load", "send", "end", then where
               \* the aggregator is: "store", "write"
    fetched,   \* fetched_crates
    size,      \* chunk_size
    chunk,     \* the chunk it holds
    last,      \* abort_loop
    queue,     \* the channel to the processors
    agg,       \* what the aggregator has merged
    before,    \* the state it has loaded
    pc,        \* where each processor is
    todo,      \* the crates of its chunk that it has not looked at
    new,       \* versions of its crate that are to be added
    previous,  \* the state of the crate it has loaded
    report,    \* its chunk_report
    done,      \* its reports_to_mark_done
    late,      \* processors that an earlier round has left behind
    rest,      \* the chunk such a one will find in its channel
    shifted,   \* was a crate ever added while a round was on?
    single,    \* was the report of one crate ever taken for the top-level one?
    torn,      \* history: crates whose state was lost, by a write that was cut
               \* off or by one that did not know of what it replaced
    faults

world == <<listed, results, yanked>>
disk == <<marked, cache, top>>
loop == <<phase, fetched, size, chunk, last>>
worker == <<pc, todo, new, previous, report, done, late, rest>>
vars == <<world, disk, loop, queue, agg, before, worker, shifted, single, torn, faults>>

Report == [Versions -> Nat]
Nobody == [v \in Versions |-> 0]
Once(s) == [v \in Versions |-> IF v \in s THEN 1 ELSE 0]
MergeReports(a, b) == [v \in Versions |-> a[v] + b[v]]
CratesOf(r) == {v[1] : v \in {w \in Versions : r[w] > 0}}

Init ==
    /\ listed = {} /\ results = {} /\ yanked = {}
    /\ marked = {}
    /\ cache = [c \in Crates |-> Nobody]
    /\ top = Nobody
    /\ phase = "off" /\ fetched = 0 /\ size = 0 /\ chunk = {} /\ last = FALSE
    /\ queue = <<>> /\ agg = Nobody /\ before = Nobody
    /\ pc = [w \in Workers |-> "idle"]
    /\ todo = [w \in Workers |-> {}]
    /\ new = [w \in Workers |-> {}]
    /\ previous = [w \in Workers |-> Nobody]
    /\ report = [w \in Workers |-> Nobody]
    /\ done = [w \in Workers |-> {}]
    /\ late = {} /\ rest = [w \in Workers |-> {}]
    /\ shifted = FALSE /\ single = FALSE /\ torn = {} /\ faults = 0

-----------------------------------------------------------------------------
\* The fetch stage adds a crate, which moves the later ones by one row.
AddCrate ==
    /\ \E c \in Crates \ listed : listed' = listed \cup {c}
    /\ shifted' = (shifted \/ phase # "off")
    /\ UNCHANGED <<results, yanked, disk, loop, queue, agg, before, worker, single, torn, faults>>

\* The processing stage extracts a version.
AddResult ==
    /\ \E v \in Versions \ results : v[1] \in listed /\ results' = results \cup {v}
    /\ UNCHANGED <<listed, yanked, disk, loop, queue, agg, before, worker, shifted, single, torn, faults>>

\* A version is yanked or unyanked.
Yank ==
    /\ \E v \in Yankable : yanked' = IF v \in yanked THEN yanked \ {v} ELSE yanked \cup {v}
    /\ UNCHANGED <<listed, results, disk, loop, queue, agg, before, worker, shifted, single, torn, faults>>

-----------------------------------------------------------------------------
\* The stage is called; a small table is a single chunk.  A processor that was
\* left behind and has ended is a new one that begins as late.
StartRound ==
    /\ phase = "off"
    /\ listed # {}
    /\ phase' = "load"
    /\ fetched' = 0
    /\ size' = IF ChunkSize <= Cardinality(listed) THEN ChunkSize ELSE Cardinality(listed)
    /\ UNCHANGED <<world, disk, chunk, last, queue, agg, before, worker, shifted, single, torn, faults>>

Before(c) == Cardinality({d \in listed : d < c})

Rows(from, n) == {c \in listed : from <= Before(c) /\ Before(c) < from + n}

\* A mutant of LoadChunk: it takes the first crate of the next chunk along.
LoadChunkOverlapping ==
    /\ phase = "load"
    /\ chunk' = Rows(fetched, size + 1)
    /\ fetched' = fetched + size
    /\ last' = (Cardinality(chunk') < size)
    /\ phase' = "send"
    /\ UNCHANGED <<world, disk, size, queue, agg, before, worker, shifted, single, torn, faults>>

\* A mutant of LoadChunk: the last chunk is counted instead of all.
LoadChunkRepeatedly ==
    /\ phase = "load"
    /\ chunk' = Rows(fetched, size)
    /\ fetched' = Cardinality(chunk')
    /\ last' = (Cardinality(chunk') # size)
    /\ phase' = "send"
    /\ UNCHANGED <<world, disk, size, queue, agg, before, worker, shifted, single, torn, faults>>

LoadChunk ==
    /\ phase = "load"
    /\ chunk' = Rows(fetched, size)
    /\ fetched' = fetched + Cardinality(chunk')
    /\ last' = (Cardinality(chunk') # size)
    /\ phase' = "send"
    /\ UNCHANGED <<world, disk, size, queue, agg, before, worker, shifted, single, torn, faults>>

\* the variables of the loop go out of scope
LeaveLoop == fetched' = 0 /\ size' = 0 /\ last' = FALSE /\ chunk' = {}

SendChunk ==
    /\ phase = "send"
    /\ queue = <<>>
    /\ queue' = <<chunk>>
    /\ IF last THEN phase' = "end" /\ LeaveLoop
               ELSE phase' = "load" /\ chunk' = {} /\ UNCHANGED <<fetched, size, last>>
    /\ UNCHANGED <<world, disk, agg, before, worker, shifted, single, torn, faults>>

-----------------------------------------------------------------------------
\* A processor receives a chunk, write_files begins.  One that was left behind
\* receives what is in the channel of its round.
TakeChunk(w) ==
    /\ pc[w] = "idle"
    /\ IF w \in late
       THEN /\ todo' = [todo EXCEPT ![w] = rest[w]]
            /\ rest' = [rest EXCEPT ![w] = {}]
            /\ UNCHANGED queue
       ELSE /\ queue # <<>>
            /\ todo' = [todo EXCEPT ![w] = Head(queue)]
            /\ queue' = Tail(queue)
            /\ UNCHANGED rest
    /\ pc' = [pc EXCEPT ![w] = "crate"]
    /\ UNCHANGED <<world, disk, loop, agg, before, new, previous, report, done, late, shifted, single, torn, faults>>

Current(w) == CHOOSE c \in todo[w] : \A d \in todo[w] : c <= d

\* versions up to the latest that is not yanked (all_but_recently_yanked)
AllButRecentlyYanked(c) ==
    {v \in Versions : v[1] = c /\ \E u \in Versions \ yanked : u[1] = c /\ u[2] >= v[2]}

\* A mutant of ToReport: a crate is done once one of its versions is.
ToReportOnce(c) ==
    {v \in AllButRecentlyYanked(c) \cap results : \A u \in marked : u[1] # c}

\* those that have a result and are not done
ToReport(c) == (AllButRecentlyYanked(c) \cap results) \ marked

\* the versions of a crate are looked at and their reports written
Inspect(w) ==
    /\ pc[w] = "crate"
    /\ todo[w] # {}
    /\ new' = [new EXCEPT ![w] = ToReport(Current(w))]
    /\ IF new'[w] = {}
       THEN /\ todo' = [todo EXCEPT ![w] = @ \ {Current(w)}]
            /\ pc' = pc
       ELSE /\ todo' = todo
            /\ pc' = [pc EXCEPT ![w] = "previous"]
    /\ UNCHANGED <<world, disk, loop, queue, agg, before, previous, report, done, late, rest, shifted, single, torn, faults>>

\* load_previous_state
LoadPrevious(w) ==
    /\ pc[w] = "previous"
    /\ previous' = [previous EXCEPT ![w] = cache[Current(w)]]
    /\ pc' = [pc EXCEPT ![w] = "store"]
    /\ UNCHANGED <<world, disk, loop, queue, agg, before, todo, new, report, done, late, rest, shifted, single, torn, faults>>

\* store_current_state opens the file, which empties it: it reads as no state
TruncateState(w) ==
    /\ pc[w] = "store"
    /\ LET c == Current(w)
       IN  /\ torn' = IF cache[c] = previous[w] THEN torn ELSE torn \cup {c}
           /\ cache' = [cache EXCEPT ![c] = Nobody]
    /\ pc' = [pc EXCEPT ![w] = "write"]
    /\ UNCHANGED <<world, marked, top, loop, queue, agg, before, todo, new, previous, report, done, late, rest, shifted, single, faults>>

\* A mutant of Absolute: the previous state is not merged.
AbsoluteAnew(w) == Once(new[w])

\* what it writes
Absolute(w) == MergeReports(previous[w], Once(new[w]))

\* then it writes the state, and the next crate begins
StoreState(w) ==
    /\ pc[w] = "write"
    /\ LET c == Current(w)
       IN  /\ torn' = IF cache[c] = Nobody THEN torn ELSE torn \cup {c}
           /\ cache' = [cache EXCEPT ![c] = Absolute(w)]
    /\ report' = [report EXCEPT ![w] = MergeReports(@, Once(new[w]))]
    /\ done' = [done EXCEPT ![w] = @ \cup new[w]]
    /\ todo' = [todo EXCEPT ![w] = @ \ {Current(w)}]
    /\ new' = [new EXCEPT ![w] = {}]
    /\ previous' = [previous EXCEPT ![w] = Nobody]
    /\ pc' = [pc EXCEPT ![w] = "crate"]
    /\ UNCHANGED <<world, marked, top, loop, queue, agg, before, late, rest, shifted, single, faults>>

\* the transaction of the done markers
MarkDone(w) ==
    /\ pc[w] = "crate"
    /\ todo[w] = {}
    /\ marked' = marked \cup done[w]
    /\ done' = [done EXCEPT ![w] = {}]
    /\ pc' = [pc EXCEPT ![w] = "send"]
    /\ UNCHANGED <<world, cache, top, loop, queue, agg, before, todo, new, previous, report, late, rest, shifted, single, torn, faults>>

\* The report goes to the aggregator.  That of the round of a processor that
\* was left behind is gone; the processor ends, or finds one more chunk.
SendReport(w) ==
    /\ pc[w] = "send"
    /\ agg' = IF w \in late THEN agg ELSE MergeReports(agg, report[w])
    /\ late' = IF rest[w] = {} THEN late \ {w} ELSE late
    /\ report' = [report EXCEPT ![w] = Nobody]
    /\ pc' = [pc EXCEPT ![w] = "idle"]
    /\ UNCHANGED <<world, disk, loop, queue, before, todo, new, previous, done, rest, shifted, single, torn, faults>>

-----------------------------------------------------------------------------
\* all processors of the round are gone and so is what they could send
AllReceived == phase = "end" /\ queue = <<>> /\ \A w \in Workers \ late : pc[w] = "idle"

OneCrate(r) == Cardinality(CratesOf(r)) = 1
TheCrate(r) == CHOOSE c \in CratesOf(r) : TRUE

\* The previous state is loaded and merged.  The report of one crate is loaded
\* from, and stored to, where the state of that crate is.
MergeTopLevel ==
    /\ AllReceived
    /\ IF agg = Nobody
       THEN phase' = "off" /\ UNCHANGED <<agg, before>>
       ELSE /\ before' = IF top # Nobody THEN top
                         ELSE IF OneCrate(agg) THEN cache[TheCrate(agg)] ELSE Nobody
            /\ agg' = MergeReports(before', agg)
            /\ phase' = "store"
    /\ UNCHANGED <<world, disk, fetched, size, chunk, last, queue, worker, shifted, single, torn, faults>>

\* store_current_state opens the file, which empties it
TruncateTopLevel ==
    /\ phase = "store"
    /\ IF OneCrate(agg)
       THEN LET c == TheCrate(agg)
            IN  /\ torn' = IF cache[c] = before THEN torn ELSE torn \cup {c}
                /\ cache' = [cache EXCEPT ![c] = Nobody]
                /\ UNCHANGED top
       ELSE top' = Nobody /\ UNCHANGED <<cache, torn>>
    /\ phase' = "write"
    /\ UNCHANGED <<world, marked, fetched, size, chunk, last, queue, agg, before, worker, shifted, single, faults>>

\* and writes the state
StoreTopLevel ==
    /\ phase = "write"
    /\ IF OneCrate(agg)
       THEN LET c == TheCrate(agg)
            IN  /\ torn' = IF cache[c] = Nobody THEN torn ELSE torn \cup {c}
                /\ cache' = [cache EXCEPT ![c] = agg]
                /\ single' = TRUE
                /\ UNCHANGED top
       ELSE top' = agg /\ UNCHANGED <<cache, torn, single>>
    /\ phase' = "off"
    /\ agg' = Nobody /\ before' = Nobody
    /\ UNCHANGED <<world, marked, fetched, size, chunk, last, queue, worker, shifted, faults>>

Stage ==
    \/ StartRound
    \/ LoadChunk
    \/ SendChunk
    \/ MergeTopLevel
    \/ TruncateTopLevel
    \/ StoreTopLevel

Work(w) ==
    \/ TakeChunk(w)
    \/ Inspect(w)
    \/ LoadPrevious(w)
    \/ TruncateState(w)
    \/ StoreState(w)
    \/ MarkDone(w)
    \/ SendReport(w)

-----------------------------------------------------------------------------
Fault == faults < MaxFaults /\ faults' = faults + 1

\* The deadline has come or the table cannot be read: the loop is left, the
\* aggregator dropped with what it has.  The processors finish their chunks,
\* and one of them perhaps the chunk that is in the channel.
Abort ==
    /\ Fault
    /\ phase \in {"load", "send"}
    /\ phase' = "off"
    /\ LeaveLoop
    /\ queue' = <<>> /\ agg' = Nobody
    /\ LET busy == {w \in Workers : pc[w] # "idle"}
       IN  \/ late' = late \cup busy /\ UNCHANGED rest
           \/ \E w \in Workers \ late :
                 /\ queue # <<>>
                 /\ rest' = [rest EXCEPT ![w] = Head(queue)]
                 /\ late' = late \cup busy \cup {w}
    /\ UNCHANGED <<world, disk, before, pc, todo, new, previous, report, done, shifted, single, torn>>

\* An error ends write_files, after any number of crates, or in the middle of
\* a file.
ChunkFails(w) ==
    /\ Fault
    /\ pc[w] \in {"crate", "previous", "store", "write"}
    /\ torn' = IF pc[w] = "write" THEN torn \cup {Current(w)} ELSE torn
    /\ pc' = [pc EXCEPT ![w] = "send"]
    /\ todo' = [todo EXCEPT ![w] = {}]
    /\ new' = [new EXCEPT ![w] = {}]
    /\ previous' = [previous EXCEPT ![w] = Nobody]
    /\ report' = [report EXCEPT ![w] = Nobody]
    /\ done' = [done EXCEPT ![w] = {}]
    /\ UNCHANGED <<world, disk, loop, queue, agg, before, late, rest, shifted, single>>

\* the crate whose state the aggregator is about to write
Aggregated == IF phase = "write" /\ OneCrate(agg) THEN {TheCrate(agg)} ELSE {}

\* The top-level report cannot be written or its state not stored.
TopLevelFails ==
    /\ Fault
    /\ AllReceived \/ phase \in {"store", "write"}
    /\ torn' = torn \cup Aggregated
    /\ phase' = "off"
    /\ agg' = Nobody /\ before' = Nobody
    /\ UNCHANGED <<world, disk, fetched, size, chunk, last, queue, worker, shifted, single>>

\* The program is killed and started again.
Crash ==
    /\ Fault
    /\ torn' = torn \cup {Current(w) : w \in {u \in Workers : pc[u] = "write"}} \cup Aggregated
    /\ phase' = "off" /\ LeaveLoop
    /\ queue' = <<>> /\ agg' = Nobody /\ before' = Nobody
    /\ pc' = [w \in Workers |-> "idle"]
    /\ todo' = [w \in Workers |-> {}]
    /\ new' = [w \in Workers |-> {}]
    /\ previous' = [w \in Workers |-> Nobody]
    /\ report' = [w \in Workers |-> Nobody]
    /\ done' = [w \in Workers |-> {}]
    /\ late' = {} /\ rest' = [w \in Workers |-> {}]
    /\ UNCHANGED <<world, disk, shifted, single>>

Next ==
    \/ AddCrate \/ AddResult \/ Yank
    \/ Stage
    \/ \E w \in Workers : Work(w) \/ ChunkFails(w)
    \/ Abort \/ TopLevelFails \/ Crash

Spec == Init /\ [][Next]_vars
FairSpec == Spec /\ WF_vars(Stage) /\ \A w \in Workers : WF_vars(Work(w))

-----------------------------------------------------------------------------
\* Every variable keeps its type.
TypeOK ==
    /\ listed \subseteq Crates
    /\ results \subseteq Versions /\ yanked \subseteq Yankable /\ marked \subseteq Versions
    /\ cache \in [Crates -> Report] /\ top \in Report
    /\ phase \in {"off", "load", "send", "end", "store", "write"}
    /\ fetched \in Nat /\ size \in Nat /\ chunk \subseteq Crates /\ last \in BOOLEAN
    /\ queue \in Seq(SUBSET Crates) /\ agg \in Report /\ before \in Report
    /\ pc \in [Workers -> {"idle", "crate", "previous", "store", "write", "send"}]
    /\ todo \in [Workers -> SUBSET Crates]
    /\ new \in [Workers -> SUBSET Versions]
    /\ previous \in [Workers -> Report] /\ report \in [Workers -> Report]
    /\ done \in [Workers -> SUBSET Versions]
    /\ late \subseteq Workers /\ rest \in [Workers -> SUBSET Crates]
    /\ torn \subseteq Crates
    /\ shifted \in BOOLEAN /\ single \in BOOLEAN
    /\ faults \in 0..MaxFaults

\* A version that is marked as done, and will never be looked at again, is in
\* the state of its crate or about to be written to it, wherever a chunk was
\* broken off and whoever works beside it, unless the state itself was lost.
Writes(w, v) == pc[w] = "write" /\ Current(w) = v[1] /\ Absolute(w)[v] > 0
AggregatorWrites(v) == phase = "write" /\ Aggregated = {v[1]} /\ agg[v] > 0

MarkedIsCached == \A v \in marked :
    \/ v[1] \in torn
    \/ cache[v[1]][v] > 0
    \/ \E w \in Workers : Writes(w, v)
    \/ AggregatorWrites(v)

\* Between rounds that were not interrupted, both levels count the versions
\* that are marked exactly once: the incremental report is the full one.
Exact ==
    (phase = "off" /\ faults = 0 /\ ~shifted /\ ~single) =>
        /\ top = Once(marked)
        /\ \A c \in Crates, v \in Versions :
              cache[c][v] = IF v[1] = c /\ v \in marked THEN 1 ELSE 0

\* Between rounds, every version that is marked as done, and so will not be
\* reported again, is in the top-level report.
MarkedIsReported == (phase = "off" /\ ~single) => \A v \in marked : top[v] > 0

\* Every version that has a result and stays reportable is reported.
EventuallyReported ==
    \A v \in Versions :
        <>[](v \in AllButRecentlyYanked(v[1]) \cap results) => <>(v \in marked)

\* A round that has begun ends.
RoundsEnd == phase # "off" ~> phase = "off"
=============================================================================
