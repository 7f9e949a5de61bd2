------------------------------ MODULE DumpStage ------------------------------
(***************************************************************************)
(* The daily database dump (engine/stage/db_download/mod.rs): download it  *)
(* with a processor of its own, ingest it in one transaction, remove the   *)
(* dumps of other days.  File and task are named after the day of the      *)
(* call; calls follow each other at any time.                              *)
(*                                                                         *)
(* A dump on disk is the sequence of the bodies its chunks are from: every *)
(* chunk is in its place (Download has the steps of an attempt), but a     *)
(* resumed file can be of several bodies.  An empty sequence is no file.   *)
(***************************************************************************)
EXTENDS TaskState, Sequences, FiniteSets

CONSTANTS
    Days,       \* at least three, used again for later days
    LastBody,   \* bound: what the server has under the url is 1, 2, ...
    Size,       \* number of chunks of each body
    Crates,
    Contents,   \* the crates each body lists with a version
    MaxTries,   \* max_retries_on_timeout, 80
    MaxFaults   \* bound: failed attempts, errors and restarts

Bodies == 1..LastBody

ASSUME DumpAssumption ==
    /\ Cardinality(Days) > 2
    /\ LastBody \in Nat \ {0}
    /\ Size \in [Bodies -> Nat \ {0}]
    /\ Contents \in [Bodies -> SUBSET Crates]
    /\ MaxTries \in Nat \ {0}
    /\ MaxFaults \in Nat

VARIABLES
    body,      \* what the server has
    day,       \* the local date
    dump,      \* the files in crates-io-db
    older,     \* are there files of days before those?
    task,      \* the task of each day
    fresh,     \* was it stored since startup_time?
    table,     \* the body each row of crates.io-crate is from, 0 without a row
    stage,     \* where `schedule` is
    today,     \* the day of the call
    proc,      \* where its processor is
    tries,     \* its try_count
    outcome,   \* the state it is going to store
    delivered, \* is the path in the channel of results?
    faults

tasks == <<task, fresh>>
call == <<stage, today>>
processor == <<proc, tries, outcome>>
files == <<dump, older>>
vars == <<body, day, files, tasks, table, call, processor, delivered, faults>>

Init ==
    /\ body = 1
    /\ day \in Days
    /\ dump = [d \in Days |-> <<>>] /\ older = FALSE
    /\ task = [d \in Days |-> NotStarted]
    /\ fresh = [d \in Days |-> FALSE]
    /\ table = [c \in Crates |-> 0]
    /\ stage = "off" /\ today = day
    /\ proc = "off" /\ tries = 0 /\ outcome = NotStarted
    /\ delivered = FALSE
    /\ faults = 0

-----------------------------------------------------------------------------
\* the dump is made anew
Replaced ==
    /\ body < LastBody
    /\ body' = body + 1
    /\ UNCHANGED <<day, files, tasks, table, call, processor, delivered, faults>>

\* midnight; the new day has no file and no task
NewDay ==
    /\ \E d \in Days \ {day} :
          /\ (stage # "off" \/ proc # "off") => d # today
          /\ day' = d
          /\ older' = (older \/ dump[d] # <<>>)
          /\ dump' = [dump EXCEPT ![d] = <<>>]
          /\ task' = [task EXCEPT ![d] = NotStarted]
          /\ fresh' = [fresh EXCEPT ![d] = FALSE]
    /\ UNCHANGED <<body, table, call, processor, delivered, faults>>

-----------------------------------------------------------------------------
\* can_be_started, or the task is complete: it is then run again
Startable(d) ==
    \/ task[d].kind \in {"NotStarted", "AttemptsWithFailure", "Complete"}
    \/ task[d].kind = "InProgress" /\ ~fresh[d]

\* schedule is called when the processor of the last call has ended; it sends
\* its only request and drops the sender, or has nothing to do but clean up
Schedule ==
    /\ stage = "off" /\ proc = "off"
    /\ today' = day
    /\ IF Startable(day)
       THEN stage' = "wait" /\ proc' = "request"
       ELSE stage' = "cleanup" /\ proc' = proc
    /\ tries' = 0
    /\ delivered' = FALSE
    /\ UNCHANGED <<body, day, files, tasks, table, outcome, faults>>

Receive ==
    /\ stage = "wait"
    /\ delivered
    /\ delivered' = FALSE
    /\ stage' = "ingest"
    /\ UNCHANGED <<body, day, files, tasks, table, today, processor, faults>>

\* the agent is gone, and the channel with it
NoResult ==
    /\ stage = "wait"
    /\ ~delivered /\ proc = "off"
    /\ stage' = "cleanup"
    /\ UNCHANGED <<body, day, files, tasks, table, today, processor, delivered, faults>>

\* The archive is decoded up to its end, whatever comes after it; a mixture of
\* bodies is damaged.
Holds(f, b) == Len(f) >= Size[b] /\ \A i \in 1..Size[b] : f[i] = b

\* A mutant of Ingest: any dump that is there will do.
IngestAny ==
    /\ stage = "ingest"
    /\ \E b \in Bodies, d \in Days :
          /\ Holds(dump[d], b)
          /\ table' = [c \in Crates |-> IF c \in Contents[b] THEN b ELSE table[c]]
    /\ stage' = "cleanup"
    /\ UNCHANGED <<body, day, files, tasks, today, processor, delivered, faults>>

\* A mutant of Ingest: it may commit a part of the crates.
IngestPartly ==
    /\ stage = "ingest"
    /\ \E b \in Bodies, part \in SUBSET Crates :
          /\ Holds(dump[today], b)
          /\ table' = [c \in Crates |-> IF c \in Contents[b] \cap part THEN b ELSE table[c]]
    /\ stage' = "cleanup"
    /\ UNCHANGED <<body, day, files, tasks, today, processor, delivered, faults>>

\* every crate of the dump replaces its row, no row is removed
Ingest ==
    /\ stage = "ingest"
    /\ \E b \in Bodies :
          /\ Holds(dump[today], b)
          /\ table' = [c \in Crates |-> IF c \in Contents[b] THEN b ELSE table[c]]
    /\ stage' = "cleanup"
    /\ UNCHANGED <<body, day, files, tasks, today, processor, delivered, faults>>

\* an error ends the call before the cleanup
IngestDamaged ==
    /\ stage = "ingest"
    /\ \A b \in Bodies : ~Holds(dump[today], b)
    /\ stage' = "off"
    /\ UNCHANGED <<body, day, files, tasks, table, today, processor, delivered, faults>>

\* A mutant of Cleanup: it goes by the date there is when it runs.
CleanupByDate ==
    /\ stage = "cleanup"
    /\ dump' = [d \in Days |-> IF d = day THEN dump[d] ELSE <<>>]
    /\ older' = FALSE
    /\ stage' = "off"
    /\ UNCHANGED <<body, day, tasks, table, today, processor, delivered, faults>>

\* A mutant of Cleanup: the pattern matches nothing else.
CleanupNothing ==
    /\ stage = "cleanup"
    /\ stage' = "off"
    /\ UNCHANGED <<body, day, files, tasks, table, today, processor, delivered, faults>>

\* all dumps but the one of the call
Cleanup ==
    /\ stage = "cleanup"
    /\ dump' = [d \in Days |-> IF d = today THEN dump[d] ELSE <<>>]
    /\ older' = FALSE
    /\ stage' = "off"
    /\ UNCHANGED <<body, day, tasks, table, today, processor, delivered, faults>>

Call == Schedule \/ Receive \/ NoResult \/ Ingest \/ IngestDamaged \/ Cleanup

-----------------------------------------------------------------------------
\* the attempt is marked; a task that is there keeps the time it was stored at
Mark ==
    /\ proc = "request"
    /\ task' = [task EXCEPT ![today] = Merge(@, InProgress(0))]
    /\ fresh' = [fresh EXCEPT ![today] = @ \/ task[today] = NotStarted]
    /\ tries' = tries + 1
    /\ proc' = "work"
    /\ UNCHANGED <<body, day, files, table, call, outcome, delivered, faults>>

\* the first n chunks that the server sends when asked for the rest of a file
Append_(f, n) == f \o [i \in 1..n |-> body]
Missing(f) == IF Len(f) < Size[body] THEN Size[body] - Len(f) ELSE 0

\* A mutant of Arrives: the file is not named after the day.
ArrivesInOneFile ==
    /\ proc = "work"
    /\ LET f == dump[CHOOSE d \in Days : TRUE]
       IN  dump' = [d \in Days |-> Append_(f, Missing(f))]
    /\ outcome' = Complete
    /\ proc' = "deliver"
    /\ UNCHANGED <<body, day, older, tasks, table, call, tries, delivered, faults>>

\* the file is as long as the body, or was already (416)
Arrives ==
    /\ proc = "work"
    /\ dump' = [dump EXCEPT ![today] = Append_(@, Missing(@))]
    /\ outcome' = Complete
    /\ proc' = "deliver"
    /\ UNCHANGED <<body, day, older, tasks, table, call, tries, delivered, faults>>

\* the path is sent to `schedule` before the task is stored as complete
Deliver ==
    /\ proc = "deliver"
    /\ delivered' = (stage = "wait")
    /\ proc' = "store"
    /\ UNCHANGED <<body, day, files, tasks, table, call, tries, outcome, faults>>

\* the only request is done, the processor ends
Store ==
    /\ proc = "store"
    /\ task' = [task EXCEPT ![today] = Merge(@, outcome)]
    /\ fresh' = [fresh EXCEPT ![today] = TRUE]
    /\ proc' = "off"
    /\ UNCHANGED <<body, day, files, table, call, tries, outcome, delivered, faults>>

Process == Mark \/ Arrives \/ Deliver \/ Store

-----------------------------------------------------------------------------
Fault == faults < MaxFaults /\ faults' = faults + 1

\* part of the rest arrives, or nothing; after a timeout the attempt is repeated
BreaksOff ==
    /\ Fault
    /\ proc = "work"
    /\ \E n \in 0..Missing(dump[today]) : dump' = [dump EXCEPT ![today] = Append_(@, n)]
    /\ \/ tries < MaxTries /\ proc' = "request" /\ outcome' = outcome
       \/ proc' = "store" /\ outcome' = AttemptsWithFailure(1)
    /\ UNCHANGED <<body, day, older, tasks, table, call, tries, delivered>>

\* the table cannot be opened or written, which ends the processor
ProcessorFails ==
    /\ Fault
    /\ proc \in {"request", "store"}
    /\ proc' = "off"
    /\ UNCHANGED <<body, day, files, tasks, table, call, tries, outcome, delivered>>

\* the table cannot be read, ingestion fails, or a file cannot be removed
CallFails ==
    /\ Fault
    /\ stage \in {"ingest", "cleanup"}
    /\ \E kept \in SUBSET Days :
          /\ stage = "cleanup" => today \in kept
          /\ stage = "ingest" => kept = Days
          /\ dump' = [d \in Days |-> IF d \in kept THEN dump[d] ELSE <<>>]
    /\ stage' = "off"
    /\ UNCHANGED <<body, day, older, tasks, table, today, processor, delivered>>

\* the program is stopped and started again
Crash ==
    /\ Fault
    /\ stage' = "off" /\ proc' = "off" /\ delivered' = FALSE
    /\ fresh' = [d \in Days |-> FALSE]
    /\ UNCHANGED <<body, day, files, task, table, today, tries, outcome>>

Next ==
    \/ Replaced \/ NewDay
    \/ Call
    \/ Process
    \/ BreaksOff \/ ProcessorFails \/ CallFails \/ Crash

Spec == Init /\ [][Next]_vars
FairSpec == Spec /\ WF_vars(Call) /\ WF_vars(Process) /\ WF_vars(NewDay)

-----------------------------------------------------------------------------
\* Every variable keeps its type.
TypeOK ==
    /\ body \in Bodies /\ day \in Days /\ today \in Days
    /\ dump \in [Days -> Seq(Bodies)] /\ older \in BOOLEAN
    /\ task \in [Days -> TaskStates]
    /\ fresh \in [Days -> BOOLEAN]
    /\ table \in [Crates -> 0..LastBody]
    /\ stage \in {"off", "wait", "ingest", "cleanup"}
    /\ proc \in {"off", "request", "work", "deliver", "store"}
    /\ tries \in 0..MaxTries
    /\ outcome \in TaskStates
    /\ delivered \in BOOLEAN
    /\ faults \in 0..MaxFaults

\* A row of the table is never replaced by that of an earlier dump, though the
\* ingestion is repeated and files of several days can be on disk.
RowsNeverGoBack == [][\A c \in Crates : table[c] <= table'[c]]_vars

\* What was downloaded of a day's dump is kept for a repeated call of that day:
\* neither a later attempt nor the cleanup of an overlapping day takes it away.
DumpOnlyGrows ==
    [][\A d \in {day, today} \ ({day'} \ {day}) :
          /\ Len(dump[d]) <= Len(dump'[d])
          /\ \A i \in 1..Len(dump[d]) : dump'[d][i] = dump[d][i]]_vars

\* When a row of a crate is there, the ingestion it is from was of a dump that
\* was whole: the crates of one body came in together.
TableIsWhole ==
    \A b \in Bodies : \A c \in Contents[b] :
        (\E e \in Crates : table[e] = b) => table[c] >= b

\* Dumps of earlier days do not stay on disk, though a call that fails leaves
\* before it cleans up.
OldDumpsGo == older ~> ~older

\* Whatever was broken off, mixed up or skipped before: when the server keeps
\* its dump and faults cease, its crates get into the table.
EventuallyIngested ==
    \A b \in Bodies :
        <>[](body = b) => <>[](\A c \in Contents[b] : table[c] = b)
=============================================================================
