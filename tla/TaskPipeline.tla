---------------------------- MODULE TaskPipeline ----------------------------
(***************************************************************************)
(* The processing stage of criner: the scheduling loop of `process`, the   *)
(* download (io) and extraction (cpu) processors it spawns each round, the *)
(* channels between them and the persisted task table that decides what is *)
(* worked on after a restart.                                              *)
(*                                                                         *)
(* process() is run again and again (repeat_every_s).  A call, a "round",  *)
(* creates two channels and its own processors, walks the crate version    *)
(* table page by page, newest row first, and returns; the processors are   *)
(* detached and live on until they drained the channels of their round.    *)
(* Channels and processors of one round occupy a slot, so that Slots       *)
(* bounds how many rounds have processors at the same time.                *)
(***************************************************************************)
EXTENDS Naturals, Sequences, FiniteSets, TaskState

CONSTANTS
    Versions,        \* crate versions the index can announce
    Slots,           \* rounds whose processors may be alive together
    IoWorkers,       \* download processors, of all slots
    CpuWorkers,      \* extraction processors, of all slots
    SlotOf,          \* the slot of each processor
    PageSize,        \* rows the scheduler reads at once (10000 in the code)
    MaxAttempts,     \* MAX_ATTEMPTS_BEFORE_WE_GIVE_UP (8)
    MaxRetries,      \* max_retries_on_timeout of a download (40)
    MaxCrashes,      \* bound: restarts of the program
    MaxDbFailures,   \* bound: failing accesses to the task table
    MaxFaults,       \* bound: restarts and failing accesses together
    NoVersion        \* an empty channel, an idle processor

ASSUME PipelineAssumption ==
    /\ NoVersion \notin Versions
    /\ Slots # {}
    /\ IoWorkers \cap CpuWorkers = {}
    /\ SlotOf \in [IoWorkers \cup CpuWorkers -> Slots]
    /\ PageSize \in Nat \ {0}
    /\ MaxAttempts \in Nat \ {0}
    /\ MaxRetries \in Nat
    /\ MaxCrashes \in Nat
    /\ MaxDbFailures \in Nat
    /\ MaxFaults \in Nat

VARIABLES
    order,       \* rows of the crate_version table, the latest rowid first
    task,        \* the task table: state of each kind of task of each version
    fresh,       \* is a task's stored_at at or after the startup of this run?
    results,     \* keys of the result table
    fetched,     \* versions whose whole body a download has written to disk
    phase,       \* of the scheduling loop
    kind,        \* the kind of task the loop looks at
    page,        \* versions of the page that are still to be visited
    offset,      \* rows fetched so far in this round
    last,        \* is this page the last one?
    slot,        \* where the processors of this round are
    shifted,     \* rounds in which rows were written between two pages
    queue,       \* the bounded(1) channel of each kind and slot
    pc,          \* where each processor is
    item,        \* the request each processor works on
    tries,       \* try_count of each processor
    crashes, dbFailures  \* how often the bounded faults have happened

tables == <<order, task, fresh, results, fetched>>
loop == <<phase, kind, page, offset, last, slot, shifted>>
processors == <<pc, item, tries>>
faults == <<crashes, dbFailures>>
vars == <<tables, loop, queue, processors, faults>>

Kinds == {"download", "extract_crate"}
Workers == IoWorkers \cup CpuWorkers
KindOf(w) == IF w \in IoWorkers THEN "download" ELSE "extract_crate"
WorkersAt(k, s) == {w \in Workers : KindOf(w) = k /\ SlotOf[w] = s}
Retries(k) == IF k = "download" THEN MaxRetries ELSE 0

Phases == {"rest", "load", "visit", "send", "panicked"}
WorkerStates == {"off", "new", "idle", "begin", "work", "send", "complete", "failed"}

\* the loop is over, what it held is dropped
LeaveLoop(p) ==
    /\ phase' = p
    /\ kind' = "download"
    /\ page' = <<>>
    /\ offset' = 0
    /\ last' = FALSE
    /\ UNCHANGED <<slot, shifted>>

Init ==
    /\ order = <<>>
    /\ task = [k \in Kinds |-> [v \in Versions |-> NotStarted]]
    /\ fresh = [k \in Kinds |-> [v \in Versions |-> TRUE]]
    /\ results = {}
    /\ fetched = {}
    /\ phase = "rest"
    /\ kind = "download"
    /\ page = <<>>
    /\ offset = 0
    /\ last = FALSE
    /\ slot \in Slots
    /\ shifted = {}
    /\ queue = [k \in Kinds |-> [s \in Slots |-> NoVersion]]
    /\ pc = [w \in Workers |-> "off"]
    /\ item = [w \in Workers |-> NoVersion]
    /\ tries = [w \in Workers |-> 0]
    /\ crashes = 0
    /\ dbFailures = 0

-----------------------------------------------------------------------------
(***************************************************************************)
(* The fetch stage, seen from here: it REPLACEs the row of each version    *)
(* the index announces, which gives the row the highest rowid even if the  *)
(* version was there before (a yank).                                      *)
(***************************************************************************)
Listed(v) == \E i \in 1..Len(order) : order[i] = v

RowsBut(v) ==
    LET row == CHOOSE i \in 1..Len(order) : order[i] = v
    IN  SubSeq(order, 1, row - 1) \o SubSeq(order, row + 1, Len(order))

\* the round has loaded a full page and will load another one
MorePages == \/ phase \in {"visit", "send"} /\ ~last
             \/ phase = "load" /\ offset > 0

StoreVersion(v) ==
    /\ order' = <<v>> \o (IF Listed(v) THEN RowsBut(v) ELSE order)
    /\ shifted' = IF MorePages THEN shifted \cup {slot} ELSE shifted
    /\ UNCHANGED <<task, fresh, results, fetched, phase, kind, page, offset, last, slot>>
    /\ UNCHANGED <<queue, processors, faults>>

-----------------------------------------------------------------------------
(***************************************************************************)
(* The scheduling loop.  Its phases: "rest" between rounds, "load" the     *)
(* next page, "visit" the task `kind` of the first version of the page,    *)
(* "send" the request for that task, "panicked" once a send found no       *)
(* processor (`unwrap`): no further round is started until a restart.      *)
(***************************************************************************)
StartRound(s) ==
    /\ phase = "rest"
    /\ \A w \in Workers : SlotOf[w] = s => pc[w] = "off"
    /\ phase' = "load"
    /\ slot' = s
    /\ shifted' = shifted \ {s}
    /\ pc' = [w \in Workers |-> IF SlotOf[w] = s THEN "new" ELSE pc[w]]
    /\ UNCHANGED <<tables, kind, page, offset, last, queue, item, tries, faults>>

MinOf(a, b) == IF a <= b THEN a ELSE b

\* LIMIT offset, PageSize
Rows == SubSeq(order, offset + 1, MinOf(offset + PageSize, Len(order)))

LoadPage ==
    /\ phase = "load"
    /\ phase' = "visit"
    /\ page' = Rows
    /\ offset' = offset + Len(Rows)
    /\ last' = (Len(Rows) # PageSize)
    /\ UNCHANGED <<tables, kind, slot, shifted, queue, processors, faults>>

\* A mutant of ToBeSubmitted: a task that is done is sent again.
ToBeSubmittedAgain(k, v) ==
    \/ task[k][v].kind \in {"NotStarted", "Complete"}
    \/ task[k][v].kind = "InProgress" /\ ~fresh[k][v]
    \/ task[k][v].kind = "AttemptsWithFailure" /\ task[k][v].errors < MaxAttempts

\* A mutant of ToBeSubmitted: a task that failed is not sent again.
ToBeSubmittedOnce(k, v) ==
    \/ task[k][v].kind = "NotStarted"
    \/ task[k][v].kind = "InProgress" /\ ~fresh[k][v]

\* submit_single: is the task, as read now, to be sent to a processor?
ToBeSubmitted(k, v) ==
    \/ task[k][v].kind = "NotStarted"
    \/ task[k][v].kind = "InProgress" /\ ~fresh[k][v]
    \/ task[k][v].kind = "AttemptsWithFailure" /\ task[k][v].errors < MaxAttempts

\* A mutant of NextVersion: both tasks of a version are sent, one by one.
BothTasksOfVersion ==
    /\ phase' = "visit"
    /\ kind' = IF kind = "download" THEN "extract_crate" ELSE "download"
    /\ page' = IF kind = "download" THEN page ELSE Tail(page)
    /\ UNCHANGED <<offset, last, slot, shifted>>

NextVersion ==
    /\ phase' = "visit"
    /\ kind' = "download"
    /\ page' = Tail(page)
    /\ UNCHANGED <<offset, last, slot, shifted>>

Submit ==
    /\ phase = "visit" /\ page # <<>>
    /\ ToBeSubmitted(kind, Head(page))
    /\ phase' = "send"
    /\ UNCHANGED <<tables, kind, page, offset, last, slot, shifted, queue, processors, faults>>

\* the download is done, look at the extraction
VisitExtraction ==
    /\ phase = "visit" /\ page # <<>>
    /\ ~ToBeSubmitted(kind, Head(page))
    /\ kind = "download" /\ task[kind][Head(page)].kind = "Complete"
    /\ kind' = "extract_crate"
    /\ UNCHANGED <<tables, phase, page, offset, last, slot, shifted, queue, processors, faults>>

\* done, given up, or in progress since this run began
Skip ==
    /\ phase = "visit" /\ page # <<>>
    /\ ~ToBeSubmitted(kind, Head(page))
    /\ ~(kind = "download" /\ task[kind][Head(page)].kind = "Complete")
    /\ NextVersion
    /\ UNCHANGED <<tables, queue, processors, faults>>

HasReceiver(k, s) == \E w \in WorkersAt(k, s) : pc[w] # "off"

\* channel.send(f()).await.unwrap()
SendRequest ==
    /\ phase = "send"
    /\ HasReceiver(kind, slot)
    /\ queue[kind][slot] = NoVersion
    /\ queue' = [queue EXCEPT ![kind][slot] = Head(page)]
    /\ NextVersion
    /\ UNCHANGED <<tables, processors, faults>>

SendPanics ==
    /\ phase = "send"
    /\ ~HasReceiver(kind, slot)
    /\ LeaveLoop("panicked")
    /\ UNCHANGED <<tables, queue, processors, faults>>

\* the page is done: checkpoint, then the next page or the end of the round
NextPage ==
    /\ phase = "visit" /\ page = <<>> /\ ~last
    /\ phase' = "load"
    /\ UNCHANGED <<tables, kind, page, offset, last, slot, shifted, queue, processors, faults>>

EndRound ==
    /\ phase = "visit" /\ page = <<>> /\ last
    /\ LeaveLoop("rest")
    /\ UNCHANGED <<tables, queue, processors, faults>>

\* a failing read or checkpoint ends the round, and so does a processor that
\* cannot be created; repeat_every_s carries on
SchedulerFails ==
    /\ dbFailures < MaxDbFailures /\ crashes + dbFailures < MaxFaults
    /\ phase \in {"load", "visit"}
    /\ LeaveLoop("rest")
    /\ dbFailures' = dbFailures + 1
    /\ UNCHANGED <<tables, queue, processors, crashes>>

Schedule ==
    \/ \E s \in Slots : StartRound(s)
    \/ LoadPage
    \/ Submit
    \/ VisitExtraction
    \/ Skip
    \/ SendRequest
    \/ SendPanics
    \/ NextPage
    \/ EndRound

-----------------------------------------------------------------------------
(***************************************************************************)
(* The processors (generic.rs `processor`).  pc[w]: "off" before and after *)
(* its life, "new" until it has opened the task table, "idle" in recv,     *)
(* "begin" before the task is marked as in progress, "work" in             *)
(* Agent::process, "send" in schedule_next, "complete" and "failed" before *)
(* the outcome is stored.                                                  *)
(***************************************************************************)
RoundIsOn(s) == slot = s /\ phase \in {"load", "visit", "send"}

\* A mutant of HasSender: the extraction processors hold a sender as well.
HasSenderForever(k, s) ==
    \/ RoundIsOn(s)
    \/ k = "extract_crate" /\ \E i \in Kinds : HasReceiver(i, s)

\* the scheduler has a sender of both channels, a download processor one of
\* the extraction channel of its slot
HasSender(k, s) ==
    \/ RoundIsOn(s)
    \/ k = "extract_crate" /\ HasReceiver("download", s)

\* db.open_tasks()
OpenTasks(w) ==
    /\ pc[w] = "new"
    /\ pc' = [pc EXCEPT ![w] = "idle"]
    /\ UNCHANGED <<tables, loop, queue, item, tries, faults>>

Receive(w) ==
    LET k == KindOf(w)
        s == SlotOf[w]
    IN  /\ pc[w] = "idle"
        /\ queue[k][s] # NoVersion
        /\ item' = [item EXCEPT ![w] = queue[k][s]]
        /\ queue' = [queue EXCEPT ![k][s] = NoVersion]
        /\ pc' = [pc EXCEPT ![w] = "begin"]
        /\ UNCHANGED <<tables, loop, tries, faults>>

Leave(w) ==
    /\ pc[w] = "idle"
    /\ queue[KindOf(w)][SlotOf[w]] = NoVersion
    /\ ~HasSender(KindOf(w), SlotOf[w])
    /\ pc' = [pc EXCEPT ![w] = "off"]
    /\ UNCHANGED <<tables, loop, queue, item, tries, faults>>

\* tasks.update(..): the state changes, stored_at does not, except that a
\* task which is not in the table yet is created as of now
Begin(w) ==
    LET k == KindOf(w)
        v == item[w]
    IN  /\ pc[w] = "begin"
        /\ task' = [task EXCEPT ![k][v] = Merge(task[k][v], InProgress(0))]
        /\ tries' = [tries EXCEPT ![w] = tries[w] + 1]
        /\ pc' = [pc EXCEPT ![w] = "work"]
        /\ UNCHANGED <<order, fresh, results, fetched, loop, queue, item, faults>>

\* the body (or what is left of it) arrives and the result is stored
Fetches(w) ==
    /\ w \in IoWorkers /\ pc[w] = "work"
    /\ fetched' = fetched \cup {item[w]}
    /\ results' = results \cup {<<"download", item[w]>>}
    /\ pc' = [pc EXCEPT ![w] = "send"]
    /\ UNCHANGED <<order, task, fresh, loop, queue, item, tries, faults>>

\* status 416: the file on disk is whole, Ok(()) without a result
FindsWholeFile(w) ==
    /\ w \in IoWorkers /\ pc[w] = "work"
    /\ item[w] \in fetched
    /\ pc' = [pc EXCEPT ![w] = "send"]
    /\ UNCHANGED <<tables, loop, queue, item, tries, faults>>

\* A mutant of TimesOut: it goes on with the next request.
TimesOutAndForgets(w) ==
    /\ w \in IoWorkers /\ pc[w] = "work"
    /\ pc' = [pc EXCEPT ![w] = "idle"]
    /\ item' = [item EXCEPT ![w] = NoVersion]
    /\ tries' = [tries EXCEPT ![w] = 0]
    /\ UNCHANGED <<tables, loop, queue, faults>>

\* a timeout repeats the attempt while try_count < max_retries_on_timeout; it
\* may come after the last byte, when the end of the body is awaited
TimesOut(w) ==
    /\ w \in IoWorkers /\ pc[w] = "work"
    /\ \E whole \in SUBSET {item[w]} : fetched' = fetched \cup whole
    /\ pc' = [pc EXCEPT ![w] =
                 IF tries[w] < Retries(KindOf(w)) THEN "begin" ELSE "failed"]
    /\ UNCHANGED <<order, task, fresh, results, loop, queue, item, tries, faults>>

\* A mutant of DownloadFails: the extraction is scheduled all the same.
DownloadFailsAndSchedules(w) ==
    /\ w \in IoWorkers /\ pc[w] = "work"
    /\ \E whole \in SUBSET {item[w]} : fetched' = fetched \cup whole
    /\ pc' = [pc EXCEPT ![w] = "send"]
    /\ UNCHANGED <<order, task, fresh, results, loop, queue, item, tries, faults>>

\* any other error; the last of them (flush, insert) come after the body
DownloadFails(w) ==
    /\ w \in IoWorkers /\ pc[w] = "work"
    /\ \E whole \in SUBSET {item[w]} : fetched' = fetched \cup whole
    /\ pc' = [pc EXCEPT ![w] = "failed"]
    /\ UNCHANGED <<order, task, fresh, results, loop, queue, item, tries, faults>>

\* schedule_next, before the download is marked as complete; an error of the
\* send is dropped by .ok()
ScheduleExtraction(w) ==
    LET s == SlotOf[w]
    IN  /\ w \in IoWorkers /\ pc[w] = "send"
        /\ \/ /\ HasReceiver("extract_crate", s)
              /\ queue["extract_crate"][s] = NoVersion
              /\ queue' = [queue EXCEPT !["extract_crate"][s] = item[w]]
           \/ /\ ~HasReceiver("extract_crate", s)
              /\ UNCHANGED queue
        /\ pc' = [pc EXCEPT ![w] = "complete"]
        /\ UNCHANGED <<tables, loop, item, tries, faults>>

\* extract_crate: a file which is not whole is no gzipped tar archive
Extracts(w) ==
    /\ w \in CpuWorkers /\ pc[w] = "work"
    /\ item[w] \in fetched
    /\ results' = results \cup {<<"extract_crate", item[w]>>}
    /\ pc' = [pc EXCEPT ![w] = "complete"]
    /\ UNCHANGED <<order, task, fresh, fetched, loop, queue, item, tries, faults>>

ExtractionFails(w) ==
    /\ w \in CpuWorkers /\ pc[w] = "work"
    /\ pc' = [pc EXCEPT ![w] = "failed"]
    /\ UNCHANGED <<tables, loop, queue, item, tries, faults>>

\* A mutant of Outcome: a failure is not told from a success.
OutcomeAlwaysComplete(w) == Complete

Outcome(w) == IF pc[w] = "complete" THEN Complete ELSE AttemptsWithFailure(1)

\* tasks.upsert(..): merge the outcome and set stored_at
Store(w) ==
    LET k == KindOf(w)
        v == item[w]
    IN  /\ pc[w] \in {"complete", "failed"}
        /\ task' = [task EXCEPT ![k][v] = Merge(task[k][v], Outcome(w))]
        /\ fresh' = [fresh EXCEPT ![k][v] = TRUE]
        /\ pc' = [pc EXCEPT ![w] = "idle"]
        /\ item' = [item EXCEPT ![w] = NoVersion]
        /\ tries' = [tries EXCEPT ![w] = 0]
        /\ UNCHANGED <<order, results, fetched, loop, queue, faults>>

\* `?` on a failing open, update or upsert ends the processor; with the last
\* receiver of a channel goes the request in it
ProcessorFails(w) ==
    LET k == KindOf(w)
        s == SlotOf[w]
    IN  /\ dbFailures < MaxDbFailures /\ crashes + dbFailures < MaxFaults
        /\ pc[w] \in {"new", "begin", "complete", "failed"}
        /\ pc' = [pc EXCEPT ![w] = "off"]
        /\ item' = [item EXCEPT ![w] = NoVersion]
        /\ tries' = [tries EXCEPT ![w] = 0]
        /\ queue' = IF \A u \in WorkersAt(k, s) \ {w} : pc[u] = "off"
                    THEN [queue EXCEPT ![k][s] = NoVersion]
                    ELSE queue
        /\ dbFailures' = dbFailures + 1
        /\ UNCHANGED <<tables, loop, crashes>>

Work(w) ==
    \/ OpenTasks(w)
    \/ Receive(w)
    \/ Leave(w)
    \/ Begin(w)
    \/ Fetches(w)
    \/ FindsWholeFile(w)
    \/ TimesOut(w)
    \/ DownloadFails(w)
    \/ ScheduleExtraction(w)
    \/ Extracts(w)
    \/ ExtractionFails(w)
    \/ Store(w)

-----------------------------------------------------------------------------
\* The program is killed, or stops at its deadline, and is started again:
\* database and files stay, everything stored so far is before startup_time
Crash ==
    /\ crashes < MaxCrashes /\ crashes + dbFailures < MaxFaults
    /\ crashes' = crashes + 1
    /\ fresh' = [k \in Kinds |->
                    [v \in Versions |-> task[k][v].kind = "NotStarted"]]
    /\ \E whole \in SUBSET {item[w] : w \in {u \in IoWorkers : pc[u] = "work"}} :
          fetched' = fetched \cup whole
    /\ LeaveLoop("rest")
    /\ queue' = [k \in Kinds |-> [s \in Slots |-> NoVersion]]
    /\ pc' = [w \in Workers |-> "off"]
    /\ item' = [w \in Workers |-> NoVersion]
    /\ tries' = [w \in Workers |-> 0]
    /\ UNCHANGED <<order, task, results, dbFailures>>

Next ==
    \/ \E v \in Versions : StoreVersion(v)
    \/ Schedule
    \/ SchedulerFails
    \/ \E w \in Workers : Work(w) \/ ProcessorFails(w)
    \/ Crash

Fairness == WF_vars(Schedule) /\ \A w \in Workers : WF_vars(Work(w))

Spec == Init /\ [][Next]_vars
FairSpec == Spec /\ Fairness

-----------------------------------------------------------------------------
(***************************************************************************)
(* What the pipeline promises.                                             *)
(***************************************************************************)

\* Every variable keeps its type: what the tables, channels and processors hold.
TypeOK ==
    /\ order \in Seq(Versions)
    /\ task \in [Kinds -> [Versions -> TaskStates]]
    /\ fresh \in [Kinds -> [Versions -> BOOLEAN]]
    /\ results \subseteq Kinds \X Versions
    /\ fetched \subseteq Versions
    /\ phase \in Phases
    /\ kind \in Kinds
    /\ page \in Seq(Versions)
    /\ offset \in Nat
    /\ last \in BOOLEAN
    /\ slot \in Slots
    /\ shifted \subseteq Slots
    /\ queue \in [Kinds -> [Slots -> Versions \cup {NoVersion}]]
    /\ pc \in [Workers -> WorkerStates]
    /\ item \in [Workers -> Versions \cup {NoVersion}]
    /\ tries \in [Workers -> Nat]
    /\ crashes \in 0..MaxCrashes
    /\ dbFailures \in 0..MaxDbFailures

\* a processor has a request exactly while it is busy
Busy(w) == pc[w] \in {"begin", "work", "send", "complete", "failed"}

\* who may hold a request: the scheduler, a channel, a processor
Holders == ({"scheduler"} \X Slots) \cup (Kinds \X Slots) \cup ({"processor"} \X Workers)

\* the round a holder belongs to
RoundOf(h) == IF h[1] = "processor" THEN SlotOf[h[2]] ELSE h[2]

Request(k, v, h) == [kind |-> k, version |-> v, holder |-> h]

\* every request there is; a download processor that is about to send the
\* extraction holds both
RequestsUnderWay ==
    (IF phase = "send" THEN {Request(kind, Head(page), <<"scheduler", slot>>)} ELSE {})
    \cup {Request(c[1], queue[c[1]][c[2]], c) :
              c \in {d \in Kinds \X Slots : queue[d[1]][d[2]] # NoVersion}}
    \cup {Request(KindOf(w), item[w], <<"processor", w>>) : w \in {u \in Workers : Busy(u)}}
    \cup {Request("extract_crate", item[w], <<"processor", w>>) :
              w \in {u \in IoWorkers : pc[u] = "send"}}

\* No version is extracted, queued for extraction or recorded as being
\* extracted unless its whole body is on disk: the request for an extraction is
\* sent by a download that succeeded (iobound.rs schedule_next) or by the
\* scheduler on a completed download, however rounds and restarts interleave.
ExtractionFollowsDownload ==
    /\ \A v \in Versions : task["extract_crate"][v].kind # "NotStarted" => v \in fetched
    /\ \A r \in RequestsUnderWay : r.kind = "extract_crate" => r.version \in fetched

\* A task marked Complete has left what it is for: a completed download the
\* whole file, a completed extraction its result. The mark is stored last
\* (generic.rs upsert after process), so no crash can separate the two.
DoneIsBacked ==
    \A v \in Versions :
        /\ task["download"][v].kind = "Complete" => v \in fetched
        /\ task["extract_crate"][v].kind = "Complete"
              => <<"extract_crate", v>> \in results

\* The strengthening that makes the two above inductive.  A processor has a
\* request exactly while it is busy, and the loop a version while it sends.
HandsFull ==
    /\ \A w \in Workers : IF Busy(w) THEN item[w] \in Versions
                                     ELSE item[w] = NoVersion
    /\ phase = "send" => page # <<>>

\* Wherever a request for an extraction is, the crate is on disk; wherever a
\* success is about to be stored, what it stands for is there.
Backed ==
    /\ \A v \in Versions :
          task["extract_crate"][v].kind # "NotStarted" => v \in fetched
    /\ \A s \in Slots : queue["extract_crate"][s] \in fetched \cup {NoVersion}
    /\ kind = "extract_crate" => /\ phase \in {"visit", "send"}
                                 /\ page # <<>> /\ Head(page) \in fetched
    /\ \A w \in CpuWorkers :
          /\ item[w] \in fetched \cup {NoVersion}
          /\ pc[w] # "send"
          /\ pc[w] = "complete" => <<"extract_crate", item[w]>> \in results
    /\ \A w \in IoWorkers : pc[w] \in {"send", "complete"} => item[w] \in fetched
    /\ DoneIsBacked

PipelineInv == TypeOK /\ HandsFull /\ Backed

\* Each task has at most one request under way: "we assume there is no risk of
\* double-scheduling" (iobound.rs schedule_next).  The code does not keep it:
\* rounds overlap, and rows move to a page that is still to be read.
NoDoubleScheduling ==
    \A r, t \in RequestsUnderWay :
        r.kind = t.kind /\ r.version = t.version => r = t

\* What the code does keep: a round asks for a task once and passes the request
\* on without doubling it, although both the scheduler and the download
\* processors send extractions, and although other rounds work beside it, unless
\* the fetch stage wrote a row between two pages of that round.
OncePerRound ==
    \A r, t \in RequestsUnderWay :
        /\ r.kind = t.kind /\ r.version = t.version
        /\ RoundOf(r.holder) = RoundOf(t.holder) /\ RoundOf(r.holder) \notin shifted
        => r = t

\* Why it holds.  A round begins when nothing is left in its slot, and the rows
\* it has still to visit, of its page or after it, are different versions of
\* which nothing is under way in this round.
Distinct(rows) == \A i, j \in 1..Len(rows) : rows[i] = rows[j] => i = j

Unheld(s, v) == /\ \A k \in Kinds : queue[k][s] # v
                /\ \A w \in Workers : SlotOf[w] = s => item[w] # v

RowsAhead ==
    /\ Distinct(page)
    /\ \A i \in 1..Len(page) : Unheld(slot, page[i])
    /\ MorePages =>
          \A i \in (offset + 1)..Len(order) :
              Unheld(slot, order[i]) /\ \A j \in 1..Len(page) : page[j] # order[i]
    /\ phase = "load" /\ offset = 0 => \A v \in Versions : Unheld(slot, v)

PageIsAhead ==
    /\ Distinct(order)
    /\ phase \in {"rest", "load", "panicked"} => page = <<>>
    /\ phase \in {"rest", "panicked"} => offset = 0
    /\ MorePages => offset > 0
    /\ slot \notin shifted => RowsAhead

\* with the last receiver of a channel goes the request in it
ChannelsAreRead ==
    \A k \in Kinds, s \in Slots : queue[k][s] # NoVersion => HasReceiver(k, s)

\* a request is in one place of its round, and that for an extraction is not
\* there before the download sends it
NoExtraction(s, v) == /\ queue["extract_crate"][s] # v
                      /\ \A w \in CpuWorkers : SlotOf[w] = s => item[w] # v

InOnePlace ==
    \A s \in Slots \ shifted :
        /\ \A u, w \in Workers :
              /\ KindOf(u) = KindOf(w) /\ SlotOf[u] = s /\ SlotOf[w] = s
              /\ item[u] = item[w] /\ item[u] # NoVersion
              => u = w
        /\ \A w \in Workers :
              SlotOf[w] = s /\ item[w] # NoVersion => queue[KindOf(w)][s] # item[w]
        /\ queue["download"][s] # NoVersion => NoExtraction(s, queue["download"][s])
        /\ \A w \in IoWorkers :
              SlotOf[w] = s /\ pc[w] \in {"begin", "work", "send"} => NoExtraction(s, item[w])

RoundInv == PageIsAhead /\ ChannelsAreRead /\ InOnePlace

\* A task stored in this run as in progress is in the hands of a processor, as
\* long as the task table does not fail: no request that was started can be lost,
\* and none waits for a restart.
NoOrphan ==
    dbFailures = 0 => \A k \in Kinds, v \in Versions :
        task[k][v].kind = "InProgress" /\ fresh[k][v]
            => \E w \in Workers : KindOf(w) = k /\ item[w] = v

\* A version needs no more work: its crate is extracted, or one of its tasks
\* failed so often that the scheduler gave up on it.
GivenUp(k, v) == /\ task[k][v].kind = "AttemptsWithFailure"
                 /\ task[k][v].errors >= MaxAttempts
Settled(v) == \/ task["extract_crate"][v].kind = "Complete"
              \/ \E k \in Kinds : GivenUp(k, v)

\* Round after round, every version in the table is settled for good: a task is
\* given up after MAX_ATTEMPTS_BEFORE_WE_GIVE_UP (schedule.rs).  The code does
\* not keep it for a download that times out again and again: each retry within
\* a round forgets the errors of the rounds before.
EveryVersionSettles ==
    \A v \in Versions : Listed(v) ~> []Settled(v)

\* a download of v is being repeated after a timeout, within its round
Repeated(v) == \E w \in IoWorkers : item[w] = v /\ tries[w] > 1

\* What the code does keep: every version is settled for good, unless its
\* download is repeated after timeouts in round after round, or the fetch stage
\* moves rows between the pages of round after round.
EveryVersionIsPursued ==
    \A v \in Versions : \/ []~Listed(v)
                        \/ <>[]Settled(v)
                        \/ []<>Repeated(v) \/ []<>(slot \in shifted)

\* The processors of a round that is over empty their channels and end, those
\* that download before those that extract: nobody waits for a channel forever.
RoundsDrain ==
    \A s \in Slots :
        ~RoundIsOn(s) ~> (\/ \A w \in Workers : SlotOf[w] = s => pc[w] = "off"
                          \/ RoundIsOn(s))

\* The stage implements the ledger of requests and outcomes, whatever rounds,
\* restarts, retries and failing tables interleave.
DownloadsDelivered ==
    {<<"processor", w>> : w \in {u \in IoWorkers : pc[u] \in {"send", "complete"}}}

\* errors are those of a failed task, or of one that was started again
ErrorsOfFailures ==
    \A k \in Kinds, v \in Versions :
        task[k][v].kind \in {"NotStarted", "Complete"} => task[k][v].errors = 0

Ledger == INSTANCE MiningLedger WITH
    onDisk <- fetched, requests <- RequestsUnderWay, delivered <- DownloadsDelivered

ImplementsLedger == Ledger!LedgerSpec
=============================================================================
