------------------------- MODULE TaskPipelineProofs -------------------------
(***************************************************************************)
(* Proofs about TaskPipeline, for every set of versions, every number of   *)
(* processors, and every limit.  First what holds however rounds overlap,  *)
(* tables fail and the program restarts: its typing, and the two           *)
(* invariants that tie the task table to what is on disk and in the result *)
(* table; then that a round asks for a task once, and that the stage       *)
(* implements MiningLedger.  Nothing is assumed but the types of the       *)
(* constants.                                                              *)
(***************************************************************************)
EXTENDS TaskPipeline, SequenceTheorems, FiniteSetTheorems, TLAPS

\* Merging two states of a task gives a state of a task (merge.rs).
LEMMA MergeType ==
    ASSUME NEW a \in TaskStates, NEW b \in TaskStates
    PROVE  Merge(a, b) \in TaskStates
BY DEF Merge, TaskStates, StateKinds, InProgress, AttemptsWithFailure

\* The rows of the version table but one, and the rows after a REPLACE.
LEMMA RowsType ==
    ASSUME order \in Seq(Versions), NEW v \in Versions
    PROVE  <<v>> \o (IF Listed(v) THEN RowsBut(v) ELSE order) \in Seq(Versions)
<1>1. ASSUME Listed(v) PROVE RowsBut(v) \in Seq(Versions)
  <2> DEFINE row == CHOOSE i \in 1..Len(order) : order[i] = v
  <2>1. row \in 1..Len(order)
    BY <1>1 DEF Listed
  <2>2. \A i \in 1..Len(order) : order[i] \in Versions
    BY ElementOfSeq
  <2>3. Len(order) \in Nat
    BY LenProperties
  <2> HIDE DEF row
  <2>4. SubSeq(order, 1, row - 1) \in Seq(Versions)
    <3>1. \A i \in 1..(row - 1) : order[i] \in Versions
      BY <2>1, <2>2, <2>3
    <3> QED BY <3>1, <2>1, <2>3, SubSeqProperties
  <2>5. SubSeq(order, row + 1, Len(order)) \in Seq(Versions)
    <3>1. \A i \in (row + 1)..Len(order) : order[i] \in Versions
      BY <2>1, <2>2, <2>3
    <3> QED BY <3>1, <2>1, <2>3, SubSeqProperties
  <2>6. RowsBut(v) = SubSeq(order, 1, row - 1) \o SubSeq(order, row + 1, Len(order))
    BY DEF RowsBut, row
  <2> QED BY <2>4, <2>5, <2>6, ConcatProperties
<1>2. <<v>> \in Seq(Versions)
  OBVIOUS
<1> QED BY <1>1, <1>2, ConcatProperties

\* A page of the version table holds versions of the table.
LEMMA PageType ==
    ASSUME order \in Seq(Versions), offset \in Nat, PageSize \in Nat
    PROVE  Rows \in Seq(Versions) /\ Len(Rows) \in Nat
<1> DEFINE end == MinOf(offset + PageSize, Len(order))
<1>1. Len(order) \in Nat /\ \A i \in 1..Len(order) : order[i] \in Versions
  BY LenProperties, ElementOfSeq
<1>2. end \in Nat /\ end <= Len(order)
  BY <1>1 DEF MinOf
<1> HIDE DEF end
<1>3. \A i \in (offset + 1)..end : order[i] \in Versions
  BY <1>1, <1>2
<1>4. SubSeq(order, offset + 1, end) \in Seq(Versions)
  BY <1>2, <1>3, SubSeqProperties
<1>5. Len(SubSeq(order, offset + 1, end)) \in Nat
  BY <1>4, LenProperties
<1> QED BY <1>4, <1>5 DEF Rows, end

\* The kind of a merged state (merge.rs): starting a task makes it an attempt
\* under way, storing an outcome makes it that outcome.
LEMMA MergeKind ==
    ASSUME NEW a \in TaskStates
    PROVE  /\ Merge(a, InProgress(0)).kind = "InProgress"
           /\ Merge(a, Complete) = Complete
           /\ Merge(a, AttemptsWithFailure(1)).kind = "AttemptsWithFailure"
BY DEF Merge, TaskStates, StateKinds, InProgress, AttemptsWithFailure, Complete

LEMMA KindOfType ==
    \A w \in Workers : KindOf(w) \in Kinds /\ SlotOf[w] \in Slots
BY PipelineAssumption DEF KindOf, Kinds, Workers

-----------------------------------------------------------------------------
(***************************************************************************)
(* Typing, together with what a busy processor and a sending loop hold.    *)
(***************************************************************************)
Typed == TypeOK /\ HandsFull

LEMMA TypeInit == Init => Typed
<1> SUFFICES ASSUME Init PROVE Typed
  OBVIOUS
<1> USE PipelineAssumption DEF Init, TypeOK
<1>1. order \in Seq(Versions) /\ page \in Seq(Versions)
  OBVIOUS
<1>2. task \in [Kinds -> [Versions -> TaskStates]]
  BY DEF NotStarted, TaskStates, StateKinds
<1>3. fresh \in [Kinds -> [Versions -> BOOLEAN]]
  BY Zenon
<1>4. last \in BOOLEAN
  BY Zenon
<1>5. TypeOK
  BY <1>1, <1>2, <1>3, <1>4 DEF Phases, Kinds, WorkerStates
<1>6. HandsFull
  BY DEF HandsFull, Busy
<1> QED BY <1>5, <1>6 DEF Typed

\* The fetch stage and the scheduling loop keep the types.
LEMMA TypeSchedule ==
    ASSUME Typed,
           \/ \E v \in Versions : StoreVersion(v)
           \/ Schedule
           \/ SchedulerFails
    PROVE  Typed'
<1> USE PipelineAssumption
<1> USE DEF Typed, HandsFull, Busy, TypeOK, tables, loop, processors, faults, Phases, Kinds
<1>a. page # <<>> => Tail(page) \in Seq(Versions) /\ Head(page) \in Versions
  BY HeadTailProperties
<1>b. <<>> \in Seq(Versions)
  OBVIOUS
<1>1. CASE \E v \in Versions : StoreVersion(v)
  <2>1. PICK v \in Versions : StoreVersion(v)
    BY <1>1
  <2>2. order' \in Seq(Versions)
    BY <2>1, RowsType DEF StoreVersion
  <2>3. shifted' \subseteq Slots
    BY <2>1 DEF StoreVersion
  <2> QED BY <2>1, <2>2, <2>3 DEF StoreVersion
<1>2. ASSUME NEW s \in Slots, StartRound(s) PROVE Typed'
  <2>1. pc' \in [Workers -> WorkerStates]
    BY <1>2 DEF StartRound, WorkerStates
  <2>2. shifted' \subseteq Slots
    BY <1>2 DEF StartRound
  <2> QED BY <1>2, <2>1, <2>2 DEF StartRound
<1>3. CASE LoadPage
  <2>1. Rows \in Seq(Versions) /\ Len(Rows) \in Nat
    BY PageType
  <2> QED BY <1>3, <2>1 DEF LoadPage
<1>4. CASE Submit \/ VisitExtraction
  BY <1>4 DEF Submit, VisitExtraction
<1>5. CASE Skip
  BY <1>5, <1>a DEF Skip, NextVersion
<1>6. CASE SendRequest
  BY <1>6, <1>a DEF SendRequest, NextVersion
<1>7. CASE SendPanics \/ EndRound \/ SchedulerFails
  <2>1. last' \in BOOLEAN
    BY <1>7, Zenon DEF SendPanics, EndRound, SchedulerFails, LeaveLoop
  <2>2. dbFailures' \in 0..MaxDbFailures
    BY <1>7 DEF SendPanics, EndRound, SchedulerFails
  <2>3. UNCHANGED <<tables, slot, shifted, queue, processors, crashes>>
    BY <1>7 DEF SendPanics, EndRound, SchedulerFails, LeaveLoop
  <2>4. phase' \in {"rest", "panicked"} /\ kind' \in Kinds /\ page' = <<>> /\ offset' \in Nat
    BY <1>7 DEF SendPanics, EndRound, SchedulerFails, LeaveLoop
  <2> QED BY <1>b, <2>1, <2>2, <2>3, <2>4
<1>8. CASE NextPage
  BY <1>8 DEF NextPage
<1> QED BY <1>1, <1>2, <1>3, <1>4, <1>5, <1>6, <1>7, <1>8 DEF Schedule

\* The processors and a restart keep the types.
LEMMA TypeWork ==
    ASSUME Typed,
           \/ \E w \in Workers : Work(w) \/ ProcessorFails(w)
           \/ Crash
    PROVE  Typed'
<1> USE PipelineAssumption
<1> USE DEF Typed, HandsFull, Busy, TypeOK, tables, loop, processors, faults, WorkerStates
<1>1. ASSUME NEW w \in Workers, Work(w) PROVE Typed'
  <2>a. KindOf(w) \in Kinds /\ SlotOf[w] \in Slots
    BY KindOfType
  <2>1. CASE Receive(w)
    BY <2>1, <2>a DEF Receive
  <2>2. CASE Leave(w) \/ OpenTasks(w)
    BY <2>2 DEF Leave, OpenTasks
  <2>3. CASE Begin(w)
    <3>1. Merge(task[KindOf(w)][item[w]], InProgress(0)) \in TaskStates
      BY <2>3, <2>a, MergeType DEF Begin, InProgress, TaskStates, StateKinds
    <3>2. task' \in [Kinds -> [Versions -> TaskStates]]
      BY <2>3, <2>a, <3>1 DEF Begin
    <3> QED BY <2>3, <3>2 DEF Begin
  <2>4. CASE Fetches(w)
    BY <2>4 DEF Fetches, Kinds
  <2>5. CASE FindsWholeFile(w) \/ ExtractionFails(w)
    BY <2>5 DEF FindsWholeFile, ExtractionFails
  <2>6. CASE TimesOut(w) \/ DownloadFails(w)
    BY <2>6 DEF TimesOut, DownloadFails
  <2>7. CASE ScheduleExtraction(w)
    <3>a. item[w] \in Versions
      BY <2>7 DEF ScheduleExtraction
    <3>b. \/ queue' = queue
          \/ queue' = [queue EXCEPT !["extract_crate"][SlotOf[w]] = item[w]]
      BY <2>7 DEF ScheduleExtraction
    <3>1. queue' \in [Kinds -> [Slots -> Versions \cup {NoVersion}]]
      <4>1. /\ "extract_crate" \in Kinds
            /\ queue \in [Kinds -> [Slots -> Versions \cup {NoVersion}]]
        BY DEF Kinds
      <4> HIDE DEF Typed, HandsFull, TypeOK
      <4> QED BY <4>1, <3>a, <3>b, <2>a
    <3>2. pc' \in [Workers -> WorkerStates]
      BY <2>7 DEF ScheduleExtraction
    <3> QED BY <2>7, <3>1, <3>2 DEF ScheduleExtraction
  <2>8. CASE Extracts(w)
    BY <2>8 DEF Extracts, Kinds
  <2>9. CASE Store(w)
    <3>a. item[w] \in Versions /\ task[KindOf(w)][item[w]] \in TaskStates
      BY <2>9, <2>a DEF Store
    <3>b. Outcome(w) \in TaskStates
      BY DEF Outcome, Complete, AttemptsWithFailure, TaskStates, StateKinds
    <3>1. Merge(task[KindOf(w)][item[w]], Outcome(w)) \in TaskStates
      BY <3>a, <3>b, MergeType
    <3>2. task' \in [Kinds -> [Versions -> TaskStates]]
      BY <2>9, <2>a, <3>1 DEF Store
    <3> QED BY <2>9, <2>a, <3>2 DEF Store
  <2> QED BY <1>1, <2>1, <2>2, <2>3, <2>4, <2>5, <2>6, <2>7, <2>8, <2>9 DEF Work
<1>2. ASSUME NEW w \in Workers, ProcessorFails(w) PROVE Typed'
  <2>1. queue' \in [Kinds -> [Slots -> Versions \cup {NoVersion}]]
    BY <1>2, KindOfType DEF ProcessorFails
  <2>2. dbFailures' \in 0..MaxDbFailures
    BY <1>2 DEF ProcessorFails
  <2> QED BY <1>2, <2>1, <2>2 DEF ProcessorFails
<1>3. CASE Crash
  <2>1. fetched' \subseteq Versions
    BY <1>3 DEF Crash, Workers
  <2>2. crashes' \in 0..MaxCrashes
    BY <1>3 DEF Crash
  <2>3. fresh' \in [Kinds -> [Versions -> BOOLEAN]]
    BY <1>3, Zenon DEF Crash
  <2>4. last' \in BOOLEAN
    BY <1>3, Zenon DEF Crash, LeaveLoop
  <2>5. TypeOK'
    BY <1>3, <2>1, <2>2, <2>3, <2>4 DEF Crash, LeaveLoop, Phases, Kinds
  <2> QED BY <1>3, <2>5 DEF Crash, LeaveLoop
<1> QED BY <1>1, <1>2, <1>3

LEMMA TypeNext == Typed /\ [Next]_vars => Typed'
<1>1. CASE UNCHANGED vars
  BY <1>1 DEF vars, tables, loop, processors, faults, Typed, TypeOK, HandsFull, Busy
<1> QED BY <1>1, TypeSchedule, TypeWork DEF Next

\* Every behaviour of the pipeline is well typed.
THEOREM PipelineType == Spec => []TypeOK
<1>1. Typed => TypeOK
  BY DEF Typed
<1> QED BY <1>1, TypeInit, TypeNext, PTL DEF Spec

-----------------------------------------------------------------------------
(***************************************************************************)
(* Where a request for an extraction is, the crate is on disk: the         *)
(* strengthened invariant, its parts named in TaskPipeline as Backed.      *)
(***************************************************************************)
LEMMA BackedInit == Init => Backed
BY PipelineAssumption DEF Init, Backed, DoneIsBacked, Kinds, Workers, NotStarted

\* The fetch stage and the scheduling loop.  The loop turns to an extraction
\* when it finds the download complete, and keeps to that version until it is
\* sent.
LEMMA BackedSchedule ==
    ASSUME Typed, Backed,
           \/ \E v \in Versions : StoreVersion(v)
           \/ Schedule
           \/ SchedulerFails
    PROVE  Backed'
<1> USE PipelineAssumption
<1> USE DEF Backed, DoneIsBacked, tables, loop, processors, faults
<1>a. page # <<>> => Head(page) \in Versions
  BY HeadTailProperties DEF Typed, TypeOK
<1>b. kind \in Kinds /\ slot \in Slots
  BY DEF Typed, TypeOK
<1>1. CASE \E v \in Versions : StoreVersion(v)
  BY <1>1 DEF StoreVersion
<1>2. ASSUME NEW s \in Slots, StartRound(s) PROVE Backed'
  <2>1. \A w \in Workers : pc'[w] \in {pc[w], "new"}
    BY <1>2 DEF StartRound
  <2>2. UNCHANGED <<task, results, fetched, kind, page, queue, item>>
    BY <1>2 DEF StartRound
  <2>3. \A w \in CpuWorkers : /\ pc'[w] # "send"
                              /\ pc'[w] = "complete" => pc[w] = "complete"
    BY <2>1 DEF Workers
  <2>4. \A w \in IoWorkers : pc'[w] \in {"send", "complete"} => pc[w] = pc'[w]
    BY <2>1 DEF Workers
  <2>5. kind # "extract_crate"
    BY <1>2 DEF StartRound
  <2> QED BY <2>2, <2>3, <2>4, <2>5
<1>3. CASE LoadPage
  BY <1>3 DEF LoadPage
<1>4. CASE Submit
  BY <1>4 DEF Submit
<1>5. CASE VisitExtraction
  BY <1>5, <1>a DEF VisitExtraction
<1>6. CASE Skip
  BY <1>6 DEF Skip, NextVersion
<1>7. CASE SendRequest
  <2>1. page # <<>>
    BY <1>7 DEF SendRequest, Typed, HandsFull
  <2>2. \A s \in Slots : \/ queue'["extract_crate"][s] = queue["extract_crate"][s]
                         \/ kind = "extract_crate" /\ queue'["extract_crate"][s] = Head(page)
    BY <1>7, <1>b DEF SendRequest, Typed, TypeOK, Kinds
  <2> QED BY <1>7, <2>1, <2>2 DEF SendRequest, NextVersion
<1>8. CASE SendPanics \/ EndRound \/ SchedulerFails
  BY <1>8 DEF SendPanics, EndRound, SchedulerFails, LeaveLoop
<1>9. CASE NextPage
  BY <1>9 DEF NextPage
<1> QED BY <1>1, <1>2, <1>3, <1>4, <1>5, <1>6, <1>7, <1>8, <1>9 DEF Schedule

\* The processors: an extraction is sent after a download that succeeded, and
\* a success is stored only after what it stands for.
LEMMA BackedWork ==
    ASSUME Typed, Backed, NEW w \in Workers, Work(w)
    PROVE  Backed'
<1> USE PipelineAssumption
<1> USE DEF Backed, DoneIsBacked, tables, loop, processors, faults
<1>a. KindOf(w) \in Kinds /\ SlotOf[w] \in Slots
  BY KindOfType
<1>b. /\ w \in IoWorkers => KindOf(w) = "download" /\ w \notin CpuWorkers
      /\ w \in CpuWorkers => KindOf(w) = "extract_crate" /\ w \notin IoWorkers
  BY DEF KindOf
<1>c. Busy(w) => item[w] \in Versions
  BY DEF Typed, HandsFull
<1>t. /\ pc \in [Workers -> WorkerStates]
      /\ item \in [Workers -> Versions \cup {NoVersion}]
      /\ task \in [Kinds -> [Versions -> TaskStates]]
      /\ queue \in [Kinds -> [Slots -> Versions \cup {NoVersion}]]
  BY DEF Typed, TypeOK
<1> USE DEF Workers
<1>1. CASE Receive(w)
  <2>1. \A s \in Slots : queue'["extract_crate"][s] \in {queue["extract_crate"][s], NoVersion}
    BY <1>1, <1>a, <1>t DEF Receive, Kinds
  <2>2. item'[w] = queue[KindOf(w)][SlotOf[w]] /\ pc'[w] = "begin"
    BY <1>1, <1>t DEF Receive
  <2>3. \A u \in Workers \ {w} : item'[u] = item[u] /\ pc'[u] = pc[u]
    BY <1>1, <1>t DEF Receive
  <2>4. w \in CpuWorkers => item'[w] \in fetched \cup {NoVersion}
    BY <2>2, <1>a, <1>b
  <2>5. UNCHANGED <<task, results, fetched, phase, kind, page>>
    BY <1>1 DEF Receive
  <2> QED BY <2>1, <2>2, <2>3, <2>4, <2>5
<1>2. CASE Leave(w) \/ OpenTasks(w)
  BY <1>2, <1>t DEF Leave, OpenTasks
<1>3. CASE Begin(w)
  <2>1. \A k \in Kinds, v \in Versions :
           \/ task'[k][v] = task[k][v]
           \/ k = KindOf(w) /\ v = item[w] /\ task'[k][v].kind = "InProgress"
    BY <1>3, <1>a, <1>t, MergeKind DEF Begin
  <2>2. w \in CpuWorkers => item[w] \in fetched
    BY <1>3, <1>c DEF Begin, Busy
  <2>3. \A u \in Workers : pc'[u] \in {pc[u], "work"}
    BY <1>3, <1>t DEF Begin
  <2>4. UNCHANGED <<results, fetched, phase, kind, page, queue, item>>
    BY <1>3 DEF Begin
  <2> QED BY <2>1, <2>2, <2>3, <2>4, <1>b DEF Kinds
<1>4. CASE Fetches(w)
  BY <1>4, <1>t, <1>b DEF Fetches
<1>5. CASE FindsWholeFile(w) \/ ExtractionFails(w)
  BY <1>5, <1>t, <1>b DEF FindsWholeFile, ExtractionFails
<1>6. CASE TimesOut(w) \/ DownloadFails(w)
  BY <1>6, <1>t, <1>b DEF TimesOut, DownloadFails
<1>7. CASE ScheduleExtraction(w)
  <2>1. item[w] \in fetched
    BY <1>7 DEF ScheduleExtraction
  <2>2. \/ queue' = queue
        \/ queue' = [queue EXCEPT !["extract_crate"][SlotOf[w]] = item[w]]
    BY <1>7 DEF ScheduleExtraction
  <2>3. \A s \in Slots : queue'["extract_crate"][s] \in {queue["extract_crate"][s], item[w]}
    BY <2>2, <1>a, <1>t DEF Kinds
  <2>4. UNCHANGED <<task, results, fetched, phase, kind, page, item>>
    BY <1>7 DEF ScheduleExtraction
  <2>5. w \in IoWorkers /\ pc' = [pc EXCEPT ![w] = "complete"]
    BY <1>7 DEF ScheduleExtraction
  <2> QED BY <2>1, <2>3, <2>4, <2>5, <1>b, <1>t
<1>8. CASE Extracts(w)
  BY <1>8, <1>t, <1>b DEF Extracts
<1>9. CASE Store(w)
  <2>a. item[w] \in Versions
    BY <1>9, <1>c DEF Store, Busy
  <2>b. task[KindOf(w)][item[w]] \in TaskStates
    BY <2>a, <1>a, <1>t
  <2>1. \A k \in Kinds, v \in Versions :
           \/ task'[k][v] = task[k][v]
           \/ /\ k = KindOf(w) /\ v = item[w]
              /\ task'[k][v].kind = "Complete" => pc[w] = "complete"
    BY <1>9, <1>a, <1>t, <2>a, <2>b, MergeKind DEF Store, Outcome
  <2>2. w \in CpuWorkers => item[w] \in fetched
    BY <2>a
  <2>3. /\ pc' = [pc EXCEPT ![w] = "idle"]
        /\ item' = [item EXCEPT ![w] = NoVersion]
        /\ UNCHANGED <<results, fetched, phase, kind, page, queue>>
    BY <1>9 DEF Store
  <2>4. /\ \A u \in Workers : pc'[u] \in {pc[u], "idle"}
        /\ \A u \in Workers : pc'[u] # "idle" => item'[u] = item[u]
        /\ \A u \in Workers : item'[u] \in {item[u], NoVersion}
    BY <2>3, <1>t
  <2>5. pc[w] = "complete" => \/ w \in IoWorkers /\ item[w] \in fetched
                              \/ w \in CpuWorkers /\ <<"extract_crate", item[w]>> \in results
    OBVIOUS
  <2> QED BY <2>1, <2>2, <2>3, <2>4, <2>5, <1>b DEF Kinds
<1> QED BY <1>1, <1>2, <1>3, <1>4, <1>5, <1>6, <1>7, <1>8, <1>9 DEF Work

LEMMA BackedFaults ==
    ASSUME Typed, Backed, Crash \/ \E w \in Workers : ProcessorFails(w)
    PROVE  Backed'
<1> USE PipelineAssumption
<1> USE DEF Backed, DoneIsBacked, tables, loop, processors, faults
<1>1. CASE Crash
  <2>1. fetched \subseteq fetched'
    BY <1>1 DEF Crash
  <2>2. \A s \in Slots : queue'["extract_crate"][s] = NoVersion
    BY <1>1 DEF Crash, Kinds
  <2>3. \A w \in Workers : pc'[w] = "off" /\ item'[w] = NoVersion
    BY <1>1 DEF Crash
  <2>4. kind' = "download" /\ UNCHANGED <<task, results>>
    BY <1>1 DEF Crash, LeaveLoop
  <2> QED BY <2>1, <2>2, <2>3, <2>4 DEF Workers
<1>2. ASSUME NEW w \in Workers, ProcessorFails(w) PROVE Backed'
  <2>1. \A s \in Slots : queue'["extract_crate"][s] \in {queue["extract_crate"][s], NoVersion}
    BY <1>2, KindOfType DEF ProcessorFails, Kinds, Typed, TypeOK
  <2>2. \A u \in Workers : \/ pc'[u] = pc[u] /\ item'[u] = item[u]
                           \/ pc'[u] = "off" /\ item'[u] = NoVersion
    BY <1>2 DEF ProcessorFails, Typed, TypeOK
  <2>3. UNCHANGED <<task, results, fetched, phase, kind, page>>
    BY <1>2 DEF ProcessorFails
  <2> QED BY <2>1, <2>2, <2>3 DEF Workers
<1> QED BY <1>1, <1>2

LEMMA BackedNext == Typed /\ Backed /\ [Next]_vars => Backed'
<1>1. CASE UNCHANGED vars
  BY <1>1 DEF vars, tables, loop, processors, faults, Backed, DoneIsBacked
<1> QED BY <1>1, BackedSchedule, BackedWork, BackedFaults DEF Next

LEMMA PipelineInvariant == Spec => [](Typed /\ Backed)
BY TypeInit, TypeNext, BackedInit, BackedNext, PTL DEF Spec

\* The inductive invariant that the next two follow from.
THEOREM PipelineInvHolds == Spec => []PipelineInv
<1>1. Typed /\ Backed => PipelineInv
  BY DEF Typed, PipelineInv
<1> QED BY <1>1, PipelineInvariant, PTL

\* A completed download has its file, a completed extraction its result.
THEOREM CompletedTasksAreBacked == Spec => []DoneIsBacked
<1>1. Backed => DoneIsBacked
  BY DEF Backed
<1> QED BY <1>1, PipelineInvariant, PTL

\* Nothing is extracted, or about to be, that is not on disk.
THEOREM ExtractionsFollowDownloads == Spec => []ExtractionFollowsDownload
<1>1. ASSUME Typed, Backed PROVE ExtractionFollowsDownload
  <2> USE PipelineAssumption
  <2>1. ASSUME NEW r \in RequestsUnderWay, r.kind = "extract_crate"
        PROVE  r.version \in fetched
    <3>1. CASE phase = "send" /\ r = Request(kind, Head(page), <<"scheduler", slot>>)
      BY <1>1, <2>1, <3>1 DEF Backed, Request
    <3>2. ASSUME NEW c \in Kinds \X Slots, queue[c[1]][c[2]] # NoVersion,
                 r = Request(c[1], queue[c[1]][c[2]], c)
          PROVE  r.version \in fetched
      <4>1. c[1] = "extract_crate" /\ c[2] \in Slots
        BY <2>1, <3>2 DEF Request
      <4> QED BY <1>1, <3>2, <4>1 DEF Backed, Request
    <3>3. ASSUME NEW w \in Workers, Busy(w), r = Request(KindOf(w), item[w], <<"processor", w>>)
          PROVE  r.version \in fetched
      <4>1. w \in CpuWorkers /\ item[w] \in Versions
        BY <1>1, <2>1, <3>3 DEF Request, KindOf, Workers, Typed, HandsFull
      <4> QED BY <1>1, <3>3, <4>1 DEF Backed, Request
    <3>4. ASSUME NEW w \in IoWorkers, pc[w] = "send",
                 r = Request("extract_crate", item[w], <<"processor", w>>)
          PROVE  r.version \in fetched
      BY <1>1, <3>4 DEF Backed, Request
    <3> QED BY <2>1, <3>1, <3>2, <3>3, <3>4 DEF RequestsUnderWay
  <2> QED BY <1>1, <2>1 DEF ExtractionFollowsDownload, Backed
<1> QED BY <1>1, PipelineInvariant, PTL


-----------------------------------------------------------------------------
(***************************************************************************)
(* A round asks for a task once: RoundInv is inductive, for any number of  *)
(* rounds that overlap, with writes of the fetch stage at any time.        *)
(***************************************************************************)
\* A row moves to the front of the version table (REPLACE), or is new there:
\* the rows stay different versions.
LEMMA DistinctRows ==
    ASSUME order \in Seq(Versions), Distinct(order), NEW v \in Versions
    PROVE  Distinct(<<v>> \o (IF Listed(v) THEN RowsBut(v) ELSE order))
<1>a. Len(order) \in Nat /\ \A i \in 1..Len(order) : order[i] \in Versions
  BY LenProperties, ElementOfSeq
<1>1. ASSUME NEW rows \in Seq(Versions), Distinct(rows),
             \A i \in 1..Len(rows) : rows[i] # v
      PROVE  Distinct(<<v>> \o rows)
  <2>1. <<v>> \in Seq(Versions) /\ Len(<<v>>) = 1 /\ <<v>>[1] = v
    OBVIOUS
  <2>2. Len(rows) \in Nat
    BY LenProperties
  <2>3. /\ Len(<<v>> \o rows) = Len(rows) + 1
        /\ \A i \in 1..(Len(rows) + 1) :
              (<<v>> \o rows)[i] = IF i <= 1 THEN v ELSE rows[i - 1]
    <3>1. /\ Len(<<v>> \o rows) = Len(<<v>>) + Len(rows)
          /\ \A i \in 1..(Len(<<v>>) + Len(rows)) :
                (<<v>> \o rows)[i] = IF i <= Len(<<v>>) THEN <<v>>[i] ELSE rows[i - Len(<<v>>)]
      BY <2>1, ConcatProperties
    <3> HIDE DEF Distinct
    <3> QED BY <2>1, <2>2, <3>1
  <2> QED BY <1>1, <2>2, <2>3 DEF Distinct
<1>2. CASE ~Listed(v)
  BY <1>a, <1>1, <1>2 DEF Listed
<1>3. CASE Listed(v)
  <2> DEFINE row == CHOOSE i \in 1..Len(order) : order[i] = v
             n == Len(order)
             front == SubSeq(order, 1, row - 1)
             back == SubSeq(order, row + 1, n)
  <2>1. row \in 1..n /\ order[row] = v
    BY <1>3 DEF Listed
  <2>2. RowsBut(v) = front \o back
    BY DEF RowsBut
  <2> HIDE DEF row
  <2>3. /\ front \in Seq(Versions) /\ Len(front) = row - 1
        /\ \A i \in 1..(row - 1) : front[i] = order[i]
    <3>1. \A i \in 1..(row - 1) : order[i] \in Versions
      BY <1>a, <2>1
    <3>2. row - 1 \in Int
      BY <1>a, <2>1
    <3>3. /\ front \in Seq(Versions)
          /\ Len(front) = IF 1 <= row - 1 THEN (row - 1) - 1 + 1 ELSE 0
          /\ \A i \in 1..((row - 1) - 1 + 1) : front[i] = order[1 + i - 1]
      BY <3>1, <3>2, SubSeqProperties
    <3> HIDE DEF front
    <3> QED BY <1>a, <2>1, <3>3
  <2>4. /\ back \in Seq(Versions) /\ Len(back) = n - row
        /\ \A i \in 1..(n - row) : back[i] = order[row + i]
    <3>1. \A i \in (row + 1)..n : order[i] \in Versions
      BY <1>a, <2>1
    <3>2. row + 1 \in Int /\ n \in Int
      BY <1>a, <2>1
    <3>3. /\ back \in Seq(Versions)
          /\ Len(back) = IF row + 1 <= n THEN n - (row + 1) + 1 ELSE 0
          /\ \A i \in 1..(n - (row + 1) + 1) : back[i] = order[(row + 1) + i - 1]
      BY <3>1, <3>2, SubSeqProperties
    <3> HIDE DEF back
    <3> QED BY <1>a, <2>1, <3>3
  <2> HIDE DEF front, back
  <2>5. /\ front \o back \in Seq(Versions)
        /\ Len(front \o back) = n - 1
        /\ \A i \in 1..(n - 1) :
              (front \o back)[i] = IF i <= row - 1 THEN order[i] ELSE order[i + 1]
    <3>1. /\ front \o back \in Seq(Versions)
          /\ Len(front \o back) = Len(front) + Len(back)
          /\ \A i \in 1..(Len(front) + Len(back)) : (front \o back)[i] =
                IF i <= Len(front) THEN front[i] ELSE back[i - Len(front)]
      BY <2>3, <2>4, ConcatProperties
    <3> QED BY <1>a, <2>1, <2>3, <2>4, <3>1
  <2> DEFINE at(i) == IF i <= row - 1 THEN i ELSE i + 1
  <2>6. \A i \in 1..(n - 1) : /\ at(i) \in 1..n /\ at(i) # row
                            /\ (front \o back)[i] = order[at(i)]
    BY <1>a, <2>1, <2>5
  <2>7. \A i, j \in 1..(n - 1) : at(i) = at(j) => i = j
    BY <1>a, <2>1
  <2> HIDE DEF at
  <2>8. \A i \in 1..(n - 1) : (front \o back)[i] # v
    BY <2>1, <2>6 DEF Distinct
  <2>9. Distinct(front \o back)
    BY <2>5, <2>6, <2>7 DEF Distinct
  <2> QED BY <1>1, <1>3, <2>2, <2>5, <2>8, <2>9
<1> QED BY <1>2, <1>3

\* The part of a page that is left is of different versions too.
LEMMA DistinctTail ==
    ASSUME NEW rows \in Seq(Versions), Distinct(rows), rows # <<>>
    PROVE  /\ Distinct(Tail(rows)) 
           /\ \A i \in 1..Len(Tail(rows)) : /\ i + 1 \in 1..Len(rows)
                                            /\ Tail(rows)[i] = rows[i + 1]
                                            /\ Tail(rows)[i] # Head(rows)
           /\ 1 \in 1..Len(rows) /\ Head(rows) = rows[1]
<1>1. Len(rows) \in Nat \ {0}
  BY EmptySeq
<1>2. /\ Len(Tail(rows)) = Len(rows) - 1
      /\ \A i \in 1..Len(Tail(rows)) : Tail(rows)[i] = rows[i + 1]
  BY HeadTailProperties
<1>3. Head(rows) = rows[1]
  OBVIOUS
<1> QED BY <1>1, <1>2, <1>3 DEF Distinct

\* A page of different rows is of different versions, which are not those of
\* the rows after it.
LEMMA PageRows ==
    ASSUME order \in Seq(Versions), Distinct(order), offset \in Nat,
           PageSize \in Nat \ {0}
    PROVE  /\ Distinct(Rows)
           /\ Len(Rows) \in Nat /\ Len(Rows) <= PageSize
           /\ \A j \in 1..Len(Rows) : /\ offset + j \in (offset + 1)..Len(order)
                                      /\ Rows[j] = order[offset + j]
           /\ \A i \in (offset + Len(Rows) + 1)..Len(order) :
                 /\ i \in (offset + 1)..Len(order)
                 /\ \A j \in 1..Len(Rows) : Rows[j] # order[i]
<1> DEFINE end == MinOf(offset + PageSize, Len(order))
<1>1. Len(order) \in Nat /\ \A i \in 1..Len(order) : order[i] \in Versions
  BY LenProperties, ElementOfSeq
<1>2. end \in Nat /\ end <= Len(order) /\ end <= offset + PageSize
  BY <1>1 DEF MinOf
<1> HIDE DEF end
<1>3. \A i \in (offset + 1)..end : order[i] \in Versions
  BY <1>1, <1>2
<1>4. /\ Len(SubSeq(order, offset + 1, end)) =
            IF offset + 1 <= end THEN end - (offset + 1) + 1 ELSE 0
      /\ \A i \in 1..(end - (offset + 1) + 1) :
            SubSeq(order, offset + 1, end)[i] = order[(offset + 1) + i - 1]
  BY <1>2, <1>3, SubSeqProperties
<1>5. Rows = SubSeq(order, offset + 1, end)
  BY DEF Rows, end
<1>6. /\ Len(Rows) \in Nat /\ Len(Rows) <= PageSize
      /\ \A j \in 1..Len(Rows) : /\ offset + j \in (offset + 1)..Len(order)
                                 /\ Rows[j] = order[offset + j]
  BY <1>1, <1>2, <1>4, <1>5
<1>7. Distinct(Rows)
  BY <1>1, <1>6 DEF Distinct
<1>8. ASSUME NEW i \in (offset + Len(Rows) + 1)..Len(order)
      PROVE  /\ i \in (offset + 1)..Len(order)
             /\ \A j \in 1..Len(Rows) : Rows[j] # order[i]
  BY <1>1, <1>6, <1>8 DEF Distinct
<1> QED BY <1>6, <1>7, <1>8

LEMMA RoundInit == Init => RoundInv
<1> SUFFICES ASSUME Init PROVE RoundInv
  OBVIOUS
<1> USE PipelineAssumption DEF Init
<1>1. RowsAhead
  BY DEF RowsAhead, Distinct, MorePages
<1>2. PageIsAhead
  BY <1>1 DEF PageIsAhead, Distinct, MorePages
<1>3. ChannelsAreRead
  BY DEF ChannelsAreRead
<1>4. InOnePlace
  BY DEF InOnePlace, NoExtraction, Kinds, Workers
<1> QED BY <1>2, <1>3, <1>4 DEF RoundInv

\* The fetch stage and the scheduling loop keep a request in one place.
LEMMA RoundSchedule ==
    ASSUME Typed, RoundInv,
           \/ \E v \in Versions : StoreVersion(v)
           \/ Schedule
           \/ SchedulerFails
    PROVE  RoundInv'
<1> USE PipelineAssumption
<1> USE DEF RoundInv, tables, loop, processors, faults
<1>t. /\ order \in Seq(Versions) /\ page \in Seq(Versions) /\ offset \in Nat
      /\ kind \in Kinds /\ slot \in Slots
      /\ pc \in [Workers -> WorkerStates]
      /\ queue \in [Kinds -> [Slots -> Versions \cup {NoVersion}]]
  BY DEF Typed, TypeOK
<1>p. page # <<>> => /\ Head(page) \in Versions /\ Tail(page) \in Seq(Versions)
                     /\ slot \notin shifted => Unheld(slot, Head(page))
  BY <1>t, DistinctTail, HeadTailProperties DEF PageIsAhead, RowsAhead
<1>s. ASSUME UNCHANGED <<queue, pc, item>>, shifted \subseteq shifted'
      PROVE  ChannelsAreRead' /\ InOnePlace'
  BY <1>s DEF ChannelsAreRead, HasReceiver, InOnePlace, NoExtraction
<1>u. ASSUME UNCHANGED <<queue, item>>
      PROVE  \A v : \A s \in Slots : Unheld(s, v)' <=> Unheld(s, v)
  BY <1>u DEF Unheld
<1>1. ASSUME NEW v \in Versions, StoreVersion(v) PROVE RoundInv'
  <2>1. Distinct(order') /\ order' \in Seq(Versions)
    BY <1>1, <1>t, DistinctRows, RowsType DEF StoreVersion, PageIsAhead
  <2>2. /\ UNCHANGED <<phase, page, offset, last, slot, queue, pc, item>>
        /\ shifted' = IF MorePages THEN shifted \cup {slot} ELSE shifted
    BY <1>1 DEF StoreVersion
  <2>3. slot \notin shifted' => RowsAhead'
    BY <2>2 DEF PageIsAhead, RowsAhead, Unheld, MorePages
  <2>4. PageIsAhead'
    BY <2>1, <2>2, <2>3 DEF PageIsAhead, MorePages
  <2> QED BY <1>s, <2>2, <2>4
<1>2. ASSUME NEW s \in Slots, StartRound(s) PROVE RoundInv'
  <2>1. \A w \in Workers : SlotOf[w] = s => pc[w] = "off" /\ item[w] = NoVersion
    BY <1>2 DEF StartRound, Typed, HandsFull, Busy
  <2>2. \A k \in Kinds : queue[k][s] = NoVersion
    BY <2>1 DEF ChannelsAreRead, HasReceiver, WorkersAt
  <2>3. /\ UNCHANGED <<order, page, offset, queue, item>>
        /\ phase = "rest" /\ phase' = "load" /\ slot' = s /\ shifted' = shifted \ {s}
        /\ \A w \in Workers : pc'[w] = IF SlotOf[w] = s THEN "new" ELSE pc[w]
    BY <1>2 DEF StartRound
  <2>4. PageIsAhead'
    <3>1. page = <<>> /\ offset = 0
      BY <2>3 DEF PageIsAhead
    <3>2. \A v \in Versions : Unheld(s, v)'
      BY <2>1, <2>2, <2>3 DEF Unheld
    <3> QED BY <2>3, <3>1, <3>2 DEF PageIsAhead, RowsAhead, Distinct, MorePages
  <2>5. ChannelsAreRead'
    BY <2>2, <2>3 DEF ChannelsAreRead, HasReceiver, WorkersAt
  <2>6. InOnePlace'
    <3>1. ASSUME NEW t \in Slots \ shifted'
          PROVE  t = s \/ t \in Slots \ shifted
      BY <2>3
    <3>2. \A w \in Workers : pc'[w] \in {"begin", "work", "send"} =>
              SlotOf[w] # s /\ pc'[w] = pc[w]
      BY <2>3
    <3> QED BY <2>1, <2>2, <2>3, <3>1, <3>2
            DEF InOnePlace, NoExtraction, Kinds, Workers
  <2> QED BY <2>4, <2>5, <2>6
<1>3. CASE LoadPage
  <2>1. /\ phase = "load" /\ phase' = "visit" /\ page' = Rows
        /\ offset' = offset + Len(Rows) /\ last' = (Len(Rows) # PageSize)
        /\ UNCHANGED <<order, slot, shifted, queue, pc, item>>
    BY <1>3 DEF LoadPage
  <2>2. /\ Rows \in Seq(Versions) /\ Len(Rows) \in Nat /\ Distinct(Rows)
        /\ \A j \in 1..Len(Rows) : /\ offset + j \in (offset + 1)..Len(order)
                                   /\ Rows[j] = order[offset + j]
        /\ \A i \in (offset + Len(Rows) + 1)..Len(order) :
              /\ i \in (offset + 1)..Len(order)
              /\ \A j \in 1..Len(Rows) : Rows[j] # order[i]
    BY <1>t, PageType, PageRows DEF PageIsAhead
  <2>3. ASSUME slot \notin shifted PROVE RowsAhead'
    <3>1. \A i \in (offset + 1)..Len(order) : Unheld(slot, order[i])
      <4>1. CASE offset = 0
        <5>1. Len(order) \in Nat /\ \A i \in 1..Len(order) : order[i] \in Versions
          BY <1>t, LenProperties, ElementOfSeq
        <5> QED BY <2>1, <2>3, <4>1, <5>1 DEF PageIsAhead, RowsAhead
      <4>2. CASE offset > 0
        BY <2>1, <2>3, <4>2 DEF PageIsAhead, RowsAhead, MorePages
      <4> QED BY <1>t, <4>1, <4>2
    <3>2. \A j \in 1..Len(Rows) : Unheld(slot, Rows[j])
      BY <2>2, <3>1
    <3>3. \A i \in (offset + Len(Rows) + 1)..Len(order) :
             Unheld(slot, order[i]) /\ \A j \in 1..Len(Rows) : Rows[j] # order[i]
      BY <2>2, <3>1
    <3>4. phase' # "load"
      BY <2>1
    <3> HIDE <1>3
    <3> QED BY <1>u, <1>t, <2>1, <2>2, <3>2, <3>3, <3>4 DEF RowsAhead
  <2>4. MorePages' => offset' > 0
    <3>1. MorePages' => Len(Rows) = PageSize
      BY <2>1, Zenon DEF MorePages
    <3> QED BY <1>t, <2>1, <2>2, <3>1
  <2>5. PageIsAhead'
    BY <2>1, <2>3, <2>4 DEF PageIsAhead
  <2> QED BY <1>s, <2>1, <2>5
<1>4. CASE Submit
  <2>1. /\ phase = "visit" /\ phase' = "send"
        /\ UNCHANGED <<order, page, offset, last, slot, shifted, queue, pc, item>>
    BY <1>4 DEF Submit
  <2>2. PageIsAhead'
    BY <2>1 DEF PageIsAhead, RowsAhead, Unheld, MorePages
  <2> QED BY <1>s, <2>1, <2>2
<1>5. CASE VisitExtraction \/ NextPage
  <2>1. /\ phase = "visit" /\ phase' \in {"visit", "load"}
        /\ phase' = "load" => page = <<>> /\ ~last
        /\ UNCHANGED <<order, page, offset, last, slot, shifted, queue, pc, item>>
    BY <1>5 DEF VisitExtraction, NextPage
  <2>2. ASSUME slot \notin shifted PROVE RowsAhead'
    <3>1. MorePages' => MorePages
      BY <2>1 DEF MorePages
    <3>2. phase' = "load" => MorePages
      BY <2>1 DEF MorePages
    <3>3. phase' = "load" => offset' > 0
      BY <2>1, <3>2 DEF PageIsAhead
    <3> QED BY <1>u, <1>t, <2>1, <2>2, <3>1, <3>3 DEF PageIsAhead, RowsAhead
  <2>3. PageIsAhead'
    BY <1>t, <2>1, <2>2 DEF PageIsAhead, MorePages
  <2> QED BY <1>s, <2>1, <2>3
<1>6. CASE Skip
  <2>1. /\ phase = "visit" /\ phase' = "visit" /\ page # <<>> /\ page' = Tail(page)
        /\ UNCHANGED <<order, offset, last, slot, shifted, queue, pc, item>>
    BY <1>6 DEF Skip, NextVersion
  <2>2. ASSUME slot \notin shifted PROVE RowsAhead'
    <3>1. /\ Distinct(page')
          /\ \A i \in 1..Len(page') : i + 1 \in 1..Len(page) /\ page'[i] = page[i + 1]
      BY <1>t, <2>1, <2>2, DistinctTail DEF PageIsAhead, RowsAhead
    <3>2. MorePages' => MorePages
      BY <2>1 DEF MorePages
    <3> QED BY <1>u, <1>t, <2>1, <2>2, <3>1, <3>2 DEF PageIsAhead, RowsAhead
  <2>3. PageIsAhead'
    BY <1>t, <2>1, <2>2 DEF PageIsAhead, MorePages
  <2> QED BY <1>s, <2>1, <2>3
<1>7. CASE SendRequest
  <2> DEFINE v == Head(page)
  <2>1. /\ phase = "send" /\ phase' = "visit" /\ page' = Tail(page)
        /\ HasReceiver(kind, slot) /\ queue[kind][slot] = NoVersion
        /\ queue' = [queue EXCEPT ![kind][slot] = v]
        /\ UNCHANGED <<order, offset, last, slot, shifted, pc, item>>
    BY <1>7 DEF SendRequest, NextVersion
  <2>2. page # <<>> /\ v \in Versions /\ (slot \notin shifted => Unheld(slot, v))
    BY <1>p, <2>1 DEF Typed, HandsFull
  <2>3. /\ queue'[kind][slot] = v
        /\ \A k \in Kinds, s \in Slots : k # kind \/ s # slot => queue'[k][s] = queue[k][s]
    BY <1>t, <2>1
  <2> HIDE DEF v
  <2>4. ASSUME slot \notin shifted PROVE RowsAhead'
    <3>1. \A i \in 1..Len(page') : /\ i + 1 \in 1..Len(page)
                                   /\ page'[i] = page[i + 1] /\ page'[i] # v
      BY <1>t, <2>1, <2>2, <2>4, DistinctTail DEF PageIsAhead, RowsAhead, v
    <3>2. \A k \in Kinds : queue'[k][slot] \in {queue[k][slot], v}
      BY <1>t, <2>3
    <3>3. Distinct(page')
      BY <1>t, <2>1, <2>2, <2>4, DistinctTail DEF PageIsAhead, RowsAhead
    <3>4. ASSUME NEW i \in 1..Len(page') PROVE Unheld(slot, page[i])'
      BY <2>1, <2>4, <3>1, <3>2 DEF PageIsAhead, RowsAhead, Unheld
    <3>5. MorePages' => MorePages
      BY <2>1 DEF MorePages
    <3>6. 1 \in 1..Len(page) /\ page[1] = v
      BY <1>t, <2>2, <2>4, DistinctTail DEF PageIsAhead, RowsAhead, v
    <3>7. ASSUME MorePages', NEW i \in (offset' + 1)..Len(order')
          PROVE  Unheld(slot, order[i])' /\ \A j \in 1..Len(page') : page'[j] # order'[i]
      <4>1. /\ Unheld(slot, order[i]) /\ order'[i] = order[i]
            /\ \A j \in 1..Len(page) : page[j] # order[i]
        BY <2>1, <2>4, <3>5, <3>7 DEF PageIsAhead, RowsAhead
      <4> QED BY <2>1, <3>1, <3>2, <3>6, <4>1 DEF Unheld
    <3> QED BY <2>1, <3>3, <3>4, <3>7 DEF RowsAhead
  <2>5. PageIsAhead'
    BY <2>1, <2>4 DEF PageIsAhead, MorePages
  <2>6. ChannelsAreRead'
    BY <1>t, <2>1, <2>3 DEF ChannelsAreRead, HasReceiver
  <2>7. InOnePlace'
    <3>1. ASSUME NEW s \in Slots \ shifted, s # slot, NEW k \in Kinds
          PROVE  queue'[k][s] = queue[k][s]
      BY <2>3, <3>1
    <3> QED BY <1>t, <2>1, <2>2, <2>3, <3>1, KindOfType
            DEF InOnePlace, NoExtraction, Unheld, Kinds, Workers
  <2> QED BY <2>5, <2>6, <2>7
<1>8. CASE SendPanics \/ EndRound \/ SchedulerFails
  <2>1. /\ phase' \in {"rest", "panicked"} /\ page' = <<>> /\ offset' = 0
        /\ UNCHANGED <<order, slot, shifted, queue, pc, item>>
    BY <1>8 DEF SendPanics, EndRound, SchedulerFails, LeaveLoop
  <2>2. PageIsAhead'
    BY <2>1 DEF PageIsAhead, RowsAhead, Distinct, MorePages
  <2> QED BY <1>s, <2>1, <2>2
<1> QED BY <1>1, <1>2, <1>3, <1>4, <1>5, <1>6, <1>7, <1>8 DEF Schedule

\* The processors: a request is handed on, never doubled.
LEMMA RoundWork ==
    ASSUME Typed, RoundInv, NEW w \in Workers, Work(w)
    PROVE  RoundInv'
<1> USE PipelineAssumption
<1> USE DEF RoundInv, tables, loop, processors, faults
<1>t. /\ pc \in [Workers -> WorkerStates]
      /\ item \in [Workers -> Versions \cup {NoVersion}]
      /\ queue \in [Kinds -> [Slots -> Versions \cup {NoVersion}]]
      /\ page \in Seq(Versions) /\ order \in Seq(Versions) /\ offset \in Nat
  BY DEF Typed, TypeOK
<1>k. KindOf(w) \in Kinds /\ SlotOf[w] \in Slots
  BY KindOfType
<1>w. /\ w \in IoWorkers => KindOf(w) = "download" /\ w \notin CpuWorkers
      /\ w \in CpuWorkers => KindOf(w) = "extract_crate" /\ w \notin IoWorkers
      /\ \A u \in IoWorkers : u \in Workers /\ KindOf(u) = "download"
      /\ \A u \in CpuWorkers : u \in Workers /\ KindOf(u) = "extract_crate"
  BY DEF KindOf, Workers
<1>c. Busy(w) => item[w] \in Versions
  BY DEF Typed, HandsFull
<1>p. ASSUME UNCHANGED <<order, phase, page, offset, last, slot, shifted>>,
             slot \notin shifted =>
                \A v \in Versions : Unheld(slot, v) => Unheld(slot, v)'
      PROVE  PageIsAhead'
  <2>1. \A i \in 1..Len(page) : page[i] \in Versions
    BY <1>t, ElementOfSeq
  <2>2. \A i \in (offset + 1)..Len(order) : order[i] \in Versions
    BY <1>t, ElementOfSeq, LenProperties
  <2>3. ASSUME slot \notin shifted PROVE RowsAhead'
    <3>1. \A i \in 1..Len(page) : Unheld(slot, page[i])'
      BY <1>p, <2>1, <2>3 DEF PageIsAhead, RowsAhead
    <3>2. MorePages => \A i \in (offset + 1)..Len(order) : Unheld(slot, order[i])'
      BY <1>p, <2>2, <2>3 DEF PageIsAhead, RowsAhead
    <3> QED BY <1>p, <2>3, <3>1, <3>2 DEF PageIsAhead, RowsAhead, MorePages
  <2> QED BY <1>p, <2>3 DEF PageIsAhead, MorePages
<1>1. CASE Receive(w)
  <2> DEFINE v == queue[KindOf(w)][SlotOf[w]]
  <2>1. /\ v \in Versions /\ item'[w] = v /\ pc[w] = "idle" /\ pc'[w] = "begin"
        /\ item[w] = NoVersion
        /\ \A u \in Workers \ {w} : item'[u] = item[u] /\ pc'[u] = pc[u]
        /\ queue'[KindOf(w)][SlotOf[w]] = NoVersion
        /\ \A k \in Kinds, s \in Slots :
              k # KindOf(w) \/ s # SlotOf[w] => queue'[k][s] = queue[k][s]
    <3>1. /\ pc[w] = "idle" /\ v # NoVersion
          /\ item' = [item EXCEPT ![w] = v]
          /\ queue' = [queue EXCEPT ![KindOf(w)][SlotOf[w]] = NoVersion]
          /\ pc' = [pc EXCEPT ![w] = "begin"]
      BY <1>1 DEF Receive
    <3>2. item[w] = NoVersion
      BY <3>1 DEF Typed, HandsFull, Busy
    <3>3. v \in Versions
      BY <1>t, <1>k, <3>1
    <3> HIDE DEF v
    <3> QED BY <1>t, <1>k, <3>1, <3>2, <3>3
  <2>3. UNCHANGED <<order, phase, page, offset, last, slot, shifted>>
    BY <1>1 DEF Receive
  <2> HIDE DEF v
  <2>v. queue[KindOf(w)][SlotOf[w]] = v
    BY DEF v
  <2>4. \A x \in Versions, s \in Slots : Unheld(s, x) => Unheld(s, x)'
    BY <1>k, <2>1, <2>v DEF Unheld
  <2>5. ChannelsAreRead'
    <3>1. ASSUME NEW k \in Kinds, NEW s \in Slots, queue'[k][s] # NoVersion
          PROVE  HasReceiver(k, s)'
      <4>1. (k # KindOf(w) \/ s # SlotOf[w]) /\ queue[k][s] # NoVersion
        BY <2>1, <3>1
      <4> QED BY <2>1, <4>1 DEF ChannelsAreRead, HasReceiver, WorkersAt
    <3> QED BY <3>1 DEF ChannelsAreRead
  <2>6. InOnePlace'
    <3>1. ASSUME NEW s \in Slots \ shifted, s # SlotOf[w]
          PROVE  /\ \A k \in Kinds : queue'[k][s] = queue[k][s]
                 /\ \A u \in Workers : SlotOf[u] = s => item'[u] = item[u] /\ pc'[u] = pc[u]
      BY <2>1, <3>1
    <3> QED BY <1>k, <1>w, <2>1, <2>3, <2>v, <3>1 DEF InOnePlace, NoExtraction, Kinds, Workers
  <2>7. slot \in Slots
    BY DEF Typed, TypeOK
  <2> QED BY <1>p, <2>3, <2>4, <2>5, <2>6, <2>7
<1>2. CASE Leave(w)
  <2>1. /\ queue[KindOf(w)][SlotOf[w]] = NoVersion
        /\ pc[w] = "idle" /\ pc' = [pc EXCEPT ![w] = "off"]
        /\ UNCHANGED <<order, phase, page, offset, last, slot, shifted, queue, item>>
    BY <1>2 DEF Leave
  <2>2. PageIsAhead'
    BY <1>p, <2>1 DEF Unheld
  <2>3. ChannelsAreRead'
    <3>1. ASSUME NEW k \in Kinds, NEW s \in Slots, queue'[k][s] # NoVersion
          PROVE  HasReceiver(k, s)'
      <4>1. PICK u \in WorkersAt(k, s) : pc[u] # "off"
        BY <2>1, <3>1 DEF ChannelsAreRead, HasReceiver
      <4>2. u # w
        BY <2>1, <3>1, <4>1 DEF WorkersAt
      <4> QED BY <1>t, <2>1, <4>1, <4>2 DEF HasReceiver, WorkersAt
    <3> QED BY <3>1 DEF ChannelsAreRead
  <2>4. InOnePlace'
    BY <1>t, <1>w, <2>1 DEF InOnePlace, NoExtraction
  <2> QED BY <2>2, <2>3, <2>4
\* what most steps of a processor leave alone
<1>a. ASSUME UNCHANGED <<order, phase, page, offset, last, slot, shifted, queue, item>>,
             NEW new \in WorkerStates \ {"off"}, pc' = [pc EXCEPT ![w] = new],
             new \in {"begin", "work", "send"} => pc[w] \in {"begin", "work", "send"}
      PROVE  PageIsAhead' /\ ChannelsAreRead' /\ InOnePlace'
  <2>1. PageIsAhead'
    BY <1>a, <1>p DEF Unheld
  <2>2. ChannelsAreRead'
    BY <1>a, <1>t DEF ChannelsAreRead, HasReceiver, WorkersAt
  <2>3. InOnePlace'
    BY <1>a, <1>t, <1>w DEF InOnePlace, NoExtraction
  <2> QED BY <2>1, <2>2, <2>3
<1>3. CASE OpenTasks(w)
  BY <1>a, <1>3 DEF OpenTasks, WorkerStates
<1>4. CASE Begin(w)
  BY <1>a, <1>4 DEF Begin, WorkerStates
<1>5. CASE Fetches(w) \/ FindsWholeFile(w) \/ TimesOut(w) \/ DownloadFails(w)
           \/ Extracts(w) \/ ExtractionFails(w)
  <2>1. PICK new \in {"begin", "send", "complete", "failed"} : pc' = [pc EXCEPT ![w] = new]
    BY <1>5 DEF Fetches, FindsWholeFile, TimesOut, DownloadFails, Extracts, ExtractionFails
  <2>2. /\ pc[w] = "work"
        /\ UNCHANGED <<order, phase, page, offset, last, slot, shifted, queue, item>>
    BY <1>5 DEF Fetches, FindsWholeFile, TimesOut, DownloadFails, Extracts, ExtractionFails
  <2> QED BY <1>a, <2>1, <2>2 DEF WorkerStates
<1>6. CASE ScheduleExtraction(w)
  <2> DEFINE v == item[w]
  <2>1. /\ w \in IoWorkers /\ pc[w] = "send" /\ pc' = [pc EXCEPT ![w] = "complete"]
        /\ v \in Versions
        /\ UNCHANGED <<order, phase, page, offset, last, slot, shifted, item>>
    BY <1>6, <1>c DEF ScheduleExtraction, Busy
  <2>2. \/ queue' = queue
        \/ /\ HasReceiver("extract_crate", SlotOf[w])
           /\ queue' = [queue EXCEPT !["extract_crate"][SlotOf[w]] = v]
    BY <1>6 DEF ScheduleExtraction
  <2>3. CASE queue' = queue
    BY <1>a, <2>1, <2>3 DEF WorkerStates
  <2>4. CASE /\ HasReceiver("extract_crate", SlotOf[w])
             /\ queue' = [queue EXCEPT !["extract_crate"][SlotOf[w]] = v]
    <3> HIDE DEF v
    <3>v. item[w] = v
      BY DEF v
    <3>1. /\ queue'["extract_crate"][SlotOf[w]] = v
          /\ \A k \in Kinds, s \in Slots :
                k = "download" \/ s # SlotOf[w] => queue'[k][s] = queue[k][s]
      BY <1>t, <1>k, <2>4 DEF Kinds
    <3>2. \A x \in Versions, s \in Slots : Unheld(s, x) => Unheld(s, x)'
      BY <2>1, <3>1, <3>v DEF Unheld, Kinds, Workers
    <3>3. slot \in Slots
      BY DEF Typed, TypeOK
    <3>4. PageIsAhead'
      BY <1>p, <2>1, <3>2, <3>3
    <3>5. ChannelsAreRead'
      <4>1. \A k \in Kinds, s \in Slots : HasReceiver(k, s) => HasReceiver(k, s)'
        BY <1>t, <2>1 DEF HasReceiver, WorkersAt
      <4>2. \A k \in Kinds, s \in Slots :
               queue'[k][s] = queue[k][s] \/ (k = "extract_crate" /\ s = SlotOf[w])
        BY <3>1 DEF Kinds
      <4> QED BY <2>4, <4>1, <4>2 DEF ChannelsAreRead
    <3>6. InOnePlace'
      <4>1. \A u \in IoWorkers : pc'[u] \in {"begin", "work", "send"} => pc[u] = pc'[u] /\ u # w
        BY <1>t, <1>w, <2>1
      <4>2. SUFFICES ASSUME NEW s \in Slots \ shifted
                     PROVE
            /\ \A u, x \in Workers :
                  /\ KindOf(u) = KindOf(x) /\ SlotOf[u] = s /\ SlotOf[x] = s
                  /\ item[u] = item[x] /\ item[u] # NoVersion
                  => u = x
            /\ \A u \in Workers :
                  SlotOf[u] = s /\ item[u] # NoVersion => queue'[KindOf(u)][s] # item[u]
            /\ queue["download"][s] # NoVersion => NoExtraction(s, queue["download"][s])'
            /\ \A u \in IoWorkers :
                  SlotOf[u] = s /\ pc'[u] \in {"begin", "work", "send"}
                     => NoExtraction(s, item[u])'
        <5>1. \A s \in Slots : queue'["download"][s] = queue["download"][s]
          BY <3>1 DEF Kinds
        <5> QED BY <2>1, <4>2, <5>1 DEF InOnePlace, NoExtraction
      <4>3. CASE s # SlotOf[w]
        <5>1. \A k \in Kinds : queue'[k][s] = queue[k][s]
          BY <3>1, <4>3
        <5>2. queue'["download"][s] = queue["download"][s]
          BY <5>1 DEF Kinds
        <5>3. queue'["extract_crate"][s] = queue["extract_crate"][s] /\ item' = item
          BY <2>1, <5>1 DEF Kinds
        <5>4. \A u \in Workers : queue'[KindOf(u)][s] = queue[KindOf(u)][s]
          BY <5>1, KindOfType
        <5> QED BY <4>1, <5>2, <5>3, <5>4 DEF InOnePlace, NoExtraction
      <4>4. CASE s = SlotOf[w]
        <5>1. /\ \A u \in Workers : SlotOf[u] = s /\ u \in IoWorkers /\ u # w => item[u] # v
              /\ NoExtraction(s, v)
              /\ queue["download"][s] # v
          BY <1>w, <2>1, <3>v, <4>4 DEF InOnePlace
        <5>2. queue'["extract_crate"][s] = v /\ queue'["download"][s] = queue["download"][s]
          BY <3>1, <4>4 DEF Kinds
        <5>3. item' = item
          BY <2>1
        <5>4. \A u \in Workers :
                 SlotOf[u] = s /\ item[u] # NoVersion => queue'[KindOf(u)][s] # item[u]
          BY <5>1, <5>2 DEF InOnePlace, NoExtraction, KindOf, Workers
        <5> QED BY <1>w, <4>1, <4>4, <5>1, <5>2, <5>3, <5>4 DEF InOnePlace, NoExtraction
      <4> QED BY <4>3, <4>4
    <3> QED BY <3>4, <3>5, <3>6
  <2> QED BY <2>2, <2>3, <2>4
<1>7. CASE Store(w)
  <2>1. /\ pc[w] \in {"complete", "failed"} /\ pc' = [pc EXCEPT ![w] = "idle"]
        /\ item' = [item EXCEPT ![w] = NoVersion]
        /\ UNCHANGED <<order, phase, page, offset, last, slot, shifted, queue>>
    BY <1>7 DEF Store
  <2>2. PageIsAhead'
    BY <1>p, <1>t, <2>1 DEF Unheld
  <2>3. ChannelsAreRead'
    BY <1>t, <2>1 DEF ChannelsAreRead, HasReceiver, WorkersAt
  <2>4. InOnePlace'
    <3>1. \A u \in Workers : pc[u] \in {"begin", "work", "send"} => item[u] \in Versions
      BY DEF Typed, HandsFull, Busy
    <3>2. \A u \in Workers : \/ item'[u] = item[u] /\ pc'[u] = pc[u]
                             \/ item'[u] = NoVersion /\ pc'[u] = "idle"
      BY <1>t, <2>1
    <3> QED BY <1>w, <2>1, <3>1, <3>2 DEF InOnePlace, NoExtraction
  <2> QED BY <2>2, <2>3, <2>4
<1> QED BY <1>1, <1>2, <1>3, <1>4, <1>5, <1>6, <1>7 DEF Work

LEMMA RoundFaults ==
    ASSUME Typed, RoundInv, Crash \/ \E w \in Workers : ProcessorFails(w)
    PROVE  RoundInv'
<1> USE PipelineAssumption
<1> USE DEF RoundInv, tables, loop, processors, faults
<1>1. CASE Crash
  <2>1. /\ \A k \in Kinds, s \in Slots : queue'[k][s] = NoVersion
        /\ \A w \in Workers : pc'[w] = "off" /\ item'[w] = NoVersion
        /\ phase' = "rest" /\ page' = <<>> /\ offset' = 0
        /\ UNCHANGED order
    BY <1>1 DEF Crash, LeaveLoop
  <2>2. PageIsAhead'
    BY <2>1 DEF PageIsAhead, RowsAhead, Distinct, MorePages
  <2>3. ChannelsAreRead' /\ InOnePlace'
    BY <2>1 DEF ChannelsAreRead, InOnePlace, NoExtraction, Kinds, Workers
  <2> QED BY <2>2, <2>3
<1>2. ASSUME NEW w \in Workers, ProcessorFails(w) PROVE RoundInv'
  <2>t. /\ pc \in [Workers -> WorkerStates]
        /\ item \in [Workers -> Versions \cup {NoVersion}]
        /\ queue \in [Kinds -> [Slots -> Versions \cup {NoVersion}]]
        /\ page \in Seq(Versions) /\ order \in Seq(Versions) /\ offset \in Nat
        /\ slot \in Slots
    BY DEF Typed, TypeOK
  <2>k. KindOf(w) \in Kinds /\ SlotOf[w] \in Slots
    BY KindOfType
  <2>1. /\ pc' = [pc EXCEPT ![w] = "off"] /\ item' = [item EXCEPT ![w] = NoVersion]
        /\ UNCHANGED <<order, phase, page, offset, last, slot, shifted>>
    BY <1>2 DEF ProcessorFails
  <2>2. \/ /\ queue' = [queue EXCEPT ![KindOf(w)][SlotOf[w]] = NoVersion]
        \/ /\ queue' = queue
           /\ \E u \in WorkersAt(KindOf(w), SlotOf[w]) \ {w} : pc[u] # "off"
    BY <1>2 DEF ProcessorFails
  <2>3. \A k \in Kinds, s \in Slots : queue'[k][s] \in {queue[k][s], NoVersion}
    BY <2>t, <2>k, <2>2
  <2>4. \A u \in Workers : \/ item'[u] = item[u] /\ pc'[u] = pc[u]
                           \/ item'[u] = NoVersion /\ pc'[u] = "off"
    BY <2>t, <2>1
  <2>5. PageIsAhead'
    <3>1. \A v \in Versions, s \in Slots : Unheld(s, v) => Unheld(s, v)'
      BY <2>3, <2>4 DEF Unheld
    <3>2. \A i \in 1..Len(page) : page[i] \in Versions
      BY <2>t, ElementOfSeq
    <3>3. \A i \in (offset + 1)..Len(order) : order[i] \in Versions
      BY <2>t, ElementOfSeq, LenProperties
    <3>4. ASSUME slot \notin shifted PROVE RowsAhead'
      <4>1. \A i \in 1..Len(page) : Unheld(slot, page[i])'
        BY <2>t, <2>1, <3>1, <3>2, <3>4 DEF PageIsAhead, RowsAhead
      <4>2. MorePages => \A i \in (offset + 1)..Len(order) : Unheld(slot, order[i])'
        BY <2>t, <2>1, <3>1, <3>3, <3>4 DEF PageIsAhead, RowsAhead
      <4> QED BY <2>t, <2>1, <3>1, <3>4, <4>1, <4>2 DEF PageIsAhead, RowsAhead, MorePages
    <3> QED BY <2>1, <3>4 DEF PageIsAhead, MorePages
  <2>6. ChannelsAreRead'
    <3>1. ASSUME NEW k \in Kinds, NEW s \in Slots, queue'[k][s] # NoVersion
          PROVE  HasReceiver(k, s)'
      <4>1. queue[k][s] # NoVersion
        BY <2>3, <3>1
      <4>2. PICK u \in WorkersAt(k, s) : pc[u] # "off"
        BY <4>1 DEF ChannelsAreRead, HasReceiver
      <4>3. CASE u # w
        BY <2>t, <2>1, <4>2, <4>3 DEF HasReceiver, WorkersAt
      <4>4. CASE u = w
        <5>1. k = KindOf(w) /\ s = SlotOf[w]
          BY <4>2, <4>4 DEF WorkersAt
        <5>2. \E x \in WorkersAt(k, s) \ {w} : pc[x] # "off"
          BY <2>t, <2>2, <3>1, <5>1
        <5> QED BY <2>t, <2>1, <5>2 DEF HasReceiver, WorkersAt
      <4> QED BY <4>3, <4>4
    <3> QED BY <3>1 DEF ChannelsAreRead
  <2>7. InOnePlace'
    <3>1. \A u \in Workers : pc[u] \in {"begin", "work", "send"} => item[u] \in Versions
      BY DEF Typed, HandsFull, Busy
    <3>2. \A k \in Kinds, s \in Slots : queue'[k][s] # NoVersion => queue'[k][s] = queue[k][s]
      BY <2>3
    <3>3. \A u \in Workers : item'[u] # NoVersion => item'[u] = item[u] /\ pc'[u] = pc[u]
      BY <2>4
    <3>4. \A v \in Versions, s \in Slots : NoExtraction(s, v) => NoExtraction(s, v)'
      BY <2>3, <2>4 DEF NoExtraction, Kinds, Workers
    <3>5. SUFFICES ASSUME NEW s \in Slots \ shifted
                   PROVE
          /\ \A u, x \in Workers :
                /\ KindOf(u) = KindOf(x) /\ SlotOf[u] = s /\ SlotOf[x] = s
                /\ item'[u] = item'[x] /\ item'[u] # NoVersion
                => u = x
          /\ \A u \in Workers :
                SlotOf[u] = s /\ item'[u] # NoVersion => queue'[KindOf(u)][s] # item'[u]
          /\ queue'["download"][s] # NoVersion => NoExtraction(s, queue["download"][s])'
          /\ \A u \in IoWorkers :
                SlotOf[u] = s /\ pc'[u] \in {"begin", "work", "send"} => NoExtraction(s, item[u])'
      BY <2>1 DEF InOnePlace
    <3>6. \A u \in Workers :
             SlotOf[u] = s /\ item'[u] # NoVersion => queue'[KindOf(u)][s] # item'[u]
      BY <3>2, <3>3, KindOfType DEF InOnePlace
    <3>7. queue'["download"][s] # NoVersion => NoExtraction(s, queue["download"][s])'
      <4>1. ASSUME queue'["download"][s] # NoVersion
            PROVE  /\ queue'["download"][s] = queue["download"][s]
                   /\ queue["download"][s] \in Versions
                   /\ NoExtraction(s, queue["download"][s])
        BY <2>t, <3>2, <4>1 DEF InOnePlace, Kinds
      <4> QED BY <3>4, <4>1 DEF NoExtraction
    <3>8. ASSUME NEW u \in IoWorkers, SlotOf[u] = s, pc'[u] \in {"begin", "work", "send"}
          PROVE  NoExtraction(s, item[u])'
      <4>1. /\ item'[u] = item[u] /\ item[u] \in Versions /\ NoExtraction(s, item[u])
        BY <2>4, <3>1, <3>8 DEF InOnePlace, Workers
      <4> QED BY <3>4, <4>1 DEF NoExtraction
    <3>9. \A u, x \in Workers :
             /\ KindOf(u) = KindOf(x) /\ SlotOf[u] = s /\ SlotOf[x] = s
             /\ item'[u] = item'[x] /\ item'[u] # NoVersion
             => u = x
      BY <3>3 DEF InOnePlace
    <3> QED BY <3>6, <3>7, <3>8, <3>9
  <2> QED BY <2>5, <2>6, <2>7
<1> QED BY <1>1, <1>2

LEMMA RoundNext ==
    ASSUME Typed, RoundInv, [Next]_vars
    PROVE  RoundInv'
<1>1. CASE UNCHANGED vars
  BY <1>1 DEF vars, tables, loop, processors, faults, RoundInv, PageIsAhead, RowsAhead, Unheld,
              MorePages, ChannelsAreRead, HasReceiver, InOnePlace, NoExtraction
<1> QED BY <1>1, RoundSchedule, RoundWork, RoundFaults DEF Next

LEMMA RoundInvariant == Spec => [](Typed /\ RoundInv)
<1>1. Typed /\ RoundInv /\ [Next]_vars => Typed' /\ RoundInv'
  BY TypeNext, RoundNext
<1> QED BY <1>1, TypeInit, RoundInit, PTL DEF Spec

\* Why a round does not double its requests: they are in one place, and the
\* versions that its loop has still to visit are in none, however many other
\* rounds work beside it (processing.rs, generic.rs).
THEOREM RoundsKeepApart == Spec => []RoundInv
BY RoundInvariant, PTL

\* "No risk of double-scheduling" (iobound.rs schedule_next), as far as it goes:
\* within a round whose pages did not shift, for every number of rounds that
\* overlap, every page size and every fault.
THEOREM RequestsAreSingle == Spec => []OncePerRound
<1>1. ASSUME Typed, RoundInv PROVE OncePerRound
  <2> USE PipelineAssumption
  <2>t. /\ page \in Seq(Versions) /\ slot \in Slots /\ kind \in Kinds
        /\ queue \in [Kinds -> [Slots -> Versions \cup {NoVersion}]]
    BY <1>1 DEF Typed, TypeOK
  <2>w. \A u \in Workers : /\ KindOf(u) \in Kinds /\ SlotOf[u] \in Slots
                           /\ u \in IoWorkers <=> KindOf(u) = "download"
                           /\ Busy(u) => item[u] \in Versions
    BY <1>1, KindOfType DEF KindOf, Typed, HandsFull
  <2> DEFINE Scheduled(r) == phase = "send" /\ r = Request(kind, Head(page), <<"scheduler", slot>>)
             Queued(r, k, s) == /\ queue[k][s] # NoVersion
                                /\ r = Request(k, queue[k][s], <<k, s>>)
             Held(r, u) == /\ Busy(u) /\ r.version = item[u] /\ r.holder = <<"processor", u>>
                           /\ \/ r.kind = KindOf(u)
                              \/ r.kind = "extract_crate" /\ u \in IoWorkers /\ pc[u] = "send"
  <2>1. ASSUME NEW r \in RequestsUnderWay
        PROVE  \/ Scheduled(r)
               \/ \E k \in Kinds, s \in Slots : Queued(r, k, s)
               \/ \E u \in Workers : Held(r, u)
    BY <2>1 DEF RequestsUnderWay, Request, Busy, Workers
  <2>2. ASSUME NEW r, NEW t, RoundOf(r.holder) = RoundOf(t.holder), r.kind = t.kind,
               r.version = t.version, RoundOf(r.holder) \notin shifted, Scheduled(r),
               Scheduled(t) \/ (\E k \in Kinds, s \in Slots : Queued(t, k, s))
                  \/ \E u \in Workers : Held(t, u)
        PROVE  r = t
    <3>1. RoundOf(r.holder) = slot /\ r.version = Head(page)
      BY <2>2 DEF RoundOf, Request
    <3>2. Unheld(slot, Head(page))
      BY <1>1, <2>t, <2>2, <3>1, DistinctTail
         DEF RoundInv, PageIsAhead, RowsAhead, Typed, HandsFull
    <3>3. ASSUME NEW k \in Kinds, NEW s \in Slots, Queued(t, k, s) PROVE FALSE
      <4>1. s = slot /\ queue[k][s] = Head(page)
        BY <2>2, <3>1, <3>3 DEF RoundOf, Request, Kinds
      <4> QED BY <3>2, <4>1 DEF Unheld
    <3>4. ASSUME NEW u \in Workers, Held(t, u) PROVE FALSE
      <4>1. SlotOf[u] = slot /\ item[u] = Head(page)
        BY <2>2, <3>1, <3>4 DEF RoundOf
      <4> QED BY <3>2, <4>1 DEF Unheld
    <3> QED BY <2>2, <3>3, <3>4
  <2>3. ASSUME NEW r, NEW t, RoundOf(r.holder) = RoundOf(t.holder), r.kind = t.kind,
               r.version = t.version, RoundOf(r.holder) \notin shifted,
               NEW u \in Workers, Held(r, u),
               NEW k \in Kinds, NEW s \in Slots, Queued(t, k, s)
        PROVE  FALSE
    <3>1. /\ SlotOf[u] = s /\ s \in Slots \ shifted
          /\ r.kind = k /\ queue[k][s] = item[u] /\ item[u] # NoVersion
      <4>1. r.holder = <<"processor", u>> /\ r.version = item[u] /\ item[u] \in Versions
        BY <2>3, <2>w
      <4>2. t.kind = k /\ t.version = queue[k][s] /\ t.holder = <<k, s>> /\ k # "processor"
        BY <2>3 DEF Request, Kinds
      <4>3. RoundOf(r.holder) = SlotOf[u] /\ RoundOf(t.holder) = s
        BY <4>1, <4>2 DEF RoundOf
      <4> HIDE DEF Held, Queued
      <4> QED BY <2>3, <4>1, <4>2, <4>3
    <3>2. CASE KindOf(u) = k
      BY <1>1, <3>1, <3>2 DEF RoundInv, InOnePlace
    <3>3. CASE KindOf(u) # k
      <4>1. k = "extract_crate" /\ u \in IoWorkers /\ pc[u] = "send"
        BY <2>3, <3>1, <3>3
      <4> QED BY <1>1, <3>1, <4>1 DEF RoundInv, InOnePlace, NoExtraction
    <3> QED BY <3>2, <3>3
  <2>4. ASSUME NEW r \in RequestsUnderWay, NEW t \in RequestsUnderWay,
               RoundOf(r.holder) = RoundOf(t.holder), r.kind = t.kind,
               r.version = t.version, RoundOf(r.holder) \notin shifted,
               NEW u \in Workers, Held(r, u), NEW x \in Workers, Held(t, x)
        PROVE  r = t
    <3>1. /\ SlotOf[u] = SlotOf[x] /\ SlotOf[u] \in Slots \ shifted
          /\ item[u] = item[x] /\ item[u] # NoVersion
      <4>1. /\ r.holder = <<"processor", u>> /\ r.version = item[u] /\ item[u] \in Versions
            /\ t.holder = <<"processor", x>> /\ t.version = item[x]
        BY <2>4, <2>w
      <4>2. RoundOf(r.holder) = SlotOf[u] /\ RoundOf(t.holder) = SlotOf[x]
        BY <4>1 DEF RoundOf
      <4> HIDE DEF Held
      <4> QED BY <2>4, <2>w, <4>1, <4>2
    <3>2. CASE KindOf(u) = KindOf(x)
      <4>1. u = x
        BY <1>1, <3>1, <3>2 DEF RoundInv, InOnePlace
      <4>2. \A q \in RequestsUnderWay : q = [kind |-> q.kind, version |-> q.version,
                                             holder |-> q.holder]
        BY DEF RequestsUnderWay, Request
      <4> QED BY <2>4, <4>1, <4>2
    <3>3. CASE KindOf(u) # KindOf(x)
      <4>1. \/ u \in IoWorkers /\ pc[u] = "send" /\ x \in CpuWorkers
            \/ x \in IoWorkers /\ pc[x] = "send" /\ u \in CpuWorkers
        BY <2>4, <2>w, <3>3 DEF Workers, KindOf
      <4> QED BY <1>1, <3>1, <4>1 DEF RoundInv, InOnePlace, NoExtraction
    <3> QED BY <3>2, <3>3
  <2>5. ASSUME NEW r, NEW t, RoundOf(r.holder) = RoundOf(t.holder), r.kind = t.kind,
               r.version = t.version,
               NEW k \in Kinds, NEW s \in Slots, Queued(r, k, s),
               NEW l \in Kinds, NEW z \in Slots, Queued(t, l, z)
        PROVE  r = t
    BY <2>5 DEF RoundOf, Request, Kinds
  <2> HIDE DEF Scheduled, Queued, Held
  <2> SUFFICES ASSUME NEW r \in RequestsUnderWay, NEW t \in RequestsUnderWay,
                      r.kind = t.kind, r.version = t.version,
                      RoundOf(r.holder) = RoundOf(t.holder), RoundOf(r.holder) \notin shifted
               PROVE  r = t
    BY DEF OncePerRound
  <2>6. CASE Scheduled(r) \/ Scheduled(t)
    BY <2>1, <2>2, <2>6
  <2>7. CASE (\E k \in Kinds, s \in Slots : Queued(r, k, s))
             /\ \E k \in Kinds, s \in Slots : Queued(t, k, s)
    BY <2>5, <2>7
  <2>8. CASE (\E u \in Workers : Held(r, u)) /\ \E u \in Workers : Held(t, u)
    BY <2>4, <2>8
  <2>9. CASE \/ (\E u \in Workers : Held(r, u)) /\ \E k \in Kinds, s \in Slots : Queued(t, k, s)
             \/ (\E u \in Workers : Held(t, u)) /\ \E k \in Kinds, s \in Slots : Queued(r, k, s)
    BY <2>3, <2>9
  <2> QED BY <2>1, <2>6, <2>7, <2>8, <2>9
<1> QED BY <1>1, RoundInvariant, PTL

\* A task that was started is in the hands of a processor until its outcome is
\* stored, however rounds overlap and the program restarts, as long as the task
\* table does not fail (generic.rs processor).
THEOREM StartedTasksAreHeld == Spec => []NoOrphan
<1> USE PipelineAssumption DEF tables, loop, processors, faults
<1>1. Init => NoOrphan
  BY DEF Init, NoOrphan, NotStarted
<1>2. ASSUME Typed, NoOrphan, [Next]_vars PROVE NoOrphan'
  <2> SUFFICES ASSUME dbFailures' = 0 PROVE NoOrphan'
    BY DEF NoOrphan
  <2>0. dbFailures = 0
    <3>1. dbFailures \in Nat
      BY <1>2 DEF Typed, TypeOK
    <3>2. ASSUME NEW w \in Workers, Work(w) PROVE UNCHANGED dbFailures
      BY <3>2 DEF Work, OpenTasks, Receive, Leave, Begin, Fetches, FindsWholeFile, TimesOut,
                  DownloadFails, ScheduleExtraction, Extracts, ExtractionFails, Store
    <3>3. dbFailures' = dbFailures \/ dbFailures' = dbFailures + 1
      BY <1>2, <3>2
         DEF Next, vars, StoreVersion, Schedule, StartRound, LoadPage, Submit, VisitExtraction,
             Skip, SendRequest, SendPanics, NextPage, EndRound, SchedulerFails, ProcessorFails,
             Crash
    <3> QED BY <3>1, <3>3
  <2>t. /\ pc \in [Workers -> WorkerStates]
        /\ item \in [Workers -> Versions \cup {NoVersion}]
        /\ task \in [Kinds -> [Versions -> TaskStates]]
        /\ fresh \in [Kinds -> [Versions -> BOOLEAN]]
    BY <1>2 DEF Typed, TypeOK
  <2>1. CASE UNCHANGED <<task, fresh, item>>
    BY <1>2, <2>0, <2>1 DEF NoOrphan
  <2>2. CASE Crash
    <3>1. \A k \in Kinds, v \in Versions : fresh'[k][v] => task'[k][v].kind = "NotStarted"
      BY <2>2 DEF Crash
    <3> QED BY <3>1 DEF NoOrphan
  <2>3. ASSUME NEW w \in Workers, Work(w) PROVE NoOrphan'
    <3>k. KindOf(w) \in Kinds
      BY KindOfType
    <3>c. Busy(w) => item[w] \in Versions
      BY <1>2 DEF Typed, HandsFull
    <3>1. CASE Receive(w)
      <4>1. item[w] = NoVersion
        BY <1>2, <3>1 DEF Receive, Typed, HandsFull, Busy
      <4>2. \A u \in Workers : item[u] # NoVersion => item'[u] = item[u]
        BY <2>t, <3>1, <4>1 DEF Receive
      <4>3. UNCHANGED <<task, fresh>>
        BY <3>1 DEF Receive
      <4> QED BY <1>2, <2>0, <4>2, <4>3 DEF NoOrphan
    <3>2. CASE Begin(w)
      <4>1. \A k \in Kinds, v \in Versions :
               task'[k][v] = task[k][v] \/ (k = KindOf(w) /\ v = item[w])
        BY <2>t, <3>k, <3>2 DEF Begin
      <4>2. UNCHANGED <<fresh, item>>
        BY <3>2 DEF Begin
      <4> QED BY <1>2, <2>0, <4>1, <4>2 DEF NoOrphan
    <3>3. CASE Store(w)
      <4>v. item[w] \in Versions
        BY <3>c, <3>3 DEF Store, Busy
      <4>1. task'[KindOf(w)][item[w]].kind # "InProgress"
        BY <2>t, <3>k, <3>3, <4>v, MergeKind DEF Store, Outcome, Complete
      <4>2. \A k \in Kinds, v \in Versions :
               \/ k = KindOf(w) /\ v = item[w]
               \/ task'[k][v] = task[k][v] /\ fresh'[k][v] = fresh[k][v]
        BY <2>t, <3>k, <3>3 DEF Store
      <4>3. \A u \in Workers : u # w => item'[u] = item[u]
        BY <2>t, <3>3 DEF Store
      <4> QED BY <1>2, <2>0, <4>1, <4>2, <4>3 DEF NoOrphan
    <3> QED BY <2>1, <2>3, <3>1, <3>2, <3>3
            DEF Work, Leave, OpenTasks, Fetches, FindsWholeFile, TimesOut, DownloadFails,
                ScheduleExtraction, Extracts, ExtractionFails
  <2>4. ASSUME NEW w \in Workers, ProcessorFails(w) PROVE FALSE
    BY <2>0, <2>4 DEF ProcessorFails
  <2>5. CASE UNCHANGED vars
    BY <2>1, <2>5 DEF vars
  <2> QED BY <1>2, <2>1, <2>2, <2>3, <2>4, <2>5
          DEF Next, StoreVersion, Schedule, StartRound, LoadPage, Submit, VisitExtraction,
              Skip, SendRequest, SendPanics, NextPage, EndRound, SchedulerFails
<1> QED BY <1>1, <1>2, TypeInit, TypeNext, PTL DEF Spec

-----------------------------------------------------------------------------
(***************************************************************************)
(* The stage implements the ledger: each of its steps issues a request,    *)
(* passes it on, records its end, loses it, or is not seen in the ledger.  *)
(***************************************************************************)
\* A task that has not failed carries no errors (merge.rs, generic.rs).
LEMMA ErrorsOfFailuresHold == Spec => []ErrorsOfFailures
<1> USE PipelineAssumption DEF tables, loop, processors, faults
<1>1. Init => ErrorsOfFailures
  BY DEF Init, ErrorsOfFailures, NotStarted
<1>2. ASSUME Typed, ErrorsOfFailures, [Next]_vars PROVE ErrorsOfFailures'
  <2>t. task \in [Kinds -> [Versions -> TaskStates]]
    BY <1>2 DEF Typed, TypeOK
  <2>1. CASE UNCHANGED task
    BY <1>2, <2>1 DEF ErrorsOfFailures
  <2>2. ASSUME NEW w \in Workers, NEW other \in {InProgress(0), Outcome(w)},
               task' = [task EXCEPT ![KindOf(w)][item[w]] =
                            Merge(task[KindOf(w)][item[w]], other)]
        PROVE  ErrorsOfFailures'
    <3>1. KindOf(w) \in Kinds
      BY KindOfType
    <3>2. \A mine \in TaskStates : Merge(mine, other).kind \in {"NotStarted", "Complete"}
                                      => Merge(mine, other).errors = 0
      BY DEF Merge, Outcome, InProgress, AttemptsWithFailure, Complete
    <3> QED BY <1>2, <2>t, <2>2, <3>1, <3>2 DEF ErrorsOfFailures
  <2>3. ASSUME NEW w \in Workers, Work(w) PROVE ErrorsOfFailures'
    <3>1. CASE Begin(w)
      BY <2>2, <3>1 DEF Begin
    <3>2. CASE Store(w)
      BY <2>2, <3>2 DEF Store
    <3> QED BY <2>1, <2>3, <3>1, <3>2
            DEF Work, Receive, Leave, OpenTasks, Fetches, FindsWholeFile, TimesOut,
                DownloadFails, ScheduleExtraction, Extracts, ExtractionFails
  <2>4. CASE UNCHANGED vars
    BY <2>1, <2>4 DEF vars
  <2> QED BY <1>2, <2>1, <2>3, <2>4
          DEF Next, StoreVersion, Schedule, StartRound, LoadPage, Submit, VisitExtraction,
              Skip, SendRequest, SendPanics, NextPage, EndRound, SchedulerFails,
              ProcessorFails, Crash
<1> QED BY <1>1, <1>2, TypeInit, TypeNext, PTL DEF Spec

\* The requests under way, by who holds them.
Scheduled(r) == phase = "send" /\ r = Request(kind, Head(page), <<"scheduler", slot>>)

Queued(r, k, s) == queue[k][s] # NoVersion /\ r = Request(k, queue[k][s], <<k, s>>)

Held(r, u) == Busy(u) /\ r = Request(KindOf(u), item[u], <<"processor", u>>)

Sent(r, u) == /\ u \in IoWorkers /\ pc[u] = "send"
              /\ r = Request("extract_crate", item[u], <<"processor", u>>)

LEMMA UnderWay ==
    \A r : r \in RequestsUnderWay <=>
        \/ Scheduled(r)
        \/ \E k \in Kinds, s \in Slots : Queued(r, k, s)
        \/ \E u \in Workers : Held(r, u) \/ Sent(r, u)
<1> SUFFICES ASSUME NEW r
             PROVE  r \in RequestsUnderWay <=>
                       \/ Scheduled(r)
                       \/ \E k \in Kinds, s \in Slots : Queued(r, k, s)
                       \/ \E u \in Workers : Held(r, u) \/ Sent(r, u)
  OBVIOUS
<1> DEFINE A == IF phase = "send" THEN {Request(kind, Head(page), <<"scheduler", slot>>)} ELSE {}
           B == {Request(c[1], queue[c[1]][c[2]], c) :
                    c \in {d \in Kinds \X Slots : queue[d[1]][d[2]] # NoVersion}}
           C == {Request(KindOf(w), item[w], <<"processor", w>>) : w \in {u \in Workers : Busy(u)}}
           D == {Request("extract_crate", item[w], <<"processor", w>>) :
                    w \in {u \in IoWorkers : pc[u] = "send"}}
<1>1. r \in A <=> Scheduled(r)
  BY DEF Scheduled
<1>2. r \in B <=> \E k \in Kinds, s \in Slots : Queued(r, k, s)
  <2>1. ASSUME NEW k \in Kinds, NEW s \in Slots, Queued(r, k, s) PROVE r \in B
    <3>1. <<k, s>> \in Kinds \X Slots /\ <<k, s>>[1] = k /\ <<k, s>>[2] = s
      OBVIOUS
    <3> QED BY <2>1, <3>1 DEF Queued
  <2>2. ASSUME r \in B PROVE \E k \in Kinds, s \in Slots : Queued(r, k, s)
    <3>1. PICK c \in Kinds \X Slots : /\ queue[c[1]][c[2]] # NoVersion
                                      /\ r = Request(c[1], queue[c[1]][c[2]], c)
      BY <2>2
    <3>2. c[1] \in Kinds /\ c[2] \in Slots /\ c = <<c[1], c[2]>>
      OBVIOUS
    <3> QED BY <3>1, <3>2 DEF Queued
  <2> QED BY <2>1, <2>2
<1>3. r \in C \/ r \in D <=> \E u \in Workers : Held(r, u) \/ Sent(r, u)
  BY DEF Held, Sent, Workers
<1>4. r \in RequestsUnderWay <=> r \in A \/ r \in B \/ r \in C \/ r \in D
  BY DEF RequestsUnderWay
<1> HIDE DEF A, B, C, D
<1> QED BY <1>1, <1>2, <1>3, <1>4

LEMMA UnderWayNext ==
    \A r : r \in RequestsUnderWay' <=>
        \/ Scheduled(r)'
        \/ \E k \in Kinds, s \in Slots : Queued(r, k, s)'
        \/ \E u \in Workers : Held(r, u)' \/ Sent(r, u)'
<1> SUFFICES ASSUME NEW r
             PROVE  r \in RequestsUnderWay' <=>
                       \/ Scheduled(r)'
                       \/ \E k \in Kinds, s \in Slots : Queued(r, k, s)'
                       \/ \E u \in Workers : Held(r, u)' \/ Sent(r, u)'
  OBVIOUS
<1> DEFINE A == IF phase = "send" THEN {Request(kind, Head(page), <<"scheduler", slot>>)} ELSE {}
           B == {Request(c[1], queue[c[1]][c[2]], c) :
                    c \in {d \in Kinds \X Slots : queue[d[1]][d[2]] # NoVersion}}
           C == {Request(KindOf(w), item[w], <<"processor", w>>) : w \in {u \in Workers : Busy(u)}}
           D == {Request("extract_crate", item[w], <<"processor", w>>) :
                    w \in {u \in IoWorkers : pc[u] = "send"}}
<1>1. r \in A' <=> Scheduled(r)'
  BY DEF Scheduled
<1>2. r \in B' <=> \E k \in Kinds, s \in Slots : Queued(r, k, s)'
  <2>1. ASSUME NEW k \in Kinds, NEW s \in Slots, Queued(r, k, s)' PROVE r \in B'
    <3>1. <<k, s>> \in Kinds \X Slots /\ <<k, s>>[1] = k /\ <<k, s>>[2] = s
      OBVIOUS
    <3> QED BY <2>1, <3>1 DEF Queued
  <2>2. ASSUME r \in B' PROVE \E k \in Kinds, s \in Slots : Queued(r, k, s)'
    <3>1. PICK c \in Kinds \X Slots : /\ queue'[c[1]][c[2]] # NoVersion
                                      /\ r = Request(c[1], queue'[c[1]][c[2]], c)
      BY <2>2
    <3>2. c[1] \in Kinds /\ c[2] \in Slots /\ c = <<c[1], c[2]>>
      OBVIOUS
    <3> QED BY <3>1, <3>2 DEF Queued
  <2> QED BY <2>1, <2>2
<1>3. r \in C' \/ r \in D' <=> \E u \in Workers : Held(r, u)' \/ Sent(r, u)'
  BY DEF Held, Sent, Workers
<1>4. r \in RequestsUnderWay' <=> r \in A' \/ r \in B' \/ r \in C' \/ r \in D'
  BY DEF RequestsUnderWay
<1> HIDE DEF A, B, C, D
<1> QED BY <1>1, <1>2, <1>3, <1>4

\* A step of one processor, which may touch one channel, changes nothing but
\* what it holds and what is in that channel.
LEMMA ProcessorStep ==
    ASSUME NEW w \in Workers, NEW k \in Kinds, NEW s \in Slots,
           UNCHANGED <<phase, kind, page, slot>>,
           \A u \in Workers \ {w} : pc'[u] = pc[u] /\ item'[u] = item[u],
           \A l \in Kinds, t \in Slots : l # k \/ t # s => queue'[l][t] = queue[l][t]
    PROVE  /\ \A r : r \in RequestsUnderWay' <=>
                \/ r \in RequestsUnderWay /\ ~Held(r, w) /\ ~Sent(r, w) /\ ~Queued(r, k, s)
                \/ Held(r, w)' \/ Sent(r, w)' \/ Queued(r, k, s)'
           /\ DownloadsDelivered' =
                (DownloadsDelivered \ {<<"processor", w>>}) \cup
                (IF w \in IoWorkers /\ pc'[w] \in {"send", "complete"}
                 THEN {<<"processor", w>>} ELSE {})
<1>1. ASSUME NEW r
      PROVE  /\ Scheduled(r)' <=> Scheduled(r)
             /\ \A l \in Kinds, t \in Slots :
                   l # k \/ t # s => (Queued(r, l, t)' <=> Queued(r, l, t))
             /\ \A u \in Workers \ {w} : /\ Held(r, u)' <=> Held(r, u)
                                         /\ Sent(r, u)' <=> Sent(r, u)
  BY DEF Scheduled, Queued, Held, Sent, Busy
<1>2. ASSUME NEW r
      PROVE  /\ Scheduled(r) => r.holder = <<"scheduler", slot>>
             /\ \A l \in Kinds, t \in Slots : Queued(r, l, t) => r.holder = <<l, t>>
             /\ \A u \in Workers : Held(r, u) \/ Sent(r, u) => r.holder = <<"processor", u>>
  BY DEF Scheduled, Queued, Held, Sent, Request
<1>3. \A l \in Kinds : l # "processor" /\ l # "scheduler"
  BY DEF Kinds
<1>4. ASSUME NEW r
      PROVE  r \in RequestsUnderWay' <=>
                \/ r \in RequestsUnderWay /\ ~Held(r, w) /\ ~Sent(r, w) /\ ~Queued(r, k, s)
                \/ Held(r, w)' \/ Sent(r, w)' \/ Queued(r, k, s)'
  BY <1>1, <1>2, <1>3, UnderWay, UnderWayNext
<1>5. DownloadsDelivered' =
          (DownloadsDelivered \ {<<"processor", w>>}) \cup
          (IF w \in IoWorkers /\ pc'[w] \in {"send", "complete"}
           THEN {<<"processor", w>>} ELSE {})
  BY DEF DownloadsDelivered, Workers
<1> QED BY <1>4, <1>5

\* A step of the scheduling loop likewise.
LEMMA LoopStep ==
    ASSUME NEW k \in Kinds, NEW s \in Slots, UNCHANGED item,
           \A u \in Workers : pc'[u] = pc[u] \/ (pc[u] = "off" /\ pc'[u] = "new"),
           \A l \in Kinds, t \in Slots : l # k \/ t # s => queue'[l][t] = queue[l][t]
    PROVE  /\ \A r : r \in RequestsUnderWay' <=>
                \/ r \in RequestsUnderWay /\ ~Scheduled(r) /\ ~Queued(r, k, s)
                \/ Scheduled(r)' \/ Queued(r, k, s)'
           /\ DownloadsDelivered' = DownloadsDelivered
<1>1. ASSUME NEW r
      PROVE  /\ \A l \in Kinds, t \in Slots :
                   l # k \/ t # s => (Queued(r, l, t)' <=> Queued(r, l, t))
             /\ \A u \in Workers : /\ Held(r, u)' <=> Held(r, u)
                                   /\ Sent(r, u)' <=> Sent(r, u)
  BY DEF Queued, Held, Sent, Busy
<1>2. ASSUME NEW r
      PROVE  /\ Scheduled(r) => r.holder = <<"scheduler", slot>>
             /\ \A l \in Kinds, t \in Slots : Queued(r, l, t) => r.holder = <<l, t>>
             /\ \A u \in Workers : Held(r, u) \/ Sent(r, u) => r.holder = <<"processor", u>>
  BY DEF Scheduled, Queued, Held, Sent, Request
<1>3. \A l \in Kinds : l # "processor" /\ l # "scheduler"
  BY DEF Kinds
<1>4. ASSUME NEW r
      PROVE  r \in RequestsUnderWay' <=>
                \/ r \in RequestsUnderWay /\ ~Scheduled(r) /\ ~Queued(r, k, s)
                \/ Scheduled(r)' \/ Queued(r, k, s)'
  <2>1. ASSUME NEW l \in Kinds, NEW t \in Slots, Queued(r, l, t)
        PROVE  ~Scheduled(r) /\ (Queued(r, k, s) => l = k /\ t = s)
    BY <1>2, <1>3, <2>1
  <2>2. ASSUME NEW u \in Workers, Held(r, u) \/ Sent(r, u)
        PROVE  ~Scheduled(r) /\ ~Queued(r, k, s)
    <3>1. r.holder = <<"processor", u>>
      BY <1>2, <2>2
    <3>2. "processor" # "scheduler" /\ k # "processor"
      BY <1>3
    <3> QED BY <1>2, <3>1, <3>2
  <2> QED BY <1>1, <2>1, <2>2, UnderWay, UnderWayNext
<1>5. DownloadsDelivered' = DownloadsDelivered
  BY DEF DownloadsDelivered, Workers
<1> QED BY <1>4, <1>5

\* The invariants that the steps rely on.
StageInv == Typed /\ Backed /\ ErrorsOfFailures

LEMMA LedgerInitially == Init => Ledger!LedgerInit
<1> SUFFICES ASSUME Init PROVE Ledger!LedgerInit
  OBVIOUS
<1>1. /\ phase = "rest" /\ \A k \in Kinds, s \in Slots : queue[k][s] = NoVersion
      /\ \A w \in Workers : pc[w] = "off"
  BY DEF Init
<1>2. RequestsUnderWay = {}
  BY <1>1, UnderWay DEF Scheduled, Queued, Held, Sent, Busy, Workers
<1>3. DownloadsDelivered = {}
  BY <1>1 DEF DownloadsDelivered, Workers
<1>4. fetched = {} /\ task = [k \in Kinds |-> [v \in Versions |-> [kind |-> "NotStarted", errors |-> 0]]]
  BY DEF Init, NotStarted
<1> QED BY <1>2, <1>3, <1>4 DEF Ledger!LedgerInit, Ledger!TaskKinds, Kinds

\* The fetch stage and the scheduling loop: issue, pass on, lose, or nothing.
LEMMA LedgerSchedule ==
    ASSUME StageInv,
           \/ \E v \in Versions : StoreVersion(v)
           \/ Schedule
           \/ SchedulerFails
    PROVE  [Ledger!LedgerNext]_(Ledger!ledger)
<1> USE PipelineAssumption DEF tables, loop, processors, faults
<1>t. /\ page \in Seq(Versions) /\ kind \in Kinds /\ slot \in Slots
      /\ queue \in [Kinds -> [Slots -> Versions \cup {NoVersion}]]
      /\ pc \in [Workers -> WorkerStates]
  BY DEF StageInv, Typed, TypeOK
<1>h. page # <<>> => Head(page) \in Versions
  BY <1>t, HeadTailProperties
<1>u. ASSUME UNCHANGED <<task, fetched, queue, item>>,
             \A u \in Workers : pc'[u] = pc[u] \/ (pc[u] = "off" /\ pc'[u] = "new"),
             \A r : Scheduled(r)' <=> Scheduled(r)
      PROVE  UNCHANGED Ledger!ledger
  <2>1. \A r : Queued(r, kind, slot)' <=>
                /\ queue[kind'][slot'] # NoVersion
                /\ r = Request(kind', queue[kind'][slot'], <<kind', slot'>>)
    BY <1>u DEF Queued
  <2>2. \A r : \A k \in Kinds, s \in Slots : r \in RequestsUnderWay' <=>
                \/ r \in RequestsUnderWay /\ ~Scheduled(r) /\ ~Queued(r, k, s)
                \/ Scheduled(r)' \/ Queued(r, k, s)'
    BY <1>u, LoopStep
  <2>3. \A r : \A k \in Kinds, s \in Slots : Queued(r, k, s)' <=> Queued(r, k, s)
    BY <1>u DEF Queued
  <2>4. \A r : r \in RequestsUnderWay' <=> r \in RequestsUnderWay
    BY <1>t, <1>u, <2>2, <2>3, UnderWay
  <2>5. DownloadsDelivered' = DownloadsDelivered
    BY <1>t, <1>u, LoopStep
  <2> QED BY <1>u, <2>4, <2>5 DEF Ledger!ledger
<1>1. CASE \E v \in Versions : StoreVersion(v)
  BY <1>1, <1>u DEF StoreVersion, Scheduled
<1>2. ASSUME NEW s \in Slots, StartRound(s) PROVE UNCHANGED Ledger!ledger
  BY <1>2, <1>u, <1>t DEF StartRound, Scheduled
<1>3. CASE LoadPage \/ VisitExtraction \/ NextPage
  BY <1>3, <1>u DEF LoadPage, VisitExtraction, NextPage, Scheduled
<1>4. CASE Skip
  BY <1>4, <1>u DEF Skip, NextVersion, Scheduled
<1>5. CASE EndRound \/ SchedulerFails
  BY <1>5, <1>u DEF EndRound, SchedulerFails, LeaveLoop, Scheduled
<1>6. CASE Submit
  <2> DEFINE r == Request(kind, Head(page), <<"scheduler", slot>>)
  <2>1. /\ phase = "visit" /\ phase' = "send" /\ Head(page) \in Versions
        /\ ToBeSubmitted(kind, Head(page))
        /\ UNCHANGED <<task, fetched, kind, page, slot, queue, pc, item>>
    BY <1>6, <1>h DEF Submit
  <2>2. \A x : Scheduled(x)' <=> x = r
    BY <2>1 DEF Scheduled
  <2>3. \A x : ~Scheduled(x)
    BY <2>1 DEF Scheduled
  <2>4. \A x : Queued(x, kind, slot)' <=> Queued(x, kind, slot)
    BY <2>1 DEF Queued
  <2>5. /\ \A x : x \in RequestsUnderWay' <=>
              \/ x \in RequestsUnderWay /\ ~Scheduled(x) /\ ~Queued(x, kind, slot)
              \/ Scheduled(x)' \/ Queued(x, kind, slot)'
        /\ DownloadsDelivered' = DownloadsDelivered
    BY <1>t, <2>1, LoopStep
  <2>6. RequestsUnderWay' = RequestsUnderWay \cup {r}
    BY <1>t, <2>2, <2>3, <2>4, <2>5, UnderWay
  <2>7. r \notin RequestsUnderWay
    <3>1. /\ \A k \in Kinds, s \in Slots : ~Queued(r, k, s)
          /\ \A u \in Workers : ~Held(r, u) /\ ~Sent(r, u)
      BY DEF Queued, Held, Sent, Request, Kinds
    <3> QED BY <2>3, <3>1, UnderWay
  <2>8. kind = "extract_crate" => Head(page) \in fetched
    BY DEF StageInv, Backed
  <2>9. /\ task[kind][Head(page)].kind # "Complete"
        /\ \/ task[kind][Head(page)].kind # "AttemptsWithFailure"
           \/ task[kind][Head(page)].errors < MaxAttempts
    BY <2>1 DEF ToBeSubmitted
  <2>10. Ledger!Issue(r)
    BY <2>1, <2>5, <2>6, <2>7, <2>8, <2>9 DEF Ledger!Issue, Request
  <2>11. /\ r = Ledger!Request(kind, Head(page), <<"scheduler", slot>>)
         /\ <<"scheduler", slot>> \in Holders /\ kind \in Ledger!TaskKinds
    BY <1>t DEF Ledger!Request, Request, Holders, Ledger!TaskKinds, Kinds
  <2> QED BY <2>1, <2>10, <2>11 DEF Ledger!LedgerNext
<1>7. CASE SendRequest
  <2> DEFINE v == Head(page)
             r == Request(kind, v, <<"scheduler", slot>>)
             p == Request(kind, v, <<kind, slot>>)
  <2>1. /\ phase = "send" /\ phase' = "visit" /\ v \in Versions
        /\ queue[kind][slot] = NoVersion
        /\ queue' = [queue EXCEPT ![kind][slot] = v]
        /\ UNCHANGED <<task, fetched, slot, pc, item>>
    BY <1>7, <1>h DEF SendRequest, NextVersion, StageInv, Typed, HandsFull
  <2>2. /\ queue'[kind][slot] = v
        /\ \A k \in Kinds, s \in Slots : k # kind \/ s # slot => queue'[k][s] = queue[k][s]
    BY <1>t, <2>1
  <2>3. \A x : /\ Scheduled(x) <=> x = r
               /\ ~Scheduled(x)'
               /\ ~Queued(x, kind, slot)
    BY <2>1 DEF Scheduled, Queued
  <2>4. \A x : \A k \in Kinds : k = kind => (Queued(x, k, slot)' <=> x = p)
    BY <2>1, <2>2 DEF Queued
  <2>5. \A x : \A k \in Kinds : k = kind =>
           (x \in RequestsUnderWay' <=>
              \/ x \in RequestsUnderWay /\ ~Scheduled(x) /\ ~Queued(x, k, slot)
              \/ Scheduled(x)' \/ Queued(x, k, slot)')
    BY <1>t, <2>1, <2>2, LoopStep
  <2>6. DownloadsDelivered' = DownloadsDelivered
    BY <1>t, <2>1, <2>2, LoopStep
  <2> HIDE DEF v
  <2>7. \A x : x \in RequestsUnderWay' <=> (x \in RequestsUnderWay /\ x # r) \/ x = p
    BY <1>t, <2>3, <2>4, <2>5
  <2>8. RequestsUnderWay' = (RequestsUnderWay \ {r}) \cup {p}
    BY <2>7
  <2>9. r \in RequestsUnderWay
    BY <2>3, UnderWay
  <2>10. p \notin RequestsUnderWay
    <3>1. ~Scheduled(p) /\ \A u \in Workers : ~Held(p, u) /\ ~Sent(p, u)
      BY <1>t DEF Scheduled, Held, Sent, Request, Kinds
    <3>2. \A k \in Kinds, s \in Slots : ~Queued(p, k, s)
      BY <2>1 DEF Queued, Request
    <3> QED BY <3>1, <3>2, UnderWay
  <2>11. /\ r.holder = <<"scheduler", slot>> /\ <<kind, slot>> \in Holders
         /\ p = [r EXCEPT !.holder = <<kind, slot>>]
         /\ r.holder \notin DownloadsDelivered /\ <<kind, slot>> \notin DownloadsDelivered
    <3>1. r.holder = <<"scheduler", slot>> /\ p = [r EXCEPT !.holder = <<kind, slot>>]
      BY DEF Request
    <3>2. <<kind, slot>> \in Holders
      BY <1>t DEF Holders
    <3>3. \A x \in DownloadsDelivered : \E u \in Workers : x = <<"processor", u>>
      BY DEF DownloadsDelivered, Workers
    <3>4. kind # "processor"
      BY <1>t DEF Kinds
    <3> QED BY <3>1, <3>2, <3>3, <3>4
  <2> HIDE DEF r, p
  <2>12. Ledger!Pass(r, <<kind, slot>>)
    BY <2>1, <2>6, <2>8, <2>10, <2>11 DEF Ledger!Pass
  <2> QED BY <2>9, <2>11, <2>12 DEF Ledger!LedgerNext
<1>8. CASE SendPanics
  <2>1. /\ phase' = "panicked"
        /\ UNCHANGED <<task, fetched, slot, queue, pc, item>>
    BY <1>8 DEF SendPanics, LeaveLoop
  <2>2. \A x : ~Scheduled(x)'
    BY <2>1 DEF Scheduled
  <2>3. \A x : \A k \in Kinds, s \in Slots : Queued(x, k, s)' <=> Queued(x, k, s)
    BY <2>1 DEF Queued
  <2>4. /\ \A x : \A k \in Kinds, s \in Slots : x \in RequestsUnderWay' <=>
                \/ x \in RequestsUnderWay /\ ~Scheduled(x) /\ ~Queued(x, k, s)
                \/ Scheduled(x)' \/ Queued(x, k, s)'
        /\ DownloadsDelivered' = DownloadsDelivered
    BY <1>t, <2>1, LoopStep
  <2>5. RequestsUnderWay' \subseteq RequestsUnderWay
    BY <1>t, <2>2, <2>3, <2>4, UnderWay
  <2> QED BY <2>1, <2>4, <2>5 DEF Ledger!LedgerNext, Ledger!Lose
<1> QED BY <1>1, <1>2, <1>3, <1>4, <1>5, <1>6, <1>7, <1>8 DEF Schedule

\* The processors: a request is passed on, started, and its end recorded.
LEMMA LedgerWork ==
    ASSUME StageInv, NEW w \in Workers, Work(w)
    PROVE  [Ledger!LedgerNext]_(Ledger!ledger)
<1> USE PipelineAssumption DEF tables, loop, processors, faults
<1>t. /\ queue \in [Kinds -> [Slots -> Versions \cup {NoVersion}]]
      /\ pc \in [Workers -> WorkerStates]
      /\ item \in [Workers -> Versions \cup {NoVersion}]
      /\ task \in [Kinds -> [Versions -> TaskStates]]
  BY DEF StageInv, Typed, TypeOK
<1>k. KindOf(w) \in Kinds /\ SlotOf[w] \in Slots
  BY KindOfType
<1>w. /\ w \in IoWorkers => KindOf(w) = "download" /\ w \notin CpuWorkers
      /\ w \notin IoWorkers => KindOf(w) = "extract_crate" /\ w \in CpuWorkers
  BY DEF KindOf, Workers
<1>c. Busy(w) => item[w] \in Versions
  BY DEF StageInv, Typed, HandsFull
<1> DEFINE me == <<"processor", w>>
           r == Request(KindOf(w), item[w], me)
           e == Request("extract_crate", item[w], me)
<1>d. me \in DownloadsDelivered <=> w \in IoWorkers /\ pc[w] \in {"send", "complete"}
  BY DEF DownloadsDelivered
<1>m. me \in Holders
  BY DEF Holders
<1>r. /\ r.kind = KindOf(w) /\ r.version = item[w] /\ r.holder = me
      /\ e = [r EXCEPT !.kind = "extract_crate"]
      /\ e.kind = "extract_crate" /\ e.version = item[w] /\ e.holder = me
  BY DEF Request
<1>h. /\ \A x : Held(x, w) <=> Busy(w) /\ x = r
      /\ \A x : Sent(x, w) <=> w \in IoWorkers /\ pc[w] = "send" /\ x = e
      /\ r \in RequestsUnderWay <=> Busy(w) \/ (w \in IoWorkers /\ pc[w] = "send" /\ r = e)
      /\ e \in RequestsUnderWay <=> \/ w \in IoWorkers /\ pc[w] = "send"
                                    \/ Busy(w) /\ e = r
  <2>1. /\ \A x : Held(x, w) <=> Busy(w) /\ x = r
        /\ \A x : Sent(x, w) <=> w \in IoWorkers /\ pc[w] = "send" /\ x = e
    BY DEF Held, Sent
  <2>2. ASSUME NEW x \in {r, e}
        PROVE  /\ ~Scheduled(x)
               /\ \A k \in Kinds, s \in Slots : ~Queued(x, k, s)
               /\ \A u \in Workers \ {w} : ~Held(x, u) /\ ~Sent(x, u)
    BY DEF Scheduled, Queued, Held, Sent, Request, Kinds
  <2> QED BY <2>1, <2>2, UnderWay
\* what a step of this processor that leaves its channel alone does to the
\* requests, in terms of what it held and holds
<1>s. ASSUME UNCHANGED <<phase, kind, page, slot, queue>>,
             \A u \in Workers \ {w} : pc'[u] = pc[u] /\ item'[u] = item[u]
      PROVE  /\ \A x : x \in RequestsUnderWay' <=>
                  \/ x \in RequestsUnderWay /\ ~Held(x, w) /\ ~Sent(x, w)
                  \/ Held(x, w)' \/ Sent(x, w)'
             /\ DownloadsDelivered' =
                  (DownloadsDelivered \ {me}) \cup
                  (IF w \in IoWorkers /\ pc'[w] \in {"send", "complete"} THEN {me} ELSE {})
  <2>1. \A x : \A k \in Kinds, s \in Slots : Queued(x, k, s)' <=> Queued(x, k, s)
    BY <1>s DEF Queued
  <2>2. ASSUME NEW x
        PROVE  /\ Held(x, w) \/ Sent(x, w) => x.holder = me
               /\ \A k \in Kinds, s \in Slots : Queued(x, k, s) => x.holder = <<k, s>>
    BY DEF Held, Sent, Queued, Request
  <2>3. /\ \A x : x \in RequestsUnderWay' <=>
              \/ /\ x \in RequestsUnderWay /\ ~Held(x, w) /\ ~Sent(x, w)
                 /\ ~Queued(x, KindOf(w), SlotOf[w])
              \/ Held(x, w)' \/ Sent(x, w)' \/ Queued(x, KindOf(w), SlotOf[w])'
        /\ DownloadsDelivered' =
              (DownloadsDelivered \ {me}) \cup
              (IF w \in IoWorkers /\ pc'[w] \in {"send", "complete"} THEN {me} ELSE {})
    BY <1>s, <1>k, ProcessorStep
  <2>4. KindOf(w) # "processor"
    BY <1>k DEF Kinds
  <2>5. \A x : Queued(x, KindOf(w), SlotOf[w]) =>
                  x \in RequestsUnderWay /\ ~Held(x, w) /\ ~Sent(x, w)
    BY <1>k, <2>2, <2>4, UnderWay
  <2> HIDE DEF me
  <2> QED BY <1>k, <2>1, <2>3, <2>5
<1> HIDE DEF r, e, me
\* a step after which the processor holds what it held, and has not delivered
\* unless it had
<1>q. ASSUME UNCHANGED <<phase, kind, page, slot, queue, item>>,
             NEW new \in {"begin", "work", "complete", "failed"},
             pc' = [pc EXCEPT ![w] = new], Busy(w), w \in IoWorkers => pc[w] # "send",
             w \in IoWorkers => (new = "complete" <=> pc[w] = "complete")
      PROVE  RequestsUnderWay' = RequestsUnderWay /\ DownloadsDelivered' = DownloadsDelivered
  <2>1. \A u \in Workers \ {w} : pc'[u] = pc[u] /\ item'[u] = item[u]
    BY <1>q, <1>t
  <2>2. pc'[w] = new /\ new # "send"
    BY <1>q, <1>t
  <2>3. \A x : /\ Held(x, w)' <=> x = r
               /\ ~Sent(x, w)' /\ ~Sent(x, w)
    BY <1>q, <2>2 DEF Held, Sent, Busy, r, me
  <2>4. RequestsUnderWay' = RequestsUnderWay
    BY <1>q, <1>s, <1>h, <2>1, <2>3
  <2>5. DownloadsDelivered' = DownloadsDelivered
    BY <1>q, <1>s, <1>d, <2>1, <2>2
  <2> QED BY <2>4, <2>5
<1>1. CASE Receive(w)
  <2> DEFINE k == KindOf(w)
             s == SlotOf[w]
             v == queue[KindOf(w)][SlotOf[w]]
             p == Request(k, v, <<k, s>>)
             n == Request(k, v, me)
  <2>1. /\ pc[w] = "idle" /\ v # NoVersion /\ pc'[w] = "begin" /\ item'[w] = v
        /\ \A u \in Workers \ {w} : pc'[u] = pc[u] /\ item'[u] = item[u]
        /\ queue' = [queue EXCEPT ![k][s] = NoVersion]
        /\ UNCHANGED <<task, fetched, phase, kind, page, slot>>
    BY <1>1, <1>t DEF Receive
  <2>2. /\ queue'[k][s] = NoVersion
        /\ \A l \in Kinds, t \in Slots : l # k \/ t # s => queue'[l][t] = queue[l][t]
    BY <1>k, <1>t, <2>1
  <2>3. /\ \A x : x \in RequestsUnderWay' <=>
              \/ x \in RequestsUnderWay /\ ~Held(x, w) /\ ~Sent(x, w) /\ ~Queued(x, k, s)
              \/ Held(x, w)' \/ Sent(x, w)' \/ Queued(x, k, s)'
        /\ DownloadsDelivered' =
              (DownloadsDelivered \ {me}) \cup
              (IF w \in IoWorkers /\ pc'[w] \in {"send", "complete"} THEN {me} ELSE {})
    BY <1>k, <2>1, <2>2, ProcessorStep DEF me
  <2>4. \A x : /\ ~Held(x, w) /\ ~Sent(x, w) /\ (Queued(x, k, s) <=> x = p)
               /\ (Held(x, w)' <=> x = n) /\ ~Sent(x, w)' /\ ~Queued(x, k, s)'
    BY <2>1, <2>2 DEF Held, Sent, Queued, Busy, me
  <2>5. RequestsUnderWay' = (RequestsUnderWay \ {p}) \cup {n}
    BY <2>3, <2>4
  <2>6. DownloadsDelivered' = DownloadsDelivered /\ me \notin DownloadsDelivered
    BY <1>d, <2>1, <2>3
  <2>7. p \in RequestsUnderWay
    BY <1>k, <2>4, UnderWay
  <2>8. n \notin RequestsUnderWay
    <3>1. ~Scheduled(n) /\ \A l \in Kinds, t \in Slots : ~Queued(n, l, t)
      BY DEF Scheduled, Queued, Request, Kinds, me
    <3>2. \A u \in Workers \ {w} : ~Held(n, u) /\ ~Sent(n, u)
      BY DEF Held, Sent, Request, me
    <3> QED BY <2>4, <3>1, <3>2, UnderWay
  <2>9. p.holder \notin DownloadsDelivered /\ n = [p EXCEPT !.holder = me]
    <3>1. p.holder = <<k, s>> /\ n = [p EXCEPT !.holder = me]
      BY DEF Request
    <3>2. \A x \in DownloadsDelivered : \E u \in Workers : x = <<"processor", u>>
      BY DEF DownloadsDelivered, Workers
    <3>3. k # "processor"
      BY <1>k DEF Kinds
    <3> QED BY <3>1, <3>2, <3>3
  <2> HIDE DEF p, n, k, s, v
  <2>10. Ledger!Pass(p, me)
    BY <2>1, <2>5, <2>6, <2>8, <2>9 DEF Ledger!Pass
  <2> QED BY <1>m, <2>7, <2>10 DEF Ledger!LedgerNext
<1>2. CASE Leave(w) \/ OpenTasks(w)
  <2>1. /\ pc[w] \in {"new", "idle"} /\ pc'[w] \in {"off", "idle"} 
        /\ \A u \in Workers \ {w} : pc'[u] = pc[u]
        /\ UNCHANGED <<task, fetched, phase, kind, page, slot, queue, item>>
    BY <1>2, <1>t DEF Leave, OpenTasks
  <2>2. \A x : ~Held(x, w) /\ ~Sent(x, w) /\ ~Held(x, w)' /\ ~Sent(x, w)'
    BY <2>1 DEF Held, Sent, Busy
  <2>3. RequestsUnderWay' = RequestsUnderWay
    BY <1>s, <2>1, <2>2
  <2>4. DownloadsDelivered' = DownloadsDelivered
    BY <1>s, <1>d, <2>1
  <2> QED BY <2>1, <2>3, <2>4 DEF Ledger!ledger
<1>3. CASE Begin(w)
  <2>1. /\ pc[w] = "begin" /\ pc' = [pc EXCEPT ![w] = "work"]
        /\ task' = [task EXCEPT ![KindOf(w)][item[w]] =
                       Merge(task[KindOf(w)][item[w]], InProgress(0))]
        /\ UNCHANGED <<fetched, phase, kind, page, slot, queue, item>>
    BY <1>3 DEF Begin
  <2>2. RequestsUnderWay' = RequestsUnderWay /\ DownloadsDelivered' = DownloadsDelivered
    BY <1>q, <2>1 DEF Busy
  <2>3. item[w] \in Versions /\ r \in RequestsUnderWay
    BY <1>c, <1>h, <2>1 DEF Busy
  <2> DEFINE old == task[KindOf(w)][item[w]]
  <2>4. Merge(old, InProgress(0)) =
          [kind |-> "InProgress", errors |-> IF old.kind = "InProgress" THEN 0 ELSE old.errors]
    <3>1. old \in TaskStates /\ (old.kind \in {"NotStarted", "Complete"} => old.errors = 0)
      BY <1>k, <1>t, <2>3 DEF StageInv, ErrorsOfFailures
    <3> HIDE DEF old
    <3> QED BY <3>1 DEF Merge, InProgress, TaskStates, StateKinds
  <2>5. Ledger!Start(r)
    BY <1>r, <2>1, <2>2, <2>4 DEF Ledger!Start, Ledger!Put
  <2> QED BY <2>3, <2>5 DEF Ledger!LedgerNext
<1>4. CASE Fetches(w) \/ FindsWholeFile(w)
  <2>1. /\ w \in IoWorkers /\ pc[w] = "work" /\ pc' = [pc EXCEPT ![w] = "send"]
        /\ UNCHANGED <<task, phase, kind, page, slot, queue, item>>
    BY <1>4 DEF Fetches, FindsWholeFile
  <2>2. fetched' = fetched \cup {item[w]}
    BY <1>4 DEF Fetches, FindsWholeFile
  <2>3. pc'[w] = "send" /\ \A u \in Workers \ {w} : pc'[u] = pc[u] /\ item'[u] = item[u]
    BY <1>t, <2>1
  <2>4. \A x : /\ Held(x, w) <=> x = r
               /\ ~Sent(x, w)
               /\ Held(x, w)' <=> x = r
               /\ Sent(x, w)' <=> x = e
    BY <2>1, <2>3 DEF Held, Sent, Busy, r, e, me
  <2>5. r \in RequestsUnderWay
    BY <1>h, <2>1 DEF Busy
  <2>6. RequestsUnderWay' = RequestsUnderWay \cup {e}
    BY <1>s, <2>1, <2>3, <2>4, <2>5
  <2>7. DownloadsDelivered' = DownloadsDelivered \cup {me} /\ me \notin DownloadsDelivered
    BY <1>s, <1>d, <2>1, <2>3
  <2>8. Ledger!Deliver(r)
    BY <1>r, <1>w, <2>1, <2>2, <2>6, <2>7 DEF Ledger!Deliver
  <2> QED BY <2>5, <2>8 DEF Ledger!LedgerNext
<1>5. CASE TimesOut(w) \/ DownloadFails(w)
  <2>1. /\ w \in IoWorkers /\ pc[w] = "work"
        /\ \E new \in {"begin", "failed"} : pc' = [pc EXCEPT ![w] = new]
        /\ UNCHANGED <<task, phase, kind, page, slot, queue, item>>
    BY <1>5 DEF TimesOut, DownloadFails
  <2>2. RequestsUnderWay' = RequestsUnderWay /\ DownloadsDelivered' = DownloadsDelivered
    BY <1>q, <2>1 DEF Busy
  <2>3. fetched' = fetched \/ fetched' = fetched \cup {item[w]}
    BY <1>5 DEF TimesOut, DownloadFails
  <2>4. r \in RequestsUnderWay
    BY <1>h, <2>1 DEF Busy
  <2>5. CASE fetched' = fetched
    BY <2>1, <2>2, <2>5 DEF Ledger!ledger
  <2>6. CASE fetched' = fetched \cup {item[w]}
    <3>1. Ledger!Arrive(r)
      BY <1>r, <1>w, <2>1, <2>2, <2>6 DEF Ledger!Arrive
    <3> QED BY <2>4, <3>1 DEF Ledger!LedgerNext
  <2> QED BY <2>3, <2>5, <2>6
<1>6. CASE ScheduleExtraction(w)
  <2> DEFINE s == SlotOf[w]
             v == item[w]
             n == Request("extract_crate", v, <<"extract_crate", s>>)
  <2>1. /\ w \in IoWorkers /\ pc[w] = "send" /\ pc' = [pc EXCEPT ![w] = "complete"]
        /\ v \in Versions
        /\ UNCHANGED <<task, fetched, phase, kind, page, slot, item>>
    BY <1>6, <1>c DEF ScheduleExtraction, Busy
  <2>2. pc'[w] = "complete" /\ \A u \in Workers \ {w} : pc'[u] = pc[u] /\ item'[u] = item[u]
    BY <1>t, <2>1
  <2>3. \A x : /\ Held(x, w) <=> x = r
               /\ Sent(x, w) <=> x = e
               /\ Held(x, w)' <=> x = r
               /\ ~Sent(x, w)'
    BY <2>1, <2>2 DEF Held, Sent, Busy, r, e, me
  <2>4. r # e /\ e \in RequestsUnderWay /\ r \in RequestsUnderWay
    <3>1. r.kind = "download"
      BY <1>r, <1>w, <2>1
    <3> QED BY <1>r, <1>h, <2>1, <3>1 DEF Busy
  <2>5. CASE queue' = queue
    <3>1. RequestsUnderWay' = RequestsUnderWay \ {e}
      BY <1>s, <2>1, <2>2, <2>3, <2>4, <2>5
    <3>2. DownloadsDelivered' = DownloadsDelivered
      BY <1>s, <1>d, <2>1, <2>2, <2>5
    <3> QED BY <2>1, <3>1, <3>2 DEF Ledger!LedgerNext, Ledger!Lose
  <2>6. CASE /\ queue["extract_crate"][s] = NoVersion
             /\ queue' = [queue EXCEPT !["extract_crate"][s] = v]
    <3>1. /\ queue'["extract_crate"][s] = v
          /\ \A l \in Kinds, t \in Slots :
                l # "extract_crate" \/ t # s => queue'[l][t] = queue[l][t]
      BY <1>k, <1>t, <2>6 DEF Kinds
    <3>2. "extract_crate" \in Kinds /\ s \in Slots
      BY <1>k DEF Kinds
    <3>3. /\ \A x : x \in RequestsUnderWay' <=>
                \/ /\ x \in RequestsUnderWay /\ ~Held(x, w) /\ ~Sent(x, w)
                   /\ ~Queued(x, "extract_crate", s)
                \/ Held(x, w)' \/ Sent(x, w)' \/ Queued(x, "extract_crate", s)'
          /\ DownloadsDelivered' =
                (DownloadsDelivered \ {me}) \cup
                (IF w \in IoWorkers /\ pc'[w] \in {"send", "complete"} THEN {me} ELSE {})
      BY <2>1, <2>2, <3>1, <3>2, ProcessorStep DEF me
    <3>4. \A x : ~Queued(x, "extract_crate", s) /\ (Queued(x, "extract_crate", s)' <=> x = n)
      BY <2>1, <2>6, <3>1 DEF Queued
    <3>5. n \notin RequestsUnderWay
      <4>1. ~Scheduled(n) /\ \A u \in Workers : ~Held(n, u) /\ ~Sent(n, u)
        BY DEF Scheduled, Held, Sent, Request
      <4>2. \A l \in Kinds, t \in Slots : ~Queued(n, l, t)
        BY <2>1, <2>6 DEF Queued, Request
      <4> QED BY <4>1, <4>2, UnderWay
    <3>6. n = [e EXCEPT !.holder = <<"extract_crate", s>>] /\ <<"extract_crate", s>> \in Holders
      <4>1. n = [e EXCEPT !.holder = <<"extract_crate", s>>]
        BY DEF Request, e
      <4> QED BY <3>2, <4>1 DEF Holders
    <3> HIDE DEF n
    <3>7. RequestsUnderWay' = (RequestsUnderWay \ {e}) \cup {n}
      BY <2>3, <2>4, <3>3, <3>4
    <3>8. DownloadsDelivered' = DownloadsDelivered
      BY <1>d, <2>1, <2>2, <3>3
    <3>9. Ledger!Pass(e, <<"extract_crate", s>>)
      BY <1>r, <2>1, <3>5, <3>6, <3>7, <3>8 DEF Ledger!Pass
    <3> QED BY <2>4, <3>6, <3>9 DEF Ledger!LedgerNext
  <2>7. \/ queue' = queue
        \/ /\ queue["extract_crate"][s] = NoVersion
           /\ queue' = [queue EXCEPT !["extract_crate"][s] = v]
    BY <1>6 DEF ScheduleExtraction
  <2> QED BY <2>5, <2>6, <2>7
<1>7. CASE Extracts(w) \/ ExtractionFails(w)
  <2>1. /\ w \notin IoWorkers /\ pc[w] = "work"
        /\ \E new \in {"complete", "failed"} : pc' = [pc EXCEPT ![w] = new]
        /\ UNCHANGED <<task, fetched, phase, kind, page, slot, queue, item>>
    BY <1>7, <1>w DEF Extracts, ExtractionFails
  <2>2. RequestsUnderWay' = RequestsUnderWay /\ DownloadsDelivered' = DownloadsDelivered
    BY <1>q, <2>1 DEF Busy
  <2> QED BY <2>1, <2>2 DEF Ledger!ledger
<1>8. CASE Store(w)
  <2>1. /\ pc[w] \in {"complete", "failed"} /\ pc'[w] = "idle"
        /\ \A u \in Workers \ {w} : pc'[u] = pc[u] /\ item'[u] = item[u]
        /\ task' = [task EXCEPT ![KindOf(w)][item[w]] =
                       Merge(task[KindOf(w)][item[w]], Outcome(w))]
        /\ UNCHANGED <<fetched, phase, kind, page, slot, queue>>
    BY <1>8, <1>t DEF Store
  <2>2. item[w] \in Versions /\ r \in RequestsUnderWay
    BY <1>c, <1>h, <2>1 DEF Busy
  <2>3. \A x : /\ Held(x, w) <=> x = r
               /\ ~Sent(x, w) /\ ~Held(x, w)' /\ ~Sent(x, w)'
    BY <2>1 DEF Held, Sent, Busy, r, me
  <2>4. RequestsUnderWay' = RequestsUnderWay \ {r}
    BY <1>s, <2>1, <2>3
  <2>5. DownloadsDelivered' = DownloadsDelivered \ {me}
    BY <1>s, <2>1
  <2>6. CASE pc[w] = "complete"
    <3>1. task' = [task EXCEPT ![KindOf(w)][item[w]] = [kind |-> "Complete", errors |-> 0]]
      <4>1. Outcome(w) = Complete /\ task[KindOf(w)][item[w]] \in TaskStates
        BY <1>k, <1>t, <2>2, <2>6 DEF Outcome
      <4> QED BY <2>1, <4>1, MergeKind DEF Complete
    <3>2. item[w] \in fetched
      BY <1>w, <2>2, <2>6 DEF StageInv, Backed
    <3>3. KindOf(w) = "download" => me \in DownloadsDelivered /\ e \notin RequestsUnderWay
      <4>1. ASSUME KindOf(w) = "download" PROVE r # e /\ w \in IoWorkers
        BY <1>r, <1>w, <4>1
      <4> QED BY <1>d, <1>h, <2>6, <4>1
    <3>4. Ledger!Finish(r)
      BY <1>r, <2>1, <2>4, <2>5, <3>1, <3>2, <3>3 DEF Ledger!Finish, Ledger!Put
    <3> QED BY <2>2, <3>4 DEF Ledger!LedgerNext
  <2>7. CASE pc[w] = "failed"
    <3> DEFINE old == task[KindOf(w)][item[w]]
    <3>1. Merge(old, AttemptsWithFailure(1)) =
              [kind |-> "AttemptsWithFailure", errors |-> old.errors + 1]
      <4>1. old \in TaskStates /\ (old.kind \in {"NotStarted", "Complete"} => old.errors = 0)
        BY <1>k, <1>t, <2>2 DEF StageInv, ErrorsOfFailures
      <4> HIDE DEF old
      <4> QED BY <4>1 DEF Merge, InProgress, AttemptsWithFailure, TaskStates, StateKinds
    <3>2. Outcome(w) = AttemptsWithFailure(1)
      BY <2>7 DEF Outcome
    <3>3. me \notin DownloadsDelivered
      BY <1>d, <2>7
    <3>4. Ledger!Fail(r)
      BY <1>r, <2>1, <2>4, <2>5, <3>1, <3>2, <3>3 DEF Ledger!Fail, Ledger!Put
    <3> QED BY <2>2, <3>4 DEF Ledger!LedgerNext
  <2> QED BY <2>1, <2>6, <2>7
<1> QED BY <1>1, <1>2, <1>3, <1>4, <1>5, <1>6, <1>7, <1>8 DEF Work

\* A processor that ends and a restart lose requests, and nothing else.
LEMMA LedgerFaults ==
    ASSUME StageInv, Crash \/ \E w \in Workers : ProcessorFails(w)
    PROVE  [Ledger!LedgerNext]_(Ledger!ledger)
<1> USE PipelineAssumption DEF tables, loop, processors, faults
<1>1. CASE Crash
  <2>1. /\ phase' = "rest" /\ \A k \in Kinds, s \in Slots : queue'[k][s] = NoVersion
        /\ \A w \in Workers : pc'[w] = "off"
        /\ UNCHANGED task
    BY <1>1 DEF Crash, LeaveLoop
  <2>2. RequestsUnderWay' = {}
    BY <2>1, UnderWayNext DEF Scheduled, Queued, Held, Sent, Busy, Workers
  <2>3. DownloadsDelivered' = {}
    BY <2>1 DEF DownloadsDelivered, Workers
  <2>4. fetched \subseteq fetched' /\ fetched' \subseteq fetched \cup {r.version : r \in RequestsUnderWay}
    <3>1. ASSUME NEW w \in IoWorkers, pc[w] = "work"
          PROVE  \E r \in RequestsUnderWay : r.version = item[w]
      <4>1. Held(Request(KindOf(w), item[w], <<"processor", w>>), w) /\ w \in Workers
        BY <3>1 DEF Held, Busy, Workers
      <4>2. Request(KindOf(w), item[w], <<"processor", w>>).version = item[w]
        BY DEF Request
      <4> QED BY <4>1, <4>2, UnderWay
    <3> QED BY <1>1, <3>1 DEF Crash
  <2> QED BY <2>1, <2>2, <2>3, <2>4 DEF Ledger!LedgerNext, Ledger!Lose
<1>2. ASSUME NEW w \in Workers, ProcessorFails(w) PROVE Ledger!Lose
  <2> DEFINE k == KindOf(w)
             s == SlotOf[w]
  <2>t. /\ queue \in [Kinds -> [Slots -> Versions \cup {NoVersion}]]
        /\ pc \in [Workers -> WorkerStates]
        /\ item \in [Workers -> Versions \cup {NoVersion}]
    BY DEF StageInv, Typed, TypeOK
  <2>k. k \in Kinds /\ s \in Slots
    BY KindOfType
  <2>1. /\ pc'[w] = "off" /\ \A u \in Workers \ {w} : pc'[u] = pc[u] /\ item'[u] = item[u]
        /\ UNCHANGED <<task, fetched, phase, kind, page, slot>>
        /\ queue' = queue \/ queue' = [queue EXCEPT ![k][s] = NoVersion]
    BY <1>2, <2>t DEF ProcessorFails
  <2>2. /\ queue'[k][s] \in {queue[k][s], NoVersion}
        /\ \A l \in Kinds, t \in Slots : l # k \/ t # s => queue'[l][t] = queue[l][t]
    BY <2>k, <2>t, <2>1
  <2>3. /\ \A x : x \in RequestsUnderWay' <=>
              \/ x \in RequestsUnderWay /\ ~Held(x, w) /\ ~Sent(x, w) /\ ~Queued(x, k, s)
              \/ Held(x, w)' \/ Sent(x, w)' \/ Queued(x, k, s)'
        /\ DownloadsDelivered' =
              (DownloadsDelivered \ {<<"processor", w>>}) \cup
              (IF w \in IoWorkers /\ pc'[w] \in {"send", "complete"}
               THEN {<<"processor", w>>} ELSE {})
    BY <2>k, <2>1, <2>2, ProcessorStep
  <2>4. \A x : /\ ~Held(x, w)' /\ ~Sent(x, w)'
               /\ Queued(x, k, s)' => Queued(x, k, s)
    BY <2>1, <2>2 DEF Held, Sent, Busy, Queued
  <2>5. \A x : Queued(x, k, s) => x \in RequestsUnderWay
    BY <2>k, UnderWay
  <2>6. RequestsUnderWay' \subseteq RequestsUnderWay
    BY <2>3, <2>4, <2>5
  <2>7. DownloadsDelivered' \subseteq DownloadsDelivered
    BY <2>1, <2>3
  <2> QED BY <2>1, <2>6, <2>7 DEF Ledger!Lose
<1> QED BY <1>1, <1>2 DEF Ledger!LedgerNext

\* The stage implements the ledger, whatever rounds overlap, tables fail,
\* attempts are repeated and restarts come between (processing.rs, generic.rs).
THEOREM StageImplementsLedger == Spec => ImplementsLedger
<1>1. ASSUME StageInv, [Next]_vars PROVE [Ledger!LedgerNext]_(Ledger!ledger)
  <2>1. CASE UNCHANGED vars
    <3>1. UNCHANGED <<task, fetched, phase, kind, page, slot, queue, pc, item>>
      BY <2>1 DEF vars, tables, loop, processors, faults
    <3>2. RequestsUnderWay' = RequestsUnderWay /\ DownloadsDelivered' = DownloadsDelivered
      BY <3>1 DEF RequestsUnderWay, DownloadsDelivered, Busy
    <3> QED BY <3>1, <3>2 DEF Ledger!ledger
  <2> QED BY <1>1, <2>1, LedgerSchedule, LedgerWork, LedgerFaults DEF Next
<1>2. Spec => []StageInv
  BY PipelineInvariant, ErrorsOfFailuresHold, PTL DEF StageInv
<1>3. Spec => Init /\ [][Next]_vars
  BY DEF Spec
<1> QED BY <1>1, <1>2, <1>3, LedgerInitially, PTL DEF ImplementsLedger, Ledger!LedgerSpec
=============================================================================
