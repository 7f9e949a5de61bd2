---------------------------- MODULE DumpStageProofs ----------------------------
(***************************************************************************)
(* Proofs about DumpStage, for any bodies of any size and content, any     *)
(* number of days, crates, tries and faults.                               *)
(***************************************************************************)
EXTENDS DumpStage, SequenceTheorems, TLAPS

\* An attempt that is about to begin is one of the tries.
TriesAreLeft == proc = "request" => tries < MaxTries

\* Nobody has written to the file of a day that no call has seen.
NewDayIsEmpty == day # today => dump[day] = <<>>

\* A body that will be ingested is the one its file began with, and no row of
\* the table is from a later one.
RowsAreOlder ==
    /\ \A c \in Crates : table[c] <= body
    /\ \A i \in 1..Len(dump[today]) : dump[today][i] <= body
    /\ dump[today] # <<>> => \A c \in Crates : table[c] <= dump[today][1]

DumpInv == TypeOK /\ TriesAreLeft /\ NewDayIsEmpty /\ RowsAreOlder /\ TableIsWhole

LEMMA AppendAddsBody ==
    ASSUME NEW f \in Seq(Bodies), NEW n \in Nat, body \in Bodies
    PROVE  /\ Append_(f, n) \in Seq(Bodies)
           /\ Len(Append_(f, n)) = Len(f) + n
           /\ \A i \in 1..Len(f) : Append_(f, n)[i] = f[i]
           /\ \A i \in 1..(Len(f) + n) : i > Len(f) => Append_(f, n)[i] = body
<1> DEFINE rest == [i \in 1..n |-> body]
<1>1. rest \in Seq(Bodies) /\ Len(rest) = n
  BY DEF Bodies
<1> QED BY <1>1, ConcatProperties DEF Append_

LEMMA MissingIsNumber ==
    ASSUME NEW f \in Seq(Bodies), body \in Bodies
    PROVE  Missing(f) \in Nat
<1>1. Size[body] \in Nat /\ Len(f) \in Nat
  BY DumpAssumption, LenProperties
<1> QED BY <1>1 DEF Missing

LEMMA MergedIsState ==
    ASSUME NEW a \in TaskStates, NEW b \in TaskStates
    PROVE  Merge(a, b) \in TaskStates
BY DEF Merge, TaskStates, StateKinds, InProgress, AttemptsWithFailure

LEMMA StatesAreStates ==
    /\ NotStarted \in TaskStates /\ Complete \in TaskStates
    /\ InProgress(0) \in TaskStates /\ AttemptsWithFailure(1) \in TaskStates
BY DEF NotStarted, Complete, InProgress, AttemptsWithFailure, TaskStates, StateKinds

\* Where something arrives, it is appended to the file of the call.
LEMMA Growth ==
    ASSUME TypeOK, Arrives \/ BreaksOff
    PROVE  \E n \in Nat : dump' = [dump EXCEPT ![today] = Append_(dump[today], n)]
<1>1. dump[today] \in Seq(Bodies) /\ Missing(dump[today]) \in Nat
  BY MissingIsNumber DEF TypeOK
<1>2. CASE Arrives
  BY <1>1, <1>2 DEF Arrives
<1>3. CASE BreaksOff
  <2>1. PICK n \in 0..Missing(dump[today]) :
            dump' = [dump EXCEPT ![today] = Append_(dump[today], n)]
    BY <1>3 DEF BreaksOff
  <2>2. n \in Nat
    BY <1>1
  <2> QED BY <2>1, <2>2
<1> QED BY <1>2, <1>3

LEMMA DumpTypeInit == Init => TypeOK /\ TriesAreLeft
<1> SUFFICES ASSUME Init PROVE TypeOK /\ TriesAreLeft
  OBVIOUS
<1>1. body \in Bodies /\ 0 \in 0..LastBody /\ 0 \in 0..MaxTries /\ 0 \in 0..MaxFaults
  BY DumpAssumption DEF Init, Bodies
<1>2. <<>> \in Seq(Bodies)
  BY EmptySeq
<1> QED BY <1>1, <1>2, StatesAreStates DEF Init, TypeOK, TriesAreLeft

LEMMA DumpTypeNext == TypeOK /\ TriesAreLeft /\ [Next]_vars => TypeOK' /\ TriesAreLeft'
<1> SUFFICES ASSUME TypeOK, TriesAreLeft, [Next]_vars PROVE TypeOK' /\ TriesAreLeft'
  OBVIOUS
<1> USE DEF tasks, call, processor, files
<1>e. <<>> \in Seq(Bodies)
  BY EmptySeq
<1>1. CASE Replaced
  BY <1>1, DumpAssumption DEF Replaced, TypeOK, TriesAreLeft, Bodies
<1>2. CASE NewDay
  <2>1. PICK d \in Days \ {day} :
          /\ day' = d
          /\ older' = (older \/ dump[d] # <<>>)
          /\ dump' = [dump EXCEPT ![d] = <<>>]
          /\ task' = [task EXCEPT ![d] = NotStarted]
          /\ fresh' = [fresh EXCEPT ![d] = FALSE]
    BY <1>2 DEF NewDay
  <2>2. UNCHANGED <<body, table, stage, today, proc, tries, outcome, delivered, faults>>
    BY <1>2 DEF NewDay
  <2>3. older' \in BOOLEAN /\ fresh' \in [Days -> BOOLEAN]
    BY <2>1, Zenon DEF TypeOK
  <2>4. dump' \in [Days -> Seq(Bodies)] /\ task' \in [Days -> TaskStates] /\ day' \in Days
    BY <1>e, <2>1, StatesAreStates DEF TypeOK
  <2> QED BY <2>2, <2>3, <2>4 DEF TypeOK, TriesAreLeft
<1>3. CASE Schedule
  <2>1. tries' = 0 /\ delivered' = FALSE /\ today' = day
    BY <1>3 DEF Schedule
  <2>2. stage' \in {"wait", "cleanup"} /\ proc' \in {"off", "request"}
    BY <1>3 DEF Schedule
  <2>3. UNCHANGED <<body, day, dump, older, task, fresh, table, outcome, faults>>
    BY <1>3 DEF Schedule
  <2>4. 0 \in 0..MaxTries /\ 0 < MaxTries
    BY DumpAssumption
  <2>5. TypeOK'
    BY <2>1, <2>2, <2>3, <2>4 DEF TypeOK
  <2> QED BY <2>1, <2>4, <2>5 DEF TriesAreLeft
<1>4. CASE Receive \/ NoResult \/ IngestDamaged
  BY <1>4 DEF Receive, NoResult, IngestDamaged, TypeOK, TriesAreLeft
<1>5. CASE Ingest
  <2>1. table' \in [Crates -> 0..LastBody]
    BY <1>5, DumpAssumption DEF Ingest, TypeOK, Bodies
  <2> QED BY <1>5, <2>1 DEF Ingest, TypeOK, TriesAreLeft
<1>6. CASE Cleanup
  BY <1>e, <1>6 DEF Cleanup, TypeOK, TriesAreLeft
<1>7. CASE Mark
  <2>1. task' \in [Days -> TaskStates]
    BY <1>7, MergedIsState, StatesAreStates DEF Mark, TypeOK
  <2>2. fresh' \in [Days -> BOOLEAN]
    BY <1>7, Zenon DEF Mark, TypeOK
  <2>3. tries' \in 0..MaxTries
    BY <1>7, DumpAssumption DEF Mark, TypeOK, TriesAreLeft
  <2> QED BY <1>7, <2>1, <2>2, <2>3 DEF Mark, TypeOK, TriesAreLeft
<1>8. CASE Arrives \/ BreaksOff
  <2>1. dump' \in [Days -> Seq(Bodies)]
    <3>1. PICK n \in Nat : dump' = [dump EXCEPT ![today] = Append_(dump[today], n)]
      BY <1>8, Growth
    <3>2. Append_(dump[today], n) \in Seq(Bodies)
      BY AppendAddsBody DEF TypeOK
    <3> QED BY <3>1, <3>2 DEF TypeOK
  <2>2. CASE Arrives
    BY <2>1, <2>2, StatesAreStates DEF Arrives, TypeOK, TriesAreLeft
  <2>3. CASE BreaksOff
    <3>1. faults' \in 0..MaxFaults
      BY <2>3, DumpAssumption DEF BreaksOff, Fault, TypeOK
    <3>2. outcome' \in TaskStates
      BY <2>3, StatesAreStates DEF BreaksOff, TypeOK
    <3>3. \/ proc' = "request" /\ tries < MaxTries
          \/ proc' = "store"
      BY <2>3 DEF BreaksOff
    <3> QED BY <2>1, <2>3, <3>1, <3>2, <3>3 DEF BreaksOff, TypeOK, TriesAreLeft
  <2> QED BY <1>8, <2>2, <2>3
<1>9. CASE Deliver
  BY <1>9 DEF Deliver, TypeOK, TriesAreLeft
<1>10. CASE Store
  <2>1. task' \in [Days -> TaskStates]
    BY <1>10, MergedIsState DEF Store, TypeOK
  <2>2. fresh' \in [Days -> BOOLEAN]
    BY <1>10, Zenon DEF Store, TypeOK
  <2> QED BY <1>10, <2>1, <2>2 DEF Store, TypeOK, TriesAreLeft
<1>11. CASE ProcessorFails
  BY <1>11, DumpAssumption DEF ProcessorFails, Fault, TypeOK, TriesAreLeft
<1>12. CASE CallFails
  BY <1>e, <1>12, DumpAssumption DEF CallFails, Fault, TypeOK, TriesAreLeft
<1>13. CASE Crash
  <2>1. fresh' \in [Days -> BOOLEAN] /\ delivered' \in BOOLEAN
    BY <1>13 DEF Crash
  <2>2. faults' \in 0..MaxFaults
    BY <1>13, DumpAssumption DEF Crash, Fault, TypeOK
  <2> QED BY <1>13, <2>1, <2>2 DEF Crash, TypeOK, TriesAreLeft
<1>14. CASE UNCHANGED vars
  BY <1>14 DEF vars, TypeOK, TriesAreLeft
<1> QED BY <1>1, <1>2, <1>3, <1>4, <1>5, <1>6, <1>7, <1>8, <1>9, <1>10, <1>11, <1>12, <1>13, <1>14
        DEF Next, Call, Process

\* Every behaviour is well typed, and never tries more often than it may.
THEOREM DumpType == Spec => []TypeOK
BY DumpTypeInit, DumpTypeNext, PTL DEF Spec

-----------------------------------------------------------------------------
\* What steps do to what the server has, the files and the table.
Stays == UNCHANGED <<body, day, today, dump, table>>
Begins(d) == /\ d # day /\ day' = d
             /\ dump' = [dump EXCEPT ![d] = <<>>]
             /\ UNCHANGED <<body, today, table>>
Adopts == today' = day /\ UNCHANGED <<body, day, dump, table>>
Fills(b) == /\ Holds(dump[today], b)
            /\ table' = [c \in Crates |-> IF c \in Contents[b] THEN b ELSE table[c]]
            /\ UNCHANGED <<body, day, today, dump>>
Keeps(kept) == /\ today \in kept
               /\ dump' = [d \in Days |-> IF d \in kept THEN dump[d] ELSE <<>>]
               /\ UNCHANGED <<body, day, today, table>>
Grows(n) == /\ dump' = [dump EXCEPT ![today] = Append_(dump[today], n)]
            /\ UNCHANGED <<body, day, today, table>>

LEMMA Effects ==
    ASSUME TypeOK, [Next]_vars
    PROVE  \/ Stays \/ Replaced \/ Adopts
           \/ \E d \in Days : Begins(d)
           \/ \E b \in Bodies : Fills(b)
           \/ \E kept \in SUBSET Days : Keeps(kept)
           \/ \E n \in Nat : Grows(n)
<1> USE DEF tasks, call, processor, files
<1>1. CASE NewDay
  <2>1. PICK d \in Days \ {day} : day' = d /\ dump' = [dump EXCEPT ![d] = <<>>]
    BY <1>1 DEF NewDay
  <2>2. UNCHANGED <<body, today, table>>
    BY <1>1 DEF NewDay
  <2> QED BY <2>1, <2>2 DEF Begins
<1>2. CASE Schedule
  BY <1>2 DEF Schedule, Adopts
<1>3. CASE Ingest
  <2>1. PICK b \in Bodies :
          /\ Holds(dump[today], b)
          /\ table' = [c \in Crates |-> IF c \in Contents[b] THEN b ELSE table[c]]
    BY <1>3 DEF Ingest
  <2>2. UNCHANGED <<body, day, today, dump>>
    BY <1>3 DEF Ingest
  <2> QED BY <2>1, <2>2 DEF Fills
<1>4. CASE Cleanup
  <2>1. Keeps({today})
    BY <1>4 DEF Cleanup, Keeps
  <2>2. {today} \in SUBSET Days
    BY DEF TypeOK
  <2> QED BY <2>1, <2>2
<1>5. CASE CallFails
  <2>1. PICK kept \in SUBSET Days :
          /\ stage = "cleanup" => today \in kept
          /\ stage = "ingest" => kept = Days
          /\ dump' = [d \in Days |-> IF d \in kept THEN dump[d] ELSE <<>>]
    BY <1>5 DEF CallFails
  <2>2. today \in kept /\ UNCHANGED <<body, day, today, table>>
    BY <1>5, <2>1 DEF CallFails, TypeOK
  <2> QED BY <2>1, <2>2 DEF Keeps
<1>6. CASE Arrives \/ BreaksOff
  <2>1. PICK n \in Nat : dump' = [dump EXCEPT ![today] = Append_(dump[today], n)]
    BY <1>6, Growth
  <2>2. UNCHANGED <<body, day, today, table>>
    BY <1>6 DEF Arrives, BreaksOff
  <2> QED BY <2>1, <2>2 DEF Grows
<1>7. CASE Receive \/ NoResult \/ IngestDamaged
  BY <1>7 DEF Receive, NoResult, IngestDamaged, Stays
<1>8. CASE Mark \/ Deliver \/ Store
  BY <1>8 DEF Mark, Deliver, Store, Stays
<1>9. CASE ProcessorFails \/ Crash
  BY <1>9 DEF ProcessorFails, Crash, Stays
<1>10. CASE UNCHANGED vars
  BY <1>10 DEF vars, Stays
<1> QED BY <1>1, <1>2, <1>3, <1>4, <1>5, <1>6, <1>7, <1>8, <1>9, <1>10 DEF Next, Call, Process

\* The body that is ingested is the one the file began with.
LEMMA HeldIsFirst ==
    ASSUME TypeOK, NEW b \in Bodies, Holds(dump[today], b)
    PROVE  dump[today] # <<>> /\ dump[today][1] = b
<1>1. Size[b] \in Nat \ {0}
  BY DumpAssumption
<1>2. dump[today] \in Seq(Bodies) /\ Len(dump[today]) \in Nat
  BY LenProperties DEF TypeOK
<1>3. 1 \in 1..Size[b] /\ Len(dump[today]) >= 1
  BY <1>1, <1>2 DEF Holds
<1>4. dump[today] # <<>>
  BY <1>3, EmptySeq
<1> QED BY <1>3, <1>4 DEF Holds

LEMMA RowsRise ==
    ASSUME TypeOK, RowsAreOlder, [Next]_vars, NEW c \in Crates
    PROVE  table[c] <= table'[c]
<1>1. table[c] \in Nat
  BY DumpAssumption DEF TypeOK
<1>2. ASSUME NEW b \in Bodies, Fills(b) PROVE table[c] <= table'[c]
  <2>1. table[c] <= b
    BY <1>2, HeldIsFirst DEF Fills, RowsAreOlder
  <2> QED BY <1>1, <1>2, <2>1 DEF Fills
<1>3. table' = table \/ \E b \in Bodies : Fills(b)
  BY Effects DEF Stays, Replaced, Adopts, Begins, Keeps, Grows
<1> QED BY <1>1, <1>2, <1>3

LEMMA DumpInvInit == Init => DumpInv
<1> SUFFICES ASSUME Init PROVE DumpInv
  OBVIOUS
<1>1. TypeOK /\ TriesAreLeft
  BY DumpTypeInit
<1>2. dump[today] = <<>> /\ \A c \in Crates : table[c] = 0
  BY DEF Init
<1>3. RowsAreOlder
  BY <1>2, EmptySeq DEF RowsAreOlder, Init
<1>4. TableIsWhole
  BY <1>2, DumpAssumption DEF TableIsWhole, Bodies
<1> QED BY <1>1, <1>3, <1>4 DEF DumpInv, NewDayIsEmpty, Init

LEMMA DumpInvNext == DumpInv /\ [Next]_vars => DumpInv'
<1> SUFFICES ASSUME DumpInv, [Next]_vars PROVE DumpInv'
  OBVIOUS
<1>a. TypeOK /\ RowsAreOlder /\ NewDayIsEmpty /\ TableIsWhole
  BY DEF DumpInv
<1>b. TypeOK' /\ TriesAreLeft'
  BY DumpTypeNext DEF DumpInv
<1>c. /\ today \in Days /\ day \in Days
      /\ dump \in [Days -> Seq(Bodies)] /\ Len(dump[today]) \in Nat
      /\ body \in Nat /\ \A c \in Crates : table[c] \in Nat
  BY <1>a, DumpAssumption, LenProperties DEF TypeOK, Bodies
<1>1. NewDayIsEmpty'
  BY <1>a, <1>c, Effects
     DEF NewDayIsEmpty, Stays, Replaced, Adopts, Begins, Fills, Keeps, Grows, files, call
<1>2. TableIsWhole'
  <2> SUFFICES ASSUME NEW b \in Bodies, NEW c \in Contents[b],
                      NEW e \in Crates, table'[e] = b
               PROVE  table'[c] >= b
    BY DEF TableIsWhole
  <2>1. c \in Crates /\ b \in Nat
    BY DumpAssumption DEF Bodies
  <2>2. CASE table[e] = b
    <3>1. table[c] >= b /\ table'[c] >= table[c]
      BY <1>a, <2>1, <2>2, RowsRise DEF TableIsWhole
    <3>2. table'[c] \in Nat /\ table[c] \in Nat
      BY <1>b, <1>c, <2>1, DumpAssumption DEF TypeOK
    <3> QED BY <2>1, <3>1, <3>2
  <2>3. CASE table[e] # b
    <3>1. PICK a \in Bodies : Fills(a)
      BY <1>a, <2>3, Effects DEF Stays, Replaced, Adopts, Begins, Keeps, Grows, call
    <3>2. a = b
      BY <2>3, <3>1 DEF Fills
    <3> QED BY <2>1, <3>1, <3>2 DEF Fills
  <2> QED BY <2>2, <2>3
<1>3. RowsAreOlder'
  <2>1. CASE Stays
    BY <1>a, <2>1 DEF Stays, RowsAreOlder
  <2>2. CASE Replaced
    <3>1. body' = body + 1 /\ UNCHANGED <<table, dump, today>>
      BY <2>2 DEF Replaced, files, call
    <3>2. dump[today] \in Seq(Bodies)
      BY <1>c
    <3>3. \A i \in 1..Len(dump[today]) : dump[today][i] \in Nat
      BY <3>2, ElementOfSeq, DumpAssumption DEF Bodies
    <3> QED BY <1>a, <1>c, <3>1, <3>3 DEF RowsAreOlder
  <2>3. CASE Adopts
    <3>1. day = today \/ dump'[today'] = <<>>
      BY <1>a, <2>3 DEF Adopts, NewDayIsEmpty
    <3> QED BY <1>a, <2>3, <3>1, EmptySeq DEF Adopts, RowsAreOlder
  <2>4. ASSUME NEW d \in Days, Begins(d) PROVE RowsAreOlder'
    <3>1. dump'[today'] = IF d = today THEN <<>> ELSE dump[today]
      BY <1>c, <2>4 DEF Begins
    <3> QED BY <1>a, <2>4, <3>1, EmptySeq DEF Begins, RowsAreOlder
  <2>5. ASSUME NEW b \in Bodies, Fills(b) PROVE RowsAreOlder'
    <3>1. dump[today] # <<>> /\ dump[today][1] = b
      BY <1>a, <2>5, HeldIsFirst DEF Fills
    <3>2. 1 \in 1..Len(dump[today])
      BY <1>c, <3>1, EmptySeq
    <3>3. b <= body /\ b \in Nat
      BY <1>a, <3>1, <3>2 DEF RowsAreOlder, Bodies
    <3>4. \A c \in Crates : table'[c] \in {table[c], b}
      BY <2>5 DEF Fills
    <3> QED BY <1>a, <1>c, <2>5, <3>1, <3>3, <3>4 DEF Fills, RowsAreOlder
  <2>6. ASSUME NEW kept \in SUBSET Days, Keeps(kept) PROVE RowsAreOlder'
    <3>1. dump'[today'] = dump[today]
      BY <1>c, <2>6 DEF Keeps
    <3> QED BY <1>a, <2>6, <3>1 DEF Keeps, RowsAreOlder
  <2>7. ASSUME NEW n \in Nat, Grows(n) PROVE RowsAreOlder'
    <3>1. dump'[today'] = Append_(dump[today], n) /\ UNCHANGED <<body, table>>
      BY <1>c, <2>7 DEF Grows
    <3>2. /\ Len(dump'[today']) = Len(dump[today]) + n
          /\ \A i \in 1..Len(dump[today]) : dump'[today'][i] = dump[today][i]
          /\ \A i \in 1..(Len(dump[today]) + n) :
                i > Len(dump[today]) => dump'[today'][i] = body
      <4>1. dump[today] \in Seq(Bodies) /\ body \in Bodies
        BY <1>a, <1>c DEF TypeOK
      <4>2. \A f \in Seq(Bodies) :
               /\ Len(Append_(f, n)) = Len(f) + n
               /\ \A i \in 1..Len(f) : Append_(f, n)[i] = f[i]
               /\ \A i \in 1..(Len(f) + n) : i > Len(f) => Append_(f, n)[i] = body
        BY <4>1, AppendAddsBody
      <4> QED BY <3>1, <4>1, <4>2
    <3>3. \A i \in 1..Len(dump'[today']) : dump'[today'][i] <= body
      BY <1>a, <1>c, <3>2 DEF RowsAreOlder
    <3>4. ASSUME dump'[today'] # <<>>, NEW c \in Crates
          PROVE  table[c] <= dump'[today'][1]
      <4>1. CASE dump[today] = <<>>
        <5>1. Len(dump[today]) = 0
          BY <4>1
        <5>2. Len(dump'[today']) # 0
          BY <1>b, <3>4, EmptySeq DEF TypeOK
        <5>3. dump'[today'][1] = body
          BY <1>c, <3>2, <5>1, <5>2
        <5> QED BY <1>a, <5>3 DEF RowsAreOlder
      <4>2. CASE dump[today] # <<>>
        <5>1. 1 \in 1..Len(dump[today])
          BY <1>c, <4>2, EmptySeq
        <5> QED BY <1>a, <3>2, <4>2, <5>1 DEF RowsAreOlder
      <4> QED BY <4>1, <4>2
    <3> QED BY <1>a, <3>1, <3>3, <3>4 DEF RowsAreOlder
  <2> QED BY <1>a, <2>1, <2>2, <2>3, <2>4, <2>5, <2>6, <2>7, Effects
<1> QED BY <1>b, <1>1, <1>2, <1>3 DEF DumpInv

LEMMA DumpInvariant == Spec => []DumpInv
BY DumpInvInit, DumpInvNext, PTL DEF Spec

\* The crates of a dump come into the table together (db_download/mod.rs, store).
THEOREM DumpsAreWhole == Spec => []TableIsWhole
BY DumpInvariant, PTL DEF DumpInv

\* No ingestion brings back an earlier row, though files of several days and of
\* several bodies are on disk.
THEOREM RowsDoNotGoBack == Spec => RowsNeverGoBack
<1>1. DumpInv /\ [Next]_vars => \A c \in Crates : table[c] <= table'[c]
  BY RowsRise DEF DumpInv
<1> QED BY <1>1, DumpInvariant, PTL DEF Spec, RowsNeverGoBack

\* What was downloaded for a day stays for the calls of that day.
THEOREM DownloadedStays == Spec => DumpOnlyGrows
<1>1. DumpInv /\ [Next]_vars =>
        \A d \in {day, today} \ ({day'} \ {day}) :
          /\ Len(dump[d]) <= Len(dump'[d])
          /\ \A i \in 1..Len(dump[d]) : dump'[d][i] = dump[d][i]
  <2> SUFFICES ASSUME DumpInv, [Next]_vars, NEW d \in {day, today} \ ({day'} \ {day})
               PROVE  /\ Len(dump[d]) <= Len(dump'[d])
                      /\ \A i \in 1..Len(dump[d]) : dump'[d][i] = dump[d][i]
    OBVIOUS
  <2>a. TypeOK /\ NewDayIsEmpty
    BY DEF DumpInv
  <2>b. d \in Days /\ dump[d] \in Seq(Bodies) /\ Len(dump[d]) \in Nat
    BY <2>a, LenProperties DEF TypeOK
  <2>1. CASE dump'[d] = dump[d]
    BY <2>b, <2>1
  <2>2. CASE dump[d] = <<>>
    <3>1. dump'[d] \in Seq(Bodies) /\ Len(dump'[d]) \in Nat
      BY <2>b, DumpTypeNext, LenProperties DEF DumpInv, TypeOK
    <3> QED BY <2>2, <3>1
  <2>3. ASSUME NEW n \in Nat, Grows(n), d = today
        PROVE  /\ Len(dump[d]) <= Len(dump'[d])
               /\ \A i \in 1..Len(dump[d]) : dump'[d][i] = dump[d][i]
    <3>1. dump'[d] = Append_(dump[d], n)
      BY <2>a, <2>b, <2>3 DEF Grows, TypeOK
    <3>2. /\ Len(dump'[d]) = Len(dump[d]) + n
          /\ \A i \in 1..Len(dump[d]) : dump'[d][i] = dump[d][i]
      <4>1. dump[d] \in Seq(Bodies) /\ body \in Bodies
        BY <2>a, <2>b DEF TypeOK
      <4>2. \A f \in Seq(Bodies) :
               /\ Len(Append_(f, n)) = Len(f) + n
               /\ \A i \in 1..Len(f) : Append_(f, n)[i] = f[i]
               /\ \A i \in 1..(Len(f) + n) : i > Len(f) => Append_(f, n)[i] = body
        BY <4>1, AppendAddsBody
      <4> QED BY <3>1, <4>1, <4>2
    <3> QED BY <2>b, <3>2
  <2>4. \/ dump'[d] = dump[d] \/ dump[d] = <<>>
        \/ \E n \in Nat : Grows(n) /\ d = today
    <3>1. ASSUME NEW e \in Days, Begins(e) PROVE dump'[d] = dump[d]
      BY <2>a, <2>b, <3>1 DEF Begins, TypeOK
    <3>2. ASSUME NEW kept \in SUBSET Days, Keeps(kept)
          PROVE dump'[d] = dump[d] \/ dump[d] = <<>>
      BY <2>a, <2>b, <3>2 DEF Keeps, NewDayIsEmpty
    <3>3. ASSUME NEW n \in Nat, Grows(n) PROVE dump'[d] = dump[d] \/ d = today
      BY <2>a, <2>b, <3>3 DEF Grows, TypeOK
    <3>4. CASE Stays \/ Replaced \/ Adopts
      BY <3>4 DEF Stays, Replaced, Adopts, files
    <3>5. ASSUME NEW b \in Bodies, Fills(b) PROVE dump'[d] = dump[d]
      BY <3>5 DEF Fills
    <3> QED BY <2>a, <3>1, <3>2, <3>3, <3>4, <3>5, Effects
  <2> QED BY <2>1, <2>2, <2>3, <2>4
<1> QED BY <1>1, DumpInvariant, PTL DEF Spec, DumpOnlyGrows
================================================================================
