---------------------------- MODULE ReportsProofs ----------------------------
(***************************************************************************)
(* Proofs about Reports, for any crates and versions, any number of        *)
(* processors, any size of the chunks and any number of faults.            *)
(***************************************************************************)
EXTENDS Reports, FiniteSetTheorems, WellFoundedInduction, TLAPS

\* What a processor and the loop have in hand at each point.
Shape ==
    /\ queue = <<>> \/ \E c \in SUBSET Crates : queue = <<c>>
    /\ phase # "send" => chunk = {}
    /\ phase = "off" => agg = Nobody
    /\ phase = "store" => \A v \in Versions : before[v] > 0 => agg[v] > 0
    /\ phase \in {"off", "store", "write"} =>
          queue = <<>> /\ \A w \in Workers \ late : pc[w] = "idle"
    /\ \A w \in Workers :
          /\ pc[w] \in {"idle", "send"} => todo[w] = {} /\ done[w] = {}
          /\ pc[w] = "idle" => report[w] = Nobody
          /\ pc[w] \in {"previous", "store", "write"} =>
                todo[w] # {} /\ \A v \in new[w] : v[1] = Current(w)

\* A version is in the state of its crate, or about to be written there, or
\* that state was lost,
Kept(v) ==
    \/ v[1] \in torn
    \/ cache[v[1]][v] > 0
    \/ \E w \in Workers : Writes(w, v)
    \/ AggregatorWrites(v)

\* once it is stored: marked as done or about to be.
Stored(v) == v \in marked \/ \E w \in Workers : v \in done[w]
Safe == \A v \in Versions : Stored(v) => Kept(v)

\* Unless a round was interrupted or the table shifted, no processor is left
\* behind and no crate in two hands,
Taken(w, c) == c \in todo[w] \/ \E v \in done[w] : v[1] = c
Queued(c) == queue # <<>> /\ c \in Head(queue)
Disjoint ==
    /\ \A w \in Workers : \A v \in done[w] : v[1] \notin todo[w]
    /\ \A c \in Crates :
          /\ \A w \in Workers, x \in Workers : Taken(w, c) /\ Taken(x, c) => w = x
          /\ \A w \in Workers : Taken(w, c) => c \notin chunk /\ ~Queued(c)
          /\ c \in chunk => ~Queued(c)

\* as the loop has gone past all those it has handed out.
Passed ==
    (phase = "load" \/ (phase = "send" /\ ~last)) =>
        \A c \in Crates :
            c \in chunk \/ Queued(c) \/ (\E w \in Workers : Taken(w, c)) => Before(c) < fetched

\* If it also took no crate for all, a version counts once in its crate when
\* its processor has stored it, and once above when all is merged, whoever has
\* it until then.
Full(c, v) == IF v[1] = c /\ Stored(v) THEN 1 ELSE 0
Writing(w, c) == pc[w] = "write" /\ Current(w) = c
Merged(v) == IF phase \in {"store", "write"} THEN agg[v] ELSE top[v] + agg[v]
Counted ==
    /\ \A w \in Workers : pc[w] \in {"previous", "store", "write"} =>
          \A v \in new[w] : v \notin marked
    /\ \A c \in Crates : (\A w \in Workers : ~Writing(w, c)) =>
          \A v \in Versions : cache[c][v] = Full(c, v)
    /\ \A w \in Workers : pc[w] \in {"store", "write"} =>
          \A v \in Versions : previous[w][v] = Full(Current(w), v)
    /\ \A v \in Versions :
          /\ \A w \in Workers :
                /\ report[w][v] \in {0, 1}
                /\ v \in done[w] => report[w][v] = 1
                /\ report[w][v] = 1 =>
                      Stored(v) /\ \A x \in Workers \ {w} : report[x][v] = 0
          /\ Merged(v) = IF v \in marked /\ \A w \in Workers : report[w][v] = 0 THEN 1 ELSE 0

\* the aggregator is about to store one crate for all
Lonely == phase \in {"store", "write"} /\ OneCrate(agg)

ReportsInv ==
    /\ TypeOK /\ Shape /\ Safe
    /\ faults = 0 => late = {}
    /\ faults = 0 /\ ~shifted => Disjoint /\ Passed
    /\ faults = 0 /\ ~shifted /\ ~single => Lonely \/ Counted

-----------------------------------------------------------------------------
\* A processor that has crates has a first one.
Less == {p \in Nat \X Nat : p[1] < p[2]}

LEMMA LeastExists ==
    ASSUME NEW S \in SUBSET Nat, S # {}
    PROVE  \E m \in S : \A n \in S : m <= n
<1>1. OpToRel(<, Nat) = Less
  BY DEF OpToRel, Less
<1>2. IsWellFoundedOn(Less, Nat)
  BY <1>1, NatLessThanWellFounded
<1>3. PICK m \in S : \A n \in S : <<n, m>> \notin Less
  BY <1>2, WFMin
<1>4. ASSUME NEW n \in S PROVE m <= n
  <2>1. m \in Nat /\ n \in Nat /\ ~(n < m)
    BY <1>3 DEF Less
  <2> QED BY <2>1
<1> QED BY <1>4

LEMMA CurrentIsTodo ==
    ASSUME TypeOK, NEW w \in Workers, todo[w] # {}
    PROVE  Current(w) \in todo[w] /\ Current(w) \in Crates
<1>1. todo[w] \in SUBSET Nat /\ todo[w] \in SUBSET Crates
  BY ReportsAssumption DEF TypeOK
<1>2. \E c \in todo[w] : \A d \in todo[w] : c <= d
  BY <1>1, LeastExists
<1> QED BY <1>1, <1>2 DEF Current

LEMMA SizesAreNumbers ==
    ASSUME TypeOK
    PROVE  /\ \A c \in Crates : Before(c) \in Nat
           /\ Cardinality(listed) \in Nat
           /\ \A f, n : Rows(f, n) \in SUBSET Crates /\ Cardinality(Rows(f, n)) \in Nat
<1>1. ASSUME NEW S \in SUBSET Crates PROVE Cardinality(S) \in Nat
  BY ReportsAssumption, FS_Subset, FS_CardinalityType
<1>2. listed \in SUBSET Crates
  BY DEF TypeOK
<1>3. ASSUME NEW c \in Crates PROVE Before(c) \in Nat
  <2>1. {d \in listed : d < c} \in SUBSET Crates
    BY <1>2
  <2> QED BY <1>1, <2>1 DEF Before
<1>4. ASSUME NEW f, NEW n PROVE Rows(f, n) \in SUBSET Crates
  BY <1>2 DEF Rows
<1> QED BY <1>1, <1>2, <1>3, <1>4

LEMMA Merging ==
    ASSUME NEW a \in Report, NEW b \in Report
    PROVE  /\ MergeReports(a, b) \in Report
           /\ \A v \in Versions : MergeReports(a, b)[v] = a[v] + b[v]
BY DEF MergeReports, Report

LEMMA Constants ==
    /\ Nobody \in Report /\ \A v \in Versions : Nobody[v] = 0
    /\ \A s : Once(s) \in Report /\ \A v \in Versions : Once(s)[v] = IF v \in s THEN 1 ELSE 0
BY DEF Nobody, Once, Report

\* The crates of a report: none, one or several.
LEMMA CratesOfReport ==
    ASSUME NEW r \in Report
    PROVE  /\ CratesOf(r) \in SUBSET Crates
           /\ \A c : c \in CratesOf(r) <=> \E v \in Versions : v[1] = c /\ r[v] > 0
           /\ Cardinality(CratesOf(r)) = 1 =>
                 /\ (CHOOSE c \in CratesOf(r) : TRUE) \in CratesOf(r)
                 /\ \A c \in CratesOf(r), d \in CratesOf(r) : c = d
           /\ Cardinality(CratesOf(r)) # 1 =>
                 r = Nobody \/ \E c \in CratesOf(r), d \in CratesOf(r) : c # d
<1>1. CratesOf(r) \in SUBSET Crates
  BY ReportsAssumption DEF CratesOf
<1>2. IsFiniteSet(CratesOf(r))
  BY <1>1, ReportsAssumption, FS_Subset
<1>3. \A c : c \in CratesOf(r) <=> \E v \in Versions : v[1] = c /\ r[v] > 0
  BY DEF CratesOf
<1>4. ASSUME Cardinality(CratesOf(r)) = 1
      PROVE  /\ (CHOOSE c \in CratesOf(r) : TRUE) \in CratesOf(r)
             /\ \A c \in CratesOf(r), d \in CratesOf(r) : c = d
  <2>1. PICK x : CratesOf(r) = {x}
    BY <1>2, <1>4, FS_Singleton
  <2> QED BY <2>1
<1>5. ASSUME Cardinality(CratesOf(r)) # 1, r # Nobody
      PROVE  \E c \in CratesOf(r), d \in CratesOf(r) : c # d
  <2>1. PICK v \in Versions : r[v] # 0
    BY <1>5 DEF Report, Nobody
  <2>2. r[v] > 0
    BY <2>1 DEF Report
  <2>3. v[1] \in CratesOf(r)
    BY <1>3, <2>2
  <2>4. CratesOf(r) # {v[1]}
    BY <1>5, FS_Singleton
  <2> QED BY <2>3, <2>4
<1> QED BY <1>1, <1>3, <1>4, <1>5

\* What the aggregator does.
LEMMA Aggregates ==
    ASSUME TypeOK, MergeTopLevel
    PROVE  /\ AllReceived
           /\ agg' \in Report /\ before' \in Report
           /\ phase' \in {"off", "store"}
           /\ phase' = "off" => agg = Nobody /\ agg' = Nobody
           /\ phase' = "store" =>
                 /\ before' = IF top # Nobody THEN top
                              ELSE IF OneCrate(agg) THEN cache[TheCrate(agg)] ELSE Nobody
                 /\ \A v \in Versions : agg'[v] = before'[v] + agg[v]
           /\ OneCrate(agg) => TheCrate(agg) \in CratesOf(agg) /\ TheCrate(agg) \in Crates
           /\ UNCHANGED <<world, disk, fetched, size, chunk, last, queue, worker, shifted, single, torn, faults>>
<1>1. agg \in Report /\ top \in Report /\ before \in Report /\ \A c \in Crates : cache[c] \in Report
  BY DEF TypeOK
<1>2. OneCrate(agg) => TheCrate(agg) \in CratesOf(agg) /\ TheCrate(agg) \in Crates
  BY <1>1, CratesOfReport DEF OneCrate, TheCrate
<1>3. CASE agg = Nobody
  BY <1>1, <1>2, <1>3 DEF MergeTopLevel
<1>4. CASE agg # Nobody
  <2>1. /\ before' = IF top # Nobody THEN top
                     ELSE IF OneCrate(agg) THEN cache[TheCrate(agg)] ELSE Nobody
        /\ agg' = MergeReports(before', agg) /\ phase' = "store"
    BY <1>4 DEF MergeTopLevel
  <2>2. before' \in Report
    BY <1>1, <1>2, <2>1, Constants
  <2>3. agg' \in Report /\ \A v \in Versions : agg'[v] = before'[v] + agg[v]
    BY <1>1, <2>1, <2>2, Merging
  <2> QED BY <1>2, <2>1, <2>2, <2>3 DEF MergeTopLevel
<1> QED BY <1>3, <1>4

LEMMA AggregatedIsCrate ==
    ASSUME TypeOK
    PROVE  /\ OneCrate(agg) => TheCrate(agg) \in Crates
           /\ Aggregated \in SUBSET Crates
BY CratesOfReport DEF OneCrate, TheCrate, Aggregated, TypeOK

-----------------------------------------------------------------------------
LEMMA ReportsTypeInit == Init => TypeOK
<1> SUFFICES ASSUME Init PROVE TypeOK
  OBVIOUS
<1>1. <<>> \in Seq(SUBSET Crates) /\ 0 \in 0..MaxFaults
  BY ReportsAssumption
<1> QED BY <1>1, Constants DEF Init, TypeOK

LEMMA ReportsTypeNext == TypeOK /\ Shape /\ [Next]_vars => TypeOK'
<1> SUFFICES ASSUME TypeOK, Shape, [Next]_vars PROVE TypeOK'
  OBVIOUS
<1> USE DEF world, disk, loop, worker
<1> DEFINE PCs == {"idle", "crate", "previous", "store", "write", "send"}
<1>e. <<>> \in Seq(SUBSET Crates) /\ Nobody \in Report
  BY Constants
<1>c. \A w \in Workers : pc[w] \in {"previous", "store", "write"} => Current(w) \in Crates
  BY CurrentIsTodo DEF Shape
<1>1. CASE AddCrate \/ AddResult \/ Yank
  <2>1. CASE AddCrate
    BY <2>1 DEF AddCrate, TypeOK
  <2>2. CASE AddResult
    BY <2>2 DEF AddResult, TypeOK
  <2>3. CASE Yank
    BY <2>3 DEF Yank, TypeOK
  <2> QED BY <1>1, <2>1, <2>2, <2>3
<1>2. CASE StartRound
  <2>1. size' \in Nat
    BY <1>2, SizesAreNumbers, ReportsAssumption DEF StartRound
  <2> QED BY <1>2, <2>1 DEF StartRound, TypeOK
<1>3. CASE LoadChunk
  <2>1. chunk' \in SUBSET Crates /\ fetched' \in Nat /\ last' \in BOOLEAN
    BY <1>3, SizesAreNumbers DEF LoadChunk, TypeOK
  <2> QED BY <1>3, <2>1 DEF LoadChunk, TypeOK
<1>4. CASE SendChunk
  <2>1. <<chunk>> \in Seq(SUBSET Crates)
    BY DEF TypeOK
  <2>2. phase' \in {"end", "load"} /\ chunk' = {}
        /\ fetched' \in {fetched, 0} /\ size' \in {size, 0} /\ last' \in {last, FALSE}
    BY <1>4 DEF SendChunk, LeaveLoop
  <2>3. chunk' \in SUBSET Crates /\ fetched' \in Nat /\ size' \in Nat
    BY <2>2 DEF TypeOK
  <2>5. last' \in BOOLEAN
    <3>1. last' = last \/ last' = FALSE
      BY <2>2
    <3> QED BY <3>1, Zenon DEF TypeOK
  <2>4. queue' = <<chunk>>
        /\ UNCHANGED <<world, disk, agg, before, worker, shifted, single, torn, faults>>
    BY <1>4 DEF SendChunk
  <2> QED BY <2>1, <2>2, <2>3, <2>4, <2>5 DEF TypeOK
<1>5. CASE MergeTopLevel
  BY <1>5, Aggregates DEF TypeOK
<1>a. CASE TruncateTopLevel
  <2>1. /\ cache' \in [Crates -> Report] /\ top' \in Report /\ torn' \subseteq Crates
    BY <1>a, <1>e, AggregatedIsCrate DEF TruncateTopLevel, TypeOK
  <2> QED BY <1>a, <2>1 DEF TruncateTopLevel, TypeOK
<1>b. CASE StoreTopLevel
  <2>1. /\ cache' \in [Crates -> Report] /\ top' \in Report /\ torn' \subseteq Crates
        /\ single' \in BOOLEAN
    BY <1>b, <1>e, AggregatedIsCrate DEF StoreTopLevel, TypeOK
  <2> QED BY <1>b, <1>e, <2>1 DEF StoreTopLevel, TypeOK
<1>6. ASSUME NEW w \in Workers, TakeChunk(w) PROVE TypeOK'
  <2>1. queue # <<>> => Head(queue) \in SUBSET Crates /\ Tail(queue) \in Seq(SUBSET Crates)
    BY DEF TypeOK
  <2>2. queue' \in Seq(SUBSET Crates) /\ todo' \in [Workers -> SUBSET Crates]
        /\ rest' \in [Workers -> SUBSET Crates]
    BY <1>6, <2>1 DEF TakeChunk, TypeOK
  <2> QED BY <1>6, <2>2 DEF TakeChunk, TypeOK
<1>7. ASSUME NEW w \in Workers, Inspect(w) PROVE TypeOK'
  <2>1. ToReport(Current(w)) \in SUBSET Versions
    BY DEF ToReport, AllButRecentlyYanked
  <2>2. new' \in [Workers -> SUBSET Versions]
    BY <1>7, <2>1 DEF Inspect, TypeOK
  <2>3. todo' \in [Workers -> SUBSET Crates] /\ pc' \in [Workers -> PCs]
    <3>1. todo' \in {todo, [todo EXCEPT ![w] = todo[w] \ {Current(w)}]}
          /\ pc' \in {pc, [pc EXCEPT ![w] = "previous"]}
      BY <1>7 DEF Inspect
    <3> QED BY <3>1 DEF TypeOK
  <2> QED BY <1>7, <2>2, <2>3 DEF Inspect, TypeOK
<1>8. ASSUME NEW w \in Workers, LoadPrevious(w) PROVE TypeOK'
  <2>1. cache[Current(w)] \in Report
    BY <1>8, <1>c DEF LoadPrevious, TypeOK
  <2> QED BY <1>8, <2>1 DEF LoadPrevious, TypeOK
<1>d. ASSUME NEW w \in Workers, TruncateState(w) PROVE TypeOK'
  BY <1>c, <1>d, <1>e DEF TruncateState, TypeOK
<1>9. ASSUME NEW w \in Workers, StoreState(w) PROVE TypeOK'
  <2>1. Absolute(w) \in Report /\ MergeReports(report[w], Once(new[w])) \in Report
    BY Constants, Merging DEF TypeOK, Absolute
  <2>2. torn' \subseteq Crates
    BY <1>9, <1>c DEF StoreState, TypeOK
  <2>3. cache' \in [Crates -> Report]
    BY <1>9, <2>1 DEF StoreState, TypeOK
  <2> QED BY <1>9, <1>e, <2>1, <2>2, <2>3 DEF StoreState, TypeOK
<1>10. ASSUME NEW w \in Workers, MarkDone(w) PROVE TypeOK'
  BY <1>10 DEF MarkDone, TypeOK
<1>11. ASSUME NEW w \in Workers, SendReport(w) PROVE TypeOK'
  <2>1. agg' \in Report /\ late' \subseteq Workers
    BY <1>11, Merging DEF SendReport, TypeOK
  <2> QED BY <1>11, <1>e, <2>1 DEF SendReport, TypeOK
<1>f. Fault => faults' \in 0..MaxFaults
  BY ReportsAssumption DEF Fault, TypeOK
<1>12. CASE Abort
  <2>1. \A w \in Workers : queue # <<>> => [rest EXCEPT ![w] = Head(queue)] \in [Workers -> SUBSET Crates]
    BY DEF TypeOK
  <2>2. rest' \in [Workers -> SUBSET Crates] /\ late' \subseteq Workers
    BY <1>12, <2>1 DEF Abort, TypeOK
  <2> QED BY <1>12, <1>e, <1>f, <2>2 DEF Abort, LeaveLoop, TypeOK
<1>13. ASSUME NEW w \in Workers, ChunkFails(w) PROVE TypeOK'
  <2>1. torn' \subseteq Crates
    BY <1>13, <1>c DEF ChunkFails, TypeOK
  <2> QED BY <1>13, <1>e, <1>f, <2>1 DEF ChunkFails, TypeOK
<1>14. CASE TopLevelFails
  <2>1. torn' \subseteq Crates
    BY <1>14, AggregatedIsCrate DEF TopLevelFails, TypeOK
  <2> QED BY <1>14, <1>e, <1>f, <2>1 DEF TopLevelFails, TypeOK
<1>15. CASE Crash
  <2>1. torn' \subseteq Crates
    BY <1>15, <1>c, AggregatedIsCrate DEF Crash, TypeOK
  <2> QED BY <1>15, <1>e, <1>f, <2>1 DEF Crash, LeaveLoop, TypeOK
<1>16. CASE UNCHANGED vars
  BY <1>16 DEF vars, TypeOK
<1> QED BY <1>1, <1>2, <1>3, <1>4, <1>5, <1>a, <1>b, <1>6, <1>7, <1>8, <1>d, <1>9, <1>10, <1>11,
           <1>12, <1>13, <1>14, <1>15, <1>16 DEF Next, Stage, Work

-----------------------------------------------------------------------------
\* A step of a processor leaves the others alone.
LEMMA OthersStay ==
    ASSUME TypeOK, NEW w \in Workers, Work(w) \/ ChunkFails(w)
    PROVE  \A x \in Workers \ {w} :
              /\ pc'[x] = pc[x] /\ todo'[x] = todo[x] /\ new'[x] = new[x]
              /\ previous'[x] = previous[x] /\ report'[x] = report[x] /\ done'[x] = done[x]
              /\ x \in late' <=> x \in late
              /\ Current(x)' = Current(x)
<1> USE DEF world, disk, loop, worker
<1> SUFFICES \A x \in Workers \ {w} :
              /\ pc'[x] = pc[x] /\ todo'[x] = todo[x] /\ new'[x] = new[x]
              /\ previous'[x] = previous[x] /\ report'[x] = report[x] /\ done'[x] = done[x]
              /\ x \in late' <=> x \in late
  BY DEF Current
<1>1. CASE TakeChunk(w)
  BY <1>1 DEF TakeChunk, TypeOK
<1>2. CASE Inspect(w)
  <2>1. /\ todo' \in {todo, [todo EXCEPT ![w] = todo[w] \ {Current(w)}]}
        /\ pc' \in {pc, [pc EXCEPT ![w] = "previous"]}
        /\ new' = [new EXCEPT ![w] = ToReport(Current(w))]
        /\ UNCHANGED <<previous, report, done, late>>
    BY <1>2 DEF Inspect
  <2> QED BY <2>1 DEF TypeOK
<1>3. CASE LoadPrevious(w)
  BY <1>3 DEF LoadPrevious, TypeOK
<1>4. CASE TruncateState(w)
  BY <1>4 DEF TruncateState, TypeOK
<1>5. CASE StoreState(w)
  BY <1>5 DEF StoreState, TypeOK
<1>6. CASE MarkDone(w)
  BY <1>6 DEF MarkDone, TypeOK
<1>7. CASE SendReport(w)
  BY <1>7 DEF SendReport, TypeOK
<1>8. CASE ChunkFails(w)
  BY <1>8 DEF ChunkFails, TypeOK
<1> QED BY <1>1, <1>2, <1>3, <1>4, <1>5, <1>6, <1>7, <1>8 DEF Work

\* What each step of a processor does to it.
LEMMA TakesChunk ==
    ASSUME TypeOK, Shape, NEW w \in Workers, TakeChunk(w)
    PROVE  /\ pc[w] = "idle" /\ pc'[w] = "crate"
           /\ todo[w] = {} /\ done[w] = {} /\ report[w] = Nobody
           /\ \/ w \in late /\ todo'[w] = rest[w] /\ queue' = queue
              \/ w \notin late /\ queue # <<>> /\ queue' = <<>> /\ todo'[w] = Head(queue)
           /\ UNCHANGED <<world, disk, loop, agg, before, new, previous, report, done, late, shifted, single, torn, faults>>
<1>1. \A c : Tail(<<c>>) = <<>> /\ Head(<<c>>) = c
  OBVIOUS
<1> QED BY <1>1 DEF TakeChunk, TypeOK, Shape

LEMMA Inspects ==
    ASSUME TypeOK, NEW w \in Workers, Inspect(w)
    PROVE  /\ pc[w] = "crate" /\ todo[w] # {}
           /\ new'[w] = ToReport(Current(w))
           /\ \/ pc'[w] = "crate" /\ todo'[w] = todo[w] \ {Current(w)}
              \/ pc'[w] = "previous" /\ todo'[w] = todo[w]
           /\ UNCHANGED <<world, disk, loop, queue, agg, before, previous, report, done, late, rest, shifted, single, torn, faults>>
<1>1. \/ pc' = pc /\ todo' = [todo EXCEPT ![w] = todo[w] \ {Current(w)}]
      \/ pc' = [pc EXCEPT ![w] = "previous"] /\ todo' = todo
  BY DEF Inspect
<1> QED BY <1>1 DEF Inspect, TypeOK

LEMMA AtItsCrate ==
    ASSUME TypeOK, Shape, NEW w \in Workers, pc[w] \in {"previous", "store", "write"}
    PROVE  /\ Current(w) \in todo[w] /\ Current(w) \in Crates
           /\ \A v \in new[w] : v \in Versions /\ v[1] = Current(w)
           /\ \A v \in Versions : Absolute(w)[v] = previous[w][v] + IF v \in new[w] THEN 1 ELSE 0
<1>1. previous[w] \in Report /\ new[w] \subseteq Versions
  BY DEF TypeOK
<1> QED BY <1>1, CurrentIsTodo, Constants, Merging DEF Shape, Absolute

LEMMA Truncates ==
    ASSUME TypeOK, Shape, NEW w \in Workers, TruncateState(w)
    PROVE  /\ pc[w] = "store" /\ pc'[w] = "write"
           /\ torn \subseteq torn'
           /\ cache[Current(w)] = previous[w] \/ Current(w) \in torn'
           /\ cache'[Current(w)] = Nobody
           /\ \A c \in Crates \ {Current(w)} : cache'[c] = cache[c]
           /\ UNCHANGED <<world, marked, top, loop, queue, agg, before, todo, new, previous, report, done, late, rest, shifted, single, faults>>
BY AtItsCrate DEF TruncateState, TypeOK

LEMMA Stores ==
    ASSUME TypeOK, Shape, NEW w \in Workers, StoreState(w)
    PROVE  /\ pc[w] = "write" /\ pc'[w] = "crate"
           /\ torn \subseteq torn'
           /\ cache[Current(w)] = Nobody \/ Current(w) \in torn'
           /\ todo'[w] = todo[w] \ {Current(w)}
           /\ done'[w] = done[w] \cup new[w]
           /\ new'[w] = {}
           /\ \A v \in Versions : report'[w][v] = report[w][v] + IF v \in new[w] THEN 1 ELSE 0
           /\ cache'[Current(w)] = Absolute(w)
           /\ \A c \in Crates \ {Current(w)} : cache'[c] = cache[c]
           /\ UNCHANGED <<world, marked, top, loop, queue, agg, before, late, rest, shifted, single, faults>>
<1>1. pc[w] = "write" /\ Current(w) \in Crates
  BY AtItsCrate DEF StoreState
<1>2. report'[w] = MergeReports(report[w], Once(new[w]))
  BY DEF StoreState, TypeOK
<1>3. \A v \in Versions : report'[w][v] = report[w][v] + IF v \in new[w] THEN 1 ELSE 0
  <2>1. report[w] \in Report
    BY DEF TypeOK
  <2> QED BY <1>2, <2>1, Constants, Merging
<1>4. /\ cache'[Current(w)] = Absolute(w)
      /\ \A c \in Crates \ {Current(w)} : cache'[c] = cache[c]
  BY <1>1 DEF StoreState, TypeOK
<1> QED BY <1>1, <1>3, <1>4 DEF StoreState, TypeOK

LEMMA Sends ==
    ASSUME TypeOK, Shape, NEW w \in Workers, SendReport(w)
    PROVE  /\ pc[w] = "send" /\ pc'[w] = "idle" /\ report'[w] = Nobody
           /\ agg' = IF w \in late THEN agg ELSE MergeReports(agg, report[w])
           /\ phase \in {"off", "store", "write"} => agg' = agg
           /\ UNCHANGED <<world, disk, loop, queue, before, todo, new, previous, done, rest, shifted, single, torn, faults>>
BY DEF SendReport, TypeOK, Shape

LEMMA ShapeInit == Init => Shape
BY DEF Init, Shape

LEMMA ShapeNext == TypeOK /\ Shape /\ [Next]_vars => Shape'
<1> SUFFICES ASSUME TypeOK, Shape, [Next]_vars PROVE Shape'
  OBVIOUS
<1> USE DEF world, disk, loop, worker
\* steps that leave the processors alone
<1>s. ASSUME UNCHANGED <<pc, todo, new, report, done>>,
             queue' \in {queue, <<>>} \/ \E c \in SUBSET Crates : queue' = <<c>>,
             phase' # "send" => chunk' = {},
             phase' = "off" => agg' = Nobody,
             phase' = "store" => \A v \in Versions : before'[v] > 0 => agg'[v] > 0,
             phase' \in {"off", "store", "write"} =>
                queue' = <<>> /\ \A w \in Workers \ late' : pc[w] = "idle"
      PROVE  Shape'
  <2>1. \A w \in Workers : Current(w)' = Current(w)
    BY <1>s DEF Current
  <2> QED BY <1>s, <2>1 DEF Shape
<1>1. CASE AddCrate \/ AddResult \/ Yank \/ UNCHANGED vars
  <2>1. UNCHANGED <<loop, queue, agg, before, worker>>
    BY <1>1 DEF AddCrate, AddResult, Yank, vars
  <2> QED BY <1>s, <2>1 DEF Shape
<1>2. CASE StartRound
  <2>1. phase = "off" /\ phase' = "load" /\ UNCHANGED <<chunk, queue, agg, before, worker>>
    BY <1>2 DEF StartRound
  <2> QED BY <1>s, <2>1 DEF Shape
<1>3. CASE LoadChunk
  <2>1. phase' = "send" /\ UNCHANGED <<queue, worker>>
    BY <1>3 DEF LoadChunk
  <2> QED BY <1>s, <2>1
<1>4. CASE SendChunk
  <2>1. queue' = <<chunk>> /\ chunk \in SUBSET Crates /\ chunk' = {} /\ phase' \in {"end", "load"}
        /\ UNCHANGED worker
    BY <1>4 DEF SendChunk, LeaveLoop, TypeOK
  <2> QED BY <1>s, <2>1
<1>5. CASE MergeTopLevel
  <2>1. /\ phase = "end" /\ phase' \in {"off", "store"} /\ queue = <<>>
        /\ \A w \in Workers \ late : pc[w] = "idle"
        /\ phase' = "off" => agg' = Nobody
        /\ UNCHANGED <<chunk, queue, worker>>
    BY <1>5, Aggregates DEF AllReceived
  <2>2. phase' = "store" => \A v \in Versions : before'[v] > 0 => agg'[v] > 0
    <3>1. \A v \in Versions : agg[v] \in Nat
      BY DEF TypeOK, Report
    <3>2. before' \in Report
      BY <1>5, Aggregates
    <3>3. \A v \in Versions : before'[v] \in Nat
      BY <3>2 DEF Report
    <3> QED BY <1>5, <3>1, <3>3, Aggregates
  <2>3. chunk' = {}
    BY <2>1 DEF Shape
  <2> QED BY <1>s, <2>1, <2>2, <2>3
<1>6. CASE TruncateTopLevel
  <2>1. phase = "store" /\ phase' = "write" /\ UNCHANGED <<chunk, queue, agg, worker>>
    BY <1>6 DEF TruncateTopLevel
  <2> QED BY <1>s, <2>1 DEF Shape
<1>7. CASE StoreTopLevel
  <2>1. phase = "write" /\ phase' = "off" /\ agg' = Nobody /\ UNCHANGED <<chunk, queue, worker>>
    BY <1>7 DEF StoreTopLevel
  <2> QED BY <1>s, <2>1 DEF Shape
\* a processor at work
<1>w. ASSUME NEW w \in Workers, Work(w) \/ ChunkFails(w),
             queue' \in {queue, <<>>}, phase' = phase, chunk' = chunk, before' = before,
             phase \in {"off", "store", "write"} => agg' = agg,
             w \in late' \/ pc'[w] = "idle" \/ phase \notin {"off", "store", "write"},
             pc'[w] \in {"idle", "send"} => todo'[w] = {} /\ done'[w] = {},
             pc'[w] = "idle" => report'[w] = Nobody,
             pc'[w] \in {"previous", "store", "write"} =>
                todo'[w] = todo[w] /\ todo[w] # {} /\ \A v \in new'[w] : v[1] = Current(w)
      PROVE  Shape'
  <2>1. \A x \in Workers \ {w} :
            pc'[x] = pc[x] /\ todo'[x] = todo[x] /\ new'[x] = new[x]
            /\ report'[x] = report[x] /\ done'[x] = done[x]
            /\ (x \in late' <=> x \in late) /\ Current(x)' = Current(x)
    BY <1>w, OthersStay
  <2>2. todo'[w] = todo[w] => Current(w)' = Current(w)
    BY DEF Current
  <2>3. \A x \in Workers :
          /\ pc'[x] \in {"idle", "send"} => todo'[x] = {} /\ done'[x] = {}
          /\ pc'[x] = "idle" => report'[x] = Nobody
    BY <1>w, <2>1 DEF Shape
  <2>4. \A x \in Workers :
          pc'[x] \in {"previous", "store", "write"} =>
                todo'[x] # {} /\ \A v \in new'[x] : v[1] = Current(x)'
    BY <1>w, <2>1, <2>2 DEF Shape
  <2>5. phase' \in {"off", "store", "write"} =>
            queue' = <<>> /\ \A x \in Workers \ late' : pc'[x] = "idle"
    BY <1>w, <2>1 DEF Shape
  <2> QED BY <1>w, <2>3, <2>4, <2>5 DEF Shape
<1>8. ASSUME NEW w \in Workers, TakeChunk(w) PROVE Shape'
  <2>1. w \in late' \/ phase \notin {"off", "store", "write"}
    BY <1>8, TakesChunk DEF Shape
  <2> QED BY <1>w, <1>8, <2>1, TakesChunk DEF Work
<1>o. \A w \in Workers : pc[w] # "idle" => w \in late \/ phase \notin {"off", "store", "write"}
  BY DEF Shape
<1>9. ASSUME NEW w \in Workers, Inspect(w) PROVE Shape'
  <2>1. \A v \in ToReport(Current(w)) : v[1] = Current(w)
    BY DEF ToReport, AllButRecentlyYanked
  <2> QED BY <1>o, <1>w, <1>9, <2>1, Inspects DEF Work
<1>10. ASSUME NEW w \in Workers, LoadPrevious(w) PROVE Shape'
  <2>1. pc[w] = "previous" /\ pc'[w] = "store"
        /\ UNCHANGED <<todo, new, queue, phase, chunk, agg, before, late>>
    BY <1>10 DEF LoadPrevious, TypeOK
  <2> QED BY <1>o, <1>w, <1>10, <2>1 DEF Work, Shape
<1>11. ASSUME NEW w \in Workers, TruncateState(w) PROVE Shape'
  <2>1. todo[w] # {} /\ \A v \in new[w] : v[1] = Current(w)
    BY <1>11, Truncates DEF Shape
  <2> QED BY <1>o, <1>w, <1>11, <2>1, Truncates DEF Work
<1>12. ASSUME NEW w \in Workers, StoreState(w) PROVE Shape'
  BY <1>o, <1>w, <1>12, Stores DEF Work
<1>13. ASSUME NEW w \in Workers, MarkDone(w) PROVE Shape'
  <2>1. pc[w] = "crate" /\ pc'[w] = "send" /\ todo'[w] = {} /\ done'[w] = {}
        /\ UNCHANGED <<queue, phase, chunk, agg, before, late>>
    BY <1>13 DEF MarkDone, TypeOK
  <2> QED BY <1>o, <1>w, <1>13, <2>1 DEF Work
<1>14. ASSUME NEW w \in Workers, SendReport(w) PROVE Shape'
  <2>1. todo[w] = {} /\ done[w] = {}
    BY <1>14, Sends DEF Shape
  <2> QED BY <1>w, <1>14, <2>1, Sends DEF Work
<1>15. CASE Abort
  <2>1. /\ phase' = "off" /\ chunk' = {} /\ queue' = <<>> /\ agg' = Nobody
        /\ UNCHANGED <<pc, todo, new, report, done>>
        /\ \A w \in Workers \ late' : pc[w] = "idle"
    BY <1>15 DEF Abort, LeaveLoop
  <2> QED BY <1>s, <2>1
<1>16. CASE TopLevelFails
  <2>1. /\ phase' = "off" /\ agg' = Nobody /\ UNCHANGED <<chunk, queue, worker>>
        /\ phase = "end" \/ phase \in {"store", "write"}
        /\ phase = "end" => queue = <<>> /\ \A w \in Workers \ late : pc[w] = "idle"
    BY <1>16 DEF TopLevelFails, AllReceived
  <2> QED BY <1>s, <2>1 DEF Shape
<1>17. ASSUME NEW w \in Workers, ChunkFails(w) PROVE Shape'
  <2>1. pc[w] # "idle" /\ pc'[w] = "send" /\ todo'[w] = {} /\ done'[w] = {}
        /\ UNCHANGED <<queue, phase, chunk, agg, before, late>>
    BY <1>17 DEF ChunkFails, TypeOK
  <2> QED BY <1>o, <1>w, <1>17, <2>1
<1>18. CASE Crash
  BY <1>18 DEF Crash, LeaveLoop, Shape
<1> QED BY <1>1, <1>2, <1>3, <1>4, <1>5, <1>6, <1>7, <1>8, <1>9, <1>10, <1>11, <1>12, <1>13,
           <1>14, <1>15, <1>16, <1>17, <1>18 DEF Next, Stage, Work

-----------------------------------------------------------------------------
(***************************************************************************)
(* What is stored stays, or its crate's state was lost.                    *)
(***************************************************************************)
LEMMA KeptNext ==
    ASSUME TypeOK, Shape, [Next]_vars, NEW v \in Versions, Kept(v)
    PROVE  Kept(v)'
<1> USE DEF world, disk, loop, worker
<1> DEFINE c == v[1]
<1>v. c \in Crates
  BY ReportsAssumption
<1>a. AggregatorWrites(v) => phase = "write"
  BY DEF AggregatorWrites
\* steps that touch no state
<1>k. ASSUME UNCHANGED cache, torn \subseteq torn',
             \A w \in Workers : Writes(w, v) => Writes(w, v)' \/ c \in torn',
             AggregatorWrites(v) => AggregatorWrites(v)' \/ c \in torn'
      PROVE  Kept(v)'
  BY <1>k DEF Kept
<1>s. ASSUME UNCHANGED <<pc, todo, new, previous>>
      PROVE  \A w \in Workers : Writes(w, v)' <=> Writes(w, v)
  BY <1>s DEF Writes, Absolute, Current
<1>g. UNCHANGED <<phase, agg>> => (AggregatorWrites(v)' <=> AggregatorWrites(v))
  BY DEF AggregatorWrites, Aggregated, OneCrate, TheCrate, CratesOf
<1>1. CASE AddCrate \/ AddResult \/ Yank \/ UNCHANGED vars
  <2>1. UNCHANGED <<cache, torn, pc, todo, new, previous, phase, agg>>
    BY <1>1 DEF AddCrate, AddResult, Yank, vars
  <2> QED BY <1>k, <1>s, <1>g, <2>1
<1>2. CASE StartRound \/ LoadChunk \/ SendChunk \/ Abort
  <2>1. phase # "write" /\ UNCHANGED <<cache, torn, pc, todo, new, previous>>
    BY <1>2 DEF StartRound, LoadChunk, SendChunk, Abort
  <2> QED BY <1>a, <1>k, <1>s, <2>1
<1>3. CASE MergeTopLevel
  <2>1. phase # "write" /\ UNCHANGED <<cache, torn, pc, todo, new, previous>>
    BY <1>3, Aggregates DEF AllReceived
  <2> QED BY <1>a, <1>k, <1>s, <2>1
<1>4. CASE TruncateTopLevel
  <2>1. phase = "store" /\ phase' = "write" /\ torn \subseteq torn'
        /\ UNCHANGED <<agg, pc, todo, new, previous>>
    BY <1>4 DEF TruncateTopLevel
  <2>2. ASSUME UNCHANGED cache PROVE Kept(v)'
    BY <1>a, <1>k, <1>s, <2>1, <2>2
  <2>3. ASSUME OneCrate(agg), TheCrate(agg) = c PROVE Kept(v)'
    <3>1. cache[c] = before \/ c \in torn'
      BY <1>4, <2>3 DEF TruncateTopLevel
    <3>2. cache[c] = before /\ cache[c][v] > 0 => agg[v] > 0
      BY <2>1 DEF Shape
    <3>3. Aggregated' = {c}
      BY <2>1, <2>3 DEF Aggregated, OneCrate, TheCrate, CratesOf
    <3>4. cache[c] = before /\ cache[c][v] > 0 => AggregatorWrites(v)'
      BY <2>1, <3>2, <3>3 DEF AggregatorWrites
    <3> QED BY <1>a, <1>s, <2>1, <3>1, <3>4 DEF Kept
  <2>4. ASSUME OneCrate(agg), TheCrate(agg) # c PROVE Kept(v)'
    <3>1. cache'[c] = cache[c]
      BY <1>4, <1>v, <2>4 DEF TruncateTopLevel, TypeOK
    <3> QED BY <1>a, <1>s, <2>1, <3>1 DEF Kept
  <2>5. ~OneCrate(agg) => UNCHANGED cache
    BY <1>4 DEF TruncateTopLevel
  <2> QED BY <2>2, <2>3, <2>4, <2>5
<1>5. CASE StoreTopLevel
  <2>1. phase = "write" /\ torn \subseteq torn' /\ UNCHANGED <<pc, todo, new, previous>>
    BY <1>5 DEF StoreTopLevel
  <2>2. ASSUME OneCrate(agg), TheCrate(agg) = c PROVE Kept(v)'
    <3>1. (cache[c] = Nobody \/ c \in torn') /\ cache'[c] = agg
      BY <1>5, <1>v, <2>2 DEF StoreTopLevel, TypeOK
    <3>2. AggregatorWrites(v) => cache'[c][v] > 0
      BY <3>1 DEF AggregatorWrites
    <3>3. cache[c] = Nobody => ~(cache[c][v] > 0)
      BY Constants
    <3> QED BY <1>s, <2>1, <3>1, <3>2, <3>3 DEF Kept
  <2>3. ASSUME OneCrate(agg), TheCrate(agg) # c PROVE Kept(v)'
    <3>1. cache'[c] = cache[c]
      BY <1>5, <1>v, <2>3 DEF StoreTopLevel, TypeOK
    <3>2. ~AggregatorWrites(v)
      BY <2>1, <2>3 DEF AggregatorWrites, Aggregated
    <3> QED BY <1>s, <2>1, <3>1, <3>2 DEF Kept
  <2>4. ASSUME ~OneCrate(agg) PROVE Kept(v)'
    <3>1. UNCHANGED cache
      BY <1>5, <2>4 DEF StoreTopLevel
    <3>2. ~AggregatorWrites(v)
      BY <2>4 DEF AggregatorWrites, Aggregated
    <3> QED BY <1>k, <1>s, <2>1, <3>1, <3>2
  <2> QED BY <2>2, <2>3, <2>4
\* the writes of the others go on
<1>w. ASSUME NEW w \in Workers, Work(w) \/ ChunkFails(w)
      PROVE  \A x \in Workers \ {w} : Writes(x, v)' <=> Writes(x, v)
  <2>1. \A x \in Workers \ {w} : pc'[x] = pc[x] /\ new'[x] = new[x] /\ previous'[x] = previous[x]
                                 /\ Current(x)' = Current(x)
    BY <1>w, OthersStay
  <2> QED BY <2>1 DEF Writes, Absolute
<1>6. ASSUME NEW w \in Workers, UNCHANGED <<cache, torn, phase>>, pc[w] # "write",
             TakeChunk(w) \/ Inspect(w) \/ LoadPrevious(w) \/ MarkDone(w) \/ SendReport(w),
             phase = "write" => agg' = agg
      PROVE  Kept(v)'
  <2>1. \A x \in Workers : Writes(x, v) => Writes(x, v)'
    BY <1>w, <1>6 DEF Work, Writes
  <2> QED BY <1>a, <1>g, <1>k, <1>6, <2>1
<1>7. ASSUME NEW w \in Workers, TakeChunk(w) \/ Inspect(w) \/ LoadPrevious(w) \/ MarkDone(w) \/ SendReport(w)
      PROVE  Kept(v)'
  <2>1. CASE SendReport(w)
    BY <1>6, <2>1, Sends
  <2>2. CASE TakeChunk(w) \/ Inspect(w) \/ LoadPrevious(w) \/ MarkDone(w)
    <3>1. pc[w] # "write" /\ UNCHANGED <<cache, torn, phase, agg>>
      BY <2>2 DEF TakeChunk, Inspect, LoadPrevious, MarkDone
    <3> QED BY <1>6, <2>2, <3>1
  <2> QED BY <1>7, <2>1, <2>2
<1>8. ASSUME NEW w \in Workers, TruncateState(w) PROVE Kept(v)'
  <2>1. /\ pc[w] = "store" /\ pc'[w] = "write" /\ torn \subseteq torn' /\ UNCHANGED <<phase, agg>>
        /\ new'[w] = new[w] /\ previous'[w] = previous[w]
        /\ Current(w)' = Current(w)
    BY <1>8, Truncates DEF Current
  <2>2. \A x \in Workers : Writes(x, v) => Writes(x, v)'
    BY <1>w, <1>8, <2>1 DEF Work, Writes
  <2>3. CASE Current(w) = c
    <3>1. cache[c] = previous[w] \/ c \in torn'
      BY <1>8, <2>3, Truncates
    <3>2. cache[c] = previous[w] /\ cache[c][v] > 0 => Absolute(w)[v] > 0
      <4>1. Absolute(w)[v] = previous[w][v] + IF v \in new[w] THEN 1 ELSE 0
        BY <2>1, AtItsCrate
      <4>2. previous[w][v] \in Nat
        BY DEF TypeOK, Report
      <4> QED BY <4>1, <4>2
    <3>3. Absolute(w)[v] > 0 => Writes(w, v)'
      BY <2>1, <2>3 DEF Writes, Absolute
    <3> QED BY <1>g, <2>1, <2>2, <3>1, <3>2, <3>3 DEF Kept
  <2>4. CASE Current(w) # c
    <3>1. cache'[c] = cache[c]
      BY <1>8, <1>v, <2>4, Truncates
    <3> QED BY <1>g, <2>1, <2>2, <3>1 DEF Kept
  <2> QED BY <2>3, <2>4
<1>9. ASSUME NEW w \in Workers, StoreState(w) PROVE Kept(v)'
  <2>1. pc[w] = "write" /\ torn \subseteq torn' /\ UNCHANGED <<phase, agg>>
    BY <1>9, Stores
  <2>2. \A x \in Workers \ {w} : Writes(x, v) => Writes(x, v)'
    BY <1>w, <1>9 DEF Work
  <2>3. CASE Current(w) = c
    <3>1. (cache[c] = Nobody \/ c \in torn') /\ cache'[c] = Absolute(w)
      BY <1>9, <2>3, Stores
    <3>2. Writes(w, v) => cache'[c][v] > 0
      BY <3>1 DEF Writes
    <3>3. cache[c] = Nobody => ~(cache[c][v] > 0)
      BY Constants
    <3> QED BY <1>g, <2>1, <2>2, <3>1, <3>2, <3>3 DEF Kept
  <2>4. CASE Current(w) # c
    <3>1. cache'[c] = cache[c]
      BY <1>9, <1>v, <2>4, Stores
    <3>2. ~Writes(w, v)
      BY <2>4 DEF Writes
    <3> QED BY <1>g, <2>1, <2>2, <3>1, <3>2 DEF Kept
  <2> QED BY <2>3, <2>4
<1>10. ASSUME NEW w \in Workers, ChunkFails(w) PROVE Kept(v)'
  <2>1. torn \subseteq torn' /\ UNCHANGED <<cache, phase, agg>>
        /\ (pc[w] = "write" => Current(w) \in torn')
    BY <1>10 DEF ChunkFails
  <2>2. \A x \in Workers : Writes(x, v) => Writes(x, v)' \/ c \in torn'
    BY <1>w, <1>10, <2>1 DEF Writes
  <2> QED BY <1>g, <1>k, <2>1, <2>2
<1>11. CASE TopLevelFails
  <2>1. torn' = torn \cup Aggregated /\ UNCHANGED <<cache, pc, todo, new, previous>>
    BY <1>11 DEF TopLevelFails
  <2>2. AggregatorWrites(v) => c \in torn'
    BY <2>1 DEF AggregatorWrites
  <2> QED BY <1>k, <1>s, <2>1, <2>2
<1>12. CASE Crash
  <2>1. /\ torn' = torn \cup {Current(w) : w \in {u \in Workers : pc[u] = "write"}} \cup Aggregated
        /\ UNCHANGED cache
    BY <1>12 DEF Crash
  <2>2. AggregatorWrites(v) => c \in torn'
    BY <2>1 DEF AggregatorWrites
  <2>3. \A w \in Workers : Writes(w, v) => c \in torn'
    BY <2>1 DEF Writes
  <2> QED BY <1>k, <2>1, <2>2, <2>3
<1> QED BY <1>1, <1>2, <1>3, <1>4, <1>5, <1>7, <1>8, <1>9, <1>10, <1>11, <1>12
        DEF Next, Stage, Work

LEMMA SafeNext ==
    ASSUME TypeOK, Shape, Safe, [Next]_vars
    PROVE  Safe'
<1> USE DEF world, disk, loop, worker
<1>1. ASSUME NEW v \in Versions, Stored(v) PROVE Kept(v)'
  BY <1>1, KeptNext DEF Safe
<1>2. ASSUME \A v \in Versions : Stored(v)' => Stored(v) PROVE Safe'
  BY <1>1, <1>2 DEF Safe
<1>3. ASSUME NEW w \in Workers, StoreState(w) PROVE Safe'
  <2>1. /\ pc[w] = "write" /\ marked' = marked /\ done'[w] = done[w] \cup new[w]
        /\ cache'[Current(w)] = Absolute(w)
    BY <1>3, Stores
  <2>2. \A x \in Workers \ {w} : done'[x] = done[x]
    BY <1>3, OthersStay DEF Work
  <2>3. ASSUME NEW v \in new[w] PROVE Kept(v)'
    <3>1. v \in Versions /\ v[1] = Current(w) /\ Absolute(w)[v] = previous[w][v] + 1
      BY <2>1, AtItsCrate
    <3>2. previous[w][v] \in Nat
      BY <3>1 DEF TypeOK, Report
    <3>3. cache'[v[1]][v] > 0
      BY <2>1, <3>1, <3>2
    <3> QED BY <3>3 DEF Kept
  <2>4. \A v \in Versions : Stored(v)' => Stored(v) \/ v \in new[w]
    BY <2>1, <2>2 DEF Stored
  <2> QED BY <1>1, <2>3, <2>4 DEF Safe
<1>4. ASSUME NEW w \in Workers, MarkDone(w) PROVE Safe'
  <2>1. marked' = marked \cup done[w] /\ done' = [done EXCEPT ![w] = {}]
    BY <1>4 DEF MarkDone
  <2>2. \A x \in Workers : done'[x] \subseteq done[x]
    BY <2>1 DEF TypeOK
  <2> QED BY <1>2, <2>1, <2>2 DEF Stored
<1>5. ASSUME NEW w \in Workers, ChunkFails(w) PROVE Safe'
  <2>1. marked' = marked /\ done' = [done EXCEPT ![w] = {}]
    BY <1>5 DEF ChunkFails
  <2>2. \A x \in Workers : done'[x] \subseteq done[x]
    BY <2>1 DEF TypeOK
  <2> QED BY <1>2, <2>1, <2>2 DEF Stored
<1>6. CASE Crash
  <2>1. marked' = marked /\ \A w \in Workers : done'[w] = {}
    BY <1>6 DEF Crash
  <2> QED BY <1>2, <2>1 DEF Stored
<1>7. CASE UNCHANGED <<marked, done>>
  BY <1>2, <1>7 DEF Stored
<1> QED BY <1>3, <1>4, <1>5, <1>6, <1>7
        DEF Next, Stage, Work, AddCrate, AddResult, Yank, StartRound, LoadChunk, SendChunk,
            MergeTopLevel, TruncateTopLevel, StoreTopLevel, TakeChunk, Inspect, LoadPrevious,
            TruncateState, SendReport, Abort, TopLevelFails, vars

-----------------------------------------------------------------------------
(***************************************************************************)
(* Without interruptions.                                                  *)
(***************************************************************************)
\* What was shifted, single or faulty stays so.
LEMMA FlagsStay ==
    ASSUME TypeOK, [Next]_vars
    PROVE  /\ shifted => shifted'
           /\ single => single'
           /\ faults' = 0 =>
                 /\ faults = 0
                 /\ ~(Abort \/ TopLevelFails \/ Crash \/ \E w \in Workers : ChunkFails(w))
                 /\ late = {} => late' = {}
<1> USE DEF world, disk, loop, worker
<1>0. CASE AddCrate
  <2>1. shifted => shifted'
    BY <1>0, Zenon DEF AddCrate
  <2>2. UNCHANGED <<single, faults, late>>
    BY <1>0 DEF AddCrate
  <2>3. ~Fault
    BY <2>2 DEF Fault, TypeOK
  <2> QED BY <2>1, <2>2, <2>3 DEF Abort, TopLevelFails, Crash, ChunkFails
<1>1. ASSUME UNCHANGED <<shifted, faults>>, single => single', late' \subseteq late
      PROVE  /\ shifted => shifted'
             /\ single => single'
             /\ faults' = 0 =>
                   /\ faults = 0
                   /\ ~(Abort \/ TopLevelFails \/ Crash \/ \E w \in Workers : ChunkFails(w))
                   /\ late = {} => late' = {}
  <2>1. ~Fault
    BY <1>1 DEF Fault, TypeOK
  <2> QED BY <1>1, <2>1 DEF Abort, TopLevelFails, Crash, ChunkFails
<1>2. CASE AddResult \/ Yank \/ StartRound \/ LoadChunk \/ SendChunk \/ MergeTopLevel
           \/ TruncateTopLevel \/ UNCHANGED vars
  BY <1>1, <1>2 DEF AddResult, Yank, StartRound, LoadChunk, SendChunk, MergeTopLevel,
                    TruncateTopLevel, vars
<1>3. CASE StoreTopLevel
  <2>1. UNCHANGED <<shifted, faults, late>>
    BY <1>3 DEF StoreTopLevel
  <2>2. single' = single \/ single' = TRUE
    BY <1>3 DEF StoreTopLevel
  <2> QED BY <1>1, <2>1, <2>2
<1>4. ASSUME NEW w \in Workers, Work(w)
      PROVE  UNCHANGED <<shifted, single, faults>> /\ late' \subseteq late
  BY <1>4 DEF Work, TakeChunk, Inspect, LoadPrevious, TruncateState, StoreState, MarkDone, SendReport
<1>5. CASE Abort \/ TopLevelFails \/ Crash \/ \E w \in Workers : ChunkFails(w)
  <2>1. faults' = faults + 1 /\ faults \in Nat /\ UNCHANGED <<shifted, single>>
    BY <1>5 DEF Abort, TopLevelFails, Crash, ChunkFails, Fault, TypeOK
  <2> QED BY <2>1
<1> QED BY <1>0, <1>1, <1>2, <1>3, <1>4, <1>5 DEF Next, Stage

\* A crate that is taken, or in the chunk or the queue, is in one hand.
LEMMA DisjointNext ==
    ASSUME TypeOK, Shape, Disjoint, Passed, late = {}, [Next]_vars, faults' = 0
    PROVE  Disjoint'
<1> USE DEF world, disk, loop, worker
<1>k. ASSUME UNCHANGED <<todo, done>>, queue' \in {queue, <<>>}, chunk' \in {chunk, {}}
      PROVE  Disjoint'
  BY <1>k DEF Disjoint, Taken, Queued
<1>1. CASE AddCrate \/ AddResult \/ Yank \/ UNCHANGED vars
  BY <1>k, <1>1 DEF AddCrate, AddResult, Yank, vars
<1>2. CASE StartRound \/ MergeTopLevel \/ TruncateTopLevel \/ StoreTopLevel
  BY <1>k, <1>2 DEF StartRound, MergeTopLevel, TruncateTopLevel, StoreTopLevel
<1>3. CASE LoadChunk
  <2>1. /\ phase = "load" /\ chunk' = Rows(fetched, size)
        /\ UNCHANGED <<todo, done, queue>> /\ fetched \in Nat
    BY <1>3 DEF LoadChunk, TypeOK
  <2>2. \A c \in chunk' : c \in Crates /\ Before(c) \in Nat /\ ~(Before(c) < fetched)
    BY <2>1, SizesAreNumbers DEF Rows, TypeOK
  <2>3. \A c \in chunk' : ~Queued(c) /\ \A w \in Workers : ~Taken(w, c)
    BY <2>1, <2>2 DEF Passed
  <2>4. \A c : (Queued(c)' <=> Queued(c)) /\ \A w \in Workers : Taken(w, c)' <=> Taken(w, c)
    BY <2>1 DEF Queued, Taken
  <2> QED BY <2>1, <2>3, <2>4 DEF Disjoint
<1>4. CASE SendChunk
  <2>1. queue' = <<chunk>> /\ chunk' = {} /\ UNCHANGED <<todo, done>>
    BY <1>4 DEF SendChunk, LeaveLoop
  <2>2. \A c : Queued(c)' <=> c \in chunk
    BY <2>1 DEF Queued
  <2>3. \A c : \A w \in Workers : Taken(w, c)' <=> Taken(w, c)
    BY <2>1 DEF Taken
  <2> QED BY <2>1, <2>2, <2>3 DEF Disjoint
<1>w. ASSUME NEW w \in Workers, Work(w), UNCHANGED chunk,
             queue' = queue, \A c \in Crates : Taken(w, c)' => Taken(w, c),
             \A v \in done'[w] : v[1] \notin todo'[w]
      PROVE  Disjoint'
  <2>1. \A x \in Workers \ {w} : todo'[x] = todo[x] /\ done'[x] = done[x]
    BY <1>w, OthersStay
  <2>2. \A c \in Crates : \A x \in Workers : Taken(x, c)' => Taken(x, c)
    BY <1>w, <2>1 DEF Taken
  <2>3. \A c : Queued(c)' <=> Queued(c)
    BY <1>w DEF Queued
  <2>4. \A x \in Workers : \A v \in done'[x] : v[1] \notin todo'[x]
    BY <1>w, <2>1 DEF Disjoint
  <2> QED BY <1>w, <2>2, <2>3, <2>4 DEF Disjoint
<1>5. ASSUME NEW w \in Workers, TakeChunk(w) PROVE Disjoint'
  <2>1. \A x \in Workers \ {w} : todo'[x] = todo[x] /\ done'[x] = done[x]
    BY <1>5, OthersStay DEF Work
  <2>2. /\ todo'[w] = Head(queue) /\ queue # <<>> /\ done'[w] = {} /\ queue' = <<>>
        /\ UNCHANGED chunk
    BY <1>5, TakesChunk
  <2>3. \A c : (Taken(w, c)' <=> Queued(c)) /\ ~Queued(c)'
    BY <2>2 DEF Taken, Queued
  <2>4. \A c : \A x \in Workers \ {w} : Taken(x, c)' <=> Taken(x, c)
    BY <2>1 DEF Taken
  <2>5. \A x \in Workers : \A v \in done'[x] : v[1] \notin todo'[x]
    BY <2>1, <2>2 DEF Disjoint
  <2> QED BY <2>2, <2>3, <2>4, <2>5 DEF Disjoint
<1>6. ASSUME NEW w \in Workers, Inspect(w) PROVE Disjoint'
  <2>1. todo'[w] \subseteq todo[w] /\ UNCHANGED <<done, queue, chunk>>
    BY <1>6, Inspects
  <2>2. \A c \in Crates : Taken(w, c)' => Taken(w, c)
    BY <2>1 DEF Taken
  <2> QED BY <1>w, <1>6, <2>1, <2>2 DEF Work, Disjoint
<1>7. ASSUME NEW w \in Workers, LoadPrevious(w) \/ TruncateState(w) PROVE Disjoint'
  BY <1>k, <1>7 DEF LoadPrevious, TruncateState
<1>8. ASSUME NEW w \in Workers, StoreState(w) PROVE Disjoint'
  <2>1. /\ todo'[w] = todo[w] \ {Current(w)} /\ Current(w) \in todo[w]
        /\ done'[w] = done[w] \cup new[w] /\ UNCHANGED <<queue, chunk>>
        /\ \A v \in new[w] : v[1] = Current(w)
    BY <1>8, Stores, AtItsCrate
  <2>2. \A c \in Crates : Taken(w, c)' => Taken(w, c)
    BY <2>1 DEF Taken
  <2>3. \A v \in done'[w] : v[1] \notin todo'[w]
    BY <2>1 DEF Disjoint
  <2> QED BY <1>w, <1>8, <2>1, <2>2, <2>3 DEF Work
<1>9. ASSUME NEW w \in Workers, MarkDone(w) PROVE Disjoint'
  <2>1. todo'[w] = {} /\ done'[w] = {} /\ UNCHANGED <<queue, chunk>>
    BY <1>9 DEF MarkDone, TypeOK
  <2>2. \A c \in Crates : ~Taken(w, c)'
    BY <2>1 DEF Taken
  <2> QED BY <1>w, <1>9, <2>1, <2>2 DEF Work
<1>10. ASSUME NEW w \in Workers, SendReport(w) PROVE Disjoint'
  BY <1>k, <1>10 DEF SendReport
<1> QED BY FlagsStay, <1>1, <1>2, <1>3, <1>4, <1>5, <1>6, <1>7, <1>8, <1>9, <1>10
        DEF Next, Stage, Work

LEMMA PassedNext ==
    ASSUME TypeOK, Shape, Passed, late = {}, [Next]_vars, faults' = 0, ~shifted'
    PROVE  Passed'
<1> USE DEF world, disk, loop, worker
<1>b. listed' = listed => \A c : Before(c)' = Before(c)
  BY DEF Before
<1>k. ASSUME UNCHANGED <<listed, fetched>>, UNCHANGED <<phase, last>>,
             \A c \in Crates :
                c \in chunk' \/ Queued(c)' \/ (\E x \in Workers : Taken(x, c)')
                => c \in chunk \/ Queued(c) \/ (\E x \in Workers : Taken(x, c))
      PROVE  Passed'
  BY <1>b, <1>k DEF Passed
<1>0. CASE phase' \in {"off", "end", "store", "write"}
  BY <1>0 DEF Passed
<1>1. CASE AddCrate
  <2>1. phase' = "off"
    BY <1>1 DEF AddCrate
  <2> QED BY <1>0, <2>1
<1>2. CASE AddResult \/ Yank \/ UNCHANGED vars
  <2>1. UNCHANGED <<listed, fetched, phase, last, chunk, queue, todo, done>>
    BY <1>2 DEF AddResult, Yank, vars
  <2>2. \A c : (Queued(c)' <=> Queued(c)) /\ \A x \in Workers : Taken(x, c)' <=> Taken(x, c)
    BY <2>1 DEF Queued, Taken
  <2> QED BY <1>k, <2>1, <2>2
<1>3. CASE StartRound
  <2>1. \A w \in Workers : todo[w] = {} /\ done[w] = {}
    BY <1>3 DEF StartRound, Shape
  <2>2. chunk' = {} /\ queue' = <<>> /\ UNCHANGED <<todo, done>>
    BY <1>3 DEF StartRound, Shape
  <2> QED BY <2>1, <2>2 DEF Passed, Queued, Taken
<1>4. CASE LoadChunk
  <2>1. /\ phase = "load" /\ phase' = "send" /\ chunk' = Rows(fetched, size)
        /\ UNCHANGED <<listed, queue, todo, done>>
        /\ last' = (Cardinality(chunk') # size) /\ fetched' = fetched + Cardinality(chunk')
        /\ fetched \in Nat /\ size \in Nat
    BY <1>4 DEF LoadChunk, TypeOK
  <2>2. ASSUME ~last', NEW c \in Crates,
               c \in chunk' \/ Queued(c)' \/ (\E x \in Workers : Taken(x, c)')
        PROVE  Before(c)' < fetched'
    <3>1. fetched' = fetched + size
      BY <2>1, <2>2
    <3>2. Before(c) \in Nat /\ Before(c)' = Before(c)
      BY <1>b, <2>1, SizesAreNumbers
    <3>3. CASE c \in chunk'
      BY <2>1, <3>1, <3>2, <3>3 DEF Rows
    <3>4. CASE Queued(c)' \/ (\E x \in Workers : Taken(x, c)')
      <4>1. Queued(c) \/ (\E x \in Workers : Taken(x, c))
        BY <2>1, <3>4 DEF Queued, Taken
      <4>2. Before(c) < fetched
        BY <2>1, <4>1 DEF Passed
      <4> QED BY <2>1, <3>1, <3>2, <4>2
    <3> QED BY <2>2, <3>3, <3>4
  <2> QED BY <2>1, <2>2 DEF Passed
<1>5. CASE SendChunk
  <2>1. CASE last
    BY <1>0, <1>5, <2>1 DEF SendChunk
  <2>2. CASE ~last
    <3>1. /\ phase = "send" /\ queue' = <<chunk>> /\ chunk' = {}
          /\ UNCHANGED <<listed, fetched, todo, done>>
      BY <1>5, <2>2 DEF SendChunk
    <3>2. \A c : (Queued(c)' <=> c \in chunk) /\ \A x \in Workers : Taken(x, c)' <=> Taken(x, c)
      BY <3>1 DEF Queued, Taken
    <3> QED BY <1>b, <2>2, <3>1, <3>2 DEF Passed
  <2> QED BY <2>1, <2>2
<1>w. ASSUME NEW w \in Workers, Work(w),
             \A c \in Crates : Taken(w, c)' => Taken(w, c) \/ Queued(c),
             UNCHANGED <<listed, loop>>, queue' \in {queue, <<>>}
      PROVE  Passed'
  <2>1. \A x \in Workers \ {w} : todo'[x] = todo[x] /\ done'[x] = done[x]
    BY <1>w, OthersStay
  <2>2. \A c : \A x \in Workers \ {w} : Taken(x, c)' => Taken(x, c)
    BY <2>1 DEF Taken
  <2>3. \A c : Queued(c)' => Queued(c)
    BY <1>w DEF Queued
  <2> QED BY <1>k, <1>w, <2>2, <2>3
<1>6. ASSUME NEW w \in Workers, TakeChunk(w) PROVE Passed'
  <2>1. UNCHANGED <<listed, loop>> /\ queue' = <<>> /\ todo'[w] = Head(queue) /\ queue # <<>>
        /\ done'[w] = {}
    BY <1>6, TakesChunk
  <2>2. \A c : Taken(w, c)' => Queued(c)
    BY <2>1 DEF Taken, Queued
  <2> QED BY <1>w, <1>6, <2>1, <2>2 DEF Work
<1>7. ASSUME NEW w \in Workers, Inspect(w) PROVE Passed'
  <2>1. UNCHANGED <<listed, loop, queue, done>> /\ todo'[w] \subseteq todo[w]
    BY <1>7, Inspects
  <2>2. \A c : Taken(w, c)' => Taken(w, c)
    BY <2>1 DEF Taken
  <2> QED BY <1>w, <1>7, <2>1, <2>2 DEF Work
<1>8. ASSUME NEW w \in Workers, LoadPrevious(w) \/ TruncateState(w) \/ SendReport(w)
      PROVE  Passed'
  <2>1. UNCHANGED <<listed, loop, queue, todo, done>>
    BY <1>8 DEF LoadPrevious, TruncateState, SendReport
  <2>2. \A c : Taken(w, c)' => Taken(w, c)
    BY <2>1 DEF Taken
  <2> QED BY <1>w, <1>8, <2>1, <2>2 DEF Work
<1>9. ASSUME NEW w \in Workers, StoreState(w) PROVE Passed'
  <2>1. /\ todo'[w] \subseteq todo[w] /\ Current(w) \in todo[w]
        /\ done'[w] = done[w] \cup new[w] /\ UNCHANGED <<listed, loop, queue>>
        /\ \A v \in new[w] : v[1] = Current(w)
    BY <1>9, Stores, AtItsCrate
  <2>2. \A c : Taken(w, c)' => Taken(w, c)
    BY <2>1 DEF Taken
  <2> QED BY <1>w, <1>9, <2>1, <2>2 DEF Work
<1>10. ASSUME NEW w \in Workers, MarkDone(w) PROVE Passed'
  <2>1. todo'[w] = {} /\ done'[w] = {} /\ UNCHANGED <<listed, loop, queue>>
    BY <1>10 DEF MarkDone, TypeOK
  <2>2. \A c : ~Taken(w, c)'
    BY <2>1 DEF Taken
  <2> QED BY <1>w, <1>10, <2>1, <2>2 DEF Work
<1>11. CASE MergeTopLevel \/ TruncateTopLevel \/ StoreTopLevel
  <2>1. phase' \in {"off", "store", "write"}
    BY <1>11 DEF MergeTopLevel, TruncateTopLevel, StoreTopLevel
  <2> QED BY <1>0, <2>1
<1> QED BY FlagsStay, <1>1, <1>2, <1>3, <1>4, <1>5, <1>6, <1>7, <1>8, <1>9, <1>10, <1>11
        DEF Next, Stage, Work

-----------------------------------------------------------------------------
\* When no processor was left behind, all are idle while the aggregator stores.
LEMMA AtWork ==
    ASSUME TypeOK, Shape, late = {}, NEW w \in Workers, Work(w)
    PROVE  phase \notin {"off", "store", "write"} /\ phase' = phase
<1>1. phase' = phase
  BY DEF Work, TakeChunk, Inspect, LoadPrevious, TruncateState, StoreState, MarkDone, SendReport, loop
<1>2. pc[w] # "idle" \/ queue # <<>>
  BY DEF Work, TakeChunk, Inspect, LoadPrevious, TruncateState, StoreState, MarkDone, SendReport
<1> QED BY <1>1, <1>2 DEF Shape

LEMMA LonelyNext ==
    ASSUME TypeOK, Shape, late = {}, Lonely, [Next]_vars, faults' = 0, ~single'
    PROVE  Lonely'
<1> USE DEF world, disk, loop, worker
<1>1. ASSUME phase' \in {"store", "write"}, agg' = agg PROVE Lonely'
  BY <1>1 DEF Lonely, OneCrate, CratesOf
<1>2. phase \in {"store", "write"} /\ OneCrate(agg)
  BY DEF Lonely
<1>3. CASE AddCrate \/ AddResult \/ Yank \/ TruncateTopLevel \/ UNCHANGED vars
  <2>1. phase' \in {"store", "write"} /\ agg' = agg
    BY <1>2, <1>3 DEF AddCrate, AddResult, Yank, TruncateTopLevel, vars
  <2> QED BY <1>1, <2>1
<1>4. CASE StoreTopLevel
  BY <1>2, <1>4 DEF StoreTopLevel
<1>5. ~(StartRound \/ LoadChunk \/ SendChunk \/ MergeTopLevel)
  BY <1>2 DEF StartRound, LoadChunk, SendChunk, MergeTopLevel, AllReceived
<1>6. \A w \in Workers : ~Work(w)
  BY <1>2, AtWork
<1> QED BY FlagsStay, <1>3, <1>4, <1>5, <1>6 DEF Next, Stage

\* No other processor has the crate of a processor.
LEMMA Apart ==
    ASSUME TypeOK, Shape, Disjoint,
           NEW w \in Workers, pc[w] \in {"previous", "store", "write"},
           NEW x \in Workers \ {w}, pc[x] \in {"previous", "store", "write"}
    PROVE  Current(x) # Current(w)
<1>1. Taken(w, Current(w)) /\ Taken(x, Current(x)) /\ Current(w) \in Crates
  BY AtItsCrate DEF Taken
<1> QED BY <1>1 DEF Disjoint

LEMMA CountedNext ==
    ASSUME TypeOK, Shape, Disjoint, late = {}, Counted, [Next]_vars, faults' = 0, ~single'
    PROVE  Lonely' \/ Counted'
<1> USE DEF world, disk, loop, worker
<1>v. \A v \in Versions : v[1] \in Crates
  BY ReportsAssumption
<1>n. \A v \in Versions : /\ top[v] \in Nat /\ agg[v] \in Nat
                         /\ \A c \in Crates : cache[c][v] \in Nat
                         /\ \A w \in Workers : report[w][v] \in Nat
  BY DEF TypeOK, Report
<1>d. marked \subseteq Versions
      /\ \A w \in Workers : done[w] \subseteq Versions /\ new[w] \subseteq Versions
  BY DEF TypeOK
\* steps that only move things about
<1>k. ASSUME UNCHANGED <<marked, cache, report, done>>,
             \A v \in Versions : Merged(v)' = Merged(v),
             \A w \in Workers, c \in Crates : Writing(w, c)' <=> Writing(w, c),
             \A w \in Workers : pc'[w] \in {"previous", "store", "write"} =>
                \A v \in new'[w] : v \notin marked,
             \A w \in Workers : pc'[w] \in {"store", "write"} =>
                \A v \in Versions : previous'[w][v] = Full(Current(w)', v)
      PROVE  Counted'
  <2>1. \A v : Stored(v)' <=> Stored(v)
    BY <1>k DEF Stored
  <2>2. \A c, v : Full(c, v)' = Full(c, v)
    BY <2>1 DEF Full
  <2>3. \A w \in Workers : \A v : Full(Current(w), v)' = Full(Current(w)', v)
    BY <2>1 DEF Full
  <2> QED BY <1>k, <2>1, <2>2, <2>3 DEF Counted
<1>u. ASSUME UNCHANGED <<marked, cache, report, done, pc, todo, new, previous>>,
             \A v \in Versions : Merged(v)' = Merged(v)
      PROVE  Counted'
  <2>1. \A w \in Workers : Current(w)' = Current(w) /\ \A c \in Crates : Writing(w, c)' <=> Writing(w, c)
    BY <1>u DEF Current, Writing
  <2> QED BY <1>k, <1>u, <2>1 DEF Counted
<1>1. CASE AddCrate \/ AddResult \/ Yank \/ StartRound \/ LoadChunk \/ SendChunk \/ UNCHANGED vars
  <2>1. /\ UNCHANGED <<marked, cache, report, done, pc, todo, new, previous, top, agg>>
        /\ phase \in {"store", "write"} <=> phase' \in {"store", "write"}
    BY <1>1 DEF AddCrate, AddResult, Yank, StartRound, LoadChunk, SendChunk, vars
  <2>2. \A v : Merged(v)' = Merged(v)
    BY <2>1 DEF Merged
  <2> QED BY <1>u, <2>1, <2>2
<1>4. CASE MergeTopLevel
  <2>1. /\ UNCHANGED <<marked, cache, top, worker>> /\ phase = "end"
        /\ \A w \in Workers : pc[w] = "idle"
    BY <1>4, Aggregates DEF AllReceived
  <2>2. \A v : Merged(v) = top[v] + agg[v]
    BY <2>1 DEF Merged
  <2>3. CASE phase' = "off"
    <3>1. agg' = agg
      BY <1>4, <2>3, Aggregates
    <3>2. \A v : Merged(v)' = Merged(v)
      BY <2>1, <2>2, <2>3, <3>1 DEF Merged
    <3> QED BY <1>u, <2>1, <3>2
  <2>4. CASE phase' = "store" /\ (top # Nobody \/ ~OneCrate(agg))
    <3>1. before' = top /\ \A v \in Versions : agg'[v] = before'[v] + agg[v]
      BY <1>4, <2>4, Aggregates
    <3>2. \A v \in Versions : Merged(v)' = Merged(v)
      BY <2>2, <2>4, <3>1 DEF Merged
    <3> QED BY <1>u, <2>1, <3>2
  <2>5. CASE phase' = "store" /\ top = Nobody /\ OneCrate(agg)
    <3> DEFINE c == TheCrate(agg)
    <3>1. /\ before' = cache[c] /\ \A v \in Versions : agg'[v] = before'[v] + agg[v]
          /\ agg' \in Report /\ c \in CratesOf(agg) /\ c \in Crates
      BY <1>4, <2>5, Aggregates
    <3>2. \A d \in CratesOf(agg) : d = c
      BY <2>5, <3>1, CratesOfReport DEF TypeOK, OneCrate
    <3> HIDE DEF c
    <3>3. \A v \in Versions : cache[c][v] > 0 => v[1] = c
      <4>1. \A w \in Workers : ~Writing(w, c)
        BY <2>1 DEF Writing
      <4> QED BY <3>1, <4>1 DEF Counted, Full
    <3>4. \A d \in CratesOf(agg') : d = c
      <4>1. ASSUME NEW d \in CratesOf(agg') PROVE d = c
        <5>1. PICK v \in Versions : v[1] = d /\ agg'[v] > 0
          BY <3>1, <4>1, CratesOfReport
        <5>2. cache[c][v] > 0 \/ agg[v] > 0
          BY <1>n, <3>1, <5>1
        <5>3. agg[v] > 0 => v[1] \in CratesOf(agg)
          BY CratesOfReport DEF TypeOK
        <5> QED BY <3>2, <3>3, <5>1, <5>2, <5>3
      <4> QED BY <4>1
    <3>5. c \in CratesOf(agg')
      <4>1. PICK v \in Versions : v[1] = c /\ agg[v] > 0
        BY <3>1, CratesOfReport DEF TypeOK
      <4>2. agg'[v] > 0
        BY <1>n, <3>1, <4>1
      <4> QED BY <3>1, <4>1, <4>2, CratesOfReport
    <3>6. CratesOf(agg') = {c}
      BY <3>4, <3>5
    <3>7. Cardinality(CratesOf(agg')) = 1
      BY <3>6, FS_Singleton
    <3> QED BY <2>5, <3>7 DEF Lonely, OneCrate
  <2> QED BY <1>4, <2>3, <2>4, <2>5, Aggregates
<1>a. CASE TruncateTopLevel
  <2>1. phase = "store" /\ phase' = "write" /\ UNCHANGED <<marked, worker, agg>>
    BY <1>a DEF TruncateTopLevel
  <2>2. CASE OneCrate(agg)
    BY <2>1, <2>2 DEF Lonely, OneCrate, CratesOf
  <2>3. CASE ~OneCrate(agg)
    <3>1. UNCHANGED cache /\ \A v : Merged(v)' = Merged(v)
      BY <1>a, <2>1, <2>3 DEF TruncateTopLevel, Merged
    <3> QED BY <1>u, <2>1, <3>1
  <2> QED BY <2>2, <2>3
<1>b. CASE StoreTopLevel
  <2>1. /\ phase = "write" /\ phase' = "off" /\ UNCHANGED <<marked, worker, cache>>
        /\ top' = agg /\ agg' = Nobody
    BY <1>b DEF StoreTopLevel
  <2>2. \A v \in Versions : Merged(v)' = Merged(v)
    BY <1>n, <2>1, Constants DEF Merged
  <2> QED BY <1>u, <2>1, <2>2
\* a processor that does not write
<1>w. ASSUME NEW w \in Workers, Work(w), UNCHANGED <<marked, cache, report, done, top, agg, phase>>,
             pc[w] # "write", pc'[w] # "write",
             pc'[w] \in {"previous", "store"} => \A v \in new'[w] : v \notin marked,
             pc'[w] = "store" => \A v \in Versions : previous'[w][v] = Full(Current(w)', v)
      PROVE  Counted'
  <2>1. \A x \in Workers \ {w} :
            pc'[x] = pc[x] /\ new'[x] = new[x] /\ todo'[x] = todo[x] /\ previous'[x] = previous[x]
    BY <1>w, OthersStay
  <2>2. \A x \in Workers \ {w} : Current(x)' = Current(x)
    BY <2>1 DEF Current
  <2>3. \A x \in Workers, c \in Crates : Writing(x, c)' <=> Writing(x, c)
    BY <1>w, <2>1, <2>2 DEF Writing
  <2>4. \A x \in Workers : pc'[x] \in {"previous", "store", "write"} => \A v \in new'[x] : v \notin marked
    BY <1>w, <2>1 DEF Counted
  <2>5. \A x \in Workers : pc'[x] \in {"store", "write"} =>
            \A v \in Versions : previous'[x][v] = Full(Current(x)', v)
    BY <1>w, <2>1, <2>2 DEF Counted
  <2>6. \A v \in Versions : Merged(v)' = Merged(v)
    BY <1>w DEF Merged
  <2> QED BY <1>k, <1>w, <2>3, <2>4, <2>5, <2>6
<1>5. ASSUME NEW w \in Workers, TakeChunk(w) PROVE Counted'
  <2>1. pc[w] = "idle" /\ pc'[w] = "crate"
        /\ UNCHANGED <<marked, cache, report, done, top, agg, phase>>
    BY <1>5, TakesChunk
  <2> QED BY <1>w, <1>5, <2>1 DEF Work
<1>6. ASSUME NEW w \in Workers, Inspect(w) PROVE Counted'
  <2>1. /\ UNCHANGED <<marked, cache, report, done, top, agg, phase>>
        /\ new'[w] = ToReport(Current(w))
        /\ pc[w] = "crate" /\ pc'[w] \in {"crate", "previous"}
    BY <1>6, Inspects
  <2>2. \A v \in new'[w] : v \notin marked
    BY <2>1 DEF ToReport
  <2> QED BY <1>w, <1>6, <2>1, <2>2 DEF Work
<1>7. ASSUME NEW w \in Workers, LoadPrevious(w) PROVE Counted'
  <2>1. /\ pc[w] = "previous" /\ pc'[w] = "store" /\ previous'[w] = cache[Current(w)]
        /\ UNCHANGED <<marked, cache, report, done, top, agg, phase, new, todo>>
    BY <1>7 DEF LoadPrevious, TypeOK
  <2>2. \A v \in new'[w] : v \notin marked
    BY <2>1 DEF Counted
  <2>3. Current(w)' = Current(w) /\ Current(w) \in Crates
    BY <2>1, AtItsCrate DEF Current
  <2>4. \A x \in Workers : ~Writing(x, Current(w))
    BY <2>1, Apart DEF Writing
  <2>5. \A v \in Versions : previous'[w][v] = Full(Current(w)', v)
    BY <2>1, <2>3, <2>4 DEF Counted
  <2> QED BY <1>w, <1>7, <2>1, <2>2, <2>5 DEF Work
<1>c. ASSUME NEW w \in Workers, TruncateState(w) PROVE Counted'
  <2>0. PICK c : c = Current(w)
    OBVIOUS
  <2>1. /\ pc[w] = "store" /\ pc'[w] = "write" /\ c \in Crates
        /\ \A d \in Crates \ {c} : cache'[d] = cache[d]
        /\ UNCHANGED <<marked, top, phase, agg, todo, new, previous, report, done>>
    BY <1>c, <2>0, Truncates, AtItsCrate
  <2>2. \A x \in Workers \ {w} : pc'[x] = pc[x]
    BY <1>c, OthersStay DEF Work
  <2>3. \A x \in Workers : Current(x)' = Current(x)
    BY <2>1 DEF Current
  <2>4. \A v : (Stored(v)' <=> Stored(v)) /\ Merged(v)' = Merged(v)
    BY <2>1 DEF Stored, Merged
  <2>5. \A d, v : Full(d, v)' = Full(d, v)
    BY <2>4 DEF Full
  <2>6. Writing(w, c)'
    BY <2>0, <2>1, <2>3 DEF Writing
  <2>7. \A x \in Workers : \A d \in Crates \ {c} : Writing(x, d) <=> Writing(x, d)'
    BY <2>0, <2>1, <2>2, <2>3 DEF Writing
  <2>8. \A x \in Workers, v \in Versions : Full(Current(x), v)' = Full(Current(x), v)
    BY <2>3, <2>4 DEF Full
  <2>9. \A d \in Crates : (\A x \in Workers : ~Writing(x, d)') =>
            \A v \in Versions : cache'[d][v] = Full(d, v)'
    <3>1. ASSUME NEW d \in Crates, \A x \in Workers : ~Writing(x, d)', NEW v \in Versions
          PROVE  cache'[d][v] = Full(d, v)'
      <4>1. d # c
        BY <2>6, <3>1
      <4>2. \A x \in Workers : ~Writing(x, d)
        BY <2>7, <3>1, <4>1
      <4>3. cache[d][v] = Full(d, v)
        BY <4>2 DEF Counted
      <4> QED BY <2>1, <2>5, <4>1, <4>3
    <3> QED BY <3>1
  <2>10. \A x \in Workers : pc'[x] \in {"previous", "store", "write"} => \A v \in new'[x] : v \notin marked'
    BY <2>1, <2>2 DEF Counted
  <2>11. \A x \in Workers : pc'[x] \in {"store", "write"} =>
            \A v \in Versions : previous'[x][v] = Full(Current(x), v)'
    BY <2>1, <2>2, <2>8 DEF Counted
  <2>12. \A v \in Versions :
          /\ \A x \in Workers :
                /\ report'[x][v] \in {0, 1}
                /\ v \in done'[x] => report'[x][v] = 1
                /\ report'[x][v] = 1 =>
                      Stored(v)' /\ \A y \in Workers \ {x} : report'[y][v] = 0
          /\ Merged(v)' = IF v \in marked' /\ \A x \in Workers : report'[x][v] = 0 THEN 1 ELSE 0
    BY <2>1, <2>4 DEF Counted
  <2> QED BY <2>9, <2>10, <2>11, <2>12 DEF Counted
<1>8. ASSUME NEW w \in Workers, StoreState(w) PROVE Counted'
  <2>0. PICK c : c = Current(w)
    OBVIOUS
  <2>1. \A x \in Workers \ {w} : pc'[x] = pc[x] /\ new'[x] = new[x] /\ todo'[x] = todo[x]
                                 /\ report'[x] = report[x] /\ done'[x] = done[x]
                                 /\ previous'[x] = previous[x]
    BY <1>8, OthersStay DEF Work
  <2>2. /\ c \in Crates /\ c \in todo[w] /\ pc[w] = "write" /\ pc'[w] = "crate"
        /\ UNCHANGED <<marked, top, agg, phase>>
        /\ done'[w] = done[w] \cup new[w]
        /\ \A v \in new[w] : v \in Versions /\ v[1] = c
        /\ \A d \in Crates \ {c} : cache'[d] = cache[d]
    BY <1>8, <2>0, Stores, AtItsCrate
  <2>3. \A v \in Versions : cache'[c][v] = Full(c, v) + IF v \in new[w] THEN 1 ELSE 0
    <3>1. \A v \in Versions : previous[w][v] = Full(c, v)
      BY <2>0, <2>2 DEF Counted
    <3> QED BY <1>8, <2>0, <2>2, <3>1, Stores, AtItsCrate
  <2>c. \A x \in Workers \ {w} : Current(x)' = Current(x)
    BY <2>1 DEF Current
  <2>o. \A x \in Workers \ {w} : pc[x] \in {"store", "write"} => Current(x) # c
    BY <2>0, <2>2, Apart
  <2>4. \A v \in Versions : report'[w][v] = report[w][v] + IF v \in new[w] THEN 1 ELSE 0
    BY <1>8, Stores
  <2>s. \A v \in Versions : v \notin new[w] => report'[w][v] = report[w][v]
    <3>1. ASSUME NEW v \in Versions, v \notin new[w] PROVE report'[w][v] = report[w][v]
      <4>1. report'[w][v] = report[w][v] + 0
        BY <2>4, <3>1
      <4>2. report[w][v] \in Nat
        BY DEF TypeOK, Report
      <4> QED BY <4>1, <4>2
    <3> QED BY <3>1
  <2>5. \A v \in new[w] : ~Stored(v)
    <3>1. ASSUME NEW v \in new[w], NEW x \in Workers, v \in done[x] PROVE FALSE
      <4>1. Taken(x, c) /\ Taken(w, c)
        BY <2>2, <3>1 DEF Taken
      <4>2. x = w
        BY <2>2, <4>1 DEF Disjoint
      <4> QED BY <2>2, <3>1, <4>2 DEF Disjoint
    <3>2. \A v \in new[w] : v \notin marked
      BY <2>2 DEF Counted
    <3> QED BY <3>1, <3>2 DEF Stored
  <2>6. \A v : Stored(v)' <=> Stored(v) \/ v \in new[w]
    BY <2>1, <2>2 DEF Stored
  <2>7. \A v \in new[w] : \A x \in Workers : report[x][v] = 0
    BY <2>2, <2>5 DEF Counted
  <2>8. \A x \in Workers : pc'[x] \in {"previous", "store", "write"} =>
            \A v \in new'[x] : v \notin marked'
    BY <2>1, <2>2 DEF Counted
  <2>f. \A d, v : d # c => Full(d, v)' = Full(d, v)
    BY <2>2, <2>6 DEF Full
  <2>9. \A d \in Crates : (\A x \in Workers : ~Writing(x, d)') =>
            \A v \in Versions : cache'[d][v] = Full(d, v)'
    <3>1. \A v \in Versions : cache'[c][v] = Full(c, v)'
      <4>1. ASSUME NEW v \in Versions, v \in new[w] PROVE cache'[c][v] = Full(c, v)'
        BY <2>2, <2>3, <2>5, <2>6, <4>1 DEF Full
      <4>2. ASSUME NEW v \in Versions, v \notin new[w] PROVE cache'[c][v] = Full(c, v)'
        BY <2>3, <2>6, <4>2 DEF Full
      <4> QED BY <4>1, <4>2
    <3>2. \A d \in Crates \ {c} : (\A x \in Workers : ~Writing(x, d)') => \A x \in Workers : ~Writing(x, d)
      <4>1. ASSUME NEW d \in Crates \ {c}, NEW x \in Workers, Writing(x, d) PROVE Writing(x, d)'
        <5>1. x # w
          BY <2>0, <4>1 DEF Writing
        <5> QED BY <2>1, <2>c, <4>1, <5>1 DEF Writing
      <4> QED BY <4>1
    <3>3. \A d \in Crates \ {c} : (\A x \in Workers : ~Writing(x, d)') =>
              \A v \in Versions : cache'[d][v] = Full(d, v)'
      <4>1. ASSUME NEW d \in Crates \ {c}, \A x \in Workers : ~Writing(x, d)', NEW v \in Versions
            PROVE  cache'[d][v] = Full(d, v)'
        <5>1. cache[d][v] = Full(d, v)
          BY <3>2, <4>1 DEF Counted
        <5> QED BY <2>2, <2>f, <4>1, <5>1
      <4> QED BY <4>1
    <3> QED BY <3>1, <3>3
  <2>p. \A x \in Workers : pc'[x] \in {"store", "write"} =>
            \A v \in Versions : previous'[x][v] = Full(Current(x), v)'
    <3>1. ASSUME NEW x \in Workers, pc'[x] \in {"store", "write"}, NEW v \in Versions
          PROVE  previous'[x][v] = Full(Current(x), v)'
      <4>1. x # w /\ pc[x] \in {"store", "write"}
        BY <2>1, <2>2, <3>1
      <4>2. previous'[x][v] = Full(Current(x), v)
        BY <2>1, <4>1 DEF Counted
      <4>3. Current(x) # c /\ Current(x)' = Current(x)
        BY <2>c, <2>o, <4>1
      <4>4. Full(Current(x), v)' = Full(Current(x), v)
        BY <2>2, <2>6, <4>3 DEF Full
      <4> QED BY <4>2, <4>4
    <3> QED BY <3>1
  <2>10. \A v \in Versions : \A x \in Workers :
            /\ report'[x][v] \in {0, 1}
            /\ v \in done'[x] => report'[x][v] = 1
            /\ report'[x][v] = 1 => Stored(v)' /\ \A y \in Workers \ {x} : report'[y][v] = 0
    <3>1. ASSUME NEW v \in Versions, v \in new[w]
          PROVE  report'[w][v] = 1 /\ Stored(v)' /\ \A x \in Workers \ {w} : report'[x][v] = 0 /\ v \notin done'[x]
      BY <2>1, <2>4, <2>5, <2>6, <2>7, <3>1 DEF Stored
    <3>2. ASSUME NEW v \in Versions, v \notin new[w]
          PROVE  /\ \A x \in Workers : report'[x][v] = report[x][v] /\ (v \in done'[x] <=> v \in done[x])
                 /\ Stored(v)' <=> Stored(v)
      <4>1. report'[w][v] = report[w][v]
        BY <2>s, <3>2
      <4> QED BY <2>1, <2>2, <2>6, <3>2, <4>1
    <3>3. ASSUME NEW v \in Versions, NEW x \in Workers
          PROVE  /\ report'[x][v] \in {0, 1}
                 /\ v \in done'[x] => report'[x][v] = 1
                 /\ report'[x][v] = 1 => Stored(v)' /\ \A y \in Workers \ {x} : report'[y][v] = 0
      <4>1. CASE v \in new[w]
        BY <3>1, <4>1
      <4>2. CASE v \notin new[w]
        BY <3>2, <4>2 DEF Counted
      <4> QED BY <4>1, <4>2
    <3> QED BY <3>3
  <2>m. \A v : Merged(v)' = Merged(v)
    BY <2>2 DEF Merged
  <2>11. \A v \in Versions : Merged(v)' =
            IF v \in marked' /\ \A x \in Workers : report'[x][v] = 0 THEN 1 ELSE 0
    <3>1. \A v \in Versions : v \in marked => v \notin new[w]
      BY <2>5 DEF Stored
    <3>2. \A v \in Versions : v \in marked => \A x \in Workers : report'[x][v] = report[x][v]
      BY <2>1, <2>s, <3>1
    <3>3. ASSUME NEW v \in Versions
          PROVE  Merged(v) =
                    IF v \in marked /\ \A x \in Workers : report'[x][v] = 0 THEN 1 ELSE 0
      <4>1. CASE v \in marked
        BY <3>2, <4>1 DEF Counted
      <4>2. CASE v \notin marked
        BY <4>2 DEF Counted
      <4> QED BY <4>1, <4>2
    <3> QED BY <2>2, <2>m, <3>3
  <2> QED BY <2>8, <2>9, <2>p, <2>10, <2>11 DEF Counted
<1>9. ASSUME NEW w \in Workers, MarkDone(w) PROVE Counted'
  <2>1. \A x \in Workers \ {w} : pc'[x] = pc[x] /\ done'[x] = done[x]
    BY <1>9, OthersStay DEF Work
  <2>2. /\ pc[w] = "crate" /\ pc'[w] = "send" /\ todo[w] = {} /\ marked' = marked \cup done[w]
        /\ done'[w] = {} /\ UNCHANGED <<cache, top, agg, phase, todo, new, previous, report>>
    BY <1>9 DEF MarkDone, TypeOK
  <2>3. \A v : Stored(v)' <=> Stored(v)
    BY <2>1, <2>2 DEF Stored
  <2>4. \A x \in Workers : pc'[x] \in {"previous", "store", "write"} => \A v \in new'[x] : v \notin marked'
    <3>1. ASSUME NEW x \in Workers, pc'[x] \in {"previous", "store", "write"}, NEW v \in new[x], v \in done[w]
          PROVE  FALSE
      <4>1. x # w /\ pc[x] \in {"previous", "store", "write"}
        BY <2>1, <2>2, <3>1
      <4>2. v[1] = Current(x) /\ Current(x) \in todo[x] /\ Current(x) \in Crates
        BY <4>1, CurrentIsTodo DEF Shape
      <4>3. Taken(x, v[1]) /\ Taken(w, v[1])
        BY <3>1, <4>2 DEF Taken
      <4> QED BY <4>1, <4>2, <4>3 DEF Disjoint
    <3>2. \A x \in Workers : pc'[x] \in {"previous", "store", "write"} => \A v \in new[x] : v \notin marked
      BY <2>1, <2>2 DEF Counted
    <3> QED BY <2>2, <3>1, <3>2
  <2>c. \A x \in Workers : Current(x)' = Current(x)
    BY <2>2 DEF Current
  <2>5. \A v : Merged(v)' = Merged(v)
    BY <2>2 DEF Merged
  <2>6. \A v \in Versions : \A x \in Workers : v \in done'[x] => report'[x][v] = 1
    BY <2>1, <2>2 DEF Counted
  <2>7. \A v \in Versions : Merged(v)' =
            IF v \in marked' /\ \A x \in Workers : report'[x][v] = 0 THEN 1 ELSE 0
    <3>1. \A v \in Versions : v \in done[w] => report[w][v] = 1
      BY DEF Counted
    <3>2. \A v \in Versions : (v \in marked' /\ \A x \in Workers : report[x][v] = 0)
                                <=> (v \in marked /\ \A x \in Workers : report[x][v] = 0)
      BY <2>2, <3>1
    <3> QED BY <2>2, <2>5, <3>2 DEF Counted
  <2>8. \A v \in Versions : \A x \in Workers :
            /\ report'[x][v] \in {0, 1}
            /\ report'[x][v] = 1 => Stored(v)' /\ \A y \in Workers \ {x} : report'[y][v] = 0
    BY <2>2, <2>3 DEF Counted
  <2>9. /\ \A d \in Crates : (\A x \in Workers : ~Writing(x, d)') =>
              \A v \in Versions : cache'[d][v] = Full(d, v)'
        /\ \A x \in Workers : pc'[x] \in {"store", "write"} =>
              \A v \in Versions : previous'[x][v] = Full(Current(x), v)'
    <3>1. \A x \in Workers, d \in Crates : Writing(x, d)' <=> Writing(x, d)
      BY <2>1, <2>2, <2>c DEF Writing
    <3>2. /\ \A d, v : Full(d, v)' = Full(d, v)
          /\ \A x \in Workers : \A v : Full(Current(x), v)' = Full(Current(x), v)
      BY <2>3, <2>c DEF Full
    <3>3. \A x \in Workers : pc'[x] \in {"store", "write"} => pc[x] \in {"store", "write"}
      BY <2>1, <2>2
    <3> QED BY <2>2, <3>1, <3>2, <3>3 DEF Counted
  <2> QED BY <2>4, <2>6, <2>7, <2>8, <2>9 DEF Counted
<1>10. ASSUME NEW w \in Workers, SendReport(w) PROVE Counted'
  <2>1. \A x \in Workers \ {w} : report'[x] = report[x] /\ pc'[x] = pc[x]
    BY <1>10, OthersStay DEF Work
  <2>2. /\ phase' = phase /\ pc[w] = "send" /\ pc'[w] = "idle"
        /\ done[w] = {} /\ report'[w] = Nobody /\ agg' = MergeReports(agg, report[w])
        /\ UNCHANGED <<marked, cache, top, todo, new, previous, done>>
    BY <1>10, Sends DEF Shape
  <2>c. \A x \in Workers : Current(x)' = Current(x)
    BY <2>2 DEF Current
  <2>m. \A v : Merged(v) = top[v] + agg[v] /\ Merged(v)' = top'[v] + agg'[v]
    <3>1. phase \notin {"off", "store", "write"}
      BY <1>10, AtWork DEF Work
    <3> QED BY <2>2, <3>1 DEF Merged
  <2>3. \A v \in Versions : agg'[v] = agg[v] + report[w][v] /\ report'[w][v] = 0
    BY <2>2, Constants, Merging DEF TypeOK
  <2>4. \A v : Stored(v)' <=> Stored(v)
    BY <2>2 DEF Stored
  <2>5. ASSUME NEW v \in Versions
        PROVE  Merged(v)' = IF v \in marked' /\ \A x \in Workers : report'[x][v] = 0 THEN 1 ELSE 0
    <3>1. CASE report[w][v] = 1
      <4>1. Stored(v) /\ \A x \in Workers \ {w} : report[x][v] = 0
        BY <3>1 DEF Counted
      <4>2. \A x \in Workers : v \notin done[x]
        BY <2>2, <4>1 DEF Counted
      <4>3. v \in marked
        BY <4>1, <4>2 DEF Stored
      <4>4. \A x \in Workers : report'[x][v] = 0
        BY <2>1, <2>3, <4>1
      <4>5. top[v] + agg[v] = 0
        BY <2>m, <3>1 DEF Counted
      <4>6. top'[v] + agg'[v] = 1
        BY <1>n, <2>2, <2>3, <3>1, <4>5
      <4> QED BY <2>2, <2>m, <4>3, <4>4, <4>6
    <3>2. CASE report[w][v] = 0
      <4>1. \A x \in Workers : report'[x][v] = report[x][v]
        BY <2>1, <2>3, <3>2
      <4>2. top'[v] + agg'[v] = top[v] + agg[v]
        BY <1>n, <2>2, <2>3, <3>2
      <4> QED BY <2>2, <2>m, <4>1, <4>2 DEF Counted
    <3>3. report[w][v] \in {0, 1}
      BY DEF Counted
    <3> QED BY <3>1, <3>2, <3>3
  <2>6. \A v \in Versions : \A x \in Workers :
            /\ report'[x][v] \in {0, 1}
            /\ v \in done'[x] => report'[x][v] = 1
            /\ report'[x][v] = 1 => Stored(v)' /\ \A y \in Workers \ {x} : report'[y][v] = 0
    BY <2>1, <2>2, <2>3, <2>4 DEF Counted
  <2>7. \A x \in Workers : pc'[x] \in {"previous", "store", "write"} => \A v \in new'[x] : v \notin marked'
    BY <2>1, <2>2 DEF Counted
  <2>8. /\ \A d \in Crates : (\A x \in Workers : ~Writing(x, d)') =>
              \A v \in Versions : cache'[d][v] = Full(d, v)'
        /\ \A x \in Workers : pc'[x] \in {"store", "write"} =>
              \A v \in Versions : previous'[x][v] = Full(Current(x), v)'
    <3>1. \A x \in Workers, d \in Crates : Writing(x, d)' <=> Writing(x, d)
      BY <2>1, <2>2, <2>c DEF Writing
    <3>2. /\ \A d, v : Full(d, v)' = Full(d, v)
          /\ \A x \in Workers : \A v : Full(Current(x), v)' = Full(Current(x), v)
      BY <2>4, <2>c DEF Full
    <3>3. \A x \in Workers : pc'[x] \in {"store", "write"} => pc[x] \in {"store", "write"}
      BY <2>1, <2>2
    <3> QED BY <2>2, <3>1, <3>2, <3>3 DEF Counted
  <2> QED BY <2>5, <2>6, <2>7, <2>8 DEF Counted
<1> QED BY FlagsStay, <1>1, <1>4, <1>a, <1>b, <1>5, <1>6, <1>7, <1>c, <1>8, <1>9, <1>10
        DEF Next, Stage, Work

-----------------------------------------------------------------------------
LEMMA ReportsInvInit == Init => ReportsInv
<1> SUFFICES ASSUME Init PROVE ReportsInv
  OBVIOUS
<1>1. TypeOK /\ Shape
  BY ReportsTypeInit, ShapeInit
<1>2. Disjoint /\ Passed
  BY DEF Init, Disjoint, Taken, Queued, Passed
<1>3. \A v : ~Stored(v)
  BY DEF Init, Stored
<1>4. Counted
  <2>1. \A c, v : Full(c, v) = 0
    BY <1>3 DEF Full
  <2>2. \A v \in Versions : Merged(v) = 0
    BY Constants DEF Init, Merged
  <2> QED BY <1>3, <2>1, <2>2, Constants DEF Init, Counted
<1> QED BY <1>1, <1>2, <1>3, <1>4 DEF Init, ReportsInv, Safe

LEMMA ReportsInvNext == ReportsInv /\ [Next]_vars => ReportsInv'
<1> SUFFICES ASSUME ReportsInv, [Next]_vars PROVE ReportsInv'
  OBVIOUS
<1>1. TypeOK /\ Shape /\ Safe
  BY DEF ReportsInv
<1>2. TypeOK' /\ Shape' /\ Safe'
  BY <1>1, ReportsTypeNext, ShapeNext, SafeNext
<1>3. ASSUME faults' = 0 PROVE faults = 0 /\ late = {} /\ late' = {}
  BY <1>1, <1>3, FlagsStay DEF ReportsInv
<1>4. ASSUME faults' = 0, ~shifted' PROVE Disjoint' /\ Passed'
  <2>1. Disjoint /\ Passed
    BY <1>1, <1>3, <1>4, FlagsStay DEF ReportsInv
  <2> QED BY <1>1, <1>3, <1>4, <2>1, DisjointNext, PassedNext
<1>5. ASSUME faults' = 0, ~shifted', ~single' PROVE Lonely' \/ Counted'
  <2>1. Disjoint /\ (Lonely \/ Counted)
    BY <1>1, <1>3, <1>5, FlagsStay DEF ReportsInv
  <2>2. CASE Lonely
    BY <1>1, <1>3, <1>5, <2>2, LonelyNext
  <2>3. CASE Counted
    BY <1>1, <1>3, <1>5, <2>1, <2>3, CountedNext
  <2> QED BY <2>1, <2>2, <2>3
<1> QED BY <1>2, <1>3, <1>4, <1>5 DEF ReportsInv

LEMMA ReportsInvariant == Spec => []ReportsInv
BY ReportsInvInit, ReportsInvNext, PTL DEF Spec

\* Every variable keeps its type.
THEOREM ReportsType == Spec => []TypeOK
<1>1. ReportsInv => TypeOK
  BY DEF ReportsInv
<1> QED BY ReportsInvariant, <1>1, PTL

\* A version that is marked as done is in the state of its crate or about to be
\* written there, wherever chunks were broken off and whoever works beside it,
\* unless a write that was cut off, or that did not know of what it replaced,
\* took the state itself.
THEOREM MarkedVersionsAreCached == Spec => []MarkedIsCached
<1>1. ReportsInv => MarkedIsCached
  <2>1. ReportsInv => Safe
    BY DEF ReportsInv
  <2> QED BY <2>1 DEF Safe, Stored, Kept, MarkedIsCached, TypeOK, ReportsInv
<1> QED BY ReportsInvariant, <1>1, PTL

\* Between rounds that were not interrupted, the incremental report counts what
\* is marked exactly once, at both levels.
THEOREM IncrementalIsFull == Spec => []Exact
<1>1. ReportsInv => Exact
  <2> SUFFICES ASSUME ReportsInv, phase = "off", faults = 0, ~shifted, ~single
               PROVE  /\ top = Once(marked)
                      /\ \A c \in Crates, v \in Versions :
                            cache[c][v] = IF v[1] = c /\ v \in marked THEN 1 ELSE 0
    BY DEF Exact
  <2>1. TypeOK /\ Shape /\ Counted
    BY DEF ReportsInv, Lonely
  <2>2. /\ agg = Nobody
        /\ \A w \in Workers : pc[w] = "idle" /\ done[w] = {} /\ report[w] = Nobody
    BY <2>1 DEF ReportsInv, Shape
  <2>3. \A v : Stored(v) <=> v \in marked
    BY <2>2 DEF Stored
  <2>4. \A c \in Crates, v \in Versions : cache[c][v] = IF v[1] = c /\ v \in marked THEN 1 ELSE 0
    <3>1. \A w \in Workers, c \in Crates : ~Writing(w, c)
      BY <2>2 DEF Writing
    <3> QED BY <2>1, <2>3, <3>1 DEF Counted, Full
  <2>5. ASSUME NEW v \in Versions PROVE top[v] = IF v \in marked THEN 1 ELSE 0
    <3>1. top[v] \in Nat /\ agg[v] = 0 /\ \A w \in Workers : report[w][v] = 0
      BY <2>1, <2>2, Constants DEF TypeOK, Report
    <3>2. top[v] + agg[v] = IF v \in marked THEN 1 ELSE 0
      BY <2>1, <3>1 DEF Counted, Merged
    <3> QED BY <3>1, <3>2
  <2>6. top = Once(marked)
    BY <2>1, <2>5 DEF TypeOK, Report, Once
  <2> QED BY <2>4, <2>6
<1> QED BY ReportsInvariant, <1>1, PTL

=============================================================================
