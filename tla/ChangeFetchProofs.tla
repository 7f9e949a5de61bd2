-------------------------- MODULE ChangeFetchProofs --------------------------
(***************************************************************************)
(* Proofs about ChangeFetch, for every index, any number of threads and    *)
(* any number of faults: nothing is missed, crates list what is stored,    *)
(* and an undisturbed fetch counts what it stores.                         *)
(***************************************************************************)
EXTENDS ChangeFetch, FiniteSetTheorems, TLAPS

Locals == [batch : SUBSET (Crates \X Versions), upto : 0..head,
           lut : [Crates -> SUBSET Versions], news : Counters]

LEMMA SetsAreFinite ==
    ASSUME NEW S, S \in SUBSET (Crates \X Versions) \/ S \in SUBSET Crates
    PROVE  IsFiniteSet(S) /\ Cardinality(S) \in Nat
<1>1. IsFiniteSet(Crates) /\ IsFiniteSet(Crates \X Versions)
  BY FetchAssumption, FS_Product
<1> QED BY <1>1, FS_Subset, FS_CardinalityType

\* The copy a thread works on, once the loop has run over it.
LEMMA LoopType ==
    ASSUME TypeOK, NEW t \in Threads, MergeAndCount(t)
    PROVE  /\ local' \in [Threads -> Locals]
           /\ local'[t].batch = local[t].batch
           /\ local'[t].upto = local[t].upto
           /\ local'[t].lut = Merged(local[t].lut, local[t].batch)
           /\ \A s \in Threads \ {t} : local'[s] = local[s]
<1>1. local[t] \in Locals
  BY DEF TypeOK, Locals
<1>2. PICK new \in CountedNew(local[t].lut, local[t].batch) :
        local' = [local EXCEPT
            ![t].lut = Merged(local[t].lut, local[t].batch),
            ![t].news = [crate_versions |-> Cardinality(local[t].batch),
                         crates |-> Cardinality(new)]]
  BY DEF MergeAndCount
<1>3. Merged(local[t].lut, local[t].batch) \in [Crates -> SUBSET Versions]
  BY <1>1 DEF Merged, Of, Locals
<1>4. Cardinality(local[t].batch) \in Nat
  BY <1>1, SetsAreFinite DEF Locals
<1>5. Cardinality(new) \in Nat
  <2>1. new \in SUBSET Crates
    BY <1>2 DEF CountedNew
  <2> QED BY <2>1, SetsAreFinite
<1>6. [crate_versions |-> Cardinality(local[t].batch), crates |-> Cardinality(new)]
        \in Counters
  BY <1>4, <1>5 DEF Counters
<1> QED BY <1>1, <1>2, <1>3, <1>6 DEF TypeOK, Locals

LEMMA FetchTypeInit == Init => TypeOK
<1> SUFFICES ASSUME Init PROVE TypeOK
  OBVIOUS
<1>1. rows \in [Crates -> [Versions -> Kinds]]
  BY FetchAssumption DEF Init, Kinds
<1>2. counts \in [0..LastDay -> Counters] /\ Nothing \in Counters
  BY DEF Init, Nothing, Counters
<1>3. Fresh \in [batch : SUBSET (Crates \X Versions), upto : 0..head,
                lut : [Crates -> SUBSET Versions], news : Counters]
  BY <1>2 DEF Init, Fresh
<1>4. waits \in [Threads -> BOOLEAN] /\ expired \in BOOLEAN
  BY DEF Init
<1>5. /\ listed \in [Crates -> SUBSET Versions] /\ today \in 0..LastDay
      /\ morning \in [crate_versions : SUBSET (Crates \X Versions), crates : SUBSET Crates]
  BY FetchAssumption DEF Init
<1>6. local \in [Threads -> [batch : SUBSET (Crates \X Versions), upto : 0..head,
                lut : [Crates -> SUBSET Versions], news : Counters]]
  BY <1>3 DEF Init
<1> QED BY <1>5, <1>6, <1>1, <1>2, <1>3, <1>4, FetchAssumption DEF Init, TypeOK, Steps

LEMMA FetchTypeNext == TypeOK /\ [Next]_vars => TypeOK'
<1> SUFFICES ASSUME TypeOK, [Next]_vars PROVE TypeOK'
  OBVIOUS
<1> USE FetchAssumption DEF tables, thread, calendar
<1>a. local \in [Threads -> Locals] /\ Fresh \in Locals
  BY DEF TypeOK, Locals, Fresh, Nothing, Counters
<1>1. CASE Publish
  BY <1>1 DEF Publish, TypeOK
<1>0. CASE Midnight
  <2>1. morning' \in [crate_versions : SUBSET (Crates \X Versions), crates : SUBSET Crates]
    BY <1>0 DEF Midnight, StoredVersions, WithVersions
  <2>2. today' \in 0..LastDay
    BY <1>0 DEF Midnight, TypeOK
  <2> QED BY <1>0, <2>1, <2>2 DEF Midnight, TypeOK
<1>2. ASSUME NEW t \in Threads, Step(t) PROVE TypeOK'
  <2>a. local[t] \in Locals
    BY <1>a
  <2>1. CASE Peek(t)
    <3>1. Changed(seen, head) \in SUBSET (Crates \X Versions)
      BY DEF Changed
    <3>2. waits' \in [Threads -> BOOLEAN]
      BY <2>1, Zenon DEF Peek, TypeOK
    <3>3. local' \in [Threads -> Locals]
      <4>1. head \in 0..head
        BY DEF TypeOK
      <4>2. [local[t] EXCEPT !.batch = Changed(seen, head), !.upto = head] \in Locals
        BY <3>1, <4>1, <2>a DEF Locals
      <4>3. local' = [local EXCEPT ![t] =
                [local[t] EXCEPT !.batch = Changed(seen, head), !.upto = head]]
        BY <2>1, <1>a DEF Peek
      <4> QED BY <4>2, <4>3, <1>a
    <3> QED BY <2>1, <3>2, <3>3 DEF Peek, TypeOK, Steps, Locals
  <2>2. CASE ReadCrates(t)
    BY <2>2, <2>a DEF ReadCrates, TypeOK, Steps, Locals
  <2>3. CASE StoreVersions(t)
    <3>1. local' \in [Threads -> Locals]
      BY <2>3, LoopType DEF StoreVersions
    <3>2. rows' \in [Crates -> [Versions -> Kinds]]
      BY <2>3, <2>a DEF StoreVersions, Stored, TypeOK, Locals
    <3> QED BY <2>3, <3>1, <3>2 DEF StoreVersions, TypeOK, Steps, Locals
  <2>4. CASE StoreCrates(t)
    BY <2>4, <2>a DEF StoreCrates, TypeOK, Steps, Locals
  <2>5. CASE SetReference(t)
    BY <2>5, <2>a DEF SetReference, TypeOK, Steps, Locals
  <2>6. CASE Count(t)
    <3>1. counts' \in [0..LastDay -> Counters]
      <4>1. counts[today] \in Counters /\ local[t].news \in Counters
        BY <2>a DEF TypeOK, Locals
      <4>2. counts \in [0..LastDay -> Counters] /\ today \in 0..LastDay
        BY DEF TypeOK
      <4>3. counts' = [counts EXCEPT ![today] =
              [crate_versions |-> counts[today].crate_versions + local[t].news.crate_versions,
               crates |-> counts[today].crates + local[t].news.crates]]
        BY <2>6 DEF Count
      <4>4. /\ counts[today].crate_versions + local[t].news.crate_versions \in Nat
            /\ counts[today].crates + local[t].news.crates \in Nat
        BY <4>1 DEF Counters
      <4> QED BY <4>2, <4>3, <4>4 DEF Counters
    <3> QED BY <2>6, <3>1, <1>a DEF Count, Ends, TypeOK, Steps, Locals
  <2> QED BY <1>2, <2>1, <2>2, <2>3, <2>4, <2>5, <2>6 DEF Step
<1>3. ASSUME NEW t \in Threads, Expires(t) PROVE TypeOK'
  BY <1>3 DEF Expires, Fault, TypeOK
<1>4. ASSUME NEW t \in Threads, Fails(t) PROVE TypeOK'
  <2>1. listed' \in [Crates -> SUBSET Versions]
    <3>1. local[t].lut \in [Crates -> SUBSET Versions]
      BY <1>a DEF Locals
    <3> QED BY <1>4, <3>1 DEF Fails, TypeOK
  <2> QED BY <1>4, <2>1, <1>a DEF Fails, Fault, Ends, TypeOK, Steps, Locals
<1>5. CASE Crash
  BY <1>5, <1>a DEF Crash, Fault, TypeOK, Steps, Locals
<1>6. CASE UNCHANGED vars
  BY <1>6 DEF vars, TypeOK
<1> QED BY <1>0, <1>1, <1>2, <1>3, <1>4, <1>5, <1>6 DEF Next

\* Every behaviour of the fetch stage is well typed.
THEOREM FetchType == Spec => []TypeOK
BY FetchTypeInit, FetchTypeNext, PTL DEF Spec

-----------------------------------------------------------------------------
\* Publishing, expiring and stuttering leave tables, reference and threads.
LEMMA FetchInvInit == Init => FetchInv
<1> SUFFICES ASSUME Init PROVE FetchInv
  OBVIOUS
<1>1. TypeOK
  BY FetchTypeInit
<1>2. ListedIsStored /\ NothingIsMissed
  BY FetchAssumption DEF Init, ListedIsStored, NothingIsMissed
<1>3. ASSUME NEW t \in Threads
      PROVE  /\ BatchIsChange(t) /\ LutIsStored(t)
             /\ Alone(t) /\ BatchIsRest(t) /\ LutIsAhead(t) /\ BatchIsDone(t)
  <2>1. pc[t] = "idle" /\ local[t].batch = {}
    BY DEF Init, Fresh
  <2> QED BY <2>1 DEF BatchIsChange, LutIsStored, Alone, BatchIsRest, LutIsAhead, BatchIsDone
<1> QED BY <1>1, <1>2, <1>3 DEF FetchInv

\* what holds whatever threads there are
Always == ListedIsStored /\ \A t \in Threads : BatchIsChange(t) /\ LutIsStored(t)

LEMMA AlwaysNext ==
    ASSUME TypeOK, Always, [Next]_vars
    PROVE  Always'
<1> USE FetchAssumption DEF tables, thread, calendar
<1> USE DEF Always, ListedIsStored, BatchIsChange, LutIsStored, IsStored
<1>a. /\ local \in [Threads -> Locals]
      /\ pc \in [Threads -> Steps]
      /\ listed \in [Crates -> SUBSET Versions]
      /\ rows \in [Crates -> [Versions -> Kinds]]
  BY DEF TypeOK, Locals
<1>b. \A t \in Threads : local[t] \in Locals
  BY <1>a
<1>1. CASE Publish \/ Midnight
  BY <1>1 DEF Publish, Midnight
<1>2. ASSUME NEW t \in Threads, Peek(t) PROVE Always'
  <2>1. local'[t].batch = Changed(seen, head) /\ local'[t].upto = head
    BY <1>2, <1>a, <1>b DEF Peek, Locals
  <2>2. \A s \in Threads \ {t} : local'[s] = local[s] /\ pc'[s] = pc[s]
    BY <1>2, <1>a DEF Peek
  <2>3. \A cv \in Changed(seen, head) : Index[head][cv[1]][cv[2]] # "absent"
    BY DEF Changed
  <2>4. pc'[t] = "read" /\ UNCHANGED <<rows, listed>>
    BY <1>2, <1>a DEF Peek
  <2> QED BY <2>1, <2>2, <2>3, <2>4
<1>3. ASSUME NEW t \in Threads, ReadCrates(t) PROVE Always'
  <2>1. local'[t].lut = listed /\ local'[t].batch = local[t].batch /\ local'[t].upto = local[t].upto
    BY <1>3, <1>a, <1>b DEF ReadCrates, Locals
  <2>2. \A s \in Threads \ {t} : local'[s] = local[s] /\ pc'[s] = pc[s]
    BY <1>3, <1>a DEF ReadCrates
  <2>3. UNCHANGED <<rows, listed>>
    BY <1>3 DEF ReadCrates
  <2> QED BY <2>1, <2>2, <2>3
<1>4. ASSUME NEW t \in Threads, StoreVersions(t) PROVE Always'
  <2>1. /\ local'[t].batch = local[t].batch
        /\ local'[t].upto = local[t].upto
        /\ local'[t].lut = Merged(local[t].lut, local[t].batch)
        /\ \A s \in Threads \ {t} : local'[s] = local[s] /\ pc'[s] = pc[s]
    BY <1>4, <1>a, LoopType DEF StoreVersions
  <2>2. pc[t] = "versions" /\ UNCHANGED listed
    BY <1>4 DEF StoreVersions
  <2>3. ASSUME NEW c \in Crates, NEW v \in Versions, IsStored(c, v) \/ <<c, v>> \in local[t].batch
        PROVE  IsStored(c, v)'
    <3>1. rows'[c][v] = IF <<c, v>> \in local[t].batch THEN Index[local[t].upto][c][v] ELSE rows[c][v]
      BY <1>4 DEF StoreVersions, Stored
    <3> QED BY <2>3, <3>1
  <2>4. ASSUME NEW c \in Crates, NEW v \in local'[t].lut[c]
        PROVE  IsStored(c, v)'
    <3>1. v \in local[t].lut[c] \/ <<c, v>> \in local[t].batch
      BY <2>1 DEF Merged, Of
    <3>2. v \in Versions
      BY <1>b, <3>1 DEF Locals
    <3> QED BY <2>2, <2>3, <3>1, <3>2
  <2>5. ASSUME NEW s \in Threads \ {t}, pc[s] \in {"versions", "crates"},
               NEW c \in Crates, NEW v \in local[s].lut[c]
        PROVE  IsStored(c, v)'
    <3>1. v \in Versions
      BY <1>b DEF Locals
    <3>2. rows[c][v] # "absent"
      BY <2>5
    <3> QED BY <2>3, <3>1, <3>2
  <2>6. ListedIsStored'
    BY <1>a, <2>2, <2>3
  <2> QED BY <2>1, <2>4, <2>5, <2>6
<1>5. ASSUME NEW t \in Threads, StoreCrates(t) PROVE Always'
  BY <1>5, <1>a DEF StoreCrates
<1>6. ASSUME NEW t \in Threads, SetReference(t) PROVE Always'
  BY <1>6, <1>a DEF SetReference
<1>7. ASSUME NEW t \in Threads, Ends(t), UNCHANGED rows, ListedIsStored' PROVE Always'
  <2>1. pc'[t] = "idle" /\ local'[t].batch = {}
    BY <1>7, <1>a DEF Ends, Fresh
  <2>2. \A s \in Threads \ {t} : local'[s] = local[s] /\ pc'[s] = pc[s]
    BY <1>7, <1>a DEF Ends
  <2> QED BY <1>7, <2>1, <2>2
<1>8. ASSUME NEW t \in Threads, Count(t) PROVE Always'
  BY <1>7, <1>8 DEF Count
<1>9. ASSUME NEW t \in Threads, Expires(t) PROVE Always'
  BY <1>9 DEF Expires
<1>10. ASSUME NEW t \in Threads, Fails(t) PROVE Always'
  <2>1. ListedIsStored'
    BY <1>10, <1>a DEF Fails
  <2> QED BY <1>7, <1>10, <2>1 DEF Fails
<1>11. CASE Crash
  BY <1>11 DEF Crash, Fresh
<1>12. CASE UNCHANGED vars
  BY <1>12 DEF vars
<1> QED BY <1>1, <1>2, <1>3, <1>4, <1>5, <1>6, <1>8, <1>9, <1>10, <1>11, <1>12 DEF Next, Step

-----------------------------------------------------------------------------
\* what holds while no thread was left behind
Current ==
    /\ \A c \in Crates, v \in Versions : Index[seen][c][v] # "absent" => IsKnown(c, v)
    /\ \A t \in Threads : Alone(t) /\ BatchIsRest(t) /\ LutIsAhead(t) /\ BatchIsDone(t)

\* What a step does to its own thread is all there is to look at, as the other
\* threads are idle.
LEMMA OthersIdle ==
    ASSUME Current, NEW t \in Threads, pc[t] # "idle",
           \A s \in Threads \ {t} : pc'[s] = pc[s],
           pc'[t] # "idle" => waits'[t]
    PROVE  /\ Alone(t)'
           /\ \A s \in Threads \ {t} :
                 Alone(s)' /\ BatchIsRest(s)' /\ LutIsAhead(s)' /\ BatchIsDone(s)'
<1>1. \A s \in Threads \ {t} : pc[s] = "idle"
  BY DEF Current, Alone
<1> QED BY <1>1 DEF Alone, BatchIsRest, LutIsAhead, BatchIsDone

LEMMA CurrentStep ==
    ASSUME TypeOK, Always, Current, NEW t \in Threads, Step(t)
    PROVE  Current'
<1> USE FetchAssumption DEF tables, thread, calendar
<1>a. /\ local \in [Threads -> Locals]
      /\ pc \in [Threads -> Steps]
      /\ waits \in [Threads -> BOOLEAN]
      /\ listed \in [Crates -> SUBSET Versions]
      /\ rows \in [Crates -> [Versions -> Kinds]]
  BY DEF TypeOK, Locals
<1>b. local[t] \in Locals
  BY <1>a
<1>1. CASE Peek(t)
  <2>1. /\ local'[t].batch = Changed(seen, head)
        /\ local'[t].upto = head
        /\ pc'[t] = "read"
    BY <1>1, <1>a, <1>b DEF Peek, Locals
  <2>2. UNCHANGED <<seen, rows, listed>>
    BY <1>1 DEF Peek
  <2>3. waits'[t] /\ \A s \in Threads \ {t} : pc'[s] = pc[s]
    <3>1. waits'[t] = TRUE
      BY <1>1, <1>a DEF Peek
    <3> QED BY <1>1, <1>a, <3>1 DEF Peek
  <2>4. \A s \in Threads : pc[s] = "idle"
    BY <1>1 DEF Peek, Current, Alone
  <2>5. ASSUME NEW s \in Threads \ {t}
        PROVE  Alone(s)' /\ BatchIsRest(s)' /\ LutIsAhead(s)' /\ BatchIsDone(s)'
    BY <2>3, <2>4 DEF Alone, BatchIsRest, LutIsAhead, BatchIsDone
  <2>6. Alone(t)' /\ LutIsAhead(t)' /\ BatchIsDone(t)'
    BY <2>1, <2>3, <2>4 DEF Alone, LutIsAhead, BatchIsDone
  <2>7. BatchIsRest(t)'
    BY <2>1, <2>2 DEF BatchIsRest, Changed
  <2> QED BY <2>2, <2>5, <2>6, <2>7 DEF Current, IsKnown, IsStored
<1>2. CASE ReadCrates(t)
  <2>1. /\ local'[t].lut = listed
        /\ local'[t].batch = local[t].batch
        /\ local'[t].upto = local[t].upto
        /\ pc[t] = "read" /\ pc'[t] = "versions"
    BY <1>2, <1>a, <1>b DEF ReadCrates, Locals
  <2>2. UNCHANGED <<seen, rows, listed, waits>>
    BY <1>2 DEF ReadCrates
  <2>3. waits[t] /\ \A s \in Threads \ {t} : pc'[s] = pc[s]
    BY <1>2, <1>a, <2>1 DEF ReadCrates, Current, Alone
  <2>4. BatchIsRest(t)' /\ LutIsAhead(t)' /\ BatchIsDone(t)'
    BY <2>1, <2>2 DEF Current, BatchIsRest, LutIsAhead, BatchIsDone
  <2> QED BY <2>1, <2>2, <2>3, <2>4, OthersIdle DEF Current, IsKnown, IsStored
<1>3. CASE StoreVersions(t)
  <2>1. /\ local'[t].lut = Merged(local[t].lut, local[t].batch)
        /\ local'[t].batch = local[t].batch
        /\ local'[t].upto = local[t].upto
    BY <1>3, LoopType DEF StoreVersions
  <2>2. /\ pc[t] = "versions" /\ pc'[t] = "crates"
        /\ UNCHANGED <<seen, listed, waits>>
        /\ rows' = Stored(local[t].batch, local[t].upto)
    BY <1>3, <1>a DEF StoreVersions
  <2>3. waits[t] /\ \A s \in Threads \ {t} : pc'[s] = pc[s]
    BY <1>3, <1>a, <2>2 DEF StoreVersions, Current, Alone
  <2>4. ASSUME NEW c \in Crates, NEW v \in Versions,
               rows[c][v] # "absent" \/ <<c, v>> \in local[t].batch
        PROVE  rows'[c][v] # "absent"
    <3>1. rows'[c][v] = IF <<c, v>> \in local[t].batch
                        THEN Index[local[t].upto][c][v] ELSE rows[c][v]
      BY <2>2 DEF Stored
    <3>2. <<c, v>> \in local[t].batch => Index[local[t].upto][c][v] # "absent"
      BY DEF Always, BatchIsChange
    <3> QED BY <2>4, <3>1, <3>2
  <2>5. BatchIsRest(t)'
    BY <2>1, <2>2 DEF Current, BatchIsRest
  <2>6. LutIsAhead(t)'
    BY <2>1, <2>2 DEF Current, LutIsAhead, Merged
  <2>7. BatchIsDone(t)'
    <3>1. ASSUME NEW cv \in local[t].batch
          PROVE  IsStored(cv[1], cv[2])' /\ cv[2] \in Merged(local[t].lut, local[t].batch)[cv[1]]
      <4>1. cv[1] \in Crates /\ cv[2] \in Versions /\ <<cv[1], cv[2]>> \in local[t].batch
        BY <1>b DEF Locals
      <4>2. IsStored(cv[1], cv[2])'
        BY <2>4, <4>1 DEF IsStored
      <4>3. cv[2] \in Of(cv[1], local[t].batch)
        BY <4>1 DEF Of
      <4>4. Merged(local[t].lut, local[t].batch)[cv[1]]
              = local[t].lut[cv[1]] \cup Of(cv[1], local[t].batch)
        BY <4>1 DEF Merged
      <4> QED BY <4>2, <4>3, <4>4
    <3> QED BY <2>1, <2>2, <3>1 DEF BatchIsDone
  <2>8. \A c \in Crates, v \in Versions : Index[seen'][c][v] # "absent" => IsKnown(c, v)'
    BY <2>2, <2>4 DEF Current, IsKnown, IsStored
  <2> QED BY <2>2, <2>3, <2>5, <2>6, <2>7, <2>8, OthersIdle DEF Current
<1>4. CASE StoreCrates(t)
  <2>1. /\ pc[t] = "crates" /\ pc'[t] = "reference"
        /\ listed' = local[t].lut
        /\ UNCHANGED <<seen, rows, waits, local>>
    BY <1>4, <1>a DEF StoreCrates
  <2>2. waits[t] /\ \A s \in Threads \ {t} : pc'[s] = pc[s]
    BY <1>4, <1>a, <2>1 DEF StoreCrates, Current, Alone
  <2>3. \A c \in Crates : listed[c] \subseteq listed'[c]
    BY <2>1 DEF Current, LutIsAhead
  <2>4. BatchIsRest(t)' /\ LutIsAhead(t)'
    BY <2>1 DEF Current, BatchIsRest, LutIsAhead
  <2>5. BatchIsDone(t)'
    BY <2>1 DEF Current, BatchIsDone, IsStored
  <2>6. \A c \in Crates, v \in Versions : Index[seen'][c][v] # "absent" => IsKnown(c, v)'
    BY <2>1, <2>3 DEF Current, IsKnown, IsStored
  <2> QED BY <2>1, <2>2, <2>4, <2>5, <2>6, OthersIdle DEF Current
<1>5. CASE SetReference(t)
  <2>1. /\ pc[t] = "reference" /\ pc'[t] = "count"
        /\ seen' = local[t].upto
        /\ UNCHANGED <<rows, listed, waits, local>>
    BY <1>5, <1>a DEF SetReference
  <2>2. waits[t] /\ \A s \in Threads \ {t} : pc'[s] = pc[s]
    BY <1>5, <1>a, <2>1 DEF SetReference, Current, Alone
  <2>3. ASSUME NEW c \in Crates, NEW v \in Versions, Index[local[t].upto][c][v] # "absent"
        PROVE  IsKnown(c, v)
    <3>1. CASE Index[seen][c][v] # "absent"
      BY <3>1 DEF Current
    <3>2. CASE <<c, v>> \in local[t].batch
      BY <2>1, <3>2 DEF Current, BatchIsDone, IsKnown
    <3> QED BY <2>1, <2>3, <3>1, <3>2 DEF Current, BatchIsRest
  <2>4. BatchIsRest(t)' /\ LutIsAhead(t)' /\ BatchIsDone(t)'
    BY <2>1 DEF BatchIsRest, LutIsAhead, BatchIsDone
  <2> QED BY <2>1, <2>2, <2>3, <2>4, OthersIdle DEF Current, IsKnown, IsStored
<1>6. CASE Count(t)
  <2>1. /\ pc[t] = "count" /\ pc'[t] = "idle"
        /\ UNCHANGED <<seen, rows, listed>>
        /\ \A s \in Threads \ {t} : pc'[s] = pc[s]
    BY <1>6, <1>a DEF Count, Ends
  <2>2. BatchIsRest(t)' /\ LutIsAhead(t)' /\ BatchIsDone(t)'
    BY <2>1 DEF BatchIsRest, LutIsAhead, BatchIsDone
  <2> QED BY <2>1, <2>2, OthersIdle DEF Current, IsKnown, IsStored
<1> QED BY <1>1, <1>2, <1>3, <1>4, <1>5, <1>6 DEF Step


\* An error keeps at least the crates as they were.
LEMMA FailsKeepsCrates ==
    ASSUME TypeOK, Current, NEW t \in Threads, Fails(t)
    PROVE  \A c \in Crates : listed[c] \subseteq listed'[c]
<1>1. PICK part \in SUBSET Crates :
        listed' = IF pc[t] = "crates"
                  THEN [c \in Crates |-> IF c \in part THEN local[t].lut[c] ELSE listed[c]]
                  ELSE listed
  BY DEF Fails
<1>2. pc[t] = "crates" => \A c \in Crates : listed[c] \subseteq local[t].lut[c]
  BY DEF Current, LutIsAhead
<1> QED BY <1>1, <1>2 DEF TypeOK

LEMMA CurrentNext ==
    ASSUME TypeOK, Always, Current, [Next]_vars, ~expired'
    PROVE  Current'
<1> USE DEF tables, thread, calendar
<1>a. pc \in [Threads -> Steps] /\ local \in [Threads -> Locals]
  BY DEF TypeOK, Locals
<1>1. CASE Publish \/ Midnight
  BY <1>1 DEF Publish, Midnight, Current, Alone, BatchIsRest, LutIsAhead, BatchIsDone, IsKnown, IsStored
<1>2. ASSUME NEW t \in Threads, Step(t) PROVE Current'
  BY <1>2, CurrentStep
<1>3. ASSUME NEW t \in Threads, Expires(t) PROVE Current'
  BY <1>3 DEF Expires
<1>4. ASSUME NEW t \in Threads, Fails(t) PROVE Current'
  <2>1. /\ pc[t] # "idle" /\ pc'[t] = "idle"
        /\ UNCHANGED <<seen, rows>>
        /\ \A s \in Threads \ {t} : pc'[s] = pc[s]
    BY <1>4, <1>a DEF Fails, Ends
  <2>2. BatchIsRest(t)' /\ LutIsAhead(t)' /\ BatchIsDone(t)'
    BY <2>1 DEF BatchIsRest, LutIsAhead, BatchIsDone
  <2>3. \A c \in Crates, v \in Versions : Index[seen'][c][v] # "absent" => IsKnown(c, v)'
    BY <1>4, <2>1, FailsKeepsCrates DEF Current, IsKnown, IsStored
  <2> QED BY <2>1, <2>2, <2>3, OthersIdle DEF Current
<1>5. CASE Crash
  BY <1>5 DEF Crash, Current, Alone, BatchIsRest, LutIsAhead, BatchIsDone, IsKnown, IsStored
<1>6. CASE UNCHANGED vars
  BY <1>6 DEF vars, Current, Alone, BatchIsRest, LutIsAhead, BatchIsDone, IsKnown, IsStored
<1> QED BY <1>1, <1>2, <1>3, <1>4, <1>5, <1>6 DEF Next

LEMMA FetchInvParts == FetchInv <=> TypeOK /\ Always /\ (~expired => Current)
BY DEF FetchInv, Always, Current, NothingIsMissed

LEMMA FetchInvNext == FetchInv /\ [Next]_vars => FetchInv'
<1> SUFFICES ASSUME FetchInv, [Next]_vars PROVE FetchInv'
  OBVIOUS
<1>1. TypeOK' /\ Always'
  BY FetchInvParts, FetchTypeNext, AlwaysNext
<1>2. expired => expired'
  BY DEF Next, Publish, Midnight, Step, Peek, ReadCrates, StoreVersions, StoreCrates, SetReference,
         Count, Expires, Fails, Crash, vars
<1>3. ~expired' => Current'
  BY <1>2, FetchInvParts, CurrentNext
<1> QED BY <1>1, <1>3 DEF FetchInv, Always, Current, NothingIsMissed

\* The inductive invariant of the fetch stage.
THEOREM FetchInvHolds == Spec => []FetchInv
BY FetchInvInit, FetchInvNext, PTL DEF Spec

\* Whatever the reference has passed is stored and listed in its crate.
THEOREM FetchMissesNothing == Spec => []NothingIsMissed
<1>1. FetchInv => NothingIsMissed
  BY DEF FetchInv
<1> QED BY <1>1, FetchInvHolds, PTL

\* A crate lists only versions that are stored, even when threads overlap.
THEOREM CratesListStoredVersions == Spec => []ListedIsStored
<1>1. FetchInv => ListedIsStored
  BY DEF FetchInv
<1> QED BY <1>1, FetchInvHolds, PTL

LEMMA CratesGrow ==
    ASSUME FetchInv, [Next]_vars, ~expired
    PROVE  \A c \in Crates : listed[c] \subseteq listed'[c]
<1> USE DEF tables, thread, calendar
<1>1. TypeOK /\ Current
  BY FetchInvParts
<1>2. ASSUME NEW t \in Threads, StoreCrates(t)
      PROVE  \A c \in Crates : listed[c] \subseteq listed'[c]
  BY <1>1, <1>2 DEF StoreCrates, Current, LutIsAhead
<1>3. ASSUME NEW t \in Threads, Fails(t)
      PROVE  \A c \in Crates : listed[c] \subseteq listed'[c]
  BY <1>1, <1>3, FailsKeepsCrates
<1>4. CASE UNCHANGED listed
  BY <1>4
<1> QED BY <1>2, <1>3, <1>4
        DEF Next, Publish, Midnight, Step, Peek, ReadCrates, StoreVersions, SetReference, Count,
            Expires, Crash, vars

\* No fetch takes a version from a crate, although it stores a copy.
THEOREM FetchKeepsCrates == Spec => CratesOnlyGrow
<1>1. FetchInv /\ [Next]_vars =>
        [~expired => \A c \in Crates : listed[c] \subseteq listed'[c]]_vars
  BY CratesGrow
<1> QED BY <1>1, FetchInvHolds, PTL DEF Spec, CratesOnlyGrow

-----------------------------------------------------------------------------
(***************************************************************************)
(* Counting: without faults what is stored has been counted.               *)
(***************************************************************************)
LEMMA UnionIsSmall ==
    ASSUME NEW S, NEW T, NEW U,
           IsFiniteSet(S), IsFiniteSet(T), U \subseteq S \cup T
    PROVE  Cardinality(U) <= Cardinality(S) + Cardinality(T)
<1>1. /\ IsFiniteSet(S \cup T)
      /\ Cardinality(S \cup T) = Cardinality(S) + Cardinality(T) - Cardinality(S \cap T)
  BY FS_Union
<1>2. IsFiniteSet(S \cap T)
  <2>1. S \cap T \in SUBSET S
    OBVIOUS
  <2> QED BY <2>1, FS_Subset
<1>3. IsFiniteSet(U) /\ Cardinality(U) <= Cardinality(S \cup T)
  BY <1>1, FS_Subset
<1>4. /\ Cardinality(S) \in Nat /\ Cardinality(T) \in Nat /\ Cardinality(U) \in Nat
      /\ Cardinality(S \cap T) \in Nat /\ Cardinality(S \cup T) \in Nat
  BY <1>1, <1>2, <1>3, FS_CardinalityType
<1> QED BY <1>1, <1>3, <1>4

\* what came to the tables today
TodaysVersions == StoredVersions \ morning.crate_versions
TodaysCrates(l) == WithVersions(l) \ morning.crates

LEMMA CountInit == Init => CountInv
<1> SUFFICES ASSUME Init PROVE CountInv
  OBVIOUS
<1>1. WithVersions(listed) \ morning.crates = {}
  BY DEF Init, WithVersions
<1>2. StoredVersions \ morning.crate_versions = {}
  BY FetchAssumption DEF Init, StoredVersions
<1>3. Cardinality({}) = 0
  BY FS_EmptySet
<1>4. counts[today].crates = 0 /\ counts[today].crate_versions = 0
  BY FetchAssumption DEF Init, Nothing
<1>5. CountsCoverToday
  BY <1>1, <1>2, <1>3, <1>4 DEF CountsCoverToday
<1>6. \A t \in Threads : pc[t] = "idle" /\ local[t] = Fresh
  BY DEF Init
<1> QED BY <1>5, <1>6 DEF Init, CountInv, CountsAreComing

\* The loop counts every version of the batch, and every crate that has
\* versions after it and had none before.
LEMMA LoopCounts ==
    ASSUME TypeOK, NEW t \in Threads, MergeAndCount(t)
    PROVE  \E new \in SUBSET Crates :
             /\ local'[t].news.crates = Cardinality(new)
             /\ WithVersions(local'[t].lut) \subseteq WithVersions(local[t].lut) \cup new
             /\ local'[t].news.crate_versions = Cardinality(local[t].batch)
             /\ local'[t].news \in Counters
<1> DEFINE l == local[t].lut
           b == local[t].batch
<1>1. local[t] \in Locals /\ local \in [Threads -> Locals]
  BY DEF TypeOK, Locals
<1>2. PICK new \in CountedNew(l, b) :
        local' = [local EXCEPT
            ![t].lut = Merged(l, b),
            ![t].news = [crate_versions |-> Cardinality(b), crates |-> Cardinality(new)]]
  BY DEF MergeAndCount
<1>3. /\ local'[t].lut = Merged(l, b)
      /\ local'[t].news = [crate_versions |-> Cardinality(b), crates |-> Cardinality(new)]
  BY <1>1, <1>2 DEF Locals
<1>4. new \in SUBSET Crates /\ {c \in Crates : Of(c, b) # {} /\ l[c] = {}} \subseteq new
  BY <1>2 DEF CountedNew
<1>5. WithVersions(Merged(l, b)) \subseteq WithVersions(l) \cup new
  BY <1>4 DEF WithVersions, Merged
<1>6. Cardinality(new) \in Nat /\ Cardinality(b) \in Nat
  <2>1. b \in SUBSET (Crates \X Versions)
    BY <1>1 DEF Locals
  <2> QED BY <2>1, <1>4, SetsAreFinite
<1>7. local'[t].news \in Counters
  BY <1>3, <1>6 DEF Counters
<1> QED BY <1>3, <1>4, <1>5, <1>7

\* While one thread is at work, its counts are all that is to come.
LEMMA OneCounts ==
    ASSUME \A s, u \in Threads : pc'[s] # "idle" /\ pc'[u] # "idle" => s = u,
           ~expired',
           NEW t \in Threads, pc'[t] # "idle", CountsAreComing(t)',
           \A s \in Threads \ {t} : local'[s] = Fresh
    PROVE  CountInv'
BY DEF CountInv, CountsCoverToday, CountsAreComing

LEMMA CountStep ==
    ASSUME FetchInv, CountInv, faults = 0, NEW t \in Threads, Step(t)
    PROVE  CountInv'
<1> USE DEF tables, thread, calendar
<1>a. /\ local \in [Threads -> Locals] /\ Fresh \in Locals
      /\ pc \in [Threads -> Steps]
      /\ counts \in [0..LastDay -> Counters] /\ today \in 0..LastDay
  BY DEF FetchInv, TypeOK, Locals, Fresh, Nothing, Counters
<1>b. local[t] \in Locals /\ counts[today] \in Counters
  BY <1>a
<1>c. /\ ~expired /\ CountsCoverToday
      /\ \A s \in Threads : CountsAreComing(s) /\ Alone(s)
  BY DEF CountInv, FetchInv
<1>d. \A s \in Threads \ {t} : pc[t] # "idle" => pc[s] = "idle"
  BY <1>c DEF Alone
<1>e. UNCHANGED <<expired, today, morning>>
  BY DEF Step, Peek, ReadCrates, StoreVersions, StoreCrates, SetReference, Count
<1>f. \A s \in Threads \ {t} : pc'[s] = pc[s] /\ local'[s] = local[s]
  <2>1. CASE StoreVersions(t)
    BY <1>a, <2>1, LoopType DEF StoreVersions, FetchInv
  <2> QED BY <1>a, <2>1
          DEF Step, Peek, ReadCrates, StoreCrates, SetReference, Count, Ends
<1>g. \A s \in Threads \ {t} : pc[s] = "idle" => local[s] = Fresh
  BY <1>c DEF CountsAreComing
<1>h. /\ rows' = rows => StoredVersions' = StoredVersions
      /\ listed' = listed => WithVersions(listed)' = WithVersions(listed)
  BY DEF StoredVersions, WithVersions
\* the step of a thread that goes on
<1>s. ASSUME pc'[t] # "idle", CountsAreComing(t)', \A s \in Threads \ {t} : pc[s] = "idle"
      PROVE  CountInv'
  <2>1. \A s \in Threads \ {t} : pc'[s] = "idle" /\ local'[s] = Fresh
    BY <1>f, <1>g, <1>s
  <2> QED BY <1>c, <1>e, <1>s, <2>1, OneCounts
<1>1. CASE Peek(t)
  <2>1. \A s \in Threads : pc[s] = "idle"
    BY <1>1, <1>c DEF Peek, Alone
  <2>2. pc'[t] = "read" /\ local'[t].news = local[t].news /\ UNCHANGED <<rows, listed, counts>>
    BY <1>1, <1>a, <1>b DEF Peek, Locals
  <2>3. local[t].news = Nothing
    <3>1. local[t] = Fresh
      BY <1>c, <2>1 DEF CountsAreComing
    <3> QED BY <3>1 DEF Fresh
  <2>4. CountsAreComing(t)'
    <3>1. /\ counts[today].crates >= Cardinality(TodaysCrates(listed))
          /\ counts[today].crate_versions >= Cardinality(TodaysVersions)
      BY <1>c, <2>1 DEF CountsCoverToday, TodaysCrates, TodaysVersions
    <3>2. /\ counts[today].crates + 0 = counts[today].crates
          /\ counts[today].crate_versions + 0 = counts[today].crate_versions
      BY <1>b DEF Counters
    <3>3. local'[t].news.crates = 0 /\ local'[t].news.crate_versions = 0
      BY <2>2, <2>3 DEF Nothing
    <3> QED BY <1>e, <1>h, <2>2, <2>3, <3>1, <3>2, <3>3
            DEF CountsAreComing, TodaysCrates, TodaysVersions
  <2> QED BY <1>s, <2>1, <2>2, <2>4
<1>2. CASE ReadCrates(t)
  <2>1. /\ pc[t] = "read" /\ pc'[t] = "versions" /\ local'[t].lut = listed
        /\ local'[t].news = local[t].news /\ UNCHANGED <<rows, listed, counts>>
    BY <1>2, <1>a, <1>b DEF ReadCrates, Locals
  <2>2. CountsAreComing(t)
    BY <1>c
  <2>3. CountsAreComing(t)'
    BY <1>e, <1>h, <2>1, <2>2 DEF CountsAreComing
  <2> QED BY <1>s, <1>d, <2>1, <2>3
<1>3. CASE StoreVersions(t)
  <2>1. /\ pc[t] = "versions" /\ pc'[t] = "crates" /\ UNCHANGED <<listed, counts>>
        /\ rows' = Stored(local[t].batch, local[t].upto)
        /\ MergeAndCount(t)
    BY <1>3, <1>a DEF StoreVersions
  <2>2. /\ local[t].news = Nothing /\ local[t].lut = listed
        /\ counts[today].crates + local[t].news.crates >= Cardinality(TodaysCrates(listed))
        /\ counts[today].crate_versions + local[t].news.crate_versions
              >= Cardinality(TodaysVersions)
    BY <1>c, <2>1 DEF CountsAreComing, TodaysCrates, TodaysVersions
  <2>3. /\ counts[today].crates >= Cardinality(TodaysCrates(listed))
        /\ counts[today].crate_versions >= Cardinality(TodaysVersions)
    BY <1>b, <2>2 DEF Nothing, Counters
  <2>4. PICK new \in SUBSET Crates :
           /\ local'[t].news.crates = Cardinality(new)
           /\ WithVersions(local'[t].lut) \subseteq WithVersions(listed) \cup new
           /\ local'[t].news.crate_versions = Cardinality(local[t].batch)
           /\ local'[t].news \in Counters
    BY <2>1, <2>2, LoopCounts DEF FetchInv
  <2> DEFINE lut == local'[t].lut
             batch == local[t].batch
  <2>5. StoredVersions' \subseteq StoredVersions \cup batch
    <3>1. \A c \in Crates, v \in Versions :
             rows'[c][v] = IF <<c, v>> \in batch
                           THEN Index[local[t].upto][c][v] ELSE rows[c][v]
      BY <2>1 DEF Stored
    <3> QED BY <3>1 DEF StoredVersions
  <2>6. /\ IsFiniteSet(TodaysVersions) /\ IsFiniteSet(batch)
        /\ Cardinality(TodaysVersions) \in Nat /\ Cardinality(batch) \in Nat
        /\ IsFiniteSet(TodaysVersions') /\ Cardinality(TodaysVersions') \in Nat
    <3>1. /\ batch \in SUBSET (Crates \X Versions)
          /\ TodaysVersions \in SUBSET (Crates \X Versions)
          /\ TodaysVersions' \in SUBSET (Crates \X Versions)
      BY <1>b DEF Locals, TodaysVersions, StoredVersions
    <3> QED BY <3>1, SetsAreFinite
  <2>7. Cardinality(TodaysVersions') <= Cardinality(TodaysVersions) + Cardinality(batch)
    <3>1. TodaysVersions' \subseteq TodaysVersions \cup batch
      BY <1>e, <2>5 DEF TodaysVersions
    <3> QED BY <3>1, <2>6, UnionIsSmall
  <2>8. /\ Cardinality(TodaysCrates(listed)) \in Nat /\ IsFiniteSet(TodaysCrates(listed))
        /\ Cardinality(WithVersions(lut) \ morning.crates) \in Nat
        /\ Cardinality(WithVersions(lut) \ WithVersions(listed)) \in Nat
        /\ IsFiniteSet(new) /\ Cardinality(new) \in Nat
    <3>1. /\ TodaysCrates(listed) \in SUBSET Crates
          /\ WithVersions(lut) \ morning.crates \in SUBSET Crates
          /\ WithVersions(lut) \ WithVersions(listed) \in SUBSET Crates
      BY DEF TodaysCrates, WithVersions
    <3> QED BY <3>1, SetsAreFinite
  <2>9. Cardinality(WithVersions(lut) \ morning.crates)
            <= Cardinality(TodaysCrates(listed)) + Cardinality(new)
    <3>1. WithVersions(lut) \ morning.crates \subseteq TodaysCrates(listed) \cup new
      BY <2>4 DEF TodaysCrates
    <3> QED BY <3>1, <2>8, UnionIsSmall
  <2>10. Cardinality(WithVersions(lut) \ WithVersions(listed)) <= Cardinality(new)
    <3>1. WithVersions(lut) \ WithVersions(listed) \in SUBSET new
      BY <2>4
    <3> QED BY <3>1, <2>8, FS_Subset
  <2>11. /\ counts[today].crates + local'[t].news.crates
               >= Cardinality(WithVersions(lut) \ morning.crates)
         /\ counts[today].crate_versions + local'[t].news.crate_versions
               >= Cardinality(TodaysVersions')
    <3>1. counts[today].crates \in Nat /\ counts[today].crate_versions \in Nat
      BY <1>b DEF Counters
    <3>2. counts[today].crates + local'[t].news.crates
               >= Cardinality(WithVersions(lut) \ morning.crates)
      BY <2>3, <2>4, <2>8, <2>9, <3>1
    <3>3. counts[today].crate_versions + local'[t].news.crate_versions
               >= Cardinality(TodaysVersions')
      BY <2>3, <2>4, <2>6, <2>7, <3>1
    <3> QED BY <3>2, <3>3
  <2>12. local'[t].news.crates >= Cardinality(WithVersions(lut) \ WithVersions(listed))
    BY <2>4, <2>8, <2>10
  <2>13. CountsAreComing(t)'
    BY <1>e, <1>h, <2>1, <2>11, <2>12 DEF CountsAreComing, TodaysVersions
  <2> QED BY <1>s, <1>d, <2>1, <2>13
<1>4. CASE StoreCrates(t)
  <2>1. /\ pc[t] = "crates" /\ pc'[t] = "reference" /\ listed' = local[t].lut
        /\ UNCHANGED <<rows, counts, local>>
    BY <1>4, <1>a DEF StoreCrates
  <2>2. WithVersions(listed)' = WithVersions(local[t].lut)
    BY <2>1 DEF WithVersions
  <2>3. CountsAreComing(t)'
    BY <1>c, <1>e, <1>h, <2>1, <2>2 DEF CountsAreComing
  <2> QED BY <1>s, <1>d, <2>1, <2>3
<1>5. CASE SetReference(t)
  <2>1. /\ pc[t] = "reference" /\ pc'[t] = "count"
        /\ UNCHANGED <<rows, listed, counts, local>>
    BY <1>5, <1>a DEF SetReference
  <2>2. CountsAreComing(t)'
    BY <1>c, <1>e, <1>h, <2>1 DEF CountsAreComing
  <2> QED BY <1>s, <1>d, <2>1, <2>2
<1>6. CASE Count(t)
  <2>1. /\ pc[t] = "count" /\ pc'[t] = "idle" /\ local'[t] = Fresh
        /\ UNCHANGED <<rows, listed>>
    BY <1>6, <1>a DEF Count, Ends
  <2>2. /\ counts'[today].crates = counts[today].crates + local[t].news.crates
        /\ counts'[today].crate_versions
              = counts[today].crate_versions + local[t].news.crate_versions
    BY <1>6, <1>a DEF Count
  <2>3. /\ counts[today].crates + local[t].news.crates
              >= Cardinality(WithVersions(listed) \ morning.crates)
        /\ counts[today].crate_versions + local[t].news.crate_versions
              >= Cardinality(StoredVersions \ morning.crate_versions)
    BY <1>c, <2>1 DEF CountsAreComing
  <2>4. CountsCoverToday'
    BY <1>e, <1>h, <2>1, <2>2, <2>3 DEF CountsCoverToday
  <2>5. \A s \in Threads : pc'[s] = "idle" /\ local'[s] = Fresh
    BY <1>d, <1>f, <1>g, <2>1
  <2> QED BY <1>c, <1>e, <2>4, <2>5 DEF CountInv, CountsAreComing
<1> QED BY <1>1, <1>2, <1>3, <1>4, <1>5, <1>6 DEF Step

\* Midnight: nothing came to the tables today and the new row counts nothing,
\* except that a thread may still bring the crates of its copy.
LEMMA CountMidnight ==
    ASSUME FetchInv, CountInv, faults = 0, Midnight, counts[today + 1] = Nothing
    PROVE  CountInv'
<1> USE DEF tables, thread
<1>1. /\ today' = today + 1
      /\ morning'.crate_versions = StoredVersions /\ morning'.crates = WithVersions(listed)
      /\ UNCHANGED <<rows, listed, counts, pc, local, expired, faults>>
  BY DEF Midnight
<1>2. StoredVersions' = StoredVersions /\ WithVersions(listed)' = WithVersions(listed)
  BY <1>1 DEF StoredVersions, WithVersions
<1>3. Cardinality({}) = 0
  BY FS_EmptySet
<1>4. counts'[today'].crates = 0 /\ counts'[today'].crate_versions = 0
  BY <1>1 DEF Nothing
<1>5. ~expired' /\ CountsCoverToday'
  BY <1>1, <1>2, <1>3, <1>4 DEF CountsCoverToday, CountInv
<1>6. ASSUME NEW t \in Threads PROVE CountsAreComing(t)'
  <2>1. CountsAreComing(t)
    BY DEF CountInv
  <2>2. local[t].news.crates \in Nat /\ local[t].news.crate_versions \in Nat
    BY DEF FetchInv, TypeOK, Counters
  <2>3. CASE pc[t] = "idle"
    BY <1>1, <2>1, <2>3 DEF CountsAreComing
  <2>4. CASE pc[t] = "crates"
    <3>1. WithVersions(local'[t].lut) = WithVersions(local[t].lut)
      BY <1>1
    <3>2. local[t].news.crates >= Cardinality(WithVersions(local[t].lut) \ WithVersions(listed))
      BY <2>1, <2>4 DEF CountsAreComing
    <3>3. StoredVersions' \ morning'.crate_versions = {}
      BY <1>1, <1>2
    <3>4. /\ counts'[today'].crates + local'[t].news.crates = local[t].news.crates
          /\ counts'[today'].crate_versions + local'[t].news.crate_versions >= 0
      BY <1>1, <1>4, <2>2
    <3> QED BY <1>1, <1>2, <1>3, <2>1, <2>4, <3>1, <3>2, <3>3, <3>4 DEF CountsAreComing
  <2>5. CASE pc[t] \notin {"idle", "crates"}
    <3>1. /\ StoredVersions' \ morning'.crate_versions = {}
          /\ WithVersions(listed)' \ morning'.crates = {}
      BY <1>1, <1>2
    <3>2. /\ counts'[today'].crates + local'[t].news.crates >= 0
          /\ counts'[today'].crate_versions + local'[t].news.crate_versions >= 0
      BY <1>1, <1>4, <2>2
    <3> QED BY <1>1, <1>3, <2>1, <2>5, <3>1, <3>2 DEF CountsAreComing
  <2> QED BY <2>3, <2>4, <2>5
<1> QED BY <1>5, <1>6 DEF CountInv

\* the days to come have no row
Ahead == \A d \in 0..LastDay : d > today => counts[d] = Nothing

LEMMA AheadNext ==
    ASSUME TypeOK, Ahead, [Next]_vars
    PROVE  Ahead'
<1> USE FetchAssumption DEF tables, thread, calendar, Ahead, TypeOK
<1>1. CASE UNCHANGED <<today, counts>>
  BY <1>1
<1>2. CASE Midnight
  BY <1>2 DEF Midnight
<1>3. ASSUME NEW t \in Threads, Count(t) PROVE Ahead'
  <2>1. UNCHANGED today /\ \A d \in 0..LastDay \ {today} : counts'[d] = counts[d]
    BY <1>3 DEF Count
  <2> QED BY <2>1
<1> QED BY <1>1, <1>2, <1>3
        DEF Next, Publish, Step, Peek, ReadCrates, StoreVersions, StoreCrates, SetReference,
            Expires, Fails, Crash, vars

LEMMA CountNext ==
    ASSUME FetchInv, CountInv, Ahead, [Next]_vars
    PROVE  CountInv'
<1> USE DEF tables, thread, calendar
<1>a. faults \in Nat /\ today \in 0..LastDay
  BY FetchAssumption DEF FetchInv, TypeOK
<1>1. CASE UNCHANGED <<rows, listed, counts, today, morning, pc, local, expired, faults>>
  BY <1>1 DEF CountInv, CountsCoverToday, CountsAreComing, WithVersions, StoredVersions
<1>2. CASE Fault
  <2>1. faults' # 0
    BY <1>2, <1>a DEF Fault
  <2> QED BY <2>1 DEF CountInv
<1>3. ASSUME NEW t \in Threads, Step(t) PROVE CountInv'
  <2>1. faults' = faults
    BY <1>3 DEF Step, Peek, ReadCrates, StoreVersions, StoreCrates, SetReference, Count
  <2>2. CASE faults # 0
    BY <2>1, <2>2 DEF CountInv
  <2>3. CASE faults = 0
    BY <1>3, <2>3, CountStep
  <2> QED BY <2>2, <2>3
<1>4. CASE Midnight
  <2>1. CASE faults # 0
    BY <1>4, <2>1 DEF Midnight, CountInv
  <2>2. CASE faults = 0
    <3>1. counts[today + 1] = Nothing
      BY <1>4, <1>a, FetchAssumption DEF Midnight, Ahead
    <3> QED BY <1>4, <2>2, <3>1, CountMidnight
  <2> QED BY <2>1, <2>2
<1> QED BY <1>1, <1>2, <1>3, <1>4 DEF Next, Publish, Expires, Fails, Crash, vars

\* Without errors, restarts and limits the row of today (changes.rs,
\* update_today) covers what came to the tables today, whatever the order of
\* changes and however fetches fall across midnights.
THEOREM CountersCoverTheDay == Spec => []CountsCoverToday
<1>1. CountInv => CountsCoverToday
  BY DEF CountInv, CountsCoverToday
<1>2. Init => Ahead
  BY DEF Init, Ahead
<1>3. FetchInv /\ Ahead /\ [Next]_vars => Ahead'
  BY AheadNext DEF FetchInv
<1>4. FetchInv /\ CountInv /\ Ahead /\ [Next]_vars => CountInv'
  BY CountNext
<1> QED BY <1>1, <1>2, <1>3, <1>4, CountInit, FetchInvHolds, PTL DEF Spec
=============================================================================
