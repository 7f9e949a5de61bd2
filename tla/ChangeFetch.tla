----------------------------- MODULE ChangeFetch -----------------------------
(***************************************************************************)
(* The fetch stage (engine/stage/changes.rs `fetch`): compare the index of *)
(* crates.io with what was seen of it, store the versions that changed,    *)
(* list them in their crates, remember what was seen, count.  These are    *)
(* two transactions, a git reference and a third transaction, with a       *)
(* restart or an error possible between any two of them.  The counters are *)
(* a row per day.                                                          *)
(*                                                                         *)
(* Storing runs on a thread of its own.  enforce_threaded stops waiting    *)
(* for it after its limit, the thread goes on, and the next fetch begins   *)
(* beside it.                                                              *)
(***************************************************************************)
EXTENDS Naturals, FiniteSets

CONSTANTS
    Crates,
    Versions,
    LastCommit,  \* bound: commits of the index
    Index,       \* what it says of each version after each commit
    Threads,     \* storing threads that may be alive at once
    MaxFaults,   \* bound: restarts, errors and limits that are reached
    LastDay      \* bound: midnights

Kinds == {"absent", "Added", "Yanked"}

ASSUME FetchAssumption ==
    /\ LastCommit \in Nat
    /\ Index \in [0..LastCommit -> [Crates -> [Versions -> Kinds]]]
    /\ Index[0] = [c \in Crates |-> [v \in Versions |-> "absent"]]
    /\ IsFiniteSet(Crates) /\ IsFiniteSet(Versions)
    /\ MaxFaults \in Nat
    /\ LastDay \in Nat

VARIABLES
    head,     \* the commit the index is at
    seen,     \* the last-seen reference
    rows,     \* table crate_version: the kind of each version
    listed,   \* table crate: the versions of each crate
    counts,   \* table meta: the counters of each day
    today,
    morning,  \* history: what the tables held when the day began
    pc,       \* what each thread does next
    waits,    \* does the stage wait for it?
    local,    \* its local variables: the versions that changed (batch) up to
              \* which commit, its copy of table crate (lut), what it counted
    expired,  \* has the stage ever stopped waiting for a thread?
    faults

tables == <<rows, listed, counts>>
thread == <<pc, waits, local>>
calendar == <<today, morning>>
vars == <<head, seen, tables, calendar, thread, expired, faults>>

Steps == {"idle", "read", "versions", "crates", "reference", "count"}

Nothing == [crate_versions |-> 0, crates |-> 0]
Fresh == [batch |-> {}, upto |-> 0, lut |-> [c \in Crates |-> {}], news |-> Nothing]

Init ==
    /\ head = 0 /\ seen = 0
    /\ rows = Index[0]
    /\ listed = [c \in Crates |-> {}]
    /\ counts = [d \in 0..LastDay |-> Nothing]
    /\ today = 0
    /\ morning = [crate_versions |-> {}, crates |-> {}]
    /\ pc = [t \in Threads |-> "idle"]
    /\ waits = [t \in Threads |-> FALSE]
    /\ local = [t \in Threads |-> Fresh]
    /\ expired = FALSE
    /\ faults = 0

WithVersions(l) == {c \in Crates : l[c] # {}}
StoredVersions == {cv \in Crates \X Versions : rows[cv[1]][cv[2]] # "absent"}

-----------------------------------------------------------------------------
\* A day ends: from now on another row is counted in, one without a count.
Midnight ==
    /\ today < LastDay
    /\ today' = today + 1
    /\ morning' = [crate_versions |-> StoredVersions, crates |-> WithVersions(listed)]
    /\ UNCHANGED <<head, seen, tables, thread, expired, faults>>

\* The index gets a commit.
Publish ==
    /\ head < LastCommit
    /\ head' = head + 1
    /\ UNCHANGED <<calendar, seen, tables, thread, expired, faults>>

\* versions that differ between two commits; deletions are ignored
Changed(from, to) ==
    {cv \in Crates \X Versions :
        /\ Index[to][cv[1]][cv[2]] # "absent"
        /\ Index[to][cv[1]][cv[2]] # Index[from][cv[1]][cv[2]]}

\* the stage is called and peeks at the changes
Peek(t) ==
    /\ pc[t] = "idle"
    /\ \A s \in Threads : ~waits[s]
    /\ waits' = [waits EXCEPT ![t] = TRUE]
    /\ local' = [local EXCEPT ![t].batch = Changed(seen, head), ![t].upto = head]
    /\ pc' = [pc EXCEPT ![t] = "read"]
    /\ UNCHANGED <<head, calendar, seen, tables, expired, faults>>

\* the transaction that caches the crates
ReadCrates(t) ==
    /\ pc[t] = "read"
    /\ local' = [local EXCEPT ![t].lut = listed]
    /\ pc' = [pc EXCEPT ![t] = "versions"]
    /\ UNCHANGED <<head, calendar, seen, tables, waits, expired, faults>>

Of(c, b) == {v \in Versions : <<c, v>> \in b}

\* A mutant of Merged: the versions of a crate are replaced by the new ones.
MergedForgetting(l, b) == [c \in Crates |-> IF Of(c, b) = {} THEN l[c] ELSE Of(c, b)]

\* merge_mut of every changed version; the sort that follows makes the stored
\* vector a function of this set
Merged(l, b) == [c \in Crates |-> l[c] \cup Of(c, b)]

\* A mutant of CountedNew: crates that have one version in the end.
CountedAfterwards(l, b) ==
    {{c \in Crates : Of(c, b) # {} /\ Cardinality(l[c] \cup Of(c, b)) = 1}}

\* Crates that have exactly one version after one of their changes is merged:
\* changes come in any order, so the one version of a crate may come first.
CountedNew(l, b) ==
    LET surely == {c \in Crates :
            /\ Of(c, b) # {}
            /\ l[c] = {} \/ (l[c] = Of(c, b) /\ Cardinality(l[c]) = 1)}
        perhaps == {c \in Crates : Cardinality(l[c]) = 1 /\ l[c] \subseteq Of(c, b)}
    IN  {surely \cup s : s \in SUBSET (perhaps \ surely)}

\* the rows of the changed versions are replaced
Stored(b, n) == [c \in Crates |-> [v \in Versions |->
    IF <<c, v>> \in b THEN Index[n][c][v] ELSE rows[c][v]]]

\* the loop over the changes, as far as it only touches local variables
MergeAndCount(t) ==
    \E new \in CountedNew(local[t].lut, local[t].batch) :
        local' = [local EXCEPT
            ![t].lut = Merged(local[t].lut, local[t].batch),
            ![t].news = [crate_versions |-> Cardinality(local[t].batch),
                         crates |-> Cardinality(new)]]

\* A mutant of StoreVersions: the transaction is not committed.
StoreVersionsRolledBack(t) ==
    /\ pc[t] = "versions"
    /\ MergeAndCount(t)
    /\ pc' = [pc EXCEPT ![t] = "crates"]
    /\ UNCHANGED <<head, calendar, seen, tables, waits, expired, faults>>

\* the transaction that stores the changed versions
StoreVersions(t) ==
    /\ pc[t] = "versions"
    /\ MergeAndCount(t)
    /\ rows' = Stored(local[t].batch, local[t].upto)
    /\ pc' = [pc EXCEPT ![t] = "crates"]
    /\ UNCHANGED <<head, calendar, seen, listed, counts, waits, expired, faults>>

\* the transaction that stores the crates, every one of the copy
StoreCrates(t) ==
    /\ pc[t] = "crates"
    /\ listed' = local[t].lut
    /\ pc' = [pc EXCEPT ![t] = "reference"]
    /\ UNCHANGED <<head, calendar, seen, rows, counts, waits, local, expired, faults>>

\* A mutant of SetReference: the reference moves to where the index is now.
SetReferenceToHead(t) ==
    /\ pc[t] = "reference"
    /\ seen' = head
    /\ pc' = [pc EXCEPT ![t] = "count"]
    /\ UNCHANGED <<head, calendar, tables, waits, local, expired, faults>>

\* set_last_seen_reference
SetReference(t) ==
    /\ pc[t] = "reference"
    /\ seen' = local[t].upto
    /\ pc' = [pc EXCEPT ![t] = "count"]
    /\ UNCHANGED <<head, calendar, tables, waits, local, expired, faults>>

\* the fetch is over: its thread ends
Ends(t) ==
    /\ pc' = [pc EXCEPT ![t] = "idle"]
    /\ waits' = [waits EXCEPT ![t] = FALSE]
    /\ local' = [local EXCEPT ![t] = Fresh]

\* update_today: the row of the day the fetch ends on
Count(t) ==
    /\ pc[t] = "count"
    /\ counts' = [counts EXCEPT ![today] =
          [crate_versions |-> @.crate_versions + local[t].news.crate_versions,
           crates |-> @.crates + local[t].news.crates]]
    /\ Ends(t)
    /\ UNCHANGED <<head, calendar, seen, rows, listed, expired, faults>>

Step(t) ==
    \/ Peek(t)
    \/ ReadCrates(t)
    \/ StoreVersions(t)
    \/ StoreCrates(t)
    \/ SetReference(t)
    \/ Count(t)

-----------------------------------------------------------------------------
Fault == faults < MaxFaults /\ faults' = faults + 1

\* enforce_threaded gives up waiting, the thread goes on
Expires(t) ==
    /\ Fault
    /\ waits[t]
    /\ waits' = [waits EXCEPT ![t] = FALSE]
    /\ expired' = TRUE
    /\ UNCHANGED <<head, calendar, seen, tables, pc, local>>

\* An error ends the fetch.  A transaction is rolled back then, but that of
\* the crates commits what it has (DropBehavior::Commit).
Fails(t) ==
    /\ Fault
    /\ pc[t] # "idle"
    /\ \E part \in SUBSET Crates :
          listed' = IF pc[t] = "crates"
                    THEN [c \in Crates |-> IF c \in part THEN local[t].lut[c] ELSE listed[c]]
                    ELSE listed
    /\ Ends(t)
    /\ UNCHANGED <<head, calendar, seen, rows, counts, expired>>

\* The program is killed and started again.
Crash ==
    /\ Fault
    /\ pc' = [t \in Threads |-> "idle"]
    /\ waits' = [t \in Threads |-> FALSE]
    /\ local' = [t \in Threads |-> Fresh]
    /\ UNCHANGED <<head, calendar, seen, tables, expired>>

Next ==
    \/ Publish
    \/ Midnight
    \/ \E t \in Threads : Step(t) \/ Expires(t) \/ Fails(t)
    \/ Crash

Spec == Init /\ [][Next]_vars
FairSpec == Spec /\ \A t \in Threads : WF_vars(Step(t))

-----------------------------------------------------------------------------
Counters == [crate_versions : Nat, crates : Nat]

\* Every variable keeps its type.
TypeOK ==
    /\ head \in 0..LastCommit /\ seen \in 0..head
    /\ rows \in [Crates -> [Versions -> Kinds]]
    /\ listed \in [Crates -> SUBSET Versions]
    /\ counts \in [0..LastDay -> Counters]
    /\ today \in 0..LastDay
    /\ morning \in [crate_versions : SUBSET (Crates \X Versions), crates : SUBSET Crates]
    /\ pc \in [Threads -> Steps]
    /\ waits \in [Threads -> BOOLEAN]
    /\ local \in [Threads -> [batch : SUBSET (Crates \X Versions), upto : 0..head,
                            lut : [Crates -> SUBSET Versions], news : Counters]]
    /\ expired \in BOOLEAN
    /\ faults \in 0..MaxFaults

IsStored(c, v) == rows[c][v] # "absent"
IsKnown(c, v) == IsStored(c, v) /\ v \in listed[c]

\* A crate lists only versions that are stored, whatever interrupts or
\* overtakes a fetch: the report stage goes from crates to versions.
ListedIsStored == \A c \in Crates : \A v \in listed[c] : IsStored(c, v)

\* What the reference has passed will never be looked at again, so it must be
\* in both tables, whatever errors and restarts came before.
NothingIsMissed ==
    ~expired => \A c \in Crates, v \in Versions :
        Index[seen][c][v] # "absent" => IsKnown(c, v)

\* Why nothing is missed: a fetch works on what the index has and the
\* reference has not passed, alone unless an earlier one was left behind, and
\* each of its steps brings that one table further.
BatchIsChange(t) == \A cv \in local[t].batch : Index[local[t].upto][cv[1]][cv[2]] # "absent"

LutIsStored(t) == pc[t] \in {"versions", "crates"} =>
    \A c \in Crates : \A v \in local[t].lut[c] : IsStored(c, v)

Alone(t) == pc[t] # "idle" => waits[t] /\ \A s \in Threads : pc[s] # "idle" => s = t

BatchIsRest(t) == pc[t] \in {"read", "versions", "crates", "reference"} =>
    \A c \in Crates, v \in Versions :
        Index[local[t].upto][c][v] # "absent" =>
            Index[seen][c][v] # "absent" \/ <<c, v>> \in local[t].batch

LutIsAhead(t) == pc[t] \in {"versions", "crates"} =>
    \A c \in Crates : listed[c] \subseteq local[t].lut[c]

BatchIsDone(t) == \A cv \in local[t].batch :
    /\ pc[t] \in {"crates", "reference"} => IsStored(cv[1], cv[2])
    /\ pc[t] = "crates" => cv[2] \in local[t].lut[cv[1]]
    /\ pc[t] = "reference" => cv[2] \in listed[cv[1]]

FetchInv ==
    /\ TypeOK
    /\ ListedIsStored
    /\ NothingIsMissed
    /\ \A t \in Threads : BatchIsChange(t) /\ LutIsStored(t)
    /\ ~expired => \A t \in Threads :
            Alone(t) /\ BatchIsRest(t) /\ LutIsAhead(t) /\ BatchIsDone(t)

\* The same after interruptions too, once everything was fetched: what an
\* interrupted fetch has stored is set right by the next one.  No run checks it:
\* a yank that is stored and then taken back is not seen, see README.
RowsBecomeCurrent ==
    (~expired /\ seen = head /\ \A t \in Threads : pc[t] = "idle") =>
        \A c \in Crates, v \in Versions :
            Index[seen][c][v] # "absent" => rows[c][v] = Index[seen][c][v]

\* Fetches that were not interrupted have counted, in the row of today, every
\* version and crate that came to the tables today, in whatever order the
\* changes came and if a fetch goes past midnight: it counts all it stored then.
CountsCoverToday ==
    (faults = 0 /\ \A t \in Threads : pc[t] = "idle") =>
        /\ counts[today].crates >= Cardinality(WithVersions(listed) \ morning.crates)
        /\ counts[today].crate_versions >= Cardinality(StoredVersions \ morning.crate_versions)

\* What `Counts` says of itself, "the amount of crate versions stored in the
\* database", where the row of the last day is the one that is shown.  The code
\* breaks it when a version changes and on the second day, see README.
CountsAreStored ==
    (faults = 0 /\ \A t \in Threads : pc[t] = "idle") =>
        counts[today].crate_versions = Cardinality(StoredVersions)

\* Why they have: what a fetch has stored, or is about to store from its copy,
\* it has counted already but not yet added.
CountsAreComing(t) ==
    IF pc[t] = "idle" THEN local[t] = Fresh ELSE
    /\ pc[t] \in {"read", "versions"} => local[t].news = Nothing
    /\ pc[t] = "versions" => local[t].lut = listed
    /\ pc[t] = "crates" => local[t].news.crates >=
           Cardinality(WithVersions(local[t].lut) \ WithVersions(listed))
    /\ counts[today].crates + local[t].news.crates >= Cardinality(
           WithVersions(IF pc[t] = "crates" THEN local[t].lut ELSE listed) \ morning.crates)
    /\ counts[today].crate_versions + local[t].news.crate_versions >=
           Cardinality(StoredVersions \ morning.crate_versions)

CountInv ==
    faults = 0 => /\ ~expired
                  /\ CountsCoverToday
                  /\ \A t \in Threads : CountsAreComing(t)

\* A crate never loses a version, although every fetch stores all crates anew
\* from a copy it took before.
CratesOnlyGrow ==
    [][~expired => \A c \in Crates : listed[c] \subseteq listed'[c]]_vars

\* Whatever the index has for good is stored and listed in the end.
EventuallyMirrored ==
    \A c \in Crates, v \in Versions :
        Index[LastCommit][c][v] # "absent" =>
            (head = LastCommit ~> (expired \/ IsKnown(c, v)))
=============================================================================
