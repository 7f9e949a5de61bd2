------------------------------ MODULE GitWriter ------------------------------
(***************************************************************************)
(* Reports that go to git (engine/stage/report/git.rs): each round of the  *)
(* report stage has a thread of its own that takes the files its           *)
(* processors write from a bounded channel into an index, and when every   *)
(* sender is gone writes a tree, commits and pushes it.  In a bare         *)
(* repository files are not written to disk at all, and the index starts   *)
(* as the tree of HEAD.  In another it is .git/index, which nobody writes: *)
(* set_index only hands it to the repository that the thread has opened.   *)
(*                                                                         *)
(* A tree, and what is on disk, is the version of each file, 0 if there is *)
(* none.  What a round has to write is chosen when it starts, one file to  *)
(* a chunk; module Reports has the chunks.                                 *)
(***************************************************************************)
EXTENDS Naturals, Sequences

CONSTANTS
    Files,       \* report files
    MaxVersion,  \* bound: versions of each
    Rounds,      \* bound: rounds whose thread or processors can be alive at once
    Capacity,    \* of the channel to the thread: the number of processors
    Unborn,      \* HEAD before the first commit
    Nobody,      \* no round
    MaxFaults    \* bound: errors, restarts and pushes that take too long

ASSUME GitAssumption ==
    /\ MaxVersion \in Nat
    /\ Capacity \in Nat \ {0}
    /\ Nobody \notin Rounds
    /\ Unborn \notin [Files -> Nat]
    /\ MaxFaults \in Nat

VARIABLES
    bare,      \* is it a bare repository?
    latest,    \* the newest version of each report there could be
    onDisk,    \* the files in the working directory
    marked,    \* the versions that are marked as done and not written again
    head,      \* the tree of HEAD
    remote,    \* the tree the remote has
    up,        \* can the remote be reached?
    current,   \* the round `generate` is in
    feeding,   \* does it still hand out chunks?
    pc,        \* where the thread of each round is
    mine,      \* its index
    base,      \* the tree of HEAD when it read that
    queue,     \* the channel to it
    batch,     \* what its round writes
    stage,     \* how far each file has got
    late,      \* trees that are still being pushed after the limit
    overtaken, \* did ever a round begin beside one that was left behind?
    dropped,   \* history: files with a report that a thread had when it stopped
               \* early, that an older one replaced, or that was in a HEAD that
               \* a commit did not know of
    faults

repo == <<head, remote>>
files == <<onDisk, marked>>
round == <<current, feeding>>
thread == <<pc, mine, base, queue>>
work == <<batch, stage>>
vars == <<bare, latest, files, repo, up, round, thread, work, late, overtaken, dropped, faults>>

Tree == [Files -> Nat]
Empty == [f \in Files |-> 0]
HeadTree == IF head = Unborn THEN Empty ELSE head

Init ==
    /\ bare \in BOOLEAN
    /\ latest = Empty /\ onDisk = Empty /\ marked = Empty
    /\ head = Unborn /\ remote = Empty
    /\ up = TRUE
    /\ current = Nobody /\ feeding = FALSE
    /\ pc = [r \in Rounds |-> "off"]
    /\ mine = [r \in Rounds |-> Empty] /\ base = [r \in Rounds |-> Empty]
    /\ queue = [r \in Rounds |-> <<>>]
    /\ batch = [r \in Rounds |-> Empty]
    /\ stage = [r \in Rounds |-> [f \in Files |-> "done"]]
    /\ late = {} /\ overtaken = FALSE /\ dropped = {} /\ faults = 0

-----------------------------------------------------------------------------
\* a new version of a crate changes its report
NewReport ==
    /\ \E f \in Files :
          /\ latest[f] < MaxVersion
          /\ latest' = [latest EXCEPT ![f] = @ + 1]
    /\ UNCHANGED <<bare, files, repo, up, round, thread, work, late, overtaken, dropped, faults>>

Network ==
    /\ up' = ~up
    /\ UNCHANGED <<bare, latest, files, repo, round, thread, work, late, overtaken, dropped, faults>>

-----------------------------------------------------------------------------
\* every write_files of the round has ended and dropped its sender
Written(r) == \A f \in Files : stage[r][f] = "done"
Alive(r) == pc[r] \notin {"off", "gone"} \/ ~Written(r)

\* `generate` spawns the thread and its processors
StartRound(r) ==
    /\ current = Nobody
    /\ ~Alive(r)
    /\ current' = r
    /\ feeding' = TRUE
    /\ batch' = [batch EXCEPT ![r] = latest]
    /\ stage' = [stage EXCEPT ![r] = [f \in Files |-> IF latest[f] > marked[f] THEN "todo" ELSE "done"]]
    /\ pc' = [pc EXCEPT ![r] = "index"]
    /\ queue' = [queue EXCEPT ![r] = <<>>]
    /\ overtaken' = (overtaken \/ \E s \in Rounds \ {r} : Alive(s))
    /\ UNCHANGED <<bare, latest, files, repo, up, mine, base, late, dropped, faults>>

\* the last chunk is handed out, the sender of `generate` dropped
DropState ==
    /\ feeding
    /\ feeding' = FALSE
    /\ UNCHANGED <<bare, latest, files, repo, up, current, thread, work, late, overtaken, dropped, faults>>

\* the aggregator has ended, the thread is joined whatever it returns
Join ==
    /\ current # Nobody /\ ~feeding
    /\ Written(current) /\ pc[current] = "gone"
    /\ current' = Nobody
    /\ UNCHANGED <<bare, latest, files, repo, up, feeding, thread, work, late, overtaken, dropped, faults>>

Generate == DropState \/ Join \/ \E r \in Rounds : StartRound(r)

-----------------------------------------------------------------------------
Receiving(r) == pc[r] \in {"index", "collect"}
Move(r, f, s) == stage' = [stage EXCEPT ![r][f] = s]

\* repo_bare and repo_with_working_dir: wait for a place in the channel; if
\* the thread is gone the error ends write_files
Send(r, f) ==
    /\ stage[r][f] = "todo"
    /\ IF Receiving(r)
       THEN /\ Len(queue[r]) < Capacity
            /\ queue' = [queue EXCEPT ![r] = Append(@, f)]
            /\ Move(r, f, "sent")
       ELSE queue' = queue /\ Move(r, f, "done")
    /\ UNCHANGED <<bare, latest, files, repo, up, round, pc, mine, base, batch, late, overtaken, dropped, faults>>

\* A mutant of Write: the instruction is to skip in every repository.
WriteNothing(r, f) ==
    /\ stage[r][f] = "sent"
    /\ Move(r, f, "written")
    /\ UNCHANGED <<bare, latest, files, repo, up, round, thread, batch, late, overtaken, dropped, faults>>

\* the instruction is to skip or to write
Write(r, f) ==
    /\ stage[r][f] = "sent"
    /\ onDisk' = IF bare THEN onDisk ELSE [onDisk EXCEPT ![f] = batch[r][f]]
    /\ Move(r, f, "written")
    /\ UNCHANGED <<bare, latest, marked, repo, up, round, thread, batch, late, overtaken, dropped, faults>>

\* the done marker; write_files ends, its sender is dropped
Mark(r, f) ==
    /\ stage[r][f] = "written"
    /\ marked' = [marked EXCEPT ![f] = IF batch[r][f] > @ THEN batch[r][f] ELSE @]
    /\ Move(r, f, "done")
    /\ UNCHANGED <<bare, latest, onDisk, repo, up, round, thread, batch, late, overtaken, dropped, faults>>

Process(r, f) == Send(r, f) \/ Write(r, f) \/ Mark(r, f)

-----------------------------------------------------------------------------
Go(r, s) == pc' = [pc EXCEPT ![r] = s]

\* A mutant of ReadIndex: the tree of HEAD is not read.
ReadEmptyIndex(r) ==
    /\ pc[r] = "index"
    /\ mine' = [mine EXCEPT ![r] = Empty]
    /\ base' = [base EXCEPT ![r] = HeadTree]
    /\ Go(r, "collect")
    /\ UNCHANGED <<bare, latest, files, repo, up, round, queue, work, late, overtaken, dropped, faults>>

\* the index file, or the tree of HEAD if the repository is bare
ReadIndex(r) ==
    /\ pc[r] = "index"
    /\ mine' = [mine EXCEPT ![r] = IF bare THEN HeadTree ELSE Empty]
    /\ base' = [base EXCEPT ![r] = HeadTree]
    /\ Go(r, "collect")
    /\ UNCHANGED <<bare, latest, files, repo, up, round, queue, work, late, overtaken, dropped, faults>>

\* add_frombuffer
Collect(r) ==
    /\ pc[r] = "collect"
    /\ queue[r] # <<>>
    /\ LET f == Head(queue[r])
       IN  /\ mine' = [mine EXCEPT ![r][f] = batch[r][f]]
           /\ dropped' = IF batch[r][f] < mine[r][f] THEN dropped \cup {f} ELSE dropped
    /\ queue' = [queue EXCEPT ![r] = Tail(@)]
    /\ UNCHANGED <<bare, latest, files, repo, up, round, pc, base, work, late, overtaken, faults>>

\* A mutant of Closed: a sender that is kept until the thread is joined.
ClosedByJoin(r) ==
    /\ pc[r] = "collect"
    /\ queue[r] = <<>>
    /\ current # r /\ Written(r)
    /\ Go(r, "tree")
    /\ UNCHANGED <<bare, latest, files, repo, up, round, mine, base, queue, work, late, overtaken, dropped, faults>>

\* A mutant of Closed: what is still in the channel is left there.
ClosedUndrained(r) ==
    /\ pc[r] = "collect"
    /\ ~(current = r /\ feeding) /\ Written(r)
    /\ Go(r, "tree")
    /\ UNCHANGED <<bare, latest, files, repo, up, round, mine, base, queue, work, late, overtaken, dropped, faults>>

\* the channel is empty and no sender is left
Closed(r) ==
    /\ pc[r] = "collect"
    /\ queue[r] = <<>>
    /\ ~(current = r /\ feeding) /\ Written(r)
    /\ Go(r, "tree")
    /\ UNCHANGED <<bare, latest, files, repo, up, round, mine, base, queue, work, late, overtaken, dropped, faults>>

\* write_tree
WriteTree(r) ==
    /\ pc[r] = "tree"
    /\ Go(r, "compare")
    /\ UNCHANGED <<bare, latest, files, repo, up, round, mine, base, queue, work, late, overtaken, dropped, faults>>

\* no change, no commit (and no push of an earlier one)
Compare(r) ==
    /\ pc[r] = "compare"
    /\ Go(r, IF head = mine[r] THEN "gone" ELSE "commit")
    /\ UNCHANGED <<bare, latest, files, repo, up, round, mine, base, queue, work, late, overtaken, dropped, faults>>

\* on top of whatever HEAD is now
Commit(r) ==
    /\ pc[r] = "commit"
    /\ head' = mine[r]
    /\ dropped' = dropped \cup {f \in Files : HeadTree[f] # base[r][f]}
    /\ Go(r, "push")
    /\ UNCHANGED <<bare, latest, files, remote, up, round, mine, base, queue, work, late, overtaken, faults>>

\* +HEAD:refs/heads/main, or an error
Push(r) ==
    /\ pc[r] = "push"
    /\ remote' = IF up THEN head ELSE remote
    /\ Go(r, "gone")
    /\ UNCHANGED <<bare, latest, files, head, up, round, mine, base, queue, work, late, overtaken, dropped, faults>>

Git(r) ==
    \/ ReadIndex(r) \/ Collect(r) \/ Closed(r)
    \/ WriteTree(r) \/ Compare(r) \/ Commit(r) \/ Push(r)

\* a push that took more than an hour arrives after all, or never
LatePush ==
    /\ \E t \in late :
          /\ remote' \in {t, remote}
          /\ late' = late \ {t}
    /\ UNCHANGED <<bare, latest, files, head, up, round, thread, work, overtaken, dropped, faults>>

-----------------------------------------------------------------------------
Fault == faults < MaxFaults /\ faults' = faults + 1

\* the limit of the push is reached
PushTakesLong(r) ==
    /\ Fault
    /\ pc[r] = "push" /\ up
    /\ late' = late \cup {head}
    /\ Go(r, "gone")
    /\ UNCHANGED <<bare, latest, files, repo, up, round, mine, base, queue, work, overtaken, dropped>>

\* what the thread has that is not in HEAD
Held(r) == {f \in Files :
    \/ \E i \in 1..Len(queue[r]) : queue[r][i] = f
    \/ pc[r] \in {"collect", "tree", "compare", "commit"} /\ mine[r][f] # HeadTree[f]}

\* an error ends the thread, the receiver and what was sent to it
GitFails(r) ==
    /\ Fault
    /\ pc[r] \in {"index", "collect", "tree", "compare", "commit"}
    /\ Go(r, "gone")
    /\ queue' = [queue EXCEPT ![r] = <<>>]
    /\ dropped' = dropped \cup Held(r)
    /\ UNCHANGED <<bare, latest, files, repo, up, round, mine, base, work, late, overtaken>>

\* an error ends write_files
ChunkFails(r, f) ==
    /\ Fault
    /\ stage[r][f] # "done"
    /\ Move(r, f, "done")
    /\ UNCHANGED <<bare, latest, files, repo, up, round, thread, batch, late, overtaken, dropped>>

\* `generate` returns early: its processors and its thread go on alone
Abort ==
    /\ Fault
    /\ feeding
    /\ current' = Nobody
    /\ feeding' = FALSE
    /\ UNCHANGED <<bare, latest, files, repo, up, thread, work, late, overtaken, dropped>>

Crash ==
    /\ Fault
    /\ current' = Nobody /\ feeding' = FALSE
    /\ pc' = [r \in Rounds |-> "off"]
    /\ queue' = [r \in Rounds |-> <<>>]
    /\ stage' = [r \in Rounds |-> [f \in Files |-> "done"]]
    /\ late' = {}
    /\ dropped' = dropped \cup UNION {Held(r) : r \in Rounds}
    /\ UNCHANGED <<bare, latest, files, repo, up, mine, base, batch, overtaken>>

Next ==
    \/ NewReport \/ Network
    \/ Generate
    \/ \E r \in Rounds :
          \/ Git(r) \/ PushTakesLong(r) \/ GitFails(r)
          \/ \E f \in Files : Process(r, f) \/ ChunkFails(r, f)
    \/ LatePush \/ Abort \/ Crash

Spec == Init /\ [][Next]_vars
FairSpec ==
    /\ Spec
    /\ WF_vars(Generate)
    /\ \A r \in Rounds :
          /\ WF_vars(Git(r))
          /\ \A f \in Files : WF_vars(Process(r, f))

-----------------------------------------------------------------------------
\* Every variable keeps its type.
TypeOK ==
    /\ bare \in BOOLEAN
    /\ latest \in Tree /\ onDisk \in Tree /\ marked \in Tree /\ remote \in Tree
    /\ head \in Tree \cup {Unborn}
    /\ up \in BOOLEAN
    /\ current \in Rounds \cup {Nobody} /\ feeding \in BOOLEAN
    /\ feeding => current # Nobody
    /\ pc \in [Rounds -> {"off", "index", "collect", "tree", "compare", "commit", "push", "gone"}]
    /\ mine \in [Rounds -> Tree] /\ base \in [Rounds -> Tree]
    /\ queue \in [Rounds -> Seq(Files)]
    /\ batch \in [Rounds -> Tree]
    /\ stage \in [Rounds -> [Files -> {"todo", "sent", "written", "done"}]]
    /\ late \subseteq Tree
    /\ overtaken \in BOOLEAN /\ dropped \subseteq Files
    /\ faults \in 0..MaxFaults

AtMost(a, b) == \A f \in Files : a[f] <= b[f]

\* A report that is marked is in the working directory, unless the repository
\* is bare, whatever becomes of git, as long as no round was overtaken.
MarkedIsOnDisk == ~bare /\ ~overtaken => AtMost(marked, onDisk)

\* When all is quiet, every report that is marked, and so is not written again
\* (and, in a bare repository, is nowhere else), is in HEAD, unless a thread
\* dropped that very report.
Quiet == current = Nobody /\ \A r \in Rounds : ~Alive(r)
MarkedIsCommitted ==
    Quiet /\ bare => \A f \in Files \ dropped : marked[f] <= HeadTree[f]

\* No commit to a bare repository takes a report away or an older version of it,
\* unless a thread dropped that very report, and neither does a push but one
\* that was left behind and arrives when there is a newer HEAD.
HistoryOnlyGrows ==
    [][bare => \A f \in Files \ dropped' :
          /\ HeadTree[f] <= HeadTree'[f]
          /\ remote' = HeadTree' => remote[f] <= remote'[f]]_vars

\* The stage is never stuck in a round: the channel to the thread is drained
\* or gone, and the thread learns that its senders are.
RoundsEnd == current # Nobody ~> current = Nobody

=============================================================================
