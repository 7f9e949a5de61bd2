---------------------------- MODULE GitWriterProofs ----------------------------
(***************************************************************************)
(* Proofs about GitWriter, for any files and versions, any number of       *)
(* rounds, any capacity of the channel and any number of faults.           *)
(***************************************************************************)
EXTENDS GitWriter, SequenceTheorems, TLAPS

\* Only a commit is pushed, and only a thread that receives has anything to.
PushesCommits == \A r \in Rounds : pc[r] = "push" => head # Unborn
Received == \A r \in Rounds : queue[r] # <<>> => Receiving(r)

\* As long as nobody is overtaken, there is one thread with its processors,
Alone == \A r \in Rounds, s \in Rounds : Alive(r) /\ Alive(s) => r = s

\* whose files are new, and written before they are marked.
WrittenFirst ==
    /\ \A r \in Rounds : \A f \in Files :
          /\ stage[r][f] # "done" => marked[f] < batch[r][f]
          /\ ~bare /\ stage[r][f] = "written" => batch[r][f] <= onDisk[f]
    /\ ~bare => AtMost(marked, onDisk)

\* A report that no thread has dropped is in HEAD, or a thread has it in its
\* channel or its index,
Queued(r, f) == \E i \in 1..Len(queue[r]) : queue[r][i] = f
Working(r) == pc[r] \in {"collect", "tree", "compare", "commit"}
Has(r, f, v) ==
    \/ Queued(r, f) /\ v <= batch[r][f]
    \/ Working(r) /\ v <= mine[r][f]
Kept(f, v) == v <= HeadTree[f] \/ \E r \in Rounds : Has(r, f, v)

\* from when it is sent, and that index is ahead of the HEAD it began with.
InHand ==
    \A f \in Files \ dropped :
        /\ remote[f] <= HeadTree[f] /\ \A t \in late : t[f] <= HeadTree[f]
        /\ \A r \in Rounds : Working(r) => base[r][f] <= mine[r][f]
        /\ Kept(f, marked[f])
        /\ \A r \in Rounds : stage[r][f] \in {"sent", "written"} => Kept(f, batch[r][f])

GitInv ==
    /\ TypeOK /\ PushesCommits /\ Received
    /\ ~overtaken => Alone /\ WrittenFirst
    /\ bare => InHand

-----------------------------------------------------------------------------
LEMMA GitTypeInit == Init => TypeOK /\ PushesCommits /\ Received
<1> SUFFICES ASSUME Init PROVE TypeOK /\ PushesCommits /\ Received
  OBVIOUS
<1>1. Empty \in Tree
  BY DEF Empty, Tree
<1>2. <<>> \in Seq(Files) /\ 0 \in 0..MaxFaults
  BY EmptySeq, GitAssumption
<1> QED BY <1>1, <1>2 DEF Init, TypeOK, PushesCommits, Received

\* What a thread does to itself.
LEMMA GitTypeNext ==
    TypeOK /\ PushesCommits /\ [Next]_vars => TypeOK' /\ PushesCommits'
<1> SUFFICES ASSUME TypeOK, PushesCommits, [Next]_vars PROVE TypeOK' /\ PushesCommits'
  OBVIOUS
<1> USE DEF repo, files, round, thread, work
<1> DEFINE PCs == {"off", "index", "collect", "tree", "compare", "commit", "push", "gone"}
           Stages == {"todo", "sent", "written", "done"}
<1>e. Empty \in Tree /\ HeadTree \in Tree /\ <<>> \in Seq(Files)
  BY EmptySeq DEF Empty, Tree, HeadTree, TypeOK
<1>s. ASSUME NEW r \in Rounds, NEW f \in Files, NEW s \in Stages, Move(r, f, s)
      PROVE  stage' \in [Rounds -> [Files -> Stages]]
  BY <1>s DEF Move, TypeOK
<1>p. ASSUME NEW r \in Rounds, NEW s \in PCs, Go(r, s)
      PROVE  /\ pc' \in [Rounds -> PCs] /\ pc'[r] = s
             /\ \A t \in Rounds \ {r} : pc'[t] = pc[t]
  BY <1>p DEF Go, TypeOK
<1>u. ASSUME NEW t \in Tree, NEW f \in Files, NEW n \in Nat
      PROVE  [t EXCEPT ![f] = n] \in Tree
  BY <1>u DEF Tree
<1>1. CASE NewReport
  <2>1. latest' \in Tree
    BY <1>1 DEF NewReport, TypeOK, Tree
  <2> QED BY <1>1, <2>1 DEF NewReport, TypeOK, PushesCommits
<1>2. CASE Network
  <2>1. up' \in BOOLEAN
    BY <1>2, Zenon DEF Network
  <2> QED BY <1>2, <2>1 DEF Network, TypeOK, PushesCommits
<1>3. ASSUME NEW r \in Rounds, StartRound(r) PROVE TypeOK' /\ PushesCommits'
  <2>1. batch' \in [Rounds -> Tree] /\ queue' \in [Rounds -> Seq(Files)]
    BY <1>3, <1>e DEF StartRound, TypeOK
  <2>2. stage' \in [Rounds -> [Files -> Stages]]
    BY <1>3 DEF StartRound, TypeOK
  <2>3. pc' \in [Rounds -> PCs] /\ \A t \in Rounds : pc'[t] = "push" => pc[t] = "push"
    BY <1>3 DEF StartRound, TypeOK
  <2>4. overtaken' \in BOOLEAN
    BY <1>3, Zenon DEF StartRound
  <2>5. current' \in Rounds /\ feeding' = TRUE
    BY <1>3 DEF StartRound
  <2>6. UNCHANGED <<bare, latest, onDisk, marked, head, remote, up, mine, base, late, dropped, faults>>
    BY <1>3 DEF StartRound
  <2> QED BY <2>1, <2>2, <2>3, <2>4, <2>5, <2>6, GitAssumption DEF TypeOK, PushesCommits
<1>4. CASE DropState \/ Join
  <2>1. CASE DropState
    BY <2>1 DEF DropState, TypeOK, PushesCommits
  <2>2. CASE Join
    BY <2>2 DEF Join, TypeOK, PushesCommits
  <2> QED BY <1>4, <2>1, <2>2
<1>5. ASSUME NEW r \in Rounds, NEW f \in Files, Send(r, f)
      PROVE  TypeOK' /\ PushesCommits'
  <2>1. stage' \in [Rounds -> [Files -> Stages]]
    BY <1>5, <1>s DEF Send
  <2>2. queue' \in [Rounds -> Seq(Files)]
    <3>1. queue[r] \in Seq(Files) /\ Append(queue[r], f) \in Seq(Files)
      BY AppendProperties DEF TypeOK
    <3>2. queue' \in {queue, [queue EXCEPT ![r] = Append(queue[r], f)]}
      BY <1>5 DEF Send
    <3> QED BY <3>1, <3>2 DEF TypeOK
  <2> QED BY <1>5, <2>1, <2>2 DEF Send, TypeOK, PushesCommits
<1>6. ASSUME NEW r \in Rounds, NEW f \in Files, Write(r, f)
      PROVE  TypeOK' /\ PushesCommits'
  <2>1. stage' \in [Rounds -> [Files -> Stages]]
    BY <1>6, <1>s DEF Write
  <2>2. onDisk' \in Tree
    BY <1>6 DEF Write, TypeOK, Tree
  <2> QED BY <1>6, <2>1, <2>2 DEF Write, TypeOK, PushesCommits
<1>7. ASSUME NEW r \in Rounds, NEW f \in Files, Mark(r, f)
      PROVE  TypeOK' /\ PushesCommits'
  <2>1. stage' \in [Rounds -> [Files -> Stages]]
    BY <1>7, <1>s DEF Mark
  <2>2. marked' \in Tree
    BY <1>7 DEF Mark, TypeOK, Tree
  <2> QED BY <1>7, <2>1, <2>2 DEF Mark, TypeOK, PushesCommits
<1>8. ASSUME NEW r \in Rounds, ReadIndex(r) PROVE TypeOK' /\ PushesCommits'
  <2>1. mine' \in [Rounds -> Tree] /\ base' \in [Rounds -> Tree]
    BY <1>8, <1>e DEF ReadIndex, TypeOK
  <2> QED BY <1>8, <1>p, <2>1 DEF ReadIndex, TypeOK, PushesCommits
<1>9. ASSUME NEW r \in Rounds, Collect(r) PROVE TypeOK' /\ PushesCommits'
  <2>1. Head(queue[r]) \in Files /\ Tail(queue[r]) \in Seq(Files)
    BY <1>9, HeadTailProperties DEF Collect, TypeOK
  <2>2. mine' \in [Rounds -> Tree]
    BY <1>9, <2>1 DEF Collect, TypeOK, Tree
  <2>3. queue' \in [Rounds -> Seq(Files)] /\ dropped' \subseteq Files
    BY <1>9, <2>1 DEF Collect, TypeOK
  <2> QED BY <1>9, <2>2, <2>3 DEF Collect, TypeOK, PushesCommits
<1>10. ASSUME NEW r \in Rounds, Closed(r) \/ WriteTree(r) \/ Compare(r)
       PROVE TypeOK' /\ PushesCommits'
  <2>1. \E s \in PCs \ {"push"} : Go(r, s)
    BY <1>10 DEF Closed, WriteTree, Compare
  <2>2. pc' \in [Rounds -> PCs] /\ \A t \in Rounds : pc'[t] = "push" => pc[t] = "push"
    BY <1>p, <2>1
  <2> QED BY <1>10, <2>2 DEF Closed, WriteTree, Compare, TypeOK, PushesCommits
<1>11. ASSUME NEW r \in Rounds, Commit(r) PROVE TypeOK' /\ PushesCommits'
  <2>1. head' \in Tree /\ head' # Unborn /\ dropped' \subseteq Files
    BY <1>11, GitAssumption DEF Commit, TypeOK, Tree
  <2> QED BY <1>11, <1>p, <2>1 DEF Commit, TypeOK, PushesCommits
<1>12. ASSUME NEW r \in Rounds, Push(r) PROVE TypeOK' /\ PushesCommits'
  <2>1. remote' \in Tree
    BY <1>12 DEF Push, TypeOK, PushesCommits
  <2> QED BY <1>12, <1>p, <2>1 DEF Push, TypeOK, PushesCommits
<1>13. CASE LatePush
  <2>1. remote' \in Tree /\ late' \subseteq Tree
    BY <1>13 DEF LatePush, TypeOK
  <2> QED BY <1>13, <2>1 DEF LatePush, TypeOK, PushesCommits
<1>f. Fault => faults' \in 0..MaxFaults
  BY GitAssumption DEF Fault, TypeOK
<1>14. ASSUME NEW r \in Rounds, PushTakesLong(r) PROVE TypeOK' /\ PushesCommits'
  <2>1. late' \subseteq Tree
    BY <1>14 DEF PushTakesLong, TypeOK, PushesCommits
  <2> QED BY <1>14, <1>f, <1>p, <2>1 DEF PushTakesLong, TypeOK, PushesCommits
<1>15. ASSUME NEW r \in Rounds, GitFails(r) PROVE TypeOK' /\ PushesCommits'
  <2>1. queue' \in [Rounds -> Seq(Files)] /\ dropped' \subseteq Files
    BY <1>15, <1>e DEF GitFails, Held, TypeOK
  <2> QED BY <1>15, <1>f, <1>p, <2>1 DEF GitFails, TypeOK, PushesCommits
<1>16. ASSUME NEW r \in Rounds, NEW f \in Files, ChunkFails(r, f)
       PROVE  TypeOK' /\ PushesCommits'
  <2>1. stage' \in [Rounds -> [Files -> Stages]]
    BY <1>16, <1>s DEF ChunkFails
  <2> QED BY <1>16, <1>f, <2>1 DEF ChunkFails, TypeOK, PushesCommits
<1>17. CASE Abort
  BY <1>17, <1>f DEF Abort, TypeOK, PushesCommits
<1>18. CASE Crash
  <2>1. dropped' \subseteq Files
    BY <1>18 DEF Crash, Held, TypeOK
  <2> QED BY <1>18, <1>e, <1>f, <2>1 DEF Crash, TypeOK, PushesCommits
<1>19. CASE UNCHANGED vars
  BY <1>19 DEF vars, TypeOK, PushesCommits
<1> QED BY <1>1, <1>2, <1>3, <1>4, <1>5, <1>6, <1>7, <1>8, <1>9, <1>10, <1>11, <1>12, <1>13,
           <1>14, <1>15, <1>16, <1>17, <1>18, <1>19
        DEF Next, Generate, Process, Git

LEMMA ReceivedNext == TypeOK /\ Received /\ [Next]_vars => Received'
<1> SUFFICES ASSUME TypeOK, Received, [Next]_vars, NEW s \in Rounds
             PROVE  queue'[s] # <<>> => Receiving(s)'
  BY DEF Received
<1> USE DEF repo, files, round, thread, work
<1>1. CASE UNCHANGED <<pc, queue>>
  BY <1>1 DEF Received, Receiving
<1>2. ASSUME NEW r \in Rounds, StartRound(r) PROVE queue'[s] # <<>> => Receiving(s)'
  BY <1>2 DEF StartRound, Received, Receiving, TypeOK
<1>3. ASSUME NEW r \in Rounds, NEW f \in Files, Process(r, f) \/ ChunkFails(r, f)
      PROVE  queue'[s] # <<>> => Receiving(s)'
  <2>1. pc' = pc /\ (queue'[s] = queue[s] \/ (s = r /\ Receiving(r)))
    BY <1>3 DEF Process, Send, Write, Mark, ChunkFails, TypeOK
  <2> QED BY <2>1 DEF Received, Receiving
<1>4. ASSUME NEW r \in Rounds, Git(r) \/ PushTakesLong(r) \/ GitFails(r)
      PROVE  queue'[s] # <<>> => Receiving(s)'
  <2>g. ASSUME NEW x, Go(r, x) PROVE pc'[r] = x /\ (s # r => pc'[s] = pc[s])
    BY <2>g DEF Go, TypeOK
  <2>1. CASE ReadIndex(r)
    BY <2>g, <2>1 DEF ReadIndex, Received, Receiving
  <2>2. CASE Collect(r)
    BY <2>2 DEF Collect, Received, Receiving, TypeOK
  <2>3. CASE Closed(r)
    BY <2>g, <2>3 DEF Closed, Received, Receiving
  <2>4. CASE WriteTree(r) \/ Compare(r) \/ Commit(r) \/ Push(r) \/ PushTakesLong(r)
    <3>1. pc[r] \notin {"index", "collect"} /\ queue' = queue /\ (s # r => pc'[s] = pc[s])
      <4>1. CASE WriteTree(r)
        BY <2>g, <4>1 DEF WriteTree
      <4>2. CASE Compare(r)
        BY <2>g, <4>2 DEF Compare
      <4>3. CASE Commit(r)
        BY <2>g, <4>3 DEF Commit
      <4>4. CASE Push(r)
        BY <2>g, <4>4 DEF Push
      <4>5. CASE PushTakesLong(r)
        BY <2>g, <4>5 DEF PushTakesLong
      <4> QED BY <2>4, <4>1, <4>2, <4>3, <4>4, <4>5
    <3> QED BY <3>1 DEF Received, Receiving
  <2>5. CASE GitFails(r)
    BY <2>g, <2>5 DEF GitFails, Received, Receiving, TypeOK
  <2> QED BY <1>4, <2>1, <2>2, <2>3, <2>4, <2>5 DEF Git
<1>5. CASE Crash
  BY <1>5 DEF Crash
<1>6. CASE \/ NewReport \/ Network \/ DropState \/ Join \/ LatePush \/ Abort \/ UNCHANGED vars
  BY <1>1, <1>6 DEF NewReport, Network, DropState, Join, LatePush, Abort, vars
<1> QED BY <1>2, <1>3, <1>4, <1>5, <1>6 DEF Next, Generate

-----------------------------------------------------------------------------
\* Only the start of a round brings a thread to life, and it knows of others.
LEMMA Fade ==
    ASSUME TypeOK, [Next]_vars, NEW r \in Rounds, Alive(r)', ~StartRound(r)
    PROVE  Alive(r)
<1> USE DEF repo, files, round, thread, work
<1>1. ASSUME pc'[r] = pc[r], stage'[r] = stage[r] PROVE Alive(r)
  BY <1>1 DEF Alive, Written
<1>2. ASSUME NEW s \in Rounds, StartRound(s) PROVE Alive(r)
  <2>1. s # r
    BY <1>2
  <2> QED BY <1>1, <1>2, <2>1 DEF StartRound, TypeOK
<1>3. ASSUME NEW s \in Rounds, NEW f \in Files, Process(s, f) \/ ChunkFails(s, f)
      PROVE Alive(r)
  <2>1. pc' = pc /\ stage[s][f] # "done" /\ (s # r => stage'[r] = stage[r])
    BY <1>3 DEF Process, Send, Write, Mark, ChunkFails, Move, TypeOK
  <2>2. CASE s = r
    BY <2>1, <2>2 DEF Alive, Written
  <2> QED BY <1>1, <2>1, <2>2
<1>4. ASSUME NEW s \in Rounds, Git(s) \/ PushTakesLong(s) \/ GitFails(s)
      PROVE  Alive(r)
  <2>1. stage' = stage /\ pc[s] \notin {"off", "gone"} /\ (s # r => pc'[r] = pc[r])
    <3>1. ASSUME NEW x, Go(s, x), s # r PROVE pc'[r] = pc[r]
      BY <3>1 DEF Go, TypeOK
    <3>2. CASE ReadIndex(s) \/ Collect(s) \/ Closed(s) \/ WriteTree(s)
      BY <3>1, <3>2 DEF ReadIndex, Collect, Closed, WriteTree
    <3>3. CASE Compare(s)
      BY <3>1, <3>3 DEF Compare
    <3>4. CASE Commit(s) \/ Push(s)
      BY <3>1, <3>4 DEF Commit, Push
    <3>5. CASE PushTakesLong(s) \/ GitFails(s)
      BY <3>1, <3>5 DEF PushTakesLong, GitFails
    <3> QED BY <1>4, <3>2, <3>3, <3>4, <3>5 DEF Git
  <2>2. CASE s = r
    BY <2>1, <2>2 DEF Alive
  <2> QED BY <1>1, <2>1, <2>2
<1>5. CASE Crash
  BY <1>5 DEF Crash, Alive, Written
<1>6. CASE \/ NewReport \/ Network \/ DropState \/ Join \/ LatePush \/ Abort \/ UNCHANGED vars
  BY <1>1, <1>6 DEF NewReport, Network, DropState, Join, LatePush, Abort, vars
<1> QED BY <1>2, <1>3, <1>4, <1>5, <1>6 DEF Next, Generate

\* What was overtaken or dropped stays so; the repository is what it is.
LEMMA FlagsStay ==
    ASSUME TypeOK, [Next]_vars
    PROVE  (overtaken => overtaken') /\ dropped \subseteq dropped' /\ bare' = bare
<1> USE DEF repo, files, round, thread, work
<1>1. ASSUME NEW r \in Rounds, StartRound(r)
      PROVE  (overtaken => overtaken') /\ dropped \subseteq dropped' /\ bare' = bare
  BY <1>1 DEF StartRound
<1>2. ASSUME NEW r \in Rounds, NEW f \in Files, Process(r, f) \/ ChunkFails(r, f)
      PROVE UNCHANGED <<overtaken, dropped, bare>>
  BY <1>2 DEF Process, Send, Write, Mark, ChunkFails
<1>3. ASSUME NEW r \in Rounds, Git(r) \/ PushTakesLong(r) \/ GitFails(r)
      PROVE  UNCHANGED <<overtaken, bare>> /\ dropped \subseteq dropped'
  BY <1>3 DEF Git, ReadIndex, Collect, Closed, WriteTree, Compare, Commit, Push,
              PushTakesLong, GitFails
<1>4. CASE Crash
  BY <1>4 DEF Crash
<1>5. CASE \/ NewReport \/ Network \/ DropState \/ Join \/ LatePush \/ Abort \/ UNCHANGED vars
  BY <1>5 DEF NewReport, Network, DropState, Join, LatePush, Abort, vars
<1> QED BY <1>1, <1>2, <1>3, <1>4, <1>5 DEF Next, Generate

\* A round that starts and overtakes nobody is alone.
LEMMA StartsAlone ==
    ASSUME TypeOK, NEW r \in Rounds, StartRound(r), ~overtaken'
    PROVE  ~overtaken /\ \A s \in Rounds : ~Alive(s)
BY DEF StartRound

LEMMA AloneNext ==
    ASSUME TypeOK, Alone, [Next]_vars, ~overtaken'
    PROVE  Alone'
<1> USE DEF repo, files, round, thread, work
<1>1. ASSUME NEW r \in Rounds, StartRound(r) PROVE Alone'
  <2>1. \A s \in Rounds : ~Alive(s)
    BY <1>1, StartsAlone
  <2>2. \A s \in Rounds : Alive(s)' => s = r
    <3>1. \A s \in Rounds \ {r} : pc'[s] = pc[s] /\ stage'[s] = stage[s]
      BY <1>1 DEF StartRound, TypeOK
    <3> QED BY <2>1, <3>1 DEF Alive, Written
  <2> QED BY <2>2 DEF Alone
<1>2. CASE \A r \in Rounds : ~StartRound(r)
  <2>1. \A r \in Rounds : Alive(r)' => Alive(r)
    BY <1>2, Fade
  <2> QED BY <2>1 DEF Alone
<1> QED BY <1>1, <1>2

\* Steps of processors are those of the only round.
LEMMA OthersRest ==
    ASSUME TypeOK, Alone, NEW r \in Rounds, Alive(r), NEW s \in Rounds, s # r
    PROVE  pc[s] \in {"off", "gone"} /\ Written(s)
BY DEF Alone, Alive

LEMMA WrittenFirstNext ==
    ASSUME TypeOK, Alone, WrittenFirst, [Next]_vars, ~overtaken'
    PROVE  WrittenFirst'
<1> USE DEF repo, files, round, thread, work
<1>t. \A f \in Files : /\ marked[f] \in Nat /\ onDisk[f] \in Nat /\ latest[f] \in Nat
                      /\ \A r \in Rounds : batch[r][f] \in Nat
  BY DEF TypeOK, Tree
<1>1. ASSUME NEW r \in Rounds, StartRound(r) PROVE WrittenFirst'
  <2>1. \A s \in Rounds \ {r} : \A f \in Files : stage'[s][f] = "done"
    <3>1. \A s \in Rounds \ {r} : stage'[s] = stage[s] /\ Written(s)
      BY <1>1, StartsAlone DEF StartRound, Alive, TypeOK
    <3> QED BY <3>1 DEF Written
  <2>2. /\ batch'[r] = latest
        /\ \A f \in Files : stage'[r][f] = IF latest[f] > marked[f] THEN "todo" ELSE "done"
    BY <1>1 DEF StartRound, TypeOK
  <2>3. UNCHANGED <<bare, onDisk, marked>>
    BY <1>1 DEF StartRound
  <2> QED BY <1>t, <2>1, <2>2, <2>3 DEF WrittenFirst, AtMost
<1>2. ASSUME UNCHANGED <<bare, onDisk, marked, batch>>,
             \A s \in Rounds : \A f \in Files : stage'[s][f] \in {stage[s][f], "done"}
      PROVE  WrittenFirst'
  BY <1>2 DEF WrittenFirst, AtMost
<1>3. ASSUME NEW r \in Rounds, NEW f \in Files, Process(r, f) PROVE WrittenFirst'
  <2>1. stage[r][f] # "done" /\ marked[f] < batch[r][f]
    BY <1>3 DEF Process, Send, Write, Mark, WrittenFirst
  <2>2. \A s \in Rounds \ {r} : \A g \in Files : stage[s][g] = "done"
    BY <2>1, OthersRest DEF Alive, Written
  <2>3. ASSUME NEW x, Move(r, f, x)
        PROVE  /\ stage'[r][f] = x
               /\ \A g \in Files \ {f} : stage'[r][g] = stage[r][g]
               /\ \A s \in Rounds \ {r} : \A g \in Files : stage'[s][g] = "done"
    BY <2>2, <2>3 DEF Move, TypeOK
  <2>4. CASE Send(r, f)
    <3>1. Move(r, f, "sent") \/ Move(r, f, "done")
      BY <2>4 DEF Send
    <3>2. UNCHANGED <<bare, onDisk, marked, batch>>
      BY <2>4 DEF Send
    <3> QED BY <2>1, <2>3, <3>1, <3>2 DEF WrittenFirst, AtMost
  <2>5. CASE Write(r, f)
    <3>1. Move(r, f, "written") /\ UNCHANGED <<bare, marked, batch>>
      BY <2>5 DEF Write
    <3>2. /\ ~bare => onDisk'[f] = batch[r][f]
          /\ \A g \in Files \ {f} : onDisk'[g] = onDisk[g]
      BY <2>5 DEF Write, TypeOK, Tree
    <3>3. ~bare => AtMost(marked, onDisk')
      BY <1>t, <2>1, <3>2 DEF WrittenFirst, AtMost
    <3>4. \A s \in Rounds : \A g \in Files :
            /\ stage'[s][g] # "done" => marked[g] < batch[s][g]
            /\ ~bare /\ stage'[s][g] = "written" => batch[s][g] <= onDisk'[g]
      BY <1>t, <2>1, <2>3, <3>1, <3>2 DEF WrittenFirst
    <3> QED BY <3>1, <3>3, <3>4 DEF WrittenFirst, AtMost
  <2>6. CASE Mark(r, f)
    <3>1. Move(r, f, "done") /\ UNCHANGED <<bare, onDisk, batch>>
      BY <2>6 DEF Mark
    <3>2. /\ marked'[f] = batch[r][f]
          /\ \A g \in Files \ {f} : marked'[g] = marked[g]
      BY <2>1, <2>6 DEF Mark, TypeOK, Tree
    <3>3. ~bare => AtMost(marked', onDisk)
      BY <2>6, <3>2 DEF Mark, WrittenFirst, AtMost
    <3>4. \A s \in Rounds : \A g \in Files :
            /\ stage'[s][g] # "done" => marked'[g] < batch[s][g]
            /\ ~bare /\ stage'[s][g] = "written" => batch[s][g] <= onDisk[g]
      BY <2>3, <3>1, <3>2 DEF WrittenFirst
    <3> QED BY <3>1, <3>3, <3>4 DEF WrittenFirst, AtMost
  <2> QED BY <1>3, <2>4, <2>5, <2>6 DEF Process
<1>4. ASSUME NEW r \in Rounds, NEW f \in Files, ChunkFails(r, f) PROVE WrittenFirst'
  <2>1. \A s \in Rounds : \A g \in Files : stage'[s][g] \in {stage[s][g], "done"}
    BY <1>4 DEF ChunkFails, Move, TypeOK
  <2> QED BY <1>2, <1>4, <2>1 DEF ChunkFails
<1>5. ASSUME NEW r \in Rounds, Git(r) \/ PushTakesLong(r) \/ GitFails(r) PROVE WrittenFirst'
  BY <1>2, <1>5 DEF Git, ReadIndex, Collect, Closed, WriteTree, Compare, Commit, Push,
                    PushTakesLong, GitFails
<1>6. CASE \/ NewReport \/ Network \/ DropState \/ Join \/ LatePush \/ Abort \/ UNCHANGED vars
  BY <1>2, <1>6 DEF NewReport, Network, DropState, Join, LatePush, Abort, vars
<1>7. CASE Crash
  BY <1>2, <1>7 DEF Crash
<1> QED BY <1>1, <1>3, <1>4, <1>5, <1>6, <1>7 DEF Next, Generate

\* Queues: what is sent is queued, and what is queued is at the head or behind it.
LEMMA QueuedBySend ==
    ASSUME NEW q \in Seq(Files), NEW f \in Files
    PROVE  /\ \E i \in 1..Len(Append(q, f)) : Append(q, f)[i] = f
           /\ \A g \in Files : (\E i \in 1..Len(q) : q[i] = g)
                  => \E i \in 1..Len(Append(q, f)) : Append(q, f)[i] = g
<1>1. /\ Len(q) \in Nat /\ Len(Append(q, f)) = Len(q) + 1
      /\ \A i \in 1..Len(q) : Append(q, f)[i] = q[i]
      /\ Append(q, f)[Len(q) + 1] = f
  BY AppendProperties, LenProperties
<1>2. Len(q) + 1 \in 1..Len(Append(q, f)) /\ \A i \in 1..Len(q) : i \in 1..Len(Append(q, f))
  BY <1>1
<1> QED BY <1>1, <1>2

LEMMA QueuedBehind ==
    ASSUME NEW q \in Seq(Files), q # <<>>, NEW g \in Files, g # Head(q),
           \E i \in 1..Len(q) : q[i] = g
    PROVE  \E i \in 1..Len(Tail(q)) : Tail(q)[i] = g
<1>1. PICK i \in 1..Len(q) : q[i] = g
  OBVIOUS
<1>2. /\ Len(q) \in Nat /\ Len(Tail(q)) = Len(q) - 1 /\ Head(q) = q[1]
      /\ \A j \in 1..Len(Tail(q)) : Tail(q)[j] = q[j + 1]
  BY HeadTailProperties, LenProperties
<1>3. i # 1
  BY <1>1, <1>2
<1>4. i - 1 \in 1..Len(Tail(q)) /\ (i - 1) + 1 = i
  BY <1>2, <1>3
<1> QED BY <1>1, <1>2, <1>4

-----------------------------------------------------------------------------
LEMMA Numbers ==
    ASSUME TypeOK
    PROVE  /\ HeadTree \in Tree
           /\ \A f \in Files :
                 /\ marked[f] \in Nat /\ HeadTree[f] \in Nat /\ remote[f] \in Nat
                 /\ \A t \in late : t[f] \in Nat
                 /\ \A r \in Rounds : batch[r][f] \in Nat /\ mine[r][f] \in Nat /\ base[r][f] \in Nat
<1>1. HeadTree \in Tree
  BY DEF TypeOK, Tree, HeadTree, Empty
<1> QED BY <1>1 DEF TypeOK, Tree

\* A commit and what it does to HEAD.
LEMMA Commits ==
    ASSUME TypeOK, NEW r \in Rounds, Commit(r)
    PROVE  /\ pc[r] = "commit" /\ HeadTree' = mine[r] /\ head' = mine[r]
           /\ \A f \in Files \ dropped' : f \notin dropped /\ HeadTree[f] = base[r][f]
           /\ pc'[r] = "push" /\ \A s \in Rounds \ {r} : pc'[s] = pc[s]
           /\ UNCHANGED <<bare, marked, remote, mine, base, queue, batch, stage, late>>
<1>1. pc[r] = "commit" /\ head' = mine[r] /\ mine[r] \in Tree
  BY DEF Commit, TypeOK
<1>2. HeadTree' = mine[r]
  BY <1>1, GitAssumption DEF HeadTree, Tree
<1>3. \A f \in Files \ dropped' : f \notin dropped /\ HeadTree[f] = base[r][f]
  BY DEF Commit
<1> QED BY <1>1, <1>2, <1>3 DEF Commit, Go, TypeOK, files, round, thread, work

\* No other step moves HEAD.
LEMMA OnlyCommits ==
    ASSUME TypeOK, [Next]_vars, \A r \in Rounds : ~Commit(r)
    PROVE  head' = head
<1> USE DEF repo, files, round, thread, work
<1>1. ASSUME NEW r \in Rounds, NEW f \in Files, Process(r, f) \/ ChunkFails(r, f) PROVE head' = head
  BY <1>1 DEF Process, Send, Write, Mark, ChunkFails
<1>2. ASSUME NEW r \in Rounds, Git(r) \/ PushTakesLong(r) \/ GitFails(r) PROVE head' = head
  BY <1>2 DEF Git, ReadIndex, Collect, Closed, WriteTree, Compare, Push, PushTakesLong, GitFails
<1>3. ASSUME NEW r \in Rounds, StartRound(r) PROVE head' = head
  BY <1>3 DEF StartRound
<1>4. CASE \/ NewReport \/ Network \/ DropState \/ Join \/ LatePush \/ Abort \/ Crash \/ UNCHANGED vars
  BY <1>4 DEF NewReport, Network, DropState, Join, LatePush, Abort, Crash, vars
<1> QED BY <1>1, <1>2, <1>3, <1>4 DEF Next, Generate

LEMMA HeadGrows ==
    ASSUME TypeOK, InHand, [Next]_vars, NEW f \in Files \ dropped'
    PROVE  f \notin dropped /\ HeadTree[f] <= HeadTree'[f] /\ HeadTree'[f] \in Nat
<1>1. f \notin dropped
  BY FlagsStay
<1>2. ASSUME NEW r \in Rounds, Commit(r) PROVE HeadTree[f] <= HeadTree'[f] /\ HeadTree'[f] \in Nat
  <2>1. HeadTree' = mine[r] /\ HeadTree[f] = base[r][f] /\ Working(r)
    BY <1>2, Commits DEF Working
  <2> QED BY <1>1, <2>1, Numbers DEF InHand
<1>3. CASE \A r \in Rounds : ~Commit(r)
  <2>1. HeadTree' = HeadTree
    BY <1>3, OnlyCommits DEF HeadTree
  <2>2. HeadTree[f] \in Nat
    BY Numbers
  <2> QED BY <1>1, <2>1, <2>2
<1> QED BY <1>1, <1>2, <1>3

\* What is kept stays so.
LEMMA KeptNext ==
    ASSUME TypeOK, Received, InHand, [Next]_vars, bare,
           NEW f \in Files \ dropped', NEW v \in Nat, Kept(f, v)
    PROVE  Kept(f, v)'
<1> USE DEF repo, files, round, thread, work
<1>h. f \notin dropped /\ HeadTree[f] <= HeadTree'[f] /\ HeadTree'[f] \in Nat /\ HeadTree[f] \in Nat
  BY HeadGrows, Numbers
<1>0. CASE v <= HeadTree[f]
  BY <1>h, <1>0 DEF Kept
<1>k. ASSUME NEW r \in Rounds, Has(r, f, v), Has(r, f, v)' \/ v <= HeadTree'[f] PROVE Kept(f, v)'
  BY <1>k DEF Kept
<1> SUFFICES ASSUME NEW r \in Rounds, Has(r, f, v) PROVE Has(r, f, v)' \/ v <= HeadTree'[f]
  BY <1>0, <1>k DEF Kept
<1>1. CASE UNCHANGED <<pc, queue, batch, mine>>
  BY <1>1 DEF Has, Queued, Working
<1>2. ASSUME NEW s \in Rounds, StartRound(s) PROVE Has(r, f, v)'
  <2>1. pc[s] \in {"off", "gone"} /\ queue[s] = <<>>
    BY <1>2 DEF StartRound, Alive, Received, Receiving
  <2>2. ~Queued(s, f) /\ ~Working(s)
    BY <2>1 DEF Queued, Working
  <2>3. r # s
    BY <2>2 DEF Has
  <2> QED BY <1>2, <2>3 DEF StartRound, Has, Queued, Working, TypeOK
<1>3. ASSUME NEW s \in Rounds, NEW g \in Files, Send(s, g) PROVE Has(r, f, v)'
  <2>1. UNCHANGED <<pc, batch, mine>>
    BY <1>3 DEF Send
  <2>2. Queued(r, f) => Queued(r, f)'
    <3>1. queue'[r] \in {queue[r], Append(queue[r], g)} /\ queue[r] \in Seq(Files)
      BY <1>3 DEF Send, TypeOK
    <3>2. CASE queue'[r] = queue[r]
      BY <3>2 DEF Queued
    <3>3. CASE queue'[r] = Append(queue[r], g)
      <4>1. ASSUME \E i \in 1..Len(queue[r]) : queue[r][i] = f
            PROVE  \E i \in 1..Len(queue'[r]) : queue'[r][i] = f
        BY <3>1, <3>3, <4>1, QueuedBySend
      <4> QED BY <4>1 DEF Queued
    <3> QED BY <3>1, <3>2, <3>3
  <2> QED BY <2>1, <2>2 DEF Has, Working
<1>g. ASSUME NEW s \in Rounds, NEW x, Go(s, x)
      PROVE  pc'[s] = x /\ \A t \in Rounds \ {s} : pc'[t] = pc[t]
  BY <1>g DEF Go, TypeOK
<1>4. ASSUME NEW s \in Rounds, ReadIndex(s) PROVE Has(r, f, v)'
  <2>1. /\ UNCHANGED <<queue, batch>> /\ pc[s] = "index" /\ pc'[s] = "collect"
        /\ \A t \in Rounds \ {s} : pc'[t] = pc[t] /\ mine'[t] = mine[t]
    BY <1>4, <1>g DEF ReadIndex, TypeOK
  <2> QED BY <2>1 DEF Has, Queued, Working
<1>5. ASSUME NEW s \in Rounds, Collect(s) PROVE Has(r, f, v)'
  <2>0. PICK h : h = Head(queue[s])
    OBVIOUS
  <2>1. /\ UNCHANGED <<pc, batch>> /\ pc[s] = "collect"
        /\ queue[s] # <<>> /\ queue[s] \in Seq(Files)
        /\ mine' = [mine EXCEPT ![s][h] = batch[s][h]]
        /\ queue' = [queue EXCEPT ![s] = Tail(queue[s])]
        /\ batch[s][h] < mine[s][h] => h \in dropped'
    BY <1>5, <2>0 DEF Collect, TypeOK
  <2>2. /\ queue'[s] = Tail(queue[s]) /\ mine'[s] = [mine[s] EXCEPT ![h] = batch[s][h]]
        /\ \A t \in Rounds \ {s} : queue'[t] = queue[t] /\ mine'[t] = mine[t]
    BY <2>1 DEF TypeOK
  <2>3. CASE r # s
    BY <2>1, <2>2, <2>3 DEF Has, Queued, Working
  <2>4. CASE r = s /\ f = h
    <3>1. mine'[s][f] = batch[s][f] /\ ~(batch[s][f] < mine[s][f])
      BY <2>1, <2>2, <2>4 DEF TypeOK, Tree
    <3>2. v <= batch[s][f] \/ v <= mine[s][f]
      BY <2>4 DEF Has
    <3>3. v <= mine'[s][f]
      BY <3>1, <3>2, Numbers
    <3> QED BY <2>1, <2>4, <3>3 DEF Has, Working
  <2>5. CASE r = s /\ f # h
    <3>1. mine'[s][f] = mine[s][f]
      BY <2>2, <2>5 DEF TypeOK, Tree
    <3>2. Queued(s, f) => Queued(s, f)'
      BY <2>0, <2>1, <2>2, <2>5, QueuedBehind DEF Queued
    <3> QED BY <2>1, <2>5, <3>1, <3>2 DEF Has, Working
  <2> QED BY <2>3, <2>4, <2>5
<1>6. ASSUME NEW s \in Rounds, Closed(s) \/ WriteTree(s) PROVE Has(r, f, v)'
  <2>1. /\ UNCHANGED <<queue, batch, mine>> /\ pc'[s] \in {"tree", "compare"}
        /\ \A t \in Rounds \ {s} : pc'[t] = pc[t]
    BY <1>6, <1>g DEF Closed, WriteTree
  <2> QED BY <2>1 DEF Has, Queued, Working
<1>7. ASSUME NEW s \in Rounds, Compare(s) PROVE Has(r, f, v)' \/ v <= HeadTree'[f]
  <2>1. UNCHANGED <<queue, batch, mine, head>> /\ pc[s] = "compare" /\ queue[s] = <<>>
    BY <1>7 DEF Compare, Received, Receiving
  <2>2. pc'[s] = "commit" \/ (pc'[s] = "gone" /\ head = mine[s])
    BY <1>7, <1>g DEF Compare
  <2>3. \A t \in Rounds \ {s} : pc'[t] = pc[t]
    BY <1>7, <1>g DEF Compare
  <2>4. CASE r # s \/ pc'[s] = "commit"
    BY <2>1, <2>3, <2>4 DEF Has, Queued, Working
  <2>5. CASE r = s /\ head = mine[s]
    <3>1. HeadTree' = mine[s]
      BY <2>1, <2>5, GitAssumption DEF HeadTree, TypeOK, Tree
    <3>2. ~Queued(s, f)
      BY <2>1 DEF Queued
    <3> QED BY <2>5, <3>1, <3>2 DEF Has
  <2> QED BY <2>2, <2>4, <2>5
<1>8. ASSUME NEW s \in Rounds, Commit(s) PROVE Has(r, f, v)' \/ v <= HeadTree'[f]
  <2>1. queue[s] = <<>>
    BY <1>8, Commits DEF Received, Receiving
  <2>2. ~Queued(s, f)
    BY <2>1 DEF Queued
  <2>3. CASE r # s
    BY <1>8, <2>3, Commits DEF Has, Queued, Working
  <2>4. CASE r = s
    BY <1>8, <2>2, <2>4, Commits DEF Has
  <2> QED BY <2>3, <2>4
<1>9. ASSUME NEW s \in Rounds, Push(s) \/ PushTakesLong(s) PROVE Has(r, f, v)'
  <2>1. /\ UNCHANGED <<queue, batch, mine>> /\ pc[s] = "push"
        /\ \A t \in Rounds \ {s} : pc'[t] = pc[t]
    BY <1>9, <1>g DEF Push, PushTakesLong
  <2>2. CASE r # s
    BY <2>1, <2>2 DEF Has, Queued, Working
  <2>3. CASE r = s
    BY <2>1, <2>3 DEF Has, Queued, Working, Received, Receiving
  <2> QED BY <2>2, <2>3
<1>d. ASSUME f \notin Held(r) PROVE v <= HeadTree'[f]
  <2>1. ~Queued(r, f) /\ (Working(r) => mine[r][f] = HeadTree[f])
    BY <1>d DEF Held, Queued, Working
  <2> QED BY <1>h, <2>1 DEF Has
<1>10. ASSUME NEW s \in Rounds, GitFails(s) PROVE Has(r, f, v)' \/ v <= HeadTree'[f]
  <2>1. /\ UNCHANGED <<batch, mine>> /\ dropped' = dropped \cup Held(s)
        /\ \A t \in Rounds \ {s} : pc'[t] = pc[t] /\ queue'[t] = queue[t]
    BY <1>10, <1>g DEF GitFails, TypeOK
  <2>2. CASE r = s
    BY <1>d, <2>1, <2>2
  <2>3. CASE r # s
    BY <2>1, <2>3 DEF Has, Queued, Working
  <2> QED BY <2>2, <2>3
<1>11. CASE Crash
  <2>1. f \notin Held(r)
    BY <1>11 DEF Crash
  <2> QED BY <1>d, <2>1
<1>12. ASSUME \/ NewReport \/ Network \/ DropState \/ Join \/ LatePush \/ Abort \/ UNCHANGED vars
              \/ \E s \in Rounds, g \in Files : Write(s, g) \/ Mark(s, g) \/ ChunkFails(s, g)
       PROVE  UNCHANGED <<pc, queue, batch, mine>>
  BY <1>12 DEF NewReport, Network, DropState, Join, LatePush, Abort, Write, Mark, ChunkFails, vars
<1> QED BY <1>1, <1>2, <1>3, <1>4, <1>5, <1>6, <1>7, <1>8, <1>9, <1>10, <1>11, <1>12
        DEF Next, Generate, Process, Git

\* What is marked was kept before, and what is sent is.
LEMMA StoredNext ==
    ASSUME TypeOK, Received, InHand, [Next]_vars, bare, NEW f \in Files \ dropped'
    PROVE  /\ Kept(f, marked[f])' 
           /\ \A r \in Rounds : stage'[r][f] \in {"sent", "written"} => Kept(f, batch[r][f])'
<1> USE DEF repo, files, round, thread, work
<1>f. f \in Files \ dropped
  BY FlagsStay
<1>m. ASSUME NEW v \in Nat, Kept(f, v), marked'[f] = v PROVE Kept(f, marked[f])'
  <2>1. Kept(f, v)'
    BY <1>m, KeptNext
  <2> QED BY <1>m, <2>1 DEF Kept, Has, Queued, Working
<1>b. ASSUME NEW r \in Rounds, NEW v \in Nat, Kept(f, v), batch'[r][f] = v
      PROVE  Kept(f, batch[r][f])'
  <2>1. Kept(f, v)'
    BY <1>b, KeptNext
  <2> QED BY <1>b, <2>1 DEF Kept, Has, Queued, Working
<1>k. ASSUME marked'[f] = marked[f], UNCHANGED batch,
             \A r \in Rounds : stage'[r][f] \in {"sent", "written"} => stage[r][f] \in {"sent", "written"}
      PROVE  /\ Kept(f, marked[f])'
             /\ \A r \in Rounds : stage'[r][f] \in {"sent", "written"} => Kept(f, batch[r][f])'
  <2>1. Kept(f, marked[f])'
    BY <1>f, <1>k, <1>m, Numbers DEF InHand
  <2>2. ASSUME NEW r \in Rounds, stage'[r][f] \in {"sent", "written"} PROVE Kept(f, batch[r][f])'
    <3>1. Kept(f, batch[r][f])
      BY <1>f, <1>k, <2>2 DEF InHand
    <3> QED BY <1>b, <1>k, <3>1, Numbers
  <2> QED BY <2>1, <2>2
<1>s. ASSUME NEW r \in Rounds, NEW g \in Files, NEW x, Move(r, g, x)
      PROVE  /\ stage'[r][g] = x
             /\ \A s \in Rounds : s # r \/ f # g => stage'[s][f] = stage[s][f]
  BY <1>s DEF Move, TypeOK
<1>1. ASSUME NEW r \in Rounds, StartRound(r)
      PROVE  /\ Kept(f, marked[f])'
             /\ \A s \in Rounds : stage'[s][f] \in {"sent", "written"} => Kept(f, batch[s][f])'
  <2>1. /\ marked' = marked /\ stage'[r][f] \in {"todo", "done"}
        /\ \A s \in Rounds \ {r} : stage'[s] = stage[s] /\ batch'[s] = batch[s]
    BY <1>1 DEF StartRound, TypeOK
  <2>2. Kept(f, marked[f])'
    BY <1>f, <1>m, <2>1, Numbers DEF InHand
  <2>3. ASSUME NEW s \in Rounds, stage'[s][f] \in {"sent", "written"} PROVE Kept(f, batch[s][f])'
    <3>1. s # r /\ Kept(f, batch[s][f])
      BY <1>f, <2>1, <2>3 DEF InHand
    <3> QED BY <1>b, <2>1, <3>1, Numbers
  <2> QED BY <2>2, <2>3
<1>2. ASSUME NEW r \in Rounds, NEW g \in Files, Send(r, g)
      PROVE  /\ Kept(f, marked[f])'
             /\ \A s \in Rounds : stage'[s][f] \in {"sent", "written"} => Kept(f, batch[s][f])'
  <2>1. UNCHANGED <<marked, batch>>
    BY <1>2 DEF Send
  <2>2. CASE ~(Receiving(r) /\ f = g)
    <3>1. \A s \in Rounds : stage'[s][f] \in {stage[s][f], "done"}
      BY <1>2, <1>s, <2>2 DEF Send
    <3> QED BY <1>k, <2>1, <3>1
  <2>3. CASE Receiving(r) /\ f = g
    <3>1. Move(r, f, "sent") /\ queue'[r] = Append(queue[r], f) /\ queue[r] \in Seq(Files)
      BY <1>2, <2>3 DEF Send, TypeOK
    <3>2. Queued(r, f)'
      BY <3>1, QueuedBySend DEF Queued
    <3>3. batch[r][f] \in Nat
      BY Numbers
    <3>4. Kept(f, batch[r][f])'
      BY <2>1, <3>2, <3>3 DEF Kept, Has
    <3>5. ASSUME NEW s \in Rounds \ {r}, stage'[s][f] \in {"sent", "written"}
          PROVE  Kept(f, batch[s][f])'
      <4>1. Kept(f, batch[s][f])
        BY <1>f, <1>s, <3>1, <3>5 DEF InHand
      <4> QED BY <1>b, <2>1, <4>1, Numbers
    <3>6. Kept(f, marked[f])'
      BY <1>f, <1>m, <2>1, Numbers DEF InHand
    <3> QED BY <3>4, <3>5, <3>6
  <2> QED BY <2>2, <2>3
<1>3. ASSUME NEW r \in Rounds, NEW g \in Files, Write(r, g) \/ ChunkFails(r, g)
      PROVE  /\ UNCHANGED <<marked, batch>>
             /\ \A s \in Rounds : stage'[s][f] \in {"sent", "written"} => stage[s][f] \in {"sent", "written"}
  BY <1>3, <1>s DEF Write, ChunkFails
<1>4. ASSUME NEW r \in Rounds, NEW g \in Files, Mark(r, g)
      PROVE  /\ Kept(f, marked[f])'
             /\ \A s \in Rounds : stage'[s][f] \in {"sent", "written"} => Kept(f, batch[s][f])'
  <2>1. /\ UNCHANGED batch /\ stage[r][g] = "written"
        /\ \A s \in Rounds : stage'[s][f] \in {stage[s][f], "done"}
    BY <1>4, <1>s DEF Mark
  <2>2. marked'[f] = marked[f] \/ (f = g /\ marked'[f] = batch[r][f])
    BY <1>4 DEF Mark, TypeOK, Tree
  <2>3. CASE marked'[f] = marked[f]
    BY <1>k, <2>1, <2>3
  <2>4. CASE f = g /\ marked'[f] = batch[r][f]
    <3>1. Kept(f, batch[r][f])
      BY <1>f, <2>1, <2>4 DEF InHand
    <3>2. Kept(f, marked[f])'
      BY <1>m, <2>4, <3>1, Numbers
    <3>3. ASSUME NEW s \in Rounds, stage'[s][f] \in {"sent", "written"} PROVE Kept(f, batch[s][f])'
      <4>1. Kept(f, batch[s][f])
        BY <1>f, <2>1, <3>3 DEF InHand
      <4> QED BY <1>b, <2>1, <4>1, Numbers
    <3> QED BY <3>2, <3>3
  <2> QED BY <2>2, <2>3, <2>4
<1>5. ASSUME NEW r \in Rounds, Git(r) \/ PushTakesLong(r) \/ GitFails(r)
      PROVE  UNCHANGED <<marked, batch, stage>>
  BY <1>5 DEF Git, ReadIndex, Collect, Closed, WriteTree, Compare, Commit, Push,
              PushTakesLong, GitFails
<1>6. CASE Crash
  <2>1. UNCHANGED <<marked, batch>> /\ \A r \in Rounds : stage'[r][f] = "done"
    BY <1>6 DEF Crash
  <2> QED BY <1>k, <2>1
<1>7. ASSUME \/ NewReport \/ Network \/ DropState \/ Join \/ LatePush \/ Abort \/ UNCHANGED vars
      PROVE  UNCHANGED <<marked, batch, stage>>
  BY <1>7 DEF NewReport, Network, DropState, Join, LatePush, Abort, vars
<1> QED BY <1>k, <1>1, <1>2, <1>3, <1>4, <1>5, <1>6, <1>7 DEF Next, Generate, Process

LEMMA InHandNext ==
    ASSUME TypeOK, PushesCommits, Received, InHand, [Next]_vars, bare
    PROVE  InHand'
<1> USE DEF repo, files, round, thread, work
<1> SUFFICES ASSUME NEW f \in Files \ dropped'
             PROVE  /\ remote'[f] <= HeadTree'[f] /\ \A t \in late' : t[f] <= HeadTree'[f]
                    /\ \A r \in Rounds : Working(r)' => base'[r][f] <= mine'[r][f]
  BY StoredNext DEF InHand
<1>f. f \in Files \ dropped
  BY FlagsStay
<1>h. HeadTree[f] <= HeadTree'[f] /\ HeadTree'[f] \in Nat /\ HeadTree[f] \in Nat
  BY HeadGrows, Numbers
<1>r. /\ remote[f] <= HeadTree'[f] /\ \A t \in late : t[f] <= HeadTree'[f]
      /\ head # Unborn => head[f] <= HeadTree'[f]
  <2>1. remote[f] <= HeadTree[f] /\ \A t \in late : t[f] <= HeadTree[f]
    BY <1>f DEF InHand
  <2>2. head # Unborn => head = HeadTree
    BY DEF HeadTree
  <2> QED BY <1>h, <2>1, <2>2, Numbers
<1>1. remote'[f] <= HeadTree'[f] /\ \A t \in late' : t[f] <= HeadTree'[f]
  <2>1. ASSUME NEW r \in Rounds, Push(r) PROVE remote' \in {head, remote} /\ head # Unborn /\ late' = late
    BY <2>1 DEF Push, PushesCommits
  <2>2. ASSUME NEW r \in Rounds, PushTakesLong(r)
        PROVE  remote' = remote /\ head # Unborn /\ late' = late \cup {head}
    BY <2>2 DEF PushTakesLong, PushesCommits
  <2>3. ASSUME LatePush PROVE late' \subseteq late /\ (remote' = remote \/ remote' \in late)
    BY <2>3 DEF LatePush
  <2>4. ASSUME NEW r \in Rounds, NEW g \in Files, Process(r, g) \/ ChunkFails(r, g)
        PROVE  UNCHANGED <<remote, late>>
    BY <2>4 DEF Process, Send, Write, Mark, ChunkFails
  <2>5. ASSUME NEW r \in Rounds, Git(r) \/ GitFails(r), ~Push(r)
        PROVE  UNCHANGED <<remote, late>>
    BY <2>5 DEF Git, ReadIndex, Collect, Closed, WriteTree, Compare, Commit, GitFails
  <2>6. ASSUME \/ NewReport \/ Network \/ Generate \/ Abort \/ Crash \/ UNCHANGED vars
        PROVE  remote' = remote /\ late' \subseteq late
    BY <2>6 DEF NewReport, Network, Generate, StartRound, DropState, Join, Abort, Crash, vars
  <2> QED BY <1>r, <2>1, <2>2, <2>3, <2>4, <2>5, <2>6 DEF Next
<1>2. ASSUME NEW r \in Rounds, Working(r)' PROVE base'[r][f] <= mine'[r][f]
  <2>0. ASSUME Working(r), base'[r] = base[r], mine'[r] = mine[r] PROVE base'[r][f] <= mine'[r][f]
    BY <1>f, <2>0 DEF InHand
  <2>g. ASSUME NEW s \in Rounds, NEW x, Go(s, x)
        PROVE  pc'[s] = x /\ \A t \in Rounds \ {s} : pc'[t] = pc[t]
    BY <2>g DEF Go, TypeOK
  <2>1. ASSUME NEW s \in Rounds, StartRound(s)
        PROVE  Working(r) /\ UNCHANGED <<base, mine>>
    BY <1>2, <2>1 DEF StartRound, Working, TypeOK
  <2>2. ASSUME NEW s \in Rounds, ReadIndex(s) PROVE base'[r][f] <= mine'[r][f]
    <3>1. CASE r = s
      <4>1. base'[r] = HeadTree /\ mine'[r] = HeadTree
        BY <2>2, <3>1 DEF ReadIndex, TypeOK
      <4> QED BY <1>h, <4>1
    <3>2. CASE r # s
      BY <1>2, <2>0, <2>2, <2>g, <3>2 DEF ReadIndex, Working, TypeOK
    <3> QED BY <3>1, <3>2
  <2>3. ASSUME NEW s \in Rounds, Collect(s) PROVE base'[r][f] <= mine'[r][f]
    <3>0. PICK h : h = Head(queue[s])
      OBVIOUS
    <3>1. /\ UNCHANGED <<pc, base>> /\ mine' = [mine EXCEPT ![s][h] = batch[s][h]]
          /\ batch[s][h] < mine[s][h] => h \in dropped'
      BY <2>3, <3>0 DEF Collect
    <3>2. Working(r)
      BY <1>2, <3>1 DEF Working
    <3>3. mine'[r][f] = mine[r][f] \/ (r = s /\ f = h /\ mine'[r][f] = batch[r][f])
      BY <3>1 DEF TypeOK, Tree
    <3>4. base[r][f] <= mine[r][f]
      BY <1>f, <3>2 DEF InHand
    <3> QED BY <3>1, <3>3, <3>4, Numbers
  <2>4. ASSUME NEW s \in Rounds,
               Closed(s) \/ WriteTree(s) \/ Compare(s) \/ Commit(s) \/ Push(s) \/ PushTakesLong(s) \/ GitFails(s)
        PROVE  Working(r) /\ UNCHANGED <<base, mine>>
    <3>1. CASE Closed(s) \/ WriteTree(s)
      BY <1>2, <2>g, <3>1 DEF Closed, WriteTree, Working
    <3>2. CASE Compare(s)
      BY <1>2, <2>g, <3>2 DEF Compare, Working
    <3>3. CASE Commit(s) \/ Push(s) \/ PushTakesLong(s) \/ GitFails(s)
      BY <1>2, <2>g, <3>3 DEF Commit, Push, PushTakesLong, GitFails, Working
    <3> QED BY <2>4, <3>1, <3>2, <3>3
  <2>5. ASSUME NEW s \in Rounds, NEW g \in Files, Process(s, g) \/ ChunkFails(s, g)
        PROVE  UNCHANGED <<pc, base, mine>>
    BY <2>5 DEF Process, Send, Write, Mark, ChunkFails
  <2>6. ~Crash
    BY <1>2 DEF Crash, Working
  <2>7. ASSUME \/ NewReport \/ Network \/ DropState \/ Join \/ LatePush \/ Abort \/ UNCHANGED vars
        PROVE  UNCHANGED <<pc, base, mine>>
    BY <2>7 DEF NewReport, Network, DropState, Join, LatePush, Abort, vars
  <2>8. ASSUME UNCHANGED <<pc, base, mine>> PROVE Working(r) /\ UNCHANGED <<base, mine>>
    BY <1>2, <2>8 DEF Working
  <2> QED BY <2>0, <2>1, <2>2, <2>3, <2>4, <2>5, <2>6, <2>7, <2>8 DEF Next, Generate, Git
<1> QED BY <1>1, <1>2

-----------------------------------------------------------------------------
LEMMA GitInvInit == Init => GitInv
<1> SUFFICES ASSUME Init PROVE GitInv
  OBVIOUS
<1>1. TypeOK /\ PushesCommits /\ Received
  BY GitTypeInit
<1>2. HeadTree = Empty /\ \A f \in Files : Empty[f] = 0
  BY DEF Init, HeadTree, Empty
<1>3. Alone
  BY DEF Init, Alone, Alive, Written
<1>4. \A f \in Files : /\ marked[f] = 0 /\ onDisk[f] = 0 /\ remote[f] = 0
                      /\ \A r \in Rounds : stage[r][f] = "done"
  BY <1>2 DEF Init
<1>5. WrittenFirst
  BY <1>2, <1>4 DEF WrittenFirst, AtMost, Init
<1>6. InHand
  <2>1. late = {} /\ \A r \in Rounds : ~Working(r)
    BY DEF Init, Working
  <2>2. ASSUME NEW f \in Files PROVE Kept(f, marked[f]) /\ remote[f] <= HeadTree[f]
    <3>1. marked[f] = 0 /\ remote[f] = 0 /\ HeadTree[f] = 0
      BY <1>2, <1>4
    <3> QED BY <3>1 DEF Kept
  <2> QED BY <1>4, <2>1, <2>2 DEF InHand
<1> QED BY <1>1, <1>3, <1>5, <1>6 DEF GitInv

LEMMA GitInvNext == GitInv /\ [Next]_vars => GitInv'
<1> SUFFICES ASSUME GitInv, [Next]_vars PROVE GitInv'
  OBVIOUS
<1>1. TypeOK /\ PushesCommits /\ Received
  BY DEF GitInv
<1>2. TypeOK' /\ PushesCommits' /\ Received'
  BY <1>1, GitTypeNext, ReceivedNext
<1>3. (overtaken => overtaken') /\ bare' = bare
  BY <1>1, FlagsStay
<1>4. ASSUME ~overtaken' PROVE Alone' /\ WrittenFirst'
  <2>1. Alone /\ WrittenFirst
    BY <1>3, <1>4 DEF GitInv
  <2> QED BY <1>1, <1>4, <2>1, AloneNext, WrittenFirstNext
<1>5. ASSUME bare' PROVE InHand'
  <2>1. bare /\ InHand
    BY <1>3, <1>5 DEF GitInv
  <2> QED BY <1>1, <2>1, InHandNext
<1> QED BY <1>2, <1>4, <1>5 DEF GitInv

LEMMA GitInvariant == Spec => []GitInv
BY GitInvInit, GitInvNext, PTL DEF Spec

-----------------------------------------------------------------------------
\* Every variable keeps its type.
THEOREM GitType == Spec => []TypeOK
<1>1. GitInv => TypeOK
  BY DEF GitInv
<1> QED BY GitInvariant, <1>1, PTL

\* A report that is marked is in the working directory of a repository that is
\* not bare, whatever becomes of git, as long as no round was overtaken.
THEOREM MarkedReportsAreOnDisk == Spec => []MarkedIsOnDisk
<1>1. GitInv => MarkedIsOnDisk
  BY DEF GitInv, WrittenFirst, MarkedIsOnDisk
<1> QED BY GitInvariant, <1>1, PTL

\* When all is quiet, every report that is marked is in the HEAD of a bare
\* repository, unless a thread dropped that report.
THEOREM MarkedReportsAreCommitted == Spec => []MarkedIsCommitted
<1>1. GitInv => MarkedIsCommitted
  <2> SUFFICES ASSUME GitInv, Quiet, bare, NEW f \in Files \ dropped PROVE marked[f] <= HeadTree[f]
    BY DEF MarkedIsCommitted
  <2>1. InHand /\ TypeOK /\ Received
    BY DEF GitInv
  <2>2. \A r \in Rounds : pc[r] \in {"off", "gone"}
    BY DEF Quiet, Alive
  <2>3. \A r \in Rounds : ~Working(r) /\ ~Queued(r, f)
    BY <2>1, <2>2 DEF Received, Receiving, Working, Queued
  <2> QED BY <2>1, <2>3 DEF InHand, Kept, Has
<1> QED BY GitInvariant, <1>1, PTL

\* No commit to a bare repository takes a report away or an older version of it,
\* unless a thread dropped that report, and no push does of what is HEAD.
THEOREM HistoryIsNotLost == Spec => HistoryOnlyGrows
<1> DEFINE Grows == bare => \A f \in Files \ dropped' :
                      /\ HeadTree[f] <= HeadTree'[f]
                      /\ remote' = HeadTree' => remote[f] <= remote'[f]
<1>1. ASSUME GitInv, [Next]_vars PROVE Grows
  <2> SUFFICES ASSUME bare, NEW f \in Files \ dropped'
               PROVE  /\ HeadTree[f] <= HeadTree'[f]
                      /\ remote' = HeadTree' => remote[f] <= remote'[f]
    OBVIOUS
  <2>1. TypeOK /\ InHand
    BY <1>1 DEF GitInv
  <2>2. f \notin dropped /\ HeadTree[f] <= HeadTree'[f] /\ HeadTree'[f] \in Nat
    BY <1>1, <2>1, HeadGrows
  <2>3. remote[f] <= HeadTree[f] /\ remote[f] \in Nat /\ HeadTree[f] \in Nat
    BY <2>1, <2>2, Numbers DEF InHand
  <2> QED BY <2>2, <2>3
<1>2. GitInv /\ [Next]_vars => [Grows]_vars
  BY <1>1
<1> QED BY GitInvariant, <1>2, PTL DEF Spec, HistoryOnlyGrows

=============================================================================
