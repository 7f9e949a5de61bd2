----------------------------- MODULE EngineProofs -----------------------------
(***************************************************************************)
(* Proofs about Engine, for any arguments the program may be started with. *)
(***************************************************************************)
EXTENDS Engine, TLAPS

\* A stage waits only when it is to be called again, and for a second at least.
Waiting == \A s \in Stages : stage[s] = "wait" => left[s] # 0 /\ ~Done(s)

\* Each kind of end of a stage has its reason.
Reasons ==
    \A s \in Stages : /\ stage[s] = "ok" => Done(s)
                      /\ stage[s] = "deadline" => late

\* What is awaited follows on what has ended without an error.
InOrder ==
    /\ work = "start" => \A s \in Stages : stage[s] = "none"
    /\ work \in Stages \cup {"ok"} =>
          /\ \A s \in Periodic : stage[s] # "none"
          /\ stage["db"] = "none" => ~args.dbDownload
    /\ work \in {"db", "report", "process", "ok"} => stage["fetch"] = "ok"
    /\ work \in {"report", "process", "ok"} => stage["db"] \in {"ok", "none"}
    /\ work \in {"process", "ok"} => stage["report"] = "ok"
    /\ work = "ok" => stage["process"] = "ok"

\* The mode the GUI will be in when it has read its messages is the right one.
Announced == IF messages = <<>> THEN mode ELSE Head(messages)
ModeWillBeCurrent ==
    Working /\ screen =>
        (Announced = "Deferred" <=> stage["report"] \in {"call", "allow"})

EngineInv == TypeOK /\ Waiting /\ Reasons /\ InOrder /\ ErrorIsLate /\ ModeWillBeCurrent

ArgumentType ==
    [every : [Periodic -> Nat], atMost : [Periodic -> Nat \cup {Unlimited}],
     dbDownload : BOOLEAN, timeLimit : BOOLEAN, gui : BOOLEAN]

LEMMA ArgsAreTyped == TypeOK => args \in ArgumentType
BY EngineAssumption DEF TypeOK, ArgumentType

\* The next iteration is one that is still to come.
LEMMA BeginIsTyped ==
    ASSUME TypeOK, NEW s \in Stages, ~Done(s), Begin(s), args' = args
    PROVE  /\ stage' \in [Stages -> StageStates]
           /\ calls' \in [Periodic -> Nat]
           /\ \A p \in Periodic : IF args'.atMost[p] = Unlimited THEN calls'[p] = 0
                                                         ELSE calls'[p] <= args'.atMost[p]
           /\ left' \in [Stages -> Nat]
           /\ stage'[s] \in {"tell", "call"}
           /\ stage'[s] = "call" => s # "report"
<1>1. args \in ArgumentType
  BY ArgsAreTyped
<1>2. stage' \in [Stages -> StageStates] /\ left' \in [Stages -> Nat]
  BY DEF Begin, TypeOK, StageStates
<1>3. calls' \in [Periodic -> Nat]
  BY DEF Begin, TypeOK
<1>4. \A p \in Periodic : IF args'.atMost[p] = Unlimited THEN calls'[p] = 0
                                                   ELSE calls'[p] <= args'.atMost[p]
  BY <1>1, EngineAssumption DEF Begin, TypeOK, Done, ArgumentType
<1> QED BY <1>2, <1>3, <1>4 DEF Begin, TypeOK

LEMMA TypeInit == Init => TypeOK /\ Waiting
<1> SUFFICES ASSUME Init PROVE TypeOK /\ Waiting
  OBVIOUS
<1>1. args \in ArgumentType
  BY EngineAssumption DEF Init, ArgumentType
<1>2. \A s \in Periodic : IF args.atMost[s] = Unlimited THEN calls[s] = 0
                                                     ELSE calls[s] <= args.atMost[s]
  BY <1>1 DEF Init, ArgumentType
<1>3. screen \in BOOLEAN
  BY <1>1 DEF Init, ArgumentType
<1> QED BY <1>2, <1>3 DEF Init, TypeOK, Waiting, StageStates

LEMMA TypeNext == TypeOK /\ Waiting /\ [Next]_vars => TypeOK' /\ Waiting'
<1> SUFFICES ASSUME TypeOK, Waiting, [Next]_vars PROVE TypeOK' /\ Waiting'
  OBVIOUS
<1> USE DEF tasks, display
<1>1. CASE DeadlinePasses
  BY <1>1 DEF DeadlinePasses, TypeOK, Waiting, Done
<1>2. ASSUME NEW s \in Stages, Stage(s) PROVE TypeOK' /\ Waiting'
  <2>1. CASE Begin(s) /\ ~Done(s) /\ UNCHANGED <<args, late, work, screen, mode, quit>>
                   /\ messages' \in {messages, <<"Instantly">>}
    <3>1. TypeOK'
      BY <2>1, BeginIsTyped DEF TypeOK
    <3>2. \A t \in Stages \ {s} : /\ stage'[t] = stage[t] /\ left'[t] = left[t]
                                 /\ Done(t)' = Done(t)
      BY <2>1 DEF Begin, TypeOK, Done
    <3> QED BY <2>1, <3>1, <3>2, BeginIsTyped DEF Waiting
  <2>2. CASE \E r \in {"ok", "deadline"} :
                /\ Finish(s, r) /\ UNCHANGED <<args, work, screen, mode, quit, late>>
                /\ messages' \in {messages, <<"Instantly">>}
    BY <2>2 DEF Finish, TypeOK, StageStates, Waiting, Done
  <2>3. CASE Enter(s)
    BY <2>1, <2>2, <2>3 DEF Enter
  <2>4. CASE Returns(s)
    <3>1. CASE Done(s)
      BY <2>2, <2>4, <3>1 DEF Returns
    <3>2. CASE ~Done(s)
      <4>1. PICK n \in Waits(s) :
               IF n = 0 THEN Begin(s)
               ELSE /\ stage' = [stage EXCEPT ![s] = "wait"]
                    /\ left' = [left EXCEPT ![s] = n]
                    /\ calls' = calls
        BY <2>4, <3>2 DEF Returns, Wait
      <4>2. n \in Nat
        BY ArgsAreTyped, EngineAssumption DEF Waits, Stages, ArgumentType
      <4>3. CASE n = 0
        BY <2>1, <2>4, <3>2, <4>1, <4>3 DEF Returns
      <4>4. CASE n # 0
        BY <2>4, <3>2, <4>1, <4>2, <4>4 DEF Returns, TypeOK, StageStates, Waiting, Done
      <4> QED BY <4>3, <4>4
    <3> QED BY <3>1, <3>2
  <2>5. CASE SecondPasses(s)
    <3>1. ~Done(s) /\ left[s] \in Nat \ {0}
      BY <2>5 DEF SecondPasses, Waiting, TypeOK
    <3>2. CASE late
      BY <2>2, <2>5, <3>2 DEF SecondPasses
    <3>3. CASE ~late /\ left[s] = 1
      BY <2>1, <2>5, <3>1, <3>3 DEF SecondPasses
    <3>4. CASE ~late /\ left[s] # 1
      BY <2>5, <3>1, <3>4 DEF SecondPasses, TypeOK, Waiting, Done
    <3> QED BY <3>2, <3>3, <3>4
  <2> QED BY <1>2, <2>3, <2>4, <2>5 DEF Stage
<1>3. CASE Announce
  BY <1>3 DEF Announce, Tell, TellNobody, Generated, TypeOK, StageStates, Waiting, Done, Stages, Periodic
<1>4. ASSUME NEW end \in Ends, Drop(end), UNCHANGED <<args, late, screen, mode, quit, messages>>
      PROVE  TypeOK' /\ Waiting'
  BY <1>4 DEF Drop, TypeOK, StageStates, Ended, Waiting, Done
<1>5. CASE Start
  <2>1. CASE late
    BY <1>4, <1>5, <2>1 DEF Start, Ends
  <2>2. CASE ~late
    BY <1>5, <2>2 DEF Start, TypeOK, StageStates, Waiting, Stages, Periodic
  <2> QED BY <2>1, <2>2
<1>6. CASE Await
  <2>1. CASE Drop("error")
    BY <1>4, <1>6, <2>1 DEF Await, Ends
  <2>2. CASE ~Drop("error")
    <3>1. After[work] \in Stages \cup Ends
      BY <1>6 DEF Await, After, Stages, Periodic, Ends
    <3> QED BY <1>6, <2>2, <3>1 DEF Await, TypeOK, Waiting, Done
  <2> QED BY <2>1, <2>2
<1>7. CASE NoticeQuit \/ Signal
  BY <1>4, <1>7 DEF NoticeQuit, Signal, Ends
<1>8. CASE CancelGui
  BY <1>8 DEF CancelGui, TypeOK, Waiting, Done
<1>9. CASE Quit
  BY <1>9 DEF Quit, TypeOK, Waiting, Done
<1>10. CASE SetMode
  BY <1>10 DEF SetMode, TypeOK, Waiting, Done
<1>11. CASE UNCHANGED vars
  BY <1>11 DEF vars, TypeOK, Waiting, Done
<1> QED BY <1>1, <1>2, <1>3, <1>5, <1>6, <1>7, <1>8, <1>9, <1>10, <1>11 DEF Next, Work

-----------------------------------------------------------------------------
\* What a step does to the stages, to the work and to the rest: one stage goes
\* on, or the work does, or all that has not ended is dropped.
StageGoes(s) ==
    /\ stage[s] \notin Ended
    /\ \A t \in Stages \ {s} : stage'[t] = stage[t] /\ Done(t)' = Done(t)
    /\ stage'[s] \notin {"none", "dropped"}
    /\ stage'[s] = "ok" => Done(s)'
    /\ stage'[s] = "deadline" => late
    /\ UNCHANGED <<args, late, work>>

LEMMA StageSteps ==
    ASSUME TypeOK, NEW s \in Stages, Stage(s) \/ (Announce /\ s = "report")
    PROVE  StageGoes(s)
<1> USE DEF Ended
<1>1. ASSUME Begin(s), UNCHANGED <<args, late, work>>, stage[s] \notin Ended PROVE StageGoes(s)
  <2>1. \A t \in Stages \ {s} : stage'[t] = stage[t] /\ Done(t)' = Done(t)
    BY <1>1 DEF Begin, TypeOK, Done
  <2>2. stage'[s] \in {"tell", "call"}
    BY <1>1 DEF Begin, TypeOK
  <2> QED BY <1>1, <2>1, <2>2 DEF StageGoes
<1>2. ASSUME NEW r \in {"ok", "deadline"}, Finish(s, r), UNCHANGED <<args, late, work>>,
             stage[s] \notin Ended, r = "ok" => Done(s), r = "deadline" => late
      PROVE StageGoes(s)
  <2>1. \A t \in Stages : Done(t)' = Done(t)
    BY <1>2 DEF Finish, Done
  <2>2. stage'[s] = r /\ \A t \in Stages \ {s} : stage'[t] = stage[t]
    BY <1>2 DEF Finish, TypeOK
  <2> QED BY <1>2, <2>1, <2>2 DEF StageGoes
<1>3. CASE Enter(s)
  BY <1>1, <1>2, <1>3 DEF Enter
<1>4. CASE Returns(s)
  <2>1. stage[s] \notin Ended /\ UNCHANGED <<args, late, work>>
    BY <1>4 DEF Returns, display
  <2>2. CASE Done(s)
    <3>1. Finish(s, "ok")
      BY <1>4, <2>2 DEF Returns
    <3> QED BY <1>2, <2>1, <2>2, <3>1
  <2>3. CASE ~Done(s) /\ ~Begin(s)
    <3>1. stage' = [stage EXCEPT ![s] = "wait"] /\ calls' = calls
      BY <1>4, <2>3 DEF Returns, Wait
    <3> QED BY <2>1, <3>1 DEF StageGoes, TypeOK, Done
  <2> QED BY <1>1, <1>4, <2>1, <2>2, <2>3 DEF Returns, Wait
<1>5. CASE SecondPasses(s)
  <2>1. stage[s] = "wait" /\ UNCHANGED <<args, late, work>>
    BY <1>5 DEF SecondPasses
  <2>2. CASE ~Begin(s) /\ ~late
    BY <1>5, <2>1, <2>2 DEF SecondPasses, StageGoes, Done
  <2> QED BY <1>1, <1>2, <1>5, <2>1, <2>2 DEF SecondPasses
<1>6. CASE Announce /\ s = "report"
  BY <1>6 DEF Announce, Tell, TellNobody, Generated, StageGoes, TypeOK, Done
<1> QED BY <1>3, <1>4, <1>5, <1>6 DEF Stage

Rest == Quit \/ SetMode \/ CancelGui \/ UNCHANGED vars

LEMMA RestSteps ==
    ASSUME Rest
    PROVE  UNCHANGED <<args, late, stage, calls, work>>
BY DEF Rest, Quit, SetMode, CancelGui, vars, tasks, display

LEMMA WorkSteps ==
    ASSUME TypeOK, Start \/ Await \/ Signal \/ NoticeQuit
    PROVE  /\ UNCHANGED <<args, late, calls, screen, mode, quit, messages>>
           /\ \/ \E end \in {"error", "signal", "quit"} :
                     /\ Drop(end)
                     /\ end = "error" => late \/ (work \in Stages /\ stage[work] = "deadline")
              \/ /\ work = "start" /\ work' = "fetch"
                 /\ stage' = [s \in Stages |->
                                 IF s = "db" /\ ~args.dbDownload THEN "none" ELSE "spawned"]
              \/ /\ work \in Stages /\ stage[work] \in {"ok", "none"}
                 /\ work' = After[work] /\ stage' = stage
<1>1. ASSUME NEW end, Drop(end) PROVE calls' = calls
  BY <1>1 DEF Drop
<1>2. CASE Start
  <2>1. CASE late
    <3>1. Drop("error")
      BY <1>2, <2>1 DEF Start
    <3>2. UNCHANGED <<args, late, calls, screen, mode, quit, messages>>
      BY <1>1, <1>2, <3>1 DEF Start, display
    <3> QED BY <2>1, <3>1, <3>2
  <2>2. CASE ~late
    BY <1>2, <2>2 DEF Start, display
  <2> QED BY <2>1, <2>2
<1>3. CASE Await
  BY <1>1, <1>3 DEF Await, tasks, display
<1>4. CASE Signal
  BY <1>1, <1>4 DEF Signal, display
<1>5. CASE NoticeQuit
  BY <1>1, <1>5 DEF NoticeQuit, display
<1> QED BY <1>2, <1>3, <1>4, <1>5

LEMMA OrderInit == Init => Reasons /\ InOrder /\ ErrorIsLate /\ ModeWillBeCurrent
BY DEF Init, Reasons, InOrder, ErrorIsLate, ModeWillBeCurrent, Announced, Stages, Periodic, Ends

LEMMA OrderNext ==
    TypeOK /\ Reasons /\ InOrder /\ ErrorIsLate /\ [Next]_vars
        => Reasons' /\ InOrder' /\ ErrorIsLate'
<1> SUFFICES ASSUME TypeOK, Reasons, InOrder, ErrorIsLate, [Next]_vars
             PROVE  Reasons' /\ InOrder' /\ ErrorIsLate'
  OBVIOUS
<1>1. CASE DeadlinePasses
  BY <1>1 DEF DeadlinePasses, tasks, Reasons, InOrder, ErrorIsLate, Done
<1>2. ASSUME NEW s \in Stages, StageGoes(s) PROVE Reasons' /\ InOrder' /\ ErrorIsLate'
  <2>1. Reasons'
    BY <1>2 DEF StageGoes, Reasons
  <2>2. InOrder'
    BY <1>2 DEF StageGoes, InOrder, Ended, Stages, Periodic
  <2>3. ErrorIsLate'
    BY <1>2 DEF StageGoes, ErrorIsLate
  <2> QED BY <2>1, <2>2, <2>3
<1>3. CASE Start \/ Await \/ Signal \/ NoticeQuit
  <2>1. UNCHANGED <<args, late, calls>>
    BY <1>3, WorkSteps
  <2>2. ASSUME NEW end \in {"error", "signal", "quit"}, Drop(end),
               end = "error" => late \/ (work \in Stages /\ stage[work] = "deadline")
        PROVE  Reasons' /\ InOrder' /\ ErrorIsLate'
    <3>1. \A s \in Stages : /\ stage'[s] = "ok" => stage[s] = "ok"
                            /\ stage'[s] = "deadline" => stage[s] = "deadline"
      BY <2>2 DEF Drop, Ended, TypeOK
    <3>2. work' = end
      BY <2>2 DEF Drop
    <3>3. Reasons'
      BY <2>1, <3>1 DEF Reasons, Done
    <3>4. InOrder'
      BY <2>2, <3>2 DEF InOrder, Stages, Periodic
    <3>5. ErrorIsLate'
      BY <2>1, <2>2, <3>2 DEF Reasons, ErrorIsLate
    <3> QED BY <3>3, <3>4, <3>5
  <2>3. CASE /\ work = "start" /\ work' = "fetch"
             /\ stage' = [s \in Stages |->
                             IF s = "db" /\ ~args.dbDownload THEN "none" ELSE "spawned"]
    BY <2>1, <2>3 DEF Reasons, InOrder, ErrorIsLate, Done, Stages, Periodic
  <2>4. CASE /\ work \in Stages /\ stage[work] \in {"ok", "none"}
             /\ work' = After[work] /\ stage' = stage
    <3>1. Reasons' /\ ErrorIsLate'
      BY <2>1, <2>4 DEF Reasons, ErrorIsLate, Done, After, Stages, Periodic
    <3>2. InOrder'
      BY <2>1, <2>4 DEF InOrder, After, Stages, Periodic
    <3> QED BY <3>1, <3>2
  <2> QED BY <1>3, <2>2, <2>3, <2>4, WorkSteps
<1>4. CASE Rest
  BY <1>4, RestSteps DEF Reasons, InOrder, ErrorIsLate, Done
<1>5. ASSUME NEW s \in Stages, Stage(s) PROVE StageGoes(s)
  BY <1>5, StageSteps
<1>6. CASE Announce
  <2>1. "report" \in Stages
    BY DEF Stages, Periodic
  <2> QED BY <1>6, <2>1, <1>2, StageSteps
<1> QED BY <1>1, <1>2, <1>3, <1>4, <1>5, <1>6 DEF Next, Work, Rest

-----------------------------------------------------------------------------
\* What a step does to the GUI: a stage may send, the GUI may read.
LEMMA ModeNext ==
    TypeOK /\ InOrder /\ ModeWillBeCurrent /\ [Next]_vars => ModeWillBeCurrent'
<1> SUFFICES ASSUME TypeOK, InOrder, ModeWillBeCurrent, [Next]_vars PROVE ModeWillBeCurrent'
  OBVIOUS
<1> USE DEF Announced, Working
<1>1. CASE DeadlinePasses
  BY <1>1 DEF DeadlinePasses, tasks, display, ModeWillBeCurrent
<1>2. ASSUME NEW s \in Stages, Stage(s) PROVE ModeWillBeCurrent'
  <2>1. "report" \in Stages
    BY DEF Stages, Periodic
  <2>2. UNCHANGED <<work, screen, mode>>
    BY <1>2 DEF Stage, Enter, Returns, SecondPasses, display
  <2>3. CASE s = "report"
    <3>1. stage[s] \in {"spawned", "allow", "wait"} /\ stage'[s] \notin {"call", "allow"}
      BY <1>2, <2>1, <2>3
         DEF Stage, Enter, Returns, SecondPasses, Begin, Finish, Wait, TypeOK
    <3>2. CASE Returns(s)
      BY <2>2, <2>3, <3>1, <3>2 DEF Returns, ModeWillBeCurrent
    <3>3. CASE Enter(s) \/ SecondPasses(s)
      BY <2>2, <2>3, <3>1, <3>3 DEF Enter, SecondPasses, ModeWillBeCurrent
    <3> QED BY <1>2, <3>2, <3>3 DEF Stage
  <2>4. CASE s # "report"
    <3>1. stage'["report"] = stage["report"]
      BY <1>2, <2>1, <2>4, StageSteps DEF StageGoes
    <3>2. messages' = messages
      BY <1>2, <2>4 DEF Stage, Enter, Returns, SecondPasses
    <3> QED BY <2>2, <3>1, <3>2 DEF ModeWillBeCurrent
  <2> QED BY <2>3, <2>4
<1>3. CASE Announce
  <2>1. "report" \in Stages
    BY DEF Stages, Periodic
  <2>2. CASE Tell
    <3>1. Announced' = "Deferred" /\ stage'["report"] = "call"
      BY <2>1, <2>2 DEF Tell, TypeOK
    <3> QED BY <3>1 DEF ModeWillBeCurrent
  <2>3. CASE TellNobody
    BY <2>3 DEF TellNobody, display, ModeWillBeCurrent
  <2>4. CASE Generated
    <3>1. stage'["report"] = "allow" /\ stage["report"] = "call"
      BY <2>1, <2>4 DEF Generated, TypeOK
    <3> QED BY <2>4, <3>1 DEF Generated, display, ModeWillBeCurrent
  <2> QED BY <1>3, <2>2, <2>3, <2>4 DEF Announce
<1>4. CASE Start \/ Await \/ Signal \/ NoticeQuit
  <2>1. UNCHANGED <<screen, mode, messages>>
    BY <1>4, WorkSteps
  <2>2. ASSUME NEW end \in {"error", "signal", "quit"}, Drop(end) PROVE ModeWillBeCurrent'
    BY <2>2 DEF Drop, Ends, ModeWillBeCurrent
  <2>3. CASE /\ work = "start" /\ work' = "fetch"
             /\ stage' = [s \in Stages |->
                             IF s = "db" /\ ~args.dbDownload THEN "none" ELSE "spawned"]
    BY <2>1, <2>3 DEF ModeWillBeCurrent, InOrder, Stages, Periodic, Ends
  <2>4. CASE work \in Stages /\ stage' = stage
    BY <2>1, <2>4 DEF ModeWillBeCurrent, Stages, Periodic, Ends
  <2> QED BY <1>4, <2>2, <2>3, <2>4, WorkSteps
<1>5. CASE CancelGui
  BY <1>5 DEF CancelGui, ModeWillBeCurrent
<1>6. CASE Quit
  BY <1>6 DEF Quit, tasks, ModeWillBeCurrent
<1>7. CASE SetMode
  BY <1>7 DEF SetMode, tasks, TypeOK, ModeWillBeCurrent
<1>8. CASE UNCHANGED vars
  BY <1>8 DEF vars, tasks, display, ModeWillBeCurrent
<1> QED BY <1>1, <1>2, <1>3, <1>4, <1>5, <1>6, <1>7, <1>8 DEF Next, Work

LEMMA EngineInvariant == Spec => []EngineInv
<1>1. Init => EngineInv
  BY TypeInit, OrderInit DEF EngineInv
<1>2. EngineInv /\ [Next]_vars => EngineInv'
  BY TypeNext, OrderNext, ModeNext DEF EngineInv
<1> QED BY <1>1, <1>2, PTL DEF Spec

-----------------------------------------------------------------------------
\* Every behaviour is well typed, no stage is called too often.
THEOREM EngineType == Spec => []TypeOK
BY EngineInvariant, PTL DEF EngineInv

\* An end without an error is an end of all stages (non_blocking, run.rs 160).
THEOREM SuccessIsComplete == Spec => []OkIsAll
<1>1. EngineInv => OkIsAll
  <2> SUFFICES ASSUME EngineInv, work = "ok" PROVE OkIsAll
    BY DEF OkIsAll
  <2>1. \A s \in Periodic : stage[s] = "ok" /\ Done(s)
    BY DEF EngineInv, InOrder, Reasons, Stages, Periodic
  <2>2. stage["db"] # "ok"
    BY DEF EngineInv, Reasons, Done, Stages, Periodic
  <2>3. ~args.dbDownload
    BY <2>2 DEF EngineInv, InOrder
  <2> QED BY <2>1, <2>3 DEF OkIsAll, Done
<1> QED BY <1>1, EngineInvariant, PTL

\* The only error is that of the deadline (utils.rs 36, run.rs 160).
THEOREM ErrorsAreLate == Spec => []ErrorIsLate
BY EngineInvariant, PTL DEF EngineInv

\* When its messages are read, the GUI knows whether reports are generated.
THEOREM ModeFollowsReports == Spec => []ModeIsCurrent
<1>1. EngineInv => ModeIsCurrent
  BY DEF EngineInv, ModeWillBeCurrent, Announced, ModeIsCurrent
<1> QED BY <1>1, EngineInvariant, PTL

\* A user who leaves while reports are generated is one the GUI had not told.
THEOREM GenerationsAreNotCut == Spec => GenerationIsNotCut
<1>1. EngineInv /\ [Next]_vars
        => (screen /\ ~screen' /\ Working /\ stage["report"] = "call"
              => messages = <<"Deferred">>)
  <2> SUFFICES ASSUME EngineInv, [Next]_vars,
                      screen, ~screen', Working, stage["report"] = "call"
               PROVE  messages = <<"Deferred">>
    OBVIOUS
  <2>1. Announced = "Deferred"
    BY DEF EngineInv, ModeWillBeCurrent
  <2>2. \/ Quit /\ mode = "Instantly"
        \/ SetMode /\ Head(messages) = "Instantly"
    <3>1. ~CancelGui
      BY DEF CancelGui
    <3>2. UNCHANGED screen \/ Quit \/ SetMode
      <4>1. ASSUME NEW s \in Stages, Stage(s) PROVE UNCHANGED screen
        BY <4>1 DEF Stage, Enter, Returns, SecondPasses, display
      <4>2. ASSUME Start \/ Await \/ Signal \/ NoticeQuit PROVE UNCHANGED screen
        BY <4>2, WorkSteps DEF EngineInv
      <4>3. ASSUME Announce \/ DeadlinePasses PROVE UNCHANGED screen
        BY <4>3 DEF Announce, Tell, TellNobody, Generated, DeadlinePasses, display
      <4>4. ASSUME UNCHANGED vars PROVE UNCHANGED screen
        BY <4>4 DEF vars, display
      <4> QED BY <3>1, <4>1, <4>2, <4>3, <4>4 DEF Next, Work
    <3>3. Quit => mode = "Instantly"
      BY DEF Quit
    <3>4. SetMode => Head(messages) = "Instantly"
      BY DEF SetMode, EngineInv, TypeOK
    <3> QED BY <3>2, <3>3, <3>4
  <2> QED BY <2>1, <2>2 DEF Announced, SetMode, EngineInv, TypeOK
<1> QED BY <1>1, EngineInvariant, PTL DEF Spec, GenerationIsNotCut

\* A stage that waits stops at the deadline (wait_with_progress).
THEOREM NoCallIsLate == Spec => NoLateCall
<1>1. EngineInv /\ [Next]_vars =>
        \A s \in Stages :
          late /\ stage[s] # "spawned" /\ stage'[s] \in {"tell", "call"} \ {stage[s]} =>
              \/ s = "report" /\ stage[s] = "tell"
              \/ s = "db"
              \/ args.every[s] = 0
  <2> SUFFICES ASSUME EngineInv, [Next]_vars, NEW s \in Stages, late,
                      stage[s] # "spawned", stage'[s] \in {"tell", "call"} \ {stage[s]}
               PROVE  \/ s = "report" /\ stage[s] = "tell"
                      \/ s = "db"
                      \/ args.every[s] = 0
    OBVIOUS
  <2>a. TypeOK
    BY DEF EngineInv
  <2>1. CASE DeadlinePasses \/ Rest
    BY <2>1, RestSteps DEF DeadlinePasses, tasks
  <2>2. ASSUME NEW t \in Stages, Stage(t)
        PROVE  s = "db" \/ args.every[s] = 0
    <3>1. t = s
      BY <2>2, <2>a, StageSteps DEF StageGoes
    <3>2. ~Enter(s)
      BY DEF Enter
    <3>3. ~SecondPasses(s)
      BY <2>a DEF SecondPasses, Finish, TypeOK
    <3>4. Returns(s)
      BY <2>2, <3>1, <3>2, <3>3 DEF Stage
    <3>5. CASE Done(s)
      BY <2>a, <3>4, <3>5 DEF Returns, Finish, TypeOK
    <3>6. CASE ~Done(s)
      BY <2>a, <3>4, <3>6 DEF Returns, Wait, Waits, TypeOK
    <3> QED BY <3>5, <3>6
  <2>3. CASE Announce
    BY <2>a, <2>3 DEF Announce, Tell, TellNobody, Generated, TypeOK
  <2>4. CASE Start \/ Await \/ Signal \/ NoticeQuit
    <3>1. ~Start \/ Drop("error")
      BY DEF Start
    <3>2. ASSUME NEW end, Drop(end) PROVE FALSE
      BY <2>a, <3>2 DEF Drop, TypeOK, Ended
    <3> QED BY <2>4, <3>1, <3>2 DEF Await, Signal, NoticeQuit, tasks
  <2> QED BY <2>1, <2>2, <2>3, <2>4 DEF Next, Work, Rest
<1> QED BY <1>1, EngineInvariant, PTL DEF Spec, NoLateCall
===============================================================================
