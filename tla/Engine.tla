-------------------------------- MODULE Engine --------------------------------
(***************************************************************************)
(* The engine (engine/run.rs): four stages in tasks of their own, each     *)
(* repeated by utils.rs; the work, which awaits them one after the other;  *)
(* and the ways it is stopped: the deadline, a signal, the user of the     *)
(* GUI, which is told not to stop it while reports are generated.          *)
(* What a call does is the business of the other modules; here it begins   *)
(* and ends, and whether it failed makes no difference to its repetition.  *)
(***************************************************************************)
EXTENDS Naturals, Sequences

CONSTANTS
    Arguments,  \* what the program may be started with
    Unlimited,  \* at_most of None
    MaxWait     \* bound: seconds until the daily download

Periodic == {"fetch", "process", "report"}
Stages == Periodic \cup {"db"}

ASSUME EngineAssumption ==
    /\ Unlimited \notin Nat
    /\ MaxWait \in Nat \ {0}
    /\ Arguments \subseteq
          [every : [Periodic -> Nat], atMost : [Periodic -> Nat \cup {Unlimited}],
           dbDownload : BOOLEAN, timeLimit : BOOLEAN, gui : BOOLEAN]

VARIABLES
    args,      \* the arguments
    late,      \* has the deadline passed?
    stage,     \* where each stage is
    calls,     \* iteration, how often it was called, up to its at_most
    left,      \* seconds it still waits
    work,      \* what the work awaits, or how it ended
    screen,    \* is the GUI there?
    mode,      \* its interrupt mode
    quit,      \* does the user want it to stop?
    messages   \* interrupt_control, a channel of one place

tasks == <<stage, calls, left>>
display == <<screen, mode, quit>>
vars == <<args, late, tasks, work, display, messages>>

\* "none" is not spawned yet or not at all, "spawned" has not run yet; "tell"
\* and "allow" are where the report stage sends; "ok" and "deadline" are the
\* results of a task, "dropped" is one that was cancelled
StageStates ==
    {"none", "spawned", "tell", "call", "allow", "wait", "ok", "deadline", "dropped"}
Ended == {"ok", "deadline", "dropped", "none"}

\* "start" before non_blocking is polled, then the stage it awaits, then one of
Ends == {"ok", "error", "signal", "quit"}

Init ==
    /\ args \in Arguments
    /\ late = FALSE
    /\ stage = [s \in Stages |-> "none"]
    /\ calls = [s \in Periodic |-> 0]
    /\ left = [s \in Stages |-> 0]
    /\ work = "start"
    /\ screen = args.gui
    /\ mode = "Instantly" /\ quit = FALSE
    /\ messages = <<>>

DeadlinePasses ==
    /\ args.timeLimit
    /\ late' = TRUE
    /\ UNCHANGED <<args, tasks, work, display, messages>>

-----------------------------------------------------------------------------
\* repeat_every_s, repeat_daily_at and what they repeat

Done(s) == s \in Periodic /\ calls[s] = args.atMost[s]

\* the next iteration
Begin(s) ==
    /\ stage' = [stage EXCEPT ![s] = IF s = "report" THEN "tell" ELSE "call"]
    /\ calls' = IF s \in Periodic /\ args.atMost[s] # Unlimited
                THEN [calls EXCEPT ![s] = @ + 1] ELSE calls
    /\ left' = [left EXCEPT ![s] = 0]

Finish(s, result) ==
    /\ stage' = [stage EXCEPT ![s] = result]
    /\ UNCHANGED <<calls, left>>

\* the daily download is called at once and then when the time of day has come
Waits(s) == IF s = "db" THEN 0..MaxWait ELSE {args.every[s]}

\* the end of an iteration; a wait of no seconds does not look at the deadline
Wait(s) ==
    \E n \in Waits(s) :
        IF n = 0 THEN Begin(s)
        ELSE /\ stage' = [stage EXCEPT ![s] = "wait"]
             /\ left' = [left EXCEPT ![s] = n]
             /\ calls' = calls

\* the first time a task runs; at most 0 times is not at all
Enter(s) ==
    /\ stage[s] = "spawned"
    /\ IF Done(s) THEN Finish(s, "ok") ELSE Begin(s)
    /\ UNCHANGED <<args, late, work, display, messages>>

\* the report stage announces itself, waits for a place in the channel, and
\* goes on anyway when nobody listens
TellNobody ==
    /\ stage["report"] = "tell"
    /\ ~screen
    /\ stage' = [stage EXCEPT !["report"] = "call"]
    /\ UNCHANGED <<args, late, calls, left, work, display, messages>>

\* A mutant of Tell: what it sends is turned into the event of the other one.
TellTheOther ==
    /\ stage["report"] = "tell"
    /\ screen /\ messages = <<>>
    /\ messages' = <<"Instantly">>
    /\ stage' = [stage EXCEPT !["report"] = "call"]
    /\ UNCHANGED <<args, late, calls, left, work, display>>

Tell ==
    /\ stage["report"] = "tell"
    /\ screen /\ messages = <<>>
    /\ messages' = <<"Deferred">>
    /\ stage' = [stage EXCEPT !["report"] = "call"]
    /\ UNCHANGED <<args, late, calls, left, work, display>>

\* A mutant of Generated: an error leaves without allowing interruption again.
GeneratedOrFailed ==
    /\ stage["report"] = "call"
    /\ \/ stage' = [stage EXCEPT !["report"] = "allow"] /\ UNCHANGED <<calls, left>>
       \/ IF Done("report") THEN Finish("report", "ok") ELSE Wait("report")
    /\ UNCHANGED <<args, late, work, display, messages>>

\* report::generate returned, with or without an error
Generated ==
    /\ stage["report"] = "call"
    /\ stage' = [stage EXCEPT !["report"] = "allow"]
    /\ UNCHANGED <<args, late, calls, left, work, display, messages>>

\* a call returned; the report stage first waits for a place in the channel.
\* Its error is shown and ignored.
Returns(s) ==
    /\ stage[s] = IF s = "report" THEN "allow" ELSE "call"
    /\ s = "report" /\ screen => messages = <<>>
    /\ messages' = IF s = "report" /\ screen THEN <<"Instantly">> ELSE messages
    /\ IF Done(s) THEN Finish(s, "ok") ELSE Wait(s)
    /\ UNCHANGED <<args, late, work, display>>

\* A mutant of SecondPasses: the deadline is looked at before the wait only.
SecondPassesUnchecked(s) ==
    /\ stage[s] = "wait"
    /\ IF left[s] = 1 THEN Begin(s)
       ELSE left' = [left EXCEPT ![s] = @ - 1] /\ UNCHANGED <<stage, calls>>
    /\ UNCHANGED <<args, late, work, display, messages>>

\* wait_with_progress
SecondPasses(s) ==
    /\ stage[s] = "wait"
    /\ IF late THEN Finish(s, "deadline")
       ELSE IF left[s] = 1 THEN Begin(s)
       ELSE left' = [left EXCEPT ![s] = @ - 1] /\ UNCHANGED <<stage, calls>>
    /\ UNCHANGED <<args, late, work, display, messages>>

Stage(s) == Enter(s) \/ Returns(s) \/ SecondPasses(s)
Announce == Tell \/ TellNobody \/ Generated

-----------------------------------------------------------------------------
\* the work is dropped and with it every task that has not ended
Drop(end) ==
    /\ work' = end
    /\ stage' = [s \in Stages |-> IF stage[s] \in Ended THEN stage[s] ELSE "dropped"]
    /\ UNCHANGED <<calls, left>>

Working == work \notin Ends

Start ==
    /\ work = "start"
    /\ IF late THEN Drop("error")
       ELSE /\ work' = "fetch"
            /\ stage' = [s \in Stages |->
                            IF s = "db" /\ ~args.dbDownload THEN "none" ELSE "spawned"]
            /\ UNCHANGED <<calls, left>>
    /\ UNCHANGED <<args, late, display, messages>>

\* what comes after the stage that is awaited
After == [fetch |-> "db", db |-> "report", report |-> "process", process |-> "ok"]

\* A mutant of Await: whatever is done first is enough.
AwaitAny ==
    /\ work \in Stages
    /\ \E s \in Stages : stage[s] = "ok" /\ Drop("ok")
    /\ UNCHANGED <<args, late, display, messages>>

\* one handle after the other, the first error is returned at once
Await ==
    /\ work \in Stages
    /\ \/ stage[work] \in {"ok", "none"} /\ work' = After[work] /\ UNCHANGED tasks
       \/ stage[work] = "deadline" /\ Drop("error")
    /\ UNCHANGED <<args, late, display, messages>>

\* SIGINT without a GUI, SIGTERM
Signal ==
    /\ Working
    /\ Drop("signal")
    /\ UNCHANGED <<args, late, display, messages>>

\* the GUI has ended before the work
NoticeQuit ==
    /\ Working
    /\ args.gui /\ ~screen
    /\ Drop("quit")
    /\ UNCHANGED <<args, late, display, messages>>

\* the GUI is cancelled after the work
CancelGui ==
    /\ ~Working
    /\ screen
    /\ screen' = FALSE /\ messages' = <<>>
    /\ UNCHANGED <<args, late, tasks, work, mode, quit>>

Work == Start \/ Await \/ NoticeQuit \/ CancelGui

-----------------------------------------------------------------------------
\* the user wants to leave: at once, or when it may be interrupted again
Quit ==
    /\ screen
    /\ quit' = TRUE
    /\ IF mode = "Instantly" THEN screen' = FALSE /\ messages' = <<>>
       ELSE UNCHANGED <<screen, messages>>
    /\ UNCHANGED <<args, late, tasks, work, mode>>

SetMode ==
    /\ screen
    /\ messages # <<>>
    /\ mode' = Head(messages)
    /\ messages' = <<>>
    /\ screen' = ~(quit /\ Head(messages) = "Instantly")
    /\ UNCHANGED <<args, late, tasks, work, quit>>

Next ==
    \/ DeadlinePasses
    \/ \E s \in Stages : Stage(s)
    \/ Announce
    \/ Work
    \/ Signal
    \/ Quit \/ SetMode

Spec == Init /\ [][Next]_vars

\* Calls return, timers go off, executors, the GUI and the clock go on, and
\* the daily download does not come without a wait forever.
FairSpec ==
    /\ Spec
    /\ WF_vars(DeadlinePasses) /\ WF_vars(Announce) /\ WF_vars(Work) /\ WF_vars(SetMode)
    /\ \A s \in Stages : WF_vars(Stage(s))
    /\ SF_vars(Returns("db") /\ stage'["db"] = "wait")

-----------------------------------------------------------------------------
\* Every variable keeps its type; no stage is called more often than it should.
TypeOK ==
    /\ args \in Arguments /\ late \in BOOLEAN
    /\ stage \in [Stages -> StageStates]
    /\ calls \in [Periodic -> Nat]
    /\ \A s \in Periodic : IF args.atMost[s] = Unlimited THEN calls[s] = 0
                                                         ELSE calls[s] <= args.atMost[s]
    /\ left \in [Stages -> Nat]
    /\ work \in {"start"} \cup Stages \cup Ends
    /\ screen \in BOOLEAN /\ quit \in BOOLEAN
    /\ mode \in {"Instantly", "Deferred"}
    /\ messages \in {<<>>, <<"Instantly">>, <<"Deferred">>}

\* When the GUI has read its messages, it defers an interruption exactly while
\* reports are generated, whatever was sent and read before.
ModeIsCurrent ==
    Working /\ screen /\ messages = <<>> =>
        (mode = "Deferred" <=> stage["report"] \in {"call", "allow"})

\* The user does not interrupt the generation of reports, unless the GUI has
\* not been told of it yet.
GenerationIsNotCut ==
    [][screen /\ ~screen' /\ Working /\ stage["report"] = "call"
       => messages = <<"Deferred">>]_vars

\* The work ends without an error only when every stage has been called as
\* often as it should, though the calls may fail and overlap in any way.
OkIsAll ==
    work = "ok" =>
        /\ \A s \in Periodic : stage[s] = "ok" /\ calls[s] = args.atMost[s]
        /\ ~args.dbDownload

\* It ends with an error only because of the deadline.
ErrorIsLate == work = "error" => late

\* After the deadline no stage that waits between its calls is called again.
NoLateCall ==
    [][\A s \in Stages :
          late /\ stage[s] # "spawned" /\ stage'[s] \in {"tell", "call"} \ {stage[s]} =>
              \/ s = "report" /\ stage[s] = "tell"
              \/ s = "db"
              \/ args.every[s] = 0]_vars

Endless(s) == args.atMost[s] = Unlimited /\ args.every[s] = 0

\* With a deadline, or when all stages are limited, the work ends by itself,
\* except for a stage that is called forever without waiting in between.
EndsByItself ==
    (/\ \/ args.timeLimit
        \/ ~args.dbDownload /\ \A s \in Periodic : args.atMost[s] # Unlimited
     /\ \A s \in Periodic : ~Endless(s)) ~> ~Working

\* The user can always leave: the work ends after the generation of reports at
\* the latest, and the GUI with it.
QuitIsHonoured == quit ~> ~Working /\ ~screen
===============================================================================
