---------------------------- MODULE MiningLedger ----------------------------
(***************************************************************************)
(* What the processing stage promises to the rest of criner, without       *)
(* rounds, pages, the order of sending and receiving, and the faults that  *)
(* can hit it: a ledger of requests and of what they did to the two tasks  *)
(* of each crate version.                                                  *)
(*                                                                         *)
(* A task is started, failed and finished by a request for it and by       *)
(* nothing else.  A request is issued while its task is open; it is passed *)
(* on and may be lost, but is never doubled, and its end is recorded once. *)
(* A download that has delivered its file brings about one extraction,     *)
(* which it has passed on when the download is recorded as done.  Nothing  *)
(* is issued for a task that is done or given up.                          *)
(***************************************************************************)
EXTENDS Naturals

CONSTANTS Versions, MaxAttempts, Holders

VARIABLES
    onDisk,     \* versions whose whole crate archive is on disk
    task,       \* the task table: kind and number of errors
    requests,   \* those under way: for which task, and who holds it
    delivered   \* holders of a download whose file has arrived

ledger == <<onDisk, task, requests, delivered>>

TaskKinds == {"download", "extract_crate"}

Request(k, v, h) == [kind |-> k, version |-> v, holder |-> h]

Put(r, state, errors) ==
    task' = [task EXCEPT ![r.kind][r.version] = [kind |-> state, errors |-> errors]]

LedgerInit ==
    /\ onDisk = {}
    /\ task = [k \in TaskKinds |->
                  [v \in Versions |-> [kind |-> "NotStarted", errors |-> 0]]]
    /\ requests = {}
    /\ delivered = {}

Issue(r) ==
    /\ task[r.kind][r.version].kind # "Complete"
    /\ \/ task[r.kind][r.version].kind # "AttemptsWithFailure"
       \/ task[r.kind][r.version].errors < MaxAttempts
    /\ r.kind = "extract_crate" => r.version \in onDisk
    /\ r \notin requests
    /\ requests' = requests \cup {r}
    /\ UNCHANGED <<onDisk, task, delivered>>

\* a download is not passed on any more once it has delivered
Pass(r, h) ==
    LET passed == [r EXCEPT !.holder = h]
    IN  /\ passed \notin requests
        /\ r.kind = "download" => r.holder \notin delivered /\ h \notin delivered
        /\ requests' = (requests \ {r}) \cup {passed}
        /\ UNCHANGED <<onDisk, task, delivered>>

\* an attempt that follows another without an outcome forgets the errors
Start(r) ==
    LET old == task[r.kind][r.version]
    IN  /\ Put(r, "InProgress", IF old.kind = "InProgress" THEN 0 ELSE old.errors)
        /\ UNCHANGED <<onDisk, requests, delivered>>

\* the last byte of a download comes, but the attempt goes on or fails
Arrive(r) ==
    /\ r.kind = "download"
    /\ onDisk' = onDisk \cup {r.version}
    /\ UNCHANGED <<task, requests, delivered>>

Deliver(r) ==
    /\ r.kind = "download" /\ r.holder \notin delivered
    /\ onDisk' = onDisk \cup {r.version}
    /\ delivered' = delivered \cup {r.holder}
    /\ requests' = requests \cup {[r EXCEPT !.kind = "extract_crate"]}
    /\ UNCHANGED task

Fail(r) ==
    /\ r.holder \notin delivered
    /\ Put(r, "AttemptsWithFailure", task[r.kind][r.version].errors + 1)
    /\ requests' = requests \ {r}
    /\ UNCHANGED <<onDisk, delivered>>

Finish(r) ==
    /\ r.version \in onDisk
    /\ r.kind = "download" =>
          r.holder \in delivered /\ [r EXCEPT !.kind = "extract_crate"] \notin requests
    /\ Put(r, "Complete", 0)
    /\ requests' = requests \ {r}
    /\ delivered' = delivered \ {r.holder}
    /\ UNCHANGED onDisk

\* a channel without receiver, a processor that ends, a restart
Lose ==
    /\ requests' \subseteq requests
    /\ delivered' \subseteq delivered
    /\ onDisk \subseteq onDisk'
    /\ onDisk' \subseteq onDisk \cup {r.version : r \in requests}
    /\ UNCHANGED task

LedgerNext ==
    \/ Lose
    \/ \E r \in requests :
          \/ Start(r) \/ Arrive(r) \/ Deliver(r) \/ Fail(r) \/ Finish(r)
          \/ \E h \in Holders : Pass(r, h)
    \/ \E k \in TaskKinds, v \in Versions, h \in Holders : Issue(Request(k, v, h))

LedgerSpec == LedgerInit /\ [][LedgerNext]_ledger
=============================================================================
