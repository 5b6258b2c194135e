------------------------------- MODULE Outbox -------------------------------
(***************************************************************************)
(* Notices to the operator: event of store.go writes a notice in the        *)
(* transaction of the change it tells of, Summary of observe.go one for     *)
(* each day, and Step of notify.go sends them, one at a time, with the      *)
(* claims of the task store.  Operators retry and cancel notices            *)
(* (operations.go).  The lane notify never blocks (store.go:238).           *)
(*                                                                         *)
(* Telegram is external: it may deliver a message and its answer be lost,   *)
(* ask for a pause, or refuse a text for ever.                              *)
(*                                                                         *)
(* A notice is its key, and rows with one key have one text.  The clock is  *)
(* left out: a row waits until it is due, and the rows that are due stand   *)
(* in the order of Claim.  A job ends within its ten seconds, so its lease  *)
(* of a minute runs out only when neither Finish nor Retry could be         *)
(* written.  The lines of the table events are only written.                *)
(***************************************************************************)
EXTENDS Naturals, Sequences

CONSTANTS
  Event,        \* keys of events
  Days,         \* bound: days with a summary
  Poison,       \* notices whose text Telegram refuses
  MaxAttempts,  \* Config.MaxAttempts
  MaxEvents,    \* bound: events
  MaxFaults,    \* bound: crashes, failed transactions
  MaxRetries    \* bound: retries by the operator

Day == 1..Days
Notice == Event \cup Day

ASSUME OutboxAssumption ==
  /\ Poison \subseteq Notice /\ Event \cap Day = {}
  /\ Days \in Nat /\ MaxAttempts \in Nat
  /\ MaxEvents \in Nat /\ MaxFaults \in Nat /\ MaxRetries \in Nat

VARIABLES
  row,        \* the rows of lane notify, by key
  line,       \* the rows that are due and not claimed, by due and updated
  job,        \* the notifications goroutine
  lapsing,    \* rows whose lease runs on without a job
  receipt,    \* receipts of kinds notification and summary
  today,      \* the last day that has come to its SUMMARY_HOUR; 0: none
  delivered,  \* history: the notices that Telegram has shown
  owed,       \* history: the notices with an event not shown since
  left        \* what is left of the bounds

db == <<row, line, lapsing, receipt>>
history == <<delivered, owed>>
vars == <<db, job, today, history, left>>

Fresh == [phase |-> "send", attempts |-> 0, due |-> "at once"]
Idle == [pc |-> "idle", key |-> 0, answer |-> "none"]
Claimed == lapsing \cup (IF job.pc = "idle" THEN {} ELSE {job.key})

\* INSERT OR IGNORE: a row of this key keeps its place.
Put(k) ==
  /\ row' = IF k \in DOMAIN row THEN row ELSE [i \in DOMAIN row \cup {k} |-> IF i = k THEN Fresh ELSE row[i]]
  /\ line' = IF k \in DOMAIN row THEN line ELSE Append(line, k)

Without(k) == [i \in DOMAIN row \ {k} |-> row[i]]

\* ORDER BY due,updated: new rows before those that were sent in vain.
Foremost(k) ==
  LET new == SelectSeq(line, LAMBDA i : row[i].due = "at once") IN
  line # <<>> /\ k = Head(IF new # <<>> THEN new ELSE line)

AcknowledgedByStatus(answer) == answer # "none"     \* mutant

\* HTTP 200 with "ok", and no request to wait.
Acknowledged(answer) == answer = "ok"

Counted(n) == IF n < MaxAttempts THEN n ELSE MaxAttempts

RetriedBlocking(r) == [phase |-> IF r.attempts + 1 >= MaxAttempts THEN "blocked" ELSE r.phase,
  attempts |-> Counted(r.attempts + 1), due |-> "later"]  \* mutant

\* Retry counts without a limit; the model stops counting at MaxAttempts.
Retried(r) == [phase |-> r.phase, attempts |-> Counted(r.attempts + 1), due |-> "later"]

-----------------------------------------------------------------------------
Init ==
  /\ row = [k \in {} |-> Fresh] /\ line = <<>> /\ job = Idle /\ lapsing = {} /\ receipt = {}
  /\ today = 0 /\ delivered = {} /\ owed = {}
  /\ left = [events |-> MaxEvents, faults |-> MaxFaults, retries |-> MaxRetries]

Spend(what) == left[what] > 0 /\ left' = [left EXCEPT ![what] = @ - 1]

\* The message that is being answered has been shown: an event of its key that
\* is recorded now counts as told by it.
Showing(k) == job.pc = "answered" /\ job.key = k /\ k \in delivered

\* A transaction that changes a task writes its notice.
Happens(k) ==
  /\ Spend("events") /\ Put(k)
  /\ owed' = IF Showing(k) THEN owed ELSE owed \cup {k}
  /\ UNCHANGED <<job, lapsing, receipt, today, delivered>>

DayComes ==
  /\ today < Days /\ today' = today + 1
  /\ UNCHANGED <<db, job, history, left>>

\* Every minute after SUMMARY_HOUR.
Summary ==
  /\ today # 0 /\ today \notin receipt
  /\ Put(today)
  /\ owed' = IF today \in DOMAIN row THEN owed ELSE owed \cup {today}
  /\ UNCHANGED <<job, lapsing, receipt, today, delivered, left>>

Claim ==
  /\ job.pc = "idle"
  /\ \E k \in DOMAIN row :
       /\ row[k].phase = "send" /\ k \notin lapsing /\ Foremost(k)
       /\ job' = [pc |-> "sending", key |-> k, answer |-> "none"]
       /\ line' = SelectSeq(line, LAMBDA i : i # k)
  /\ UNCHANGED <<row, lapsing, receipt, today, history, left>>

\* Telegram shows the message and says so.
Deliver(k) ==
  /\ job.pc = "sending" /\ job.key = k /\ k \notin Poison
  /\ delivered' = delivered \cup {k} /\ owed' = owed \ {k}
  /\ job' = [job EXCEPT !.pc = "answered", !.answer = "ok"]
  /\ UNCHANGED <<db, today, left>>

\* Its answer is lost, or it refuses, for now (429) or for ever.
Fail ==
  /\ job.pc = "sending"
  /\ \/ \E answer \in {"none", "refused"} :
          job' = [job EXCEPT !.pc = "answered", !.answer = answer] /\ UNCHANGED history
     \/ /\ job.key \notin Poison
        /\ job' = [job EXCEPT !.pc = "answered", !.answer = "none"]
        /\ delivered' = delivered \cup {job.key} /\ owed' = owed \ {job.key}
  /\ UNCHANGED <<db, today, left>>

Finish ==
  /\ job.pc = "answered" /\ Acknowledged(job.answer)
  /\ receipt' = receipt \cup {job.key} /\ row' = Without(job.key) /\ job' = Idle
  /\ UNCHANGED <<line, lapsing, today, history, left>>

\* After any other answer, or when Finish could not be written.
Retry ==
  /\ job.pc = "answered"
  /\ IF Acknowledged(job.answer) THEN Spend("faults") ELSE UNCHANGED left
  /\ row' = [row EXCEPT ![job.key] = Retried(@)] /\ job' = Idle
  /\ UNCHANGED <<line, lapsing, receipt, today, history>>

\* Neither is written.
NotSettled ==
  /\ job.pc = "answered" /\ Spend("faults")
  /\ lapsing' = lapsing \cup {job.key} /\ job' = Idle
  /\ UNCHANGED <<row, line, receipt, today, history>>

LeaseEnds(k) ==
  /\ k \in lapsing /\ lapsing' = lapsing \ {k} /\ line' = <<k>> \o line
  /\ UNCHANGED <<row, job, receipt, today, history, left>>

ComesDue(k) ==
  /\ k \in DOMAIN row /\ k \notin Claimed /\ (\A i \in 1..Len(line) : line[i] # k) /\ row[k].phase = "send"
  /\ line' = Append(line, k)
  /\ UNCHANGED <<row, job, lapsing, receipt, today, history, left>>

\* The process dies, and Recover puts off what was claimed.
Crash ==
  /\ Spend("faults")
  /\ job' = Idle /\ lapsing' = {}
  /\ row' = [k \in DOMAIN row |-> IF k \in Claimed THEN [row[k] EXCEPT !.due = "later"] ELSE row[k]]
  /\ UNCHANGED <<line, receipt, today, history>>

\* The operator drops a notice that is not claimed, which is an event itself,
\* or has it sent at once.
Cancel(k, c) ==
  /\ k \in DOMAIN row \ Claimed /\ c \in Event \ DOMAIN row /\ Spend("events")
  /\ row' = [i \in (DOMAIN row \ {k}) \cup {c} |-> IF i = c THEN Fresh ELSE row[i]]
  /\ line' = Append(SelectSeq(line, LAMBDA i : i # k), c)
  /\ owed' = (owed \ {k}) \cup {c}
  /\ UNCHANGED <<job, lapsing, receipt, today, delivered>>

SendAtOnce(k) ==
  /\ k \in DOMAIN row \ Claimed /\ Spend("retries")
  /\ row' = [row EXCEPT ![k] = Fresh]
  /\ line' = Append(SelectSeq(line, LAMBDA i : i # k), k)
  /\ UNCHANGED <<job, lapsing, receipt, today, history>>

Next ==
  \/ DayComes \/ Summary \/ Claim \/ Fail \/ Finish \/ Retry \/ NotSettled \/ Crash
  \/ \E k \in Event : Happens(k)
  \/ \E k \in Notice : Deliver(k) \/ LeaseEnds(k) \/ ComesDue(k) \/ SendAtOnce(k)
  \/ \E k \in Notice, c \in Event : Cancel(k, c)

Spec == Init /\ [][Next]_vars

(***************************************************************************)
(* The loops run, requests end, rows come due, and a message that is sent   *)
(* again and again is shown and acknowledged some time.                     *)
(***************************************************************************)
Fairness ==
  /\ WF_vars(Summary) /\ WF_vars(Claim) /\ WF_vars(Fail) /\ WF_vars(Finish \/ Retry)
  /\ \A k \in Notice : WF_vars(LeaseEnds(k)) /\ WF_vars(ComesDue(k)) /\ SF_vars(Deliver(k))

FairSpec == Spec /\ Fairness

-----------------------------------------------------------------------------
Row == [phase : {"send", "blocked"}, attempts : 0..MaxAttempts, due : {"at once", "later"}]

TypeOK ==
  /\ DOMAIN row \subseteq Notice /\ \A k \in DOMAIN row : row[k] \in Row
  /\ job \in [pc : {"idle", "sending", "answered"}, key : Notice \cup {0}, answer : {"none", "ok", "refused"}]
  /\ lapsing \subseteq DOMAIN row /\ (job.pc # "idle" => job.key \in DOMAIN row \ lapsing)
  /\ {receipt, delivered, owed} \subseteq SUBSET Notice /\ today \in 0..Days

\* What happened is told, is being told, or was dropped by the operator: no
\* lost answer, refusal, crash or restart loses a notice (notify.go:41).
NothingUntold == owed \subseteq DOMAIN row

\* A receipt is written only for what was shown, and a day that has one has no
\* summary to be sent again (observe.go:196).
ReceiptsAreTrue == receipt \subseteq delivered /\ receipt \cap Day \cap DOMAIN row = {}

\* What is about to be finished has been shown, and no event came since.
AnswersAreTrue ==
  job.pc = "answered" /\ Acknowledged(job.answer) => job.key \in delivered \ owed

OutboxInv == TypeOK /\ NothingUntold /\ ReceiptsAreTrue /\ AnswersAreTrue

\* Every notice is shown or dropped in the end, although others are refused for
\* ever and answers are lost (store.go:238).
NoticesArrive == \A k \in Notice \ Poison : k \in owed ~> k \notin owed

=============================================================================
