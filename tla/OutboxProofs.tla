------------------------------ MODULE OutboxProofs ------------------------------
(***************************************************************************)
(* No notice is lost, for any events, days, faults and operator commands,   *)
(* and receipts tell of what was shown.                                     *)
(***************************************************************************)
EXTENDS Outbox, TLAPS

LEMMA InitOutbox == Init => OutboxInv
BY OutboxAssumption
   DEF Init, OutboxInv, TypeOK, NothingUntold, ReceiptsAreTrue, AnswersAreTrue, Idle, Claimed, Notice, Day, Acknowledged

LEMMA FreshIsRow == Fresh \in Row
BY OutboxAssumption DEF Fresh, Row

LEMMA RetriedIsRow == \A r \in Row : Retried(r) \in Row
<1> SUFFICES ASSUME NEW r \in Row PROVE Retried(r) \in Row
  OBVIOUS
<1>1. r.attempts \in 0..MaxAttempts /\ r.phase \in {"send", "blocked"}
  BY DEF Row
<1>2. Counted(r.attempts + 1) \in 0..MaxAttempts
  BY <1>1, OutboxAssumption DEF Counted
<1> QED
  BY <1>1, <1>2 DEF Retried, Row

\* Writing a notice adds its row or finds it.
LEMMA PutTyped ==
  ASSUME TypeOK, NEW k \in Notice, Put(k)
  PROVE  /\ DOMAIN row' = DOMAIN row \cup {k}
         /\ \A i \in DOMAIN row' : row'[i] \in Row
BY FreshIsRow DEF Put, TypeOK

LEMMA NextOutbox == OutboxInv /\ [Next]_vars => OutboxInv'
<1> SUFFICES ASSUME OutboxInv, [Next]_vars PROVE OutboxInv'
  OBVIOUS
<1> USE DEF OutboxInv, TypeOK, NothingUntold, ReceiptsAreTrue, AnswersAreTrue
<1>1. ASSUME NEW k \in Event, Happens(k)
      PROVE  OutboxInv'
  <2>1. k \in Notice /\ k \notin Day
    BY OutboxAssumption DEF Notice
  <2>2. /\ DOMAIN row' = DOMAIN row \cup {k}
        /\ \A i \in DOMAIN row' : row'[i] \in Row
    BY <1>1, <2>1, PutTyped DEF Happens
  <2>3. owed' = owed \/ (owed' = owed \cup {k} /\ ~Showing(k))
    BY <1>1 DEF Happens
  <2>4. AnswersAreTrue'
    BY <1>1, <2>3 DEF Happens, Showing
  <2> QED
    BY <1>1, <2>1, <2>2, <2>3, <2>4 DEF Happens
<1>2. CASE DayComes
  BY <1>2, OutboxAssumption DEF DayComes, db, history
<1>3. CASE Summary
  <2>1. today \in Notice /\ today \in Day /\ today \notin receipt
    BY <1>3, OutboxAssumption DEF Summary, Notice, Day
  <2>2. /\ DOMAIN row' = DOMAIN row \cup {today}
        /\ \A i \in DOMAIN row' : row'[i] \in Row
    BY <1>3, <2>1, PutTyped DEF Summary
  <2>3. owed' = owed \/ (owed' = owed \cup {today} /\ today \notin DOMAIN row)
    BY <1>3 DEF Summary
  <2> QED
    BY <1>3, <2>1, <2>2, <2>3 DEF Summary
<1>4. CASE Claim
  BY <1>4 DEF Claim, history
<1>5. ASSUME NEW k \in Notice, Deliver(k)
      PROVE  OutboxInv'
  <2>1. job' = [job EXCEPT !.pc = "answered", !.answer = "ok"] /\ job.key = k /\ job.pc = "sending"
    BY <1>5 DEF Deliver
  <2>2. job'.pc = "answered" /\ job'.key = k /\ job'.answer = "ok"
    BY <2>1
  <2> QED
    BY <1>5, <2>1, <2>2 DEF Deliver, db
<1>6. CASE Fail
  <2>1. /\ job.pc = "sending"
        /\ job'.pc = "answered" /\ job'.key = job.key /\ job'.answer \in {"none", "refused"}
    BY <1>6 DEF Fail
  <2>2. delivered \subseteq delivered' /\ delivered' \in SUBSET Notice /\ owed' \subseteq owed
    BY <1>6 DEF Fail, history
  <2>3. ~Acknowledged(job'.answer)
    BY <2>1 DEF Acknowledged
  <2> QED
    BY <1>6, <2>1, <2>2, <2>3 DEF Fail, db
<1>7. CASE Finish
  <2>1. job.key \in DOMAIN row \ lapsing /\ job.key \in delivered \ owed
    BY <1>7 DEF Finish
  <2>2. /\ DOMAIN row' = DOMAIN row \ {job.key}
        /\ \A k \in DOMAIN row' : row'[k] \in Row
    BY <1>7 DEF Finish, Without
  <2>3. job' = [pc |-> "idle", key |-> 0, answer |-> "none"]
    BY <1>7 DEF Finish, Idle
  <2> QED
    BY <1>7, <2>1, <2>2, <2>3 DEF Finish, history
<1>8. CASE Retry
  <2>1. /\ DOMAIN row' = DOMAIN row
        /\ \A k \in DOMAIN row' : row'[k] \in Row
    BY <1>8, RetriedIsRow DEF Retry
  <2>2. job' = [pc |-> "idle", key |-> 0, answer |-> "none"]
    BY <1>8 DEF Retry, Idle
  <2> QED
    BY <1>8, <2>1, <2>2 DEF Retry, history
<1>9. CASE NotSettled
  BY <1>9 DEF NotSettled, Idle, history
<1>10. ASSUME NEW k \in Notice, LeaseEnds(k) \/ ComesDue(k)
       PROVE  OutboxInv'
  BY <1>10 DEF LeaseEnds, ComesDue, history
<1>11. CASE Crash
  <2>1. /\ DOMAIN row' = DOMAIN row
        /\ \A k \in DOMAIN row' : row'[k] \in Row
    <3>1. \A r \in Row : [r EXCEPT !.due = "later"] \in Row
      BY DEF Row
    <3> QED
      BY <1>11, <3>1 DEF Crash
  <2>2. job' = [pc |-> "idle", key |-> 0, answer |-> "none"]
    BY <1>11 DEF Crash, Idle
  <2> QED
    BY <1>11, <2>1, <2>2 DEF Crash, history
<1>12. ASSUME NEW k \in Notice, NEW c \in Event, Cancel(k, c)
       PROVE  OutboxInv'
  <2>1. c \in Notice /\ c \notin Day /\ c \notin DOMAIN row /\ k \in DOMAIN row /\ k \notin lapsing
    BY <1>12, OutboxAssumption DEF Cancel, Notice, Claimed
  <2>2. job.pc # "idle" => job.key # k /\ job.key # c
    BY <1>12, <2>1 DEF Cancel, Claimed
  <2>3. /\ DOMAIN row' = (DOMAIN row \ {k}) \cup {c}
        /\ \A i \in DOMAIN row' : row'[i] \in Row
    <3>1. row' = [i \in (DOMAIN row \ {k}) \cup {c} |-> IF i = c THEN Fresh ELSE row[i]]
      BY <1>12 DEF Cancel
    <3> QED
      BY <3>1, FreshIsRow
  <2>4. /\ owed' = (owed \ {k}) \cup {c}
        /\ job' = job /\ lapsing' = lapsing /\ receipt' = receipt /\ delivered' = delivered /\ today' = today
    BY <1>12 DEF Cancel
  <2> QED
    BY <2>1, <2>2, <2>3, <2>4
<1>13. ASSUME NEW k \in Notice, SendAtOnce(k)
       PROVE  OutboxInv'
  <2>1. /\ DOMAIN row' = DOMAIN row
        /\ \A i \in DOMAIN row' : row'[i] \in Row
    BY <1>13, FreshIsRow DEF SendAtOnce
  <2> QED
    BY <1>13, <2>1 DEF SendAtOnce, history
<1>14. CASE UNCHANGED vars
  BY <1>14 DEF vars, db, history
<1> QED
  BY <1>1, <1>2, <1>3, <1>4, <1>5, <1>6, <1>7, <1>8, <1>9, <1>10, <1>11, <1>12, <1>13, <1>14 DEF Next

\* What happened is told, is being told, or was dropped by the operator, and
\* receipts are true.
THEOREM OutboxInvariant == Spec => []OutboxInv
<1> QED
  BY InitOutbox, NextOutbox, PTL DEF Spec

=============================================================================
