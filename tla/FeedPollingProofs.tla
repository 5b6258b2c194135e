-------------------------- MODULE FeedPollingProofs --------------------------
(***************************************************************************)
(* FeedInv is an inductive invariant of FeedPolling, and with it the first  *)
(* reading of a new feed is never downloaded, for any number of feeds and   *)
(* releases, any concurrency and any faults.  HistorySettled alone is not   *)
(* inductive: what Ingest stores comes from an answer read earlier, so      *)
(* AnswersMatch says of answers on their way what is needed of them then,   *)
(* and no 304 among them belongs to a feed that was never read.             *)
(***************************************************************************)
EXTENDS FeedPolling, TLAPS

-----------------------------------------------------------------------------
\* The publisher never makes a release younger.
LEMMA OldStaysOld ==
  ASSUME TypeOK, Publish, NEW r \in Release, stage[r] = "old"
  PROVE  stage'[r] = "old"
  <1>1. CASE UNCHANGED stage
    BY <1>1
  <1>2. CASE \E x \in Ageing : /\ stage[x] # "old"
                               /\ stage' = [stage EXCEPT ![x] =
                                              IF @ = "future" THEN "fresh" ELSE "old"]
    BY <1>2, FeedAssumption DEF TypeOK
  <1> QED
    BY <1>1, <1>2 DEF Publish

\* What is covered stays covered while releases grow older and more are settled.
LEMMA CoveredStays ==
  ASSUME NEW g, NEW tag \in Tag, NEW settled, NEW more, settled \subseteq more,
         \A r \in Release : stage[r] = "old" => stage'[r] = "old",
         Covered(g, tag, settled)
  PROVE  \A r \in UNION tag : Home[r] = g => r \in more \/ stage'[r] = "old"
  BY DEF Covered, Tag

-----------------------------------------------------------------------------
\* Types, action by action.

FeedRow == [enabled : BOOLEAN, initialized : BOOLEAN, tag : Tag]

LEMMA AnswerType ==
  ASSUME NEW full \in BOOLEAN, NEW entries \in SUBSET Release, NEW soon \in SUBSET Release,
         NEW tag \in Tag, NEW history_ \in BOOLEAN
  PROVE  [pc |-> "ingest", full |-> full, entries |-> entries, early |-> soon, tag |-> tag,
          history |-> history_] \in Job
  BY DEF Job

LEMMA RowEdited ==
  ASSUME NEW r \in FeedRow, NEW on \in BOOLEAN, NEW tag \in Tag
  PROVE  /\ [r EXCEPT !.enabled = on] \in FeedRow
         /\ [r EXCEPT !.initialized = TRUE, !.tag = tag] \in FeedRow
  BY DEF FeedRow

LEMMA TypeInit == Init => TypeOK
  BY FeedAssumption DEF Init, TypeOK, NoRow, IdlePoll, NoJob, Tag, Job, Stage

LEMMA TypeNext == TypeOK /\ [Next]_vars => TypeOK'
  <1> SUFFICES ASSUME TypeOK, [Next]_vars PROVE TypeOK'
    OBVIOUS
  <1> USE FeedAssumption
  <1>1. CASE Publish
    <2>1. listed' \in [Group -> SUBSET Release]
      BY <1>1, SMTT(30) DEF Publish, TypeOK
    <2>2. stage' \in [Release -> Stage]
      BY <1>1 DEF Publish, TypeOK, Stage
    <2> QED
      BY <1>1, <2>1, <2>2 DEF Publish, TypeOK, db, process, history
  <1>2. CASE BeginPoll
    <2>1. row' \in [Group -> FeedRow]
      <3>1. CASE UNCHANGED row
        BY <3>1 DEF TypeOK, FeedRow
      <3>2. ASSUME NEW named \in SUBSET Group, row' = Synchronised(named)
            PROVE  row' \in [Group -> FeedRow]
        <4>1. ASSUME NEW g \in Group
              PROVE  [row[g] EXCEPT !.enabled = g \in named \ excluded] \in FeedRow
          <5>1. row[g] \in FeedRow
            BY DEF TypeOK, FeedRow
          <5>2. (g \in named \ excluded) \in BOOLEAN
            OBVIOUS
          <5>3. {} \in Tag
            BY DEF Tag
          <5> QED
            BY <5>1, <5>2, <5>3, RowEdited, Zenon
        <4> QED
          BY <3>2, <4>1, Zenon DEF Synchronised
      <3> QED
        BY <1>2, <3>1, <3>2, Zenon DEF BeginPoll
    <2>2. poll' \in [pc : {"idle", "poll", "cut"}, todo : SUBSET Group]
      BY <1>2 DEF BeginPoll, TypeOK, Enabled, IdlePoll
    <2> QED
      BY <1>2, <2>1, <2>2 DEF BeginPoll, FeedRow, TypeOK, publisher, history
  <1>3. CASE Take
    <2>1. poll' \in [pc : {"idle", "poll", "cut"}, todo : SUBSET Group]
      <3>1. poll \in [pc : {"idle", "poll", "cut"}, todo : SUBSET Group]
        BY DEF TypeOK
      <3>2. PICK g \in poll.todo : poll' = [poll EXCEPT !.todo = @ \ {g}]
        BY <1>3 DEF Take
      <3> QED
        BY <3>1, <3>2
    <2>2. job' \in [Group -> Job]
      BY <1>3 DEF Take, TypeOK, Job
    <2> QED
      BY <1>3, <2>1, <2>2 DEF Take, TypeOK, publisher, db, history
  <1>4. CASE Cut
    BY <1>4 DEF Cut, TypeOK, publisher, db, history
  <1>5. CASE EndPoll
    BY <1>5 DEF EndPoll, TypeOK, IdlePoll, publisher, db, history
  <1>6. ASSUME NEW g \in Group, Unchanged(g) PROVE TypeOK'
    <2>1. NoEntries(g) \in Job
      BY AnswerType DEF NoEntries, TypeOK
    <2>2. [pc |-> "failed"] \in Job
      BY DEF Job
    <2>3. job' \in [Group -> Job]
      BY <1>6, <2>1, <2>2 DEF Unchanged, Goes, TypeOK
    <2> QED
      BY <1>6, <2>3 DEF Unchanged, Working, TypeOK, publisher, db, history
  <1>7. ASSUME NEW g \in Group, Answered(g) PROVE TypeOK'
    <2>1. PICK tag \in {{}, {listed[g]}} :
            Goes(g, [pc |-> "ingest", full |-> TRUE, entries |-> Accepted(g),
                     early |-> TooEarly(g), tag |-> tag,
                     history |-> Bootstrap /\ ~row[g].initialized])
      BY <1>7 DEF Answered
    <2>2. tag \in Tag /\ Accepted(g) \in SUBSET Release /\ TooEarly(g) \in SUBSET Release
      BY DEF TypeOK, Tag, Accepted, TooEarly
    <2>3. job' \in [Group -> Job]
      BY <2>1, <2>2, AnswerType DEF Goes, TypeOK
    <2> QED
      BY <1>7, <2>3 DEF Answered, Working, TypeOK, publisher, db, history
  <1>8. ASSUME NEW g \in Group, FetchFails(g) PROVE TypeOK'
    <2>1. job' \in [Group -> Job]
      BY <1>8 DEF FetchFails, Goes, TypeOK, Job
    <2> QED
      BY <1>8, <2>1 DEF FetchFails, Working, TypeOK, publisher, db, history
  <1>9. ASSUME NEW g \in Group, Ingest(g) PROVE TypeOK'
    <2>1. /\ job[g].entries \in SUBSET Release /\ job[g].early \in SUBSET Release
          /\ job[g].tag \in Tag
      BY <1>9, SMTT(30) DEF Ingest, Working, TypeOK, Job, NoJob
    <2>2. job' \in [Group -> Job]
      BY <1>9 DEF Ingest, Goes, TypeOK, Job
    <2>3. taken' \subseteq Release /\ receipt' \subseteq Release
      BY <1>9, <2>1 DEF Ingest, TypeOK
    <2>4. row' \in [Group -> FeedRow]
      <3>1. [row[g] EXCEPT !.initialized = TRUE, !.tag = job[g].tag] \in FeedRow
        <4>1. row[g] \in FeedRow
          BY DEF TypeOK, FeedRow
        <4> QED
          BY <4>1, <2>1, RowEdited, Zenon
      <3>2. row' = [row EXCEPT ![g] = [row[g] EXCEPT !.initialized = TRUE, !.tag = job[g].tag]]
        BY <1>9 DEF Ingest
      <3> QED
        BY <3>1, <3>2 DEF TypeOK, FeedRow
    <2>5. first' \in [Group -> SUBSET SUBSET Release] /\ early' \in [Group -> SUBSET Release]
      BY <1>9, <2>1 DEF Ingest, TypeOK
    <2> QED
      BY <1>9, <2>2, <2>3, <2>4, <2>5 DEF Ingest, FeedRow, Working, TypeOK, publisher
  <1>10. ASSUME NEW g \in Group, IngestFails(g) PROVE TypeOK'
    <2>1. job' \in [Group -> Job]
      BY <1>10 DEF IngestFails, Goes, TypeOK, Job
    <2>2. faults' \in 0..MaxFaults
      BY <1>10 DEF IngestFails, Fault, TypeOK
    <2> QED
      BY <1>10, <2>1, <2>2 DEF IngestFails, RolledBack, Working, TypeOK, publisher, history
  <1>11. ASSUME NEW g \in Group, FeedError(g) PROVE TypeOK'
    <2>1. job' \in [Group -> Job]
      BY <1>11 DEF FeedError, Goes, TypeOK, Job
    <2> QED
      BY <1>11, <2>1 DEF FeedError, Working, TypeOK, publisher, history
  <1>12. ASSUME NEW g \in Group, FeedErrorFails(g) PROVE TypeOK'
    <2>1. job' \in [Group -> Job]
      BY <1>12 DEF FeedErrorFails, Goes, TypeOK, Job
    <2>2. faults' \in 0..MaxFaults
      BY <1>12 DEF FeedErrorFails, Fault, TypeOK
    <2> QED
      BY <1>12, <2>1, <2>2 DEF FeedErrorFails, Working, TypeOK, publisher, db, history
  <1>13. CASE Restart
    <2>1. job' \in [Group -> Job] /\ poll' \in [pc : {"idle", "poll", "cut"}, todo : SUBSET Group]
      BY <1>13 DEF Restart, IdlePoll, Job
    <2>2. faults' \in 0..MaxFaults /\ excluded' \subseteq Group
      BY <1>13 DEF Restart, Fault, TypeOK
    <2> QED
      BY <1>13, <2>1, <2>2 DEF Restart, TypeOK, publisher, db, history
  <1>14. CASE UNCHANGED vars
    BY <1>14 DEF vars, TypeOK, publisher, db, process, history
  <1> QED
    BY <1>1, <1>2, <1>3, <1>4, <1>5, <1>6, <1>7, <1>8, <1>9, <1>10, <1>11, <1>12, <1>13, <1>14
       DEF Next, Feeder, PollOne

-----------------------------------------------------------------------------
\* The invariant, action by action.

Settled == NothingBehindValidator /\ AnswersMatch /\ HistorySettled

\* A step that stores nothing, ages nothing and brings in no answer.
LEMMA QuietStep ==
  ASSUME FeedInv, UNCHANGED <<stage, taken, receipt, first, early>>,
         \A g \in Group : row'[g].initialized = row[g].initialized /\ row'[g].tag = row[g].tag,
         \A g \in Group : job'[g] = job[g] \/ job'[g].pc # "ingest"
  PROVE  Settled'
  <1>1. NothingBehindValidator'
    BY DEF FeedInv, NothingBehindValidator, Covered
  <1>2. AnswersMatch'
    <2> SUFFICES ASSUME NEW g \in Group, job'[g].pc = "ingest" PROVE AnswerMatches(g)'
      BY DEF AnswersMatch
    <2>1. job'[g] = job[g] /\ AnswerMatches(g)
      BY DEF FeedInv, AnswersMatch
    <2> QED
      BY <2>1 DEF AnswerMatches, Covered
  <1>3. HistorySettled'
    BY FeedAssumption DEF FeedInv, TypeOK, HistorySettled
  <1> QED
    BY <1>1, <1>2, <1>3 DEF Settled

LEMMA PublishStep == FeedInv /\ Publish => Settled'
  <1> SUFFICES ASSUME FeedInv, Publish PROVE Settled'
    OBVIOUS
  <1>1. UNCHANGED <<row, taken, receipt, job, first, early>>
    BY DEF Publish, db, process, history
  <1>2. \A r \in Release : stage[r] = "old" => stage'[r] = "old"
    BY OldStaysOld DEF FeedInv
  <1>3. NothingBehindValidator'
    <2> SUFFICES ASSUME NEW g \in Group
                 PROVE  Covered(g, row[g].tag, taken \cup receipt \cup early[g])'
      BY <1>1 DEF NothingBehindValidator
    <2>1. row[g].tag \in Tag /\ Covered(g, row[g].tag, taken \cup receipt \cup early[g])
      BY DEF FeedInv, TypeOK, NothingBehindValidator
    <2>2. \A r \in UNION row[g].tag :
            Home[r] = g => r \in taken \cup receipt \cup early[g] \/ stage'[r] = "old"
      BY <1>2, <2>1, CoveredStays
    <2> QED
      BY <1>1, <2>2 DEF Covered
  <1>4. AnswersMatch'
    <2> SUFFICES ASSUME NEW g \in Group, job[g].pc = "ingest", AnswerMatches(g)
                 PROVE  AnswerMatches(g)'
      BY <1>1 DEF FeedInv, AnswersMatch
    <2>1. CASE job[g].full
      <3>1. job[g].tag \in Tag
        BY DEF FeedInv, TypeOK, Job, NoJob
      <3>2. Covered(g, job[g].tag, job[g].entries \cup job[g].early)
        BY <2>1 DEF AnswerMatches
      <3>3. \A r \in UNION job[g].tag :
              Home[r] = g => r \in job[g].entries \cup job[g].early \/ stage'[r] = "old"
        BY <1>2, <3>1, <3>2, CoveredStays
      <3> QED
        BY <1>1, <2>1, <3>3 DEF AnswerMatches, Covered
    <2>2. CASE ~job[g].full
      BY <1>1, <2>2 DEF AnswerMatches
    <2> QED
      BY <2>1, <2>2
  <1>5. HistorySettled'
    BY <1>1 DEF FeedInv, HistorySettled
  <1> QED
    BY <1>3, <1>4, <1>5 DEF Settled

\* A full answer holds what its validator stands for; 304 repeats what is stored.
LEMMA AnswerStep ==
  ASSUME FeedInv, NEW g \in Group, Unchanged(g) \/ Answered(g)
  PROVE  Settled'
  <1>1. UNCHANGED <<stage, row, taken, receipt, first, early>>
    BY DEF Unchanged, Answered, Working, publisher, db, history
  <1>2. NothingBehindValidator' /\ HistorySettled'
    BY <1>1 DEF FeedInv, NothingBehindValidator, Covered, HistorySettled
  <1>3. \A x \in Group : x # g => job'[x] = job[x]
    BY DEF Unchanged, Answered, Goes, FeedInv, TypeOK
  <1>4. ASSUME NEW x \in Group, x # g, job'[x].pc = "ingest" PROVE AnswerMatches(x)'
    BY <1>1, <1>3, <1>4 DEF FeedInv, AnswersMatch, AnswerMatches, Covered
  <1>5. CASE Unchanged(g)
    <2>1. job'[g] = IF Known(g) THEN NoEntries(g) ELSE [pc |-> "failed"]
      BY <1>5 DEF Unchanged, Goes, FeedInv, TypeOK
    <2>2. ASSUME job'[g].pc = "ingest" PROVE AnswerMatches(g)'
      <3>1. job'[g] = NoEntries(g) /\ row[g].initialized
        BY <2>1, <2>2 DEF Known
      <3> QED
        BY <1>1, <3>1 DEF AnswerMatches, NoEntries
    <2> QED
      BY <1>2, <1>4, <2>2 DEF Settled, AnswersMatch
  <1>6. CASE Answered(g)
    <2>1. PICK tag \in {{}, {listed[g]}} :
            job'[g] = [pc |-> "ingest", full |-> TRUE, entries |-> Accepted(g),
                       early |-> TooEarly(g), tag |-> tag,
                       history |-> Bootstrap /\ ~row[g].initialized]
      BY <1>6 DEF Answered, Goes, FeedInv, TypeOK
    <2>2. \A r \in listed[g] : Home[r] = g =>
            r \in Accepted(g) \cup TooEarly(g) \/ stage[r] = "old"
      BY DEF Accepted, TooEarly, FeedInv, TypeOK, Stage
    <2>3. Covered(g, tag, Accepted(g) \cup TooEarly(g))
      BY <2>2 DEF Covered
    <2>4. \A r \in Accepted(g) : Home[r] = g
      BY DEF Accepted
    <2>5. AnswerMatches(g)'
      BY <1>1, <2>1, <2>3, <2>4 DEF AnswerMatches, Covered
    <2> QED
      BY <1>2, <1>4, <2>5 DEF Settled, AnswersMatch
  <1> QED
    BY <1>5, <1>6

\* What Ingest stores: the releases of a first reading as history, any others as
\* work, and with them the validator.
LEMMA IngestStep ==
  ASSUME FeedInv, NEW g \in Group, Ingest(g)
  PROVE  Settled'
  <1> DEFINE a == job[g]
  <1>1. /\ a.pc = "ingest" /\ AnswerMatches(g)
        /\ a.entries \in SUBSET Release /\ a.early \in SUBSET Release
        /\ a.full \in BOOLEAN /\ a.history \in BOOLEAN
    BY DEF Ingest, Working, FeedInv, TypeOK, AnswersMatch, Job, NoJob
  <1>2. UNCHANGED stage
    BY DEF Ingest, Working, publisher
  <1>3. /\ row'[g].initialized /\ row'[g].tag = a.tag /\ early'[g] = a.early
        /\ first'[g] = IF a.full /\ first[g] = {} THEN {a.entries} ELSE first[g]
    BY DEF Ingest, FeedInv, TypeOK
  <1>4. \A x \in Group : x # g => /\ row'[x] = row[x] /\ early'[x] = early[x]
                                 /\ first'[x] = first[x] /\ job'[x] = job[x]
    BY DEF Ingest, Goes, FeedInv, TypeOK
  <1>5. job'[g].pc # "ingest"
    BY DEF Ingest, Goes, NoJob, FeedInv, TypeOK
  <1>6. IF a.history
          THEN receipt' = receipt \cup (a.entries \ receipt) /\ taken' = taken
          ELSE taken' = taken \cup (a.entries \ receipt) /\ receipt' = receipt
    BY DEF Ingest
  <1>7. a.entries \subseteq taken' \cup receipt' /\ taken \subseteq taken' /\ receipt \subseteq receipt'
    BY <1>6
  <1>8. NothingBehindValidator'
    <2>1. ASSUME NEW x \in Group, x # g
          PROVE  Covered(x, row[x].tag, taken \cup receipt \cup early[x])'
      BY <1>2, <1>4, <1>7, <2>1 DEF FeedInv, NothingBehindValidator, Covered
    <2>2. CASE a.full
      BY <1>1, <1>2, <1>3, <1>7, <2>1, <2>2 DEF NothingBehindValidator, AnswerMatches, Covered
    <2>3. CASE ~a.full
      <3>1. a.early = early[g] /\ a.tag = row[g].tag
        BY <1>1, <2>3 DEF AnswerMatches
      <3> QED
        BY <1>2, <1>3, <1>7, <2>1, <3>1 DEF FeedInv, NothingBehindValidator, Covered
    <2> QED
      BY <2>2, <2>3
  <1>9. AnswersMatch'
    <2> SUFFICES ASSUME NEW x \in Group, job'[x].pc = "ingest" PROVE AnswerMatches(x)'
      BY DEF AnswersMatch
    <2>1. x # g /\ job'[x] = job[x] /\ AnswerMatches(x)
      BY <1>4, <1>5 DEF FeedInv, AnswersMatch
    <2> QED
      BY <1>2, <1>4, <2>1 DEF AnswerMatches, Covered
  <1>10. HistorySettled'
    <2>1. \A r \in a.entries : r \in taken => row[g].initialized
      BY <1>1 DEF AnswerMatches, FeedInv, HistorySettled
    <2>2. a.history => a.entries \cap taken = {} /\ a.full /\ ~row[g].initialized /\ Bootstrap
      BY <1>1, <2>1 DEF AnswerMatches
    <2>3. taken' \cap receipt' = {}
      BY <1>6, <2>2 DEF FeedInv, HistorySettled
    <2>4. \A r \in taken' : row'[Home[r]].initialized
      BY <1>1, <1>3, <1>4, <1>6, FeedAssumption DEF AnswerMatches, FeedInv, TypeOK, HistorySettled
    <2>5. \A x \in Group : row'[x].initialized <=> first'[x] # {}
      BY <1>1, <1>3, <1>4 DEF AnswerMatches, FeedInv, HistorySettled
    <2>6. ASSUME Bootstrap, NEW x \in Group PROVE UNION first'[x] \subseteq receipt'
      <3>1. CASE x = g /\ a.full /\ first[g] = {}
        <4>1. a.history
          BY <1>1, <2>6, <3>1 DEF AnswerMatches, FeedInv, HistorySettled
        <4> QED
          BY <1>3, <1>6, <3>1, <4>1
      <3>2. CASE ~(x = g /\ a.full /\ first[g] = {})
        <4>1. first'[x] = first[x]
          BY <1>3, <1>4, <3>2
        <4> QED
          BY <1>7, <2>6, <4>1 DEF FeedInv, HistorySettled
      <3> QED
        BY <3>1, <3>2
    <2> QED
      BY <2>3, <2>4, <2>5, <2>6 DEF HistorySettled
  <1> QED
    BY <1>8, <1>9, <1>10 DEF Settled

-----------------------------------------------------------------------------

LEMMA FeedInit == Init => FeedInv
  <1>1. Init => NothingBehindValidator /\ AnswersMatch /\ HistorySettled
    BY DEF Init, NothingBehindValidator, Covered, AnswersMatch, HistorySettled, NoRow, NoJob
  <1> QED
    BY <1>1, TypeInit DEF FeedInv

LEMMA FeedNext == FeedInv /\ [Next]_vars => FeedInv'
  <1> SUFFICES ASSUME FeedInv, [Next]_vars PROVE Settled'
    BY TypeNext DEF FeedInv, Settled
  <1>1. CASE Publish
    BY <1>1, PublishStep
  <1>2. CASE BeginPoll
    <2>1. \A g \in Group : row'[g].initialized = row[g].initialized /\ row'[g].tag = row[g].tag
      BY <1>2 DEF BeginPoll, Synchronised, FeedInv, TypeOK
    <2> QED
      BY <1>2, <2>1, QuietStep DEF BeginPoll, publisher, history
  <1>3. CASE Take
    <2>1. \A g \in Group : job'[g] = job[g] \/ job'[g].pc # "ingest"
      BY <1>3 DEF Take, FeedInv, TypeOK
    <2> QED
      BY <1>3, <2>1, QuietStep DEF Take, publisher, db, history
  <1>4. CASE Cut \/ EndPoll
    BY <1>4, QuietStep DEF Cut, EndPoll, publisher, db, history
  <1>5. ASSUME NEW g \in Group, Unchanged(g) \/ Answered(g) PROVE Settled'
    BY <1>5, AnswerStep
  <1>6. ASSUME NEW g \in Group, FetchFails(g) \/ IngestFails(g) \/ FeedError(g) \/ FeedErrorFails(g)
        PROVE  Settled'
    <2>1. UNCHANGED <<stage, row, taken, receipt, first, early>>
      BY <1>6 DEF FetchFails, IngestFails, RolledBack, FeedError, FeedErrorFails, Working, publisher,
                  db, history
    <2>2. \A x \in Group : job'[x] = job[x] \/ job'[x].pc # "ingest"
      BY <1>6 DEF FetchFails, IngestFails, FeedError, FeedErrorFails, Goes, NoJob, FeedInv, TypeOK
    <2> QED
      BY <2>1, <2>2, QuietStep
  <1>7. ASSUME NEW g \in Group, Ingest(g) PROVE Settled'
    BY <1>7, IngestStep
  <1>8. CASE Restart
    <2>1. \A g \in Group : job'[g].pc # "ingest"
      BY <1>8 DEF Restart, NoJob
    <2> QED
      BY <1>8, <2>1, QuietStep DEF Restart, publisher, db, history
  <1>9. CASE UNCHANGED vars
    BY <1>9, QuietStep DEF vars, publisher, db, process, history
  <1> QED
    BY <1>1, <1>2, <1>3, <1>4, <1>5, <1>6, <1>7, <1>8, <1>9 DEF Next, Feeder, PollOne

\* Whatever is cut, fails or restarts, what a stored validator stands for was
\* read, and a feed's releases become work only after its first full reading.
THEOREM FeedInvariant == Spec => []FeedInv
  BY FeedInit, FeedNext, PTL DEF Spec

\* The history of a new feed is never downloaded (README.md:9), for any feeds,
\* releases, concurrency and faults.
THEOREM HistoryStaysHistory == Spec => []HistoryNeverDownloaded
  <1>1. FeedInv => HistoryNeverDownloaded
    BY DEF FeedInv, HistorySettled, HistoryNeverDownloaded
  <1> QED
    BY <1>1, FeedInvariant, PTL

=============================================================================
