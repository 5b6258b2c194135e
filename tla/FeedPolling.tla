------------------------------ MODULE FeedPolling ------------------------------
(***************************************************************************)
(* Poll, pollOne and parseFeed of feeds.go with SyncFeeds, Feeds, Ingest    *)
(* and FeedError of source_store.go: how the releases of the publisher's    *)
(* feeds become work, once each, and the history of a new feed does not.    *)
(*                                                                         *)
(* One goroutine polls: it reads the directory when that is due, lists the  *)
(* enabled feeds by the time they were last polled, and hands them to       *)
(* Concurrency workers until its budget of four minutes is over.  A feed is *)
(* the set of releases it lists, and its validator (ETag, Last-Modified)    *)
(* says which set: a tag holds one set, or none when there is no validator. *)
(* What becomes of a release once it is taken up, and of a corrected one,   *)
(* is DownloadPipeline's.  The table rejected, which is only ever written,  *)
(* and names of groups are left out.                                        *)
(***************************************************************************)
EXTENDS Naturals, FiniteSets

CONSTANTS
  Feeds,        \* how many groups there are; a group is its place by slug
  Release,      \* releases
  Home,         \* Home[r]: the group a release names as its own
  Listed0,      \* Listed0[g]: the releases that feed g lists at first
  Changing,     \* the pairs <<g, r>> such that g comes to list r, or not to
  Stage0,       \* Stage0[r]: the age of a release at first
  Ageing,       \* releases that grow older
  Concurrency,  \* Config.FeedConcurrency
  Bootstrap,    \* Config.Bootstrap: the first reading of a feed is history
  Optional,     \* groups that the publisher may drop and the configuration exclude
  MaxFaults     \* bound: crashes, and failed transactions

Group == 1..Feeds
Stage == {"future", "fresh", "old"}

ASSUME FeedAssumption ==
  /\ Feeds \in Nat \ {0} /\ Concurrency \in Nat \ {0} /\ MaxFaults \in Nat
  /\ Home \in [Release -> Group] /\ Stage0 \in [Release -> Stage]
  /\ Listed0 \in [Group -> SUBSET Release] /\ Changing \subseteq Group \X Release /\ Optional \subseteq Group
  /\ Ageing \subseteq Release
  /\ Bootstrap \in BOOLEAN

VARIABLES
  listed,     \* the releases each feed lists
  stage,      \* future: more than five minutes ahead; old: past FeedMaxAge
  row,        \* table feeds
  polled,     \* feeds.polled, as the rank among the feeds
  taken,      \* table sources: the releases taken up as work
  receipt,    \* receipts of kind "release" written as history
  excluded,   \* the configuration of this process
  poll,       \* the polling goroutine
  job,        \* the worker that has the feed
  faults,     \* faults so far
  first,      \* history: what the first full reading of each feed found, if any
  early       \* history: what the last full reading of each feed found too early

publisher == <<listed, stage>>
db == <<row, polled, taken, receipt>>
process == <<excluded, poll, job>>
history == <<first, early>>
vars == <<publisher, db, process, faults, history>>

-----------------------------------------------------------------------------
NoRow == [enabled |-> FALSE, initialized |-> FALSE, tag |-> {}]
IdlePoll == [pc |-> "idle", todo |-> {}]
NoJob == [pc |-> "idle"]

Init ==
  /\ listed = Listed0
  /\ stage = Stage0
  /\ row = [g \in Group |-> NoRow]
  /\ polled = [g \in Group |-> 0]
  /\ taken = {} /\ receipt = {}
  /\ excluded = {}
  /\ poll = IdlePoll /\ job = [g \in Group |-> NoJob]
  /\ faults = 0
  /\ first = [g \in Group |-> {}] /\ early = [g \in Group |-> {}]

Fault == faults < MaxFaults /\ faults' = faults + 1

\* Only the order of the times is kept; what is polled now is polled last.
Rank(time) == [g \in Group |-> Cardinality({time[x] : x \in {y \in Group : time[y] < time[g]}})]
PolledNow(g) == polled' = Rank([polled EXCEPT ![g] = Feeds])

-----------------------------------------------------------------------------
\* The publisher.

Publish ==
  /\ \/ /\ \E p \in Changing : \/ listed' = [listed EXCEPT ![p[1]] = @ \cup {p[2]}]
                               \/ listed' = [listed EXCEPT ![p[1]] = @ \ {p[2]}]
        /\ UNCHANGED stage
     \/ /\ \E r \in Ageing : /\ stage[r] # "old"
                              /\ stage' = [stage EXCEPT ![r] =
                                             IF @ = "future" THEN "fresh" ELSE "old"]
        /\ UNCHANGED listed
  /\ UNCHANGED <<db, process, faults, history>>

-----------------------------------------------------------------------------
\* Poll.

\* SyncFeeds: all rows are disabled, then those of the directory enabled.
Synchronised(directory) ==
  [g \in Group |-> [row[g] EXCEPT !.enabled = g \in directory \ excluded]]
Enabled(rows) == {g \in Group : rows[g].enabled}

\* The directory is read at the first poll of a process, and when it is old; if
\* that fails, or the directory is empty, the poll goes on with the old rows.
BeginPoll ==
  /\ poll.pc = "idle"
  /\ \/ \E dropped \in SUBSET Optional :
          Group # dropped /\ row' = Synchronised(Group \ dropped)
     \/ UNCHANGED row
  /\ poll' = IF Enabled(row') = {} THEN IdlePoll ELSE [pc |-> "poll", todo |-> Enabled(row')]
  /\ UNCHANGED <<publisher, polled, taken, receipt, excluded, job, faults, history>>

\* ORDER BY polled, slug.
BeforeBySlug(g, x) == g <= x
Before(g, x) == polled[g] < polled[x] \/ (polled[g] = polled[x] /\ g <= x)

Busy == {g \in Group : job[g].pc # "idle"}

\* The next feed goes to a worker that is free; an excluded one is passed over.
Take ==
  /\ poll.pc \in {"poll", "cut"}
  /\ Cardinality(Busy) < Concurrency
  /\ \E g \in poll.todo :
       /\ \A x \in poll.todo : Before(g, x)
       /\ poll' = [poll EXCEPT !.todo = @ \ {g}]
       /\ job' = IF g \in excluded THEN job ELSE [job EXCEPT ![g] = [pc |-> "fetch"]]
  /\ UNCHANGED <<publisher, db, excluded, faults, history>>

\* The budget is over while a worker is at work.  The goroutine may still hand
\* out a feed: both arms of its select are ready.
Cut ==
  /\ poll.pc = "poll" /\ Busy # {}
  /\ poll' = [poll EXCEPT !.pc = "cut"]
  /\ UNCHANGED <<publisher, db, excluded, job, faults, history>>

\* Every feed is done, or the rest is left for the next poll.
EndPoll ==
  /\ poll.pc = "cut" \/ (poll.pc = "poll" /\ poll.todo = {})
  /\ Busy = {}
  /\ poll' = IdlePoll
  /\ UNCHANGED <<publisher, db, excluded, job, faults, history>>

-----------------------------------------------------------------------------
\* pollOne.

Working(g, pc) ==
  /\ job[g].pc = pc
  /\ UNCHANGED <<publisher, excluded, poll>>

Goes(g, to) == job' = [job EXCEPT ![g] = to]

\* 304 has nothing to say of a feed that was never read.
KnownAlways(g) == TRUE
Known(g) == row[g].initialized

NoEntries(g) ==
  [pc |-> "ingest", full |-> FALSE, entries |-> {}, early |-> early[g], tag |-> row[g].tag,
   history |-> FALSE]

\* A validator is sent for a feed that was read.  For one that never was, the
\* answer 304 is a fault of the publisher, or of a cache before it.
Unchanged(g) ==
  /\ Working(g, "fetch") /\ poll.pc # "cut"
  /\ row[g].initialized => row[g].tag = {listed[g]}
  /\ Goes(g, IF Known(g) THEN NoEntries(g) ELSE [pc |-> "failed"])
  /\ UNCHANGED <<db, faults, history>>

\* parseFeed: an entry that is too early is skipped; one that names another
\* group, or is too old, is rejected for this feed alone.
AcceptedFromAnyone(g) == {r \in listed[g] : stage[r] = "fresh"}
Accepted(g) == {r \in listed[g] : Home[r] = g /\ stage[r] = "fresh"}
TooEarly(g) == {r \in listed[g] : stage[r] = "future"}

Answered(g) ==
  /\ Working(g, "fetch") /\ poll.pc # "cut"
  /\ \E tag \in {{}, {listed[g]}} :
       Goes(g, [pc |-> "ingest", full |-> TRUE, entries |-> Accepted(g),
                early |-> TooEarly(g), tag |-> tag,
                history |-> Bootstrap /\ ~row[g].initialized])
  /\ UNCHANGED <<db, faults, history>>

\* No answer, a bad one, or the budget is over.
FetchFails(g) ==
  /\ Working(g, "fetch")
  /\ Goes(g, [pc |-> "failed"])
  /\ UNCHANGED <<db, faults, history>>

\* Ingest: the releases, the validator and the time, in one transaction.
Ingest(g) ==
  /\ Working(g, "ingest")
  /\ LET new == job[g].entries \ receipt IN
       IF job[g].history
         THEN receipt' = receipt \cup new /\ taken' = taken
         ELSE taken' = taken \cup new /\ receipt' = receipt
  /\ row' = [row EXCEPT ![g] = [@ EXCEPT !.initialized = TRUE, !.tag = job[g].tag]]
  /\ PolledNow(g)
  /\ first' = IF job[g].full /\ first[g] = {}
                THEN [first EXCEPT ![g] = {job[g].entries}] ELSE first
  /\ early' = [early EXCEPT ![g] = job[g].early]
  /\ Goes(g, NoJob)
  /\ UNCHANGED faults

ValidatorKept(g) == row' = [row EXCEPT ![g].tag = job[g].tag]
RolledBack(g) == UNCHANGED row

IngestFails(g) ==
  /\ Working(g, "ingest")
  /\ RolledBack(g)
  /\ IF poll.pc = "cut" THEN UNCHANGED faults ELSE Fault
  /\ Goes(g, [pc |-> "failed"])
  /\ UNCHANGED <<polled, taken, receipt, history>>

\* FeedError, which has a budget of its own.
FeedError(g) ==
  /\ Working(g, "failed")
  /\ PolledNow(g)
  /\ Goes(g, NoJob)
  /\ UNCHANGED <<row, taken, receipt, faults, history>>

FeedErrorFails(g) ==
  /\ Working(g, "failed")
  /\ Fault
  /\ Goes(g, NoJob)
  /\ UNCHANGED <<db, history>>

PollOne(g) ==
  \/ Unchanged(g) \/ Answered(g) \/ FetchFails(g)
  \/ Ingest(g) \/ IngestFails(g) \/ FeedError(g) \/ FeedErrorFails(g)

Feeder ==
  \/ BeginPoll \/ Take \/ EndPoll
  \/ \E g \in Group : PollOne(g)

-----------------------------------------------------------------------------
\* The process ends, and starts with another configuration.
Restart ==
  /\ Fault
  /\ excluded' \in SUBSET Optional
  /\ poll' = IdlePoll /\ job' = [g \in Group |-> NoJob]
  /\ UNCHANGED <<publisher, db, history>>

Next == Publish \/ Feeder \/ Cut \/ Restart

Spec == Init /\ [][Next]_vars

\* The goroutine and its workers go on (each request and transaction has a
\* budget), a select whose arms are both ready does not always take the same,
\* and a feed that is asked again and again is answered, and its answer stored,
\* at some time.
Progress ==
  /\ WF_vars(Feeder) /\ SF_vars(EndPoll /\ poll.todo # {})
  /\ \A g \in Group : /\ SF_vars(Answered(g) \/ (Unchanged(g) /\ row[g].initialized))
                      /\ SF_vars(Ingest(g))

FairSpec == Spec /\ Progress

-----------------------------------------------------------------------------
\* Properties.

Tag == SUBSET SUBSET Release
Job ==
  {NoJob, [pc |-> "fetch"], [pc |-> "failed"]}
    \cup [pc : {"ingest"}, full : BOOLEAN, entries : SUBSET Release,
          early : SUBSET Release, tag : Tag, history : BOOLEAN]

TypeOK ==
  /\ excluded \subseteq Group
  /\ listed \in [Group -> SUBSET Release] /\ stage \in [Release -> Stage]
  /\ row \in [Group -> [enabled : BOOLEAN, initialized : BOOLEAN, tag : Tag]]
  /\ taken \subseteq Release /\ receipt \subseteq Release
  /\ poll \in [pc : {"idle", "poll", "cut"}, todo : SUBSET Group]
  /\ job \in [Group -> Job]
  /\ faults \in 0..MaxFaults
  /\ first \in [Group -> SUBSET SUBSET Release] /\ early \in [Group -> SUBSET Release]

\* What a validator of feed g stands for is settled, or too old.
Covered(g, tag, settled) ==
  \A r \in UNION tag : Home[r] = g => r \in settled \/ stage[r] = "old"

\* What a stored validator stands for was read: the releases the feed listed
\* under it are work or history, are too old, or were skipped as too early.
\* Ingest stores the two together, so that no failure between them makes the
\* publisher answer "unchanged" about releases nobody has.
NothingBehindValidator ==
  \A g \in Group : Covered(g, row[g].tag, taken \cup receipt \cup early[g])

\* An answer on its way into the tables holds what its validator stands for, and
\* an answer 304 adds nothing to what is stored.
AnswerMatches(g) ==
  LET answer == job[g] IN
  /\ \A r \in answer.entries : Home[r] = g
  /\ IF answer.full
       THEN /\ answer.history = (Bootstrap /\ ~row[g].initialized)
            /\ Covered(g, answer.tag, answer.entries \cup answer.early)
       ELSE /\ answer.entries = {} /\ answer.early = early[g] /\ answer.tag = row[g].tag
            /\ ~answer.history /\ row[g].initialized
AnswersMatch == \A g \in Group : job[g].pc = "ingest" => AnswerMatches(g)

\* A feed is initialized by its first full reading; from then on its releases
\* are work, and those of that reading are history.
HistorySettled ==
  /\ taken \cap receipt = {}
  /\ \A r \in taken : row[Home[r]].initialized
  /\ \A g \in Group :
       /\ row[g].initialized <=> first[g] # {}
       /\ Bootstrap => UNION first[g] \subseteq receipt

\* The values of the tables and goroutines, and what keeps validator, answers
\* and history in step (feeds.go:217 refuses 304 for a feed that was never read,
\* source_store.go:131 stores entries, validator and flag at once).
FeedInv == TypeOK /\ NothingBehindValidator /\ AnswersMatch /\ HistorySettled

\* The first reading of a new feed is history and is never downloaded
\* (README.md:9), whatever fails, is cut short or answers 304 before it.
HistoryNeverDownloaded ==
  Bootstrap => \A g \in Group : (UNION first[g]) \cap taken = {}

\* Every enabled feed is asked again and again, although every poll may be cut
\* after its first feed: a feed that failed goes to the end of the line.
Due(g) == row[g].enabled /\ g \notin excluded
EveryFeedIsAsked == \A g \in Group : []<>(Due(g) => job[g].pc # "idle")

\* A release that stays listed, in its own feed and in age, is taken up, or is
\* that feed's history: not even another feed that lists it first can prevent it
\* (docs/validation.md:17).  What a feed listed too early waits for a change.
Awaited(r) ==
  LET g == Home[r] IN
  /\ Due(g) /\ r \in listed[g] /\ stage[r] = "fresh"
  /\ r \notin taken \cup UNION first[g]
  /\ ~(r \in early[g] /\ row[g].tag = {listed[g]})
ListedReleaseIsTakenUp == \A r \in Release : Awaited(r) ~> ~Awaited(r)

=============================================================================
