--------------------------- MODULE ObservationProofs ---------------------------
(***************************************************************************)
(* The copy that the worker keeps of qB's torrents by deltas is true, the   *)
(* rows of traffic hold what qB uploaded, and so does what Traffic adds up  *)
(* from them: for any number of torrents, any run, and any lost, malformed  *)
(* or foreign answers and restarts.                                         *)
(***************************************************************************)
EXTENDS Observation, FiniteSetTheorems, WellFoundedInduction, TLAPS

\* qB finds an id that neither its stream, the worker nor an answer refers to.
LEMMA NewIdIsNew ==
  ASSUME TypeOK
  PROVE  /\ NewId \in Id \ {0}
         /\ NewId \notin {client.rid, qb.last.id, qb.accepted.id} \cup {a.id : a \in answer}
<1> DEFINE used == {client.rid, qb.last.id, qb.accepted.id} \cup {a.id : a \in answer}
<1>1. \E x : used \subseteq {client.rid, qb.last.id, qb.accepted.id, x}
  BY DEF TypeOK
<1>2. \E i \in Id \ {0} : i \notin used
  <2>1. PICK x : used \subseteq {client.rid, qb.last.id, qb.accepted.id, x}
    BY <1>1
  <2>2. \E i \in {1, 2, 3, 4, 5} : i # client.rid /\ i # qb.last.id /\ i # qb.accepted.id /\ i # x
    OBVIOUS
  <2> QED
    BY <2>1, <2>2 DEF Id
<1> QED
  BY <1>2 DEF NewId

\* A full answer replaces the copy.
LEMMA FullReplaces ==
  ASSUME TypeOK, NEW id, NEW data \in Data
  PROVE  LET a == Everything(id, data) IN
         Snapshot(a).torrents = data.torrents /\ Snapshot(a).server = {data.up}
BY DEF Everything, Snapshot, Merged, Data, Torrents, TypeOK

\* A difference to what the copy is brings it to what qB has.
LEMMA DeltaCompletes ==
  ASSUME TypeOK, NEW id, NEW old \in Data, NEW data \in Data, CopyIs(old)
  PROVE  LET a == Delta(id, old, data) IN
         Snapshot(a).torrents = data.torrents /\ Snapshot(a).server = {data.up}
<1> DEFINE a == Delta(id, old, data)
<1>1. Snapshot(a).torrents = [h \in Torrent |-> data.torrents[h]]
  <2> SUFFICES ASSUME NEW h \in Torrent
               PROVE  Snapshot(a).torrents[h] = data.torrents[h]
    BY DEF Snapshot
  <2> QED
    BY DEF Delta, Snapshot, Merged, CopyIs, Data
<1>2. Snapshot(a).server = {data.up}
  BY DEF Delta, Snapshot, CopyIs
<1> QED
  BY <1>1, <1>2 DEF Data, Torrents

LEMMA AnswersAreChanges ==
  ASSUME NEW id \in Id \ {0}, NEW old \in Data, NEW data \in Data
  PROVE  Everything(id, data) \in Change /\ Delta(id, old, data) \in Change
BY DEF Everything, Delta, Change

LEMMA CurrentIsData ==
  ASSUME TypeOK
  PROVE  Current \in Data /\ Unanswered \in Answered /\ (\A a \in answer : a \in Change)
BY DEF TypeOK, Current, Data, Unanswered, Answered, Nothing, Torrents, Id

LEMMA SnapshotsTyped ==
  ASSUME TypeOK, NEW a \in Change, NEW part \in SUBSET a.changed
  PROVE  /\ Snapshot(a) \in [rid : Id, torrents : Torrents, server : SUBSET Nat]
         /\ Bad(a, part) \in [rid : Id, torrents : Torrents, server : SUBSET Nat]
<1>1. a.data.torrents \in Torrents /\ a.data.up \in Nat /\ a.id \in Id /\ client.torrents \in Torrents
      /\ client.server \subseteq Nat /\ a.changed \subseteq Torrent
  BY DEF TypeOK, Change, Data
<1>2. \A q \in SUBSET a.changed : Merged(a, q) \in Torrents
  BY <1>1 DEF Merged, Torrents
<1>3. [h \in Torrent |-> IF h \in a.removed THEN Absent ELSE Merged(a, a.changed)[h]] \in Torrents
  BY <1>2 DEF Torrents
<1> QED
  BY <1>1, <1>2, <1>3 DEF Snapshot, Bad, Id

-----------------------------------------------------------------------------
LEMMA InitStream == Init => StreamInv
<1> SUFFICES ASSUME Init PROVE StreamInv
  OBVIOUS
<1>1. TypeOK
  BY ObservationAssumption DEF Init, TypeOK, Nothing, Torrents, Unanswered, Answered, Data, NewClient, Id
<1>2. StreamsAgree /\ AnswerBringsCopyUp
  BY DEF Init, StreamsAgree, AnswerBringsCopyUp, NewClient
<1> QED
  BY <1>1, <1>2 DEF StreamInv

\* Steps that leave the streams alone keep the agreement.
LEMMA StreamsUntouched ==
  ASSUME StreamInv, UNCHANGED <<client, answer, qb.last, qb.accepted>>
  PROVE  StreamsAgree' /\ AnswerBringsCopyUp'
BY DEF StreamInv, StreamsAgree, AnswerBringsCopyUp, CopyIs, Snapshot, Merged

\* Steps that end an answer without taking its id leave the worker with the
\* copy it had, or with none.
LEMMA AnswerDropped ==
  ASSUME StreamInv, answer' = {}, UNCHANGED qb, client' = client \/ client'.rid = 0
  PROVE  StreamsAgree' /\ AnswerBringsCopyUp'
BY DEF StreamInv, StreamsAgree, AnswerBringsCopyUp, CopyIs

\* Steps that take an answer.
LEMMA AnswerTaken ==
  ASSUME StreamInv, NEW a \in answer, client' = Snapshot(a), answer' = {}, UNCHANGED qb
  PROVE  StreamsAgree' /\ AnswerBringsCopyUp' /\ CopyIs(a.data)'
<1>1. CopyIs(a.data)'
  BY DEF StreamInv, AnswerBringsCopyUp, CopyIs
<1>2. client'.rid = a.id
  BY DEF Snapshot
<1>3. \A b \in {qb.last, qb.accepted} : b.id = a.id => b.data = a.data
  BY DEF StreamInv, AnswerBringsCopyUp
<1> QED
  BY <1>1, <1>2, <1>3 DEF StreamsAgree, AnswerBringsCopyUp, CopyIs

\* A request is answered by what brings the copy up.
LEMMA Answering ==
  ASSUME StreamInv, NEW next, Ask(next)
  PROVE  StreamInv'
<1> USE DEF StreamInv
<1>1. NewId \in Id \ {0} /\ NewId \notin {client.rid, qb.last.id, qb.accepted.id}
  BY NewIdIsNew
<1>2. Current \in Data /\ Unanswered \in Answered /\ Unanswered.id = 0
  BY CurrentIsData DEF Unanswered
<1>3. client' = client /\ sample' = sample /\ now' = now /\ left' = left
  BY DEF Ask, world, store
<1>4. CASE /\ Base(client.rid) = {}
           /\ answer' = {Everything(NewId, Current)}
           /\ qb' = [qb EXCEPT !.last = [id |-> NewId, data |-> Current], !.accepted = Unanswered]
  <2>0. PICK a : a = Everything(NewId, Current)
    OBVIOUS
  <2>1. a \in Change
    BY <1>1, <1>2, <2>0, AnswersAreChanges
  <2>2. Snapshot(a).torrents = Current.torrents /\ Snapshot(a).server = {Current.up}
    BY <1>2, <2>0, FullReplaces
  <2>3. a.id = NewId /\ a.data = Current
    BY <2>0 DEF Everything
  <2>4. TypeOK'
    BY <1>1, <1>2, <1>3, <1>4, <2>0, <2>1 DEF TypeOK, Answered
  <2>5. StreamsAgree'
    BY <1>1, <1>2, <1>3, <1>4 DEF StreamsAgree, TypeOK
  <2>6. AnswerBringsCopyUp'
    <3>1. Snapshot(a)' = Snapshot(a)
      BY <1>3 DEF Snapshot, Merged
    <3> QED
      BY <1>1, <1>2, <1>3, <1>4, <2>0, <2>2, <2>3, <3>1 DEF AnswerBringsCopyUp, TypeOK
  <2> QED
    BY <2>4, <2>5, <2>6
<1>5. ASSUME NEW old \in Base(client.rid),
             answer' = {Delta(NewId, old.data, Current)},
             qb' = [qb EXCEPT !.last = [id |-> NewId, data |-> Current], !.accepted = old]
      PROVE  StreamInv'
  <2>0. PICK a : a = Delta(NewId, old.data, Current)
    OBVIOUS
  <2>1. old \in Answered /\ old.id = client.rid /\ old.data \in Data /\ CopyIs(old.data)
    BY DEF Base, TypeOK, Answered, StreamsAgree
  <2>2. a \in Change
    BY <1>1, <1>2, <2>0, <2>1, AnswersAreChanges
  <2>3. Snapshot(a).torrents = Current.torrents /\ Snapshot(a).server = {Current.up}
    BY <1>2, <2>0, <2>1, DeltaCompletes
  <2>4. a.id = NewId /\ a.data = Current
    BY <2>0 DEF Delta
  <2>5. TypeOK'
    BY <1>1, <1>2, <1>3, <1>5, <2>0, <2>1, <2>2 DEF TypeOK, Answered
  <2>6. StreamsAgree'
    BY <1>1, <1>3, <1>5, <2>1 DEF StreamsAgree, TypeOK, CopyIs
  <2>7. AnswerBringsCopyUp'
    <3>1. Snapshot(a)' = Snapshot(a)
      BY <1>3 DEF Snapshot, Merged
    <3> QED
      BY <1>1, <1>3, <1>5, <2>0, <2>1, <2>3, <2>4, <3>1 DEF AnswerBringsCopyUp, TypeOK
  <2> QED
    BY <2>5, <2>6, <2>7
<1> QED
  BY <1>4, <1>5 DEF Ask

-----------------------------------------------------------------------------
LEMMA RecordTyped ==
  ASSUME TypeOK, NEW server \in SUBSET Nat, RecordTraffic(server)
  PROVE  (sample \subseteq [at : Nat, up : Nat])'
BY DEF TypeOK, RecordTraffic

LEMMA FaultTyped ==
  ASSUME TypeOK, Fault
  PROVE  left' \in [seconds : Nat, uploads : Nat, changes : Nat, faults : Nat]
BY DEF TypeOK, Fault

LEMMA NextStream == StreamInv /\ [Next]_vars => StreamInv'
<1> SUFFICES ASSUME StreamInv, [Next]_vars PROVE StreamInv'
  OBVIOUS
<1> USE DEF StreamInv
<1>1. CASE Tick
  <2>1. PICK bytes \in {0, 1} \cap 0..left.uploads :
          /\ left' = [left EXCEPT !.seconds = @ - 1, !.uploads = @ - bytes]
          /\ qb' = [qb EXCEPT !.up = @ + bytes]
    BY <1>1 DEF Tick
  <2>2. qb' \in [torrents : Torrents, up : Nat, last : Answered, accepted : Answered]
    BY <2>1 DEF TypeOK
  <2>3. left' \in [seconds : Nat, uploads : Nat, changes : Nat, faults : Nat]
    <3>1. left.seconds - 1 \in Nat /\ left.uploads - bytes \in Nat
      BY <1>1, <2>1 DEF Tick, TypeOK
    <3>2. left' = [left EXCEPT !.seconds = left.seconds - 1, !.uploads = left.uploads - bytes]
      BY <2>1 DEF TypeOK
    <3> QED
      BY <3>1, <3>2 DEF TypeOK
  <2>4. TypeOK'
    BY <1>1, <2>2, <2>3, SMTT(30) DEF Tick, TypeOK, store
  <2>5. UNCHANGED <<client, answer, qb.last, qb.accepted>>
    BY <1>1 DEF Tick, TypeOK
  <2> QED
    BY <2>4, <2>5, StreamsUntouched
<1>2. CASE QBRestarts
  <2>1. left' \in [seconds : Nat, uploads : Nat, changes : Nat, faults : Nat]
    BY <1>2, FaultTyped DEF QBRestarts
  <2>2. /\ Unanswered \in Answered /\ Unanswered.id = 0
        /\ qb'.last = Unanswered /\ qb'.accepted = Unanswered /\ client' = client /\ answer' = answer
    BY <1>2, CurrentIsData DEF QBRestarts, TypeOK, Unanswered
  <2>3. PICK up \in 0..qb.up :
          qb' = [qb EXCEPT !.up = up, !.last = Unanswered, !.accepted = Unanswered]
    BY <1>2 DEF QBRestarts
  <2>4. qb' \in [torrents : Torrents, up : Nat, last : Answered, accepted : Answered]
    <3>1. up \in Nat /\ Unanswered \in Answered
      BY <2>2 DEF TypeOK
    <3>2. qb' = [qb EXCEPT !.up = up, !.last = Unanswered, !.accepted = Unanswered]
      BY <2>3
    <3>3. qb \in [torrents : Torrents, up : Nat, last : Answered, accepted : Answered]
      BY DEF TypeOK
    <3> HIDE DEF StreamInv
    <3> QED
      BY <3>1, <3>2, <3>3
  <2>5. TypeOK'
    BY <1>2, <2>1, <2>4 DEF QBRestarts, TypeOK, store
  <2>6. \A a \in answer : a.id # 0 /\ Snapshot(a)' = Snapshot(a)
    BY <2>2, CurrentIsData DEF Change, Snapshot, Merged
  <2>7. StreamsAgree' /\ AnswerBringsCopyUp'
    BY <2>2, <2>6 DEF StreamsAgree, AnswerBringsCopyUp
  <2> QED
    BY <2>5, <2>7
<1>3. CASE OtherClient
  <2>1. left' \in [seconds : Nat, uploads : Nat, changes : Nat, faults : Nat]
    BY <1>3, FaultTyped DEF OtherClient
  <2>2. NewId \in Id \ {0} /\ NewId # client.rid /\ (\A a \in answer : NewId # a.id)
    BY NewIdIsNew
  <2>3. /\ Unanswered \in Answered /\ Unanswered.id = 0 /\ Current \in Data
        /\ \A a \in answer : a.id # 0
    BY CurrentIsData DEF Unanswered, Change
  <2>4. /\ qb'.last = [id |-> NewId, data |-> Current] /\ qb'.accepted = Unanswered
        /\ client' = client /\ answer' = answer
    BY <1>3 DEF OtherClient, TypeOK
  <2>5. TypeOK'
    BY <1>3, <2>1, <2>2, <2>3 DEF OtherClient, TypeOK, Answered, world, store
  <2>6. \A a \in answer : Snapshot(a)' = Snapshot(a)
    BY <2>4 DEF Snapshot, Merged
  <2>7. StreamsAgree'
    BY <2>2, <2>3, <2>4 DEF StreamsAgree
  <2>8. AnswerBringsCopyUp'
    BY <2>2, <2>3, <2>4, <2>6 DEF AnswerBringsCopyUp
  <2> QED
    BY <2>5, <2>7, <2>8
<1>4. CASE \E h \in Torrent, v \in State \cup {Absent} : TorrentChanges(h, v)
  <2>1. PICK h \in Torrent, v \in State \cup {Absent} : TorrentChanges(h, v)
    BY <1>4
  <2>2. TypeOK'
    BY <2>1 DEF TorrentChanges, TypeOK, Torrents, world, store
  <2>3. UNCHANGED <<client, answer, qb.last, qb.accepted>>
    BY <2>1 DEF TorrentChanges, TypeOK
  <2> QED
    BY <2>2, <2>3, StreamsUntouched
<1>5. CASE BeginCycle \/ CheckForArchive
  BY <1>5, Answering DEF BeginCycle, CheckForArchive
<1>6. CASE WorkerRestarts
  <2>1. TypeOK'
    BY <1>6, FaultTyped DEF WorkerRestarts, TypeOK, NewClient, Nothing, Torrents, Id, world, store
  <2> QED
    BY <1>6, <2>1, AnswerDropped DEF WorkerRestarts, NewClient
<1>7. CASE Maintain
  <2>1. TypeOK'
    BY <1>7 DEF Maintain, TypeOK, world
  <2> QED
    BY <1>7, <2>1, StreamsUntouched DEF Maintain
<1>8. ASSUME NEW a \in answer, Observed(a)
      PROVE  StreamInv'
  <2>1. client' \in [rid : Id, torrents : Torrents, server : SUBSET Nat]
    BY <1>8, CurrentIsData, SnapshotsTyped DEF Observed
  <2>2. (sample \subseteq [at : Nat, up : Nat])'
    BY <1>8, <2>1, RecordTyped DEF Observed, TypeOK, store
  <2>3. left' \in [seconds : Nat, uploads : Nat, changes : Nat, faults : Nat]
    BY <1>8, FaultTyped DEF Observed, TypeOK
  <2>4. TypeOK'
    BY <1>8, <2>1, <2>2, <2>3 DEF Observed, TypeOK, world
  <2> QED
    BY <1>8, <2>4, AnswerTaken DEF Observed
<1>9. ASSUME NEW a \in answer, ArchiveChecked(a)
      PROVE  StreamInv'
  <2>1. client' \in [rid : Id, torrents : Torrents, server : SUBSET Nat]
    BY <1>9, CurrentIsData, SnapshotsTyped DEF ArchiveChecked
  <2>2. TypeOK'
    BY <1>9, <2>1 DEF ArchiveChecked, TypeOK, world, store
  <2> QED
    BY <1>9, <2>2, AnswerTaken DEF ArchiveChecked
<1>10. ASSUME NEW a \in answer, AnswerLost(a)
       PROVE  StreamInv'
  <2>1. TypeOK'
    BY <1>10, FaultTyped DEF AnswerLost, TypeOK, world, store
  <2> QED
    BY <1>10, <2>1, AnswerDropped DEF AnswerLost
<1>11. ASSUME NEW a \in answer, AnswerMalformed(a)
       PROVE  StreamInv'
  <2>1. /\ client' \in [rid : Id, torrents : Torrents, server : SUBSET Nat]
        /\ client'.rid = 0
    BY <1>11, CurrentIsData, SnapshotsTyped DEF AnswerMalformed, TypeOK, Bad, Id
  <2>2. TypeOK'
    BY <1>11, <2>1, FaultTyped DEF AnswerMalformed, TypeOK, world, store
  <2> QED
    BY <1>11, <2>1, <2>2, AnswerDropped DEF AnswerMalformed
<1>12. CASE UNCHANGED vars
  <2>1. TypeOK'
    BY <1>12 DEF vars, TypeOK
  <2> QED
    BY <1>12, <2>1, StreamsUntouched DEF vars
<1> QED
  BY <1>1, <1>2, <1>3, <1>4, <1>5, <1>6, <1>7, <1>8, <1>9, <1>10, <1>11, <1>12 DEF Next

\* The invariant of the stream: the worker, qB and the answer on its way agree
\* on what an id stands for.
THEOREM StreamInvariant == Spec => []StreamInv
<1> QED
  BY InitStream, NextStream, PTL DEF Spec

\* Whatever snapshot the worker acts on is what qB had when it answered.
THEOREM SnapshotsAreTrue == Spec => SnapshotIsTrue
<1>1. StreamInv /\ [Next]_vars =>
        [client'.rid \notin {0, client.rid} => \E a \in answer : CopyIs(a.data)']_vars
  <2> SUFFICES ASSUME StreamInv, Next, client'.rid \notin {0, client.rid}
               PROVE  \E a \in answer : CopyIs(a.data)'
    BY DEF vars
  <2>1. CASE \E a \in answer : Observed(a) \/ ArchiveChecked(a)
    BY <2>1, AnswerTaken DEF Observed, ArchiveChecked
  <2>2. CASE \E a \in answer : AnswerLost(a) \/ AnswerMalformed(a)
    BY <2>2 DEF AnswerLost, AnswerMalformed, Bad, StreamInv, TypeOK
  <2>3. CASE \/ Tick \/ QBRestarts \/ OtherClient \/ BeginCycle \/ CheckForArchive \/ Maintain
             \/ \E h \in Torrent, v \in State \cup {Absent} : TorrentChanges(h, v)
    BY <2>3 DEF Tick, QBRestarts, OtherClient, BeginCycle, CheckForArchive, Ask, Maintain, TorrentChanges
  <2>4. CASE WorkerRestarts
    BY <2>4 DEF WorkerRestarts, NewClient
  <2> QED
    BY <2>1, <2>2, <2>3, <2>4 DEF Next
<1> QED
  BY <1>1, StreamInvariant, PTL DEF Spec, SnapshotIsTrue

-----------------------------------------------------------------------------
\* Intervals of traffic.  delay[t] is how old an answer was that was recorded at
\* second t: a control cycle ends within its budget, so no more than Interval.

Quiet(from, to) == \A l \in lost : l < from \/ l > to

\* What the counter rose by between two readings: never more than qB uploaded
\* from the one to the other, and just that unless a restart took it back.
Rise(up, from, to) ==
  /\ up <= sent[to] - sent[from]
  /\ Quiet(from, to) => up = sent[to] - sent[from]

\* A row stands for the seconds between two readings of the counter.
HonestRow(delay, r) ==
  /\ r.start \in 0..now /\ r.end \in 0..now /\ r.start < r.end
  /\ delay[r.start] <= r.start /\ delay[r.end] <= r.end
  /\ r.start <= r.end - delay[r.end]
  /\ r.up \in Nat
  /\ r.known => /\ r.end - r.start <= 3 * Interval
                /\ Rise(r.up, r.start - delay[r.start], r.end - delay[r.end])
  /\ ~r.known => r.up = 0

\* One row is over, and the counter was read for its end, before the other
\* begins.
Before(delay, r, q) ==
  /\ r.end <= q.start
  /\ r.end - delay[r.end] <= q.start - delay[q.start]

\* Every row is honest, and of two rows one is before the other: the rises of
\* any rows add up to no more than qB uploaded from the reading of the first
\* start to that of the last end.
IntervalsAreHonest ==
  \E delay \in [0..now -> 0..Interval] :
    /\ \A r \in traffic : HonestRow(delay, r)
    /\ \A r, q \in traffic : r = q \/ Before(delay, r, q) \/ Before(delay, q, r)

\* The clock, what qB really uploaded, and the cycle.
ClockInv ==
  /\ sent \in [0..now -> Nat]
  /\ \A t, u \in 0..now : t <= u => sent[t] <= sent[u]
  /\ lost \subseteq 0..now
  /\ cycle \in [pc : {"idle", "observing", "acting", "archiving"}, spent : 0..Interval, rested : BOOLEAN]
  /\ cycle.spent <= now
  /\ cycle.pc = "idle" => cycle.spent = 0

\* The last sample is older than the cycle that will replace it, and no row
\* reaches beyond it.
SampleInv ==
  /\ \A s \in sample : sample = {s} /\ s.at <= now
  /\ cycle.pc = "observing" => \A s \in sample : s.at < now - cycle.spent
  /\ cycle.pc = "idle" /\ cycle.rested => \A s \in sample : s.at < now
  /\ sample = {} => traffic = {}
  /\ \A r \in traffic, s \in sample : r.end <= s.at
  /\ IsFiniteSet(traffic)

\* What the counter rose by since the last sample, until now and until the
\* answer on its way was given, and from there until now.
ReadingsInv(delay) ==
  /\ \A s \in sample : delay[s.at] <= s.at /\ Rise(qb.up - s.up, s.at - delay[s.at], now)
  /\ cycle.pc = "observing" =>
       \A a \in answer :
         /\ Rise(qb.up - a.data.up, now - cycle.spent, now)
         /\ \A s \in sample : Rise(a.data.up - s.up, s.at - delay[s.at], now - cycle.spent)
  /\ \A r \in traffic : HonestRow(delay, r)
  /\ \A r \in traffic, s \in sample : r.end - delay[r.end] <= s.at - delay[s.at]
  /\ \A r, q \in traffic : r = q \/ Before(delay, r, q) \/ Before(delay, q, r)

IntervalInv ==
  /\ StreamInv /\ ClockInv /\ SampleInv
  /\ \E delay \in [0..now -> 0..Interval] : ReadingsInv(delay)

-----------------------------------------------------------------------------
LEMMA InitIntervals == Init => IntervalInv
<1> SUFFICES ASSUME Init PROVE IntervalInv
  OBVIOUS
<1>1. ClockInv
  BY ObservationAssumption DEF Init, ClockInv
<1>2. SampleInv
  BY FS_EmptySet DEF Init, SampleInv
<1>3. [t \in 0..now |-> 0] \in [0..now -> 0..Interval]
  BY ObservationAssumption
<1>4. \A delay : ReadingsInv(delay)
  BY DEF Init, ReadingsInv
<1> QED
  BY <1>1, <1>2, <1>3, <1>4, InitStream DEF IntervalInv

\* What was read stays read.
LEMMA PastRise ==
  ASSUME NEW up, NEW from \in 0..now, NEW to \in 0..now, Rise(up, from, to),
         \A t \in 0..now : sent'[t] = sent[t], lost \subseteq lost'
  PROVE  Rise(up, from, to)'
BY DEF Rise, Quiet

LEMMA PastRow ==
  ASSUME now \in Nat, now' \in Nat, now <= now',
         \A t \in 0..now : sent'[t] = sent[t], lost \subseteq lost',
         NEW delay \in [0..now -> 0..Interval], NEW later, NEW r, HonestRow(delay, r),
         \A t \in {r.start, r.end} : later[t] = delay[t]
  PROVE  HonestRow(later, r)'
<1>1. PICK from, to : from = r.start - delay[r.start] /\ to = r.end - delay[r.end]
  OBVIOUS
<1>2. from \in 0..now /\ to \in 0..now
  <2>1. /\ r.start \in 0..now /\ r.end \in 0..now
        /\ delay[r.start] <= r.start /\ delay[r.end] <= r.end
    BY DEF HonestRow
  <2>2. delay[r.start] \in Nat /\ delay[r.end] \in Nat
    BY <2>1, ObservationAssumption
  <2>3. \A t \in 0..now, d \in Nat : d <= t => t - d \in 0..now
    OBVIOUS
  <2> QED
    BY <1>1, <2>1, <2>2, <2>3
<1>3. r.start \in 0..now' /\ r.end \in 0..now'
  BY DEF HonestRow
<1>4. r.known => Rise(r.up, from, to)'
  BY <1>1, <1>2, PastRise DEF HonestRow
<1> QED
  BY <1>1, <1>3, <1>4 DEF HonestRow

\* A second passes.
LEMMA TickIntervals ==
  ASSUME IntervalInv, StreamInv', Tick
  PROVE  IntervalInv'
<1>1. /\ now \in Nat /\ now' = now + 1 /\ qb.up \in Nat /\ left.uploads \in Nat
      /\ sample \subseteq [at : Nat, up : Nat] /\ (\A a \in answer : a.data.up \in Nat)
      /\ UNCHANGED <<lost, answer, sample, traffic>> /\ ClockInv /\ SampleInv
  BY DEF IntervalInv, StreamInv, TypeOK, Change, Data, Tick, store
<1>2. PICK bytes \in {0, 1} :
        /\ qb'.up = qb.up + bytes
        /\ sent' = [t \in 0..now' |-> IF t = now' THEN sent[now] + bytes ELSE sent[t]]
  BY DEF Tick, IntervalInv, StreamInv, TypeOK
<1>3. /\ sent[now] \in Nat /\ sent'[now'] = sent[now] + bytes
      /\ \A t \in 0..now : sent'[t] = sent[t] /\ sent[t] \in Nat /\ sent[t] <= sent[now]
      /\ sent' \in [0..now' -> Nat]
  BY <1>1, <1>2 DEF ClockInv
<1>4. /\ cycle'.pc = cycle.pc /\ cycle' \in [pc : {"idle", "observing", "acting", "archiving"}, spent : 0..Interval, rested : BOOLEAN]
      /\ cycle.pc = "idle" => cycle'.spent = cycle.spent /\ cycle'.rested = TRUE
      /\ cycle.pc # "idle" => cycle'.spent = cycle.spent + 1 /\ cycle'.rested = cycle.rested
  <2>1. cycle.pc # "idle" => cycle.spent + 1 \in 0..Interval
    BY <1>1, ObservationAssumption DEF Tick, ClockInv
  <2>2. CASE cycle.pc = "idle"
    BY <1>1, <2>2 DEF Tick, ClockInv
  <2>3. CASE cycle.pc # "idle"
    <3>1. cycle' = [cycle EXCEPT !.spent = cycle.spent + 1]
      BY <2>3 DEF Tick
    <3> QED
      BY <1>1, <2>1, <2>3, <3>1 DEF ClockInv
  <2> QED
    BY <2>2, <2>3
<1>5. ClockInv'
  <2>1. \A t, u \in 0..now' : t <= u => sent'[t] <= sent'[u]
    <3> SUFFICES ASSUME NEW t \in 0..now', NEW u \in 0..now', t <= u
                 PROVE  sent'[t] <= sent'[u]
      OBVIOUS
    <3>1. CASE u = now'
      <4>1. CASE t = now'
        BY <1>3, <3>1, <4>1
      <4>2. CASE t # now'
        BY <1>1, <1>3, <3>1, <4>2
      <4> QED
        BY <4>1, <4>2
    <3>2. CASE u # now'
      BY <1>1, <1>3, <3>2 DEF ClockInv
    <3> QED
      BY <3>1, <3>2
  <2>2. lost' \subseteq 0..now'
    BY <1>1 DEF ClockInv
  <2>3. cycle'.spent <= now' /\ (cycle'.pc = "idle" => cycle'.spent = 0)
    BY <1>1, <1>4 DEF ClockInv
  <2> QED
    BY <1>3, <1>4, <2>1, <2>2, <2>3 DEF ClockInv
<1>6. SampleInv'
  <2>1. \A s \in sample : s.at \in Nat
    BY <1>1
  <2>2. cycle.spent \in Nat
    BY <1>1, ObservationAssumption DEF ClockInv
  <2> QED
    BY <1>1, <1>4, <2>1, <2>2 DEF SampleInv
<1>7. PICK delay \in [0..now -> 0..Interval] : ReadingsInv(delay)
  BY DEF IntervalInv
<1>8. PICK later : later = [t \in 0..now' |-> IF t = now' THEN 0 ELSE delay[t]]
  OBVIOUS
<1>10. later \in [0..now' -> 0..Interval]
  BY <1>1, <1>8, ObservationAssumption
<1>11. \A t \in 0..now : later[t] = delay[t]
  BY <1>1, <1>8
<1>9. ReadingsInv(later)'
  <2>0. ASSUME NEW up \in Nat, NEW from \in 0..now, Rise(qb.up - up, from, now)
        PROVE  Rise(qb.up - up, from, now)'
    <3>1. lost \subseteq 0..now /\ lost' = lost
      BY <1>1 DEF ClockInv
    <3>2. Quiet(from, now)' => Quiet(from, now)
      BY <1>1, <3>1 DEF Quiet
    <3>3. /\ qb.up - up <= sent[now] - sent[from]
          /\ Quiet(from, now) => qb.up - up = sent[now] - sent[from]
      BY <2>0 DEF Rise
    <3>4. /\ qb.up \in Nat /\ sent[now] \in Nat /\ bytes \in Nat
          /\ sent'[from] = sent[from] /\ sent[from] \in Nat
      BY <1>1, <1>3
    <3>5. qb'.up - up = qb.up - up + bytes
      BY <1>2, <3>4
    <3>6. sent'[now'] - sent'[from] = sent[now] - sent[from] + bytes
      BY <1>3, <3>4
    <3>7. qb'.up - up <= sent'[now'] - sent'[from]
      BY <3>3, <3>4, <3>5, <3>6
    <3>8. Quiet(from, now)' => qb'.up - up = sent'[now'] - sent'[from]
      BY <3>2, <3>3, <3>5, <3>6
    <3> QED
      BY <3>7, <3>8 DEF Rise
  <2>1. ASSUME NEW s \in sample
        PROVE  later[s.at] <= s.at /\ Rise(qb.up - s.up, s.at - later[s.at], now)'
    <3>1. /\ s.at \in 0..now /\ s.up \in Nat /\ delay[s.at] <= s.at /\ delay[s.at] \in Nat
          /\ Rise(qb.up - s.up, s.at - delay[s.at], now)
      BY <1>1, <1>7, ObservationAssumption DEF SampleInv, ReadingsInv
    <3>2. PICK from \in 0..now : from = s.at - delay[s.at]
      BY <1>1, <3>1
    <3>3. Rise(qb.up - s.up, from, now)'
      BY <2>0, <3>1, <3>2
    <3> QED
      BY <1>11, <3>1, <3>2, <3>3
  <2>2. ASSUME cycle'.pc = "observing", NEW a \in answer
        PROVE  /\ Rise(qb.up - a.data.up, now - cycle.spent, now)'
               /\ \A s \in sample : Rise(a.data.up - s.up, s.at - later[s.at], now - cycle.spent)'
    <3>1. PICK to \in 0..now : to = now - cycle.spent
      BY <1>1, ObservationAssumption DEF ClockInv
    <3>2. now' - cycle'.spent = to
      BY <1>1, <1>4, <2>2, <3>1, ObservationAssumption DEF ClockInv
    <3>3. Rise(qb.up - a.data.up, to, now)'
      BY <1>1, <1>4, <1>7, <2>0, <2>2, <3>1 DEF ReadingsInv
    <3>4. ASSUME NEW s \in sample
          PROVE  Rise(a.data.up - s.up, s.at - later[s.at], to)'
      <4>1. /\ s.at \in 0..now /\ delay[s.at] <= s.at /\ delay[s.at] \in Nat
            /\ Rise(a.data.up - s.up, s.at - delay[s.at], to)
        BY <1>1, <1>4, <1>7, <2>2, <3>1, ObservationAssumption DEF SampleInv, ReadingsInv
      <4>2. PICK from \in 0..now : from = s.at - delay[s.at]
        BY <1>1, <4>1
      <4>3. Rise(a.data.up - s.up, from, to)'
        BY <1>1, <1>3, <3>1, <4>1, <4>2, PastRise
      <4> QED
        BY <1>11, <4>1, <4>2, <4>3
    <3> QED
      BY <3>2, <3>3, <3>4
  <2>3. ASSUME NEW r \in traffic
        PROVE  HonestRow(later, r)'
    <3>1. HonestRow(delay, r)
      BY <1>7 DEF ReadingsInv
    <3>2. \A t \in {r.start, r.end} : later[t] = delay[t]
      BY <1>11, <3>1 DEF HonestRow
    <3>3. now' \in Nat /\ now <= now' /\ lost \subseteq lost'
      BY <1>1
    <3> QED
      BY <1>1, <1>3, <3>1, <3>2, <3>3, PastRow
  <2>4. \A r \in traffic : later[r.start] = delay[r.start] /\ later[r.end] = delay[r.end]
    BY <1>7, <1>11 DEF ReadingsInv, HonestRow
  <2>5. \A s \in sample : later[s.at] = delay[s.at]
    BY <1>1, <1>11 DEF SampleInv
  <2>6. \A r \in traffic, s \in sample : r.end - later[r.end] <= s.at - later[s.at]
    BY <1>7, <2>4, <2>5 DEF ReadingsInv
  <2>7. \A r, q \in traffic : r = q \/ Before(later, r, q) \/ Before(later, q, r)
    BY <1>7, <2>4 DEF ReadingsInv, Before
  <2> QED
    BY <1>1, <2>1, <2>2, <2>3, <2>6, <2>7 DEF ReadingsInv
<1> QED
  BY <1>5, <1>6, <1>10, <1>9 DEF IntervalInv

\* A step that takes no reading: the answer on its way is an old one, or a new
\* one of what qB has.
LEMMA ReadingsKept ==
  ASSUME IntervalInv, UNCHANGED <<now, sent, lost, sample>>, qb'.up = qb.up, traffic' \subseteq traffic,
         cycle'.pc = "observing" =>
           \A a \in answer' : \/ a \in answer /\ cycle' = cycle
                              \/ a.data.up = qb.up /\ cycle'.spent = 0
  PROVE  (\E delay \in [0..now -> 0..Interval] : ReadingsInv(delay))'
<1>1. PICK delay \in [0..now -> 0..Interval] : ReadingsInv(delay)
  BY DEF IntervalInv
<1>2. ASSUME NEW s \in sample
      PROVE  (delay[s.at] <= s.at /\ Rise(qb.up - s.up, s.at - delay[s.at], now))'
  BY <1>1, <1>2 DEF ReadingsInv, Rise, Quiet
<1>3. ASSUME cycle'.pc = "observing", NEW a \in answer'
      PROVE  /\ Rise(qb.up - a.data.up, now - cycle.spent, now)'
             /\ \A s \in sample : Rise(a.data.up - s.up, s.at - delay[s.at], now - cycle.spent)'
  <2>1. CASE a \in answer /\ cycle' = cycle
    BY <1>1, <1>3, <2>1 DEF ReadingsInv, Rise, Quiet
  <2>2. CASE a.data.up = qb.up /\ cycle'.spent = 0
    <3>1. now \in Nat /\ sent[now] \in Nat /\ qb.up \in Nat
      BY DEF IntervalInv, StreamInv, TypeOK, ClockInv
    <3>2. now' - cycle'.spent = now /\ qb'.up - a.data.up = 0 /\ sent'[now'] - sent'[now] = 0
      BY <2>2, <3>1
    <3>3. Rise(qb.up - a.data.up, now - cycle.spent, now)'
      BY <3>1, <3>2 DEF Rise
    <3>4. \A s \in sample : Rise(a.data.up - s.up, s.at - delay[s.at], now - cycle.spent)'
      BY <1>1, <2>2, <3>2 DEF ReadingsInv, Rise, Quiet
    <3> QED
      BY <3>3, <3>4
  <2> QED
    BY <1>3, <2>1, <2>2
<1>4. \A r \in traffic : HonestRow(delay, r)'
  BY <1>1 DEF ReadingsInv, HonestRow, Rise, Quiet
<1>5. /\ \A r, q \in traffic' : r = q \/ Before(delay, r, q) \/ Before(delay, q, r)
      /\ \A r \in traffic', s \in sample : r.end - delay[r.end] <= s.at - delay[s.at]
  BY <1>1 DEF ReadingsInv
<1>6. ReadingsInv(delay)'
  BY <1>2, <1>3, <1>4, <1>5 DEF ReadingsInv
<1> QED
  BY <1>6

LEMMA ClockKept ==
  ASSUME IntervalInv, UNCHANGED <<now, sent>>, lost' \subseteq lost \cup {now},
         \/ cycle' = cycle \/ cycle' = Finished
         \/ cycle'.spent = cycle.spent /\ cycle' \in {[cycle EXCEPT !.pc = p] : p \in {"observing", "acting", "archiving"}}
  PROVE  ClockInv'
<1>1. now \in Nat /\ ClockInv
  BY DEF IntervalInv, StreamInv, TypeOK
<1>2. cycle' \in [pc : {"idle", "observing", "acting", "archiving"}, spent : 0..Interval, rested : BOOLEAN]
  <2>1. CASE cycle' = cycle
    BY <1>1, <2>1 DEF ClockInv
  <2>2. CASE cycle' = Finished
    BY <2>2, ObservationAssumption DEF Finished
  <2>3. ASSUME NEW p \in {"observing", "acting", "archiving"}, cycle' = [cycle EXCEPT !.pc = p]
        PROVE  cycle' \in [pc : {"idle", "observing", "acting", "archiving"}, spent : 0..Interval, rested : BOOLEAN]
    BY <1>1, <2>3 DEF ClockInv
  <2> QED
    BY <2>1, <2>2, <2>3
<1>3. cycle'.spent <= now /\ (cycle'.pc = "idle" => cycle'.spent = 0)
  BY <1>1 DEF ClockInv, Finished
<1> QED
  BY <1>1, <1>2, <1>3 DEF ClockInv

\* A step after which the answer on its way, if any, is none that was not on
\* its way before, and which takes no reading.
LEMMA CalmIntervals ==
  ASSUME IntervalInv, StreamInv', UNCHANGED <<now, sent, lost, sample>>, qb'.up = qb.up,
         traffic' \subseteq traffic, (answer' = answer /\ cycle' = cycle) \/ cycle' = Finished
  PROVE  IntervalInv'
<1>1. ClockInv'
  BY ClockKept
<1>2. SampleInv'
  BY FS_Subset DEF IntervalInv, SampleInv, Finished
<1>3. (\E delay \in [0..now -> 0..Interval] : ReadingsInv(delay))'
  BY ReadingsKept DEF Finished
<1> QED
  BY <1>1, <1>2, <1>3 DEF IntervalInv

LEMMA AskIntervals ==
  ASSUME IntervalInv, StreamInv', BeginCycle \/ CheckForArchive
  PROVE  IntervalInv'
<1>1. PICK next \in {"observing", "archiving"} :
        /\ Ask(next)
        /\ next = "observing" => cycle.pc = "idle" /\ cycle.rested
  BY DEF BeginCycle, CheckForArchive
<1>2. /\ UNCHANGED <<now, sent, lost, sample, traffic>> /\ qb'.up = qb.up
      /\ cycle' = [cycle EXCEPT !.pc = next] /\ \A a \in answer' : a.data.up = qb.up
  <2>1. UNCHANGED <<now, sent, lost, sample, traffic>> /\ cycle' = [cycle EXCEPT !.pc = next]
    BY <1>1 DEF Ask, world, store
  <2>2. qb'.up = qb.up
    BY <1>1 DEF Ask, IntervalInv, StreamInv, TypeOK
  <2>3. \A id, old : Everything(id, Current).data = Current /\ Delta(id, old, Current).data = Current
    BY DEF Everything, Delta
  <2>4. \E id, old : answer' = {Everything(id, Current)} \/ answer' = {Delta(id, old, Current)}
    BY <1>1, Zenon DEF Ask
  <2>5. \A a \in answer' : a.data = Current
    BY <2>3, <2>4
  <2> QED
    BY <2>1, <2>2, <2>5 DEF Current
<1>3. /\ cycle'.pc = next /\ cycle'.spent = cycle.spent
      /\ cycle'.pc = "observing" => cycle'.spent = 0
  BY <1>1, <1>2 DEF IntervalInv, ClockInv
<1>4. ClockInv'
  BY <1>1, <1>2, <1>3, ClockKept
<1>5. SampleInv'
  <2>1. now \in Nat
    BY DEF IntervalInv, StreamInv, TypeOK
  <2> QED
    BY <1>1, <1>2, <1>3, <2>1 DEF IntervalInv, SampleInv
<1>6. (\E delay \in [0..now -> 0..Interval] : ReadingsInv(delay))'
  BY <1>2, <1>3, ReadingsKept
<1> QED
  BY <1>4, <1>5, <1>6 DEF IntervalInv

\* A restart takes the counter back, at a second that is remembered.
LEMMA RestartIntervals ==
  ASSUME IntervalInv, StreamInv', QBRestarts
  PROVE  IntervalInv'
<1>1. PICK back \in 0..qb.up :
        qb'.up = back /\ lost' = IF back < qb.up THEN lost \cup {now} ELSE lost
  BY DEF QBRestarts, IntervalInv, StreamInv, TypeOK
<1>2. /\ now \in Nat /\ UNCHANGED <<now, sent, client, answer, cycle, sample, traffic>>
      /\ qb.up \in Nat /\ sample \subseteq [at : Nat, up : Nat] /\ (\A a \in answer : a.data.up \in Nat)
      /\ ClockInv /\ SampleInv
  BY DEF QBRestarts, store, IntervalInv, StreamInv, TypeOK, Change, Data
<1>3. ClockInv'
  BY <1>1, <1>2, ClockKept
<1>4. SampleInv'
  BY <1>2 DEF SampleInv
<1>5. PICK delay \in [0..now -> 0..Interval] : ReadingsInv(delay)
  BY DEF IntervalInv
<1>6. lost \subseteq lost' /\ \A t \in 0..now : sent'[t] = sent[t] /\ sent[t] \in Nat
  BY <1>1, <1>2 DEF ClockInv
<1>7. ASSUME NEW up \in Nat, NEW from \in 0..now, Rise(qb.up - up, from, now)
      PROVE  Rise(qb.up - up, from, now)'
  <2>1. CASE back = qb.up
    BY <1>1, <1>2, <1>7, <2>1 DEF Rise, Quiet
  <2>2. CASE back < qb.up
    <3>0. now' \in lost' /\ from <= now' /\ now' <= now' /\ now' \in Nat
      BY <1>1, <1>2, <2>2
    <3>1. ~Quiet(from, now)'
      BY <3>0 DEF Quiet
    <3>2. qb.up - up <= sent[now] - sent[from]
      BY <1>7 DEF Rise
    <3>3. back - up <= qb.up - up
      BY <1>2, <2>2
    <3> HIDE DEF Quiet
    <3> QED
      BY <1>1, <1>2, <1>6, <2>2, <3>1, <3>2, <3>3 DEF Rise
  <2> QED
    BY <1>1, <1>2, <2>1, <2>2
<1>8. ReadingsInv(delay)'
  <2>1. ASSUME NEW s \in sample
        PROVE  (delay[s.at] <= s.at /\ Rise(qb.up - s.up, s.at - delay[s.at], now))'
    <3>1. /\ s.at \in 0..now /\ s.up \in Nat /\ delay[s.at] <= s.at /\ delay[s.at] \in Nat
          /\ Rise(qb.up - s.up, s.at - delay[s.at], now)
      BY <1>2, <1>5, ObservationAssumption DEF SampleInv, ReadingsInv
    <3>2. PICK from \in 0..now : from = s.at - delay[s.at]
      BY <1>2, <3>1
    <3> QED
      BY <1>7, <3>1, <3>2
  <2>2. ASSUME cycle.pc = "observing", NEW a \in answer
        PROVE  /\ Rise(qb.up - a.data.up, now - cycle.spent, now)'
               /\ \A s \in sample : Rise(a.data.up - s.up, s.at - delay[s.at], now - cycle.spent)'
    <3>1. PICK to \in 0..now : to = now - cycle.spent
      BY <1>2, ObservationAssumption DEF ClockInv
    <3>2. now' - cycle'.spent = to
      BY <1>2, <3>1
    <3>3. Rise(qb.up - a.data.up, to, now)'
      BY <1>2, <1>5, <1>7, <2>2, <3>1 DEF ReadingsInv
    <3>4. ASSUME NEW s \in sample
          PROVE  Rise(a.data.up - s.up, s.at - delay[s.at], to)'
      <4>1. /\ s.at \in 0..now /\ delay[s.at] <= s.at /\ delay[s.at] \in Nat
            /\ Rise(a.data.up - s.up, s.at - delay[s.at], to)
        BY <1>2, <1>5, <2>2, <3>1, ObservationAssumption DEF SampleInv, ReadingsInv
      <4>2. PICK from \in 0..now : from = s.at - delay[s.at]
        BY <1>2, <4>1
      <4>3. Rise(a.data.up - s.up, from, to)'
        BY <1>6, <3>1, <4>1, <4>2, PastRise
      <4> QED
        BY <4>2, <4>3
    <3> QED
      BY <3>2, <3>3, <3>4
  <2>3. ASSUME NEW r \in traffic
        PROVE  HonestRow(delay, r)'
    <3>1. HonestRow(delay, r) /\ now' \in Nat /\ now <= now'
      BY <1>2, <1>5 DEF ReadingsInv
    <3> QED
      BY <1>2, <1>6, <3>1, PastRow
  <2> QED
    BY <1>2, <1>5, <2>1, <2>2, <2>3 DEF ReadingsInv
<1>9. delay \in [0..now' -> 0..Interval]
  BY <1>2
<1> QED
  BY <1>3, <1>4, <1>8, <1>9 DEF IntervalInv

\* Observe takes the reading of the answer: a row from the last reading to it.
LEMMA ObservedIntervals ==
  ASSUME IntervalInv, StreamInv', NEW a \in answer, Observed(a), RecordTraffic(client'.server)
  PROVE  IntervalInv'
<1>1. /\ now \in Nat /\ UNCHANGED <<now, sent, lost, qb>> /\ answer' = {} /\ cycle.pc = "observing"
      /\ cycle' \in {[cycle EXCEPT !.pc = "acting"], Finished}
      /\ a.data.up \in Nat /\ qb.up \in Nat /\ sample \subseteq [at : Nat, up : Nat]
      /\ ClockInv /\ SampleInv
  <2>1. cycle' \in {[cycle EXCEPT !.pc = "acting"], Finished}
    BY DEF Observed, Fault
  <2> QED
    BY <2>1 DEF Observed, world, IntervalInv, StreamInv, TypeOK, Change, Data
<1>2. client'.server = {a.data.up}
  BY DEF Observed, IntervalInv, StreamInv, AnswerBringsCopyUp
<1>3. PICK new : new = [at |-> now, up |-> a.data.up]
  OBVIOUS
<1>4. \A s \in sample : sample = {s} /\ s.at \in 0..now /\ s.up \in Nat /\ s.at < now - cycle.spent /\ s.at < now
  <2>1. cycle.spent \in Nat
    BY <1>1, ObservationAssumption DEF ClockInv
  <2> QED
    BY <1>1, <2>1 DEF SampleInv
<1>5. sample' = {new} /\ traffic' = traffic \cup {Recorded(s, new) : s \in sample}
  <2>1. {[at |-> now, up |-> n] : n \in client'.server} = {new}
    BY <1>2, <1>3
  <2>2. {s \in sample : s.at < now} = sample
    BY <1>4
  <2>3. traffic' = traffic \cup {Recorded(s, n) : s \in sample, n \in {new}}
    BY <2>1, <2>2 DEF RecordTraffic
  <2>4. {Recorded(s, n) : s \in sample, n \in {new}} = {Recorded(s, new) : s \in sample}
    OBVIOUS
  <2> QED
    BY <2>1, <2>3, <2>4 DEF RecordTraffic
<1>6. ClockInv'
  <2>1. \/ cycle' = Finished
        \/ cycle'.spent = cycle.spent /\ cycle' = [cycle EXCEPT !.pc = "acting"]
    BY <1>1 DEF ClockInv
  <2> QED
    BY <1>1, <2>1, ClockKept
<1>7. PICK delay \in [0..now -> 0..Interval] : ReadingsInv(delay)
  BY DEF IntervalInv
<1>8. PICK later : later = [delay EXCEPT ![now] = cycle.spent]
  OBVIOUS
<1>9. /\ later \in [0..now -> 0..Interval] /\ later[now] = cycle.spent
      /\ \A t \in 0..now : t # now => later[t] = delay[t]
  BY <1>1, <1>8 DEF ClockInv
<1>10. ASSUME NEW r \in traffic
       PROVE  /\ HonestRow(later, r)' /\ later[r.start] = delay[r.start] /\ later[r.end] = delay[r.end]
              /\ \A s \in sample : r.end <= s.at /\ r.end - later[r.end] <= s.at - later[s.at]
  <2>1. HonestRow(delay, r) /\ \A s \in sample : r.end <= s.at
    BY <1>1, <1>7 DEF ReadingsInv, SampleInv
  <2>2. PICK s \in sample : r.end <= s.at /\ s.at < now
    BY <1>1, <1>4, <2>1 DEF SampleInv
  <2>3. \A t \in {r.start, r.end} : t \in 0..now /\ t # now
    BY <1>1, <1>4, <2>1, <2>2 DEF HonestRow
  <2>4. \A t \in {r.start, r.end} : later[t] = delay[t]
    BY <1>9, <2>3
  <2>5. now' \in Nat /\ now <= now' /\ lost \subseteq lost' /\ \A t \in 0..now : sent'[t] = sent[t]
    BY <1>1
  <2>6. HonestRow(later, r)'
    BY <1>1, <2>1, <2>4, <2>5, PastRow
  <2>7. \A t \in sample : r.end - later[r.end] <= t.at - later[t.at]
    <3>1. \A t \in sample : later[t.at] = delay[t.at]
      BY <1>1, <1>4, <1>9
    <3>2. \A t \in sample : r.end - delay[r.end] <= t.at - delay[t.at]
      BY <1>7 DEF ReadingsInv
    <3> QED
      BY <2>4, <3>1, <3>2
  <2> QED
    BY <2>1, <2>4, <2>6, <2>7
<1>11. ASSUME NEW s \in sample
       PROVE  /\ HonestRow(later, Recorded(s, new))'
              /\ Recorded(s, new).start = s.at /\ Recorded(s, new).end = now
              /\ s.at <= now - later[now] /\ s.at - later[s.at] <= now - later[now]
  <2>1. /\ s.at \in 0..now /\ s.up \in Nat /\ delay[s.at] <= s.at /\ delay[s.at] \in Nat
        /\ Rise(a.data.up - s.up, s.at - delay[s.at], now - cycle.spent)
    BY <1>1, <1>4, <1>7, ObservationAssumption DEF ReadingsInv
  <2>2. cycle.spent \in Nat /\ cycle.spent <= now /\ s.at < now - cycle.spent /\ later[s.at] = delay[s.at]
    BY <1>1, <1>4, <1>9, ObservationAssumption DEF ClockInv
  <2>3. PICK r : r = Recorded(s, new)
    OBVIOUS
  <2>4. /\ r.start = s.at /\ r.end = now /\ r.known = Known(s, new)
        /\ Known(s, new) => r.up = a.data.up - s.up /\ a.data.up >= s.up /\ now - s.at <= 3 * Interval
        /\ ~Known(s, new) => r.up = 0
    BY <1>3, <2>3 DEF Recorded, Known
  <2>5. r.up \in Nat
    BY <1>1, <2>1, <2>4
  <2>6. r.known => Rise(r.up, r.start - later[r.start], r.end - later[r.end])'
    BY <1>1, <1>9, <2>1, <2>2, <2>4 DEF Rise, Quiet
  <2>7. r.start <= r.end - later[r.end] /\ later[r.start] <= r.start /\ later[r.end] <= r.end
    BY <1>1, <1>9, <2>1, <2>2, <2>4
  <2>8. r.start \in 0..now' /\ r.end \in 0..now' /\ r.start < r.end
    BY <1>1, <1>4, <2>1, <2>4
  <2>9. (r.known => r.end - r.start <= 3 * Interval) /\ (~r.known => r.up = 0)
    BY <2>4
  <2>10. HonestRow(later, r)'
    BY <2>5, <2>6, <2>7, <2>8, <2>9 DEF HonestRow
  <2>11. s.at <= now - later[now] /\ s.at - later[s.at] <= now - later[now]
    BY <1>1, <1>9, <2>1, <2>2
  <2> QED
    BY <2>3, <2>4, <2>10, <2>11
<1>12. SampleInv'
  <2>1. \A s \in sample' : sample' = {s} /\ s.at <= now'
    BY <1>1, <1>3, <1>5
  <2>2. /\ ~(cycle'.pc = "observing") /\ ~(cycle'.pc = "idle" /\ cycle'.rested)
    BY <1>1 DEF Finished, ClockInv
  <2>3. \A r \in traffic' : r.end <= now
    <3>1. ASSUME NEW r \in traffic
          PROVE  r.end <= now
      BY <1>7 DEF ReadingsInv, HonestRow
    <3>2. \A s \in sample : Recorded(s, new).end <= now
      BY <1>1, <1>11
    <3> QED
      BY <1>5, <3>1, <3>2
  <2>4. IsFiniteSet(traffic')
    <3>1. CASE sample = {}
      <4>1. traffic' = traffic
        BY <1>5, <3>1
      <4> QED
        BY <1>1, <4>1 DEF SampleInv
    <3>2. ASSUME NEW s \in sample
          PROVE  IsFiniteSet(traffic')
      <4>1. traffic' = traffic \cup {Recorded(s, new)}
        BY <1>4, <1>5
      <4> QED
        BY <1>1, <4>1, FS_AddElement DEF SampleInv
    <3> QED
      BY <3>1, <3>2
  <2> QED
    BY <1>1, <1>3, <1>5, <2>1, <2>2, <2>3, <2>4 DEF SampleInv
<1>13. ReadingsInv(later)'
  <2>1. later[new.at] <= new.at /\ Rise(qb.up - new.up, new.at - later[new.at], now)'
    <3>1. Rise(qb.up - a.data.up, now - cycle.spent, now)
      BY <1>1, <1>7 DEF ReadingsInv
    <3>2. later[new.at] = cycle.spent /\ new.at = now /\ new.up = a.data.up /\ cycle.spent <= now
      BY <1>1, <1>3, <1>9 DEF ClockInv
    <3> QED
      BY <1>1, <3>1, <3>2 DEF Rise, Quiet
  <2>2. ~(cycle'.pc = "observing")
    BY <1>1 DEF Finished, ClockInv
  <2>3. \A r \in traffic' : HonestRow(later, r)'
    BY <1>5, <1>10, <1>11
  <2>4. ASSUME NEW r \in traffic', NEW q \in traffic'
        PROVE  r = q \/ Before(later, r, q) \/ Before(later, q, r)
    <3>1. CASE r \in traffic /\ q \in traffic
      BY <1>7, <1>10, <3>1 DEF ReadingsInv, Before
    <3>2. ASSUME NEW s \in sample, r = Recorded(s, new), q \in traffic
          PROVE  Before(later, q, r)
      BY <1>10, <1>11, <3>2 DEF Before
    <3>3. ASSUME NEW s \in sample, q = Recorded(s, new), r \in traffic
          PROVE  Before(later, r, q)
      BY <1>10, <1>11, <3>3 DEF Before
    <3>4. ASSUME NEW s \in sample, NEW t \in sample, r = Recorded(s, new), q = Recorded(t, new)
          PROVE  r = q
      BY <1>4, <3>4
    <3> QED
      BY <1>5, <3>1, <3>2, <3>3, <3>4
  <2>5. \A r \in traffic' : r.end - later[r.end] <= now - later[now]
    <3>1. \A s \in sample : Recorded(s, new).end - later[Recorded(s, new).end] <= now - later[now]
      <4>1. now - later[now] \in Int
        BY <1>1, <1>9, ObservationAssumption
      <4> QED
        BY <1>11, <4>1
    <3>2. ASSUME NEW r \in traffic
          PROVE  r.end - later[r.end] <= now - later[now]
      <4>1. PICK s \in sample : TRUE
        BY <1>1 DEF SampleInv
      <4>2. /\ s.at \in 0..now /\ r.end \in 0..now /\ later[s.at] \in Int /\ later[r.end] \in Int
            /\ later[now] \in Int
        BY <1>1, <1>4, <1>9, <1>10, ObservationAssumption DEF HonestRow
      <4>3. r.end - later[r.end] <= s.at - later[s.at] /\ s.at - later[s.at] <= now - later[now]
        BY <1>10, <1>11
      <4> QED
        BY <1>1, <4>2, <4>3
    <3> QED
      BY <1>5, <3>1, <3>2
  <2>6. \A r \in traffic', s \in sample' : r.end - later[r.end] <= s.at - later[s.at]
    BY <1>3, <1>5, <2>5
  <2> QED
    BY <1>5, <2>1, <2>2, <2>3, <2>4, <2>6 DEF ReadingsInv
<1>14. later \in [0..now' -> 0..Interval]
  BY <1>1, <1>9
<1> QED
  BY <1>6, <1>12, <1>13, <1>14 DEF IntervalInv

LEMMA NextIntervals == IntervalInv /\ [Next]_vars => IntervalInv'
<1> SUFFICES ASSUME IntervalInv, [Next]_vars PROVE IntervalInv'
  OBVIOUS
<1>1. StreamInv'
  BY NextStream DEF IntervalInv
<1>2. qb \in [torrents : Torrents, up : Nat, last : Answered, accepted : Answered]
  BY DEF IntervalInv, StreamInv, TypeOK
<1>3. CASE Tick
  BY <1>1, <1>3, TickIntervals
<1>4. CASE QBRestarts
  BY <1>1, <1>4, RestartIntervals
<1>5. CASE BeginCycle \/ CheckForArchive
  BY <1>1, <1>5, AskIntervals
<1>6. CASE OtherClient
  <2>1. UNCHANGED <<now, sent, lost, sample, traffic, answer, cycle>> /\ qb'.up = qb.up
    BY <1>2, <1>6 DEF OtherClient, world, store
  <2> QED
    BY <1>1, <2>1, CalmIntervals
<1>7. CASE \E h \in Torrent, v \in State \cup {Absent} : TorrentChanges(h, v)
  <2>1. UNCHANGED <<now, sent, lost, sample, traffic, answer, cycle>> /\ qb'.up = qb.up
    BY <1>2, <1>7 DEF TorrentChanges, world, store
  <2> QED
    BY <1>1, <2>1, CalmIntervals
<1>8. CASE WorkerRestarts
  BY <1>1, <1>8, CalmIntervals DEF WorkerRestarts, world, store
<1>9. CASE Maintain
  <2>1. traffic' \subseteq traffic
    BY <1>9 DEF Maintain
  <2> QED
    BY <1>1, <1>9, <2>1, CalmIntervals DEF Maintain, world
<1>10. ASSUME NEW a \in answer, Observed(a)
       PROVE  IntervalInv'
  <2>1. CASE RecordTraffic(client'.server)
    BY <1>1, <1>10, <2>1, ObservedIntervals
  <2>2. CASE Fault /\ cycle' = Finished /\ UNCHANGED store
    BY <1>1, <1>10, <2>2, CalmIntervals DEF Observed, world, store
  <2> QED
    BY <1>10, <2>1, <2>2 DEF Observed
<1>11. ASSUME NEW a \in answer, ArchiveChecked(a) \/ AnswerLost(a) \/ AnswerMalformed(a)
       PROVE  IntervalInv'
  <2>1. UNCHANGED <<now, sent, lost, qb, sample, traffic>> /\ cycle' = Finished
    BY <1>11 DEF ArchiveChecked, AnswerLost, AnswerMalformed, world, store
  <2> QED
    BY <1>1, <2>1, CalmIntervals
<1>12. CASE UNCHANGED vars
  BY <1>1, <1>12, CalmIntervals DEF vars
<1> QED
  BY <1>3, <1>4, <1>5, <1>6, <1>7, <1>8, <1>9, <1>10, <1>11, <1>12 DEF Next

\* Every known row of traffic holds what qB uploaded between two readings no
\* further apart than three cycles, and no second is in two rows, whatever is
\* lost, late or restarted: what Traffic adds up.
THEOREM RowsAreHonest == Spec => []IntervalsAreHonest
<1>1. IntervalInv => IntervalsAreHonest
  BY DEF IntervalInv, ReadingsInv, IntervalsAreHonest
<1> QED
  BY <1>1, InitIntervals, NextIntervals, PTL DEF Spec

-----------------------------------------------------------------------------
\* Sums over a finite set.  That a set of subsets of a finite set has a least
\* one takes the place of an induction over the set.

\* h adds up the values f of the members of every subset of S.
Adds(h, f, S) ==
  h = [s \in SUBSET S |-> IF s = {} THEN 0
                          ELSE f[CHOOSE x \in s : TRUE] + h[s \ {CHOOSE x \in s : TRUE}]]

\* A set of subsets of a finite set has a least one.
LEMMA LeastSubset ==
  ASSUME NEW S, IsFiniteSet(S), NEW W, W \subseteq SUBSET S, W # {}
  PROVE  \E s \in W : \A r \in W : r \subseteq s => r = s
<1>1. W \subseteq FiniteSubsetsOf(S)
  BY FS_FiniteSubsetsOfFinite
<1>2. PICK s \in W : \A r \in W : ~(<<r, s>> \in StrictSubsetOrdering(S))
  BY <1>1, FS_StrictSubsetOrderingWellFounded, WFMin
<1>3. \A r \in W : r \subseteq s => r = s
  BY <1>2 DEF StrictSubsetOrdering
<1> QED
  BY <1>3

\* Two functions that add up the same values agree.
LEMMA AddsUnique ==
  ASSUME NEW S, IsFiniteSet(S), NEW f, NEW g, NEW h, NEW R, NEW T, Adds(g, f, R), Adds(h, f, T),
         S \subseteq R, S \subseteq T
  PROVE  g[S] = h[S]
<1> DEFINE W == {s \in SUBSET S : g[s] # h[s]}
<1>1. SUFFICES ASSUME W # {} PROVE FALSE
  OBVIOUS
<1>2. PICK s \in W : \A r \in W : r \subseteq s => r = s
  <2>1. W \subseteq SUBSET S
    OBVIOUS
  <2> HIDE DEF W
  <2> QED
    BY <1>1, <2>1, LeastSubset
<1>3. s \in SUBSET R /\ s \in SUBSET T
  BY <1>2
<1>4. CASE s = {}
  BY <1>2, <1>3, <1>4 DEF Adds
<1>5. CASE s # {}
  <2>1. PICK x : x = CHOOSE y \in s : TRUE
    OBVIOUS
  <2>2. x \in s
    BY <1>5, <2>1
  <2>3. g[s \ {x}] = h[s \ {x}]
    BY <1>2, <2>2
  <2>4. g[s] = f[x] + g[s \ {x}] /\ h[s] = f[x] + h[s \ {x}]
    BY <1>3, <1>5, <2>1 DEF Adds
  <2> QED
    BY <1>2, <2>3, <2>4
<1> QED
  BY <1>4, <1>5

\* There is one that does.
LEMMA AddsExists ==
  ASSUME NEW S, IsFiniteSet(S), NEW f
  PROVE  \E h : Adds(h, f, S)
<1> DEFINE W == {s \in SUBSET S : \A h : ~Adds(h, f, s)}
<1>1. SUFFICES ASSUME W # {} PROVE FALSE
  OBVIOUS
<1>2. PICK s \in W : \A r \in W : r \subseteq s => r = s
  <2>1. W \subseteq SUBSET S
    OBVIOUS
  <2> HIDE DEF W
  <2> QED
    BY <1>1, <2>1, LeastSubset
<1> DEFINE H(r) == CHOOSE h : Adds(h, f, r)
           X(r) == CHOOSE x \in r : TRUE
           V(r) == IF r = {} THEN 0 ELSE f[X(r)] + H(r \ {X(r)})[r \ {X(r)}]
<1>3. ASSUME NEW r \in SUBSET s, r # s
      PROVE  Adds(H(r), f, r)
  BY <1>2, <1>3
<1>4. ASSUME NEW r \in SUBSET s, r # s
      PROVE  H(r)[r] = V(r)
  <2>1. CASE r = {}
    <3>1. Adds(H(r), f, r) /\ r \in SUBSET r
      BY <1>3, <1>4
    <3> HIDE DEF H
    <3> QED
      BY <2>1, <3>1 DEF Adds
  <2>2. CASE r # {}
    <3>1. X(r) \in r
      BY <2>2
    <3>2. H(r)[r] = f[X(r)] + H(r)[r \ {X(r)}]
      <4>1. Adds(H(r), f, r) /\ r \in SUBSET r
        BY <1>3, <1>4
      <4> HIDE DEF H
      <4> QED
        BY <2>2, <4>1 DEF Adds
    <3>3. Adds(H(r), f, r) /\ Adds(H(r \ {X(r)}), f, r \ {X(r)}) /\ IsFiniteSet(r \ {X(r)})
      BY <1>3, <1>4, <3>1, FS_Subset
    <3>4. H(r)[r \ {X(r)}] = H(r \ {X(r)})[r \ {X(r)}]
      <4> HIDE DEF H, X
      <4> QED
        BY <3>3, AddsUnique
    <3> QED
      BY <2>2, <3>2, <3>4
  <2> QED
    BY <2>1, <2>2
<1>5. PICK h : h = [r \in SUBSET s |-> V(r)]
  OBVIOUS
<1>6. ASSUME NEW r \in SUBSET s
      PROVE  h[r] = IF r = {} THEN 0 ELSE f[X(r)] + h[r \ {X(r)}]
  <2>1. CASE r = {}
    BY <1>5, <2>1
  <2>2. CASE r # {}
    <3>1. X(r) \in r /\ r \ {X(r)} \in SUBSET s /\ r \ {X(r)} # s
      BY <2>2
    <3>2. h[r \ {X(r)}] = H(r \ {X(r)})[r \ {X(r)}]
      BY <1>4, <1>5, <3>1
    <3> QED
      BY <1>5, <2>2, <3>2
  <2> QED
    BY <2>1, <2>2
<1>7. Adds(h, f, s)
  BY <1>5, <1>6 DEF Adds
<1> QED
  BY <1>2, <1>7

\* One element more.
LEMMA AddsStep ==
  ASSUME NEW S, NEW f, NEW h, Adds(h, f, S), NEW s \in SUBSET S, s # {}
  PROVE  \E x \in s : h[s] = f[x] + h[s \ {x}]
BY DEF Adds

\* The union of the sets of the members of s.
Union(U, s) == UNION {U[x] : x \in s}

\* No element is in two of the sets.
Disjoint(U, S) == \A y, z \in S : y = z \/ U[y] \cap U[z] = {}

\* A union is no larger than its parts, and as large when they are disjoint.
LEMMA UnionSplits ==
  ASSUME NEW S, NEW D, IsFiniteSet(D), NEW U \in [S -> SUBSET D], NEW s \in SUBSET S, NEW x \in s
  PROVE  LET a == Cardinality(Union(U, s \ {x}))
             b == Cardinality(U[x])
             c == Cardinality(Union(U, s)) IN
         /\ a \in Nat /\ b \in Nat /\ c \in Nat /\ c <= a + b
         /\ Disjoint(U, S) => c = a + b
<1>1. Union(U, s) = Union(U, s \ {x}) \cup U[x]
  BY DEF Union
<1>2. Union(U, s) \subseteq D /\ Union(U, s \ {x}) \subseteq D /\ U[x] \subseteq D
  BY DEF Union
<1>3. IsFiniteSet(Union(U, s)) /\ IsFiniteSet(Union(U, s \ {x})) /\ IsFiniteSet(U[x])
  BY <1>2, FS_Subset
<1>4. Cardinality(Union(U, s)) \in Nat /\ Cardinality(Union(U, s \ {x})) \in Nat /\ Cardinality(U[x]) \in Nat
  BY <1>3, FS_CardinalityType
<1>5. PICK both : both = Union(U, s \ {x}) \cap U[x]
  OBVIOUS
<1>6. IsFiniteSet(both) /\ Cardinality(both) \in Nat
  BY <1>3, <1>5, FS_Intersection, FS_CardinalityType
<1>7. Cardinality(Union(U, s)) = Cardinality(Union(U, s \ {x})) + Cardinality(U[x]) - Cardinality(both)
  BY <1>1, <1>3, <1>5, FS_Union
<1>8. Disjoint(U, S) => Cardinality(both) = 0
  <2>1. Disjoint(U, S) => both = {}
    BY <1>5 DEF Union, Disjoint
  <2> QED
    BY <2>1, FS_EmptySet
<1> QED
  BY <1>4, <1>6, <1>7, <1>8

LEMMA TimesSplits ==
  \A k, a, b \in Nat : k * (a + b) = k * a + k * b /\ k * a \in Nat
OBVIOUS

LEMMA TimesMonotonic ==
  \A k \in Nat, a, b \in Int : a <= b => k * a <= k * b
OBVIOUS

\* If each value is no more than k times the size of a set, and the sets are
\* disjoint, the sum is no more than k times the size of their union.
LEMMA SumAtMost ==
  ASSUME NEW S, IsFiniteSet(S), NEW f, NEW h, Adds(h, f, S), NEW k \in Nat,
         NEW D, IsFiniteSet(D), NEW U \in [S -> SUBSET D],
         Disjoint(U, S),
         \A x \in S : f[x] \in Nat /\ f[x] <= k * Cardinality(U[x])
  PROVE  h[S] \in Nat /\ h[S] <= k * Cardinality(Union(U, S))
<1> DEFINE Fine(s) == h[s] \in Nat /\ h[s] <= k * Cardinality(Union(U, s))
           W == {s \in SUBSET S : ~Fine(s)}
<1>1. SUFFICES ASSUME W # {} PROVE FALSE
  OBVIOUS
<1>2. PICK s \in W : \A r \in W : r \subseteq s => r = s
  <2>1. W \subseteq SUBSET S
    OBVIOUS
  <2> HIDE DEF W
  <2> QED
    BY <1>1, <2>1, LeastSubset
<1>3. CASE s = {}
  <2>1. h[s] = 0
    BY <1>3 DEF Adds
  <2>2. Union(U, s) = {}
    BY <1>3 DEF Union
  <2>3. Cardinality(Union(U, s)) = 0 /\ k * 0 = 0
    BY <2>2, FS_EmptySet
  <2> QED
    BY <1>2, <2>1, <2>3
<1>4. CASE s # {}
  <2>1. PICK x \in s : h[s] = f[x] + h[s \ {x}]
    BY <1>2, <1>4, AddsStep
  <2>2. Fine(s \ {x})
    <3>1. s \ {x} \in SUBSET S /\ s \ {x} \subseteq s /\ s \ {x} # s
      BY <1>2
    <3> QED
      BY <1>2, <3>1
  <2>3. PICK a, b : a = Cardinality(Union(U, s \ {x})) /\ b = Cardinality(U[x])
    OBVIOUS
  <2>4. a \in Nat /\ b \in Nat /\ Cardinality(Union(U, s)) = a + b
    <3>1. s \in SUBSET S
      BY <1>2
    <3> HIDE DEF W
    <3> QED
      BY <2>3, <3>1, UnionSplits
  <2>5. f[x] \in Nat /\ f[x] <= k * b /\ h[s \ {x}] \in Nat /\ h[s \ {x}] <= k * a
    BY <1>2, <2>2, <2>3
  <2>6. h[s] \in Nat /\ h[s] <= k * (a + b)
    BY <2>1, <2>4, <2>5, TimesSplits
  <2> QED
    BY <1>2, <2>4, <2>6
<1> QED
  BY <1>3, <1>4

\* If each is no less than k times the size of a set, the sum is no less than k
\* times the size of their union.
LEMMA SumAtLeast ==
  ASSUME NEW S, IsFiniteSet(S), NEW f, NEW h, Adds(h, f, S), NEW k \in Nat,
         NEW D, IsFiniteSet(D), NEW U \in [S -> SUBSET D],
         \A x \in S : f[x] \in Nat /\ f[x] >= k * Cardinality(U[x])
  PROVE  h[S] \in Nat /\ h[S] >= k * Cardinality(Union(U, S))
<1> DEFINE Fine(s) == h[s] \in Nat /\ h[s] >= k * Cardinality(Union(U, s))
           W == {s \in SUBSET S : ~Fine(s)}
<1>1. SUFFICES ASSUME W # {} PROVE FALSE
  OBVIOUS
<1>2. PICK s \in W : \A r \in W : r \subseteq s => r = s
  <2>1. W \subseteq SUBSET S
    OBVIOUS
  <2> HIDE DEF W
  <2> QED
    BY <1>1, <2>1, LeastSubset
<1>3. CASE s = {}
  <2>1. h[s] = 0
    BY <1>3 DEF Adds
  <2>2. Union(U, s) = {}
    BY <1>3 DEF Union
  <2>3. Cardinality(Union(U, s)) = 0 /\ k * 0 = 0
    BY <2>2, FS_EmptySet
  <2> QED
    BY <1>2, <2>1, <2>3
<1>4. CASE s # {}
  <2>1. PICK x \in s : h[s] = f[x] + h[s \ {x}]
    BY <1>2, <1>4, AddsStep
  <2>2. Fine(s \ {x})
    <3>1. s \ {x} \in SUBSET S /\ s \ {x} \subseteq s /\ s \ {x} # s
      BY <1>2
    <3> QED
      BY <1>2, <3>1
  <2>3. PICK a, b, c : a = Cardinality(Union(U, s \ {x})) /\ b = Cardinality(U[x]) /\ c = Cardinality(Union(U, s))
    OBVIOUS
  <2>4. a \in Nat /\ b \in Nat /\ c \in Nat /\ c <= a + b
    BY <1>2, <2>3, UnionSplits
  <2>5. f[x] \in Nat /\ f[x] >= k * b /\ h[s \ {x}] \in Nat /\ h[s \ {x}] >= k * a
    BY <1>2, <2>2, <2>3
  <2>6. k * c <= k * (a + b) /\ k * (a + b) = k * a + k * b /\ k * c \in Nat /\ k * a \in Nat /\ k * b \in Nat
    BY <2>4, TimesSplits, TimesMonotonic
  <2>7. h[s] \in Nat /\ h[s] >= k * c
    BY <2>1, <2>5, <2>6
  <2> QED
    BY <1>2, <2>3, <2>7
<1> QED
  BY <1>3, <1>4

\* A part of a value that is spread evenly.
LEMMA DivBounds ==
  ASSUME NEW a \in Nat, NEW b \in Nat, NEW c \in Nat \ {0}, b <= c
  PROVE  /\ (a * b) \div c \in 0..a
         /\ b = c => (a * b) \div c = a
<1>1. PICK q : q = (a * b) \div c
  OBVIOUS
<1>2. a * b \in Nat /\ a * b <= a * c /\ a * c \in Nat
  OBVIOUS
<1>3. q \in Int /\ c * q <= a * b /\ a * b < c * q + c
  BY <1>1, <1>2
<1>4. c * q <= a * c
  BY <1>2, <1>3
<1>5. q <= a
  BY <1>3, <1>4
<1>6. q >= 0
  BY <1>2, <1>3
<1>7. b = c => q = a
  <2>1. SUFFICES ASSUME b = c PROVE q = a
    OBVIOUS
  <2>2. a * c < c * q + c /\ c * q + c = c * (q + 1)
    BY <1>3, <2>1
  <2>3. a < q + 1
    BY <1>3, <2>2
  <2> QED
    BY <1>3, <1>5, <2>3
<1> QED
  BY <1>1, <1>3, <1>5, <1>6, <1>7

-----------------------------------------------------------------------------
\* What Traffic adds up.

\* The rows of a window, the seconds of it that a row is worth, and the share of
\* its rise.
Rows(start, end) == {r \in traffic : r.end > start /\ r.start < end /\ r.known /\ r.end > r.start}
Seconds(start, end, r) == Most(0, Least(end, r.end) - Most(start, r.start))
Share(start, end, r) == (Scale * r.up * Seconds(start, end, r)) \div (r.end - r.start)

\* What Traffic gives is what its rows add up to.
LEMMA CoverageAdds ==
  ASSUME NEW start, NEW end, IsFiniteSet(Rows(start, end)),
         NEW f, f = [r \in Rows(start, end) |-> Seconds(start, end, r)], NEW h, Adds(h, f, Rows(start, end))
  PROVE  Traffic(start, end).coverage = h[Rows(start, end)]
<1> DEFINE E(r) == Most(0, Least(end, r.end) - Most(start, r.start))
           S == Rows(start, end)
<1>1. h = [s \in SUBSET S |-> IF s = {} THEN 0
                          ELSE E(CHOOSE x \in s : TRUE) + h[s \ {CHOOSE x \in s : TRUE}]]
  <2>1. \A s \in SUBSET S : s # {} => f[CHOOSE x \in s : TRUE] = E(CHOOSE x \in s : TRUE)
    BY DEF Seconds
  <2> HIDE DEF E, S
  <2> QED
    BY <2>1 DEF Adds, S
<1>2. PICK g : /\ g = [s \in SUBSET S |-> IF s = {} THEN 0
                          ELSE E(CHOOSE x \in s : TRUE) + g[s \ {CHOOSE x \in s : TRUE}]]
               /\ Traffic(start, end).coverage = g[S]
  BY <1>1 DEF Traffic, MapThenSumSet, MapThenFoldSet, Rows
<1>3. Adds(g, f, S)
  <2>1. \A s \in SUBSET S : s # {} => f[CHOOSE x \in s : TRUE] = E(CHOOSE x \in s : TRUE)
    BY DEF Seconds
  <2>2. g = [s \in SUBSET S |-> IF s = {} THEN 0
                          ELSE E(CHOOSE x \in s : TRUE) + g[s \ {CHOOSE x \in s : TRUE}]]
    BY <1>2
  <2> HIDE DEF E, S
  <2> QED
    BY <2>1, <2>2 DEF Adds
<1> HIDE DEF E, S
<1>4. g[S] = h[S]
  BY <1>3, AddsUnique DEF S
<1> QED
  BY <1>2, <1>4 DEF S

LEMMA UploadedAdds ==
  ASSUME NEW start, NEW end, IsFiniteSet(Rows(start, end)),
         NEW f, f = [r \in Rows(start, end) |-> Share(start, end, r)], NEW h, Adds(h, f, Rows(start, end))
  PROVE  Traffic(start, end).uploaded = h[Rows(start, end)]
<1> DEFINE E(r) == (Scale * r.up * Most(0, Least(end, r.end) - Most(start, r.start))) \div (r.end - r.start)
           S == Rows(start, end)
<1>1. h = [s \in SUBSET S |-> IF s = {} THEN 0
                          ELSE E(CHOOSE x \in s : TRUE) + h[s \ {CHOOSE x \in s : TRUE}]]
  <2>1. \A s \in SUBSET S : s # {} => f[CHOOSE x \in s : TRUE] = E(CHOOSE x \in s : TRUE)
    BY DEF Share, Seconds
  <2> HIDE DEF E, S
  <2> QED
    BY <2>1 DEF Adds, S
<1>2. PICK g : /\ g = [s \in SUBSET S |-> IF s = {} THEN 0
                          ELSE E(CHOOSE x \in s : TRUE) + g[s \ {CHOOSE x \in s : TRUE}]]
               /\ Traffic(start, end).uploaded = g[S]
  BY <1>1 DEF Traffic, MapThenSumSet, MapThenFoldSet, Rows
<1>3. Adds(g, f, S)
  <2>1. \A s \in SUBSET S : s # {} => f[CHOOSE x \in s : TRUE] = E(CHOOSE x \in s : TRUE)
    BY DEF Share, Seconds
  <2>2. g = [s \in SUBSET S |-> IF s = {} THEN 0
                          ELSE E(CHOOSE x \in s : TRUE) + g[s \ {CHOOSE x \in s : TRUE}]]
    BY <1>2
  <2> HIDE DEF E, S
  <2> QED
    BY <2>1, <2>2 DEF Adds
<1> HIDE DEF E, S
<1>4. g[S] = h[S]
  BY <1>3, AddsUnique DEF S
<1> QED
  BY <1>2, <1>4 DEF S

\* The seconds of qB's history at which the counter was read for the start and
\* for the end of each row.
ReadAt(from, to, rows) ==
  /\ from \in [rows -> 0..now] /\ to \in [rows -> 0..now]
  /\ \A r \in rows :
       /\ r.start \in 0..now /\ r.end \in 0..now /\ r.start < r.end /\ r.end <= r.start + 3 * Interval
       /\ r.start - Interval <= from[r] /\ from[r] <= r.start
       /\ r.end - Interval <= to[r] /\ to[r] <= r.end /\ from[r] <= to[r]
       /\ r.up \in Nat /\ Rise(r.up, from[r], to[r])
  /\ \A r, q \in rows :
       /\ r = q \/ (r.end <= q.start /\ to[r] <= from[q]) \/ (q.end <= r.start /\ to[q] <= from[r])
       /\ r.end = q.start => to[r] = from[q]

LEMMA RowsRead ==
  ASSUME IntervalInv, NEW rows, rows \subseteq {r \in traffic : r.known}
  PROVE  IsFiniteSet(rows) /\ \E from, to : ReadAt(from, to, rows)
<1>1. IsFiniteSet(rows) /\ now \in Nat
  BY FS_Subset DEF IntervalInv, SampleInv, StreamInv, TypeOK
<1>2. PICK delay \in [0..now -> 0..Interval] : ReadingsInv(delay)
  BY DEF IntervalInv
<1>3. PICK from, to : /\ from = [r \in rows |-> r.start - delay[r.start]]
                      /\ to = [r \in rows |-> r.end - delay[r.end]]
  OBVIOUS
<1>4. ASSUME NEW r \in rows
      PROVE  /\ from[r] \in 0..now /\ to[r] \in 0..now
             /\ r.start \in 0..now /\ r.end \in 0..now /\ r.start < r.end /\ r.end <= r.start + 3 * Interval
             /\ r.start - Interval <= from[r] /\ from[r] <= r.start
             /\ r.end - Interval <= to[r] /\ to[r] <= r.end /\ from[r] <= to[r]
             /\ r.up \in Nat /\ Rise(r.up, from[r], to[r])
  <2>1. /\ r.start \in 0..now /\ r.end \in 0..now /\ r.start < r.end
        /\ delay[r.start] <= r.start /\ delay[r.end] <= r.end
        /\ r.start <= r.end - delay[r.end]
        /\ r.up \in Nat /\ r.end - r.start <= 3 * Interval
        /\ Rise(r.up, r.start - delay[r.start], r.end - delay[r.end])
    BY <1>2 DEF ReadingsInv, HonestRow
  <2>2. from[r] = r.start - delay[r.start] /\ to[r] = r.end - delay[r.end]
    BY <1>3
  <2>3. delay[r.start] \in 0..Interval /\ delay[r.end] \in 0..Interval /\ Interval \in Nat
    BY <2>1, ObservationAssumption
  <2>4. PICK s, e, d, c : s = r.start /\ e = r.end /\ d = delay[r.start] /\ c = delay[r.end]
    OBVIOUS
  <2>5. /\ from[r] \in 0..now /\ to[r] \in 0..now /\ r.end <= r.start + 3 * Interval
        /\ r.start - Interval <= from[r] /\ from[r] <= r.start
        /\ r.end - Interval <= to[r] /\ to[r] <= r.end /\ from[r] <= to[r]
    <3>1. /\ s \in 0..now /\ e \in 0..now /\ d \in 0..Interval /\ c \in 0..Interval
          /\ s < e /\ d <= s /\ c <= e /\ s <= e - c /\ e - s <= 3 * Interval
      BY <2>1, <2>3, <2>4
    <3>2. from[r] = s - d /\ to[r] = e - c
      BY <2>2, <2>4
    <3>3. /\ s - d \in 0..now /\ e - c \in 0..now /\ e <= s + 3 * Interval
          /\ s - Interval <= s - d /\ s - d <= s /\ e - Interval <= e - c /\ e - c <= e /\ s - d <= e - c
      BY <1>1, <2>3, <3>1
    <3> QED
      BY <2>4, <3>2, <3>3
  <2> QED
    BY <2>1, <2>2, <2>5
<1>5. \A r, q \in rows :
        /\ r = q \/ (r.end <= q.start /\ to[r] <= from[q]) \/ (q.end <= r.start /\ to[q] <= from[r])
        /\ r.end = q.start => to[r] = from[q]
  BY <1>2, <1>3 DEF ReadingsInv, Before
<1>6. from \in [rows -> 0..now] /\ to \in [rows -> 0..now]
  BY <1>3, <1>4
<1>7. ReadAt(from, to, rows)
  BY <1>4, <1>5, <1>6 DEF ReadAt
<1> QED
  BY <1>1, <1>7

\* The seconds of a window that a row is worth.
LEMMA SecondsOf ==
  ASSUME now \in Nat, NEW start \in Int, NEW r, r.start \in 0..now, r.end \in 0..now, r.start < r.end, start < r.end
  PROVE  /\ Seconds(start, now, r) \in 1..(r.end - r.start)
         /\ Seconds(start, now, r) = Cardinality(Most(start, r.start)..(r.end - 1))
         /\ start <= r.start => Seconds(start, now, r) = r.end - r.start
<1>1. PICK s, e : s = r.start /\ e = r.end
  OBVIOUS
<1>2. s \in 0..now /\ e \in 0..now /\ s < e /\ start < e
  BY <1>1
<1>3. PICK m : m = Most(start, s)
  OBVIOUS
<1>4. m \in Int /\ m < e /\ s <= m /\ start <= m /\ (start <= s => m = s)
  BY <1>2, <1>3 DEF Most
<1>5. Seconds(start, now, r) = e - m
  BY <1>1, <1>2, <1>3, <1>4 DEF Seconds, Most, Least
<1>6. Cardinality(m..(e - 1)) = e - m
  <2>1. e - 1 \in Int /\ ~(m > e - 1) /\ (e - 1) - m + 1 = e - m
    BY <1>2, <1>4
  <2> QED
    BY <1>4, <2>1, FS_Interval
<1> QED
  BY <1>1, <1>2, <1>3, <1>4, <1>5, <1>6

\* No second is counted twice, and a window whose seconds are all counted has a
\* row at each.
LEMMA CoverageBounded ==
  ASSUME now \in Nat, NEW start \in Int, start < now, NEW from, NEW to,
         IsFiniteSet(Rows(start, now)), ReadAt(from, to, Rows(start, now))
  PROVE  LET w == Traffic(start, now) IN
         /\ w.coverage <= now - start
         /\ w.coverage = now - start =>
              \A t \in start..(now - 1) : \E r \in Rows(start, now) : r.start <= t /\ t < r.end
<1>1. PICK rows : rows = Rows(start, now)
  OBVIOUS
<1>2. PICK f : f = [r \in rows |-> Seconds(start, now, r)]
  OBVIOUS
<1>3. PICK h : Adds(h, f, rows)
  BY <1>1, AddsExists
<1>4. Traffic(start, now).coverage = h[rows]
  BY <1>1, <1>2, <1>3, CoverageAdds
<1>5. PICK window : window = start..(now - 1)
  OBVIOUS
<1>6. IsFiniteSet(window) /\ Cardinality(window) = now - start
  <2>1. now - 1 \in Int /\ ~(start > now - 1) /\ (now - 1) - start + 1 = now - start
    OBVIOUS
  <2> QED
    BY <1>5, <2>1, FS_Interval
<1>7. PICK U : U = [r \in rows |-> Most(start, r.start)..(r.end - 1)]
  OBVIOUS
<1>8. ASSUME NEW r \in rows
      PROVE  /\ r.start \in 0..now /\ r.end \in 0..now /\ r.start < r.end /\ start < r.end
             /\ \A t \in U[r] : t \in window /\ r.start <= t /\ t < r.end
             /\ f[r] \in Nat /\ f[r] = Cardinality(U[r])
  <2>1. r.start \in 0..now /\ r.end \in 0..now /\ r.start < r.end /\ start < r.end
    BY <1>1 DEF ReadAt, Rows
  <2>2. \A t \in U[r] : t \in window /\ r.start <= t /\ t < r.end
    BY <1>5, <1>7, <2>1 DEF Most
  <2>3. f[r] \in Nat /\ f[r] = Cardinality(U[r])
    BY <1>2, <1>7, <2>1, SecondsOf
  <2> QED
    BY <2>1, <2>2, <2>3
<1>9. U \in [rows -> SUBSET window]
  BY <1>7, <1>8
<1>10. Disjoint(U, rows)
  <2>1. \A r, q \in rows : r = q \/ r.end <= q.start \/ q.end <= r.start
    BY <1>1 DEF ReadAt
  <2>2. \A t \in window : t \in Int
    BY <1>5
  <2>3. ASSUME NEW r \in rows, NEW q \in rows, r # q, NEW t \in U[r], t \in U[q]
        PROVE  FALSE
    <3>1. t \in Int /\ r.start <= t /\ t < r.end /\ q.start <= t /\ t < q.end
      BY <1>8, <2>2, <2>3
    <3>2. r.start \in Int /\ r.end \in Int /\ q.start \in Int /\ q.end \in Int
      BY <1>8
    <3> QED
      BY <2>1, <2>3, <3>1, <3>2
  <2> QED
    BY <2>3 DEF Disjoint
<1>11. \A r \in rows : f[r] \in Nat /\ f[r] <= 1 * Cardinality(U[r])
  BY <1>8
<1>12. h[rows] \in Nat /\ h[rows] <= 1 * Cardinality(Union(U, rows))
  BY <1>1, <1>3, <1>6, <1>9, <1>10, <1>11, SumAtMost
<1>13. Union(U, rows) \in SUBSET window
  BY <1>9 DEF Union
<1>14. Cardinality(Union(U, rows)) \in Nat /\ Cardinality(Union(U, rows)) <= now - start
  BY <1>6, <1>13, FS_Subset, FS_CardinalityType
<1>15. h[rows] <= now - start
  BY <1>12, <1>14
<1>16. ASSUME h[rows] = now - start
       PROVE  \A t \in window : \E r \in rows : r.start <= t /\ t < r.end
  <2>1. Cardinality(Union(U, rows)) = now - start
    BY <1>12, <1>14, <1>16
  <2>2. Union(U, rows) = window
    BY <1>6, <1>13, <2>1, FS_Subset
  <2> QED
    BY <1>8, <2>2 DEF Union
<1> QED
  BY <1>1, <1>4, <1>5, <1>15, <1>16

\* What qB uploaded between the readings of a row.
LEMMA SentBetween ==
  ASSUME ClockInv, now \in Nat, NEW s \in 0..now, NEW e \in 0..now, s <= e
  PROVE  /\ sent[s] \in Nat /\ sent[e] \in Nat /\ sent[s] <= sent[e] /\ sent[e] <= sent[now]
         /\ Cardinality((sent[s] + 1)..sent[e]) = sent[e] - sent[s]
<1>1. sent[s] \in Nat /\ sent[e] \in Nat /\ sent[s] <= sent[e] /\ sent[e] <= sent[now]
  BY DEF ClockInv
<1>2. PICK a, b : a = sent[s] + 1 /\ b = sent[e]
  OBVIOUS
<1>3. a \in Int /\ b \in Int /\ a <= b + 1 /\ b - a + 1 = sent[e] - sent[s] /\ (a > b => sent[e] - sent[s] = 0)
  BY <1>1, <1>2
<1>4. Cardinality(a..b) = sent[e] - sent[s]
  BY <1>3, FS_Interval
<1> QED
  BY <1>1, <1>2, <1>4

\* A row is worth no more than it rose by, and all of that inside the window.
LEMMA ShareOf ==
  ASSUME now \in Nat, NEW start \in Int, NEW r, r.start \in 0..now, r.end \in 0..now, r.start < r.end, start < r.end,
         r.up \in Nat
  PROVE  /\ Share(start, now, r) \in 0..(Scale * r.up)
         /\ start <= r.start => Share(start, now, r) = Scale * r.up
<1>1. PICK a, b, c : a = Scale * r.up /\ b = Seconds(start, now, r) /\ c = r.end - r.start
  OBVIOUS
<1>2. a \in Nat
  <2>1. \A k, n \in Nat : k * n \in Nat
    OBVIOUS
  <2> QED
    BY <1>1, <2>1, ObservationAssumption
<1>3. b \in 1..c /\ c \in Nat \ {0} /\ (start <= r.start => b = c)
  <2>1. \A s, e \in 0..now : s < e => e - s \in Nat \ {0}
    OBVIOUS
  <2> QED
    BY <1>1, <2>1, SecondsOf
<1>4. (a * b) \div c \in 0..a /\ (b = c => (a * b) \div c = a)
  BY <1>2, <1>3, DivBounds
<1>5. Share(start, now, r) = (a * b) \div c
  BY <1>1 DEF Share
<1> QED
  BY <1>1, <1>3, <1>4, <1>5

\* The counter at a second, in or out of the clock's range.
LEMMA SentByOf ==
  ASSUME ClockInv, now \in Nat, NEW t \in Int, NEW u \in 0..now
  PROVE  /\ SentBy(t) \in Nat /\ SentBy(t) <= sent[now]
         /\ t <= u => SentBy(t) <= sent[u]
         /\ u <= t => sent[u] <= SentBy(t)
<1>1. PICK m : m = Most(0, Least(t, now))
  OBVIOUS
<1>2. m \in 0..now /\ (t <= u => m <= u) /\ (u <= t => u <= m)
  BY <1>1 DEF Most, Least
<1>3. SentBy(t) = sent[m]
  BY <1>1 DEF SentBy
<1> QED
  BY <1>2, <1>3 DEF ClockInv

\* No rise is counted twice, and none of before the first row began.
LEMMA UploadedBounded ==
  ASSUME ClockInv, now \in Nat, NEW start \in Int, start < now, NEW from, NEW to,
         IsFiniteSet(Rows(start, now)), ReadAt(from, to, Rows(start, now))
  PROVE  LET w == Traffic(start, now) IN
         /\ 0 <= w.uploaded
         /\ w.uploaded <= Scale * (sent[now] - SentBy(start - 4 * Interval))
<1>1. PICK rows : rows = Rows(start, now)
  OBVIOUS
<1>2. PICK f : f = [r \in rows |-> Share(start, now, r)]
  OBVIOUS
<1>3. PICK h : Adds(h, f, rows)
  BY <1>1, AddsExists
<1>4. Traffic(start, now).uploaded = h[rows]
  BY <1>1, <1>2, <1>3, UploadedAdds
<1>5. PICK low, high : low = SentBy(start - 4 * Interval) /\ high = sent[now]
  OBVIOUS
<1>6. start - 4 * Interval \in Int /\ Interval \in Nat /\ Scale \in Nat
  BY ObservationAssumption
<1>7. low \in Nat /\ high \in Nat /\ low <= high
  <2>1. now \in 0..now /\ now <= now
    OBVIOUS
  <2>2. low \in Nat /\ low <= high
    BY <1>5, <1>6, <2>1, SentByOf
  <2>3. high \in Nat
    BY <1>5, <2>1, SentBetween
  <2> QED
    BY <2>2, <2>3
<1>8. PICK D : D = (low + 1)..high
  OBVIOUS
<1>9. IsFiniteSet(D) /\ Cardinality(D) = high - low
  <2>1. low + 1 \in Int /\ high \in Int /\ high - (low + 1) + 1 = high - low /\ (low + 1 > high => high - low = 0)
    BY <1>7
  <2> QED
    BY <1>8, <2>1, FS_Interval
<1>10. PICK U : U = [r \in rows |-> (sent[from[r]] + 1)..sent[to[r]]]
  OBVIOUS
<1>11. ASSUME NEW r \in rows
       PROVE  /\ from[r] \in 0..now /\ to[r] \in 0..now /\ sent[from[r]] \in Nat /\ sent[to[r]] \in Nat
              /\ \A n \in U[r] : n \in D /\ sent[from[r]] < n /\ n <= sent[to[r]]
              /\ f[r] \in Nat /\ f[r] <= Scale * Cardinality(U[r])
  <2>1. /\ from[r] \in 0..now /\ to[r] \in 0..now /\ from[r] <= to[r]
        /\ r.start \in 0..now /\ r.end \in 0..now /\ r.start < r.end /\ start < r.end
        /\ r.end <= r.start + 3 * Interval /\ r.start - Interval <= from[r]
        /\ r.up \in Nat /\ r.up <= sent[to[r]] - sent[from[r]]
    BY <1>1 DEF ReadAt, Rows, Rise
  <2>2. /\ sent[from[r]] \in Nat /\ sent[to[r]] \in Nat /\ sent[from[r]] <= sent[to[r]] /\ sent[to[r]] <= high
        /\ Cardinality(U[r]) = sent[to[r]] - sent[from[r]]
    BY <1>5, <1>10, <2>1, SentBetween
  <2>3. low <= sent[from[r]]
    <3>1. start - 4 * Interval <= from[r]
      BY <1>6, <2>1
    <3> QED
      BY <1>5, <1>6, <2>1, <3>1, SentByOf
  <2>4. \A n \in U[r] : n \in D /\ sent[from[r]] < n /\ n <= sent[to[r]]
    BY <1>7, <1>8, <1>10, <2>2, <2>3
  <2>5. f[r] \in 0..(Scale * r.up)
    BY <1>2, <2>1, ShareOf
  <2>6. r.up <= Cardinality(U[r]) /\ Cardinality(U[r]) \in Nat
    BY <2>1, <2>2
  <2>7. Scale * r.up <= Scale * Cardinality(U[r]) /\ Scale * r.up \in Nat /\ Scale * Cardinality(U[r]) \in Nat
    BY <1>6, <2>1, <2>6, TimesMonotonic, TimesSplits
  <2>8. f[r] \in Nat /\ f[r] <= Scale * Cardinality(U[r])
    BY <2>5, <2>7
  <2> QED
    BY <2>1, <2>2, <2>4, <2>8
<1>12. U \in [rows -> SUBSET D]
  BY <1>10, <1>11
<1>13. Disjoint(U, rows)
  <2>1. \A r, q \in rows : r = q \/ to[r] <= from[q] \/ to[q] <= from[r]
    BY <1>1 DEF ReadAt
  <2>2. \A r, q \in rows : r = q \/ sent[to[r]] <= sent[from[q]] \/ sent[to[q]] <= sent[from[r]]
    BY <1>11, <2>1, SentBetween
  <2>3. \A n \in D : n \in Int
    BY <1>8
  <2>4. ASSUME NEW r \in rows, NEW q \in rows, r # q, NEW n \in U[r], n \in U[q]
        PROVE  FALSE
    <3>1. n \in Int /\ sent[from[r]] < n /\ n <= sent[to[r]] /\ sent[from[q]] < n /\ n <= sent[to[q]]
      BY <1>11, <2>3, <2>4
    <3>2. sent[from[r]] \in Nat /\ sent[to[r]] \in Nat /\ sent[from[q]] \in Nat /\ sent[to[q]] \in Nat
      BY <1>11
    <3> QED
      BY <2>2, <2>4, <3>1, <3>2
  <2> QED
    BY <2>4 DEF Disjoint
<1>14. \A r \in rows : f[r] \in Nat /\ f[r] <= Scale * Cardinality(U[r])
  BY <1>11
<1>15. h[rows] \in Nat /\ h[rows] <= Scale * Cardinality(Union(U, rows))
  BY <1>1, <1>3, <1>6, <1>9, <1>12, <1>13, <1>14, SumAtMost
<1>16. Union(U, rows) \in SUBSET D
  BY <1>12 DEF Union
<1>17. Cardinality(Union(U, rows)) \in Nat /\ Cardinality(Union(U, rows)) <= high - low /\ high - low \in Nat
  BY <1>7, <1>9, <1>16, FS_Subset, FS_CardinalityType
<1>18. /\ Scale * Cardinality(Union(U, rows)) <= Scale * (high - low)
       /\ Scale * Cardinality(Union(U, rows)) \in Nat /\ Scale * (high - low) \in Nat
  BY <1>6, <1>17, TimesMonotonic, TimesSplits
<1>19. 0 <= h[rows] /\ h[rows] <= Scale * (high - low)
  BY <1>15, <1>18
<1> QED
  BY <1>4, <1>5, <1>19

\* A set of rows that is not empty has one that ends first.
LEMMA FirstToEnd ==
  ASSUME now \in Nat, NEW M, M # {}, \A r \in M : r.end \in 0..now
  PROVE  \E r \in M : \A q \in M : r.end <= q.end
<1>1. PICK W : W = {0..r.end : r \in M}
  OBVIOUS
<1>2. PICK D : D = 0..now
  OBVIOUS
<1>3. W \subseteq SUBSET D /\ W # {}
  BY <1>1, <1>2
<1>4. PICK s \in W : \A v \in W : v \subseteq s => v = s
  <2>1. IsFiniteSet(D)
    BY <1>2, FS_Interval
  <2> QED
    BY <1>3, <2>1, LeastSubset
<1>5. PICK r \in M : s = 0..r.end
  BY <1>1, <1>4
<1>6. ASSUME NEW q \in M
      PROVE  r.end <= q.end
  <2>1. PICK a, b : a = r.end /\ b = q.end
    OBVIOUS
  <2>2. a \in 0..now /\ b \in 0..now
    BY <2>1
  <2>3. 0..b \in W /\ s = 0..a
    BY <1>1, <1>5, <2>1
  <2>4. CASE b < a
    <3>1. 0..b \subseteq 0..a /\ a \notin 0..b /\ a \in 0..a
      BY <2>2, <2>4
    <3> QED
      BY <1>4, <2>3, <3>1
  <2> QED
    BY <2>1, <2>2, <2>4
<1> QED
  BY <1>6

\* In a window that is covered, every unit that qB uploaded in it but for its
\* ends is between the readings of a row that begins in the window.
LEMMA UnitsCovered ==
  ASSUME ClockInv, now \in Nat, NEW start \in Int, start < now, NEW from, NEW to,
         NEW rows, ReadAt(from, to, rows),
         \A t \in start..(now - 1) : \E r \in rows : r.start <= t /\ t < r.end,
         NEW n \in Nat, SentBy(start + 3 * Interval) < n, n <= SentBy(now - Interval)
  PROVE  \E r \in rows : start <= r.start /\ sent[from[r]] < n /\ n <= sent[to[r]]
<1>1. Interval \in Nat /\ start + 3 * Interval \in Int /\ now - Interval \in Int
  BY ObservationAssumption
<1>2. \A u \in 0..now :
        /\ sent[u] \in Nat
        /\ u <= start + 3 * Interval => sent[u] < n
        /\ now - Interval <= u => n <= sent[u]
  <2> SUFFICES ASSUME NEW u \in 0..now
               PROVE  /\ sent[u] \in Nat
                      /\ u <= start + 3 * Interval => sent[u] < n
                      /\ now - Interval <= u => n <= sent[u]
    OBVIOUS
  <2>1. sent[u] \in Nat
    BY DEF ClockInv
  <2>2. /\ SentBy(start + 3 * Interval) \in Nat
        /\ u <= start + 3 * Interval => sent[u] <= SentBy(start + 3 * Interval)
    BY <1>1, SentByOf
  <2>3. /\ SentBy(now - Interval) \in Nat
        /\ now - Interval <= u => SentBy(now - Interval) <= sent[u]
    BY <1>1, SentByOf
  <2> QED
    BY <2>1, <2>2, <2>3
<1>3. \A r \in rows :
        /\ r.start \in 0..now /\ r.end \in 0..now /\ r.start < r.end /\ r.end <= r.start + 3 * Interval
        /\ from[r] \in 0..now /\ to[r] \in 0..now /\ from[r] <= r.start
        /\ r.end - Interval <= to[r] /\ to[r] <= r.end
  BY DEF ReadAt
<1>4. PICK M : M = {r \in rows : start <= r.start /\ n <= sent[to[r]]}
  OBVIOUS
<1>5. M # {}
  <2>1. now - 1 \in start..(now - 1)
    OBVIOUS
  <2>2. PICK z \in rows : z.start <= now - 1 /\ now - 1 < z.end
    BY <2>1
  <2>3. PICK s, e : s = z.start /\ e = z.end
    OBVIOUS
  <2>4. s \in 0..now /\ e \in 0..now /\ e <= s + 3 * Interval /\ now - 1 < e /\ e - Interval <= to[z]
    BY <1>3, <2>2, <2>3
  <2>5. e = now
    BY <2>4
  <2>6. n <= sent[to[z]]
    BY <1>2, <1>3, <2>4, <2>5
  <2>7. now \in 0..now /\ n <= sent[now]
    BY <1>1, <1>2
  <2>8. start <= s
    <3>1. sent[now] \in Nat /\ ~(now <= start + 3 * Interval)
      BY <1>2, <2>7
    <3> QED
      BY <1>1, <2>4, <2>5, <3>1
  <2> QED
    BY <1>4, <2>3, <2>6, <2>8
<1>6. PICK r \in M : \A q \in M : r.end <= q.end
  <2>1. \A q \in M : q.end \in 0..now
    BY <1>3, <1>4
  <2> QED
    BY <1>5, <2>1, FirstToEnd
<1>7. r \in rows /\ start <= r.start /\ n <= sent[to[r]]
  BY <1>4, <1>6
<1>8. PICK s, e : s = r.start /\ e = r.end
  OBVIOUS
<1>9. s \in 0..now /\ e \in 0..now /\ s < e /\ start <= s /\ from[r] \in 0..now /\ from[r] <= s
  BY <1>3, <1>7, <1>8
<1>10. CASE s = start
  <2>1. from[r] <= start + 3 * Interval
    BY <1>1, <1>9, <1>10
  <2>2. sent[from[r]] < n
    BY <1>2, <1>9, <2>1
  <2> QED
    BY <1>7, <2>2
<1>11. CASE s # start
  <2>1. s - 1 \in start..(now - 1)
    BY <1>9, <1>11
  <2>2. PICK q \in rows : q.start <= s - 1 /\ s - 1 < q.end
    BY <2>1
  <2>3. PICK a, b : a = q.start /\ b = q.end
    OBVIOUS
  <2>4. a \in 0..now /\ b \in 0..now /\ a <= s - 1 /\ s - 1 < b /\ b <= a + 3 * Interval
    BY <1>3, <2>2, <2>3
  <2>5. r = q \/ e <= a \/ b <= s
    BY <1>7, <1>8, <2>3 DEF ReadAt
  <2>6. r # q
    BY <1>8, <1>9, <2>3, <2>4
  <2>7. b = s
    BY <1>9, <2>4, <2>5, <2>6
  <2>8. to[q] = from[r]
    BY <1>7, <1>8, <2>3, <2>7 DEF ReadAt
  <2>9. sent[from[r]] < n
    <3>1. CASE start <= a
      <4>1. q \notin M
        <5>1. q \in M => e <= b
          BY <1>6, <1>8, <2>3
        <5> QED
          BY <1>9, <2>7, <5>1
      <4>2. ~(n <= sent[to[q]]) /\ sent[to[q]] \in Nat
        BY <1>2, <1>3, <1>4, <2>3, <3>1, <4>1
      <4> QED
        BY <2>8, <4>2
    <3>2. CASE a < start
      <4>1. from[r] <= start + 3 * Interval
        BY <1>1, <1>9, <2>4, <2>7, <3>2
      <4> QED
        BY <1>2, <1>9, <4>1
    <3> QED
      BY <2>4, <3>1, <3>2
  <2> QED
    BY <1>7, <2>9
<1> QED
  BY <1>10, <1>11

\* A window that is covered, in which the counter never went back, counts all
\* that qB uploaded in it but for its ends.
LEMMA UploadedCounted ==
  ASSUME ClockInv, now \in Nat, NEW start \in Int, start < now, NEW from, NEW to,
         IsFiniteSet(Rows(start, now)), ReadAt(from, to, Rows(start, now)),
         \A t \in start..(now - 1) : \E r \in Rows(start, now) : r.start <= t /\ t < r.end,
         Steady(start - Interval, now)
  PROVE  Traffic(start, now).uploaded >= Scale * (SentBy(now - Interval) - SentBy(start + 3 * Interval))
<1>1. PICK rows : rows = Rows(start, now)
  OBVIOUS
<1>2. PICK f : f = [r \in rows |-> Share(start, now, r)]
  OBVIOUS
<1>3. PICK h : Adds(h, f, rows)
  BY <1>1, AddsExists
<1>4. Traffic(start, now).uploaded = h[rows]
  BY <1>1, <1>2, <1>3, UploadedAdds
<1>5. PICK low, high : low = SentBy(start + 3 * Interval) /\ high = SentBy(now - Interval)
  OBVIOUS
<1>6. /\ Interval \in Nat /\ Scale \in Nat
      /\ start - Interval \in Int /\ start + 3 * Interval \in Int /\ now - Interval \in Int
  BY ObservationAssumption
<1>7. low \in Nat /\ high \in Nat
  <2>1. now \in 0..now
    OBVIOUS
  <2> QED
    BY <1>5, <1>6, <2>1, SentByOf
<1>8. PICK D : D = 0..sent[now]
  OBVIOUS
<1>9. IsFiniteSet(D) /\ sent[now] \in Nat
  <2>1. sent[now] \in Nat
    BY DEF ClockInv
  <2> QED
    BY <1>8, <2>1, 0 \in Int, sent[now] \in Int, FS_Interval
<1>10. PICK U : U = [r \in rows |-> IF start <= r.start THEN (sent[from[r]] + 1)..sent[to[r]] ELSE {}]
  OBVIOUS
<1>11. ASSUME NEW r \in rows
       PROVE  /\ \A n \in U[r] : n \in D
              /\ f[r] \in Nat /\ f[r] >= Scale * Cardinality(U[r])
  <2>1. /\ from[r] \in 0..now /\ to[r] \in 0..now /\ from[r] <= to[r]
        /\ r.start \in 0..now /\ r.end \in 0..now /\ r.start < r.end /\ start < r.end
        /\ r.start - Interval <= from[r]
        /\ r.up \in Nat /\ Rise(r.up, from[r], to[r])
    BY <1>1 DEF ReadAt, Rows
  <2>2. f[r] \in 0..(Scale * r.up) /\ (start <= r.start => f[r] = Scale * r.up)
    BY <1>2, <2>1, ShareOf
  <2>3. Scale * r.up \in Nat
    BY <1>6, <2>1, TimesSplits
  <2>4. f[r] \in Nat
    BY <2>2, <2>3
  <2>5. CASE start <= r.start
    <3>1. Quiet(from[r], to[r])
      <4>1. start - Interval <= from[r]
        BY <1>6, <2>1, <2>5
      <4>2. \A l \in lost : l \in 0..now /\ (l < start - Interval \/ l > now)
        BY DEF ClockInv, Steady
      <4>3. \A l \in lost : l < from[r] \/ l > to[r]
        BY <1>6, <2>1, <4>1, <4>2
      <4> QED
        BY <4>3 DEF Quiet
    <3>2. r.up = sent[to[r]] - sent[from[r]]
      BY <2>1, <3>1 DEF Rise
    <3>3. U[r] = (sent[from[r]] + 1)..sent[to[r]]
      BY <1>10, <2>5
    <3>4. /\ sent[from[r]] \in Nat /\ sent[to[r]] \in Nat /\ sent[to[r]] <= sent[now]
          /\ Cardinality(U[r]) = sent[to[r]] - sent[from[r]]
      BY <2>1, <3>3, SentBetween
    <3>5. \A n \in U[r] : n \in D
      BY <1>8, <1>9, <3>3, <3>4
    <3>6. f[r] = Scale * Cardinality(U[r])
      BY <2>2, <2>5, <3>2, <3>4
    <3> QED
      BY <2>4, <3>5, <3>6
  <2>6. CASE ~(start <= r.start)
    <3>1. U[r] = {}
      BY <1>10, <2>6
    <3>2. Cardinality(U[r]) = 0 /\ Scale * 0 = 0
      BY <1>6, <3>1, FS_EmptySet
    <3> QED
      BY <2>4, <3>1, <3>2
  <2> QED
    BY <2>5, <2>6
<1>12. U \in [rows -> SUBSET D]
  <2>1. \A r \in rows : U[r] \subseteq D
    BY <1>11
  <2> HIDE DEF Rows
  <2> QED
    BY <1>10, <2>1
<1>13. \A r \in rows : f[r] \in Nat /\ f[r] >= Scale * Cardinality(U[r])
  BY <1>11
<1>14. h[rows] \in Nat /\ h[rows] >= Scale * Cardinality(Union(U, rows))
  BY <1>1, <1>3, <1>6, <1>9, <1>12, <1>13, SumAtLeast
<1>15. IsFiniteSet(Union(U, rows)) /\ Cardinality(Union(U, rows)) \in Nat
  <2>1. Union(U, rows) \in SUBSET D
    BY <1>12 DEF Union
  <2> QED
    BY <1>9, <2>1, FS_Subset, FS_CardinalityType
<1>16. PICK N : N = (low + 1)..high
  OBVIOUS
<1>17. N \in SUBSET Union(U, rows)
  <2> SUFFICES ASSUME NEW n \in N
               PROVE  \E r \in rows : n \in U[r]
    BY DEF Union
  <2>1. n \in Nat /\ low < n /\ n <= high
    BY <1>7, <1>16
  <2>2. PICK r \in rows : start <= r.start /\ sent[from[r]] < n /\ n <= sent[to[r]]
    BY <1>1, <1>5, <2>1, UnitsCovered
  <2>3. sent[from[r]] \in Nat /\ sent[to[r]] \in Nat
    BY <1>1 DEF ReadAt, ClockInv
  <2>4. n \in U[r]
    BY <1>10, <2>1, <2>2, <2>3
  <2> QED
    BY <2>4
<1>18. Cardinality(N) <= Cardinality(Union(U, rows)) /\ Cardinality(N) \in Nat
  BY <1>15, <1>17, FS_Subset, FS_CardinalityType
<1>19. high - low <= Cardinality(N)
  <2>1. low + 1 \in Int /\ high \in Int
    BY <1>7
  <2>2. Cardinality(N) = IF low + 1 > high THEN 0 ELSE high - (low + 1) + 1
    BY <1>16, <2>1, FS_Interval
  <2> QED
    BY <1>7, <2>2
<1>20. PICK c : c = Cardinality(Union(U, rows))
  OBVIOUS
<1>21. high - low \in Int /\ c \in Nat /\ high - low <= c
  BY <1>7, <1>15, <1>18, <1>19, <1>20
<1>22. Scale * (high - low) <= Scale * c /\ Scale * c \in Nat /\ Scale * (high - low) \in Int
  BY <1>6, <1>21, TimesMonotonic, TimesSplits
<1>23. h[rows] >= Scale * (high - low)
  BY <1>14, <1>20, <1>22
<1> QED
  BY <1>4, <1>5, <1>23

\* For every window that ends now, Traffic counts no more than qB uploaded since
\* three intervals and a request before it, no second twice, and, where it
\* covers the window and the counter never went back, no less than qB uploaded
\* in it but for its ends.
THEOREM TrafficHonest == Spec => []TrafficIsHonest
<1>1. IntervalInv => TrafficIsHonest
  <2> SUFFICES ASSUME IntervalInv, NEW span \in 1..(now + left.seconds), NEW start, start = now - span
               PROVE  LET w == Traffic(start, now) IN
                      /\ 0 <= w.uploaded
                      /\ w.uploaded <= Scale * (sent[now] - SentBy(start - 4 * Interval))
                      /\ w.coverage <= span
                      /\ w.coverage = span /\ Steady(start - Interval, now)
                           => w.uploaded >= Scale * (SentBy(now - Interval) - SentBy(start + 3 * Interval))
    BY DEF TrafficIsHonest
  <2>1. now \in Nat /\ left.seconds \in Nat /\ ClockInv
    BY DEF IntervalInv, StreamInv, TypeOK
  <2>2. start \in Int /\ start < now /\ now - start = span
    BY <2>1
  <2>3. IsFiniteSet(Rows(start, now)) /\ \E from, to : ReadAt(from, to, Rows(start, now))
    BY RowsRead DEF Rows
  <2>4. PICK from, to : ReadAt(from, to, Rows(start, now))
    BY <2>3
  <2>5. /\ Traffic(start, now).coverage <= span
        /\ Traffic(start, now).coverage = span =>
             \A t \in start..(now - 1) : \E r \in Rows(start, now) : r.start <= t /\ t < r.end
    BY <2>1, <2>2, <2>3, <2>4, CoverageBounded
  <2>6. /\ 0 <= Traffic(start, now).uploaded
        /\ Traffic(start, now).uploaded <= Scale * (sent[now] - SentBy(start - 4 * Interval))
    BY <2>1, <2>2, <2>3, <2>4, UploadedBounded
  <2>7. ASSUME Traffic(start, now).coverage = span, Steady(start - Interval, now)
        PROVE  Traffic(start, now).uploaded >= Scale * (SentBy(now - Interval) - SentBy(start + 3 * Interval))
    BY <2>1, <2>2, <2>3, <2>4, <2>5, <2>7, UploadedCounted
  <2> QED
    BY <2>5, <2>6, <2>7
<1> QED
  BY <1>1, InitIntervals, NextIntervals, PTL DEF Spec

=============================================================================
