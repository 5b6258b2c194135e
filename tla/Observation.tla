----------------------------- MODULE Observation -----------------------------
(***************************************************************************)
(* What the worker believes of qBittorrent.  Snapshot of qbt.go keeps a     *)
(* copy of qB's torrents and server state by the deltas of sync/maindata,   *)
(* recordTraffic of observe.go turns the total upload counter in that copy  *)
(* into intervals of known and unknown traffic, and Traffic adds up a       *)
(* window of them for the rate limits (controller.go:253) and the summary.  *)
(*                                                                         *)
(* qB is external: it answers a request for the id of one of the last two   *)
(* answers with the difference to that answer, any other with everything,   *)
(* and gives every answer an id that nobody refers to any more.  diagnose,  *)
(* upgrade-state and preflight ask the same qB (diagnose.go:40,             *)
(* upgrade.go:61, worker.go:193), which ends the worker's stream.           *)
(*                                                                         *)
(* Time is in seconds.  A torrent is its state; the two counters up and     *)
(* down are treated alike, so there is one.  Receipts, media rows and       *)
(* exposures of Observe are in DownloadPipeline, ArchiveMedia and           *)
(* SeedingQueue.                                                            *)
(***************************************************************************)
EXTENDS Integers, FiniteSets, FiniteSetsExt

CONSTANTS
  Torrent,     \* hashes
  State,       \* what qB says of a torrent
  Absent,      \* a hash that qB does not have
  Interval,    \* Config.ControlInterval, no less than ControlBudget
  History,     \* Config.HistoryDays, no less than any window
  Bounds,      \* bounds of a run, of which it takes one: the seconds it lasts,
               \* the units qB uploads, the changes of torrents, and the faults
               \* (lost and malformed answers, restarts, other clients)
  Scale        \* a common multiple of the lengths of known intervals

ASSUME ObservationAssumption ==
  /\ Absent \notin State
  /\ Interval \in Nat \ {0} /\ History \in Nat /\ Scale \in Nat
  /\ Bounds \subseteq [seconds : Nat, uploads : Nat, changes : Nat, faults : Nat]

VARIABLES
  now,      \* the clock
  sent,     \* sent[t]: what qB really uploaded up to second t
  lost,     \* the seconds at which a restart took qB's counter back
  qb,       \* qB: its torrents, its counter, and its last two answers
  client,   \* QBT: rid and the copy, or what a worker starts with
  answer,   \* the answer on its way, if any
  cycle,    \* the control goroutine
  sample,   \* meta.traffic_counter: the last counterSample, if any
  traffic,  \* table traffic
  left      \* what is left of the bounds

vars == <<now, sent, lost, qb, client, answer, cycle, sample, traffic, left>>
world == <<now, sent, lost>>
store == <<sample, traffic>>

Id == 0..5                      \* rid; 0 is no answer
Torrents == [Torrent -> State \cup {Absent}]
Nothing == [h \in Torrent |-> Absent]
Data == [torrents : Torrents, up : Nat]
Answered == [id : Id, data : Data]
Change == [id : Id \ {0}, full : BOOLEAN, changed : SUBSET Torrent, removed : SUBSET Torrent, counted : BOOLEAN, data : Data]

Current == [torrents |-> qb.torrents, up |-> qb.up]
Unanswered == [id |-> 0, data |-> [torrents |-> Nothing, up |-> 0]]
NewClient == [rid |-> 0, torrents |-> Nothing, server |-> {}]

(***************************************************************************)
(* qB's side of sync/maindata.                                              *)
(***************************************************************************)
NewId == CHOOSE i \in Id \ {0} : i \notin {client.rid, qb.last.id, qb.accepted.id} \cup {a.id : a \in answer}
Base(rid) == {a \in {qb.last, qb.accepted} : rid # 0 /\ a.id = rid}

Delta(id, old, new) == [id |-> id, full |-> FALSE, data |-> new,
  changed |-> {h \in Torrent : new.torrents[h] \notin {Absent, old.torrents[h]}},
  removed |-> {h \in Torrent : new.torrents[h] = Absent /\ old.torrents[h] # Absent},
  counted |-> new.up # old.up]

Everything(id, new) == [id |-> id, full |-> TRUE, data |-> new,
  changed |-> {h \in Torrent : new.torrents[h] # Absent}, removed |-> {}, counted |-> TRUE]

(***************************************************************************)
(* The worker's side: Snapshot merges what an answer brings, then takes     *)
(* away what it removes.  A malformed answer is found out in the middle.    *)
(***************************************************************************)
Merged(a, part) == [h \in Torrent |->
  IF h \in part THEN a.data.torrents[h] ELSE IF a.full THEN Absent ELSE client.torrents[h]]

SnapshotAdding(a) == [rid |-> a.id, torrents |-> Merged(a, a.changed),
  server |-> IF a.counted THEN {a.data.up} ELSE client.server]               \* mutant

Snapshot(a) == [rid |-> a.id,
  torrents |-> [h \in Torrent |-> IF h \in a.removed THEN Absent ELSE Merged(a, a.changed)[h]],
  server |-> IF a.counted THEN {a.data.up} ELSE client.server]

BadKeepingId(a, part) == [rid |-> client.rid, torrents |-> Merged(a, part),
                          server |-> IF a.full THEN {} ELSE client.server]   \* mutant

\* bad(): the id is dropped, what was merged before stays.
Bad(a, part) == [rid |-> 0, torrents |-> Merged(a, part),
                 server |-> IF a.full THEN {} ELSE client.server]

(***************************************************************************)
(* recordTraffic and Traffic.                                               *)
(***************************************************************************)
KnownAnyGap(old, new) == new.up >= old.up                            \* mutant
Known(old, new) == new.at - old.at <= 3 * Interval /\ new.up >= old.up

Recorded(old, new) == [start |-> old.at, end |-> new.at, known |-> Known(old, new),
                       up |-> IF Known(old, new) THEN new.up - old.up ELSE 0]

RecordTraffic(server) ==
  LET new == {[at |-> now, up |-> n] : n \in server} IN
  /\ sample' = IF new = {} THEN sample ELSE new
  /\ traffic' = traffic \cup {Recorded(old, n) : old \in {s \in sample : s.at < now}, n \in new}

Least(a, b) == IF a < b THEN a ELSE b
Most(a, b) == IF a < b THEN b ELSE a

Traffic(start, end) ==
  LET rows == {r \in traffic : r.end > start /\ r.start < end /\ r.known /\ r.end > r.start}
      seconds(r) == Most(0, Least(end, r.end) - Most(start, r.start)) IN
  [uploaded |-> MapThenSumSet(LAMBDA r : (Scale * r.up * seconds(r)) \div (r.end - r.start), rows),
   coverage |-> MapThenSumSet(seconds, rows)]

-----------------------------------------------------------------------------
Init ==
  /\ now = 0 /\ sent = [t \in {0} |-> 0] /\ lost = {} /\ left \in Bounds
  /\ qb = [torrents |-> Nothing, up |-> 0, last |-> Unanswered, accepted |-> Unanswered]
  /\ client = NewClient /\ answer = {} /\ cycle = [pc |-> "idle", spent |-> 0, rested |-> TRUE]
  /\ sample = {} /\ traffic = {}

Fault == left.faults > 0 /\ left' = [left EXCEPT !.faults = @ - 1]

\* A second passes.  A cycle ends within its budget.
Tick ==
  /\ left.seconds > 0
  /\ cycle.pc = "idle" \/ cycle.spent < Interval
  /\ now' = now + 1
  /\ \E bytes \in {0, 1} \cap 0..left.uploads :
       /\ left' = [left EXCEPT !.seconds = @ - 1, !.uploads = @ - bytes]
       /\ qb' = [qb EXCEPT !.up = @ + bytes]
       /\ sent' = [t \in 0..now' |-> IF t = now' THEN sent[now] + bytes ELSE sent[t]]
  /\ cycle' = IF cycle.pc = "idle" THEN [cycle EXCEPT !.rested = TRUE] ELSE [cycle EXCEPT !.spent = @ + 1]
  /\ UNCHANGED <<lost, client, answer, store>>

\* Torrents come, go and change by any hand.
TorrentChanges(h, v) ==
  /\ left.changes > 0 /\ left' = [left EXCEPT !.changes = @ - 1]
  /\ v # qb.torrents[h]
  /\ qb' = [qb EXCEPT !.torrents[h] = v]
  /\ UNCHANGED <<world, client, answer, cycle, store>>

\* qB restarts: no stream is left, and the counters are those last saved.
QBRestarts ==
  /\ Fault
  /\ \E up \in 0..qb.up :
       /\ qb' = [qb EXCEPT !.up = up, !.last = Unanswered, !.accepted = Unanswered]
       /\ lost' = IF up < qb.up THEN lost \cup {now} ELSE lost
  /\ UNCHANGED <<now, sent, client, answer, cycle, store>>

\* Another command takes a snapshot of its own, with rid 0.
OtherClient ==
  /\ Fault
  /\ qb' = [qb EXCEPT !.last = [id |-> NewId, data |-> Current], !.accepted = Unanswered]
  /\ UNCHANGED <<world, client, answer, cycle, store>>

\* The request of a cycle, a second after the last one, or of archive().
Ask(next) ==
  /\ \/ /\ Base(client.rid) = {}
        /\ answer' = {Everything(NewId, Current)}
        /\ qb' = [qb EXCEPT !.last = [id |-> NewId, data |-> Current], !.accepted = Unanswered]
     \/ \E old \in Base(client.rid) :
          /\ answer' = {Delta(NewId, old.data, Current)}
          /\ qb' = [qb EXCEPT !.last = [id |-> NewId, data |-> Current], !.accepted = old]
  /\ cycle' = [cycle EXCEPT !.pc = next]
  /\ UNCHANGED <<world, client, store, left>>

BeginCycle == cycle.pc = "idle" /\ cycle.rested /\ Ask("observing")
CheckForArchive == cycle.pc = "acting" /\ Ask("archiving")

Finished == [pc |-> "idle", spent |-> 0, rested |-> FALSE]

\* Observe commits the snapshot with its traffic, or fails.  archive() may
\* come later in the cycle.
Observed(a) ==
  /\ cycle.pc = "observing"
  /\ client' = Snapshot(a) /\ answer' = {}
  /\ \/ RecordTraffic(client'.server) /\ cycle' \in {[cycle EXCEPT !.pc = "acting"], Finished} /\ UNCHANGED left
     \/ Fault /\ cycle' = Finished /\ UNCHANGED store
  /\ UNCHANGED <<world, qb>>

\* The snapshot that archive() decides on records nothing.
ArchiveChecked(a) ==
  /\ cycle.pc = "archiving"
  /\ client' = Snapshot(a) /\ answer' = {} /\ cycle' = Finished
  /\ UNCHANGED <<world, qb, store, left>>

\* The request or its answer is lost, or takes too long.
AnswerLost(a) ==
  /\ Fault /\ answer' = {} /\ cycle' = Finished
  /\ UNCHANGED <<world, qb, client, store>>

AnswerMalformed(a) ==
  /\ Fault /\ answer' = {} /\ cycle' = Finished
  /\ \/ client' = [client EXCEPT !.rid = 0]
     \/ \E part \in SUBSET a.changed : client' = Bad(a, part)
  /\ UNCHANGED <<world, qb, store>>

\* systemd starts a worker again after fifteen seconds.
WorkerRestarts ==
  /\ Fault
  /\ client' = NewClient /\ answer' = {} /\ cycle' = Finished
  /\ UNCHANGED <<world, qb, store>>

\* Maintain, every minute.
Maintain ==
  /\ \E r \in traffic : r.end < now - History
  /\ traffic' = {r \in traffic : r.end >= now - History}
  /\ UNCHANGED <<world, qb, client, answer, cycle, sample, left>>

Next ==
  \/ Tick \/ QBRestarts \/ OtherClient
  \/ \E h \in Torrent, v \in State \cup {Absent} : TorrentChanges(h, v)
  \/ BeginCycle \/ CheckForArchive \/ WorkerRestarts \/ Maintain
  \/ \E a \in answer : Observed(a) \/ ArchiveChecked(a) \/ AnswerLost(a) \/ AnswerMalformed(a)

Spec == Init /\ [][Next]_vars

-----------------------------------------------------------------------------
TypeOK ==
  /\ now \in Nat /\ left \in [seconds : Nat, uploads : Nat, changes : Nat, faults : Nat]
  /\ qb \in [torrents : Torrents, up : Nat, last : Answered, accepted : Answered]
  /\ client \in [rid : Id, torrents : Torrents, server : SUBSET Nat]
  /\ \A a \in answer : a \in Change /\ answer = {a}
  /\ sample \subseteq [at : Nat, up : Nat]

\* What qB and the worker have under one id is one and the same answer.
CopyIs(data) == client.torrents = data.torrents /\ client.server = {data.up}
StreamsAgree == \A a \in {qb.last, qb.accepted} : client.rid # 0 /\ client.rid = a.id => CopyIs(a.data)

\* An answer on its way brings the copy to what qB had when it answered, and
\* no other answer has its id.
AnswerBringsCopyUp ==
  \A a \in answer :
    /\ Snapshot(a).torrents = a.data.torrents /\ Snapshot(a).server = {a.data.up}
    /\ qb.last.id = a.id => qb.last.data = a.data
    /\ qb.accepted.id # a.id /\ client.rid # a.id

StreamInv == TypeOK /\ StreamsAgree /\ AnswerBringsCopyUp

\* A snapshot that the worker acts on is what qB had when it answered, however
\* many answers before it were lost, malformed or for another client, and
\* whenever qB or the worker restarted (qbt.go:49).
SnapshotIsTrue ==
  [][client'.rid \notin {0, client.rid} => \E a \in answer : CopyIs(a.data)']_vars

SentBy(t) == sent[Most(0, Least(t, now))]
Steady(start, end) == \A t \in lost : t < start \/ t > end

\* For every window that ends now: Traffic never counts more than qB really
\* uploaded since one known interval and one request before the window, no
\* second twice, and, when the window is covered and the counter never went
\* back, no less than qB uploaded in it but for its ends (observe.go:122).
TrafficIsHonest ==
  \A span \in 1..(now + left.seconds) :
    LET start == now - span
        w == Traffic(start, now) IN
    /\ 0 <= w.uploaded
    /\ w.uploaded <= Scale * (sent[now] - SentBy(start - 4 * Interval))
    /\ w.coverage <= span
    /\ w.coverage = span /\ Steady(start - Interval, now)
         => w.uploaded >= Scale * (SentBy(now - Interval) - SentBy(start + 3 * Interval))
=============================================================================
