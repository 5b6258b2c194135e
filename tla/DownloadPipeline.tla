--------------------------- MODULE DownloadPipeline ---------------------------
(***************************************************************************)
(* The life of a download, from the feed to qBittorrent: source_store.go,   *)
(* Feeds.Prepare and prepareOne in feeds.go, Observe, Downloads,            *)
(* ReconcileDownload and admit as Controller.Cycle calls them, Operate, and *)
(* Maintain's pruning of sources.                                           *)
(*                                                                         *)
(* Each database transaction and each request to qB is one action, so the   *)
(* feed poller, the prepare goroutine, the control goroutine, the operator  *)
(* and qB itself interleave between any two of them, and the process may    *)
(* die there.  Due times are left out, but for the minute AdmitPresent      *)
(* waits: a task whose guard holds may be taken at any time.  Claims follow *)
(* TaskClaims with the clock abstracted: a job settles within its lease     *)
(* (20 s and 40 s budgets, 60 s and 120 s leases), and a claim nobody holds *)
(* any more expires at some time.                                           *)
(***************************************************************************)
EXTENDS Naturals

CONSTANTS
  Key,            \* release keys
  Hash,           \* infohashes
  NoHash,         \* no infohash resolved
  MaxVersion,     \* bound: versions of one release's source
  Resolve,        \* Resolve[k, v]: the infohash version v of release k leads to
  MaxAttempts,    \* Config.MaxAttempts: retries, and submissions, of one task
  MaxRevision,    \* bound: revisions are counted modulo this
  MaxOperations,  \* bound: commands an operator gives
  MaxFaults       \* bound: crashes, failed jobs and torrents moved by hand

Version == 1..MaxVersion

ASSUME PipelineAssumption ==
  \* A row never goes round the circle while a goroutine holds a copy of it.
  /\ MaxVersion \in Nat /\ MaxRevision \in Nat
  /\ MaxRevision > 2 * MaxVersion + MaxOperations
  /\ MaxAttempts \in Nat \ {0}
  /\ MaxOperations \in Nat /\ MaxFaults \in Nat
  /\ NoHash \notin Hash
  /\ Resolve \in [Key \X Version -> Hash]

VARIABLES
  upstream,    \* the version of each release the publisher lists, 0 if none
  sources,     \* table sources: the version last ingested, 0 if no row
  task,        \* table tasks, lane "download"
  release,     \* receipts of kind "release": the outcome, or "none"
  content,     \* receipts of kind "content"
  replay,      \* meta "replay:"+key: a permission Ready has not used yet
  qb,          \* qB: what it knows of each torrent
  sent,        \* add requests on their way, per torrent
  prep,        \* the prepare goroutine and the claim it works on
  ctl,         \* the control goroutine: snapshot, rows read, claim
  up,          \* the worker runs
  operations,  \* operator commands given so far
  faults,      \* faults so far
  permitted,   \* history: releases last prepared under a replay permission
  stale        \* history: releases whose row was written over from an older one

db == <<sources, task, release, content, replay>>
history == <<permitted, stale>>
vars == <<upstream, db, qb, sent, prep, ctl, up, operations, faults, history>>

-----------------------------------------------------------------------------
\* Rows.

Phase == {"none", "pending", "ready", "submitted", "tracking", "blocked"}
Active == {"ready", "submitted", "tracking"}

\* torrent is the resource of the row (NoHash: "release:"+key); the other
\* fields from ver on are what the payload says.
Row == [phase : Phase, torrent : Hash \cup {NoHash}, rev : 0..MaxRevision,
        attempts : Nat, claim : {"free", "prepare", "control"},
        ver : 0..MaxVersion, hash : Hash \cup {NoHash}, subs : Nat,
        observed : BOOLEAN]

NoTask == [phase |-> "none", torrent |-> NoHash, rev |-> 0, attempts |-> 0,
           claim |-> "free", ver |-> 0, hash |-> NoHash, subs |-> 0,
           observed |-> FALSE]

\* A row at the start of its life, with the payload of source version v.
Fresh(v, rev) == [NoTask EXCEPT !.phase = "pending", !.rev = rev, !.ver = v]

\* Revisions count on; the model counts them in a circle.
Next1(rev) == (rev % MaxRevision) + 1

\* A task that ends leaves a release receipt, so that the feed, which goes on
\* listing the release, does not bring it back.
CloseSilently(k, outcome) == release
Close(k, outcome) == [release EXCEPT ![k] = outcome]

Idle == [pc |-> "idle"]

Init ==
  /\ upstream = [k \in Key |-> 0]
  /\ sources = [k \in Key |-> 0]
  /\ task = [k \in Key |-> NoTask]
  /\ release = [k \in Key |-> "none"]
  /\ content = [h \in Hash |-> "none"]
  /\ replay = [k \in Key |-> FALSE]
  /\ qb = [h \in Hash |-> "absent"]
  /\ sent = [h \in Hash |-> 0]
  /\ prep = Idle /\ ctl = Idle
  /\ up = TRUE
  /\ operations = 0 /\ faults = 0
  /\ permitted = {} /\ stale = {}

Fault == faults < MaxFaults /\ faults' = faults + 1

-----------------------------------------------------------------------------
\* The feed poller.

\* The publisher lists a release, or corrects it.
Publish(k) ==
  /\ upstream[k] < MaxVersion
  /\ upstream' = [upstream EXCEPT ![k] = @ + 1]
  /\ UNCHANGED <<db, qb, sent, prep, ctl, up, operations, faults, history>>

\* The first poll of a feed registers what it finds as history.
Bootstrap(k) ==
  /\ up /\ upstream[k] > 0 /\ release[k] = "none"
  /\ release' = Close(k, "bootstrap")
  /\ UNCHANGED <<upstream, sources, task, content, replay, qb, sent, prep, ctl,
                 up, operations, faults, history>>

\* The row of a corrected release starts over, and the claim that works on the
\* old source is fenced off.
CorrectedInPlace(k) ==
  [task EXCEPT ![k] = IF @.phase = "none" THEN Fresh(upstream[k], 2)
                      ELSE [@ EXCEPT !.ver = upstream[k]]]
Corrected(k) ==
  [task EXCEPT ![k] = Fresh(upstream[k],
                            IF @.phase = "none" THEN 2 ELSE Next1(@.rev))]

CorrectableAll == Phase
Correctable == {"none", "pending", "ready", "blocked"}

\* Ingest, one entry: a changed source revokes what was prepared from the old
\* one, but never work that qB may already know of.
Ingest(k) ==
  /\ up /\ upstream[k] > 0 /\ release[k] = "none"
  /\ sources[k] # upstream[k]
  /\ sources' = [sources EXCEPT ![k] = upstream[k]]
  /\ task' = IF task[k].phase \in Correctable THEN Corrected(k) ELSE task
  /\ UNCHANGED <<upstream, release, content, replay, qb, sent, prep, ctl, up,
                 operations, faults, history>>

\* Maintain prunes old sources that no download task needs.
PrunableAlways(k) == TRUE
Prunable(k) == task[k].phase = "none"

Maintain(k) ==
  /\ up /\ sources[k] # 0 /\ Prunable(k)
  /\ sources' = [sources EXCEPT ![k] = 0]
  /\ UNCHANGED <<upstream, task, release, content, replay, qb, sent, prep, ctl,
                 up, operations, faults, history>>

-----------------------------------------------------------------------------
\* Claims of this lane.

Claimed(k, who) == [task EXCEPT ![k].claim = who]

\* claimValid, for the job of goroutine who that read revision rev.
Valid(k, who, rev) == task[k].claim = who /\ task[k].rev = rev

HeldBy(k, who) ==
  \/ who = "prepare" /\ prep.pc = "work" /\ prep.key = k
  \/ who = "control" /\ ctl.pc = "decide" /\ ctl.key = k

\* The lease of a claim whose job is over runs out.
Expire(k) ==
  /\ task[k].claim # "free" /\ ~HeldBy(k, task[k].claim)
  /\ task' = Claimed(k, "free")
  /\ UNCHANGED <<upstream, sources, release, content, replay, qb, sent, prep,
                 ctl, up, operations, faults, history>>

-----------------------------------------------------------------------------
\* The prepare goroutine: claim a pending release, fetch and parse it, settle.

PrepareClaim(k) ==
  /\ up /\ prep.pc = "idle"
  /\ task[k].phase = "pending" /\ task[k].claim = "free"
  /\ task' = Claimed(k, "prepare")
  /\ prep' = [pc |-> "work", key |-> k, rev |-> task[k].rev, ver |-> task[k].ver]
  /\ UNCHANGED <<upstream, sources, release, content, replay, qb, sent, ctl, up,
                 operations, faults, history>>

Preparing ==
  /\ prep.pc = "work"
  /\ prep' = Idle
  /\ UNCHANGED <<upstream, qb, sent, ctl, up, operations>>

PrepareValid == Valid(prep.key, "prepare", prep.rev)

\* Ready: content another release stands for, or stood for, is a duplicate,
\* unless an operator asked for this release again.
DuplicateByReceiptOnly(k, h) == ~replay[k] /\ content[h] # "none"
DuplicateIgnoringReceipt(k, h) ==
  \E j \in Key \ {k} : task[j].torrent = h /\ task[j].phase \in Active
Duplicate(k, h) ==
  \/ ~replay[k] /\ content[h] # "none"
  \/ \E j \in Key \ {k} : task[j].torrent = h /\ task[j].phase \in Active

Ready ==
  /\ Preparing /\ PrepareValid
  /\ LET k == prep.key
         h == Resolve[k, prep.ver] IN
       /\ replay' = [replay EXCEPT ![k] = FALSE]
       /\ permitted' = IF replay[k] THEN permitted \cup {k} ELSE permitted \ {k}
       /\ IF Duplicate(k, h)
            THEN /\ release' = Close(k, "duplicate")
                 /\ task' = [task EXCEPT ![k] = NoTask]
            ELSE /\ release' = release
                 /\ task' = [task EXCEPT ![k] =
                       [task[k] EXCEPT !.phase = "ready", !.torrent = h, !.hash = h,
                                 !.ver = prep.ver, !.rev = Next1(@), !.attempts = 0,
                                 !.claim = "free"]]
  /\ UNCHANGED <<sources, content, faults, stale>>

\* The release is outside the admission policy: Finish.
PrepareReject ==
  /\ Preparing /\ PrepareValid
  /\ release' = Close(prep.key, "policy")
  /\ task' = [task EXCEPT ![prep.key] = NoTask]
  /\ UNCHANGED <<sources, content, replay, faults, history>>

\* The fetch or the parse failed: Retry, which counts the attempt.
PrepareFailUncounted ==
  /\ Preparing /\ PrepareValid
  /\ task' = Claimed(prep.key, "free")
  /\ UNCHANGED <<sources, release, content, replay, faults, history>>

PrepareFail ==
  /\ Preparing /\ PrepareValid
  /\ LET spent == task[prep.key].attempts + 1 IN
       task' = [task EXCEPT ![prep.key] =
                  [task[prep.key] EXCEPT !.attempts = spent, !.claim = "free",
                            !.phase = IF spent >= MaxAttempts THEN "blocked" ELSE @]]
  /\ UNCHANGED <<sources, release, content, replay, faults, history>>

\* ErrStale: the claim was fenced off.
PrepareStale ==
  /\ Preparing /\ ~PrepareValid
  /\ UNCHANGED <<db, faults, history>>

\* The settling transaction itself fails.
PrepareLost ==
  /\ Preparing /\ Fault
  /\ UNCHANGED <<db, history>>

Prepare == Ready \/ PrepareReject \/ PrepareFail \/ PrepareStale \/ PrepareLost

-----------------------------------------------------------------------------
\* The control goroutine: one cycle after another.

Present(snap) == {h \in Hash : snap[h] # "absent"}

Controlling == up /\ UNCHANGED <<upstream, prep, up, operations>>

\* Snapshot and Observe.  managed: the torrents in our category; their content
\* counts as known from now on.  old: the submissions that ConfirmTimeout has
\* run out for.  The timeout is minutes, a request is answered or dropped in
\* seconds: a request still under way is not old.
BeginCycle(managed, old) ==
  /\ Controlling
  /\ ctl.pc = "idle"
  /\ content' = [h \in Hash |-> IF h \in managed /\ content[h] = "none"
                                  THEN "observed" ELSE content[h]]
  /\ ctl' = [pc |-> "snapshot", snap |-> qb, old |-> old]
  /\ UNCHANGED <<sources, task, release, replay, qb, sent, faults, history>>

\* Age matters only to a submission that the snapshot does not show.
Elapsed ==
  {h \in Hash \ Present(qb) :
     sent[h] = 0 /\ \E k \in Key : task[k].phase = "submitted" /\ task[k].hash = h}

\* Downloads: the rows to reconcile, read in one query.
ReadDownloads ==
  /\ Controlling
  /\ ctl.pc = "snapshot"
  /\ LET todo == {[key |-> k, row |-> task[k]] :
                    k \in {j \in Key : task[j].phase \in Active}} IN
       ctl' = [pc |-> "reconcile", snap |-> ctl.snap, old |-> ctl.old, todo |-> todo]
  /\ UNCHANGED <<db, qb, sent, faults, history>>

\* The torrent is in qB: the submission is confirmed, or a prepared download
\* turns out to be there already.
Confirmed(c) ==
  LET k == c.key
      h == c.row.hash
      new == c.row.phase # "tracking"
      done == ctl.snap[h] = "complete" IN
  /\ release' = IF new THEN Close(k, "admitted") ELSE release
  /\ content' = IF done THEN [content EXCEPT ![h] = "completed"]
                ELSE IF new THEN [content EXCEPT ![h] = "admitted"] ELSE content
  /\ task' = [task EXCEPT ![k] =
                IF done THEN NoTask
                ELSE [task[k] EXCEPT !.phase = "tracking", !.rev = Next1(@),
                               !.ver = c.row.ver, !.hash = h, !.subs = c.row.subs,
                               !.observed = TRUE]]

\* Absent long after the submission: prepare the latest source, or give up.
ReturnAlways(subs) == "pending"
ReturnReady(subs) == IF subs >= MaxAttempts THEN "blocked" ELSE "ready"
ReturnPhase(subs) == IF subs >= MaxAttempts THEN "blocked" ELSE "pending"

Unconfirmed(c) ==
  task' = [task EXCEPT ![c.key] =
             [task[c.key] EXCEPT !.phase = ReturnPhase(c.row.subs), !.rev = Next1(@),
                       !.torrent = NoHash, !.hash = NoHash, !.ver = sources[c.key],
                       !.subs = c.row.subs, !.observed = FALSE]]

UnchangedUnheld(c) == task[c.key].claim = "free"

\* ReconcileDownload skips a row that changed since Downloads read it, or that
\* somebody holds.
Unchanged(c) == task[c.key].rev = c.row.rev /\ task[c.key].claim = "free"

\* The row has the revision Downloads read, but it is one of a later life.
Reused(c) ==
  /\ task[c.key].rev = c.row.rev
  /\ [task[c.key] EXCEPT !.claim = c.row.claim, !.attempts = c.row.attempts] # c.row

\* Admission is what the snapshot shows, not what a request was answered.
Shown(c) == ctl.snap[c.row.hash] # "absent"

\* The submission is older than ConfirmTimeout.
OverdueTracking(c) == c.row.phase = "tracking" /\ c.row.hash \in ctl.old
Overdue(c) == c.row.phase = "submitted" /\ c.row.hash \in ctl.old

\* A missing row, of the task or of the source, fails the whole cycle.
ReconcileDownload(c) ==
  LET k == c.key
      live == task[k].phase # "none" /\ Unchanged(c)
      confirmed == live /\ Shown(c)
      unconfirmed == live /\ ~Shown(c) /\ Overdue(c)
      removed == live /\ ~Shown(c) /\ c.row.phase = "tracking"
      fails == task[k].phase = "none" \/ (unconfirmed /\ sources[k] = 0) IN
  /\ Controlling
  /\ ctl.pc = "reconcile" /\ c \in ctl.todo
  /\ ctl' = IF fails THEN Idle ELSE [ctl EXCEPT !.todo = @ \ {c}]
  /\ \/ confirmed /\ Confirmed(c)
     \/ /\ unconfirmed /\ ~fails
        /\ Unconfirmed(c) /\ UNCHANGED <<release, content>>
     \/ /\ removed
        /\ task' = [task EXCEPT ![k].phase = "blocked"]
        /\ UNCHANGED <<release, content>>
     \/ /\ fails \/ ~(confirmed \/ unconfirmed \/ removed)
        /\ UNCHANGED <<task, release, content>>
  /\ stale' = IF task' # task /\ Reused(c) THEN stale \cup {c.key} ELSE stale
  /\ UNCHANGED <<sources, replay, qb, sent, faults, permitted>>

\* The rest of the cycle admits prepared downloads, AddBatch at most.
StartAdmitting ==
  /\ Controlling
  /\ ctl.pc = "reconcile" /\ ctl.todo = {}
  /\ ctl' = [pc |-> "admit", snap |-> ctl.snap, did |-> FALSE, later |-> {}]
  /\ UNCHANGED <<db, qb, sent, faults, history>>

\* later: releases this cycle has put off for a minute.
Admissible(k) ==
  task[k].phase = "ready" /\ task[k].claim = "free" /\ k \notin ctl.later

AdmitClaim(k) ==
  /\ Controlling
  /\ ctl.pc = "admit" /\ Admissible(k)
  /\ task' = Claimed(k, "control")
  /\ ctl' = [pc |-> "decide", snap |-> ctl.snap, later |-> ctl.later, key |-> k,
             rev |-> task[k].rev, hash |-> task[k].hash]
  /\ UNCHANGED <<sources, release, content, replay, qb, sent, faults, history>>

Deciding == Controlling /\ ctl.pc = "decide"
AdmitValid == Valid(ctl.key, "control", ctl.rev)
ToAdmit(later) ==
  ctl' = [pc |-> "admit", snap |-> ctl.snap, did |-> TRUE, later |-> later]

\* Outside the policy by now: Finish.
AdmitReject ==
  /\ Deciding /\ AdmitValid /\ ToAdmit(ctl.later)
  /\ release' = Close(ctl.key, "policy")
  /\ task' = [task EXCEPT ![ctl.key] = NoTask]
  /\ UNCHANGED <<sources, content, replay, qb, sent, faults, history>>

\* In the snapshot: Transition leaves it "ready" for the next reconciliation.
AdmitPresent ==
  /\ Deciding /\ AdmitValid /\ ToAdmit(ctl.later \cup {ctl.key})
  /\ ctl.hash \in Present(ctl.snap)
  /\ task' = [task EXCEPT ![ctl.key] = [task[ctl.key] EXCEPT !.rev = Next1(@), !.attempts = 0,
                                                 !.claim = "free"]]
  /\ UNCHANGED <<sources, release, content, replay, qb, sent, faults, history>>

\* Submitting: the side effect is recorded before the request leaves.
Submitting ==
  /\ Deciding /\ AdmitValid
  /\ ctl.hash \notin Present(ctl.snap)
  /\ task' = [task EXCEPT ![ctl.key] =
                [task[ctl.key] EXCEPT !.phase = "submitted", !.rev = Next1(@), !.subs = @ + 1,
                          !.attempts = @ + 1, !.claim = "free"]]
  /\ ctl' = [pc |-> "add", snap |-> ctl.snap, later |-> ctl.later, hash |-> ctl.hash]
  /\ UNCHANGED <<sources, release, content, replay, qb, sent, faults, history>>

\* ErrStale ends the cycle.
AdmitStale ==
  /\ Deciding /\ ~AdmitValid
  /\ ctl' = Idle
  /\ UNCHANGED <<db, qb, sent, faults, history>>

\* The request leaves; its answer is good, or fails the cycle, whatever qB does.
Add ==
  /\ Controlling /\ ctl.pc = "add"
  /\ sent' = [sent EXCEPT ![ctl.hash] = @ + 1]
  /\ ctl' = Idle \/ ToAdmit(ctl.later)
  /\ UNCHANGED <<db, qb, faults, history>>

\* Nothing left to admit, or AddBatch reached.
EndCycle ==
  /\ Controlling /\ ctl.pc = "admit"
  /\ ctl.did \/ \A k \in Key : ~Admissible(k)
  /\ ctl' = Idle
  /\ UNCHANGED <<db, qb, sent, faults, history>>

\* A failed request or transaction, the 20 s budget, the command budget or low
\* disk space: the cycle stops where it is.
CutCycle ==
  /\ Controlling /\ ctl.pc # "idle" /\ Fault
  /\ ctl' = Idle
  /\ UNCHANGED <<db, qb, sent, history>>

Cycle ==
  \/ \E managed \in SUBSET Present(qb), old \in SUBSET Elapsed : BeginCycle(managed, old)
  \/ ReadDownloads
  \/ \E k \in Key : \E c \in {x \in (IF ctl.pc = "reconcile" THEN ctl.todo ELSE {}) : x.key = k} :
       ReconcileDownload(c)
  \/ StartAdmitting \/ \E k \in Key : AdmitClaim(k)
  \/ AdmitReject \/ AdmitPresent \/ Submitting \/ AdmitStale
  \/ Add \/ EndCycle \/ CutCycle

-----------------------------------------------------------------------------
\* qB, and people working in it.

QBUnchanged ==
  UNCHANGED <<upstream, db, prep, ctl, up, operations, permitted, stale>>

\* A request arrives; adding a torrent qB has is a no-op.
Land(h) ==
  /\ sent[h] > 0
  /\ sent' = [sent EXCEPT ![h] = @ - 1]
  /\ qb' = [qb EXCEPT ![h] = IF @ = "absent" THEN "downloading" ELSE @]
  /\ QBUnchanged /\ UNCHANGED faults

\* A request is lost, or refused.
Lose(h) ==
  /\ sent[h] > 0
  /\ sent' = [sent EXCEPT ![h] = @ - 1]
  /\ QBUnchanged /\ UNCHANGED <<qb, faults>>

Download(h) ==
  /\ qb[h] = "downloading"
  /\ qb' = [qb EXCEPT ![h] = "complete"]
  /\ QBUnchanged /\ UNCHANGED <<sent, faults>>

ByHand(h) ==
  /\ Fault
  /\ \/ qb[h] # "absent" /\ qb' = [qb EXCEPT ![h] = "absent"]
     \/ qb[h] = "absent" /\ qb' = [qb EXCEPT ![h] = "downloading"]
  /\ QBUnchanged /\ UNCHANGED sent

-----------------------------------------------------------------------------
\* The operator's command line.

Operating ==
  /\ operations < MaxOperations
  /\ operations' = operations + 1
  /\ UNCHANGED <<upstream, sources, content, qb, sent, prep, ctl, up, faults, history>>

\* A claimed row, and one whose external effect is open, are refused.
Operable(k) == task[k].phase \notin {"none", "submitted"} /\ task[k].claim = "free"

OperatorRetry(k) ==
  /\ Operating /\ Operable(k)
  /\ task' = [task EXCEPT ![k] =
       [task[k] EXCEPT !.rev = Next1(@), !.attempts = 0,
                 !.phase = IF @ # "blocked" THEN @
                           ELSE IF task[k].observed THEN "tracking"
                           ELSE IF task[k].hash # NoHash THEN "ready"
                           ELSE "pending"]]
  /\ UNCHANGED <<release, replay>>

OperatorCancel(k) ==
  /\ Operating /\ Operable(k)
  /\ task' = [task EXCEPT ![k] = NoTask]
  /\ release' = Close(k, "cancelled")
  /\ UNCHANGED replay

Replayable(k) == task[k].claim = "free" /\ task[k].phase \notin {"submitted", "tracking"}

OperatorReplay(k) ==
  /\ Operating /\ sources[k] # 0 /\ Replayable(k)
  /\ release' = [release EXCEPT ![k] = "none"]
  /\ task' = [task EXCEPT ![k] = Fresh(sources[k], 1)]
  /\ replay' = [replay EXCEPT ![k] = TRUE]

Operator == \E k \in Key : OperatorRetry(k) \/ OperatorCancel(k) \/ OperatorReplay(k)

-----------------------------------------------------------------------------
\* The process.

Crash ==
  /\ up /\ Fault
  /\ up' = FALSE /\ prep' = Idle /\ ctl' = Idle
  /\ UNCHANGED <<upstream, db, qb, sent, operations, history>>

Recover ==
  /\ ~up
  /\ up' = TRUE
  /\ task' = [k \in Key |-> [task[k] EXCEPT !.claim = "free"]]
  /\ UNCHANGED <<upstream, sources, release, content, replay, qb, sent, prep, ctl,
                 operations, faults, history>>

Feed(k) == Publish(k) \/ Bootstrap(k) \/ Ingest(k) \/ Maintain(k)
Torrent(h) == Land(h) \/ Lose(h) \/ Download(h) \/ ByHand(h)

Next ==
  \/ \E k \in Key : Feed(k) \/ PrepareClaim(k) \/ Expire(k)
  \/ Prepare \/ Cycle \/ Operator
  \/ \E h \in Hash : Torrent(h)
  \/ Crash \/ Recover

Spec == Init /\ [][Next]_vars

\* Every goroutine goes on while the process runs, systemd restarts it, leases
\* end, and each request is answered or dropped at some time.  ConfirmTimeout is
\* noticed at last by a cycle that begins after it (strong fairness: the choice
\* is open each time a cycle begins, not in between).
Progress ==
  /\ \A k \in Key : WF_vars(PrepareClaim(k)) /\ WF_vars(Expire(k))
  /\ WF_vars(Prepare) /\ WF_vars(Recover)
  /\ WF_vars(ctl.pc # "idle" /\ Cycle)
  /\ SF_vars(BeginCycle({}, Elapsed))
  /\ \A h \in Hash : WF_vars(Land(h) \/ Lose(h))

FairSpec == Spec /\ Progress

-----------------------------------------------------------------------------
\* Properties.

Outcome == {"none", "bootstrap", "duplicate", "policy", "cancelled", "admitted"}
Seen == {"none", "observed", "admitted", "completed"}
QBState == {"absent", "downloading", "complete"}

\* An active row names its torrent, a claim is the claim of the job its phase
\* calls for, and an open submission was counted.
WellFormed(row) ==
  /\ row.phase = "none" => row = NoTask
  /\ row.phase = "pending" => row.torrent = NoHash /\ row.hash = NoHash
  /\ row.phase \in Active => row.hash # NoHash
  /\ row.claim = "prepare" => row.phase = "pending"
  /\ row.claim = "control" => row.phase = "ready"
  /\ row.phase = "submitted" => row.subs > 0 /\ row.claim = "free"

\* The values each table and each goroutine can hold.
TypeOK ==
  /\ upstream \in [Key -> 0..MaxVersion]
  /\ sources \in [Key -> 0..MaxVersion]
  /\ task \in [Key -> Row]
  /\ \A k \in Key : WellFormed(task[k])
  /\ release \in [Key -> Outcome]
  /\ content \in [Hash -> Seen]
  /\ replay \in [Key -> BOOLEAN]
  /\ qb \in [Hash -> QBState]
  /\ sent \in [Hash -> Nat]
  /\ up \in BOOLEAN
  /\ operations \in 0..MaxOperations /\ faults \in 0..MaxFaults
  /\ permitted \subseteq Key /\ stale \subseteq Key
  /\ prep.pc \in {"idle", "work"}
  /\ ctl.pc \in {"idle", "snapshot", "reconcile", "admit", "decide", "add"}

\* A release that was ingested always has a task that will settle it, or a
\* receipt that did.  Ingest skips an unchanged source, so nothing else would
\* ever bring a forgotten release back.  (Again until an old row is written
\* over a newer one: then a release can be lost.)  And every task has its
\* source: without it, reconciling an unconfirmed submission would fail every
\* control cycle from then on.
NoReleaseForgotten ==
  /\ \A k \in Key \ stale :
       sources[k] # 0 => task[k].phase # "none" \/ release[k] # "none"
  /\ \A k \in Key : task[k].phase # "none" => sources[k] # 0

\* What is prepared, or waits to be, comes from the latest ingested source: a
\* correction is never overtaken by work that began before it.
PreparedFromLatestSource ==
  \A k \in Key : task[k].phase \in {"pending", "ready"} => task[k].ver = sources[k]

\* The resource that fences a task is the torrent its payload names (until an old
\* row is written over a newer one, see OldResultsNotWrittenBack).
ResourceNamesContent ==
  \A k \in Key \ stale : task[k].phase \in Active => task[k].torrent = task[k].hash

\* The control goroutine reads the rows, and reconciles them one by one later:
\* what it writes never comes from an older row than the one it replaces
\* (docs/validation.md F04: "a generation check ... old results cannot be
\* written back").
OldResultsNotWrittenBack ==
  [][\A c \in (IF ctl.pc = "reconcile" THEN ctl.todo ELSE {}) :
       ReconcileDownload(c) /\ task' # task => ~Reused(c)]_vars

\* A torrent is requested MaxAttempts times for one source, and once more for
\* each command of an operator, however often qB fails to show it.
SubmissionsBounded ==
  \A k \in Key : task[k].subs <= MaxAttempts + operations

\* No second request while the first may still take effect, through timeouts,
\* crashes, corrections of the source, retries and replays ("no timeout or
\* restart may turn it into an immediate second submission"), unless qB was seen
\* to have the torrent in between.
NoBlindResubmission ==
  [][Submitting => sent[ctl.hash] = 0
                     \/ content[ctl.hash] \in {"admitted", "completed"}]_vars

\* Two tasks never pursue one torrent, unless an operator unblocks the second.
Pursuers(h) == {k \in Key : task[k].phase \in Active /\ task[k].torrent = h}
OnePursuerPerTorrent ==
  [][\A h \in Hash :
       (\E j, k \in Pursuers(h)' : j # k) =>
          \/ \E j, k \in Pursuers(h) : j # k
          \/ \E k \in Key : OperatorRetry(k)]_vars

\* Content that a download was confirmed to have is not requested again, also
\* when the torrent has left qB since, but for a replay.  (Content that was only
\* observed may be: somebody may add a torrent that a release waits for, and
\* remove it before the next reconciliation.)
NoRepeatedContent ==
  [][Submitting => content[ctl.hash] \in {"none", "observed"}
                     \/ ctl.key \in permitted]_vars

\* No release stays among those still to be prepared, submitted or confirmed: it
\* comes to an end, or to an operator, or is being downloaded.  No failed
\* preparation that is tried again, no submission that is not confirmed and goes
\* back to be prepared and submitted once more, no correction of its source on
\* the way, no crash, lost request or lapsed claim leaves it waiting for ever or
\* going round for ever.
EveryReleaseSettles ==
  \A k \in Key : []<>(task[k].phase \notin {"pending", "ready", "submitted"})

=============================================================================
