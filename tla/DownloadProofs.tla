---------------------------- MODULE DownloadProofs ----------------------------
(***************************************************************************)
(* What holds of a download for any releases, torrents, versions and        *)
(* bounds: the rows are well-formed, no release is forgotten, none is       *)
(* prepared from an old source, and the requests for it are bounded         *)
(* (PipelineInv); two releases do not come to pursue one torrent            *)
(* (PursuitInv); content that is known is not requested again (ContentInv), *)
(* and no request leaves while another may take effect (RequestInv).  An    *)
(* old result is written back only over a release that was replayed in      *)
(* between (LifeInv).                                                       *)
(*                                                                         *)
(* Every action changes rows one by one, so the invariant is a predicate of *)
(* one row and of what the other tables say of its release (RowInv), and    *)
(* each write to a row is a lemma about records.                            *)
(***************************************************************************)
EXTENDS DownloadPipeline, Integers, TLAPS

\* What holds of a row r, if src is the version in sources, rel the receipt of
\* its release, kept says that no older row was written over it, and n commands
\* were given.
RowInv(r, src, rel, kept, n) ==
  /\ r \in Row /\ WellFormed(r)
  /\ r.phase # "none" => src # 0
  /\ r.phase \in {"pending", "ready"} => r.ver = src
  /\ r.phase = "blocked" /\ ~r.observed => r.ver = src
  /\ r.hash = NoHash => r.torrent = NoHash
  /\ r.observed => r.hash # NoHash
  /\ r.phase = "tracking" => r.observed
  /\ r.subs <= MaxAttempts + n
  /\ r.phase \in {"pending", "ready"} => r.subs < MaxAttempts + n
  /\ kept => /\ r.torrent = r.hash
             /\ r.observed => rel # "none"
             /\ src # 0 => r.phase # "none" \/ rel # "none"

RowsInv == \A k \in Key : RowInv(task[k], sources[k], release[k], k \notin stale, operations)

\* A claim of the prepare goroutine is on the source it read.
PrepInv ==
  prep.pc = "work" =>
    /\ prep.key \in Key
    /\ task[prep.key].claim = "prepare" => task[prep.key].ver = prep.ver

\* A row the control goroutine has read.
ReadRow(c) ==
  /\ c = [key |-> c.key, row |-> c.row] /\ c.key \in Key /\ c.row \in Row /\ WellFormed(c.row)
  /\ c.row.phase \in Active
  /\ c.row.subs <= MaxAttempts + operations
  /\ task[c.key].phase = "submitted" => c.row.phase = "submitted"

\* No row is submitted while the rows are reconciled, and each is read once.
CtlInv ==
  /\ ctl.pc = "reconcile" =>
       /\ ctl = [pc |-> "reconcile", snap |-> ctl.snap, old |-> ctl.old, todo |-> ctl.todo]
       /\ \A c \in ctl.todo : ReadRow(c)
       /\ \A c, d \in ctl.todo : c.key = d.key => c = d
  /\ ctl.pc = "decide" => ctl.key \in Key

PipelineInv == TypeOK /\ RowsInv /\ PrepInv /\ CtlInv

-----------------------------------------------------------------------------
\* Writes to a row.

LEMMA NextRevision ==
  ASSUME NEW rev \in 0..MaxRevision
  PROVE  Next1(rev) \in 0..MaxRevision
BY PipelineAssumption DEF Next1

LEMMA NextDiffers ==
  ASSUME NEW rev \in 0..MaxRevision, MaxRevision \in Nat, MaxRevision > 1
  PROVE  Next1(rev) # rev
<1>1. CASE rev = MaxRevision
  <2>1. rev % MaxRevision = 0
    BY <1>1, SMTT(30)
  <2> QED
    BY <1>1, <2>1 DEF Next1
<1>2. CASE rev < MaxRevision
  <2>1. rev % MaxRevision = rev
    BY <1>2, SMTT(30)
  <2> QED
    BY <1>2, <2>1 DEF Next1
<1> QED
  BY <1>1, <1>2

LEMMA NoRowInv ==
  ASSUME NEW src, NEW rel, NEW kept \in BOOLEAN, NEW n \in Nat,
         kept => src = 0 \/ rel # "none"
  PROVE  RowInv(NoTask, src, rel, kept, n)
BY PipelineAssumption DEF RowInv, NoTask, Row, WellFormed, Phase, Active

LEMMA FreshInv ==
  ASSUME NEW src \in 1..MaxVersion, NEW rel, NEW kept \in BOOLEAN, NEW n \in Nat, NEW rev \in 0..MaxRevision
  PROVE  RowInv(Fresh(src, rev), src, rel, kept, n) /\ Fresh(src, rev).claim = "free"
<1>1. NoTask \in Row
  BY PipelineAssumption DEF NoTask, Row, Phase
<1>2. src \in 0..MaxVersion /\ src # 0 /\ 0 < MaxAttempts + n
  BY PipelineAssumption
<1>3. Fresh(src, rev) \in Row
  BY <1>1, <1>2 DEF Fresh, Row, Phase
<1> DEFINE r == Fresh(src, rev)
<1>4. /\ r.phase = "pending" /\ r.torrent = NoHash /\ r.hash = NoHash /\ r.claim = "free"
      /\ r.ver = src /\ r.subs = 0 /\ ~r.observed
  BY DEF Fresh, NoTask
<1>5. r \in Row
  BY <1>3
<1> HIDE DEF r
<1>6. RowInv(r, src, rel, kept, n)
  BY <1>2, <1>4, <1>5, PipelineAssumption DEF RowInv, WellFormed, Active
<1> QED
  BY <1>4, <1>6 DEF r

\* A claim, and its end.
LEMMA ClaimedInv ==
  ASSUME NEW src, NEW rel, NEW kept \in BOOLEAN, NEW n \in Nat, NEW r, RowInv(r, src, rel, kept, n),
         NEW who \in {"free", "prepare", "control"},
         who = "prepare" => r.phase = "pending", who = "control" => r.phase = "ready"
  PROVE  RowInv([r EXCEPT !.claim = who], src, rel, kept, n)
BY DEF RowInv, Row, WellFormed, NoTask, Active, Phase

LEMMA ReadyRowInv ==
  ASSUME NEW src \in 1..MaxVersion, NEW rel, NEW kept \in BOOLEAN, NEW n \in Nat, NEW r, RowInv(r, src, rel, kept, n),
         r.phase = "pending", NEW h \in Hash
  PROVE  RowInv([r EXCEPT !.phase = "ready", !.torrent = h, !.hash = h, !.ver = src,
                          !.rev = Next1(@), !.attempts = 0, !.claim = "free"], src, rel, kept, n)
<1>1. r \in Row /\ Next1(r.rev) \in 0..MaxRevision
  BY NextRevision DEF RowInv, Row
<1> QED
  BY <1>1, PipelineAssumption DEF RowInv, Row, WellFormed, NoTask, Active, Phase

LEMMA FailedInv ==
  ASSUME NEW src, NEW rel, NEW kept \in BOOLEAN, NEW n \in Nat, NEW r, RowInv(r, src, rel, kept, n),
         r.phase = "pending", NEW spent \in Nat
  PROVE  RowInv([r EXCEPT !.attempts = spent, !.claim = "free",
                          !.phase = IF spent >= MaxAttempts THEN "blocked" ELSE @], src, rel, kept, n)
BY PipelineAssumption DEF RowInv, Row, WellFormed, NoTask, Active, Phase

\* AdmitPresent, Submitting.
LEMMA PutOffInv ==
  ASSUME NEW src, NEW rel, NEW kept \in BOOLEAN, NEW n \in Nat, NEW r, RowInv(r, src, rel, kept, n),
         r.phase = "ready"
  PROVE  RowInv([r EXCEPT !.rev = Next1(@), !.attempts = 0, !.claim = "free"], src, rel, kept, n)
<1>1. r \in Row /\ Next1(r.rev) \in 0..MaxRevision
  BY NextRevision DEF RowInv, Row
<1> QED
  BY <1>1, PipelineAssumption DEF RowInv, Row, WellFormed, NoTask, Active, Phase

LEMMA SubmittedInv ==
  ASSUME NEW src, NEW rel, NEW kept \in BOOLEAN, NEW n \in Nat, NEW r, RowInv(r, src, rel, kept, n),
         r.phase = "ready"
  PROVE  RowInv([r EXCEPT !.phase = "submitted", !.rev = Next1(@), !.subs = @ + 1,
                          !.attempts = @ + 1, !.claim = "free"], src, rel, kept, n)
<1>1. /\ r \in Row /\ Next1(r.rev) \in 0..MaxRevision
      /\ r.subs \in Nat /\ r.subs + 1 \in Nat /\ r.attempts + 1 \in Nat
  BY NextRevision DEF RowInv, Row
<1> DEFINE s == [r EXCEPT !.phase = "submitted", !.rev = Next1(@), !.subs = @ + 1,
                          !.attempts = @ + 1, !.claim = "free"]
<1>2. s \in Row
  BY <1>1 DEF Row, Phase
<1>3. /\ s.phase = "submitted" /\ s.torrent = r.torrent /\ s.hash = r.hash /\ s.claim = "free"
      /\ s.ver = r.ver /\ s.subs = r.subs + 1 /\ s.observed = r.observed
  BY <1>1 DEF Row
<1>4. r.hash # NoHash /\ r.subs < MaxAttempts + n
  BY DEF RowInv, WellFormed, Active
<1> HIDE DEF s
<1>5. s.subs > 0 /\ s.subs <= MaxAttempts + n
  BY <1>1, <1>3, <1>4, PipelineAssumption
<1>6. RowInv(s, src, rel, kept, n)
  BY <1>2, <1>3, <1>4, <1>5 DEF RowInv, WellFormed, Active
<1> QED
  BY <1>6 DEF s

\* Reconciliation: confirmed, unconfirmed and removed.
Tracked(r, ver, h, subs) ==
  [r EXCEPT !.phase = "tracking", !.rev = Next1(@), !.ver = ver, !.hash = h, !.subs = subs,
            !.observed = TRUE]

LEMMA TrackedInv ==
  ASSUME NEW src, NEW rel, NEW rel2, NEW kept \in BOOLEAN, NEW n \in Nat, NEW r, RowInv(r, src, rel, kept, n),
         r.phase # "none", r.claim = "free",
         NEW ver \in 0..MaxVersion, NEW h \in Hash, NEW subs \in Nat, subs <= MaxAttempts + n,
         kept => r.torrent = h, kept => rel2 # "none"
  PROVE  RowInv(Tracked(r, ver, h, subs), src, rel2, kept, n)
<1>1. r \in Row /\ Next1(r.rev) \in 0..MaxRevision /\ h # NoHash
  BY NextRevision, PipelineAssumption DEF RowInv, Row
<1> DEFINE s == Tracked(r, ver, h, subs)
<1>2. s \in Row
  BY <1>1 DEF Tracked, Row, Phase
<1>3. /\ s.phase = "tracking" /\ s.torrent = r.torrent /\ s.claim = r.claim /\ s.hash = h
      /\ s.subs = subs /\ s.observed = TRUE
  BY <1>1 DEF Tracked, Row
<1> HIDE DEF s
<1>4. RowInv(s, src, rel2, kept, n)
  BY <1>1, <1>2, <1>3 DEF RowInv, WellFormed, Active
<1> QED
  BY <1>4 DEF s

Returned(r, src, subs) ==
  [r EXCEPT !.phase = ReturnPhase(subs), !.rev = Next1(@), !.torrent = NoHash, !.hash = NoHash,
            !.ver = src, !.subs = subs, !.observed = FALSE]

LEMMA ReturnedInv ==
  ASSUME NEW src \in 1..MaxVersion, NEW rel, NEW kept \in BOOLEAN, NEW n \in Nat, NEW r, RowInv(r, src, rel, kept, n),
         r.claim = "free", NEW subs \in Nat, subs <= MaxAttempts + n
  PROVE  RowInv(Returned(r, src, subs), src, rel, kept, n)
<1>1. r \in Row /\ Next1(r.rev) \in 0..MaxRevision /\ src \in 0..MaxVersion
  BY NextRevision DEF RowInv, Row
<1>2. /\ ReturnPhase(subs) \in {"blocked", "pending"}
      /\ ReturnPhase(subs) = "pending" => subs < MaxAttempts + n
  BY PipelineAssumption DEF ReturnPhase
<1> DEFINE s == Returned(r, src, subs)
<1>3. s \in Row
  BY <1>1, <1>2 DEF Returned, Row, Phase
<1>4. /\ s.phase = ReturnPhase(subs) /\ s.torrent = NoHash /\ s.hash = NoHash /\ s.claim = r.claim
      /\ s.ver = src /\ s.subs = subs /\ s.observed = FALSE
  BY <1>1 DEF Returned, Row
<1> HIDE DEF s
<1>5. RowInv(s, src, rel, kept, n)
  BY <1>1, <1>2, <1>3, <1>4, PipelineAssumption DEF RowInv, WellFormed, Active
<1> QED
  BY <1>5 DEF s

LEMMA BlockedInv ==
  ASSUME NEW src, NEW rel, NEW kept \in BOOLEAN, NEW n \in Nat, NEW r, RowInv(r, src, rel, kept, n),
         r.phase \notin {"none", "submitted"}, r.claim = "free"
  PROVE  RowInv([r EXCEPT !.phase = "blocked"], src, rel, kept, n)
BY PipelineAssumption DEF RowInv, Row, WellFormed, NoTask, Active, Phase

\* The operator's retry.
Unblocked(r) == IF r.phase # "blocked" THEN r.phase
                ELSE IF r.observed THEN "tracking"
                ELSE IF r.hash # NoHash THEN "ready" ELSE "pending"

LEMMA RetriedInv ==
  ASSUME NEW src, NEW rel, NEW kept \in BOOLEAN, NEW n \in Nat, NEW r, RowInv(r, src, rel, kept, n),
         r.phase \notin {"none", "submitted"}, r.claim = "free", NEW phase, phase = Unblocked(r)
  PROVE  RowInv([r EXCEPT !.rev = Next1(@), !.attempts = 0, !.phase = phase], src, rel, kept, n + 1)
<1>1. r \in Row /\ Next1(r.rev) \in 0..MaxRevision /\ r.subs \in Nat
  BY NextRevision DEF RowInv, Row
<1>2. phase \in Phase \ {"none", "submitted"}
  BY <1>1 DEF Unblocked, Row, Phase
<1> DEFINE s == [r EXCEPT !.rev = Next1(@), !.attempts = 0, !.phase = phase]
<1>3. s \in Row
  BY <1>1, <1>2 DEF Row
<1>4. /\ s.phase = phase /\ s.torrent = r.torrent /\ s.hash = r.hash /\ s.claim = r.claim
      /\ s.ver = r.ver /\ s.subs = r.subs /\ s.observed = r.observed
  BY <1>1 DEF Row
<1> HIDE DEF s
<1>5. WellFormed(s)
  BY <1>1, <1>2, <1>4, PipelineAssumption DEF RowInv, WellFormed, Active, Unblocked
<1>6. /\ s.subs <= MaxAttempts + (n + 1)
      /\ s.phase \in {"pending", "ready"} => s.subs < MaxAttempts + (n + 1)
  BY <1>1, <1>4, PipelineAssumption DEF RowInv
<1>7. /\ s.phase \in {"pending", "ready"} => s.ver = src
      /\ s.phase = "blocked" /\ ~s.observed => s.ver = src
      /\ s.phase = "tracking" => s.observed
  BY <1>4 DEF RowInv, Unblocked
<1>8. RowInv(s, src, rel, kept, n + 1)
  BY <1>2, <1>3, <1>4, <1>5, <1>6, <1>7 DEF RowInv
<1> QED
  BY <1>8 DEF s

-----------------------------------------------------------------------------
\* Steps of the tables.

LEMMA MoreCommands ==
  ASSUME NEW src, NEW rel, NEW kept \in BOOLEAN, NEW n \in Nat, NEW m \in Nat, n <= m, NEW r,
         RowInv(r, src, rel, kept, n)
  PROVE  RowInv(r, src, rel, kept, m)
BY PipelineAssumption DEF RowInv, Row

\* A step that writes row r for release k, and the tables beside it.
RowWrite(k, r) ==
  /\ task' = [task EXCEPT ![k] = r]
  /\ RowInv(r, sources'[k], release'[k], k \notin stale', operations')
  /\ operations' \in Nat /\ operations <= operations'
  /\ \A j \in Key : j # k => /\ sources'[j] = sources[j] /\ release'[j] = release[j]
                            /\ (j \notin stale') = (j \notin stale)

LEMMA OneRow ==
  ASSUME PipelineInv, NEW k \in Key, NEW r, RowWrite(k, r)
  PROVE  RowsInv' /\ task' \in [Key -> Row] /\ \A j \in Key : WellFormed(task'[j])
<1> USE DEF RowWrite
<1>1. task \in [Key -> Row] /\ r \in Row /\ operations \in Nat
  BY PipelineAssumption DEF PipelineInv, TypeOK, RowInv
<1>2. ASSUME NEW j \in Key
      PROVE  RowInv(task'[j], sources'[j], release'[j], j \notin stale', operations')
  <2>1. CASE j = k
    BY <1>1, <2>1
  <2>2. CASE j # k
    <3>1. RowInv(task[j], sources[j], release[j], j \notin stale, operations)
      BY DEF PipelineInv, RowsInv
    <3>2. task'[j] = task[j]
      BY <1>1, <2>2
    <3>3. /\ sources'[j] = sources[j] /\ release'[j] = release[j]
          /\ (j \notin stale') = (j \notin stale)
      BY <2>2
    <3>4. RowInv(task[j], sources[j], release[j], j \notin stale, operations')
      BY <1>1, <3>1, MoreCommands
    <3> QED
      BY <3>2, <3>3, <3>4, Zenon
  <2> QED
    BY <2>1, <2>2
<1>3. RowsInv'
  BY <1>2 DEF RowsInv
<1>4. \A j \in Key : WellFormed(task'[j])
  BY <1>2 DEF RowInv
<1> QED
  BY <1>1, <1>3, <1>4

\* A step that writes no row.
LEMMA SameRows ==
  ASSUME PipelineInv, UNCHANGED <<task, operations>>,
         \A k \in Key : RowInv(task[k], sources'[k], release'[k], k \notin stale', operations)
  PROVE  RowsInv' /\ task' \in [Key -> Row] /\ \A j \in Key : WellFormed(task'[j])
BY DEF PipelineInv, RowsInv, TypeOK, RowInv

LEMMA PrepKept ==
  ASSUME PrepInv, UNCHANGED prep,
         \A j \in Key : task'[j].claim = "prepare" =>
                          task[j].claim = "prepare" /\ task'[j].ver = task[j].ver
  PROVE  PrepInv'
BY DEF PrepInv

LEMMA CtlKept ==
  ASSUME PipelineInv, UNCHANGED ctl, operations' \in Nat, operations <= operations',
         \A j \in Key : task'[j].phase = "submitted" => task[j].phase = "submitted"
  PROVE  CtlInv'
<1>1. ASSUME ctl.pc = "reconcile", NEW c \in ctl.todo
      PROVE  ReadRow(c)'
  <2>1. ReadRow(c)
    BY <1>1 DEF PipelineInv, CtlInv
  <2>2. c.row.subs \in Nat /\ operations \in Nat
    BY <2>1, PipelineAssumption DEF ReadRow, Row, PipelineInv, TypeOK
  <2>3. c.row.subs <= MaxAttempts + operations'
    BY <2>1, <2>2, PipelineAssumption DEF ReadRow
  <2> QED
    BY <2>1, <2>3 DEF ReadRow
<1> QED
  BY <1>1 DEF PipelineInv, CtlInv

LEMMA InitPipeline == Init => PipelineInv
<1> SUFFICES ASSUME Init PROVE PipelineInv
  OBVIOUS
<1>1. NoTask \in Row /\ WellFormed(NoTask)
  BY PipelineAssumption DEF NoTask, Row, WellFormed, Phase, Active
<1>2. \A k \in Key : RowInv(NoTask, 0, "none", k \notin {}, 0)
  BY NoRowInv
<1>3. RowsInv
  BY <1>2 DEF RowsInv, Init
<1>4. TypeOK
  BY <1>1, PipelineAssumption DEF Init, TypeOK, Outcome, Seen, QBState, Idle
<1> QED
  BY <1>3, <1>4 DEF PipelineInv, PrepInv, CtlInv, Init, Idle

LEMMA CalmRows ==
  ASSUME PipelineInv, UNCHANGED <<task, sources, release, operations, stale>>
  PROVE  RowsInv' /\ task' \in [Key -> Row] /\ \A j \in Key : WellFormed(task'[j])
BY SameRows DEF PipelineInv, RowsInv

-----------------------------------------------------------------------------
\* Steps of the feed poller.

LEMMA PublishStep ==
  ASSUME PipelineInv, NEW k \in Key, Publish(k)
  PROVE  PipelineInv'
<1>1. RowsInv' /\ task' \in [Key -> Row] /\ \A j \in Key : WellFormed(task'[j])
  BY CalmRows DEF Publish, db, history
<1>2. TypeOK'
  BY <1>1, PipelineAssumption DEF PipelineInv, TypeOK, Publish, db, history
<1>3. PrepInv' /\ CtlInv'
  BY PrepKept, CtlKept, PipelineAssumption DEF PipelineInv, TypeOK, Publish, db, history
<1> QED
  BY <1>1, <1>2, <1>3 DEF PipelineInv

LEMMA BootstrapStep ==
  ASSUME PipelineInv, NEW k \in Key, Bootstrap(k)
  PROVE  PipelineInv'
<1>1. RowsInv' /\ task' \in [Key -> Row] /\ \A j \in Key : WellFormed(task'[j])
  <2>1. release' = [release EXCEPT ![k] = "bootstrap"] /\ release \in [Key -> Outcome]
    BY DEF Bootstrap, Close, PipelineInv, TypeOK
  <2>2. \A j \in Key : RowInv(task[j], sources[j], release'[j], j \notin stale, operations)
    BY <2>1 DEF PipelineInv, RowsInv, RowInv
  <2> QED
    BY <2>2, SameRows DEF Bootstrap, history
<1>2. TypeOK'
  BY <1>1 DEF PipelineInv, TypeOK, Bootstrap, Close, Outcome, history
<1>3. PrepInv' /\ CtlInv'
  BY PrepKept, CtlKept, PipelineAssumption DEF PipelineInv, TypeOK, Bootstrap, history
<1> QED
  BY <1>1, <1>2, <1>3 DEF PipelineInv

LEMMA MaintainStep ==
  ASSUME PipelineInv, NEW k \in Key, Maintain(k)
  PROVE  PipelineInv'
<1>1. RowsInv' /\ task' \in [Key -> Row] /\ \A j \in Key : WellFormed(task'[j])
  <2>1. sources' = [sources EXCEPT ![k] = 0] /\ sources \in [Key -> 0..MaxVersion] /\ task[k].phase = "none"
    BY DEF Maintain, Prunable, PipelineInv, TypeOK
  <2>2. \A j \in Key : RowInv(task[j], sources'[j], release[j], j \notin stale, operations)
    BY <2>1 DEF PipelineInv, RowsInv, RowInv
  <2> QED
    BY <2>2, SameRows DEF Maintain, history
<1>2. TypeOK'
  BY <1>1, PipelineAssumption DEF PipelineInv, TypeOK, Maintain, history
<1>3. PrepInv' /\ CtlInv'
  BY PrepKept, CtlKept, PipelineAssumption DEF PipelineInv, TypeOK, Maintain, history
<1> QED
  BY <1>1, <1>2, <1>3 DEF PipelineInv

LEMMA IngestStep ==
  ASSUME PipelineInv, NEW k \in Key, Ingest(k)
  PROVE  PipelineInv'
<1>1. /\ sources' = [sources EXCEPT ![k] = upstream[k]] /\ sources \in [Key -> 0..MaxVersion]
      /\ upstream[k] \in 1..MaxVersion
      /\ UNCHANGED <<upstream, release, content, replay, qb, sent, prep, ctl, up, operations, faults>>
      /\ UNCHANGED <<permitted, stale>>
      /\ sources'[k] = upstream[k] /\ operations \in Nat /\ task \in [Key -> Row]
  BY PipelineAssumption DEF PipelineInv, TypeOK, Ingest, history
<1>2. RowInv(task[k], sources[k], release[k], k \notin stale, operations)
  BY DEF PipelineInv, RowsInv
<1>3. CASE task[k].phase \in Correctable
  <2> DEFINE r == Fresh(upstream[k], IF task[k].phase = "none" THEN 2 ELSE Next1(task[k].rev))
  <2>1. task' = [task EXCEPT ![k] = r]
    BY <1>3 DEF Ingest, Corrected
  <2>2. (IF task[k].phase = "none" THEN 2 ELSE Next1(task[k].rev)) \in 0..MaxRevision
    BY <1>1, NextRevision, PipelineAssumption DEF Row
  <2>3. RowInv(r, upstream[k], release[k], k \notin stale, operations) /\ r.claim = "free"
    BY <1>1, <2>2, FreshInv
  <2>4. r.phase = "pending"
    BY DEF Fresh, NoTask
  <2> HIDE DEF r
  <2>5. RowsInv' /\ task' \in [Key -> Row] /\ \A j \in Key : WellFormed(task'[j])
    <3>1. RowWrite(k, r)
      BY <1>1, <2>1, <2>3 DEF RowWrite
    <3> QED
      BY <3>1, OneRow
  <2>6. TypeOK'
    BY <1>1, <2>5, PipelineAssumption DEF PipelineInv, TypeOK
  <2>7. PrepInv' /\ CtlInv'
    BY <1>1, <2>1, <2>3, <2>4, PrepKept, CtlKept DEF PipelineInv
  <2> QED
    BY <2>5, <2>6, <2>7 DEF PipelineInv
<1>4. CASE task[k].phase \notin Correctable
  <2>1. task' = task
    BY <1>4 DEF Ingest
  <2>2. RowInv(task[k], upstream[k], release[k], k \notin stale, operations)
    BY <1>1, <1>2, <1>4 DEF RowInv, Correctable
  <2>3. \A j \in Key : RowInv(task[j], sources'[j], release[j], j \notin stale, operations)
    BY <1>1, <2>2 DEF PipelineInv, RowsInv
  <2>4. RowsInv' /\ task' \in [Key -> Row] /\ \A j \in Key : WellFormed(task'[j])
    BY <1>1, <2>1, <2>3, SameRows
  <2>5. TypeOK'
    BY <1>1, <2>4, PipelineAssumption DEF PipelineInv, TypeOK
  <2>6. PrepInv' /\ CtlInv'
    BY <1>1, <2>1, PrepKept, CtlKept DEF PipelineInv
  <2> QED
    BY <2>4, <2>5, <2>6 DEF PipelineInv
<1> QED
  BY <1>3, <1>4

LEMMA ExpireStep ==
  ASSUME PipelineInv, NEW k \in Key, Expire(k)
  PROVE  PipelineInv'
<1>1. /\ UNCHANGED <<upstream, sources, release, content, replay, qb, sent, prep, ctl, up, operations, faults>>
      /\ UNCHANGED <<permitted, stale>> /\ operations \in Nat /\ task \in [Key -> Row]
      /\ task' = [task EXCEPT ![k] = [task[k] EXCEPT !.claim = "free"]]
  BY PipelineAssumption DEF PipelineInv, TypeOK, Expire, Claimed, history
<1>2. RowInv([task[k] EXCEPT !.claim = "free"], sources[k], release[k], k \notin stale, operations)
  BY ClaimedInv, <1>1 DEF PipelineInv, RowsInv
<1>3. RowsInv' /\ task' \in [Key -> Row] /\ \A j \in Key : WellFormed(task'[j])
  <2>1. RowWrite(k, [task[k] EXCEPT !.claim = "free"])
    BY <1>1, <1>2 DEF RowWrite
  <2> QED
    BY <2>1, OneRow
<1>4. TypeOK'
  BY <1>1, <1>3, PipelineAssumption DEF PipelineInv, TypeOK
<1>5. PrepInv' /\ CtlInv'
  BY <1>1, PrepKept, CtlKept DEF PipelineInv, Row
<1> QED
  BY <1>3, <1>4, <1>5 DEF PipelineInv

-----------------------------------------------------------------------------
\* Steps of the prepare goroutine.

LEMMA PrepareClaimStep ==
  ASSUME PipelineInv, NEW k \in Key, PrepareClaim(k)
  PROVE  PipelineInv'
<1>1. /\ UNCHANGED <<upstream, sources, release, content, replay, qb, sent, ctl, up, operations, faults>>
      /\ UNCHANGED <<permitted, stale>> /\ operations \in Nat /\ task \in [Key -> Row]
      /\ task' = [task EXCEPT ![k] = [task[k] EXCEPT !.claim = "prepare"]]
      /\ task[k].phase = "pending"
      /\ prep' = [pc |-> "work", key |-> k, rev |-> task[k].rev, ver |-> task[k].ver]
  BY PipelineAssumption DEF PipelineInv, TypeOK, PrepareClaim, Claimed, history
<1>2. RowInv([task[k] EXCEPT !.claim = "prepare"], sources[k], release[k], k \notin stale, operations)
  BY ClaimedInv, <1>1 DEF PipelineInv, RowsInv
<1>3. RowsInv' /\ task' \in [Key -> Row] /\ \A j \in Key : WellFormed(task'[j])
  <2>1. RowWrite(k, [task[k] EXCEPT !.claim = "prepare"])
    BY <1>1, <1>2 DEF RowWrite
  <2> QED
    BY <2>1, OneRow
<1>4. TypeOK'
  BY <1>1, <1>3, PipelineAssumption DEF PipelineInv, TypeOK
<1>5. PrepInv'
  BY <1>1 DEF PrepInv, Row
<1>6. CtlInv'
  BY <1>1, CtlKept DEF Row
<1> QED
  BY <1>3, <1>4, <1>5, <1>6 DEF PipelineInv

\* The row that a valid claim of the prepare goroutine is on.
LEMMA PreparedRow ==
  ASSUME PipelineInv, prep.pc = "work", PrepareValid
  PROVE  /\ prep.key \in Key /\ task[prep.key].phase = "pending"
         /\ sources[prep.key] \in 1..MaxVersion /\ prep.ver = sources[prep.key]
         /\ task[prep.key] \in Row /\ operations \in Nat
         /\ RowInv(task[prep.key], sources[prep.key], release[prep.key], prep.key \notin stale, operations)
<1>1. prep.key \in Key /\ task[prep.key].claim = "prepare" /\ task[prep.key].ver = prep.ver
  BY DEF PipelineInv, PrepInv, PrepareValid, Valid
<1>2. RowInv(task[prep.key], sources[prep.key], release[prep.key], prep.key \notin stale, operations)
  BY <1>1 DEF PipelineInv, RowsInv
<1> QED
  BY <1>1, <1>2, PipelineAssumption DEF PipelineInv, TypeOK, RowInv, WellFormed

\* A job of the prepare goroutine ends with a write of its row.
LEMMA PreparingStep ==
  ASSUME PipelineInv, Preparing, NEW r, RowWrite(prep.key, r), prep.key \in Key,
         r.phase # "submitted", UNCHANGED <<content, sources>>,
         release' \in [Key -> Outcome], replay' \in [Key -> BOOLEAN],
         faults' \in 0..MaxFaults, permitted' \subseteq Key, stale' \subseteq Key
  PROVE  PipelineInv'
<1>1. RowsInv' /\ task' \in [Key -> Row] /\ \A j \in Key : WellFormed(task'[j])
  BY OneRow
<1>2. TypeOK'
  BY <1>1 DEF PipelineInv, TypeOK, Preparing, Idle
<1>3. PrepInv'
  BY DEF Preparing, Idle, PrepInv
<1>4. \A j \in Key : task'[j].phase = "submitted" => task[j].phase = "submitted"
  BY DEF RowWrite, PipelineInv, TypeOK
<1>5. CtlInv'
  BY <1>4, CtlKept DEF RowWrite, Preparing
<1> QED
  BY <1>1, <1>2, <1>3, <1>5 DEF PipelineInv

LEMMA ReadyStep ==
  ASSUME PipelineInv, Ready
  PROVE  PipelineInv'
<1> DEFINE k == prep.key
           h == Resolve[k, prep.ver]
           r == [task[k] EXCEPT !.phase = "ready", !.torrent = h, !.hash = h, !.ver = prep.ver,
                                !.rev = Next1(@), !.attempts = 0, !.claim = "free"]
<1>1. Preparing /\ prep.pc = "work" /\ PrepareValid
  BY DEF Ready, Preparing
<1>2. /\ k \in Key /\ task[k].phase = "pending"
      /\ sources[k] \in 1..MaxVersion /\ prep.ver = sources[k]
      /\ task[k] \in Row /\ operations \in Nat
      /\ RowInv(task[k], sources[k], release[k], k \notin stale, operations)
  BY <1>1, PreparedRow
<1>3. h \in Hash
  BY <1>2, PipelineAssumption DEF Version
<1>4. /\ UNCHANGED <<content, sources, stale, operations, faults>>
      /\ release \in [Key -> Outcome] /\ replay' \in [Key -> BOOLEAN]
      /\ faults \in 0..MaxFaults /\ permitted' \subseteq Key /\ stale \subseteq Key
  BY <1>2 DEF Ready, Preparing, PipelineInv, TypeOK
<1>5. CASE Duplicate(k, h)
  <2>1. release' = [release EXCEPT ![k] = "duplicate"] /\ task' = [task EXCEPT ![k] = NoTask]
    BY <1>5 DEF Ready, Close
  <2>2. RowInv(NoTask, sources[k], "duplicate", k \notin stale, operations)
    BY <1>2, NoRowInv
  <2>3. RowWrite(k, NoTask)
    BY <1>2, <1>4, <2>1, <2>2 DEF RowWrite
  <2>4. release' \in [Key -> Outcome] /\ NoTask.phase # "submitted"
    BY <1>2, <1>4, <2>1 DEF Outcome, NoTask
  <2> QED
    BY <1>1, <1>2, <1>4, <2>3, <2>4, PreparingStep
<1>6. CASE ~Duplicate(k, h)
  <2>1. release' = release /\ task' = [task EXCEPT ![k] = r]
    BY <1>6 DEF Ready
  <2>2. RowInv(r, sources[k], release[k], k \notin stale, operations)
    BY <1>2, <1>3, ReadyRowInv
  <2>3. r.phase = "ready"
    BY <1>2 DEF Row
  <2> HIDE DEF r
  <2>4. RowWrite(k, r)
    BY <1>2, <1>4, <2>1, <2>2 DEF RowWrite
  <2> QED
    BY <1>1, <1>2, <1>4, <2>1, <2>3, <2>4, PreparingStep
<1> QED
  BY <1>5, <1>6

LEMMA PrepareRejectStep ==
  ASSUME PipelineInv, PrepareReject
  PROVE  PipelineInv'
<1>1. Preparing /\ prep.pc = "work" /\ PrepareValid
  BY DEF PrepareReject, Preparing
<1>2. prep.key \in Key /\ operations \in Nat
  BY <1>1, PreparedRow
<1>3. /\ release' = [release EXCEPT ![prep.key] = "policy"] /\ release \in [Key -> Outcome]
      /\ task' = [task EXCEPT ![prep.key] = NoTask]
      /\ UNCHANGED <<sources, content, replay, faults, permitted, stale, operations>>
  BY DEF PrepareReject, Preparing, Close, history, PipelineInv, TypeOK
<1>4. RowInv(NoTask, sources[prep.key], "policy", prep.key \notin stale, operations)
  BY <1>2, NoRowInv
<1>5. RowWrite(prep.key, NoTask)
  BY <1>2, <1>3, <1>4 DEF RowWrite
<1>6. release' \in [Key -> Outcome] /\ NoTask.phase # "submitted"
  BY <1>2, <1>3 DEF Outcome, NoTask
<1>7. replay' \in [Key -> BOOLEAN] /\ faults' \in 0..MaxFaults /\ permitted' \subseteq Key /\ stale' \subseteq Key
  BY <1>3 DEF PipelineInv, TypeOK
<1> QED
  BY <1>1, <1>2, <1>3, <1>5, <1>6, <1>7, PreparingStep

LEMMA PrepareFailStep ==
  ASSUME PipelineInv, PrepareFail
  PROVE  PipelineInv'
<1> DEFINE k == prep.key
           spent == task[k].attempts + 1
           r == [task[k] EXCEPT !.attempts = spent, !.claim = "free",
                                !.phase = IF spent >= MaxAttempts THEN "blocked" ELSE @]
<1>1. Preparing /\ prep.pc = "work" /\ PrepareValid
  BY DEF PrepareFail, Preparing
<1>2. /\ k \in Key /\ task[k].phase = "pending" /\ task[k] \in Row /\ operations \in Nat
      /\ sources[k] \in 1..MaxVersion
      /\ RowInv(task[k], sources[k], release[k], k \notin stale, operations)
  BY <1>1, PreparedRow
<1>3. /\ task' = [task EXCEPT ![k] = r]
      /\ UNCHANGED <<sources, release, content, replay, faults, permitted, stale, operations>>
  BY DEF PrepareFail, Preparing, history
<1>4. spent \in Nat
  BY <1>2 DEF Row
<1>5. RowInv(r, sources[k], release[k], k \notin stale, operations)
  BY <1>2, <1>4, FailedInv
<1>6. r.phase # "submitted"
  BY <1>2 DEF Row
<1> HIDE DEF r
<1>7. RowWrite(k, r)
  BY <1>2, <1>3, <1>5 DEF RowWrite
<1>8. /\ release' \in [Key -> Outcome] /\ replay' \in [Key -> BOOLEAN] /\ faults' \in 0..MaxFaults
      /\ permitted' \subseteq Key /\ stale' \subseteq Key
  BY <1>3 DEF PipelineInv, TypeOK
<1> QED
  BY <1>1, <1>2, <1>3, <1>6, <1>7, <1>8, PreparingStep

LEMMA PrepareEndsStep ==
  ASSUME PipelineInv, PrepareStale \/ PrepareLost
  PROVE  PipelineInv'
<1>1. /\ prep' = Idle /\ UNCHANGED <<upstream, db, qb, sent, ctl, up, operations, history>>
      /\ faults' \in 0..MaxFaults
  BY PipelineAssumption DEF PrepareStale, PrepareLost, Preparing, Fault, PipelineInv, TypeOK
<1>2. RowsInv' /\ task' \in [Key -> Row] /\ \A j \in Key : WellFormed(task'[j])
  BY <1>1, CalmRows DEF db, history
<1>3. TypeOK'
  BY <1>1, <1>2 DEF PipelineInv, TypeOK, db, history, Idle
<1>4. PrepInv'
  BY <1>1 DEF PrepInv, Idle
<1>5. CtlInv'
  BY <1>1, CtlKept, PipelineAssumption DEF PipelineInv, TypeOK, db
<1> QED
  BY <1>2, <1>3, <1>4, <1>5 DEF PipelineInv

-----------------------------------------------------------------------------
\* Steps of the control goroutine.

\* Steps of the cycle that write no table but content, and hold no rows after.
LEMMA CycleStep ==
  ASSUME PipelineInv,
         \/ \E managed \in SUBSET Present(qb), old \in SUBSET Elapsed : BeginCycle(managed, old)
         \/ StartAdmitting \/ AdmitStale \/ Add \/ EndCycle \/ CutCycle
  PROVE  PipelineInv'
<1>1. /\ UNCHANGED <<upstream, sources, task, release, replay, qb, prep, up, operations>>
      /\ UNCHANGED <<permitted, stale>>
      /\ ctl'.pc \in {"idle", "snapshot", "admit"}
  BY DEF BeginCycle, StartAdmitting, AdmitStale, Add, EndCycle, CutCycle, Controlling, Deciding,
         ToAdmit, Idle, db, history
<1>2. content' \in [Hash -> Seen]
  BY DEF BeginCycle, StartAdmitting, AdmitStale, Add, EndCycle, CutCycle, Seen, db, PipelineInv, TypeOK
<1>3. sent' \in [Hash -> Nat]
  BY DEF BeginCycle, StartAdmitting, AdmitStale, Add, EndCycle, CutCycle, PipelineInv, TypeOK
<1>4. faults' \in 0..MaxFaults
  BY PipelineAssumption
     DEF BeginCycle, StartAdmitting, AdmitStale, Add, EndCycle, CutCycle, Fault, PipelineInv, TypeOK
<1>5. RowsInv' /\ task' \in [Key -> Row] /\ \A j \in Key : WellFormed(task'[j])
  BY <1>1, CalmRows
<1>6. TypeOK'
  BY <1>1, <1>2, <1>3, <1>4, <1>5 DEF PipelineInv, TypeOK
<1>7. PrepInv' /\ CtlInv'
  BY <1>1, PrepKept DEF CtlInv, PipelineInv
<1> QED
  BY <1>5, <1>6, <1>7 DEF PipelineInv

LEMMA ReadDownloadsStep ==
  ASSUME PipelineInv, ReadDownloads
  PROVE  PipelineInv'
<1>1. /\ UNCHANGED <<upstream, sources, task, release, content, replay, qb, sent, prep, up>>
      /\ UNCHANGED <<operations, faults, permitted, stale>>
      /\ ctl'.pc = "reconcile"
      /\ ctl' = [pc |-> "reconcile", snap |-> ctl'.snap, old |-> ctl'.old, todo |-> ctl'.todo]
      /\ ctl'.todo = {[key |-> k, row |-> task[k]] : k \in {j \in Key : task[j].phase \in Active}}
  BY DEF ReadDownloads, Controlling, db, history
<1>2. RowsInv' /\ task' \in [Key -> Row] /\ \A j \in Key : WellFormed(task'[j])
  BY <1>1, CalmRows
<1>3. TypeOK'
  BY <1>1, <1>2 DEF PipelineInv, TypeOK
<1>4. PrepInv'
  BY <1>1, PrepKept DEF PipelineInv
<1>5. CtlInv'
  <2>1. ASSUME NEW c \in ctl'.todo
        PROVE  ReadRow(c)'
    <3>1. PICK k \in Key : c = [key |-> k, row |-> task[k]] /\ task[k].phase \in Active
      BY <1>1, <2>1
    <3>2. RowInv(task[k], sources[k], release[k], k \notin stale, operations)
      BY DEF PipelineInv, RowsInv
    <3> QED
      BY <1>1, <3>1, <3>2 DEF ReadRow, RowInv
  <2>2. ASSUME NEW c \in ctl'.todo, NEW d \in ctl'.todo, c.key = d.key
        PROVE  c = d
    BY <1>1, <2>2
  <2> QED
    BY <1>1, <2>1, <2>2 DEF CtlInv
<1> QED
  BY <1>2, <1>3, <1>4, <1>5 DEF PipelineInv

LEMMA AdmitClaimStep ==
  ASSUME PipelineInv, NEW k \in Key, AdmitClaim(k)
  PROVE  PipelineInv'
<1>1. /\ UNCHANGED <<upstream, sources, release, content, replay, qb, sent, prep, up, operations, faults>>
      /\ UNCHANGED <<permitted, stale>> /\ operations \in Nat /\ task \in [Key -> Row]
      /\ task' = [task EXCEPT ![k] = [task[k] EXCEPT !.claim = "control"]]
      /\ task[k].phase = "ready" /\ ctl'.pc = "decide" /\ ctl'.key = k
  BY PipelineAssumption
     DEF PipelineInv, TypeOK, AdmitClaim, Admissible, Controlling, Claimed, history
<1>2. RowInv([task[k] EXCEPT !.claim = "control"], sources[k], release[k], k \notin stale, operations)
  BY ClaimedInv, <1>1 DEF PipelineInv, RowsInv
<1>3. RowsInv' /\ task' \in [Key -> Row] /\ \A j \in Key : WellFormed(task'[j])
  <2>1. RowWrite(k, [task[k] EXCEPT !.claim = "control"])
    BY <1>1, <1>2 DEF RowWrite
  <2> QED
    BY <2>1, OneRow
<1>4. TypeOK'
  BY <1>1, <1>3, PipelineAssumption DEF PipelineInv, TypeOK
<1>5. PrepInv' /\ CtlInv'
  BY <1>1, PrepKept DEF PipelineInv, CtlInv, Row
<1> QED
  BY <1>3, <1>4, <1>5 DEF PipelineInv

\* The row that a valid claim of the control goroutine is on.
LEMMA DecidedRow ==
  ASSUME PipelineInv, Deciding, AdmitValid
  PROVE  /\ ctl.key \in Key /\ task[ctl.key].phase = "ready"
         /\ task[ctl.key] \in Row /\ operations \in Nat
         /\ RowInv(task[ctl.key], sources[ctl.key], release[ctl.key], ctl.key \notin stale, operations)
<1>1. ctl.key \in Key /\ task[ctl.key].claim = "control"
  BY DEF PipelineInv, CtlInv, Deciding, AdmitValid, Valid
<1>2. RowInv(task[ctl.key], sources[ctl.key], release[ctl.key], ctl.key \notin stale, operations)
  BY <1>1 DEF PipelineInv, RowsInv
<1> QED
  BY <1>1, <1>2, PipelineAssumption DEF PipelineInv, TypeOK, RowInv, WellFormed

\* A decision of the control goroutine writes its row and gives up the claim.
LEMMA DecidingStep ==
  ASSUME PipelineInv, Deciding, NEW r, RowWrite(ctl.key, r), ctl.key \in Key, r.claim = "free",
         ctl'.pc \in {"admit", "add"}, release' \in [Key -> Outcome],
         UNCHANGED <<content, sources, replay, qb, sent, faults, permitted, stale>>
  PROVE  PipelineInv'
<1>1. RowsInv' /\ task' \in [Key -> Row] /\ \A j \in Key : WellFormed(task'[j])
  BY OneRow
<1>2. TypeOK'
  BY <1>1 DEF PipelineInv, TypeOK, Deciding, Controlling
<1>3. \A j \in Key : task'[j].claim = "prepare" =>
                       task[j].claim = "prepare" /\ task'[j].ver = task[j].ver
  BY DEF RowWrite, PipelineInv, TypeOK
<1>4. PrepInv' /\ CtlInv'
  BY <1>3, PrepKept DEF Deciding, Controlling, PipelineInv, CtlInv
<1> QED
  BY <1>1, <1>2, <1>4 DEF PipelineInv

LEMMA AdmitRejectStep ==
  ASSUME PipelineInv, AdmitReject
  PROVE  PipelineInv'
<1>1. Deciding /\ AdmitValid /\ operations' = operations /\ ctl'.pc = "admit"
  BY DEF AdmitReject, Deciding, Controlling, ToAdmit
<1>2. ctl.key \in Key /\ operations \in Nat
  BY <1>1, DecidedRow
<1>3. /\ release' = [release EXCEPT ![ctl.key] = "policy"] /\ release \in [Key -> Outcome]
      /\ task' = [task EXCEPT ![ctl.key] = NoTask]
      /\ UNCHANGED <<content, sources, replay, qb, sent, faults, permitted, stale>>
  BY DEF AdmitReject, Close, history, PipelineInv, TypeOK
<1>4. RowInv(NoTask, sources[ctl.key], "policy", ctl.key \notin stale, operations)
  BY <1>2, NoRowInv
<1>5. RowWrite(ctl.key, NoTask)
  BY <1>1, <1>2, <1>3, <1>4 DEF RowWrite
<1>6. release' \in [Key -> Outcome] /\ NoTask.claim = "free"
  BY <1>2, <1>3 DEF Outcome, NoTask
<1> QED
  BY <1>1, <1>2, <1>3, <1>5, <1>6, DecidingStep

LEMMA AdmitPresentStep ==
  ASSUME PipelineInv, AdmitPresent
  PROVE  PipelineInv'
<1> DEFINE k == ctl.key
           r == [task[k] EXCEPT !.rev = Next1(@), !.attempts = 0, !.claim = "free"]
<1>1. Deciding /\ AdmitValid /\ operations' = operations /\ ctl'.pc = "admit"
  BY DEF AdmitPresent, Deciding, Controlling, ToAdmit
<1>2. /\ k \in Key /\ operations \in Nat /\ task[k] \in Row /\ task[k].phase = "ready"
      /\ RowInv(task[k], sources[k], release[k], k \notin stale, operations)
  BY <1>1, DecidedRow
<1>3. /\ task' = [task EXCEPT ![k] = r] /\ release' = release /\ release \in [Key -> Outcome]
      /\ UNCHANGED <<content, sources, replay, qb, sent, faults, permitted, stale>>
  BY DEF AdmitPresent, history, PipelineInv, TypeOK
<1>4. RowInv(r, sources[k], release[k], k \notin stale, operations) /\ r.claim = "free"
  BY <1>2, PutOffInv DEF Row
<1> HIDE DEF r
<1>5. RowWrite(k, r)
  BY <1>1, <1>2, <1>3, <1>4 DEF RowWrite
<1> QED
  BY <1>1, <1>2, <1>3, <1>4, <1>5, DecidingStep

LEMMA SubmittingStep ==
  ASSUME PipelineInv, Submitting
  PROVE  PipelineInv'
<1> DEFINE k == ctl.key
           r == [task[k] EXCEPT !.phase = "submitted", !.rev = Next1(@), !.subs = @ + 1,
                                !.attempts = @ + 1, !.claim = "free"]
<1>1. Deciding /\ AdmitValid /\ operations' = operations /\ ctl'.pc = "add"
  BY DEF Submitting, Deciding, Controlling
<1>2. /\ k \in Key /\ operations \in Nat /\ task[k] \in Row /\ task[k].phase = "ready"
      /\ RowInv(task[k], sources[k], release[k], k \notin stale, operations)
  BY <1>1, DecidedRow
<1>3. /\ task' = [task EXCEPT ![k] = r] /\ release' = release /\ release \in [Key -> Outcome]
      /\ UNCHANGED <<content, sources, replay, qb, sent, faults, permitted, stale>>
  BY DEF Submitting, history, PipelineInv, TypeOK
<1>4. RowInv(r, sources[k], release[k], k \notin stale, operations) /\ r.claim = "free"
  BY <1>2, SubmittedInv DEF Row
<1> HIDE DEF r
<1>5. RowWrite(k, r)
  BY <1>1, <1>2, <1>3, <1>4 DEF RowWrite
<1> QED
  BY <1>1, <1>2, <1>3, <1>4, <1>5, DecidingStep

\* A row that reconciliation does not skip, and what was read of it: the same,
\* unless the row is one of a later life (Reused).
LEMMA ReconciledRow ==
  ASSUME PipelineInv, ctl.pc = "reconcile", NEW c \in ctl.todo, Unchanged(c)
  PROVE  /\ c.key \in Key /\ c.row \in Row /\ WellFormed(c.row) /\ c.row.phase \in Active
         /\ c.row.hash \in Hash /\ c.row.subs \in Nat /\ c.row.subs <= MaxAttempts + operations
         /\ task[c.key].phase = "submitted" => c.row.phase = "submitted"
         /\ task[c.key] \in Row /\ task[c.key].claim = "free" /\ operations \in Nat
         /\ RowInv(task[c.key], sources[c.key], release[c.key], c.key \notin stale, operations)
         /\ ~Reused(c) => /\ task[c.key].hash = c.row.hash /\ task[c.key].observed = c.row.observed
                          /\ task[c.key].phase = c.row.phase
<1>1. ReadRow(c)
  BY DEF PipelineInv, CtlInv
<1>2. /\ c.key \in Key /\ c.row \in Row /\ WellFormed(c.row) /\ c.row.phase \in Active
      /\ c.row.subs <= MaxAttempts + operations
      /\ task[c.key].phase = "submitted" => c.row.phase = "submitted"
  BY <1>1 DEF ReadRow
<1>3. c.row.hash \in Hash /\ c.row.subs \in Nat
  BY <1>2 DEF Row, WellFormed
<1>4. task[c.key] \in Row /\ operations \in Nat
  BY <1>2, PipelineAssumption DEF PipelineInv, TypeOK
<1>5. RowInv(task[c.key], sources[c.key], release[c.key], c.key \notin stale, operations)
  BY <1>2 DEF PipelineInv, RowsInv
<1>6. task[c.key].rev = c.row.rev /\ task[c.key].claim = "free"
  BY DEF Unchanged
<1>7. ASSUME ~Reused(c)
      PROVE  /\ task[c.key].hash = c.row.hash /\ task[c.key].observed = c.row.observed
             /\ task[c.key].phase = c.row.phase
  <2> DEFINE s == [task[c.key] EXCEPT !.claim = c.row.claim, !.attempts = c.row.attempts]
  <2>1. s = c.row
    BY <1>6, <1>7 DEF Reused
  <2>2. s.hash = task[c.key].hash /\ s.observed = task[c.key].observed /\ s.phase = task[c.key].phase
    BY <1>4 DEF Row
  <2> QED
    BY <2>1, <2>2
<1> QED
  BY <1>2, <1>3, <1>4, <1>5, <1>6, <1>7

LEMMA ReconcilingStep ==
  ASSUME PipelineInv, Controlling, ctl.pc = "reconcile", NEW c \in ctl.todo, NEW r,
         RowWrite(c.key, r), r.claim = "free", r.phase # "submitted",
         ctl' = [ctl EXCEPT !.todo = @ \ {c}],
         release' \in [Key -> Outcome], content' \in [Hash -> Seen], stale' \subseteq Key,
         UNCHANGED <<sources, replay, qb, sent, faults, permitted>>
  PROVE  PipelineInv'
<1>1. c.key \in Key
  BY DEF PipelineInv, CtlInv, ReadRow
<1>2. RowsInv' /\ task' \in [Key -> Row] /\ \A j \in Key : WellFormed(task'[j])
  BY <1>1, OneRow
<1>3. /\ ctl'.pc = "reconcile" /\ ctl'.todo = ctl.todo \ {c}
      /\ ctl' = [pc |-> "reconcile", snap |-> ctl'.snap, old |-> ctl'.old, todo |-> ctl'.todo]
  <2>1. ctl = [pc |-> "reconcile", snap |-> ctl.snap, old |-> ctl.old, todo |-> ctl.todo]
    BY DEF PipelineInv, CtlInv
  <2>2. ctl' = [pc |-> "reconcile", snap |-> ctl.snap, old |-> ctl.old, todo |-> ctl.todo \ {c}]
    BY <2>1
  <2> QED
    BY <2>2
<1>4. TypeOK'
  BY <1>2, <1>3 DEF PipelineInv, TypeOK, Controlling
<1>5. \A j \in Key : /\ task'[j].claim = "prepare" =>
                          task[j].claim = "prepare" /\ task'[j].ver = task[j].ver
                     /\ task'[j].phase = "submitted" => task[j].phase = "submitted"
  BY <1>1 DEF RowWrite, PipelineInv, TypeOK
<1>6. PrepInv'
  BY <1>5, PrepKept DEF Controlling, PipelineInv
<1>7. CtlInv'
  <2>1. ASSUME NEW d \in ctl'.todo
        PROVE  ReadRow(d)'
    <3>1. d \in ctl.todo /\ ReadRow(d)
      BY <1>3, <2>1 DEF PipelineInv, CtlInv
    <3> QED
      BY <1>5, <3>1 DEF ReadRow, Controlling
  <2>2. ASSUME NEW d \in ctl'.todo, NEW e \in ctl'.todo, d.key = e.key
        PROVE  d = e
    BY <1>3, <2>2 DEF PipelineInv, CtlInv
  <2> QED
    BY <1>3, <2>1, <2>2 DEF CtlInv
<1> QED
  BY <1>2, <1>4, <1>6, <1>7 DEF PipelineInv

\* What a step of the reconciliation does to the tables, if it writes the row.
LEMMA ReconcileWrites ==
  ASSUME PipelineInv, NEW k \in Key, NEW c \in ctl.todo, ctl.pc = "reconcile", c.key = k, NEW r,
         Controlling, task' = [task EXCEPT ![k] = r], task' # task,
         stale' = IF task' # task /\ Reused(c) THEN stale \cup {c.key} ELSE stale,
         \A j \in Key : j # k => release'[j] = release[j],
         RowInv(r, sources[k], release'[k], k \notin stale /\ ~Reused(c), operations),
         sources' = sources
  PROVE  RowWrite(k, r) /\ stale' \subseteq Key
<1>1. operations' = operations /\ operations \in Nat
  BY PipelineAssumption DEF Controlling, PipelineInv, TypeOK
<1>2. stale \subseteq Key
  BY DEF PipelineInv, TypeOK
<1>3. stale' = IF Reused(c) THEN stale \cup {k} ELSE stale
  OBVIOUS
<1>4. (k \notin stale') = (k \notin stale /\ ~Reused(c))
  BY <1>3
<1>5. \A j \in Key : j # k => (j \notin stale') = (j \notin stale)
  BY <1>3
<1>6. RowInv(r, sources'[k], release'[k], k \notin stale', operations')
  BY <1>1, <1>4
<1> QED
  BY <1>1, <1>2, <1>3, <1>5, <1>6 DEF RowWrite

\* What the branches of ReconcileDownload have in common.
Reconciling(c) ==
  /\ Controlling /\ ctl.pc = "reconcile" /\ c \in ctl.todo
  /\ Unchanged(c) /\ task[c.key].phase # "none"
  /\ ctl' = [ctl EXCEPT !.todo = @ \ {c}]
  /\ stale' = IF task' # task /\ Reused(c) THEN stale \cup {c.key} ELSE stale
  /\ UNCHANGED <<sources, replay, qb, sent, faults, permitted>>

LEMMA ConfirmedStep ==
  ASSUME PipelineInv, NEW c \in ctl.todo, Reconciling(c), Confirmed(c)
  PROVE  PipelineInv'
<1> DEFINE k == c.key
           r == IF ctl.snap[c.row.hash] = "complete" THEN NoTask
                ELSE Tracked(task[k], c.row.ver, c.row.hash, c.row.subs)
           kept == k \notin stale /\ ~Reused(c)
<1>1. /\ k \in Key /\ c.row \in Row /\ c.row.phase \in Active
      /\ c.row.hash \in Hash /\ c.row.subs \in Nat /\ c.row.subs <= MaxAttempts + operations
      /\ task[k] \in Row /\ task[k].claim = "free" /\ operations \in Nat
      /\ RowInv(task[k], sources[k], release[k], k \notin stale, operations)
      /\ ~Reused(c) => task[k].hash = c.row.hash /\ task[k].phase = c.row.phase
  BY ReconciledRow DEF Reconciling
<1>2. release \in [Key -> Outcome] /\ content \in [Hash -> Seen] /\ task \in [Key -> Row]
  BY DEF PipelineInv, TypeOK
<1>3. /\ release' = IF c.row.phase # "tracking" THEN [release EXCEPT ![k] = "admitted"] ELSE release
      /\ task' = [task EXCEPT ![k] = r]
  BY DEF Confirmed, Close, Tracked
<1>4. release' \in [Key -> Outcome] /\ \A j \in Key : j # k => release'[j] = release[j]
  BY <1>1, <1>2, <1>3 DEF Outcome
<1>5. content' \in [Hash -> Seen]
  BY <1>1, <1>2 DEF Confirmed, Seen
<1>6. kept => release'[k] # "none"
  BY <1>1, <1>2, <1>3 DEF RowInv
<1>7. r.claim = "free" /\ r.phase \in {"none", "tracking"} /\ r # task[k]
  <2>1. CASE ctl.snap[c.row.hash] = "complete"
    BY <2>1 DEF NoTask, Reconciling
  <2>2. CASE ctl.snap[c.row.hash] # "complete"
    <3>1. task[k].rev \in 0..MaxRevision
      BY <1>1 DEF Row
    <3>2. sources[k] \in 0..MaxVersion /\ sources[k] # 0
      BY <1>1 DEF RowInv, PipelineInv, TypeOK, Reconciling
    <3>3. MaxRevision > 1 /\ MaxRevision \in Nat
      BY <3>2, PipelineAssumption
    <3>4. Next1(task[k].rev) # task[k].rev
      BY <3>1, <3>3, NextDiffers
    <3> QED
      BY <1>1, <2>2, <3>4 DEF Tracked, Row
  <2> QED
    BY <2>1, <2>2
<1>8. RowInv(r, sources[k], release'[k], kept, operations)
  <2>1. CASE ctl.snap[c.row.hash] = "complete"
    BY <1>1, <1>6, <2>1, NoRowInv
  <2>2. CASE ctl.snap[c.row.hash] # "complete"
    <3>1. RowInv(task[k], sources[k], release[k], kept, operations)
      BY <1>1 DEF RowInv
    <3>2. c.row.ver \in 0..MaxVersion /\ (kept => task[k].torrent = c.row.hash)
      BY <1>1 DEF Row, RowInv
    <3>3. kept \in BOOLEAN /\ task[k].phase # "none"
      BY DEF Reconciling
    <3> HIDE DEF kept
    <3>4. RowInv(Tracked(task[k], c.row.ver, c.row.hash, c.row.subs), sources[k], release'[k], kept,
                 operations)
      BY <1>1, <1>6, <3>1, <3>2, <3>3, TrackedInv
    <3> QED
      BY <2>2, <3>4
  <2> QED
    BY <2>1, <2>2
<1> HIDE DEF r
<1>9. task' # task
  BY <1>1, <1>2, <1>3, <1>7
<1>10. RowWrite(k, r) /\ stale' \subseteq Key
  BY <1>1, <1>3, <1>4, <1>8, <1>9, ReconcileWrites DEF Reconciling
<1> QED
  BY <1>1, <1>4, <1>5, <1>7, <1>10, ReconcilingStep DEF Reconciling

LEMMA UnconfirmedStep ==
  ASSUME PipelineInv, NEW c \in ctl.todo, Reconciling(c), sources[c.key] # 0, Unconfirmed(c),
         UNCHANGED <<release, content>>
  PROVE  PipelineInv'
<1> DEFINE k == c.key
           r == Returned(task[k], sources[k], c.row.subs)
           kept == k \notin stale /\ ~Reused(c)
<1>1. /\ k \in Key /\ c.row.subs \in Nat /\ c.row.subs <= MaxAttempts + operations
      /\ task[k] \in Row /\ task[k].claim = "free" /\ operations \in Nat
      /\ RowInv(task[k], sources[k], release[k], k \notin stale, operations)
  BY ReconciledRow DEF Reconciling
<1>2. /\ release \in [Key -> Outcome] /\ content \in [Hash -> Seen] /\ task \in [Key -> Row]
      /\ sources[k] \in 1..MaxVersion
  BY <1>1, PipelineAssumption DEF PipelineInv, TypeOK
<1>3. task' = [task EXCEPT ![k] = r] /\ release' = release /\ content' = content
  BY DEF Unconfirmed, Returned
<1>4. task[k].rev \in 0..MaxRevision /\ MaxRevision > 1 /\ MaxRevision \in Nat
  BY <1>1, <1>2, PipelineAssumption DEF Row
<1>5. Next1(task[k].rev) # task[k].rev
  BY <1>4, NextDiffers
<1>6. r.claim = "free" /\ r.phase \in {"pending", "blocked"} /\ r # task[k]
  BY <1>1, <1>5 DEF Returned, ReturnPhase, Row
<1>7. RowInv(task[k], sources[k], release[k], kept, operations) /\ kept \in BOOLEAN
  BY <1>1 DEF RowInv
<1> HIDE DEF kept
<1>8. RowInv(r, sources[k], release[k], kept, operations)
  BY <1>1, <1>2, <1>7, ReturnedInv
<1>9. RowInv(r, sources[k], release'[k], k \notin stale /\ ~Reused(c), operations)
  BY <1>3, <1>8 DEF kept
<1> HIDE DEF r
<1>10. task' # task
  BY <1>1, <1>2, <1>3, <1>6
<1>11. RowWrite(k, r) /\ stale' \subseteq Key
  BY <1>1, <1>3, <1>9, <1>10, ReconcileWrites DEF Reconciling
<1> QED
  BY <1>1, <1>2, <1>3, <1>6, <1>11, ReconcilingStep DEF Reconciling

LEMMA RemovedStep ==
  ASSUME PipelineInv, NEW c \in ctl.todo, Reconciling(c), c.row.phase = "tracking",
         task' = [task EXCEPT ![c.key].phase = "blocked"], UNCHANGED <<release, content>>
  PROVE  PipelineInv'
<1> DEFINE k == c.key
           r == [task[k] EXCEPT !.phase = "blocked"]
           kept == k \notin stale /\ ~Reused(c)
<1>1. /\ k \in Key /\ task[k] \in Row /\ task[k].claim = "free" /\ operations \in Nat
      /\ RowInv(task[k], sources[k], release[k], k \notin stale, operations)
      /\ task[k].phase \notin {"none", "submitted"}
      /\ ~Reused(c) => task[k].phase = c.row.phase
  BY ReconciledRow DEF Reconciling
<1>2. release \in [Key -> Outcome] /\ content \in [Hash -> Seen] /\ task \in [Key -> Row]
  BY DEF PipelineInv, TypeOK
<1>3. task' = [task EXCEPT ![k] = r] /\ release' = release /\ content' = content
  OBVIOUS
<1>4. r.claim = "free" /\ r.phase = "blocked"
  BY <1>1 DEF Row
<1>5. RowInv(task[k], sources[k], release[k], kept, operations) /\ kept \in BOOLEAN
  BY <1>1 DEF RowInv
<1> HIDE DEF kept
<1>6. RowInv(r, sources[k], release[k], kept, operations)
  BY <1>1, <1>5, BlockedInv
<1>7. RowInv(r, sources[k], release'[k], k \notin stale /\ ~Reused(c), operations)
  BY <1>3, <1>6 DEF kept
<1>8. CASE task' = task
  <2>1. r = task[k] /\ stale' = stale
    BY <1>1, <1>2, <1>3, <1>8 DEF Reconciling
  <2>2. RowInv(r, sources[k], release[k], k \notin stale, operations)
    BY <1>1, <2>1
  <2> HIDE DEF r
  <2>3. operations' = operations /\ sources' = sources /\ stale \subseteq Key
    BY DEF Reconciling, Controlling, PipelineInv, TypeOK
  <2>4. stale' = stale /\ task' = [task EXCEPT ![k] = r] /\ release' = release
    BY <1>3, <2>1
  <2>5. RowInv(r, sources'[k], release'[k], k \notin stale', operations')
    BY <2>2, <2>3, <2>4
  <2>6. RowWrite(k, r)
    <3>1. operations' \in Nat /\ operations <= operations'
      BY <1>1, <2>3
    <3>2. \A j \in Key : j # k => /\ sources'[j] = sources[j] /\ release'[j] = release[j]
                                  /\ (j \notin stale') = (j \notin stale)
      BY <2>3, <2>4
    <3> QED
      BY <2>4, <2>5, <3>1, <3>2 DEF RowWrite
  <2>7. stale' \subseteq Key
    BY <2>3, <2>4
  <2> QED
    BY <1>1, <1>2, <1>3, <1>4, <2>6, <2>7, ReconcilingStep DEF Reconciling
<1>9. CASE task' # task
  <2> HIDE DEF r
  <2>1. RowWrite(k, r) /\ stale' \subseteq Key
    BY <1>1, <1>3, <1>7, <1>9, ReconcileWrites DEF Reconciling
  <2> QED
    BY <1>1, <1>2, <1>3, <1>4, <2>1, ReconcilingStep DEF Reconciling
<1> QED
  BY <1>8, <1>9

\* A row that is skipped, or fails the cycle.
LEMMA SkippedStep ==
  ASSUME PipelineInv, Controlling, ctl.pc = "reconcile", NEW c \in ctl.todo,
         ctl' = Idle \/ ctl' = [ctl EXCEPT !.todo = @ \ {c}],
         UNCHANGED <<sources, task, release, content, replay, qb, sent, faults, permitted, stale>>
  PROVE  PipelineInv'
<1>1. /\ ctl = [pc |-> "reconcile", snap |-> ctl.snap, old |-> ctl.old, todo |-> ctl.todo]
      /\ \A d \in ctl.todo : ReadRow(d)
      /\ \A d, e \in ctl.todo : d.key = e.key => d = e
  BY DEF PipelineInv, CtlInv
<1>2. RowsInv' /\ task' \in [Key -> Row] /\ \A j \in Key : WellFormed(task'[j])
  BY CalmRows DEF Controlling
<1>3. \/ ctl'.pc = "idle"
      \/ /\ ctl' = [pc |-> "reconcile", snap |-> ctl.snap, old |-> ctl.old, todo |-> ctl.todo \ {c}]
         /\ ctl'.todo \subseteq ctl.todo
  BY <1>1 DEF Idle
<1>4. TypeOK'
  BY <1>2, <1>3 DEF PipelineInv, TypeOK, Controlling
<1>5. PrepInv'
  BY PrepKept DEF PipelineInv, Controlling
<1>6. CtlInv'
  <2>1. CASE ctl'.pc = "idle"
    BY <2>1 DEF CtlInv
  <2>2. CASE ctl' = [pc |-> "reconcile", snap |-> ctl.snap, old |-> ctl.old, todo |-> ctl.todo \ {c}]
    <3>1. /\ ctl'.pc = "reconcile" /\ ctl'.todo = ctl.todo \ {c}
          /\ ctl'.snap = ctl.snap /\ ctl'.old = ctl.old
      BY <2>2
    <3>2. \A d \in ctl'.todo : ReadRow(d)'
      BY <1>1, <3>1 DEF ReadRow, Controlling
    <3> QED
      BY <1>1, <2>2, <3>1, <3>2 DEF CtlInv
  <2> QED
    BY <1>3, <2>1, <2>2
<1> QED
  BY <1>2, <1>4, <1>5, <1>6 DEF PipelineInv

LEMMA ReconcileStep ==
  ASSUME PipelineInv, NEW c \in ctl.todo, ReconcileDownload(c)
  PROVE  PipelineInv'
<1> DEFINE k == c.key
           live == task[k].phase # "none" /\ Unchanged(c)
           confirmed == live /\ Shown(c)
           unconfirmed == live /\ ~Shown(c) /\ Overdue(c)
           removed == live /\ ~Shown(c) /\ c.row.phase = "tracking"
           fails == task[k].phase = "none" \/ (unconfirmed /\ sources[k] = 0)
<1>1. /\ Controlling /\ ctl.pc = "reconcile"
      /\ ctl' = IF fails THEN Idle ELSE [ctl EXCEPT !.todo = @ \ {c}]
      /\ stale' = IF task' # task /\ Reused(c) THEN stale \cup {c.key} ELSE stale
      /\ UNCHANGED <<sources, replay, qb, sent, faults, permitted>>
  BY DEF ReconcileDownload
<1>2. ASSUME live, ~fails
      PROVE  Reconciling(c)
  BY <1>1, <1>2 DEF Reconciling
<1>3. CASE confirmed /\ Confirmed(c)
  BY <1>2, <1>3, ConfirmedStep
<1>4. CASE unconfirmed /\ ~fails /\ Unconfirmed(c) /\ UNCHANGED <<release, content>>
  BY <1>2, <1>4, UnconfirmedStep
<1>5. CASE removed /\ task' = [task EXCEPT ![k].phase = "blocked"] /\ UNCHANGED <<release, content>>
  BY <1>2, <1>5, RemovedStep DEF Overdue
<1>6. CASE UNCHANGED <<task, release, content>>
  BY <1>1, <1>6, SkippedStep
<1> QED
  BY <1>3, <1>4, <1>5, <1>6 DEF ReconcileDownload

LEMMA CycleIsSafe ==
  ASSUME PipelineInv, Cycle
  PROVE  PipelineInv'
<1>1. ASSUME NEW k \in Key,
             NEW c \in {x \in (IF ctl.pc = "reconcile" THEN ctl.todo ELSE {}) : x.key = k},
             ReconcileDownload(c)
      PROVE  PipelineInv'
  <2>1. c \in ctl.todo
    BY <1>1
  <2> QED
    BY <1>1, <2>1, ReconcileStep
<1>2. CASE \E k \in Key : AdmitClaim(k)
  BY <1>2, AdmitClaimStep
<1> QED
  BY <1>1, <1>2, CycleStep, ReadDownloadsStep, AdmitRejectStep, AdmitPresentStep, SubmittingStep
  DEF Cycle

-----------------------------------------------------------------------------
\* Steps of qB, of the operator and of the process.

LEMMA TorrentStep ==
  ASSUME PipelineInv, NEW h \in Hash, Torrent(h)
  PROVE  PipelineInv'
<1>1. /\ UNCHANGED <<upstream, sources, task, release, content, replay, prep, ctl, up, operations>>
      /\ UNCHANGED <<permitted, stale>>
  BY DEF Torrent, Land, Lose, Download, ByHand, QBUnchanged, db
<1>2. qb' \in [Hash -> QBState]
  BY DEF Torrent, Land, Lose, Download, ByHand, QBState, PipelineInv, TypeOK
<1>3. sent' \in [Hash -> Nat]
  BY DEF Torrent, Land, Lose, Download, ByHand, PipelineInv, TypeOK
<1>4. faults' \in 0..MaxFaults
  BY PipelineAssumption DEF Torrent, Land, Lose, Download, ByHand, Fault, PipelineInv, TypeOK
<1>5. RowsInv' /\ task' \in [Key -> Row] /\ \A j \in Key : WellFormed(task'[j])
  BY <1>1, CalmRows
<1>6. TypeOK'
  BY <1>1, <1>2, <1>3, <1>4, <1>5 DEF PipelineInv, TypeOK
<1>7. PrepInv' /\ CtlInv'
  BY <1>1, PrepKept, CtlKept, PipelineAssumption DEF PipelineInv, TypeOK
<1> QED
  BY <1>5, <1>6, <1>7 DEF PipelineInv

\* A command writes the row of one release that nobody holds.
LEMMA OperatingStep ==
  ASSUME PipelineInv, Operating, NEW k \in Key, NEW r, RowWrite(k, r), r.claim = "free",
         r.phase # "submitted", release' \in [Key -> Outcome], replay' \in [Key -> BOOLEAN]
  PROVE  PipelineInv'
<1>1. RowsInv' /\ task' \in [Key -> Row] /\ \A j \in Key : WellFormed(task'[j])
  BY OneRow
<1>2. TypeOK'
  BY <1>1, PipelineAssumption DEF PipelineInv, TypeOK, Operating, history
<1>3. \A j \in Key : /\ task'[j].claim = "prepare" =>
                          task[j].claim = "prepare" /\ task'[j].ver = task[j].ver
                     /\ task'[j].phase = "submitted" => task[j].phase = "submitted"
  BY DEF RowWrite, PipelineInv, TypeOK
<1>4. PrepInv' /\ CtlInv'
  BY <1>3, PrepKept, CtlKept DEF Operating, RowWrite, PipelineInv
<1> QED
  BY <1>1, <1>2, <1>4 DEF PipelineInv

LEMMA OperatorStep ==
  ASSUME PipelineInv, NEW k \in Key, OperatorRetry(k) \/ OperatorCancel(k) \/ OperatorReplay(k)
  PROVE  PipelineInv'
<1>1. /\ Operating /\ operations \in Nat /\ operations' = operations + 1
      /\ sources' = sources /\ stale' = stale
      /\ release \in [Key -> Outcome] /\ replay \in [Key -> BOOLEAN] /\ task[k] \in Row
      /\ RowInv(task[k], sources[k], release[k], k \notin stale, operations)
  BY PipelineAssumption
     DEF OperatorRetry, OperatorCancel, OperatorReplay, Operating, history, PipelineInv, TypeOK, RowsInv
<1>2. CASE OperatorRetry(k)
  <2> DEFINE phase == Unblocked(task[k])
             r == [task[k] EXCEPT !.rev = Next1(@), !.attempts = 0, !.phase = phase]
  <2>1. /\ task' = [task EXCEPT ![k] = r] /\ UNCHANGED <<release, replay>>
        /\ task[k].phase \notin {"none", "submitted"} /\ task[k].claim = "free"
    BY <1>2 DEF OperatorRetry, Operable, Unblocked
  <2>2. RowInv(r, sources[k], release[k], k \notin stale, operations + 1)
    BY <1>1, <2>1, RetriedInv
  <2>3. r.claim = "free" /\ r.phase # "submitted"
    BY <1>1, <2>1 DEF Row, Unblocked
  <2> HIDE DEF r
  <2>4. RowWrite(k, r)
    BY <1>1, <2>1, <2>2 DEF RowWrite
  <2> QED
    BY <1>1, <2>1, <2>3, <2>4, OperatingStep
<1>3. CASE OperatorCancel(k)
  <2>1. /\ task' = [task EXCEPT ![k] = NoTask] /\ replay' = replay
        /\ release' = [release EXCEPT ![k] = "cancelled"]
    BY <1>3 DEF OperatorCancel, Close
  <2>2. RowInv(NoTask, sources[k], "cancelled", k \notin stale, operations + 1)
    <3>1. operations + 1 \in Nat /\ "cancelled" # "none"
      BY <1>1
    <3> QED
      BY <3>1, NoRowInv
  <2>3. RowWrite(k, NoTask)
    BY <1>1, <2>1, <2>2 DEF RowWrite
  <2>4. /\ release' \in [Key -> Outcome] /\ replay' \in [Key -> BOOLEAN]
        /\ NoTask.claim = "free" /\ NoTask.phase # "submitted"
    BY <1>1, <2>1 DEF Outcome, NoTask
  <2> QED
    BY <1>1, <2>3, <2>4, OperatingStep
<1>4. CASE OperatorReplay(k)
  <2> DEFINE r == Fresh(sources[k], 1)
  <2>1. /\ task' = [task EXCEPT ![k] = r] /\ replay' = [replay EXCEPT ![k] = TRUE]
        /\ release' = [release EXCEPT ![k] = "none"] /\ sources[k] # 0
    BY <1>4 DEF OperatorReplay
  <2>2. sources[k] \in 1..MaxVersion /\ 1 \in 0..MaxRevision /\ operations + 1 \in Nat
    BY <1>1, <2>1, PipelineAssumption DEF PipelineInv, TypeOK
  <2>3. RowInv(r, sources[k], "none", k \notin stale, operations + 1) /\ r.claim = "free"
    BY <2>2, FreshInv
  <2>4. r.phase = "pending"
    BY DEF Fresh, NoTask
  <2> HIDE DEF r
  <2>5. RowWrite(k, r)
    BY <1>1, <2>1, <2>3 DEF RowWrite
  <2>6. release' \in [Key -> Outcome] /\ replay' \in [Key -> BOOLEAN]
    BY <1>1, <2>1 DEF Outcome
  <2> QED
    BY <1>1, <2>3, <2>4, <2>5, <2>6, OperatingStep
<1> QED
  BY <1>2, <1>3, <1>4

LEMMA CrashStep ==
  ASSUME PipelineInv, Crash
  PROVE  PipelineInv'
<1>1. /\ UNCHANGED <<upstream, db, qb, sent, operations, history>> /\ up' = FALSE
      /\ prep' = Idle /\ ctl' = Idle /\ faults' \in 0..MaxFaults
  BY PipelineAssumption DEF Crash, Fault, PipelineInv, TypeOK
<1>2. RowsInv' /\ task' \in [Key -> Row] /\ \A j \in Key : WellFormed(task'[j])
  BY <1>1, CalmRows DEF db, history
<1>3. TypeOK'
  BY <1>1, <1>2 DEF PipelineInv, TypeOK, db, history, Idle
<1>4. PrepInv' /\ CtlInv'
  BY <1>1 DEF PrepInv, CtlInv, Idle
<1> QED
  BY <1>2, <1>3, <1>4 DEF PipelineInv

LEMMA RecoverStep ==
  ASSUME PipelineInv, Recover
  PROVE  PipelineInv'
<1>1. /\ UNCHANGED <<upstream, sources, release, content, replay, qb, sent, prep, ctl, operations, faults>>
      /\ UNCHANGED <<permitted, stale>> /\ up' = TRUE
      /\ task' = [k \in Key |-> [task[k] EXCEPT !.claim = "free"]]
      /\ task \in [Key -> Row] /\ operations \in Nat
  BY PipelineAssumption DEF Recover, history, PipelineInv, TypeOK
<1>2. ASSUME NEW k \in Key
      PROVE  RowInv(task'[k], sources'[k], release'[k], k \notin stale', operations')
  <2>1. RowInv([task[k] EXCEPT !.claim = "free"], sources[k], release[k], k \notin stale, operations)
    BY <1>1, ClaimedInv DEF PipelineInv, RowsInv
  <2> QED
    BY <1>1, <2>1
<1>3. RowsInv' /\ task' \in [Key -> Row] /\ \A j \in Key : WellFormed(task'[j])
  BY <1>1, <1>2 DEF RowsInv, RowInv
<1>4. TypeOK'
  BY <1>1, <1>3 DEF PipelineInv, TypeOK
<1>5. \A j \in Key : /\ task'[j].claim # "prepare"
                     /\ task'[j].phase = task[j].phase
  BY <1>1 DEF Row
<1>6. PrepInv' /\ CtlInv'
  BY <1>1, <1>5, PrepKept, CtlKept DEF PipelineInv
<1> QED
  BY <1>3, <1>4, <1>6 DEF PipelineInv

-----------------------------------------------------------------------------
\* Theorems.

LEMMA NextPipeline == PipelineInv /\ [Next]_vars => PipelineInv'
<1> SUFFICES ASSUME PipelineInv, [Next]_vars PROVE PipelineInv'
  OBVIOUS
<1>1. CASE \E k \in Key : Feed(k) \/ PrepareClaim(k) \/ Expire(k)
  BY <1>1, PublishStep, BootstrapStep, IngestStep, MaintainStep, PrepareClaimStep, ExpireStep DEF Feed
<1>2. CASE Prepare
  BY <1>2, ReadyStep, PrepareRejectStep, PrepareFailStep, PrepareEndsStep DEF Prepare
<1>3. CASE Cycle
  BY <1>3, CycleIsSafe
<1>4. CASE Operator
  BY <1>4, OperatorStep DEF Operator
<1>5. CASE \E h \in Hash : Torrent(h)
  BY <1>5, TorrentStep
<1>6. CASE Crash \/ Recover
  BY <1>6, CrashStep, RecoverStep
<1>7. CASE UNCHANGED vars
  <2>1. /\ UNCHANGED <<upstream, sources, task, release, content, replay, qb, sent, prep, ctl, up>>
        /\ UNCHANGED <<operations, faults, permitted, stale>>
    BY <1>7 DEF vars, db, history
  <2>2. RowsInv' /\ task' \in [Key -> Row] /\ \A j \in Key : WellFormed(task'[j])
    BY <2>1, CalmRows
  <2>3. TypeOK'
    BY <2>1, <2>2 DEF PipelineInv, TypeOK
  <2>4. PrepInv' /\ CtlInv'
    BY <2>1, PrepKept, CtlKept, PipelineAssumption DEF PipelineInv, TypeOK
  <2> QED
    BY <2>2, <2>3, <2>4 DEF PipelineInv
<1> QED
  BY <1>1, <1>2, <1>3, <1>4, <1>5, <1>6, <1>7 DEF Next

\* The rows of all releases are what RowInv says, and what the two goroutines
\* have in hand matches them, for any number of releases, versions, crashes,
\* commands and lost requests.
THEOREM PipelineInvariant == Spec => []PipelineInv
<1>1. Init => PipelineInv
  BY InitPipeline
<1>2. PipelineInv /\ [Next]_vars => PipelineInv'
  BY NextPipeline
<1> QED
  BY <1>1, <1>2, PTL DEF Spec

\* Every table and every goroutine holds what it can hold, and every row fits
\* its phase.
THEOREM PipelineTypeOK == Spec => []TypeOK
<1>1. PipelineInv => TypeOK
  BY DEF PipelineInv
<1> QED
  BY <1>1, PipelineInvariant, PTL

\* A release that was ingested has a task or a receipt, and a task its source:
\* no correction, failed job, crash or command loses a release.
THEOREM NothingForgotten == Spec => []NoReleaseForgotten
<1>1. PipelineInv => NoReleaseForgotten
  BY DEF PipelineInv, RowsInv, RowInv, NoReleaseForgotten
<1> QED
  BY <1>1, PipelineInvariant, PTL

\* What is prepared, or waits to be, comes from the latest ingested source.
THEOREM LatestSourceIsPrepared == Spec => []PreparedFromLatestSource
<1>1. PipelineInv => PreparedFromLatestSource
  BY DEF PipelineInv, RowsInv, RowInv, PreparedFromLatestSource
<1> QED
  BY <1>1, PipelineInvariant, PTL

\* The resource that fences an active task is the torrent its payload names, but
\* for a row that was written over from an older one.
THEOREM ResourceIsContent == Spec => []ResourceNamesContent
<1>1. PipelineInv => ResourceNamesContent
  BY DEF PipelineInv, RowsInv, RowInv, ResourceNamesContent
<1> QED
  BY <1>1, PipelineInvariant, PTL

\* One source of a release leads to at most MaxAttempts requests, and one more
\* for each command, however often qB fails to show the torrent.
THEOREM RequestsAreBounded == Spec => []SubmissionsBounded
<1>1. PipelineInv => SubmissionsBounded
  BY DEF PipelineInv, RowsInv, RowInv, SubmissionsBounded
<1> QED
  BY <1>1, PipelineInvariant, PTL

-----------------------------------------------------------------------------
\* Torrents and their contents: what a step may make of the row of one release.

RowKept(r, s) ==
  s.phase = r.phase /\ s.torrent = r.torrent /\ s.hash = r.hash /\ s.observed = r.observed

\* A row without a torrent.
Bare(s) ==
  /\ s.phase \in {"none", "pending", "blocked"} /\ s.torrent = NoHash /\ s.hash = NoHash
  /\ s.observed = FALSE

RowSubmitted(r, s) ==
  /\ r.phase = "ready" /\ s.phase = "submitted"
  /\ s.torrent = r.torrent /\ s.hash = r.hash /\ s.observed = r.observed

RowRetried(k) ==
  /\ OperatorRetry(k) /\ task'[k].phase = Unblocked(task[k])
  /\ task'[k].torrent = task[k].torrent /\ task'[k].hash = task[k].hash
  /\ task'[k].observed = task[k].observed

RowReady(k) ==
  LET h == Resolve[k, prep.ver] IN
  /\ ~Duplicate(k, h) /\ h \in Hash /\ task[k].phase = "pending"
  /\ \A j \in Key : j # k => task'[j] = task[j]
  /\ task'[k].phase = "ready" /\ task'[k].torrent = h /\ task'[k].hash = h
  /\ task'[k].observed = FALSE
  /\ k \in permitted' \/ content[h] = "none"
  /\ content' = content

RowConfirmed(k, c) ==
  /\ Reconciling(c) /\ c.key = k /\ Confirmed(c) /\ task' # task
  /\ task'[k].phase = "tracking" /\ task'[k].torrent = task[k].torrent
  /\ task'[k].hash = c.row.hash /\ task'[k].observed = TRUE

RowRemoved(k, c) ==
  /\ Reconciling(c) /\ c.key = k /\ c.row.phase = "tracking" /\ task' # task
  /\ task'[k].phase = "blocked" /\ task'[k].torrent = task[k].torrent
  /\ task'[k].hash = task[k].hash /\ task'[k].observed = task[k].observed

RowStep(k) ==
  \/ RowKept(task[k], task'[k])
  \/ Bare(task'[k])
  \/ RowSubmitted(task[k], task'[k])
  \/ RowRetried(k)
  \/ RowReady(k)
  \/ \E c \in ctl.todo : RowConfirmed(k, c)
  \/ \E c \in ctl.todo : RowRemoved(k, c)

LEMMA FreshIsBare ==
  ASSUME NEW v, NEW rev
  PROVE  Bare(Fresh(v, rev)) /\ Bare(NoTask)
BY DEF Bare, Fresh, NoTask

\* A row that waits to be prepared has no torrent.
LEMMA PendingIsBare ==
  ASSUME PipelineInv, NEW k \in Key, task[k].phase \in {"none", "pending"}
  PROVE  Bare(task[k])
<1>1. RowInv(task[k], sources[k], release[k], k \notin stale, operations)
  BY DEF PipelineInv, RowsInv
<1> QED
  BY <1>1, FreshIsBare DEF RowInv, WellFormed, Bare, Row

LEMMA FeedRows ==
  ASSUME PipelineInv, NEW j \in Key, Feed(j) \/ PrepareClaim(j) \/ Expire(j), NEW k \in Key
  PROVE  RowStep(k)
<1>1. task \in [Key -> Row]
  BY DEF PipelineInv, TypeOK
<1>2. CASE task' = task
  BY <1>2 DEF RowStep, RowKept
<1>3. CASE PrepareClaim(j) \/ Expire(j)
  <2>1. PICK who : task' = [task EXCEPT ![j].claim = who]
    BY <1>3 DEF PrepareClaim, Expire, Claimed
  <2>2. RowKept(task[k], task'[k])
    BY <1>1, <2>1 DEF RowKept, Row
  <2> QED
    BY <2>2 DEF RowStep
<1>4. CASE Ingest(j) /\ task' # task
  <2>1. PICK v, rev : task' = [task EXCEPT ![j] = Fresh(v, rev)]
    BY <1>4 DEF Ingest, Corrected
  <2>2. RowKept(task[k], task'[k]) \/ Bare(task'[k])
    BY <1>1, <2>1, FreshIsBare DEF RowKept
  <2> QED
    BY <2>2 DEF RowStep
<1> QED
  BY <1>2, <1>3, <1>4 DEF Feed, Publish, Bootstrap, Maintain, db

LEMMA ReadyRows ==
  ASSUME PipelineInv, Ready, NEW k \in Key
  PROVE  RowStep(k)
<1> DEFINE j == prep.key
           h == Resolve[j, prep.ver]
<1>1. prep.pc = "work" /\ PrepareValid
  BY DEF Ready, Preparing
<1>2. /\ j \in Key /\ task[j].phase = "pending" /\ sources[j] \in 1..MaxVersion /\ prep.ver = sources[j]
      /\ task[j] \in Row
  BY <1>1, PreparedRow
<1>3. task \in [Key -> Row] /\ replay[j] \in BOOLEAN
  BY <1>2 DEF PipelineInv, TypeOK
<1>4. h \in Hash
  BY <1>2, PipelineAssumption DEF Version
<1>5. CASE Duplicate(j, h)
  <2>1. task' = [task EXCEPT ![j] = NoTask]
    BY <1>5 DEF Ready
  <2> QED
    BY <1>3, <2>1, FreshIsBare DEF RowStep, RowKept
<1>6. CASE ~Duplicate(j, h)
  <2> DEFINE r == [task[j] EXCEPT !.phase = "ready", !.torrent = h, !.hash = h, !.ver = prep.ver,
                                  !.rev = Next1(@), !.attempts = 0, !.claim = "free"]
  <2>1. /\ task' = [task EXCEPT ![j] = r] /\ content' = content
        /\ permitted' = IF replay[j] THEN permitted \cup {j} ELSE permitted \ {j}
    BY <1>6 DEF Ready
  <2>2. CASE k # j
    <3>1. task'[k] = task[k]
      BY <1>3, <2>1, <2>2
    <3> QED
      BY <3>1 DEF RowStep, RowKept
  <2>3. CASE k = j
    <3>1. task[j].observed = FALSE
      BY <1>2, PendingIsBare DEF Bare
    <3>2. task'[j] = r
      BY <1>2, <1>3, <2>1
    <3>3. r.phase = "ready" /\ r.torrent = h /\ r.hash = h /\ r.observed = FALSE
      BY <1>2, <3>1 DEF Row
    <3>4. j \in permitted' \/ content[h] = "none"
      BY <1>6, <2>1 DEF Duplicate
    <3>5. \A i \in Key : i # j => task'[i] = task[i]
      BY <1>3, <2>1
    <3> HIDE DEF r
    <3>6. RowReady(j)
      BY <1>2, <1>4, <1>6, <2>1, <3>2, <3>3, <3>4, <3>5 DEF RowReady
    <3> QED
      BY <2>3, <3>6 DEF RowStep
  <2> QED
    BY <2>2, <2>3
<1> QED
  BY <1>5, <1>6

LEMMA PrepareRows ==
  ASSUME PipelineInv, Prepare, NEW k \in Key
  PROVE  RowStep(k)
<1>1. task \in [Key -> Row]
  BY DEF PipelineInv, TypeOK
<1>2. CASE PrepareStale \/ PrepareLost
  BY <1>2 DEF PrepareStale, PrepareLost, db, RowStep, RowKept
<1>3. CASE PrepareReject
  BY <1>1, <1>3, FreshIsBare DEF PrepareReject, RowStep, RowKept
<1>4. CASE PrepareFail
  <2>1. prep.pc = "work" /\ PrepareValid
    BY <1>4 DEF PrepareFail, Preparing
  <2>2. prep.key \in Key /\ task[prep.key].phase = "pending" /\ task[prep.key] \in Row
    BY <2>1, PreparedRow
  <2>3. Bare(task[prep.key])
    BY <2>2, PendingIsBare
  <2> DEFINE spent == task[prep.key].attempts + 1
             r == [task[prep.key] EXCEPT !.attempts = spent, !.claim = "free",
                                         !.phase = IF spent >= MaxAttempts THEN "blocked" ELSE @]
  <2>4. task' = [task EXCEPT ![prep.key] = r]
    BY <1>4 DEF PrepareFail
  <2> HIDE DEF spent
  <2>5. Bare(r)
    BY <2>2, <2>3 DEF Bare, Row
  <2> HIDE DEF r
  <2>6. RowKept(task[k], task'[k]) \/ Bare(task'[k])
    BY <1>1, <2>4, <2>5 DEF RowKept
  <2> QED
    BY <2>6 DEF RowStep
<1> QED
  BY <1>2, <1>3, <1>4, ReadyRows DEF Prepare

\* The branches of ReconcileDownload that write the row.
LEMMA ReconcileRows ==
  ASSUME PipelineInv, NEW c \in ctl.todo, ReconcileDownload(c), NEW k \in Key
  PROVE  RowStep(k)
<1> DEFINE i == c.key
           live == task[i].phase # "none" /\ Unchanged(c)
           confirmed == live /\ Shown(c)
           unconfirmed == live /\ ~Shown(c) /\ Overdue(c)
           removed == live /\ ~Shown(c) /\ c.row.phase = "tracking"
           fails == task[i].phase = "none" \/ (unconfirmed /\ sources[i] = 0)
<1>1. task \in [Key -> Row]
  BY DEF PipelineInv, TypeOK
<1>2. CASE task' = task
  BY <1>2 DEF RowStep, RowKept
<1>3. CASE k # i /\ task' # task
  <2>1. task'[k] = task[k]
    BY <1>1, <1>3 DEF ReconcileDownload, Confirmed, Unconfirmed
  <2> QED
    BY <2>1 DEF RowStep, RowKept
<1>4. ASSUME live, ~fails
      PROVE  Reconciling(c)
  BY <1>4 DEF Reconciling, ReconcileDownload
<1>5. CASE k = i /\ task' # task /\ confirmed /\ Confirmed(c)
  <2>1. Reconciling(c)
    BY <1>4, <1>5
  <2>2. CASE ctl.snap[c.row.hash] = "complete"
    <3>1. task'[k] = NoTask
      BY <1>1, <1>5, <2>2 DEF Confirmed
    <3> QED
      BY <3>1, FreshIsBare DEF RowStep
  <2>3. CASE ctl.snap[c.row.hash] # "complete"
    <3> DEFINE r == Tracked(task[k], c.row.ver, c.row.hash, c.row.subs)
    <3>1. task'[k] = r
      BY <1>1, <1>5, <2>3 DEF Confirmed, Tracked
    <3>2. /\ r.phase = "tracking" /\ r.torrent = task[k].torrent /\ r.hash = c.row.hash
          /\ r.observed = TRUE
      BY <1>1 DEF Tracked, Row
    <3> HIDE DEF r
    <3>3. RowConfirmed(k, c)
      BY <1>5, <2>1, <3>1, <3>2 DEF RowConfirmed
    <3> QED
      BY <3>3 DEF RowStep
  <2> QED
    BY <2>2, <2>3
<1>6. CASE k = i /\ Unconfirmed(c)
  <2> DEFINE r == Returned(task[k], sources[k], c.row.subs)
  <2>1. task'[k] = r
    BY <1>1, <1>6 DEF Unconfirmed, Returned
  <2>2. Bare(r)
    BY <1>1 DEF Bare, Returned, ReturnPhase, Row
  <2> QED
    BY <2>1, <2>2 DEF RowStep
<1>7. CASE k = i /\ task' # task /\ removed /\ task' = [task EXCEPT ![i].phase = "blocked"]
  <2>1. Reconciling(c)
    BY <1>4, <1>7 DEF Overdue
  <2>2. task'[k] = [task[k] EXCEPT !.phase = "blocked"] /\ task[k] \in Row
    BY <1>1, <1>7
  <2>3. RowRemoved(k, c)
    BY <1>7, <2>1, <2>2 DEF RowRemoved, Row
  <2> QED
    BY <2>3 DEF RowStep
<1> QED
  BY <1>2, <1>3, <1>5, <1>6, <1>7 DEF ReconcileDownload

LEMMA CycleRows ==
  ASSUME PipelineInv, Cycle, NEW k \in Key
  PROVE  RowStep(k)
<1>1. task \in [Key -> Row]
  BY DEF PipelineInv, TypeOK
<1>2. CASE task' = task
  BY <1>2 DEF RowStep, RowKept
<1>3. ASSUME NEW j \in Key, AdmitClaim(j)
      PROVE  RowStep(k)
  <2>1. RowKept(task[k], task'[k])
    BY <1>1, <1>3 DEF AdmitClaim, Claimed, RowKept, Row
  <2> QED
    BY <2>1 DEF RowStep
<1>4. CASE AdmitReject
  BY <1>1, <1>4, FreshIsBare DEF AdmitReject, RowStep, RowKept
<1>5. CASE AdmitPresent
  <2>1. RowKept(task[k], task'[k])
    BY <1>1, <1>5 DEF AdmitPresent, RowKept, Row
  <2> QED
    BY <2>1 DEF RowStep
<1>6. CASE Submitting
  <2> DEFINE i == ctl.key
             r == [task[i] EXCEPT !.phase = "submitted", !.rev = Next1(@), !.subs = @ + 1,
                                  !.attempts = @ + 1, !.claim = "free"]
  <2>1. task[i].phase = "ready" /\ task[i] \in Row
    BY <1>6, DecidedRow DEF Submitting
  <2>2. task' = [task EXCEPT ![i] = r]
    BY <1>6 DEF Submitting
  <2>3. RowSubmitted(task[i], r)
    BY <2>1 DEF RowSubmitted, Row
  <2> HIDE DEF r
  <2>4. RowKept(task[k], task'[k]) \/ RowSubmitted(task[k], task'[k])
    BY <1>1, <2>2, <2>3 DEF RowKept
  <2> QED
    BY <2>4 DEF RowStep
<1>7. ASSUME NEW j \in Key,
             NEW c \in {x \in (IF ctl.pc = "reconcile" THEN ctl.todo ELSE {}) : x.key = j},
             ReconcileDownload(c)
      PROVE  RowStep(k)
  <2>1. c \in ctl.todo
    BY <1>7
  <2> QED
    BY <1>7, <2>1, ReconcileRows
<1>8. CASE \/ \E managed \in SUBSET Present(qb), old \in SUBSET Elapsed : BeginCycle(managed, old)
           \/ ReadDownloads \/ StartAdmitting \/ AdmitStale \/ Add \/ EndCycle \/ CutCycle
  <2>1. task' = task
    BY <1>8 DEF BeginCycle, ReadDownloads, StartAdmitting, AdmitStale, Add, EndCycle, CutCycle, db
  <2> QED
    BY <1>2, <2>1
<1> QED
  BY <1>3, <1>4, <1>5, <1>6, <1>7, <1>8 DEF Cycle

LEMMA OperatorRows ==
  ASSUME PipelineInv, Operator, NEW k \in Key
  PROVE  RowStep(k)
<1>1. task \in [Key -> Row]
  BY DEF PipelineInv, TypeOK
<1>2. PICK j \in Key : OperatorRetry(j) \/ OperatorCancel(j) \/ OperatorReplay(j)
  BY DEF Operator
<1>3. CASE OperatorCancel(j) \/ OperatorReplay(j)
  <2>1. RowKept(task[k], task'[k]) \/ Bare(task'[k])
    BY <1>1, <1>3, FreshIsBare DEF OperatorCancel, OperatorReplay, RowKept
  <2> QED
    BY <2>1 DEF RowStep
<1>4. CASE OperatorRetry(j)
  <2> DEFINE phase == Unblocked(task[j])
             r == [task[j] EXCEPT !.rev = Next1(@), !.attempts = 0, !.phase = phase]
  <2>1. task' = [task EXCEPT ![j] = r]
    BY <1>4 DEF OperatorRetry, Unblocked
  <2>2. CASE k # j
    <3>1. task'[k] = task[k]
      BY <1>1, <2>1, <2>2
    <3> QED
      BY <3>1 DEF RowStep, RowKept
  <2>3. CASE k = j
    <3>1. task'[k] = r
      BY <1>1, <2>1, <2>3
    <3>2. /\ r.phase = phase /\ r.torrent = task[k].torrent /\ r.hash = task[k].hash
          /\ r.observed = task[k].observed
      BY <1>1, <2>3 DEF Row
    <3> HIDE DEF r
    <3>3. RowRetried(k)
      BY <1>4, <2>3, <3>1, <3>2 DEF RowRetried
    <3> QED
      BY <3>3 DEF RowStep
  <2> QED
    BY <2>2, <2>3
<1> QED
  BY <1>2, <1>3, <1>4

LEMMA NextRows ==
  ASSUME PipelineInv, [Next]_vars, NEW k \in Key
  PROVE  RowStep(k)
<1>1. CASE task' = task
  BY <1>1 DEF RowStep, RowKept
<1>2. CASE \E h \in Hash : Torrent(h)
  <2>1. task' = task
    BY <1>2 DEF Torrent, Land, Lose, Download, ByHand, QBUnchanged, db
  <2> QED
    BY <1>1, <2>1
<1>3. CASE Crash \/ UNCHANGED vars
  <2>1. task' = task
    BY <1>3 DEF Crash, vars, db
  <2> QED
    BY <1>1, <2>1
<1>4. CASE Recover
  <2>1. task' = [j \in Key |-> [task[j] EXCEPT !.claim = "free"]] /\ task \in [Key -> Row]
    BY <1>4 DEF Recover, PipelineInv, TypeOK
  <2>2. RowKept(task[k], task'[k])
    BY <2>1 DEF RowKept, Row
  <2> QED
    BY <2>2 DEF RowStep
<1> QED
  BY <1>2, <1>3, <1>4, FeedRows, PrepareRows, CycleRows, OperatorRows DEF Next
-----------------------------------------------------------------------------
\* One pursuer of each torrent.

\* The rows to reconcile: read now, or read before and not yet dealt with.
LEMMA TodoShrinks ==
  ASSUME PipelineInv, [Next]_vars, ctl'.pc = "reconcile"
  PROVE  \/ ReadDownloads
         \/ /\ ctl.pc = "reconcile" /\ ctl'.todo \subseteq ctl.todo
            /\ \A c \in ctl.todo : Reconciling(c) => c \notin ctl'.todo
<1> DEFINE Shrinks == /\ ctl.pc = "reconcile" /\ ctl'.todo \subseteq ctl.todo
                      /\ \A c \in ctl.todo : Reconciling(c) => c \notin ctl'.todo
<1>1. CASE ctl' = ctl
  BY <1>1 DEF Reconciling, PipelineInv, CtlInv
<1>2. CASE Prepare
  BY <1>1, <1>2 DEF Prepare, Ready, PrepareReject, PrepareFail, PrepareStale, PrepareLost, Preparing
<1>3. CASE Operator
  BY <1>1, <1>3 DEF Operator, OperatorRetry, OperatorCancel, OperatorReplay, Operating
<1>4. CASE \E k \in Key : Feed(k) \/ PrepareClaim(k) \/ Expire(k)
  BY <1>1, <1>4 DEF Feed, Publish, Bootstrap, Ingest, Maintain, PrepareClaim, Expire
<1>5. CASE \E h \in Hash : Torrent(h)
  BY <1>1, <1>5 DEF Torrent, Land, Lose, Download, ByHand, QBUnchanged
<1>6. CASE Crash \/ Recover \/ UNCHANGED vars
  BY <1>1, <1>6 DEF Crash, Recover, vars, Idle
<1>7. CASE Cycle
  <2>1. ASSUME NEW c \in ctl.todo, ReconcileDownload(c)
        PROVE  Shrinks
    <3>1. ctl = [pc |-> "reconcile", snap |-> ctl.snap, old |-> ctl.old, todo |-> ctl.todo]
      BY <2>1 DEF ReconcileDownload, PipelineInv, CtlInv
    <3>2. ctl.pc = "reconcile" /\ ctl' = [ctl EXCEPT !.todo = @ \ {c}]
      BY <2>1 DEF ReconcileDownload, Idle
    <3>3. ctl' = [ctl EXCEPT !.todo = ctl.todo \ {c}]
      BY <3>1, <3>2
    <3>4. ctl'.todo = ctl.todo \ {c}
      BY <3>1, <3>3
    <3>5. ASSUME NEW d \in ctl.todo, Reconciling(d)
          PROVE  d \notin ctl'.todo
      <4>1. ctl' = [ctl EXCEPT !.todo = @ \ {d}]
        BY <3>5 DEF Reconciling
      <4>2. ctl'.todo = ctl.todo \ {d}
        BY <3>1, <4>1
      <4> QED
        BY <4>2
    <3> QED
      BY <3>2, <3>4, <3>5
  <2>2. ASSUME NEW k \in Key,
               NEW c \in {x \in (IF ctl.pc = "reconcile" THEN ctl.todo ELSE {}) : x.key = k},
               ReconcileDownload(c)
        PROVE  Shrinks
    <3>1. c \in ctl.todo
      BY <2>2
    <3> QED
      BY <2>1, <2>2, <3>1
  <2>3. CASE \/ \E managed \in SUBSET Present(qb), old \in SUBSET Elapsed : BeginCycle(managed, old)
             \/ StartAdmitting \/ \E k \in Key : AdmitClaim(k)
             \/ AdmitReject \/ AdmitPresent \/ Submitting \/ AdmitStale \/ Add \/ EndCycle \/ CutCycle
    BY <2>3 DEF BeginCycle, StartAdmitting, AdmitClaim, AdmitReject, AdmitPresent, Submitting,
                AdmitStale, Add, EndCycle, CutCycle, ToAdmit, Idle
  <2> QED
    BY <1>7, <2>2, <2>3 DEF Cycle
<1> QED
  BY <1>2, <1>3, <1>4, <1>5, <1>6, <1>7 DEF Next

\* A row that is blocked since it was read has no torrent: reconciling it does
\* not make its release a pursuer again.
BlockedSinceRead ==
  ctl.pc = "reconcile" =>
    \A c \in ctl.todo : task[c.key].phase = "blocked" => task[c.key].hash = NoHash

PursuitInv == PipelineInv /\ BlockedSinceRead

LEMMA NextPursuit == PursuitInv /\ [Next]_vars => PursuitInv'
<1> SUFFICES ASSUME PursuitInv, [Next]_vars PROVE PursuitInv'
  OBVIOUS
<1>1. PipelineInv /\ PipelineInv'
  BY NextPipeline DEF PursuitInv
<1>2. ASSUME ctl'.pc = "reconcile", NEW c \in ctl'.todo, task'[c.key].phase = "blocked"
      PROVE  task'[c.key].hash = NoHash
  <2>1. CASE ReadDownloads
    <3>1. /\ task' = task
          /\ ctl'.todo = {[key |-> k, row |-> task[k]] : k \in {j \in Key : task[j].phase \in Active}}
      BY <2>1 DEF ReadDownloads, db
    <3>2. task[c.key].phase \in Active
      BY <1>2, <3>1
    <3> QED
      BY <1>2, <3>1, <3>2 DEF Active
  <2>2. CASE /\ ctl.pc = "reconcile" /\ ctl'.todo \subseteq ctl.todo
             /\ \A d \in ctl.todo : Reconciling(d) => d \notin ctl'.todo
    <3>1. c \in ctl.todo /\ c.key \in Key /\ \A d \in ctl.todo : d.key = c.key => d = c
      BY <1>1, <1>2, <2>2 DEF PipelineInv, CtlInv, ReadRow
    <3>2. task[c.key].phase = "blocked" => task[c.key].hash = NoHash
      BY <2>2, <3>1 DEF PursuitInv, BlockedSinceRead
    <3>3. RowStep(c.key)
      BY <1>1, <3>1, NextRows
    <3>4. \A d \in ctl.todo : ~RowRemoved(c.key, d)
      BY <1>2, <2>2, <3>1 DEF RowRemoved
    <3>5. ~RowRetried(c.key)
      BY <1>2 DEF RowRetried, Unblocked
    <3> QED
      BY <1>2, <3>2, <3>3, <3>4, <3>5
      DEF RowStep, RowKept, Bare, RowSubmitted, RowReady, RowConfirmed
  <2> QED
    BY <1>1, <1>2, <2>1, <2>2, TodoShrinks
<1>3. BlockedSinceRead'
  BY <1>2 DEF BlockedSinceRead
<1> QED
  BY <1>1, <1>3 DEF PursuitInv

\* How a release comes to pursue a torrent: its own row is unblocked, or it is
\* prepared while no other release pursues it.
LEMMA NewPursuer ==
  ASSUME PursuitInv, [Next]_vars, NEW h \in Hash, NEW k \in Pursuers(h)', k \notin Pursuers(h)
  PROVE  \/ RowRetried(k) /\ task[k].phase = "blocked" /\ task[k].torrent = h
         \/ \A j \in Pursuers(h)' : j = k
<1>1. k \in Key /\ task'[k].phase \in Active /\ task'[k].torrent = h /\ h # NoHash
  BY PipelineAssumption DEF Pursuers
<1>2. task[k].phase \notin Active \/ task[k].torrent # h
  BY <1>1 DEF Pursuers
<1>3. RowInv(task[k], sources[k], release[k], k \notin stale, operations) /\ task[k] \in Row
  BY <1>1 DEF PursuitInv, PipelineInv, RowsInv, RowInv
<1>4. RowStep(k)
  BY <1>1, NextRows DEF PursuitInv
<1>5. ~RowKept(task[k], task'[k]) /\ ~Bare(task'[k]) /\ ~RowSubmitted(task[k], task'[k])
  BY <1>1, <1>2 DEF RowKept, Bare, RowSubmitted, Active
<1>6. CASE RowRetried(k)
  <2>1. task[k].phase = "blocked"
    BY <1>1, <1>2, <1>6 DEF RowRetried, Unblocked
  <2> QED
    BY <1>1, <1>6, <2>1 DEF RowRetried
<1>7. CASE RowReady(k)
  <2>1. Resolve[k, prep.ver] = h
    BY <1>1, <1>7 DEF RowReady
  <2>2. ASSUME NEW j \in Pursuers(h)', j # k
        PROVE  FALSE
    <3>1. j \in Key /\ task'[j].phase \in Active /\ task'[j].torrent = h /\ task'[j] = task[j]
      BY <1>7, <2>2 DEF Pursuers, RowReady
    <3> QED
      BY <1>7, <2>1, <2>2, <3>1 DEF RowReady, Duplicate
  <2> QED
    BY <2>2
<1>8. ASSUME NEW c \in ctl.todo, RowConfirmed(k, c) \/ RowRemoved(k, c)
      PROVE  FALSE
  <2>1. /\ ctl.pc = "reconcile" /\ c.key = k /\ task[k].phase # "none"
        /\ task'[k].torrent = task[k].torrent
    BY <1>8 DEF RowConfirmed, RowRemoved, Reconciling
  <2>2. task[k].phase \in {"pending", "blocked"}
    BY <1>1, <1>2, <1>3, <2>1 DEF Row, Phase, Active
  <2>3. task[k].hash = NoHash
    BY <1>3, <2>1, <2>2 DEF PursuitInv, BlockedSinceRead, RowInv, WellFormed
  <2> QED
    BY <1>1, <1>3, <2>1, <2>3 DEF RowInv
<1> QED
  BY <1>4, <1>5, <1>6, <1>7, <1>8 DEF RowStep

LEMMA PursuitInvariant == Spec => []PursuitInv
<1>1. Init => PursuitInv
  BY InitPipeline DEF PursuitInv, BlockedSinceRead, Init, Idle
<1> QED
  BY <1>1, NextPursuit, PTL DEF Spec

\* Two releases come to pursue one torrent only by a command, in the presence of
\* any number of corrections, retries, crashes and old rows written back.
THEOREM OnePursuer == Spec => OnePursuerPerTorrent
<1>1. ASSUME PursuitInv, [Next]_vars
      PROVE  [\A h \in Hash :
                (\E j, k \in Pursuers(h)' : j # k) =>
                   \/ \E j, k \in Pursuers(h) : j # k
                   \/ \E k \in Key : OperatorRetry(k)]_vars
  <2>1. ASSUME NEW h \in Hash, NEW j \in Pursuers(h)', NEW k \in Pursuers(h)', j # k
        PROVE  \/ \E i, l \in Pursuers(h) : i # l
               \/ \E l \in Key : OperatorRetry(l)
    <3>1. j \in Key /\ k \in Key
      BY DEF Pursuers
    <3>2. CASE j \in Pursuers(h) /\ k \in Pursuers(h)
      BY <2>1, <3>2
    <3>3. CASE j \notin Pursuers(h)
      BY <1>1, <2>1, <3>1, <3>3, NewPursuer DEF RowRetried
    <3>4. CASE k \notin Pursuers(h)
      BY <1>1, <2>1, <3>1, <3>4, NewPursuer DEF RowRetried
    <3> QED
      BY <3>2, <3>3, <3>4
  <2> QED
    BY <2>1
<1> QED
  BY <1>1, PursuitInvariant, PTL DEF Spec, OnePursuerPerTorrent
-----------------------------------------------------------------------------
\* Content that was confirmed is not requested again.

Known == {"admitted", "completed"}

\* What is tracked is known to be there, in the rows and in what was read of
\* them, and a decision is on the torrent of the claimed row.
KnownContent ==
  /\ \A k \in Key : task[k].observed => content[task[k].hash] \in Known
  /\ ctl.pc = "reconcile" =>
       \A c \in ctl.todo : c.row.phase = "tracking" => content[c.row.hash] \in Known
  /\ ctl.pc = "decide" /\ task[ctl.key].claim = "control" => task[ctl.key].hash = ctl.hash

\* While no old row is written over a newer one: what is prepared is not known
\* yet, or was asked for again; a row is blocked without its torrent, or because
\* that was removed; and a torrent with two pursuers is known.
NewContent ==
  /\ \A k \in Key : task[k].phase = "ready" => content[task[k].hash] \notin Known \/ k \in permitted
  /\ \A k \in Key : task[k].phase = "blocked" /\ task[k].hash # NoHash => task[k].observed
  /\ \A h \in Hash : content[h] \notin Known => \A j, k \in Pursuers(h) : j = k

ContentInv == PursuitInv /\ KnownContent /\ (stale = {} => NewContent)

\* Known content stays known.
LEMMA ContentMonotone ==
  ASSUME PipelineInv, [Next]_vars, NEW h \in Hash, content[h] \in Known
  PROVE  content'[h] \in Known
<1>1. content \in [Hash -> Seen]
  BY DEF PipelineInv, TypeOK
<1>2. CASE content' = content
  BY <1>2
<1>3. ASSUME NEW managed \in SUBSET Present(qb), NEW old \in SUBSET Elapsed, BeginCycle(managed, old)
      PROVE  content'[h] \in Known
  BY <1>3 DEF BeginCycle, Known
<1>4. ASSUME NEW c, Confirmed(c)
      PROVE  content'[h] \in Known
  BY <1>1, <1>4 DEF Confirmed, Known
<1>5. CASE Cycle
  <2>1. ASSUME NEW c, ReconcileDownload(c)
        PROVE  content'[h] \in Known
    BY <1>2, <1>4, <2>1 DEF ReconcileDownload
  <2>2. CASE \/ ReadDownloads \/ StartAdmitting \/ \E k \in Key : AdmitClaim(k)
             \/ AdmitReject \/ AdmitPresent \/ Submitting \/ AdmitStale \/ Add \/ EndCycle \/ CutCycle
    BY <1>2, <2>2 DEF ReadDownloads, StartAdmitting, AdmitClaim, AdmitReject, AdmitPresent, Submitting,
                      AdmitStale, Add, EndCycle, CutCycle, db
  <2> QED
    BY <1>3, <1>5, <2>1, <2>2 DEF Cycle
<1>6. CASE Prepare
  BY <1>2, <1>6 DEF Prepare, Ready, PrepareReject, PrepareFail, PrepareStale, PrepareLost, db
<1>7. CASE Operator
  BY <1>2, <1>7 DEF Operator, OperatorRetry, OperatorCancel, OperatorReplay, Operating
<1>8. CASE \E k \in Key : Feed(k) \/ PrepareClaim(k) \/ Expire(k)
  BY <1>2, <1>8 DEF Feed, Publish, Bootstrap, Ingest, Maintain, PrepareClaim, Expire, db
<1>9. CASE \E i \in Hash : Torrent(i)
  BY <1>2, <1>9 DEF Torrent, Land, Lose, Download, ByHand, QBUnchanged, db
<1>10. CASE Crash \/ Recover \/ UNCHANGED vars
  BY <1>2, <1>10 DEF Crash, Recover, vars, db
<1> QED
  BY <1>5, <1>6, <1>7, <1>8, <1>9, <1>10 DEF Next

\* Content becomes known when a download is confirmed.
LEMMA ContentLearned ==
  ASSUME PipelineInv, [Next]_vars, NEW h \in Hash, content[h] \notin Known, content'[h] \in Known
  PROVE  \E c \in ctl.todo : /\ Reconciling(c) /\ Confirmed(c) /\ c.row.hash = h
                             /\ UNCHANGED permitted
<1>1. content \in [Hash -> Seen]
  BY DEF PipelineInv, TypeOK
<1>2. content' # content
  OBVIOUS
<1>3. ASSUME NEW managed \in SUBSET Present(qb), NEW old \in SUBSET Elapsed, BeginCycle(managed, old)
      PROVE  FALSE
  BY <1>3 DEF BeginCycle, Known
<1>4. ASSUME NEW c \in ctl.todo, ReconcileDownload(c)
      PROVE  Reconciling(c) /\ Confirmed(c) /\ c.row.hash = h /\ UNCHANGED permitted
  <2>1. Confirmed(c) /\ task[c.key].phase # "none" /\ Unchanged(c) /\ Shown(c)
    BY <1>2, <1>4 DEF ReconcileDownload
  <2>2. Reconciling(c) /\ UNCHANGED permitted
    BY <1>4, <2>1 DEF ReconcileDownload, Reconciling
  <2>3. c.row.hash = h
    BY <1>1, <2>1 DEF Confirmed
  <2> QED
    BY <2>1, <2>2, <2>3
<1>5. ASSUME Cycle
      PROVE  \E c \in ctl.todo : ReconcileDownload(c)
  <2>1. ~ \/ ReadDownloads \/ StartAdmitting \/ \E k \in Key : AdmitClaim(k)
          \/ AdmitReject \/ AdmitPresent \/ Submitting \/ AdmitStale \/ Add \/ EndCycle \/ CutCycle
    BY <1>2 DEF ReadDownloads, StartAdmitting, AdmitClaim, AdmitReject, AdmitPresent, Submitting,
                AdmitStale, Add, EndCycle, CutCycle, db
  <2>2. PICK k \in Key :
          \E c \in {x \in (IF ctl.pc = "reconcile" THEN ctl.todo ELSE {}) : x.key = k} :
            ReconcileDownload(c)
    BY <1>3, <1>5, <2>1 DEF Cycle
  <2> QED
    BY <2>2
<1>6. Cycle
  <2>1. ~Prepare
    BY <1>2 DEF Prepare, Ready, PrepareReject, PrepareFail, PrepareStale, PrepareLost, db
  <2>2. ~Operator
    BY <1>2 DEF Operator, OperatorRetry, OperatorCancel, OperatorReplay, Operating
  <2>3. ~ \E k \in Key : Feed(k) \/ PrepareClaim(k) \/ Expire(k)
    BY <1>2 DEF Feed, Publish, Bootstrap, Ingest, Maintain, PrepareClaim, Expire, db
  <2>4. ~ \E i \in Hash : Torrent(i)
    BY <1>2 DEF Torrent, Land, Lose, Download, ByHand, QBUnchanged, db
  <2>5. ~(Crash \/ Recover \/ UNCHANGED vars)
    BY <1>2 DEF Crash, Recover, vars, db
  <2> QED
    BY <2>1, <2>2, <2>3, <2>4, <2>5 DEF Next
<1> QED
  BY <1>4, <1>5, <1>6

\* A permission is used, or lapses, when its release is prepared.
LEMMA PermissionsKept ==
  ASSUME PipelineInv, [Next]_vars, NEW k \in permitted, task[k].phase = "ready", k \in Key
  PROVE  k \in permitted'
<1>1. CASE permitted' = permitted
  BY <1>1
<1>2. CASE Ready
  <2>1. task[prep.key].phase = "pending"
    BY <1>2, PreparedRow DEF Ready, Preparing
  <2> QED
    BY <1>2, <2>1 DEF Ready
<1>3. CASE PrepareReject \/ PrepareFail \/ PrepareStale \/ PrepareLost
  BY <1>1, <1>3 DEF PrepareReject, PrepareFail, PrepareStale, PrepareLost, history
<1>4. CASE Cycle
  BY <1>1, <1>4 DEF Cycle, BeginCycle, ReconcileDownload, ReadDownloads, StartAdmitting, AdmitClaim,
                    AdmitReject, AdmitPresent, Submitting, AdmitStale, Add, EndCycle, CutCycle, history
<1>5. CASE Operator
  BY <1>1, <1>5 DEF Operator, OperatorRetry, OperatorCancel, OperatorReplay, Operating, history
<1>6. CASE \E j \in Key : Feed(j) \/ PrepareClaim(j) \/ Expire(j)
  BY <1>1, <1>6 DEF Feed, Publish, Bootstrap, Ingest, Maintain, PrepareClaim, Expire, history
<1>7. CASE \E i \in Hash : Torrent(i)
  BY <1>1, <1>7 DEF Torrent, Land, Lose, Download, ByHand, QBUnchanged
<1>8. CASE Crash \/ Recover \/ UNCHANGED vars
  BY <1>1, <1>8 DEF Crash, Recover, vars, history
<1> QED
  BY <1>2, <1>3, <1>4, <1>5, <1>6, <1>7, <1>8 DEF Next, Prepare

\* A row was written over once is for ever.
LEMMA StaleStays ==
  ASSUME [Next]_vars
  PROVE  stale \subseteq stale'
<1>1. CASE stale' = stale
  BY <1>1
<1>2. CASE Prepare
  BY <1>1, <1>2 DEF Prepare, Ready, PrepareReject, PrepareFail, PrepareStale, PrepareLost, history
<1>3. ASSUME NEW c, ReconcileDownload(c)
      PROVE  stale \subseteq stale'
  BY <1>3 DEF ReconcileDownload
<1>4. CASE Cycle
  BY <1>1, <1>3, <1>4 DEF Cycle, BeginCycle, ReadDownloads, StartAdmitting, AdmitClaim,
                    AdmitReject, AdmitPresent, Submitting, AdmitStale, Add, EndCycle, CutCycle, history
<1>5. CASE Operator
  BY <1>1, <1>5 DEF Operator, OperatorRetry, OperatorCancel, OperatorReplay, Operating, history
<1>6. CASE \E j \in Key : Feed(j) \/ PrepareClaim(j) \/ Expire(j)
  BY <1>1, <1>6 DEF Feed, Publish, Bootstrap, Ingest, Maintain, PrepareClaim, Expire, history
<1>7. CASE \E i \in Hash : Torrent(i)
  BY <1>1, <1>7 DEF Torrent, Land, Lose, Download, ByHand, QBUnchanged
<1>8. CASE Crash \/ Recover \/ UNCHANGED vars
  BY <1>1, <1>8 DEF Crash, Recover, vars, history
<1> QED
  BY <1>2, <1>4, <1>5, <1>6, <1>7, <1>8 DEF Next

LEMMA Unclaimed == NoTask.claim = "free" /\ \A v, rev : Fresh(v, rev).claim = "free"
BY DEF NoTask, Fresh

\* While a decision is open nobody touches the row that is claimed for it.
LEMMA DecisionKept ==
  ASSUME PipelineInv, [Next]_vars, ctl'.pc = "decide"
  PROVE  \/ \E k \in Key : AdmitClaim(k)
         \/ ctl' = ctl /\ \A k \in Key : task'[k].claim = "control" => task'[k] = task[k]
<1>1. task \in [Key -> Row]
  BY DEF PipelineInv, TypeOK
<1> DEFINE Held == \A k \in Key : task'[k].claim = "control" => task'[k] = task[k]
<1>2. CASE Prepare
  <2>1. ctl' = ctl /\ prep.pc = "work"
    BY <1>2 DEF Prepare, Ready, PrepareReject, PrepareFail, PrepareStale, PrepareLost, Preparing
  <2>2. CASE task' = task
    BY <2>1, <2>2
  <2>3. CASE Ready \/ PrepareReject \/ PrepareFail
    <3>1. PrepareValid
      BY <2>3 DEF Ready, PrepareReject, PrepareFail
    <3>2. prep.key \in Key /\ task[prep.key] \in Row
      BY <2>1, <3>1, PreparedRow
    <3>3. PICK r : task' = [task EXCEPT ![prep.key] = r] /\ r.claim = "free"
      <4>1. NoTask.claim = "free"
        BY DEF NoTask
      <4>2. CASE PrepareReject
        BY <4>1, <4>2 DEF PrepareReject
      <4>3. CASE PrepareFail
        <5> DEFINE spent == task[prep.key].attempts + 1
                   r == [task[prep.key] EXCEPT !.attempts = spent, !.claim = "free",
                           !.phase = IF spent >= MaxAttempts THEN "blocked" ELSE @]
        <5>1. task' = [task EXCEPT ![prep.key] = r]
          BY <4>3 DEF PrepareFail
        <5>2. r.claim = "free"
          BY <3>2 DEF Row
        <5> HIDE DEF r
        <5> QED
          BY <5>1, <5>2
      <4>4. CASE Ready
        <5> DEFINE h == Resolve[prep.key, prep.ver]
                   r == [task[prep.key] EXCEPT !.phase = "ready", !.torrent = h, !.hash = h,
                           !.ver = prep.ver, !.rev = Next1(@), !.attempts = 0, !.claim = "free"]
        <5>1. task' = [task EXCEPT ![prep.key] = NoTask] \/ task' = [task EXCEPT ![prep.key] = r]
          BY <4>4 DEF Ready
        <5>2. r.claim = "free"
          BY <3>2 DEF Row
        <5> HIDE DEF r
        <5> QED
          BY <4>1, <5>1, <5>2
      <4> QED
        BY <2>3, <4>2, <4>3, <4>4
    <3> QED
      BY <1>1, <2>1, <3>3
  <2> QED
    BY <1>2, <2>2, <2>3 DEF Prepare, PrepareStale, PrepareLost, db
<1>3. CASE Operator
  <2>1. ctl' = ctl
    BY <1>3 DEF Operator, OperatorRetry, OperatorCancel, OperatorReplay, Operating
  <2>2. Held
    <3>1. PICK k \in Key : OperatorRetry(k) \/ OperatorCancel(k) \/ OperatorReplay(k)
      BY <1>3 DEF Operator
    <3>2. CASE OperatorRetry(k)
      <4> DEFINE phase == Unblocked(task[k])
                 r == [task[k] EXCEPT !.rev = Next1(@), !.attempts = 0, !.phase = phase]
      <4>1. task' = [task EXCEPT ![k] = r] /\ task[k].claim = "free"
        BY <3>2 DEF OperatorRetry, Operable, Unblocked
      <4>2. r.claim = "free"
        BY <1>1, <4>1 DEF Row
      <4> HIDE DEF r
      <4> QED
        BY <1>1, <4>1, <4>2
    <3>3. CASE OperatorCancel(k) \/ OperatorReplay(k)
      BY <1>1, <3>3, Unclaimed DEF OperatorCancel, OperatorReplay
    <3> QED
      BY <3>1, <3>2, <3>3
  <2> QED
    BY <2>1, <2>2
<1>4. CASE \E k \in Key : Feed(k) \/ PrepareClaim(k) \/ Expire(k)
  <2>1. ctl' = ctl
    BY <1>4 DEF Feed, Publish, Bootstrap, Ingest, Maintain, PrepareClaim, Expire
  <2>2. Held
    <3>1. PICK k \in Key : Feed(k) \/ PrepareClaim(k) \/ Expire(k)
      BY <1>4
    <3>2. CASE Feed(k)
      BY <1>1, <3>2, Unclaimed DEF Feed, Publish, Bootstrap, Ingest, Corrected, Maintain, db
    <3>3. CASE PrepareClaim(k) \/ Expire(k)
      BY <1>1, <3>3 DEF PrepareClaim, Expire, Claimed, Row
    <3> QED
      BY <3>1, <3>2, <3>3
  <2> QED
    BY <2>1, <2>2
<1>5. CASE \E h \in Hash : Torrent(h)
  BY <1>5 DEF Torrent, Land, Lose, Download, ByHand, QBUnchanged, db
<1>6. CASE Crash \/ UNCHANGED vars
  BY <1>6 DEF Crash, vars, Idle, db
<1>7. CASE Recover
  <2>1. ctl' = ctl /\ \A k \in Key : task'[k].claim = "free"
    BY <1>1, <1>7 DEF Recover, Row
  <2> QED
    BY <2>1
<1>8. CASE Cycle
  <2>1. ASSUME NEW c \in ctl.todo, ReconcileDownload(c)
        PROVE  FALSE
    <3>1. ctl = [pc |-> "reconcile", snap |-> ctl.snap, old |-> ctl.old, todo |-> ctl.todo]
      BY <2>1 DEF ReconcileDownload, PipelineInv, CtlInv
    <3> QED
      BY <2>1, <3>1 DEF ReconcileDownload, Idle
  <2>2. ASSUME NEW k \in Key,
               NEW c \in {x \in (IF ctl.pc = "reconcile" THEN ctl.todo ELSE {}) : x.key = k},
               ReconcileDownload(c)
        PROVE  FALSE
    <3>1. c \in ctl.todo
      BY <2>2
    <3> QED
      BY <2>1, <2>2, <3>1
  <2>3. ~ \/ \E managed \in SUBSET Present(qb), old \in SUBSET Elapsed : BeginCycle(managed, old)
          \/ ReadDownloads \/ StartAdmitting
          \/ AdmitReject \/ AdmitPresent \/ Submitting \/ AdmitStale \/ Add \/ EndCycle \/ CutCycle
    BY DEF BeginCycle, ReadDownloads, StartAdmitting, AdmitReject, AdmitPresent, Submitting,
           AdmitStale, Add, EndCycle, CutCycle, ToAdmit, Idle
  <2> QED
    BY <1>8, <2>2, <2>3 DEF Cycle
<1> QED
  BY <1>2, <1>3, <1>4, <1>5, <1>6, <1>7, <1>8 DEF Next

LEMMA KnownNext ==
  ASSUME ContentInv, [Next]_vars
  PROVE  KnownContent'
<1>1. PipelineInv /\ PursuitInv /\ KnownContent /\ task \in [Key -> Row]
  BY DEF ContentInv, PursuitInv, PipelineInv, TypeOK
<1>2. ASSUME NEW k \in Key, task'[k].observed = TRUE
      PROVE  content'[task'[k].hash] \in Known
  <2>1. RowInv(task[k], sources[k], release[k], k \notin stale, operations)
    BY <1>1 DEF PipelineInv, RowsInv
  <2>2. ASSUME task'[k].hash = task[k].hash, task'[k].observed = task[k].observed
        PROVE  content'[task'[k].hash] \in Known
    <3>1. task[k].observed = TRUE /\ task[k].hash \in Hash
      BY <1>1, <1>2, <2>1, <2>2 DEF RowInv, Row
    <3>2. content[task[k].hash] \in Known
      BY <1>1, <3>1 DEF KnownContent
    <3> QED
      BY <1>1, <2>2, <3>1, <3>2, ContentMonotone
  <2>3. ASSUME NEW c \in ctl.todo, RowConfirmed(k, c)
        PROVE  content'[task'[k].hash] \in Known
    <3>1. task'[k].hash = c.row.hash /\ Confirmed(c) /\ ctl.pc = "reconcile" /\ Unchanged(c)
      BY <2>3 DEF RowConfirmed, Reconciling
    <3>2. c.row.hash \in Hash /\ content \in [Hash -> Seen]
      BY <1>1, <3>1, ReconciledRow DEF PipelineInv, TypeOK
    <3>3. CASE c.row.phase = "tracking"
      <4>1. content[c.row.hash] \in Known
        BY <1>1, <3>1, <3>3 DEF KnownContent
      <4> QED
        BY <1>1, <3>1, <3>2, <4>1, ContentMonotone
    <3>4. CASE c.row.phase # "tracking"
      BY <3>1, <3>2, <3>4 DEF Confirmed, Known
    <3> QED
      BY <3>3, <3>4
  <2>4. RowStep(k)
    BY <1>1, NextRows
  <2> QED
    BY <1>2, <2>2, <2>3, <2>4
    DEF RowStep, RowKept, Bare, RowSubmitted, RowRetried, RowReady, RowRemoved
<1>3. \A k \in Key : task'[k].observed => content'[task'[k].hash] \in Known
  <2>1. PipelineInv'
    BY <1>1, NextPipeline
  <2>2. \A k \in Key : task'[k].observed \in BOOLEAN
    BY <2>1 DEF PipelineInv, TypeOK, Row
  <2> QED
    BY <1>2, <2>2
<1>4. ASSUME ctl'.pc = "reconcile", NEW c \in ctl'.todo, c.row.phase = "tracking"
      PROVE  content'[c.row.hash] \in Known
  <2>1. CASE ReadDownloads
    <3>1. /\ content' = content
          /\ ctl'.todo = {[key |-> k, row |-> task[k]] : k \in {j \in Key : task[j].phase \in Active}}
      BY <2>1 DEF ReadDownloads, db
    <3>2. PICK k \in Key : c = [key |-> k, row |-> task[k]]
      BY <1>4, <3>1
    <3>3. RowInv(task[k], sources[k], release[k], k \notin stale, operations)
      BY <1>1 DEF PipelineInv, RowsInv
    <3>4. task[k].observed /\ c.row.hash = task[k].hash
      BY <1>4, <3>2, <3>3 DEF RowInv
    <3> QED
      BY <1>1, <3>1, <3>4 DEF KnownContent
  <2>2. CASE ctl.pc = "reconcile" /\ ctl'.todo \subseteq ctl.todo
    <3>1. content[c.row.hash] \in Known
      BY <1>1, <1>4, <2>2 DEF KnownContent
    <3>2. c.row.hash \in Hash
      BY <1>1, <1>4, <2>2 DEF PipelineInv, CtlInv, ReadRow, WellFormed, Row
    <3> QED
      BY <1>1, <3>1, <3>2, ContentMonotone
  <2> QED
    BY <1>1, <1>4, <2>1, <2>2, TodoShrinks
<1>5. ASSUME ctl'.pc = "decide", task'[ctl'.key].claim = "control"
      PROVE  task'[ctl'.key].hash = ctl'.hash
  <2>1. ASSUME NEW k \in Key, AdmitClaim(k)
        PROVE  task'[ctl'.key].hash = ctl'.hash
    BY <1>1, <2>1 DEF AdmitClaim, Claimed, Row
  <2>2. CASE ctl' = ctl /\ \A k \in Key : task'[k].claim = "control" => task'[k] = task[k]
    <3>1. ctl.key \in Key /\ ctl.pc = "decide"
      BY <1>1, <1>5, <2>2 DEF PipelineInv, CtlInv
    <3>2. task'[ctl.key] = task[ctl.key]
      BY <1>5, <2>2, <3>1
    <3> QED
      BY <1>1, <1>5, <2>2, <3>1, <3>2 DEF KnownContent
  <2> QED
    BY <1>1, <1>5, <2>1, <2>2, DecisionKept
<1> QED
  BY <1>3, <1>4, <1>5 DEF KnownContent

\* A confirmed download that was not written back from an older row is the one
\* pursuer of content that was not known.
LEMMA LearnedByPursuer ==
  ASSUME ContentInv, stale = {}, stale' = {}, NEW c \in ctl.todo, Reconciling(c), task' # task
  PROVE  /\ c.key \in Key /\ task[c.key].hash = c.row.hash /\ task[c.key].phase = c.row.phase
         /\ c.key \in Pursuers(c.row.hash)
<1>1. PipelineInv
  BY DEF ContentInv, PursuitInv
<1>2. ~Reused(c) /\ Unchanged(c) /\ ctl.pc = "reconcile"
  BY DEF Reconciling
<1>3. /\ c.key \in Key /\ c.row.phase \in Active
      /\ task[c.key].hash = c.row.hash /\ task[c.key].phase = c.row.phase
      /\ RowInv(task[c.key], sources[c.key], release[c.key], c.key \notin stale, operations)
  BY <1>1, <1>2, ReconciledRow
<1>4. task[c.key].torrent = task[c.key].hash
  BY <1>3 DEF RowInv
<1> QED
  BY <1>3, <1>4 DEF Pursuers

LEMMA NewNext ==
  ASSUME ContentInv, [Next]_vars, stale' = {}
  PROVE  NewContent'
<1>1. PipelineInv /\ PursuitInv /\ KnownContent /\ task \in [Key -> Row]
  BY DEF ContentInv, PursuitInv, PipelineInv, TypeOK
<1>2. stale = {}
  BY StaleStays
<1>3. NewContent
  BY <1>2 DEF ContentInv
<1>4. \A k \in Key : RowInv(task[k], sources[k], release[k], TRUE, operations)
  BY <1>1, <1>2 DEF PipelineInv, RowsInv
<1>5. ASSUME NEW k \in Key, task'[k].phase = "ready", content'[task'[k].hash] \in Known
      PROVE  k \in permitted'
  <2>1. ASSUME task[k].phase = "ready", task'[k].hash = task[k].hash
        PROVE  k \in permitted'
    <3>1. task[k].hash \in Hash /\ task[k].torrent = task[k].hash
      BY <1>1, <1>4, <2>1 DEF RowInv, WellFormed, Active, Row
    <3>2. CASE content[task[k].hash] \in Known
      BY <1>1, <1>3, <2>1, <3>2, PermissionsKept DEF NewContent
    <3>3. CASE content[task[k].hash] \notin Known
      <4>1. PICK c \in ctl.todo : Reconciling(c) /\ Confirmed(c) /\ c.row.hash = task[k].hash
        BY <1>1, <1>5, <2>1, <3>1, <3>3, ContentLearned
      <4>2. c.key \in Key
        BY <1>1, <4>1 DEF Reconciling, PipelineInv, CtlInv, ReadRow
      <4>3. task'[c.key].phase \in {"none", "tracking"}
        BY <1>1, <4>1, <4>2 DEF Confirmed, NoTask, Row
      <4>4. c.key # k
        BY <1>5, <4>3
      <4>5. task' # task
        <5>1. task[c.key].phase # "none" /\ ctl.pc = "reconcile" /\ Unchanged(c)
          BY <4>1 DEF Reconciling
        <5>2. ASSUME task' = task
              PROVE  FALSE
          <6>1. task[c.key].phase = "tracking" /\ ctl.snap[c.row.hash] # "complete"
            <7>1. task[c.key].phase = "tracking"
              BY <4>3, <5>1, <5>2
            <7>2. ctl.snap[c.row.hash] = "complete" => task'[c.key] = NoTask
              BY <1>1, <4>1, <4>2 DEF Confirmed
            <7> QED
              BY <5>2, <7>1, <7>2 DEF NoTask
          <6>2. task'[c.key] = Tracked(task[c.key], c.row.ver, c.row.hash, c.row.subs)
            BY <1>1, <4>1, <4>2, <6>1 DEF Confirmed, Tracked
          <6>3. task'[c.key].observed = TRUE /\ task'[c.key].hash = c.row.hash
            BY <1>1, <4>2, <6>2 DEF Tracked, Row
          <6>4. content[c.row.hash] \in Known
            BY <1>1, <4>2, <5>2, <6>3 DEF KnownContent
          <6> QED
            BY <3>3, <4>1, <6>4
        <5> QED
          BY <5>2
      <4>6. c.key \in Pursuers(task[k].hash)
        BY <1>2, <4>1, <4>5, LearnedByPursuer
      <4>7. k \in Pursuers(task[k].hash)
        BY <2>1, <3>1 DEF Pursuers, Active
      <4> QED
        BY <1>3, <3>1, <3>3, <4>4, <4>6, <4>7 DEF NewContent
    <3> QED
      BY <3>2, <3>3
  <2>2. CASE RowReady(k)
    BY <1>5, <2>2 DEF RowReady, Known
  <2>3. CASE RowRetried(k)
    <3>1. CASE task[k].phase = "blocked"
      <4>1. task[k].hash # NoHash /\ ~task[k].observed
        BY <1>5, <2>3, <3>1 DEF RowRetried, Unblocked
      <4> QED
        BY <1>3, <3>1, <4>1 DEF NewContent
    <3>2. CASE task[k].phase # "blocked"
      BY <1>5, <2>1, <2>3, <3>2 DEF RowRetried, Unblocked
    <3> QED
      BY <3>1, <3>2
  <2>4. RowStep(k)
    BY <1>1, NextRows
  <2> QED
    BY <1>5, <2>1, <2>2, <2>3, <2>4
    DEF RowStep, RowKept, Bare, RowSubmitted, RowConfirmed, RowRemoved
<1>6. ASSUME NEW k \in Key, task'[k].phase = "blocked", task'[k].hash # NoHash
      PROVE  task'[k].observed
  <2>1. CASE RowKept(task[k], task'[k])
    BY <1>3, <1>6, <2>1 DEF RowKept, NewContent
  <2>2. ASSUME NEW c \in ctl.todo, RowRemoved(k, c)
        PROVE  task'[k].observed
    <3>1. task[k].phase = "tracking"
      BY <1>2, <2>2, LearnedByPursuer DEF RowRemoved
    <3> QED
      BY <1>4, <2>2, <3>1 DEF RowRemoved, RowInv
  <2>3. ~RowRetried(k)
    BY <1>6 DEF RowRetried, Unblocked
  <2>4. RowStep(k)
    BY <1>1, NextRows
  <2> QED
    BY <1>6, <2>1, <2>2, <2>3, <2>4
    DEF RowStep, Bare, RowSubmitted, RowReady, RowConfirmed
<1>7. ASSUME NEW h \in Hash, content'[h] \notin Known, NEW j \in Pursuers(h)', NEW k \in Pursuers(h)', j # k
      PROVE  FALSE
  <2>1. content[h] \notin Known
    BY <1>1, <1>7, ContentMonotone
  <2>2. ASSUME NEW i \in Pursuers(h)', i \notin Pursuers(h)
        PROVE  FALSE
    <3>1. RowRetried(i) /\ task[i].phase = "blocked" /\ task[i].torrent = h /\ i \in Key
      BY <1>1, <1>7, <2>2, NewPursuer DEF Pursuers
    <3>2. task[i].hash = h /\ task[i].hash # NoHash
      BY <1>4, <3>1, PipelineAssumption DEF RowInv
    <3>3. task[i].observed
      BY <1>3, <3>1, <3>2 DEF NewContent
    <3> QED
      BY <1>1, <2>1, <3>1, <3>2, <3>3 DEF KnownContent
  <2>3. j \in Pursuers(h) /\ k \in Pursuers(h)
    BY <2>2
  <2> QED
    BY <1>3, <1>7, <2>1, <2>3 DEF NewContent
<1>8. \A k \in Key : task'[k].phase = "ready" => content'[task'[k].hash] \notin Known \/ k \in permitted'
  BY <1>5
<1>9. \A h \in Hash : content'[h] \notin Known => \A j, k \in Pursuers(h)' : j = k
  BY <1>7
<1> QED
  BY <1>6, <1>8, <1>9 DEF NewContent

LEMMA InitContent == Init => ContentInv
<1> SUFFICES ASSUME Init PROVE ContentInv
  OBVIOUS
<1>1. PursuitInv
  BY InitPipeline DEF PursuitInv, BlockedSinceRead, Init, Idle
<1>2. \A k \in Key : ~task[k].observed /\ task[k].phase = "none"
  BY DEF Init, NoTask
<1>3. KnownContent
  BY <1>2 DEF KnownContent, Init, Idle
<1>4. NewContent
  BY <1>2 DEF NewContent, Pursuers, Active
<1> QED
  BY <1>1, <1>3, <1>4 DEF ContentInv

LEMMA ContentInvariant == Spec => []ContentInv
<1>1. Init => ContentInv
  BY InitContent
<1>2. ContentInv /\ [Next]_vars => ContentInv'
  BY KnownNext, NewNext, NextPursuit DEF ContentInv
<1> QED
  BY <1>1, <1>2, PTL DEF Spec

\* Content that was confirmed is not requested again but for a replay, as long
\* as no old row is written over a newer one (OldResultsNotWrittenBack).
THEOREM ContentNotRepeated == Spec /\ [](stale = {}) => NoRepeatedContent
<1>1. ASSUME ContentInv, stale = {}, [Next]_vars
      PROVE  [Submitting => content[ctl.hash] \in {"none", "observed"}
                              \/ ctl.key \in permitted]_vars
  <2> SUFFICES ASSUME Submitting, ctl.key \notin permitted
               PROVE  content[ctl.hash] \in {"none", "observed"}
    OBVIOUS
  <2>1. PipelineInv /\ KnownContent /\ NewContent
    BY <1>1 DEF ContentInv, PursuitInv
  <2>2. /\ ctl.pc = "decide" /\ task[ctl.key].claim = "control"
        /\ ctl.key \in Key /\ task[ctl.key].phase = "ready"
    BY <2>1, DecidedRow DEF Submitting, Deciding, AdmitValid, Valid
  <2>3. task[ctl.key].hash = ctl.hash
    BY <2>1, <2>2 DEF KnownContent
  <2>4. ctl.hash \in Hash /\ content \in [Hash -> Seen]
    BY <2>1, <2>2, <2>3 DEF PipelineInv, TypeOK, WellFormed, Active, Row
  <2>5. content[ctl.hash] \notin Known
    BY <2>1, <2>2, <2>3 DEF NewContent
  <2> QED
    BY <2>4, <2>5 DEF Known, Seen
<1> QED
  BY <1>1, ContentInvariant, PTL DEF Spec, NoRepeatedContent
-----------------------------------------------------------------------------
\* No second request while the first may still take effect.

\* A submission that ConfirmTimeout ran out for has no request under way, and a
\* request under way is that of a submitted row, or qB was seen to have the
\* torrent.
UnderWay(h) == sent[h] > 0 \/ (ctl.pc = "add" /\ ctl.hash = h)
Submitted(h) == \E k \in Key : task[k].phase = "submitted" /\ task[k].hash = h

OldAnswered ==
  ctl.pc \in {"snapshot", "reconcile"} => \A h \in Hash : h \in ctl.old => sent[h] = 0
RequestsSubmitted ==
  \A h \in Hash : UnderWay(h) => content[h] \in Known \/ Submitted(h)

RequestInv == ContentInv /\ OldAnswered /\ (stale = {} => RequestsSubmitted)

\* What a step of the control goroutine does to requests.
RequestsOfCycle ==
  /\ \A h \in Hash : sent'[h] = sent[h] \/ (ctl.pc = "add" /\ ctl.hash = h)
  /\ \A h \in Hash : ctl'.pc = "add" /\ ctl'.hash = h => Submitting /\ ctl.hash = h
  /\ ctl'.pc \in {"snapshot", "reconcile"} =>
       /\ sent' = sent
       /\ \/ \A h \in ctl'.old : sent[h] = 0
          \/ ctl.pc \in {"snapshot", "reconcile"} /\ ctl'.old = ctl.old

LEMMA CycleRequests ==
  ASSUME PipelineInv, Cycle
  PROVE  RequestsOfCycle
<1>1. ASSUME NEW managed \in SUBSET Present(qb), NEW old \in SUBSET Elapsed, BeginCycle(managed, old)
      PROVE  ctl'.pc = "snapshot" /\ sent' = sent /\ \A h \in ctl'.old : sent[h] = 0
  BY <1>1 DEF BeginCycle, Elapsed
<1>2. ASSUME ReadDownloads
      PROVE  ctl.pc = "snapshot" /\ ctl'.pc = "reconcile" /\ ctl'.old = ctl.old /\ sent' = sent
  BY <1>2 DEF ReadDownloads
<1>3. ASSUME NEW c \in ctl.todo, ReconcileDownload(c)
      PROVE  /\ sent' = sent /\ ctl'.pc \in {"idle", "reconcile"}
             /\ ctl'.pc = "reconcile" => ctl.pc = "reconcile" /\ ctl'.old = ctl.old
  <2>1. ctl = [pc |-> "reconcile", snap |-> ctl.snap, old |-> ctl.old, todo |-> ctl.todo]
    BY <1>3 DEF ReconcileDownload, PipelineInv, CtlInv
  <2>2. ctl' = Idle \/ ctl' = [ctl EXCEPT !.todo = ctl.todo \ {c}]
    BY <1>3 DEF ReconcileDownload
  <2>3. sent' = sent
    BY <1>3 DEF ReconcileDownload
  <2> QED
    BY <2>1, <2>2, <2>3 DEF Idle
<1>4. ASSUME NEW k \in Key,
             NEW c \in {x \in (IF ctl.pc = "reconcile" THEN ctl.todo ELSE {}) : x.key = k},
             ReconcileDownload(c)
      PROVE  c \in ctl.todo
  BY <1>4
<1>5. ASSUME Submitting
      PROVE  sent' = sent /\ ctl'.pc = "add" /\ ctl'.hash = ctl.hash
  BY <1>5 DEF Submitting
<1>6. ASSUME Add
      PROVE  /\ ctl.pc = "add" /\ ctl'.pc \in {"idle", "admit"}
             /\ \A h \in Hash : h # ctl.hash => sent'[h] = sent[h]
  BY <1>6 DEF Add, ToAdmit, Idle, PipelineInv, TypeOK
<1>7. ASSUME \/ StartAdmitting \/ \E k \in Key : AdmitClaim(k)
             \/ AdmitReject \/ AdmitPresent \/ AdmitStale \/ EndCycle \/ CutCycle
      PROVE  sent' = sent /\ ctl'.pc \in {"idle", "admit", "decide"}
  BY <1>7 DEF StartAdmitting, AdmitClaim, AdmitReject, AdmitPresent, AdmitStale, EndCycle, CutCycle,
              ToAdmit, Idle
<1>8. ASSUME NEW managed \in SUBSET Present(qb), NEW old \in SUBSET Elapsed, BeginCycle(managed, old)
      PROVE  RequestsOfCycle
  BY <1>1, <1>8 DEF RequestsOfCycle
<1>9. CASE ReadDownloads
  BY <1>2, <1>9 DEF RequestsOfCycle
<1>10. ASSUME NEW k \in Key,
              NEW c \in {x \in (IF ctl.pc = "reconcile" THEN ctl.todo ELSE {}) : x.key = k},
              ReconcileDownload(c)
       PROVE  RequestsOfCycle
  BY <1>3, <1>4, <1>10 DEF RequestsOfCycle
<1>11. CASE Submitting
  BY <1>5, <1>11 DEF RequestsOfCycle
<1>12. CASE Add
  BY <1>6, <1>12 DEF RequestsOfCycle
<1>13. CASE \/ StartAdmitting \/ \E k \in Key : AdmitClaim(k)
            \/ AdmitReject \/ AdmitPresent \/ AdmitStale \/ EndCycle \/ CutCycle
  BY <1>7, <1>13 DEF RequestsOfCycle
<1> QED
  BY <1>8, <1>9, <1>10, <1>11, <1>12, <1>13 DEF Cycle

LEMMA NextRequests ==
  ASSUME PipelineInv, [Next]_vars
  PROVE  /\ \A h \in Hash : sent'[h] > 0 => UnderWay(h)
         /\ \A h \in Hash : ctl'.pc = "add" /\ ctl'.hash = h => UnderWay(h) \/ (Submitting /\ ctl.hash = h)
         /\ ctl'.pc \in {"snapshot", "reconcile"} =>
              \A h \in Hash : h \in ctl'.old =>
                \/ sent[h] = 0 /\ sent'[h] = sent[h]
                \/ ctl.pc \in {"snapshot", "reconcile"} /\ h \in ctl.old
<1>1. CASE Cycle
  BY <1>1, CycleRequests DEF RequestsOfCycle, UnderWay
<1>2. CASE UNCHANGED <<ctl, sent>>
  BY <1>2 DEF UnderWay
<1>3. CASE Prepare
  BY <1>2, <1>3 DEF Prepare, Ready, PrepareReject, PrepareFail, PrepareStale, PrepareLost, Preparing
<1>4. CASE Operator
  BY <1>2, <1>4 DEF Operator, OperatorRetry, OperatorCancel, OperatorReplay, Operating
<1>5. CASE \E k \in Key : Feed(k) \/ PrepareClaim(k) \/ Expire(k)
  BY <1>2, <1>5 DEF Feed, Publish, Bootstrap, Ingest, Maintain, PrepareClaim, Expire
<1>6. ASSUME NEW i \in Hash, Torrent(i)
      PROVE  ctl' = ctl /\ \A h \in Hash : sent'[h] > 0 => sent[h] > 0
  <2>1. sent \in [Hash -> Nat] /\ ctl' = ctl
    BY <1>6 DEF Torrent, Land, Lose, Download, ByHand, QBUnchanged, PipelineInv, TypeOK
  <2>2. sent' = sent \/ (sent[i] > 0 /\ sent' = [sent EXCEPT ![i] = sent[i] - 1])
    BY <1>6, <2>1 DEF Torrent, Land, Lose, Download, ByHand
  <2> QED
    BY <2>1, <2>2
<1>7. CASE Crash \/ Recover \/ UNCHANGED vars
  BY <1>2, <1>7 DEF Crash, Recover, vars, Idle, UnderWay
<1> QED
  BY <1>1, <1>3, <1>4, <1>5, <1>6, <1>7 DEF Next, UnderWay

\* A submitted row is written by reconciliation only.
LEMMA SubmittedKept ==
  ASSUME PipelineInv, [Next]_vars, NEW k \in Key, task[k].phase = "submitted",
         ~RowKept(task[k], task'[k])
  PROVE  \E c \in ctl.todo :
           /\ Reconciling(c) /\ c.key = k /\ task' # task
           /\ Confirmed(c) \/ c.row.phase = "tracking" \/ c.row.hash \in ctl.old
<1>1. /\ task \in [Key -> Row] /\ task' # task
      /\ RowInv(task[k], sources[k], release[k], k \notin stale, operations)
  BY DEF PipelineInv, TypeOK, RowsInv, RowKept
<1>2. task[k].claim = "free"
  BY <1>1 DEF RowInv, WellFormed
<1>3. ASSUME NEW j \in Key, NEW r, task' = [task EXCEPT ![j] = r]
      PROVE  j = k
  BY <1>1, <1>3 DEF RowKept
<1>4. ~Prepare
  <2>1. ASSUME Ready \/ PrepareReject \/ PrepareFail
        PROVE  FALSE
    <3>1. prep.pc = "work" /\ PrepareValid
      BY <2>1 DEF Ready, PrepareReject, PrepareFail, Preparing
    <3>2. prep.key \in Key /\ task[prep.key].phase = "pending"
      BY <3>1, PreparedRow
    <3>3. \E r : task' = [task EXCEPT ![prep.key] = r]
      BY <2>1 DEF Ready, PrepareReject, PrepareFail
    <3> QED
      BY <1>3, <3>2, <3>3
  <2> QED
    BY <1>1, <2>1 DEF Prepare, PrepareStale, PrepareLost, db
<1>5. ~Operator
  <2>1. ASSUME NEW j \in Key, OperatorRetry(j) \/ OperatorCancel(j) \/ OperatorReplay(j)
        PROVE  FALSE
    <3>1. task[j].phase # "submitted"
      BY <2>1 DEF OperatorRetry, OperatorCancel, OperatorReplay, Operable, Replayable
    <3>2. \E r : task' = [task EXCEPT ![j] = r]
      BY <2>1 DEF OperatorRetry, OperatorCancel, OperatorReplay
    <3> QED
      BY <1>3, <3>1, <3>2
  <2> QED
    BY <2>1 DEF Operator
<1>6. ~ \E j \in Key : Feed(j) \/ PrepareClaim(j) \/ Expire(j)
  <2>1. ASSUME NEW j \in Key, Ingest(j)
        PROVE  FALSE
    <3>1. task[j].phase \in Correctable /\ \E r : task' = [task EXCEPT ![j] = r]
      BY <1>1, <2>1 DEF Ingest, Corrected
    <3> QED
      BY <1>3, <3>1 DEF Correctable
  <2>2. ASSUME NEW j \in Key, PrepareClaim(j) \/ Expire(j)
        PROVE  FALSE
    <3>1. PICK who : task' = [task EXCEPT ![j].claim = who]
      BY <2>2 DEF PrepareClaim, Expire, Claimed
    <3> QED
      BY <1>1, <3>1 DEF RowKept, Row
  <2> QED
    BY <1>1, <2>1, <2>2 DEF Feed, Publish, Bootstrap, Maintain, db
<1>7. ~ \E h \in Hash : Torrent(h)
  BY <1>1 DEF Torrent, Land, Lose, Download, ByHand, QBUnchanged, db
<1>8. ~(Crash \/ Recover \/ UNCHANGED vars)
  BY <1>1 DEF Crash, Recover, vars, db, RowKept, Row
<1>9. Cycle
  BY <1>4, <1>5, <1>6, <1>7, <1>8 DEF Next
<1>10. ~ \/ AdmitReject \/ AdmitPresent \/ Submitting
  <2>1. ASSUME AdmitReject \/ AdmitPresent \/ Submitting
        PROVE  FALSE
    <3>1. ctl.key \in Key /\ task[ctl.key].phase = "ready"
      BY <2>1, DecidedRow DEF AdmitReject, AdmitPresent, Submitting
    <3>2. \E r : task' = [task EXCEPT ![ctl.key] = r]
      BY <2>1 DEF AdmitReject, AdmitPresent, Submitting
    <3> QED
      BY <1>3, <3>1, <3>2
  <2> QED
    BY <2>1
<1>11. ~ \E j \in Key : AdmitClaim(j)
  BY <1>1 DEF AdmitClaim, Claimed, RowKept, Row
<1>12. ~ \/ \E managed \in SUBSET Present(qb), old \in SUBSET Elapsed : BeginCycle(managed, old)
         \/ ReadDownloads \/ StartAdmitting \/ AdmitStale \/ Add \/ EndCycle \/ CutCycle
  BY <1>1 DEF BeginCycle, ReadDownloads, StartAdmitting, AdmitStale, Add, EndCycle, CutCycle, db
<1>13. PICK c \in ctl.todo : ReconcileDownload(c)
  <2>1. PICK j \in Key :
          \E c \in {x \in (IF ctl.pc = "reconcile" THEN ctl.todo ELSE {}) : x.key = j} :
            ReconcileDownload(c)
    BY <1>9, <1>10, <1>11, <1>12 DEF Cycle
  <2> QED
    BY <2>1
<1>14. c.key \in Key /\ ctl.pc = "reconcile"
  BY <1>13 DEF PipelineInv, CtlInv, ReadRow, ReconcileDownload
<1>15. c.key = k
  <2>1. \E r : task' = [task EXCEPT ![c.key] = r]
    BY <1>1, <1>13 DEF ReconcileDownload, Confirmed, Unconfirmed
  <2> QED
    BY <1>3, <1>14, <2>1
<1>16. Reconciling(c) /\ (Confirmed(c) \/ c.row.phase = "tracking" \/ Overdue(c))
  BY <1>1, <1>13 DEF ReconcileDownload, Reconciling, Overdue
<1> QED
  BY <1>1, <1>15, <1>16 DEF Overdue

LEMMA NextRequest == RequestInv /\ [Next]_vars => RequestInv'
<1> SUFFICES ASSUME RequestInv, [Next]_vars PROVE RequestInv'
  OBVIOUS
<1>1. ContentInv /\ PipelineInv /\ KnownContent /\ OldAnswered /\ sent \in [Hash -> Nat]
  BY DEF RequestInv, ContentInv, PursuitInv, PipelineInv, TypeOK
<1>2. ContentInv'
  BY <1>1, KnownNext, NewNext, NextPursuit DEF ContentInv
<1>3. sent' \in [Hash -> Nat]
  BY <1>2 DEF ContentInv, PursuitInv, PipelineInv, TypeOK
<1>4. OldAnswered'
  <2>1. ASSUME ctl'.pc \in {"snapshot", "reconcile"}, NEW h \in Hash, h \in ctl'.old
        PROVE  sent'[h] = 0
    <3>1. CASE ctl.pc \in {"snapshot", "reconcile"} /\ h \in ctl.old
      <4>1. ~UnderWay(h)
        BY <1>1, <3>1 DEF OldAnswered, UnderWay
      <4>2. ~(sent'[h] > 0)
        BY <1>1, <4>1, NextRequests
      <4> QED
        BY <1>3, <4>2
    <3> QED
      BY <1>1, <2>1, <3>1, NextRequests
  <2> QED
    BY <2>1 DEF OldAnswered
<1>5. ASSUME stale' = {}, NEW h \in Hash, UnderWay(h)'
      PROVE  content'[h] \in Known \/ Submitted(h)'
  <2>1. stale = {}
    BY <1>5, StaleStays
  <2>2. CASE Submitting /\ ctl.hash = h
    <3>1. /\ ctl.key \in Key /\ task[ctl.key].phase = "ready" /\ task[ctl.key] \in Row
          /\ ctl.pc = "decide" /\ task[ctl.key].claim = "control" /\ task \in [Key -> Row]
      BY <1>1, <2>2, DecidedRow DEF Submitting, Deciding, AdmitValid, Valid, PipelineInv, TypeOK
    <3>2. task[ctl.key].hash = h
      BY <1>1, <2>2, <3>1 DEF KnownContent
    <3> DEFINE r == [task[ctl.key] EXCEPT !.phase = "submitted", !.rev = Next1(@), !.subs = @ + 1,
                                          !.attempts = @ + 1, !.claim = "free"]
    <3>3. task' = [task EXCEPT ![ctl.key] = r]
      BY <2>2 DEF Submitting
    <3>4. r.phase = "submitted" /\ r.hash = h
      BY <3>1, <3>2 DEF Row
    <3> HIDE DEF r
    <3> QED
      BY <3>1, <3>3, <3>4 DEF Submitted
  <2>3. CASE UnderWay(h)
    <3>1. CASE content[h] \in Known
      BY <1>1, <3>1, ContentMonotone
    <3>2. ASSUME NEW k \in Key, task[k].phase = "submitted", task[k].hash = h
          PROVE  content'[h] \in Known \/ Submitted(h)'
      <4>1. CASE RowKept(task[k], task'[k])
        BY <3>2, <4>1 DEF RowKept, Submitted
      <4>2. CASE ~RowKept(task[k], task'[k])
        <5>1. PICK c \in ctl.todo :
                /\ Reconciling(c) /\ c.key = k /\ task' # task
                /\ Confirmed(c) \/ c.row.phase = "tracking" \/ c.row.hash \in ctl.old
          BY <1>1, <3>2, <4>2, SubmittedKept
        <5>2. c.row.hash = h /\ c.row.phase = "submitted"
          BY <1>1, <1>5, <2>1, <3>2, <5>1, LearnedByPursuer
        <5>3. CASE Confirmed(c)
          BY <1>1, <5>2, <5>3 DEF Confirmed, Known, PipelineInv, TypeOK
        <5>4. CASE h \in ctl.old
          <6>1. ctl.pc = "reconcile" /\ sent[h] = 0
            BY <1>1, <5>1, <5>4 DEF Reconciling, OldAnswered
          <6>2. FALSE
            BY <2>3, <6>1 DEF UnderWay
          <6> QED
            BY <6>2
        <5> QED
          BY <5>1, <5>2, <5>3, <5>4
      <4> QED
        BY <4>1, <4>2
    <3> QED
      BY <2>1, <2>3, <3>1, <3>2 DEF RequestInv, RequestsSubmitted, Submitted
  <2> QED
    BY <1>1, <1>5, <2>2, <2>3, NextRequests DEF UnderWay
<1>6. stale' = {} => RequestsSubmitted'
  BY <1>5 DEF RequestsSubmitted
<1> QED
  BY <1>2, <1>4, <1>6 DEF RequestInv

LEMMA RequestInvariant == Spec => []RequestInv
<1>1. Init => OldAnswered /\ RequestsSubmitted
  BY DEF Init, OldAnswered, RequestsSubmitted, UnderWay, Idle
<1>2. Init => RequestInv
  BY <1>1, InitContent DEF RequestInv
<1> QED
  BY <1>2, NextRequest, PTL DEF Spec

\* No second request while the first may still take effect and nothing was seen
\* of it, as long as no old row is written over a newer one.
THEOREM NothingSubmittedBlindly == Spec /\ [](stale = {}) => NoBlindResubmission
<1>1. ASSUME RequestInv, stale = {}, [Next]_vars
      PROVE  [Submitting => sent[ctl.hash] = 0
                              \/ content[ctl.hash] \in {"admitted", "completed"}]_vars
  <2> SUFFICES ASSUME Submitting, sent[ctl.hash] # 0, content[ctl.hash] \notin Known
               PROVE  FALSE
    BY DEF Known
  <2>1. PipelineInv /\ KnownContent /\ NewContent /\ RequestsSubmitted
    BY <1>1 DEF RequestInv, ContentInv, PursuitInv
  <2>2. /\ ctl.pc = "decide" /\ task[ctl.key].claim = "control"
        /\ ctl.key \in Key /\ task[ctl.key].phase = "ready"
        /\ RowInv(task[ctl.key], sources[ctl.key], release[ctl.key], TRUE, operations)
    BY <1>1, <2>1, DecidedRow DEF Submitting, Deciding, AdmitValid, Valid
  <2>3. task[ctl.key].hash = ctl.hash /\ ctl.hash \in Hash
    BY <2>1, <2>2 DEF KnownContent, RowInv, WellFormed, Active, Row
  <2>4. sent[ctl.hash] > 0
    BY <2>1, <2>3 DEF PipelineInv, TypeOK
  <2>5. PICK k \in Key : task[k].phase = "submitted" /\ task[k].hash = ctl.hash
    BY <2>1, <2>3, <2>4 DEF RequestsSubmitted, UnderWay, Submitted
  <2>6. RowInv(task[k], sources[k], release[k], TRUE, operations)
    BY <1>1, <2>1 DEF PipelineInv, RowsInv
  <2>7. k \in Pursuers(ctl.hash) /\ ctl.key \in Pursuers(ctl.hash)
    BY <2>2, <2>3, <2>5, <2>6 DEF RowInv, Pursuers, Active
  <2>8. k = ctl.key
    BY <2>1, <2>3, <2>7 DEF NewContent
  <2> QED
    BY <2>2, <2>5, <2>8
<1> QED
  BY <1>1, RequestInvariant, PTL DEF Spec, NoBlindResubmission

-----------------------------------------------------------------------------
\* What it takes for an old row to be written over a newer one: a replay between
\* Downloads and ReconcileDownload.  Only OperatorReplay starts the revisions of a
\* row over; a row that goes on through its life shows by its revision that it did.

\* Two rows say the same but for the claim and the attempts of a job.
Alike(r, s) ==
  /\ r.phase = s.phase /\ r.torrent = s.torrent /\ r.rev = s.rev /\ r.ver = s.ver
  /\ r.hash = s.hash /\ r.subs = s.subs /\ r.observed = s.observed

\* Revision later comes n steps after rev on the circle.
Ahead(rev, n, later) == later = rev + n \/ later + MaxRevision = rev + n

\* A bound of the revisions the row of a release has gone through: each version of
\* its source is ingested once and prepared once, and each command counts once.
Paces(k) == 2 * sources[k] + operations - (IF task[k].hash = NoHash THEN 1 ELSE 0)

\* Row s is what row r became in at most p revisions.
Lives(r, s, p) ==
  /\ s.phase # "none"
  /\ \E n \in 0..p : Ahead(r.rev, n, s.rev) /\ (n = 0 => Alike(r, s))

Ended(k) == task[k].phase = "none" /\ release[k] # "none"

\* The row Downloads has read goes on, or its release came to an end.
SameLife(c) == Ended(c.key) \/ Lives(c.row, task[c.key], Paces(c.key))

LifeInv ==
  /\ PipelineInv /\ stale = {}
  /\ \A k \in Key : sources[k] <= upstream[k]
  /\ ctl.pc = "reconcile" => \A c \in ctl.todo : SameLife(c)

\* No release is replayed between Downloads and the ReconcileDownload of its row.
NoReplayMeanwhile == ctl.pc = "reconcile" => \A c \in ctl.todo : ~OperatorReplay(c.key)

LEMMA PacesBound ==
  ASSUME PipelineInv, NEW k \in Key
  PROVE  /\ Paces(k) \in Int /\ Paces(k) < MaxRevision
         /\ task[k].phase \in Active => Paces(k) \in Nat
<1>1. sources[k] \in 0..MaxVersion /\ operations \in 0..MaxOperations
  BY DEF PipelineInv, TypeOK
<1>2. task[k].phase \in Active => task[k].hash # NoHash
  BY DEF PipelineInv, TypeOK, WellFormed
<1> QED
  BY <1>1, <1>2, PipelineAssumption DEF Paces

\* A row that only changes hands goes on.
LEMMA LivesOn ==
  ASSUME NEW r, NEW s, NEW t, NEW p \in Int, NEW q \in Int, p <= q,
         Lives(r, s, p), Alike(s, t)
  PROVE  Lives(r, t, q)
<1>1. PICK n \in 0..p : Ahead(r.rev, n, s.rev) /\ (n = 0 => Alike(r, s))
  BY DEF Lives
<1>2. n \in 0..q /\ Ahead(r.rev, n, t.rev) /\ (n = 0 => Alike(r, t))
  BY <1>1 DEF Ahead, Alike
<1> QED
  BY <1>2 DEF Lives, Alike

\* A row that waits to be prepared is not the one that was read.
LEMMA LivesPending ==
  ASSUME NEW r, NEW s, NEW t, NEW p \in Int, NEW q \in Int, p <= q,
         Lives(r, s, p), r.phase # s.phase, t.rev = s.rev, t.phase # "none"
  PROVE  Lives(r, t, q)
<1>1. PICK n \in 0..p : Ahead(r.rev, n, s.rev) /\ (n = 0 => Alike(r, s))
  BY DEF Lives
<1>2. n \in 0..q /\ Ahead(r.rev, n, t.rev) /\ n # 0
  BY <1>1 DEF Alike
<1> QED
  BY <1>2 DEF Lives

\* The next revision is one further, and the circle is longer than the way.
LEMMA NextAhead ==
  ASSUME NEW rev \in 0..MaxRevision, NEW later \in 0..MaxRevision, NEW n \in Nat, n < MaxRevision,
         Ahead(rev, n, later)
  PROVE  Ahead(rev, n + 1, Next1(later))
<1>0. MaxRevision \in Nat /\ MaxRevision > 0
  BY PipelineAssumption
<1>1. CASE later = MaxRevision
  <2>1. later % MaxRevision = 0
    BY <1>0, <1>1, SMTT(30)
  <2> QED
    BY <1>0, <1>1, <2>1 DEF Next1, Ahead
<1>2. CASE later < MaxRevision
  <2>1. later % MaxRevision = later
    BY <1>0, <1>2, SMTT(30)
  <2> QED
    BY <1>0, <1>2, <2>1 DEF Next1, Ahead
<1> QED
  BY <1>0, <1>1, <1>2

LEMMA LivesAdvances ==
  ASSUME NEW r \in Row, NEW s \in Row, NEW t, NEW p \in Int, NEW q \in Int, p < q, p < MaxRevision,
         Lives(r, s, p), t.rev = Next1(s.rev), t.phase # "none"
  PROVE  Lives(r, t, q)
<1>1. PICK n \in 0..p : Ahead(r.rev, n, s.rev)
  BY DEF Lives
<1>2. r.rev \in 0..MaxRevision /\ s.rev \in 0..MaxRevision
  BY DEF Row
<1>3. n \in Nat /\ n < MaxRevision /\ n + 1 \in 0..q /\ n + 1 # 0
  BY <1>1, PipelineAssumption
<1>4. Ahead(r.rev, n + 1, t.rev)
  BY <1>1, <1>2, <1>3, NextAhead
<1> QED
  BY <1>3, <1>4 DEF Lives

\* A row with the revision that was read is the row that was read.
LEMMA LivesSame ==
  ASSUME NEW r \in Row, NEW s \in Row, NEW p \in Int, p < MaxRevision, Lives(r, s, p), r.rev = s.rev
  PROVE  Alike(r, s)
<1>1. PICK n \in 0..p : Ahead(r.rev, n, s.rev) /\ (n = 0 => Alike(r, s))
  BY DEF Lives
<1>2. r.rev \in 0..MaxRevision
  BY DEF Row
<1>3. n = 0
  BY <1>1, <1>2, PipelineAssumption DEF Ahead
<1> QED
  BY <1>1, <1>3

\* A row is written over from an older one only when a new life has begun.
LEMMA NotReused ==
  ASSUME PipelineInv, ctl.pc = "reconcile", NEW c \in ctl.todo, SameLife(c),
         task[c.key].phase # "none"
  PROVE  ~Reused(c)
<1>1. c.key \in Key /\ c.row \in Row /\ task[c.key] \in Row
  BY DEF PipelineInv, CtlInv, ReadRow, TypeOK
<1>2. Lives(c.row, task[c.key], Paces(c.key))
  BY DEF SameLife, Ended
<1>3. ASSUME task[c.key].rev = c.row.rev
      PROVE  [task[c.key] EXCEPT !.claim = c.row.claim, !.attempts = c.row.attempts] = c.row
  <2>1. Alike(c.row, task[c.key])
    BY <1>1, <1>2, <1>3, LivesSame, PacesBound
  <2> QED
    BY <1>1, <2>1 DEF Alike, Row
<1> QED
  BY <1>3 DEF Reused

\* What a step may make of a row while the control goroutine reconciles: it changes
\* hands, fails to be prepared, gets the next revision, ends, or is reconciled.
LifeStep(k) ==
  \/ Alike(task[k], task'[k]) /\ Paces(k) <= Paces(k)'
  \/ /\ task[k].phase = "pending" /\ task'[k].rev = task[k].rev /\ task'[k].phase # "none"
     /\ Paces(k) <= Paces(k)'
  \/ /\ task'[k].rev = Next1(task[k].rev) /\ task'[k].phase # "none"
     /\ Paces(k) < Paces(k)'
  \/ Ended(k)'
  \/ \E c \in ctl.todo : c.key = k /\ Reconciling(c)

LEMMA RowKeptLives ==
  ASSUME PipelineInv, NEW k \in Key, task'[k] = task[k], sources' = sources,
         operations' = operations \/ operations' = operations + 1
  PROVE  LifeStep(k)
<1>1. Alike(task[k], task'[k]) /\ task'[k].hash = task[k].hash
  BY DEF Alike
<1>2. Paces(k) <= Paces(k)'
  BY <1>1, PipelineAssumption DEF Paces, PipelineInv, TypeOK
<1> QED
  BY <1>1, <1>2 DEF LifeStep

\* Claims are taken and freed.
LEMMA ClaimLives ==
  ASSUME PipelineInv, NEW k \in Key, sources' = sources, operations' = operations,
         NEW who, task'[k] = task[k] \/ task'[k] = [task[k] EXCEPT !.claim = who]
  PROVE  LifeStep(k)
<1>1. Alike(task[k], task'[k]) /\ task'[k].hash = task[k].hash
  BY DEF Alike, PipelineInv, TypeOK, Row
<1>2. Paces(k) <= Paces(k)'
  BY <1>1, PipelineAssumption DEF Paces, PipelineInv, TypeOK
<1> QED
  BY <1>1, <1>2 DEF LifeStep

LEMMA FeedLives ==
  ASSUME PipelineInv, \A i \in Key : sources[i] <= upstream[i],
         NEW j \in Key, Feed(j) \/ PrepareClaim(j) \/ Expire(j),
         NEW k \in Key, task[k].phase # "none"
  PROVE  LifeStep(k)
<1>0. task \in [Key -> Row] /\ sources[k] \in Nat /\ upstream[k] \in Nat /\ operations \in Nat
  BY PipelineAssumption DEF PipelineInv, TypeOK
<1>1. CASE Publish(j) \/ Bootstrap(j)
  BY <1>1, RowKeptLives DEF Publish, Bootstrap, db
<1>2. CASE Maintain(j)
  <2>1. j # k /\ task' = task /\ sources' = [sources EXCEPT ![j] = 0] /\ operations' = operations
    BY <1>2 DEF Maintain, Prunable
  <2>2. sources'[k] = sources[k]
    BY <2>1 DEF PipelineInv, TypeOK
  <2>3. Paces(k)' = Paces(k) /\ Paces(k) \in Int
    BY <1>0, <2>1, <2>2 DEF Paces
  <2> QED
    BY <2>1, <2>3 DEF LifeStep, Alike
<1>3. CASE PrepareClaim(j) \/ Expire(j)
  <2>1. PICK who : task' = [task EXCEPT ![j].claim = who]
    BY <1>3 DEF PrepareClaim, Expire, Claimed
  <2>2. task'[k] = task[k] \/ task'[k] = [task[k] EXCEPT !.claim = who]
    BY <1>0, <2>1
  <2>3. sources' = sources /\ operations' = operations
    BY <1>3 DEF PrepareClaim, Expire
  <2> QED
    BY <2>2, <2>3, ClaimLives
<1>4. CASE Ingest(j) /\ j # k
  <2>1. task'[k] = task[k] /\ sources'[k] = sources[k] /\ operations' = operations
    BY <1>0, <1>4 DEF Ingest, Corrected, PipelineInv, TypeOK
  <2>2. Paces(k)' = Paces(k) /\ Paces(k) \in Int
    BY <1>0, <2>1 DEF Paces
  <2> QED
    BY <2>1, <2>2 DEF LifeStep, Alike
<1>5. CASE Ingest(k)
  <2>1. sources'[k] = upstream[k] /\ sources[k] < upstream[k] /\ operations' = operations
    BY <1>0, <1>5 DEF Ingest, PipelineInv, TypeOK
  <2>2. Paces(k) < Paces(k)'
    BY <1>0, <2>1 DEF Paces
  <2>3. CASE task[k].phase \in Correctable
    <3>1. task'[k] = Fresh(upstream[k], Next1(task[k].rev))
      BY <1>0, <1>5, <2>3 DEF Ingest, Corrected
    <3>2. task'[k].rev = Next1(task[k].rev) /\ task'[k].phase = "pending"
      BY <3>1 DEF Fresh, NoTask
    <3> QED
      BY <2>2, <3>2 DEF LifeStep
  <2>4. CASE task[k].phase \notin Correctable
    <3>1. task'[k] = task[k]
      BY <1>5, <2>4 DEF Ingest
    <3>2. Paces(k) \in Int /\ Paces(k)' \in Int
      BY <1>0, <2>1 DEF Paces
    <3> QED
      BY <2>2, <3>1, <3>2 DEF LifeStep, Alike
  <2> QED
    BY <2>3, <2>4
<1> QED
  BY <1>1, <1>2, <1>3, <1>4, <1>5 DEF Feed

LEMMA PrepareLives ==
  ASSUME PipelineInv, Prepare, NEW k \in Key
  PROVE  LifeStep(k)
<1> DEFINE j == prep.key
           h == Resolve[j, prep.ver]
           spent == task[j].attempts + 1
           r == [task[j] EXCEPT !.attempts = spent, !.claim = "free",
                                !.phase = IF spent >= MaxAttempts THEN "blocked" ELSE @]
<1>0. /\ task \in [Key -> Row] /\ sources[k] \in Nat /\ operations \in Nat
      /\ release \in [Key -> Outcome]
  BY PipelineAssumption DEF PipelineInv, TypeOK
<1>1. sources' = sources /\ operations' = operations
  BY DEF Prepare, Ready, PrepareReject, PrepareFail, PrepareStale, PrepareLost, Preparing, db
<1>2. CASE task'[k] = task[k]
  BY <1>1, <1>2, RowKeptLives
<1>3. ASSUME Ready \/ PrepareReject \/ PrepareFail, k = j
      PROVE  /\ task[k].phase = "pending" /\ task[k].hash = NoHash
             /\ prep.ver = sources[k] /\ sources[k] \in 1..MaxVersion
  <2>1. prep.pc = "work" /\ PrepareValid
    BY <1>3 DEF Ready, PrepareReject, PrepareFail, Preparing
  <2>2. task[k].phase = "pending" /\ sources[k] \in 1..MaxVersion /\ prep.ver = sources[k]
    BY <1>3, <2>1, PreparedRow
  <2> QED
    BY <2>2, PendingIsBare DEF Bare
<1>4. CASE k = j /\ (PrepareReject \/ (Ready /\ Duplicate(j, h)))
  <2>1. task'[k] = NoTask /\ release'[k] # "none"
    BY <1>0, <1>4 DEF PrepareReject, Ready, Close
  <2> QED
    BY <2>1 DEF LifeStep, Ended, NoTask
<1>5. CASE k = j /\ Ready /\ ~Duplicate(j, h)
  <2>1. task[k].phase = "pending" /\ task[k].hash = NoHash /\ h \in Hash
    BY <1>3, <1>5, PipelineAssumption DEF Version
  <2>2. task'[k] = [task[k] EXCEPT !.phase = "ready", !.torrent = h, !.hash = h,
                            !.ver = prep.ver, !.rev = Next1(@), !.attempts = 0, !.claim = "free"]
    BY <1>0, <1>5 DEF Ready
  <2>3. /\ task'[k].rev = Next1(task[k].rev) /\ task'[k].phase = "ready" /\ task'[k].hash = h
    BY <1>0, <2>2 DEF Row
  <2>4. task'[k].hash # NoHash
    BY <2>1, <2>3, PipelineAssumption
  <2>5. Paces(k) < Paces(k)'
    <3>1. Paces(k) = 2 * sources[k] + operations - 1
      BY <2>1 DEF Paces
    <3>2. Paces(k)' = 2 * sources[k] + operations - 0
      BY <1>1, <2>4 DEF Paces
    <3> QED
      BY <1>0, <3>1, <3>2
  <2> QED
    BY <2>3, <2>5 DEF LifeStep
<1>6. CASE k = j /\ PrepareFail
  <2>1. task[k].phase = "pending"
    BY <1>3, <1>6
  <2>2. task'[k] = r
    BY <1>0, <1>6 DEF PrepareFail
  <2> HIDE DEF spent
  <2>3. /\ task'[k].rev = task[k].rev /\ task'[k].hash = task[k].hash
        /\ task'[k].phase \in {"pending", "blocked"}
    BY <1>0, <1>6, <2>1, <2>2 DEF Row
  <2>4. Paces(k) <= Paces(k)'
    BY <1>0, <1>1, <2>3 DEF Paces
  <2> QED
    BY <2>1, <2>3, <2>4 DEF LifeStep
<1>7. CASE k # j \/ PrepareStale \/ PrepareLost
  <2>1. task'[k] = task[k]
    BY <1>0, <1>7 DEF Prepare, Ready, PrepareReject, PrepareFail, PrepareStale, PrepareLost, db
  <2> QED
    BY <1>2, <2>1
<1> QED
  BY <1>4, <1>5, <1>6, <1>7 DEF Prepare

LEMMA CycleLives ==
  ASSUME PipelineInv, ctl.pc = "reconcile", Cycle, NEW k \in Key
  PROVE  LifeStep(k)
<1>0. task \in [Key -> Row]
  BY DEF PipelineInv, TypeOK
<1>1. sources' = sources /\ operations' = operations
  BY DEF Cycle, BeginCycle, ReadDownloads, ReconcileDownload, StartAdmitting, AdmitClaim,
     AdmitReject, AdmitPresent, Submitting, AdmitStale, Add, EndCycle, CutCycle, Deciding,
     Controlling, db
<1>2. CASE task'[k] = task[k]
  BY <1>1, <1>2, RowKeptLives
<1>3. ASSUME NEW c \in ctl.todo, ReconcileDownload(c), task'[k] # task[k]
      PROVE  c.key = k /\ Reconciling(c)
  <2>1. c.key = k
    BY <1>0, <1>3 DEF ReconcileDownload, Confirmed, Unconfirmed
  <2>2. Reconciling(c)
    BY <1>3 DEF ReconcileDownload, Reconciling, Overdue
  <2> QED
    BY <2>1, <2>2
<1>4. CASE StartAdmitting \/ CutCycle
  BY <1>2, <1>4 DEF StartAdmitting, CutCycle, db
<1>5. ASSUME NEW j \in Key,
             NEW c \in {x \in (IF ctl.pc = "reconcile" THEN ctl.todo ELSE {}) : x.key = j},
             ReconcileDownload(c)
      PROVE  LifeStep(k)
  <2>1. c \in ctl.todo
    BY <1>5
  <2> QED
    BY <1>2, <1>3, <1>5, <2>1 DEF LifeStep
<1> QED
  BY <1>4, <1>5 DEF Cycle, BeginCycle, ReadDownloads, AdmitClaim, AdmitReject, AdmitPresent,
     Submitting, AdmitStale, Add, EndCycle, Deciding

LEMMA OperatorLives ==
  ASSUME PipelineInv, Operator, NEW k \in Key, ~OperatorReplay(k)
  PROVE  LifeStep(k)
<1>0. /\ task \in [Key -> Row] /\ sources[k] \in Nat /\ operations \in Nat
      /\ release \in [Key -> Outcome]
  BY PipelineAssumption DEF PipelineInv, TypeOK
<1>1. sources' = sources /\ operations' = operations + 1
  BY DEF Operator, OperatorRetry, OperatorCancel, OperatorReplay, Operating
<1>2. PICK j \in Key : OperatorRetry(j) \/ OperatorCancel(j) \/ OperatorReplay(j)
  BY DEF Operator
<1>3. CASE j # k
  <2>1. task'[k] = task[k]
    BY <1>0, <1>2, <1>3 DEF OperatorRetry, OperatorCancel, OperatorReplay
  <2> QED
    BY <1>1, <2>1, RowKeptLives
<1>4. CASE OperatorCancel(k)
  <2>1. task'[k] = NoTask /\ release'[k] # "none"
    BY <1>0, <1>4 DEF OperatorCancel, Close
  <2> QED
    BY <2>1 DEF LifeStep, Ended, NoTask
<1>5. CASE OperatorRetry(k)
  <2> DEFINE phase == Unblocked(task[k])
  <2>1. task'[k] = [task[k] EXCEPT !.rev = Next1(@), !.attempts = 0, !.phase = phase]
    BY <1>0, <1>5 DEF OperatorRetry, Unblocked
  <2>2. phase # "none"
    BY <1>5 DEF OperatorRetry, Operable, Unblocked
  <2> HIDE DEF phase
  <2>3. /\ task'[k].rev = Next1(task[k].rev) /\ task'[k].hash = task[k].hash
        /\ task'[k].phase # "none"
    BY <1>0, <2>1, <2>2 DEF Row
  <2>4. Paces(k) < Paces(k)'
    BY <1>0, <1>1, <2>3 DEF Paces
  <2> QED
    BY <2>3, <2>4 DEF LifeStep
<1> QED
  BY <1>2, <1>3, <1>4, <1>5

LEMMA NextLives ==
  ASSUME PipelineInv, \A i \in Key : sources[i] <= upstream[i], ctl.pc = "reconcile",
         [Next]_vars, NEW k \in Key, task[k].phase # "none", ~OperatorReplay(k)
  PROVE  LifeStep(k)
<1>1. CASE Crash \/ UNCHANGED vars \/ \E h \in Hash : Torrent(h)
  <2>1. task' = task /\ sources' = sources /\ operations' = operations
    BY <1>1 DEF Crash, vars, Torrent, Land, Lose, Download, ByHand, QBUnchanged, db
  <2> QED
    BY <2>1, RowKeptLives
<1>2. CASE Recover
  <2>1. task'[k] = [task[k] EXCEPT !.claim = "free"] /\ sources' = sources /\ operations' = operations
    BY <1>2 DEF Recover
  <2> QED
    BY <2>1, ClaimLives
<1> QED
  BY <1>1, <1>2, FeedLives, PrepareLives, CycleLives, OperatorLives DEF Next

\* A release that came to an end is not taken up again but by a replay.
LEMMA EndedStays ==
  ASSUME PipelineInv, ctl.pc = "reconcile", [Next]_vars, NEW k \in Key, ~OperatorReplay(k),
         Ended(k)
  PROVE  Ended(k)'
<1>0. /\ task \in [Key -> Row] /\ release \in [Key -> Outcome]
      /\ task[k].phase = "none" /\ release[k] # "none"
  BY DEF PipelineInv, TypeOK, Ended
<1>1. CASE task'[k] = task[k] /\ release'[k] = release[k]
  BY <1>1 DEF Ended
<1>2. CASE \E j \in Key : Feed(j) \/ PrepareClaim(j) \/ Expire(j)
  <2>1. release'[k] # "none"
    BY <1>0, <1>2 DEF Feed, Publish, Bootstrap, Ingest, Maintain, PrepareClaim, Expire, Close, db
  <2>2. \/ task'[k] = task[k]
        \/ \E who : task'[k] = [task[k] EXCEPT !.claim = who]
    <3>1. PICK j \in Key : Feed(j) \/ PrepareClaim(j) \/ Expire(j)
      BY <1>2
    <3>2. CASE PrepareClaim(j) \/ Expire(j)
      <4>1. PICK who : task' = [task EXCEPT ![j].claim = who]
        BY <3>2 DEF PrepareClaim, Expire, Claimed
      <4> QED
        BY <1>0, <4>1
    <3>3. CASE Feed(j)
      BY <1>0, <3>3 DEF Feed, Publish, Bootstrap, Ingest, Corrected, Maintain, db
    <3> QED
      BY <3>1, <3>2, <3>3
  <2>3. task'[k].phase = "none"
    BY <1>0, <2>2 DEF Row
  <2> QED
    BY <2>1, <2>3 DEF Ended
<1>3. CASE Prepare
  <2>1. CASE PrepareStale \/ PrepareLost
    BY <1>1, <2>1 DEF PrepareStale, PrepareLost, db
  <2>2. CASE Ready \/ PrepareReject \/ PrepareFail
    <3>1. prep.key \in Key /\ prep.key # k
      BY <1>0, <2>2, PreparedRow DEF Ready, PrepareReject, PrepareFail, Preparing
    <3>2. task'[k] = task[k] /\ release'[k] = release[k]
      BY <1>0, <2>2, <3>1 DEF Ready, PrepareReject, PrepareFail, Close
    <3> QED
      BY <1>1, <3>2
  <2> QED
    BY <1>3, <2>1, <2>2 DEF Prepare
<1>4. CASE Cycle
  <2>1. ASSUME NEW j \in Key,
               NEW c \in {x \in (IF ctl.pc = "reconcile" THEN ctl.todo ELSE {}) : x.key = j},
               ReconcileDownload(c)
        PROVE  task'[k] = task[k] /\ release'[k] = release[k]
    <3>1. CASE c.key = k
      BY <1>0, <2>1, <3>1 DEF ReconcileDownload
    <3>2. CASE c.key # k
      BY <1>0, <2>1, <3>2 DEF ReconcileDownload, Confirmed, Unconfirmed, Close
    <3> QED
      BY <3>1, <3>2
  <2>2. CASE StartAdmitting \/ CutCycle
    BY <1>1, <2>2 DEF StartAdmitting, CutCycle, db
  <2> QED
    BY <1>1, <1>4, <2>1, <2>2 DEF Cycle, BeginCycle, ReadDownloads, AdmitClaim, AdmitReject,
       AdmitPresent, Submitting, AdmitStale, Add, EndCycle, Deciding
<1>5. CASE Operator
  <2>1. PICK j \in Key : OperatorRetry(j) \/ OperatorCancel(j) \/ OperatorReplay(j)
    BY <1>5 DEF Operator
  <2>2. j # k
    BY <1>0, <2>1 DEF OperatorRetry, OperatorCancel, Operable
  <2>3. task'[k] = task[k] /\ release'[k] = release[k]
    BY <1>0, <2>1, <2>2 DEF OperatorRetry, OperatorCancel, OperatorReplay, Close
  <2> QED
    BY <1>1, <2>3
<1>6. CASE Crash \/ UNCHANGED vars \/ \E h \in Hash : Torrent(h)
  BY <1>1, <1>6 DEF Crash, vars, Torrent, Land, Lose, Download, ByHand, QBUnchanged, db
<1>7. CASE Recover
  BY <1>0, <1>7 DEF Recover, Ended, Row
<1> QED
  BY <1>2, <1>3, <1>4, <1>5, <1>6, <1>7 DEF Next

\* Each row that is still to be reconciled is still the row that was read.
LEMMA SameLifeKept ==
  ASSUME LifeInv, NoReplayMeanwhile, [Next]_vars, ctl.pc = "reconcile", ctl'.pc = "reconcile",
         NEW c \in ctl.todo, c \in ctl'.todo
  PROVE  SameLife(c)'
<1> DEFINE k == c.key
<1>0. /\ PipelineInv /\ SameLife(c) /\ ~OperatorReplay(k)
      /\ k \in Key /\ c.row \in Row /\ task[k] \in Row /\ c.row.phase \in Active
  BY DEF LifeInv, NoReplayMeanwhile, PipelineInv, CtlInv, ReadRow, TypeOK
<1>1. CASE Ended(k)
  BY <1>0, <1>1, EndedStays DEF SameLife
<1>2. CASE ~Ended(k)
  <2>1. Lives(c.row, task[k], Paces(k))
    BY <1>0, <1>2 DEF SameLife
  <2>2. LifeStep(k)
    BY <1>0, <2>1, NextLives DEF LifeInv, Lives
  <2>3. Paces(k) \in Int /\ Paces(k) < MaxRevision
    BY <1>0, PacesBound
  <2>4. PipelineInv'
    BY <1>0, NextPipeline
  <2>5. Paces(k)' \in Int
    <3>1. sources'[k] \in Nat /\ operations' \in Nat
      BY <1>0, <2>4, PipelineAssumption DEF PipelineInv, TypeOK
    <3> QED
      BY <3>1 DEF Paces
  <2> DEFINE p == Paces(k)
             q == Paces(k)'
  <2> HIDE DEF p, q
  <2>6. p \in Int /\ q \in Int /\ p < MaxRevision /\ Lives(c.row, task[k], p)
    BY <2>1, <2>3, <2>5 DEF p, q
  <2>7. ASSUME Lives(c.row, task'[k], q)
        PROVE  SameLife(c)'
    BY <2>7 DEF SameLife, Lives, q
  <2>8. CASE Alike(task[k], task'[k]) /\ p <= q
    BY <2>6, <2>7, <2>8, LivesOn
  <2>9. CASE /\ task[k].phase = "pending" /\ task'[k].rev = task[k].rev
             /\ task'[k].phase # "none" /\ p <= q
    <3>1. c.row.phase # task[k].phase
      BY <1>0, <2>9 DEF Active
    <3> QED
      BY <2>6, <2>7, <2>9, <3>1, LivesPending
  <2>10. CASE task'[k].rev = Next1(task[k].rev) /\ task'[k].phase # "none" /\ p < q
    BY <1>0, <2>6, <2>7, <2>10, LivesAdvances
  <2>11. CASE Ended(k)'
    BY <2>11 DEF SameLife, Ended
  <2>12. ASSUME NEW d \in ctl.todo, d.key = k, Reconciling(d)
         PROVE  FALSE
    <3>1. d = c
      BY <1>0, <2>12 DEF PipelineInv, CtlInv
    <3>2. ~ReadDownloads
      BY DEF ReadDownloads
    <3> QED
      BY <1>0, <2>12, <3>1, <3>2, TodoShrinks
  <2> QED
    BY <2>2, <2>8, <2>9, <2>10, <2>11, <2>12 DEF LifeStep, p, q
<1> QED
  BY <1>1, <1>2

\* A row that was just read is alike.
LEMMA SameLifeRead ==
  ASSUME LifeInv, ReadDownloads, NEW c \in ctl'.todo
  PROVE  SameLife(c)'
<1>1. PICK k \in Key : task[k].phase \in Active /\ c = [key |-> k, row |-> task[k]]
  BY DEF ReadDownloads
<1>2. /\ c.key = k /\ c.row = task[k] /\ task[k].phase # "none"
      /\ task[k].rev \in Nat
  BY <1>1, PipelineAssumption DEF Active, LifeInv, PipelineInv, TypeOK, Row
<1>3. task' = task /\ sources' = sources /\ operations' = operations
  BY DEF ReadDownloads, Controlling, db
<1>4. Paces(k)' = Paces(k) /\ Paces(k) \in Nat
  BY <1>1, <1>3, PacesBound DEF Paces, LifeInv
<1>5. Ahead(c.row.rev, 0, task[k].rev) /\ Alike(c.row, task[k])
  BY <1>2 DEF Ahead, Alike
<1>6. Lives(c.row, task[k], Paces(k))
  BY <1>2, <1>4, <1>5 DEF Lives
<1>7. Lives(c.row, task'[k], Paces(k)')
  BY <1>3, <1>4, <1>6
<1> QED
  BY <1>2, <1>7 DEF SameLife, Lives

\* A source is never newer than what the publisher lists.
LEMMA SourcesFollow ==
  ASSUME PipelineInv, [Next]_vars, \A k \in Key : sources[k] <= upstream[k]
  PROVE  \A k \in Key : sources'[k] <= upstream'[k]
<1>0. \A k \in Key : sources[k] \in Nat /\ upstream[k] \in Nat
  BY PipelineAssumption DEF PipelineInv, TypeOK
<1>1. CASE UNCHANGED <<sources, upstream>>
  BY <1>1
<1>2. ASSUME NEW j \in Key, Feed(j) \/ PrepareClaim(j) \/ Expire(j)
      PROVE  \A k \in Key : sources'[k] <= upstream'[k]
  BY <1>0, <1>2 DEF Feed, Publish, Bootstrap, Ingest, Maintain, PrepareClaim, Expire, db,
     PipelineInv, TypeOK
<1>3. CASE Prepare
  BY <1>1, <1>3 DEF Prepare, Ready, PrepareReject, PrepareFail, PrepareStale, PrepareLost,
     Preparing, db
<1>4. CASE Cycle
  BY <1>1, <1>4 DEF Cycle, BeginCycle, ReadDownloads, ReconcileDownload, StartAdmitting,
     AdmitClaim, AdmitReject, AdmitPresent, Submitting, AdmitStale, Add, EndCycle, CutCycle,
     Deciding, Controlling, db
<1>5. CASE Operator
  BY <1>1, <1>5 DEF Operator, OperatorRetry, OperatorCancel, OperatorReplay, Operating
<1>6. CASE Crash \/ Recover \/ UNCHANGED vars \/ \E h \in Hash : Torrent(h)
  BY <1>1, <1>6 DEF Crash, Recover, vars, Torrent, Land, Lose, Download, ByHand, QBUnchanged, db
<1> QED
  BY <1>2, <1>3, <1>4, <1>5, <1>6 DEF Next

\* Nothing but a reconciliation writes an old row over a newer one.
LEMMA WhoWritesBack ==
  ASSUME [Next]_vars, stale' # stale
  PROVE  \E c \in (IF ctl.pc = "reconcile" THEN ctl.todo ELSE {}) :
           ReconcileDownload(c) /\ task' # task /\ Reused(c)
<1>1. ~Prepare
  BY DEF Prepare, Ready, PrepareReject, PrepareFail, PrepareStale, PrepareLost, history
<1>2. ~Operator
  BY DEF Operator, OperatorRetry, OperatorCancel, OperatorReplay, Operating, history
<1>3. \A j \in Key : ~(Feed(j) \/ PrepareClaim(j) \/ Expire(j))
  BY DEF Feed, Publish, Bootstrap, Ingest, Maintain, PrepareClaim, Expire, history
<1>4. \A i \in Hash : ~Torrent(i)
  BY DEF Torrent, Land, Lose, Download, ByHand, QBUnchanged
<1>5. ~(Crash \/ Recover \/ UNCHANGED vars)
  BY DEF Crash, Recover, vars, history
<1>6. Cycle
  BY <1>1, <1>2, <1>3, <1>4, <1>5 DEF Next
<1>7. PICK k \in Key :
        \E c \in {x \in (IF ctl.pc = "reconcile" THEN ctl.todo ELSE {}) : x.key = k} :
          ReconcileDownload(c)
  BY <1>6 DEF Cycle, BeginCycle, ReadDownloads, StartAdmitting, AdmitClaim,
     AdmitReject, AdmitPresent, Submitting, AdmitStale, Add, EndCycle, CutCycle, history
<1> QED
  BY <1>7 DEF ReconcileDownload

LEMMA NothingReused ==
  ASSUME LifeInv, NEW c \in (IF ctl.pc = "reconcile" THEN ctl.todo ELSE {}),
         ReconcileDownload(c), task' # task
  PROVE  ~Reused(c)
<1>1. ctl.pc = "reconcile" /\ c \in ctl.todo /\ PipelineInv /\ SameLife(c)
  BY DEF LifeInv
<1>2. task[c.key].phase # "none"
  BY DEF ReconcileDownload
<1> QED
  BY <1>1, <1>2, NotReused

LEMMA LifeInvariant == Spec /\ [][NoReplayMeanwhile]_vars => []LifeInv
<1>1. Init => LifeInv
  BY InitPipeline DEF LifeInv, Init, Idle
<1>2. LifeInv /\ [Next]_vars /\ [NoReplayMeanwhile]_vars => LifeInv'
  <2> SUFFICES ASSUME LifeInv, [Next]_vars, [NoReplayMeanwhile]_vars
               PROVE  LifeInv'
    OBVIOUS
  <2>1. PipelineInv'
    BY NextPipeline DEF LifeInv
  <2>2. stale' = {}
    BY WhoWritesBack, NothingReused DEF LifeInv
  <2>3. \A k \in Key : sources'[k] <= upstream'[k]
    BY SourcesFollow DEF LifeInv
  <2>4. ASSUME ctl'.pc = "reconcile", NEW c \in ctl'.todo
        PROVE  SameLife(c)'
    <3>1. CASE UNCHANGED vars
      <4>1. task' = task /\ release' = release /\ sources' = sources /\ operations' = operations
        BY <3>1 DEF vars, db
      <4>2. SameLife(c)
        BY <2>4, <3>1 DEF LifeInv, vars
      <4> QED
        BY <4>1, <4>2 DEF SameLife, Ended, Lives, Paces
    <3>2. CASE NoReplayMeanwhile
      BY <2>4, <3>2, SameLifeKept, SameLifeRead, TodoShrinks DEF LifeInv
    <3> QED
      BY <3>1, <3>2
  <2> QED
    BY <2>1, <2>2, <2>3, <2>4 DEF LifeInv
<1> QED
  BY <1>1, <1>2, PTL DEF Spec

\* Old results are not written back as long as no operator replays a release between
\* the query of Downloads and the ReconcileDownload of its row: the generation check of
\* ReconcileDownload fails in no other case.
THEOREM OldResultsStayOut ==
  Spec /\ [][NoReplayMeanwhile]_vars => OldResultsNotWrittenBack
<1>1. LifeInv => [\A c \in (IF ctl.pc = "reconcile" THEN ctl.todo ELSE {}) :
                    ReconcileDownload(c) /\ task' # task => ~Reused(c)]_vars
  BY NothingReused
<1> QED
  BY <1>1, LifeInvariant, PTL DEF OldResultsNotWrittenBack

\* Then confirmed content is not requested again but for a replay.
THEOREM ContentNotRepeatedUnlessReplayed ==
  Spec /\ [][NoReplayMeanwhile]_vars => NoRepeatedContent
<1>1. LifeInv => stale = {}
  BY DEF LifeInv
<1> QED
  BY <1>1, LifeInvariant, ContentNotRepeated, PTL

\* And no second request leaves while the first may still take effect.
THEOREM NothingSubmittedBlindlyUnlessReplayed ==
  Spec /\ [][NoReplayMeanwhile]_vars => NoBlindResubmission
<1>1. LifeInv => stale = {}
  BY DEF LifeInv
<1> QED
  BY <1>1, LifeInvariant, NothingSubmittedBlindly, PTL
=============================================================================
