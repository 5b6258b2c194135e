----------------------------- MODULE ArchiveProofs -----------------------------
(***************************************************************************)
(* What the archive and media lanes keep, for every number of torrents,     *)
(* samples, attempts and faults.                                            *)
(*                                                                         *)
(* BaseInv types the tables and the goroutines, and says which row a        *)
(* goroutine holds and what it has read.  Three invariants rest on it:      *)
(* PlaceInv follows the path of a torrent from qB to the media row,         *)
(* ProofInv says what the absence of a torrent proves, and RemovalInv what  *)
(* is known of the removals on their way.                                   *)
(***************************************************************************)
EXTENDS ArchiveMedia, FiniteSetTheorems, TLAPS

-----------------------------------------------------------------------------
\* The invariants.

Snapshot == [Hash -> Torrent]

OutsideOK ==
  /\ qb \in Snapshot /\ prev \in Snapshot
  /\ disk \in [Hash -> Place] /\ record \in [Hash -> Place]
  /\ removals \in [Hash -> Nat]
  /\ up \in BOOLEAN /\ enabled \in BOOLEAN
  /\ operations \in 0..MaxOperations /\ faults \in 0..MaxFaults /\ changes \in 0..MaxChanges
  /\ gone \subseteq Hash /\ taken \subseteq Hash /\ waived \subseteq Hash

\* The first n samples, all read at loc.
Pieces(n, loc) == (1..n) \X {loc}

\* What is sampled so far was read at the path of the row; a payload is complete.
SamplesOK(row) ==
  /\ row.phase = "extract" =>
       /\ row.files /\ row.loc # NoLoc /\ ~row.payload
       /\ \E n \in 0..(Samples - 1) : row.samples = Pieces(n, row.loc)
  /\ row.phase = "upload" => row.payload
  /\ row.payload =>
       /\ row.phase \in {"upload", "blocked"} /\ row.loc # NoLoc
       /\ row.samples = Pieces(Samples, row.loc)

Owner == {"free", "control", "media"}
Outcome == {"none", "delivered", "no media tracks", "cancelled"}

RowTypes ==
  /\ archive \in [Hash -> ArchiveRow] /\ media \in [Hash -> MediaTask]
  /\ owner \in [Hash -> Owner] /\ done \in [Hash -> Outcome]

\* The rows of one torrent: its archive task, media task, owner and media receipt.
\* An archive claim is the control goroutine's; no torrent has two claims.
TaskOK(a, m, own, out) ==
  /\ a.phase = "verifying" => a.loc # NoLoc
  /\ a.phase = "ready" => a.subs < MaxAttempts
  /\ SamplesOK(m)
  /\ out # "none" => m.phase = "none"
  /\ a.held => own = "control" /\ ~m.held
  /\ m.held => own # "free"

RowsOK ==
  RowTypes /\ \A h \in Hash : TaskOK(archive[h], media[h], owner[h], done[h])

\* The control goroutine keeps the row it works on.
CtlOK ==
  /\ ctl.pc \in {"idle", "observe", "reconcile", "verify", "work", "look", "record",
                 "remove", "manifest"}
  /\ ctl.pc # "idle" => up /\ ctl.snap \in Snapshot
  /\ ctl.pc \in {"observe", "reconcile", "verify"} => ctl.late \subseteq Hash
  /\ ctl.pc \in {"verify", "look", "record", "remove", "manifest"} => ctl.h \in Hash
  /\ ctl.pc = "record" => ctl.loc \in Loc
  /\ ctl.pc = "verify" => archive[ctl.h].held /\ archive[ctl.h].phase = "verifying"
  /\ ctl.pc \in {"look", "record"} => archive[ctl.h].held /\ archive[ctl.h].phase = "ready"
  /\ ctl.pc = "remove" => archive[ctl.h].phase = "verifying"
  /\ ctl.pc = "manifest" =>
       owner[ctl.h] = "control" /\ media[ctl.h].held /\ media[ctl.h].phase = "manifest"

\* The media goroutine keeps the row it has read, or the row has lost its claim.
JobRow(row) ==
  /\ job.pc = "extract" => row.phase = "extract" /\ SamplesOK(row)
  /\ job.pc = "store" =>
       /\ row.phase = "extract" /\ row.files /\ row.loc # NoLoc
       /\ \E n \in 1..Samples : row.samples = Pieces(n, row.loc)
  /\ job.pc \in {"upload", "acked", "down"} => row.phase = "upload" /\ SamplesOK(row)

JobOK ==
  \/ job = Idle
  \/ /\ job = [pc |-> job.pc, h |-> job.h, row |-> job.row]
     /\ job.pc \in {"extract", "store", "upload", "acked", "down", "failed"}
     /\ up /\ job.h \in Hash /\ owner[job.h] = "media"
     /\ job.row \in MediaTask /\ ~job.row.held /\ job.row.phase \in {"extract", "upload"}
     /\ JobRow(job.row)
     /\ media[job.h].held =>
          media[job.h].phase = job.row.phase /\ media[job.h].loc = job.row.loc

\* Whatever the site has received was read at one path.
PublishedOK ==
  published \in [Hash -> SUBSET {Pieces(Samples, loc) : loc \in Loc}]

BaseInv == OutsideOK /\ RowsOK /\ CtlOK /\ JobOK /\ PublishedOK

\* A cycle works with the snapshot that the next one compares with.
Seen == ctl.pc \notin {"idle", "observe"} => prev = ctl.snap

Unsampled(row) ==
  row.phase \in {"manifest", "extract"} \/ (row.phase = "blocked" /\ ~row.payload)

Follows(h) ==
  prev[h].st = "seeding" /\ Unsampled(media[h]) => media[h].loc = prev[h].loc

PlaceInv == Seen /\ \A h \in Hash : Follows(h)

\* While a snapshot is compared with the archives.
Comparing == ctl.pc \in {"observe", "reconcile", "verify"}

ProofInv ==
  \A h \in Hash : archive[h].loc # NoLoc =>
    /\ h \notin Present(qb) => h \in gone
    /\ Comparing /\ h \notin Present(ctl.snap) => h \in gone

\* No removal of h is on its way, and none was carried out.
NotRemoved(h) == removals[h] = 0 /\ h \notin taken

\* A task of which no removal has been asked for since it began.
Unasked(row) == row.phase \in {"none", "ready"} \/ row.loc = NoLoc

RemovalInv ==
  /\ taken \cap Present(qb) = {}
  /\ Comparing => \A h \in ctl.late : h \in Present(ctl.snap) => NotRemoved(h)
  /\ \A h \in Hash : h \notin waived /\ record[h] = NoLoc /\ Unasked(archive[h])
                       => NotRemoved(h)

MediaInv ==
  \A h \in Hash : record[h] # NoLoc => media[h].phase # "none" \/ done[h] # "none"

-----------------------------------------------------------------------------
\* Samples and rows.

LEMMA PiecesCount ==
  ASSUME NEW n \in Nat, NEW loc
  PROVE  Cardinality(Pieces(n, loc)) = n
  <1>1. IsFiniteSet(1..n) /\ Cardinality(1..n) = n
    BY FS_Interval
  <1>2. IsFiniteSet({loc}) /\ Cardinality({loc}) = 1
    BY FS_Singleton
  <1>3. Cardinality(Pieces(n, loc)) = Cardinality(1..n) * Cardinality({loc})
    BY <1>1, <1>2, FS_Product, Zenon DEF Pieces
  <1> QED
    BY <1>1, <1>2, <1>3

\* The next sample is read at the same path.
LEMMA PiecesGrow ==
  ASSUME NEW n \in Nat, NEW loc
  PROVE  Pieces(n, loc) \cup {<<n + 1, loc>>} = Pieces(n + 1, loc)
  <1>1. 1..(n + 1) = (1..n) \cup {n + 1}
    OBVIOUS
  <1>2. ((1..n) \cup {n + 1}) \X {loc} = ((1..n) \X {loc}) \cup {<<n + 1, loc>>}
    OBVIOUS
  <1> QED
    BY <1>1, <1>2 DEF Pieces

LEMMA PiecesRead ==
  ASSUME NEW n \in 0..Samples, NEW loc \in Loc
  PROVE  Pieces(n, loc) \in SUBSET Read
  <1>1. 1..n \subseteq 1..Samples
    BY ArchiveAssumption DEF ArchiveAssumption
  <1> QED
    BY <1>1, Zenon DEF Pieces, Read

\* The rows that are written whole.
LEMMA NoMediaRow == NoMedia \in MediaTask /\ SamplesOK(NoMedia)
  BY DEF NoMedia, MediaTask, SamplesOK, Place

LEMMA FreshRow ==
  ASSUME NEW loc \in Place, NEW phase \in {"manifest", "extract"}, NEW files \in BOOLEAN,
         phase = "extract" => files /\ loc # NoLoc
  PROVE  LET row == MediaRow(phase, loc, files) IN
         /\ row \in MediaTask /\ SamplesOK(row) /\ ~row.held
         /\ row.phase = phase /\ row.loc = loc
  <1>1. LET row == MediaRow(phase, loc, files) IN
        /\ row \in MediaTask /\ ~row.held /\ ~row.payload
        /\ row.phase = phase /\ row.loc = loc /\ row.files = files /\ row.samples = {}
    BY DEF MediaRow, NoMedia, MediaTask, Place
  <1>2. Pieces(0, loc) = {} /\ 0 \in 0..(Samples - 1)
    BY ArchiveAssumption DEF ArchiveAssumption, Pieces
  <1> QED
    BY <1>1, <1>2 DEF SamplesOK

\* A claim taken or dropped leaves the work alone.
LEMMA HeldRow ==
  ASSUME NEW row \in MediaTask, SamplesOK(row), NEW held \in BOOLEAN
  PROVE  LET new == [row EXCEPT !.held = held] IN
         /\ new \in MediaTask /\ SamplesOK(new) /\ new.held = held
         /\ new.phase = row.phase /\ new.loc = row.loc /\ new.payload = row.payload
  BY DEF MediaTask, SamplesOK

\* Retry keeps what is sampled, and the path.
LEMMA RetriedRow ==
  ASSUME NEW row \in MediaTask, SamplesOK(row), row.phase \in {"manifest", "extract", "upload"}
  PROVE  /\ Retried(row) \in MediaTask /\ SamplesOK(Retried(row)) /\ ~Retried(row).held
         /\ Retried(row).phase \in {row.phase, "blocked"}
         /\ Retried(row).loc = row.loc /\ Retried(row).payload = row.payload
  <1> DEFINE spent == row.attempts + 1
             phase == IF Exhausted(spent) THEN "blocked" ELSE row.phase
  <1>1. spent \in Nat /\ phase \in {row.phase, "blocked"}
    BY DEF MediaTask
  <1>2. Retried(row) = [row EXCEPT !.attempts = spent, !.held = FALSE, !.phase = phase]
    BY DEF Retried
  <1> HIDE DEF spent, phase
  <1> QED
    BY <1>1, <1>2 DEF MediaTask, SamplesOK

LEMMA RetriedArchive ==
  ASSUME NEW row \in ArchiveRow, row.phase \in {"ready", "verifying"}
  PROVE  /\ Retried(row) \in ArchiveRow /\ ~Retried(row).held
         /\ Retried(row).phase \in {row.phase, "blocked"}
         /\ Retried(row).loc = row.loc /\ Retried(row).subs = row.subs
  <1> DEFINE spent == row.attempts + 1
             phase == IF Exhausted(spent) THEN "blocked" ELSE row.phase
  <1>1. spent \in Nat /\ phase \in {row.phase, "blocked"}
    BY DEF ArchiveRow
  <1>2. Retried(row) = [row EXCEPT !.attempts = spent, !.held = FALSE, !.phase = phase]
    BY DEF Retried
  <1> HIDE DEF spent, phase
  <1> QED
    BY <1>1, <1>2 DEF ArchiveRow

LEMMA NoArchiveRow ==
  /\ NoArchive \in ArchiveRow /\ ~NoArchive.held /\ NoArchive.phase = "none"
  /\ NoArchive.loc = NoLoc /\ NoArchive.subs = 0
  <1>1. 0 \in 0..MaxAttempts /\ NoLoc \in Place
    BY ArchiveAssumption DEF ArchiveAssumption, Place
  <1> QED
    BY <1>1 DEF NoArchive, ArchiveRow

LEMMA NewArchive ==
  LET row == [NoArchive EXCEPT !.phase = "ready"] IN
  /\ row \in ArchiveRow /\ ~row.held /\ row.phase = "ready"
  /\ row.loc = NoLoc /\ row.subs = 0
  BY NoArchiveRow DEF ArchiveRow

\* What a claim, a wait and a lease that ends write.
LEMMA HeldArchive ==
  ASSUME NEW row \in ArchiveRow, NEW held \in BOOLEAN
  PROVE  LET new == [row EXCEPT !.held = held] IN
         /\ new \in ArchiveRow /\ new.held = held
         /\ new.phase = row.phase /\ new.loc = row.loc /\ new.subs = row.subs
  BY DEF ArchiveRow

LEMMA WaitingArchive ==
  ASSUME NEW row \in ArchiveRow
  PROVE  LET new == [row EXCEPT !.held = FALSE, !.attempts = 0] IN
         /\ new \in ArchiveRow /\ ~new.held
         /\ new.phase = row.phase /\ new.loc = row.loc /\ new.subs = row.subs
  BY DEF ArchiveRow

LEMMA OverdueArchive ==
  ASSUME NEW row \in ArchiveRow
  PROVE  LET new == [row EXCEPT !.phase = ReturnPhase(row.subs), !.held = FALSE,
                                !.attempts = row.attempts + 1] IN
         /\ new \in ArchiveRow /\ ~new.held
         /\ new.phase \in {"ready", "blocked"} /\ new.loc = row.loc
         /\ new.phase = "ready" => new.subs < MaxAttempts
  <1> DEFINE spent == row.attempts + 1
             phase == ReturnPhase(row.subs)
             new == [row EXCEPT !.phase = phase, !.held = FALSE, !.attempts = spent]
  <1>1. spent \in Nat /\ row.subs \in 0..MaxAttempts
    BY DEF ArchiveRow
  <1>2. phase \in {"ready", "blocked"} /\ (phase = "ready" => row.subs < MaxAttempts)
    BY <1>1, ArchiveAssumption DEF ArchiveAssumption, ReturnPhase
  <1>3. new.subs = row.subs /\ new.phase = phase
    BY DEF ArchiveRow
  <1> HIDE DEF spent, phase
  <1>4. new \in ArchiveRow /\ ~new.held /\ new.loc = row.loc
    BY <1>1, <1>2 DEF ArchiveRow
  <1> QED
    BY <1>2, <1>3, <1>4 DEF spent, phase

\* The type invariant that the runs check.
LEMMA BaseTypeOK ==
  ASSUME BaseInv
  PROVE  TypeOK
  <1>1. published \in [Hash -> SUBSET SUBSET Read]
    <2>1. Samples \in 0..Samples
      BY ArchiveAssumption DEF ArchiveAssumption
    <2>2. {Pieces(Samples, loc) : loc \in Loc} \subseteq SUBSET Read
      BY <2>1, PiecesRead
    <2> QED
      BY <2>2 DEF BaseInv, PublishedOK
  <1>2. \A h \in Hash : media[h].phase = "upload" => Cardinality(media[h].samples) = Samples
    BY PiecesCount, ArchiveAssumption DEF ArchiveAssumption, BaseInv, RowsOK, TaskOK, SamplesOK
  <1>3. \A h \in Hash :
          /\ archive[h].phase = "verifying" => archive[h].loc # NoLoc
          /\ done[h] # "none" => media[h].phase = "none"
          /\ media[h].phase = "extract" => media[h].files /\ media[h].loc # NoLoc
          /\ archive[h].held \/ media[h].held => owner[h] # "free"
          /\ ~(archive[h].held /\ media[h].held)
    BY DEF BaseInv, RowsOK, TaskOK, SamplesOK
  <1> QED
    BY <1>1, <1>2, <1>3 DEF BaseInv, OutsideOK, RowsOK, RowTypes, Owner, Outcome, TypeOK, Snapshot

LEMMA BaseInit ==
  ASSUME Init
  PROVE  BaseInv
  <1> USE ArchiveAssumption DEF ArchiveAssumption, Init
  <1>1. OutsideOK
    BY DEF OutsideOK, Snapshot, Torrent, Absent, Place
  <1>2. RowsOK
    <2>1. RowTypes
      BY NoMediaRow DEF RowTypes, NoArchive, ArchiveRow, Place, Owner, Outcome
    <2>2. \A h \in Hash : TaskOK(archive[h], media[h], owner[h], done[h])
      BY NoMediaRow DEF TaskOK, NoArchive, NoMedia
    <2> QED
      BY <2>1, <2>2 DEF RowsOK
  <1>3. CtlOK /\ JobOK
    BY DEF CtlOK, JobOK, Idle
  <1>4. PublishedOK
    BY DEF PublishedOK
  <1> QED
    BY <1>1, <1>2, <1>3, <1>4 DEF BaseInv

-----------------------------------------------------------------------------
\* What is outside the tables.

LEMMA OutsideNext ==
  ASSUME BaseInv, [Next]_vars
  PROVE  OutsideOK'
  <1> USE ArchiveAssumption DEF ArchiveAssumption, BaseInv, OutsideOK, outside, db, process,
             bounds, history, Fault, Change
  <1>1. CASE BeginCycle
    BY <1>1 DEF BeginCycle, Controlling
  <1>2. CASE Observe
    BY <1>2 DEF Observe, Controlling, CtlOK, Snapshot
  <1>3. CASE StartWork
    BY <1>3 DEF StartWork
  <1>4. CASE Remove
    BY <1>4 DEF Remove, Controlling, CtlOK
  <1>5. CASE EndCycle
    BY <1>5 DEF EndCycle, Controlling
  <1>6. CASE CutCycle
    BY <1>6 DEF CutCycle
  <1>7. CASE ReadSample
    BY <1>7 DEF ReadSample, Analysing
  <1>8. CASE Upload
    BY <1>8 DEF Upload, Analysing
  <1>9. CASE JobDropped
    BY <1>9 DEF JobDropped, Analysing
  <1>10. CASE Crash
    <2>1. UNCHANGED <<qb, disk, removals, record, prev, enabled, operations, changes,
                      gone, taken, waived>>
      BY <1>10 DEF Crash
    <2>2. faults' \in 0..MaxFaults
      BY <1>10 DEF Crash
    <2>3. up' \in BOOLEAN
      BY <1>10, Zenon DEF Crash
    <2> QED
      BY <2>1, <2>2, <2>3
  <1>11. CASE Recover
    BY <1>11 DEF Recover, Snapshot, Torrent
  <1>12. ASSUME NEW h \in Hash, VerifyClaim(h) PROVE OutsideOK'
    BY <1>12 DEF VerifyClaim, Controlling
  <1>13. ASSUME NEW h \in Hash, VerifyWait(h) PROVE OutsideOK'
    BY <1>13 DEF VerifyWait, Controlling, Verifying
  <1>14. ASSUME NEW h \in Hash, VerifyOverdue(h) PROVE OutsideOK'
    BY <1>14 DEF VerifyOverdue, Controlling, Verifying
  <1>15. ASSUME NEW h \in Hash, VerifyFailed(h) PROVE OutsideOK'
    BY <1>15 DEF VerifyFailed, Controlling, Verifying
  <1>16. ASSUME NEW h \in Hash, CompleteArchive(h) PROVE OutsideOK'
    BY <1>16 DEF CompleteArchive, Controlling, Verifying, RowsOK, RowTypes, ArchiveRow
  <1>17. ASSUME NEW h \in Hash, ArchiveClaim(h) PROVE OutsideOK'
    BY <1>17 DEF ArchiveClaim, Controlling
  <1>18. ASSUME NEW h \in Hash, ArchiveNotDue(h) PROVE OutsideOK'
    BY <1>18 DEF ArchiveNotDue, Controlling
  <1>19. ASSUME NEW h \in Hash, ArchiveDue(h) PROVE OutsideOK'
    BY <1>19 DEF ArchiveDue, Controlling
  <1>20. ASSUME NEW h \in Hash, ArchiveRecord(h) PROVE OutsideOK'
    BY <1>20 DEF ArchiveRecord, Controlling
  <1>21. ASSUME NEW h \in Hash, ArchiveFailed(h) PROVE OutsideOK'
    BY <1>21 DEF ArchiveFailed, Controlling
  <1>22. ASSUME NEW h \in Hash, ManifestClaim(h) PROVE OutsideOK'
    BY <1>22 DEF ManifestClaim, Controlling
  <1>23. ASSUME NEW h \in Hash, ManifestSaved(h) PROVE OutsideOK'
    BY <1>23 DEF ManifestSaved, Controlling, Manifesting
  <1>24. ASSUME NEW h \in Hash, ManifestFailed(h) PROVE OutsideOK'
    BY <1>24 DEF ManifestFailed, Controlling, Manifesting
  <1>25. ASSUME NEW h \in Hash, MediaClaim(h) PROVE OutsideOK'
    BY <1>25 DEF MediaClaim
  <1>26. ASSUME NEW h \in Hash, StoreSample(h) PROVE OutsideOK'
    BY <1>26 DEF StoreSample, Settle, Analysing
  <1>27. ASSUME NEW h \in Hash, NothingToSample(h) PROVE OutsideOK'
    BY <1>27 DEF NothingToSample, Settle, Analysing
  <1>28. ASSUME NEW h \in Hash, MediaRetry(h) PROVE OutsideOK'
    BY <1>28 DEF MediaRetry, Settle, Analysing
  <1>29. ASSUME NEW h \in Hash, DeferDependency(h) PROVE OutsideOK'
    BY <1>29 DEF DeferDependency, Settle, Analysing
  <1>30. ASSUME NEW h \in Hash, Delivered(h) PROVE OutsideOK'
    BY <1>30 DEF Delivered, Settle, Analysing
  <1>31. ASSUME NEW h \in Hash, OperatorRetryArchive(h) PROVE OutsideOK'
    BY <1>31 DEF OperatorRetryArchive, Operating
  <1>32. ASSUME NEW h \in Hash, OperatorCancelArchive(h) PROVE OutsideOK'
    BY <1>32 DEF OperatorCancelArchive, Operating
  <1>33. ASSUME NEW h \in Hash, OperatorRetryMedia(h) PROVE OutsideOK'
    BY <1>33 DEF OperatorRetryMedia, Operating
  <1>34. ASSUME NEW h \in Hash, OperatorCancelMedia(h) PROVE OutsideOK'
    BY <1>34 DEF OperatorCancelMedia, Operating
  <1>35. ASSUME NEW h \in Hash, Expire(h) PROVE OutsideOK'
    BY <1>35 DEF Expire
  <1>36. ASSUME NEW h \in Hash, Land(h) PROVE OutsideOK'
    BY <1>36 DEF Land, QBUnchanged, Snapshot, Torrent
  <1>37. ASSUME NEW h \in Hash, Lose(h) PROVE OutsideOK'
    BY <1>37 DEF Lose, QBUnchanged
  <1>38. ASSUME NEW h \in Hash, Finish(h) PROVE OutsideOK'
    BY <1>38 DEF Finish, QBUnchanged, Snapshot, Torrent, Absent, Place
  <1>39. ASSUME NEW h \in Hash, ByHand(h) PROVE OutsideOK'
    BY <1>39 DEF ByHand, QBUnchanged, Snapshot, Torrent, Absent, Place, Complete, Present
  <1>40. CASE UNCHANGED vars
    BY <1>40 DEF vars
  <1> QED
    BY <1>1, <1>2, <1>3, <1>4, <1>5, <1>6, <1>7, <1>8, <1>9, <1>10, <1>11, <1>12, <1>13, <1>14,
       <1>15, <1>16, <1>17, <1>18, <1>19, <1>20, <1>21, <1>22, <1>23, <1>24, <1>25, <1>26,
       <1>27, <1>28, <1>29, <1>30, <1>31, <1>32, <1>33, <1>34, <1>35, <1>36, <1>37, <1>38,
       <1>39, <1>40
    DEF Next, Cycle, Step, Operator

-----------------------------------------------------------------------------
\* The tables.

LEMMA Unwritten ==
  ASSUME NEW S, NEW T, NEW f \in [S -> T], NEW x \in S
  PROVE  f = [f EXCEPT ![x] = f[x]]
  OBVIOUS

\* Rows of one torrent that are in order leave the tables in order.
LEMMA WriteRows ==
  ASSUME RowsOK, NEW h \in Hash,
         NEW a \in ArchiveRow, NEW m \in MediaTask, NEW own \in Owner, NEW out \in Outcome,
         TaskOK(a, m, own, out),
         archive' = [archive EXCEPT ![h] = a], media' = [media EXCEPT ![h] = m],
         owner' = [owner EXCEPT ![h] = own], done' = [done EXCEPT ![h] = out]
  PROVE  RowsOK'
  <1>1. RowTypes'
    BY DEF RowsOK, RowTypes
  <1>2. ASSUME NEW x \in Hash
        PROVE  TaskOK(archive'[x], media'[x], owner'[x], done'[x])
    <2>1. CASE x = h
      BY <2>1 DEF RowsOK, RowTypes
    <2>2. CASE x # h
      BY <2>2 DEF RowsOK, RowTypes
    <2> QED
      BY <2>1, <2>2
  <1> QED
    BY <1>1, <1>2 DEF RowsOK, TaskOK, SamplesOK

LEMMA WriteArchive ==
  ASSUME RowsOK, NEW h \in Hash, NEW a \in ArchiveRow, NEW own \in Owner,
         TaskOK(a, media[h], own, done[h]),
         archive' = [archive EXCEPT ![h] = a], owner' = [owner EXCEPT ![h] = own],
         UNCHANGED <<media, done>>
  PROVE  RowsOK'
  <1>1. media' = [media EXCEPT ![h] = media[h]] /\ done' = [done EXCEPT ![h] = done[h]]
    BY Unwritten DEF RowsOK, RowTypes
  <1> QED
    BY <1>1, WriteRows DEF RowsOK, RowTypes

LEMMA WriteMedia ==
  ASSUME RowsOK, NEW h \in Hash, NEW m \in MediaTask, NEW own \in Owner,
         TaskOK(archive[h], m, own, done[h]),
         media' = [media EXCEPT ![h] = m], owner' = [owner EXCEPT ![h] = own],
         UNCHANGED <<archive, done>>
  PROVE  RowsOK'
  <1>1. archive' = [archive EXCEPT ![h] = archive[h]] /\ done' = [done EXCEPT ![h] = done[h]]
    BY Unwritten DEF RowsOK, RowTypes
  <1> QED
    BY <1>1, WriteRows DEF RowsOK, RowTypes

LEMMA RowsOf ==
  ASSUME RowsOK, NEW h \in Hash
  PROVE  /\ archive[h] \in ArchiveRow /\ media[h] \in MediaTask
         /\ owner[h] \in Owner /\ done[h] \in Outcome
         /\ TaskOK(archive[h], media[h], owner[h], done[h])
  BY DEF RowsOK, RowTypes

LEMMA SeedingPlace ==
  ASSUME NEW snap \in Snapshot, NEW h \in Complete(snap)
  PROVE  snap[h].loc \in Loc
  BY DEF Snapshot, Torrent, Absent, Complete

\* The row that a sample is stored in: full, it is a payload.
LEMMA StoredRow ==
  ASSUME NEW row \in MediaTask, ~row.held, row.files, row.loc # NoLoc,
         NEW n \in 1..Samples, row.samples = Pieces(n, row.loc)
  PROVE  LET full == Cardinality(row.samples) = Samples
             new == [row EXCEPT !.phase = IF full THEN "upload" ELSE "extract",
                                !.payload = full, !.attempts = 0] IN
         /\ new \in MediaTask /\ SamplesOK(new) /\ ~new.held
         /\ new.phase \in {"extract", "upload"} /\ new.loc = row.loc
  <1> DEFINE full == Cardinality(row.samples) = Samples
             phase == IF full THEN "upload" ELSE "extract"
             new == [row EXCEPT !.phase = phase, !.payload = full, !.attempts = 0]
  <1>1. full \in BOOLEAN /\ (full <=> n = Samples)
    BY PiecesCount, ArchiveAssumption DEF ArchiveAssumption
  <1>2. (full /\ phase = "upload") \/ (~full /\ phase = "extract" /\ n \in 0..(Samples - 1))
    BY <1>1, ArchiveAssumption DEF ArchiveAssumption
  <1> HIDE DEF full, phase
  <1>3. /\ new \in MediaTask /\ ~new.held /\ new.phase = phase /\ new.loc = row.loc
        /\ new.payload = full /\ new.files = row.files /\ new.samples = row.samples
    BY <1>1, <1>2 DEF MediaTask
  <1> HIDE DEF new
  <1>4. SamplesOK(new)
    BY <1>1, <1>2, <1>3 DEF SamplesOK
  <1>5. new.phase \in {"extract", "upload"}
    BY <1>2, <1>3
  <1> QED
    BY <1>3, <1>4, <1>5 DEF new, phase, full

\* The rows that a verification writes.
LEMMA VerifyRows ==
  ASSUME BaseInv, NEW h \in Hash,
         \/ VerifyClaim(h) \/ VerifyWait(h) \/ VerifyOverdue(h) \/ VerifyFailed(h)
         \/ CompleteArchive(h)
  PROVE  RowsOK'
  <1> USE ArchiveAssumption DEF ArchiveAssumption, BaseInv
  <1>1. CASE VerifyClaim(h)
    <2> DEFINE a == [archive[h] EXCEPT !.held = TRUE]
    <2>1. /\ archive' = [archive EXCEPT ![h] = a] /\ owner' = [owner EXCEPT ![h] = "control"]
          /\ UNCHANGED <<media, done>>
      BY <1>1 DEF VerifyClaim, Controlling, Own
    <2>2. a \in ArchiveRow /\ TaskOK(a, media[h], "control", done[h]) /\ "control" \in Owner
      BY <1>1, RowsOf, HeldArchive DEF TaskOK, VerifyClaim, Verifiable, Free, Owner
    <2> HIDE DEF a
    <2> QED
      BY <2>1, <2>2, WriteArchive
  <1>2. CASE VerifyWait(h)
    <2> DEFINE a == [archive[h] EXCEPT !.held = FALSE, !.attempts = 0]
    <2>0. archive[h].held /\ archive[h].phase = "verifying"
      BY <1>2 DEF VerifyWait, Controlling, Verifying, CtlOK
    <2>1. /\ archive' = [archive EXCEPT ![h] = a] /\ owner' = [owner EXCEPT ![h] = "free"]
          /\ UNCHANGED <<media, done>>
      BY <1>2 DEF VerifyWait, Controlling, Verifying, Own, RowsOK, RowTypes, ArchiveRow
    <2>2. a \in ArchiveRow /\ TaskOK(a, media[h], "free", done[h]) /\ "free" \in Owner
      BY <1>2, RowsOf, WaitingArchive, <2>0 DEF TaskOK, Owner
    <2> HIDE DEF a
    <2> QED
      BY <2>1, <2>2, WriteArchive
  <1>3. CASE VerifyOverdue(h)
    <2> DEFINE a == [archive[h] EXCEPT !.phase = ReturnPhase(archive[h].subs),
                                        !.held = FALSE, !.attempts = archive[h].attempts + 1]
    <2>0. archive[h].held /\ archive[h].phase = "verifying"
      BY <1>3 DEF VerifyOverdue, Controlling, Verifying, CtlOK
    <2>1. /\ archive' = [archive EXCEPT ![h] = a] /\ owner' = [owner EXCEPT ![h] = "free"]
          /\ UNCHANGED <<media, done>>
      BY <1>3 DEF VerifyOverdue, Controlling, Verifying, Own, RowsOK, RowTypes, ArchiveRow
    <2>2. a \in ArchiveRow /\ TaskOK(a, media[h], "free", done[h]) /\ "free" \in Owner
      BY <1>3, RowsOf, OverdueArchive, <2>0 DEF TaskOK, Owner
    <2> HIDE DEF a
    <2> QED
      BY <2>1, <2>2, WriteArchive
  <1>4. CASE VerifyFailed(h)
    <2> DEFINE a == Retried(archive[h])
    <2>0. archive[h].held /\ archive[h].phase = "verifying"
      BY <1>4 DEF VerifyFailed, Controlling, Verifying, CtlOK
    <2>1. /\ archive' = [archive EXCEPT ![h] = a] /\ owner' = [owner EXCEPT ![h] = "free"]
          /\ UNCHANGED <<media, done>>
      BY <1>4 DEF VerifyFailed, Controlling, Verifying, Own
    <2>2. a \in ArchiveRow /\ TaskOK(a, media[h], "free", done[h]) /\ "free" \in Owner
      BY <1>4, RowsOf, RetriedArchive, <2>0 DEF TaskOK, Owner
    <2> HIDE DEF a
    <2> QED
      BY <2>1, <2>2, WriteArchive
  <1>5. CASE CompleteArchive(h)
    <2>1. archive[h].held /\ archive[h].phase = "verifying"
      BY <1>5 DEF CompleteArchive, Verifying, Controlling, CtlOK
    <2>2. archive[h].loc \in Loc
      BY <2>1, RowsOf DEF TaskOK, ArchiveRow, Place
    <2> DEFINE m == AfterArchive(h)
    <2>3. m \in MediaTask /\ SamplesOK(m) /\ ~m.held /\ (done[h] # "none" => m.phase = "none")
      <3>1. CASE m = media[h]
        BY <2>1, <3>1, RowsOf DEF TaskOK
      <3>2. CASE m = MediaRow("extract", archive[h].loc, TRUE) /\ done[h] = "none"
        <4>1. archive[h].loc \in Place /\ archive[h].loc # NoLoc
          BY <2>2, ArchiveAssumption DEF ArchiveAssumption, Place
        <4> HIDE DEF m
        <4>2. MediaRow("extract", archive[h].loc, TRUE) \in MediaTask
          BY <4>1, FreshRow
        <4>3. /\ SamplesOK(MediaRow("extract", archive[h].loc, TRUE))
              /\ ~MediaRow("extract", archive[h].loc, TRUE).held
          BY <4>1, FreshRow
        <4> QED
          BY <3>2, <4>2, <4>3
      <3> QED
        BY <3>1, <3>2, RowsOf DEF AfterArchive, TaskOK
    <2>4. /\ archive' = [archive EXCEPT ![h] = NoArchive] /\ media' = [media EXCEPT ![h] = m]
          /\ owner' = [owner EXCEPT ![h] = "free"] /\ done' = [done EXCEPT ![h] = done[h]]
      BY <1>5, Unwritten DEF CompleteArchive, Verifying, Own, RowsOK, RowTypes
    <2> HIDE DEF m
    <2>5. TaskOK(NoArchive, m, "free", done[h]) /\ "free" \in Owner
      BY <2>3, NoArchiveRow DEF TaskOK, Owner
    <2> QED
      BY <2>3, <2>4, <2>5, RowsOf, NoArchiveRow, WriteRows
  <1> QED
    BY <1>1, <1>2, <1>3, <1>4, <1>5

\* The rows that an archive step writes.
LEMMA ArchiveRows ==
  ASSUME BaseInv, NEW h \in Hash,
         \/ ArchiveClaim(h) \/ ArchiveNotDue(h) \/ ArchiveRecord(h) \/ ArchiveFailed(h)
  PROVE  RowsOK'
  <1> USE ArchiveAssumption DEF ArchiveAssumption, BaseInv
  <1>1. CASE ArchiveClaim(h)
    <2> DEFINE a == [archive[h] EXCEPT !.held = TRUE]
    <2>1. /\ archive' = [archive EXCEPT ![h] = a] /\ owner' = [owner EXCEPT ![h] = "control"]
          /\ UNCHANGED <<media, done>>
      BY <1>1 DEF ArchiveClaim, Controlling, Own
    <2>2. a \in ArchiveRow /\ TaskOK(a, media[h], "control", done[h]) /\ "control" \in Owner
      BY <1>1, RowsOf, HeldArchive DEF TaskOK, ArchiveClaim, Archivable, Free, Owner
    <2> HIDE DEF a
    <2> QED
      BY <2>1, <2>2, WriteArchive
  <1>2. CASE ArchiveNotDue(h)
    <2> DEFINE a == NoArchive
    <2>0. archive[h].held /\ archive[h].phase = "ready"
      BY <1>2 DEF ArchiveNotDue, Controlling, CtlOK
    <2>1. /\ archive' = [archive EXCEPT ![h] = a] /\ owner' = [owner EXCEPT ![h] = "free"]
          /\ UNCHANGED <<media, done>>
      BY <1>2 DEF ArchiveNotDue, Controlling, Own
    <2>2. a \in ArchiveRow /\ TaskOK(a, media[h], "free", done[h]) /\ "free" \in Owner
      BY <1>2, RowsOf, NoArchiveRow, <2>0 DEF TaskOK, Owner
    <2> HIDE DEF a
    <2> QED
      BY <2>1, <2>2, WriteArchive
  <1>3. CASE ArchiveRecord(h)
    <2> DEFINE a == [phase |-> "verifying", held |-> FALSE, attempts |-> 0, loc |-> ctl.loc,
                    subs |-> archive[h].subs + 1]
    <2>0. archive[h].held /\ archive[h].phase = "ready" /\ ctl.loc \in Loc
      BY <1>3 DEF ArchiveRecord, Controlling, CtlOK
    <2>1. /\ archive' = [archive EXCEPT ![h] = a] /\ owner' = [owner EXCEPT ![h] = "free"]
          /\ UNCHANGED <<media, done>>
      BY <1>3 DEF ArchiveRecord, Controlling, Own
    <2>2. a \in ArchiveRow /\ TaskOK(a, media[h], "free", done[h]) /\ "free" \in Owner
      BY <1>3, RowsOf, <2>0 DEF TaskOK, Owner, ArchiveRow, Place
    <2> HIDE DEF a
    <2> QED
      BY <2>1, <2>2, WriteArchive
  <1>4. CASE ArchiveFailed(h)
    <2> DEFINE a == Retried(archive[h])
    <2>0. archive[h].held /\ archive[h].phase = "ready"
      BY <1>4 DEF ArchiveFailed, Controlling, CtlOK
    <2>1. /\ archive' = [archive EXCEPT ![h] = a] /\ owner' = [owner EXCEPT ![h] = "free"]
          /\ UNCHANGED <<media, done>>
      BY <1>4 DEF ArchiveFailed, Controlling, Own
    <2>2. a \in ArchiveRow /\ TaskOK(a, media[h], "free", done[h]) /\ "free" \in Owner
      BY <1>4, RowsOf, RetriedArchive, <2>0 DEF TaskOK, Owner
    <2> HIDE DEF a
    <2> QED
      BY <2>1, <2>2, WriteArchive
  <1> QED
    BY <1>1, <1>2, <1>3, <1>4

\* The rows that a manifest writes.
LEMMA ManifestRows ==
  ASSUME BaseInv, NEW h \in Hash,
         \/ ManifestClaim(h) \/ ManifestSaved(h) \/ ManifestFailed(h)
  PROVE  RowsOK'
  <1> USE ArchiveAssumption DEF ArchiveAssumption, BaseInv
  <1>1. CASE ManifestClaim(h)
    <2> DEFINE m == [media[h] EXCEPT !.held = TRUE]
    <2>1. /\ media' = [media EXCEPT ![h] = m] /\ owner' = [owner EXCEPT ![h] = "control"]
          /\ UNCHANGED <<archive, done>>
      BY <1>1 DEF ManifestClaim, Controlling, Own
    <2>2. m \in MediaTask /\ TaskOK(archive[h], m, "control", done[h]) /\ "control" \in Owner
      BY <1>1, RowsOf, HeldRow DEF TaskOK, ManifestClaim, Manifestable, Free, Owner
    <2> HIDE DEF m
    <2> QED
      BY <2>1, <2>2, WriteMedia
  <1>2. CASE ManifestSaved(h)
    <2>1. PICK loc \in Loc : media' = [media EXCEPT ![h] = MediaRow("extract", loc, TRUE)]
      <3>1. CASE /\ h \in Complete(ctl.snap)
                 /\ media' = [media EXCEPT ![h] = MediaRow("extract", ctl.snap[h].loc, TRUE)]
        <4>1. ctl.snap[h].loc \in Loc
          BY <1>2, <3>1, SeedingPlace DEF ManifestSaved, Manifesting, Controlling, CtlOK
        <4> QED
          BY <3>1, <4>1
      <3>2. CASE /\ record[h] # NoLoc
                 /\ media' = [media EXCEPT ![h] = MediaRow("extract", record[h], TRUE)]
        BY <3>2 DEF OutsideOK, Place
      <3> QED
        BY <1>2, <3>1, <3>2 DEF ManifestSaved
    <2>2. media[h].held /\ media[h].phase = "manifest"
      BY <1>2 DEF ManifestSaved, Manifesting, Controlling, CtlOK
    <2>3. owner' = [owner EXCEPT ![h] = "free"] /\ UNCHANGED <<archive, done>>
      BY <1>2 DEF ManifestSaved, Manifesting, Own
    <2> DEFINE m == MediaRow("extract", loc, TRUE)
    <2>4. m \in MediaTask /\ SamplesOK(m) /\ ~m.held
      BY FreshRow DEF Place
    <2> HIDE DEF m
    <2>5. TaskOK(archive[h], m, "free", done[h]) /\ "free" \in Owner
      BY <2>2, <2>4, RowsOf DEF TaskOK, Owner
    <2> QED
      BY <2>1, <2>3, <2>4, <2>5, WriteMedia DEF m
  <1>3. CASE ManifestFailed(h)
    <2> DEFINE m == Retried(media[h])
    <2>0. media[h].held /\ media[h].phase = "manifest"
      BY <1>3 DEF ManifestFailed, Manifesting, Controlling, CtlOK
    <2>1. /\ media' = [media EXCEPT ![h] = m] /\ owner' = [owner EXCEPT ![h] = "free"]
          /\ UNCHANGED <<archive, done>>
      BY <1>3 DEF ManifestFailed, Controlling, Manifesting, Own
    <2>2. m \in MediaTask /\ TaskOK(archive[h], m, "free", done[h]) /\ "free" \in Owner
      BY <1>3, RowsOf, RetriedRow, <2>0 DEF TaskOK, Owner
    <2> HIDE DEF m
    <2> QED
      BY <2>1, <2>2, WriteMedia
  <1> QED
    BY <1>1, <1>2, <1>3

\* The rows that the media goroutine writes.
LEMMA MediaRows ==
  ASSUME BaseInv, NEW h \in Hash,
         \/ MediaClaim(h) \/ StoreSample(h) \/ MediaRetry(h) \/ DeferDependency(h)
         \/ NothingToSample(h) \/ Delivered(h)
  PROVE  RowsOK'
  <1> USE ArchiveAssumption DEF ArchiveAssumption, BaseInv
  <1>1. CASE MediaClaim(h)
    <2> DEFINE m == [media[h] EXCEPT !.held = TRUE]
    <2>1. /\ media' = [media EXCEPT ![h] = m] /\ owner' = [owner EXCEPT ![h] = "media"]
          /\ UNCHANGED <<archive, done>>
      BY <1>1 DEF MediaClaim, Own, Free
    <2>2. m \in MediaTask /\ TaskOK(archive[h], m, "media", done[h]) /\ "media" \in Owner
      BY <1>1, RowsOf, HeldRow DEF TaskOK, MediaClaim, Free, Owner
    <2> HIDE DEF m
    <2> QED
      BY <2>1, <2>2, WriteMedia
  <1>2. CASE StoreSample(h)
    <2>1. /\ job.h = h /\ media[h].held /\ media[h].phase = "extract"
          /\ job.row \in MediaTask /\ ~job.row.held /\ job.row.files /\ job.row.loc # NoLoc
          /\ \E k \in 1..Samples : job.row.samples = Pieces(k, job.row.loc)
      BY <1>2 DEF StoreSample, Settle, JobOK, JobRow, Idle
    <2>2. PICK m \in MediaTask : /\ media' = [media EXCEPT ![h] = m]
                               /\ SamplesOK(m) /\ ~m.held
      BY <1>2, <2>1, StoredRow DEF StoreSample, Settle
    <2>3. owner' = [owner EXCEPT ![h] = "free"] /\ UNCHANGED <<archive, done>>
      BY <1>2 DEF StoreSample, Settle, Analysing, Own
    <2>4. TaskOK(archive[h], m, "free", done[h]) /\ "free" \in Owner
      BY <2>1, <2>2, RowsOf DEF TaskOK, Owner
    <2> QED
      BY <2>2, <2>3, <2>4, WriteMedia
  <1>3. CASE MediaRetry(h)
    <2> DEFINE m == Retried(media[h])
    <2>0. media[h].held /\ media[h].phase \in {"extract", "upload"}
      BY <1>3 DEF MediaRetry, Settle, JobOK, Idle
    <2>1. /\ media' = [media EXCEPT ![h] = m] /\ owner' = [owner EXCEPT ![h] = "free"]
          /\ UNCHANGED <<archive, done>>
      BY <1>3 DEF MediaRetry, Settle, Analysing, Own
    <2>2. m \in MediaTask /\ TaskOK(archive[h], m, "free", done[h]) /\ "free" \in Owner
      BY <1>3, RowsOf, RetriedRow, <2>0 DEF TaskOK, Owner
    <2> HIDE DEF m
    <2> QED
      BY <2>1, <2>2, WriteMedia
  <1>4. CASE DeferDependency(h)
    <2> DEFINE m == [media[h] EXCEPT !.held = FALSE]
    <2>0. media[h].held
      BY <1>4 DEF DeferDependency, Settle
    <2>1. /\ media' = [media EXCEPT ![h] = m] /\ owner' = [owner EXCEPT ![h] = "free"]
          /\ UNCHANGED <<archive, done>>
      BY <1>4 DEF DeferDependency, Settle, Analysing, Own
    <2>2. m \in MediaTask /\ TaskOK(archive[h], m, "free", done[h]) /\ "free" \in Owner
      BY <1>4, RowsOf, HeldRow, <2>0 DEF TaskOK, Owner
    <2> HIDE DEF m
    <2> QED
      BY <2>1, <2>2, WriteMedia
  <1>5. CASE NothingToSample(h) \/ Delivered(h)
    <2>1. PICK out \in Outcome :
            /\ archive' = archive /\ media' = [media EXCEPT ![h] = NoMedia]
            /\ owner' = [owner EXCEPT ![h] = "free"] /\ done' = [done EXCEPT ![h] = out]
      BY <1>5 DEF NothingToSample, Delivered, Settle, Analysing, Own, Outcome
    <2>2. media[h].held
      BY <1>5 DEF NothingToSample, Delivered, Settle
    <2>3. archive' = [archive EXCEPT ![h] = archive[h]]
      BY <2>1, Unwritten DEF RowsOK, RowTypes
    <2>4. TaskOK(archive[h], NoMedia, "free", out) /\ "free" \in Owner
      BY <2>2, RowsOf, NoMediaRow DEF TaskOK, NoMedia, Owner
    <2> QED
      BY <2>1, <2>3, <2>4, RowsOf, NoMediaRow, WriteRows
  <1> QED
    BY <1>1, <1>2, <1>3, <1>4, <1>5

\* A lease that ends frees both rows and the owner.
LEMMA ExpireRows ==
  ASSUME BaseInv, NEW h \in Hash, Expire(h)
  PROVE  RowsOK'
  <1> USE ArchiveAssumption DEF ArchiveAssumption, BaseInv
  <1> DEFINE a == [archive[h] EXCEPT !.held = FALSE]
             m == [media[h] EXCEPT !.held = FALSE]
  <1>1. /\ archive' = [archive EXCEPT ![h] = a] /\ media' = [media EXCEPT ![h] = m]
        /\ owner' = [owner EXCEPT ![h] = "free"] /\ done' = [done EXCEPT ![h] = done[h]]
    BY Unwritten DEF Expire, Own, RowsOK, RowTypes
  <1>2. /\ a \in ArchiveRow /\ m \in MediaTask /\ TaskOK(a, m, "free", done[h])
        /\ "free" \in Owner
    <2>1. /\ a \in ArchiveRow /\ ~a.held /\ a.phase = archive[h].phase
          /\ a.loc = archive[h].loc /\ a.subs = archive[h].subs
      BY RowsOf, HeldArchive
    <2>2. m \in MediaTask /\ SamplesOK(m) /\ ~m.held /\ m.phase = media[h].phase
      BY RowsOf, HeldRow DEF TaskOK
    <2> HIDE DEF a, m
    <2> QED
      BY <2>1, <2>2, RowsOf DEF TaskOK, Owner
  <1> HIDE DEF a, m
  <1> QED
    BY <1>1, <1>2, RowsOf, WriteRows

\* The rows that an operator writes carry no claim.
LEMMA OperatorRows ==
  ASSUME BaseInv, NEW h \in Hash,
         \/ OperatorRetryArchive(h) \/ OperatorCancelArchive(h)
         \/ OperatorRetryMedia(h) \/ OperatorCancelMedia(h)
  PROVE  RowsOK'
  <1> USE ArchiveAssumption DEF ArchiveAssumption, BaseInv
  <1>0. owner' = [owner EXCEPT ![h] = owner[h]]
    <2>1. owner' = owner
      BY DEF OperatorRetryArchive, OperatorCancelArchive, OperatorRetryMedia,
         OperatorCancelMedia, Operating
    <2> QED
      BY <2>1, Unwritten DEF RowsOK, RowTypes
  <1>1. CASE OperatorRetryArchive(h)
    <2>1. ~archive[h].held /\ UNCHANGED <<media, done>>
      BY <1>1 DEF OperatorRetryArchive, Operable
    <2>2. CASE archive[h].phase = "blocked"
      <3> DEFINE phase == RetryPhase(archive[h])
                 a == [archive[h] EXCEPT !.phase = phase, !.subs = 0, !.attempts = 0]
      <3>1. /\ phase \in {"ready", "verifying"} /\ 0 \in 0..MaxAttempts /\ 0 < MaxAttempts
            /\ phase = "verifying" => archive[h].loc # NoLoc
        BY DEF RetryPhase
      <3>2. archive' = [archive EXCEPT ![h] = a]
        BY <1>1, <2>2 DEF OperatorRetryArchive
      <3> HIDE DEF phase
      <3>3. /\ a \in ArchiveRow /\ ~a.held /\ a.phase = phase /\ a.subs = 0
            /\ a.loc = archive[h].loc
        BY <2>1, <3>1, RowsOf DEF ArchiveRow
      <3> HIDE DEF a
      <3>4. TaskOK(a, media[h], owner[h], done[h])
        BY <3>1, <3>3, RowsOf DEF TaskOK
      <3> QED
        BY <1>0, <2>1, <3>2, <3>3, <3>4, RowsOf, WriteArchive
    <2>3. CASE archive[h].phase # "blocked"
      <3> DEFINE a == [archive[h] EXCEPT !.attempts = 0]
      <3>1. archive' = [archive EXCEPT ![h] = a]
        BY <1>1, <2>3 DEF OperatorRetryArchive
      <3>2. /\ a \in ArchiveRow /\ ~a.held /\ a.phase = archive[h].phase
            /\ a.subs = archive[h].subs /\ a.loc = archive[h].loc
        BY <2>1, RowsOf DEF ArchiveRow
      <3> HIDE DEF a
      <3>3. TaskOK(a, media[h], owner[h], done[h])
        BY <3>2, RowsOf DEF TaskOK
      <3> QED
        BY <1>0, <2>1, <3>1, <3>2, <3>3, RowsOf, WriteArchive
    <2> QED
      BY <2>2, <2>3
  <1>2. CASE OperatorCancelArchive(h)
    <2>1. archive' = [archive EXCEPT ![h] = NoArchive] /\ UNCHANGED <<media, done>>
      BY <1>2 DEF OperatorCancelArchive
    <2>2. TaskOK(NoArchive, media[h], owner[h], done[h])
      BY RowsOf, NoArchiveRow DEF TaskOK
    <2> QED
      BY <1>0, <2>1, <2>2, RowsOf, NoArchiveRow, WriteArchive
  <1>3. CASE OperatorRetryMedia(h)
    <2>1. /\ ~media[h].held /\ media[h].phase # "none" /\ UNCHANGED <<archive, done>>
          /\ media[h] \in MediaTask /\ SamplesOK(media[h])
      BY <1>3, RowsOf DEF OperatorRetryMedia, Operable, TaskOK
    <2>2. PICK m \in MediaTask : /\ media' = [media EXCEPT ![h] = m]
                               /\ SamplesOK(m) /\ ~m.held
      <3>1. CASE media[h].phase # "blocked"
        <4> DEFINE m == [media[h] EXCEPT !.attempts = 0]
        <4>1. m \in MediaTask /\ SamplesOK(m) /\ ~m.held
          BY <2>1 DEF MediaTask, SamplesOK
        <4> QED
          BY <1>3, <3>1, <4>1 DEF OperatorRetryMedia
      <3>2. CASE media[h].phase = "blocked" /\ media[h].payload
        <4> DEFINE m == [media[h] EXCEPT !.phase = "upload", !.attempts = 0]
        <4>1. m \in MediaTask /\ SamplesOK(m) /\ ~m.held
          BY <2>1, <3>2 DEF MediaTask, SamplesOK
        <4> QED
          BY <1>3, <3>2, <4>1 DEF OperatorRetryMedia
      <3>3. CASE media[h].phase = "blocked" /\ ~media[h].payload
        <4> DEFINE m == MediaRow("manifest", media[h].loc, FALSE)
        <4>1. media[h].loc \in Place
          BY <2>1 DEF MediaTask
        <4>2. m \in MediaTask /\ SamplesOK(m) /\ ~m.held
          BY <4>1, FreshRow
        <4> QED
          BY <1>3, <3>3, <4>2 DEF OperatorRetryMedia
      <3> QED
        BY <2>1, <3>1, <3>2, <3>3 DEF MediaTask
    <2>3. TaskOK(archive[h], m, owner[h], done[h])
      BY <2>1, <2>2, RowsOf DEF TaskOK
    <2> QED
      BY <1>0, <2>1, <2>2, <2>3, RowsOf, WriteMedia
  <1>4. CASE OperatorCancelMedia(h)
    <2>1. /\ archive' = [archive EXCEPT ![h] = archive[h]]
          /\ media' = [media EXCEPT ![h] = NoMedia] /\ done' = [done EXCEPT ![h] = "cancelled"]
      BY <1>4, Unwritten DEF OperatorCancelMedia, RowsOK, RowTypes
    <2>2. "cancelled" \in Outcome /\ TaskOK(archive[h], NoMedia, owner[h], "cancelled")
      BY RowsOf, NoMediaRow DEF TaskOK, NoMedia, Outcome
    <2> QED
      BY <1>0, <2>1, <2>2, RowsOf, NoMediaRow, WriteRows
  <1> QED
    BY <1>1, <1>2, <1>3, <1>4

\* Observe: a row is as it was, or starts over without its claim.
LEMMA ObservedRow ==
  ASSUME RowsOK, NEW h \in Hash, NEW t \in Torrent
  PROVE  LET m == Observed(h, t) IN
         \/ m = media[h]
         \/ /\ m = MediaRow("manifest", t.loc, FALSE) /\ done[h] = "none"
            /\ m \in MediaTask /\ SamplesOK(m) /\ ~m.held
  <1>1. t.loc \in Place
    BY DEF Torrent, Absent, Place
  <1> DEFINE m == MediaRow("manifest", t.loc, FALSE)
  <1>2. m \in MediaTask /\ SamplesOK(m) /\ ~m.held
    BY <1>1, FreshRow
  <1>3. Observed(h, t) = media[h] \/ (Observed(h, t) = m /\ done[h] = "none")
    BY DEF Observed, MovedRow
  <1> QED
    BY <1>2, <1>3

\* The steps that write many rows at once.
LEMMA SweepRows ==
  ASSUME BaseInv, Observe \/ StartWork \/ Recover
  PROVE  RowsOK'
  <1> USE ArchiveAssumption DEF ArchiveAssumption, BaseInv
  <1>1. CASE Observe
    <2>1. UNCHANGED <<archive, owner, done>> /\ ctl.snap \in Snapshot
      BY <1>1 DEF Observe, Controlling, CtlOK
    <2>2. media' = [x \in Hash |-> Observed(x, ctl.snap[x])]
      BY <1>1 DEF Observe
    <2>3. ASSUME NEW x \in Hash
          PROVE  media'[x] \in MediaTask /\ TaskOK(archive[x], media'[x], owner[x], done[x])
      <3>1. ctl.snap[x] \in Torrent /\ media'[x] = Observed(x, ctl.snap[x])
        BY <2>1, <2>2 DEF Snapshot
      <3> QED
        BY <3>1, ObservedRow, RowsOf DEF TaskOK
    <2>4. media' \in [Hash -> MediaTask]
      BY <2>2, <2>3
    <2> QED
      BY <2>1, <2>3, <2>4 DEF RowsOK, RowTypes
  <1>2. CASE StartWork
    <2>1. UNCHANGED <<media, owner, done>>
      BY <1>2 DEF StartWork
    <2>2. archive' = [x \in Hash |-> archive'[x]]
      BY <1>2 DEF StartWork
    <2>3. ASSUME NEW x \in Hash
          PROVE  archive'[x] \in {archive[x], NoArchive, [NoArchive EXCEPT !.phase = "ready"]}
      BY <1>2 DEF StartWork
    <2>4. ASSUME NEW x \in Hash
          PROVE  /\ archive'[x] \in ArchiveRow
                 /\ TaskOK(archive'[x], media[x], owner[x], done[x])
      <3>1. CASE archive'[x] = archive[x]
        BY <3>1, RowsOf
      <3>2. CASE archive'[x] = NoArchive
        BY <3>2, RowsOf, NoArchiveRow DEF TaskOK
      <3>3. CASE archive'[x] = [NoArchive EXCEPT !.phase = "ready"]
        BY <3>3, RowsOf, NewArchive DEF TaskOK
      <3> QED
        BY <2>3, <3>1, <3>2, <3>3
    <2>5. archive' \in [Hash -> ArchiveRow]
      BY <2>2, <2>4
    <2> QED
      BY <2>1, <2>4, <2>5 DEF RowsOK, RowTypes
  <1>3. CASE Recover
    <2>1. /\ owner' = [x \in Hash |-> "free"] /\ done' = done
          /\ archive' = [x \in Hash |-> [archive[x] EXCEPT !.held = FALSE]]
          /\ media' = [x \in Hash |-> [media[x] EXCEPT !.held = FALSE]]
      BY <1>3 DEF Recover
    <2>2. ASSUME NEW x \in Hash
          PROVE  /\ archive'[x] \in ArchiveRow /\ ~archive'[x].held
                 /\ archive'[x].phase = archive[x].phase
                 /\ archive'[x].loc = archive[x].loc /\ archive'[x].subs = archive[x].subs
      BY <2>1, RowsOf, HeldArchive
    <2>3. ASSUME NEW x \in Hash
          PROVE  /\ media'[x] \in MediaTask /\ ~media'[x].held
                 /\ SamplesOK(media'[x]) /\ media'[x].phase = media[x].phase
      BY <2>1, RowsOf, HeldRow DEF TaskOK
    <2>4. RowTypes'
      BY <2>1, <2>2, <2>3 DEF RowsOK, RowTypes, Owner
    <2>5. ASSUME NEW x \in Hash
          PROVE  TaskOK(archive'[x], media'[x], owner'[x], done'[x])
      BY <2>1, <2>2, <2>3, RowsOf DEF TaskOK
    <2> QED
      BY <2>4, <2>5 DEF RowsOK, TaskOK, SamplesOK
  <1> QED
    BY <1>1, <1>2, <1>3

LEMMA RowsNext ==
  ASSUME BaseInv, [Next]_vars
  PROVE  RowsOK'
  <1>1. CASE Cycle
    <2>1. CASE BeginCycle \/ Remove \/ EndCycle \/ CutCycle
      <3>1. UNCHANGED <<archive, media, owner, done>>
        BY <2>1 DEF BeginCycle, Remove, EndCycle, CutCycle, db
      <3> QED
        BY <3>1 DEF BaseInv, RowsOK, RowTypes
    <2>2. ASSUME NEW h \in Hash, ArchiveDue(h)
          PROVE  RowsOK'
      <3>1. UNCHANGED <<archive, media, owner, done>>
        BY <2>2 DEF ArchiveDue, db
      <3> QED
        BY <3>1 DEF BaseInv, RowsOK, RowTypes
    <2> QED
      BY <1>1, <2>1, <2>2, SweepRows, VerifyRows, ArchiveRows, ManifestRows DEF Cycle
  <1>2. CASE Step
    <2>1. CASE ReadSample \/ Upload \/ JobDropped
      <3>1. UNCHANGED <<archive, media, owner, done>>
        BY <2>1 DEF ReadSample, Upload, JobDropped, Analysing
      <3> QED
        BY <3>1 DEF BaseInv, RowsOK, RowTypes
    <2> QED
      BY <1>2, <2>1, MediaRows DEF Step
  <1>3. CASE Operator
    BY <1>3, OperatorRows DEF Operator
  <1>4. CASE \/ Crash \/ UNCHANGED vars
             \/ \E h \in Hash : Land(h) \/ Lose(h) \/ Finish(h) \/ ByHand(h)
    <2>1. UNCHANGED <<archive, media, owner, done>>
      BY <1>4 DEF Crash, Land, Lose, Finish, ByHand, QBUnchanged, db, vars
    <2> QED
      BY <2>1 DEF BaseInv, RowsOK, RowTypes
  <1> QED
    BY <1>1, <1>2, <1>3, <1>4, SweepRows, ExpireRows DEF Next

-----------------------------------------------------------------------------
\* The goroutines.

\* The control goroutine is left alone by whoever leaves its rows alone.
LEMMA CtlKept ==
  ASSUME BaseInv, UNCHANGED <<ctl, up>>,
         ctl.pc \in {"verify", "look", "record", "remove"} =>
           /\ archive'[ctl.h].phase = archive[ctl.h].phase
           /\ archive[ctl.h].held /\ ctl.pc # "remove" => archive'[ctl.h].held,
         ctl.pc = "manifest" =>
           /\ owner'[ctl.h] = owner[ctl.h] /\ media'[ctl.h].held
           /\ media'[ctl.h].phase = media[ctl.h].phase
  PROVE  CtlOK'
  BY DEF BaseInv, CtlOK

LEMMA CycleCtl ==
  ASSUME BaseInv, Cycle
  PROVE  CtlOK'
  <1> USE DEF BaseInv, CtlOK, Idle, Controlling
  <1>1. CASE BeginCycle
    BY <1>1 DEF BeginCycle, OutsideOK
  <1>2. CASE Observe
    BY <1>2 DEF Observe
  <1>3. CASE StartWork
    BY <1>3 DEF StartWork
  <1>4. CASE Remove
    BY <1>4 DEF Remove, ToWork
  <1>5. CASE EndCycle
    BY <1>5 DEF EndCycle
  <1>6. CASE CutCycle
    BY <1>6 DEF CutCycle
  <1>7. ASSUME NEW h \in Hash, VerifyClaim(h) PROVE CtlOK'
    BY <1>7 DEF VerifyClaim, Verifiable, RowsOK, RowTypes, ArchiveRow
  <1>8. ASSUME NEW h \in Hash,
               VerifyWait(h) \/ VerifyOverdue(h) \/ VerifyFailed(h) \/ CompleteArchive(h)
        PROVE  CtlOK'
    BY <1>8 DEF VerifyWait, VerifyOverdue, VerifyFailed, CompleteArchive, Verifying
  <1>9. ASSUME NEW h \in Hash, ArchiveClaim(h) PROVE CtlOK'
    BY <1>9 DEF ArchiveClaim, Archivable, Goes, RowsOK, RowTypes, ArchiveRow
  <1>10. ASSUME NEW h \in Hash, ArchiveNotDue(h) PROVE CtlOK'
    BY <1>10 DEF ArchiveNotDue, ToWork
  <1>11. ASSUME NEW h \in Hash, ArchiveDue(h) PROVE CtlOK'
    <2>1. qb[h].loc \in Loc
      BY <1>11, SeedingPlace DEF ArchiveDue, OutsideOK
    <2> QED
      BY <1>11, <2>1 DEF ArchiveDue, db
  <1>12. ASSUME NEW h \in Hash, ArchiveRecord(h) PROVE CtlOK'
    BY <1>12 DEF ArchiveRecord, RowsOK, RowTypes
  <1>13. ASSUME NEW h \in Hash, ArchiveFailed(h) PROVE CtlOK'
    BY <1>13 DEF ArchiveFailed, ToWork
  <1>14. ASSUME NEW h \in Hash, ManifestClaim(h) PROVE CtlOK'
    BY <1>14 DEF ManifestClaim, Manifestable, Goes, Own, RowsOK, RowTypes, MediaTask
  <1>15. ASSUME NEW h \in Hash, ManifestSaved(h) PROVE CtlOK'
    BY <1>15 DEF ManifestSaved, Manifesting, ToWork
  <1>16. ASSUME NEW h \in Hash, ManifestFailed(h) PROVE CtlOK'
    BY <1>16 DEF ManifestFailed, Manifesting, ToWork
  <1> QED
    BY <1>1, <1>2, <1>3, <1>4, <1>5, <1>6, <1>7, <1>8, <1>9, <1>10, <1>11, <1>12, <1>13,
       <1>14, <1>15, <1>16 DEF Cycle

\* Nobody else writes a row that carries the claim of the control goroutine.
LEMMA CtlNext ==
  ASSUME BaseInv, [Next]_vars
  PROVE  CtlOK'
  <1>1. CASE Step
    <2>1. CASE ReadSample \/ Upload \/ JobDropped
      BY <2>1, CtlKept DEF ReadSample, Upload, JobDropped, Analysing, BaseInv, CtlOK
    <2>2. ASSUME NEW h \in Hash, MediaClaim(h) PROVE CtlOK'
      <3>1. ctl.pc = "manifest" => ctl.h # h
        BY <2>2 DEF MediaClaim, Free, BaseInv, CtlOK
      <3> QED
        BY <2>2, <3>1, CtlKept DEF MediaClaim, Own, BaseInv, CtlOK, RowsOK, RowTypes
    <2>3. ASSUME NEW h \in Hash,
                 \/ StoreSample(h) \/ NothingToSample(h) \/ MediaRetry(h)
                 \/ DeferDependency(h) \/ Delivered(h)
          PROVE  CtlOK'
      <3>0. PICK row : Settle(h, row)
        BY <2>3 DEF StoreSample, NothingToSample, MediaRetry, DeferDependency, Delivered
      <3>1. job.h = h /\ job # Idle /\ UNCHANGED <<archive, ctl, up>>
        <4>1. job.pc # "idle"
          BY <2>3 DEF StoreSample, NothingToSample, MediaRetry, DeferDependency, Delivered
        <4> QED
          BY <3>0, <4>1 DEF Settle, Analysing, Idle
      <3>2. ctl.pc = "manifest" => ctl.h # h
        BY <3>1 DEF BaseInv, CtlOK, JobOK
      <3>3. \A x \in Hash \ {h} : media'[x] = media[x] /\ owner'[x] = owner[x]
        BY <3>0 DEF Settle, Own, BaseInv, RowsOK, RowTypes
      <3> QED
        BY <3>1, <3>2, <3>3, CtlKept DEF BaseInv, CtlOK
    <2> QED
      BY <1>1, <2>1, <2>2, <2>3 DEF Step
  <1>2. CASE Operator
    <2>1. UNCHANGED <<ctl, up, owner>>
      BY <1>2 DEF Operator, OperatorRetryArchive, OperatorCancelArchive, OperatorRetryMedia,
         OperatorCancelMedia, Operating, process
    <2>2. ASSUME NEW x \in Hash
          PROVE  /\ archive'[x] = archive[x] \/ Operable(archive[x])
                 /\ media'[x] = media[x] \/ Operable(media[x])
      BY <1>2 DEF Operator, OperatorRetryArchive, OperatorCancelArchive, OperatorRetryMedia,
         OperatorCancelMedia, BaseInv, RowsOK, RowTypes
    <2> QED
      BY <2>1, <2>2, CtlKept DEF Operable, BaseInv, CtlOK
  <1>3. ASSUME NEW h \in Hash, Expire(h) PROVE CtlOK'
    <2>1. UNCHANGED <<ctl, up>> /\ ~Working(h)
      BY <1>3 DEF Expire, process
    <2>2. \A x \in Hash : archive'[x].phase = archive[x].phase
      BY <1>3 DEF Expire, BaseInv, RowsOK, RowTypes, ArchiveRow
    <2>3. \A x \in Hash \ {h} : /\ archive'[x] = archive[x] /\ media'[x] = media[x]
                                /\ owner'[x] = owner[x]
      BY <1>3 DEF Expire, Own, BaseInv, RowsOK, RowTypes
    <2> QED
      BY <2>1, <2>2, <2>3, CtlKept DEF Working, BaseInv, CtlOK
  <1>4. CASE Crash
    BY <1>4 DEF Crash, CtlOK, Idle
  <1>5. CASE Recover
    BY <1>5 DEF Recover, BaseInv, CtlOK
  <1>6. CASE (\E h \in Hash : Land(h) \/ Lose(h) \/ Finish(h) \/ ByHand(h)) \/ UNCHANGED vars
    <2>1. UNCHANGED <<archive, media, owner, ctl, up>>
      BY <1>6 DEF Land, Lose, Finish, ByHand, QBUnchanged, db, process, vars
    <2> QED
      BY <2>1, CtlKept DEF BaseInv, CtlOK
  <1> QED
    BY <1>1, <1>2, <1>3, <1>4, <1>5, <1>6, CycleCtl DEF Next

\* The media goroutine is left alone by whoever leaves its row alone, or takes the
\* claim off it.
LEMMA JobKept ==
  ASSUME BaseInv, UNCHANGED <<job, up>>,
         job # Idle =>
           /\ owner'[job.h] = owner[job.h]
           /\ media'[job.h].held =>
                /\ media[job.h].held
                /\ media'[job.h].phase = media[job.h].phase /\ media'[job.h].loc = media[job.h].loc
  PROVE  JobOK'
  BY DEF BaseInv, JobOK, JobRow, SamplesOK

LEMMA StepJob ==
  ASSUME BaseInv, Step
  PROVE  JobOK'
  <1> USE DEF BaseInv, Idle
  <1>1. CASE ReadSample
    <2>1. /\ job = [pc |-> "extract", h |-> job.h, row |-> job.row] /\ JobOK
          /\ UNCHANGED <<up, media, owner>> /\ job # Idle
      BY <1>1 DEF ReadSample, Analysing, JobOK
    <2>2. CASE job' = [job EXCEPT !.pc = "failed"]
      BY <2>1, <2>2 DEF JobOK, JobRow
    <2>3. CASE /\ ~(job' = [job EXCEPT !.pc = "failed"])
      <3> DEFINE row == [job.row EXCEPT !.samples =
                           job.row.samples \cup {<<Cardinality(job.row.samples) + 1, job.row.loc>>}]
      <3>1. job' = [pc |-> "store", h |-> job.h, row |-> row]
        BY <1>1, <2>1, <2>3 DEF ReadSample
      <3>2. /\ job.row \in MediaTask /\ job.row.phase = "extract" /\ SamplesOK(job.row)
            /\ ~job.row.held
        BY <2>1 DEF JobOK, JobRow
      <3>3. PICK n \in 0..(Samples - 1) : job.row.samples = Pieces(n, job.row.loc)
        BY <3>2 DEF SamplesOK
      <3>4. /\ n \in Nat /\ n + 1 \in 1..Samples /\ n + 1 \in 0..Samples
            /\ Cardinality(job.row.samples) = n
        BY <3>3, PiecesCount, ArchiveAssumption DEF ArchiveAssumption
      <3>5. job.row.samples \cup {<<n + 1, job.row.loc>>} = Pieces(n + 1, job.row.loc)
        BY <3>3, <3>4, PiecesGrow
      <3>6. job.row.loc \in Loc /\ job.row.loc # NoLoc /\ job.row.files
        BY <3>2 DEF SamplesOK, MediaTask, Place
      <3>7. Pieces(n + 1, job.row.loc) \in SUBSET Read
        BY <3>4, <3>6, PiecesRead
      <3>8. row = [job.row EXCEPT !.samples = Pieces(n + 1, job.row.loc)]
        BY <3>4, <3>5
      <3>9. /\ row \in MediaTask /\ row.phase = "extract" /\ ~row.held /\ row.files
            /\ row.loc = job.row.loc /\ row.samples = Pieces(n + 1, row.loc)
        BY <3>2, <3>6, <3>7, <3>8 DEF MediaTask
      <3> HIDE DEF row
      <3> QED
        BY <2>1, <3>1, <3>2, <3>4, <3>6, <3>9 DEF JobOK, JobRow
    <2> QED
      BY <2>2, <2>3
  <1>2. CASE Upload
    <2>1. /\ job = [pc |-> "upload", h |-> job.h, row |-> job.row] /\ JobOK
          /\ UNCHANGED <<up, media, owner>> /\ job # Idle
      BY <1>2 DEF Upload, Analysing, JobOK
    <2>2. PICK pc \in {"acked", "down", "failed"} :
            job' = [pc |-> pc, h |-> job.h, row |-> job.row]
      BY <1>2, <2>1 DEF Upload
    <2> QED
      BY <2>1, <2>2 DEF JobOK, JobRow
  <1>3. CASE JobDropped
    BY <1>3 DEF JobDropped, JobOK
  <1>4. ASSUME NEW h \in Hash, MediaClaim(h) PROVE JobOK'
    <2>1. /\ up' /\ media[h].phase \in {"extract", "upload"} /\ ~media[h].held
          /\ job' = [pc |-> media[h].phase, h |-> h, row |-> media[h]]
      BY <1>4 DEF MediaClaim
    <2>2. /\ media'[h].phase = media[h].phase /\ media'[h].loc = media[h].loc
          /\ owner'[h] = "media"
      BY <1>4, RowsOf DEF MediaClaim, Own, RowsOK, RowTypes, MediaTask
    <2>3. media[h] \in MediaTask /\ SamplesOK(media[h])
      BY RowsOf DEF TaskOK
    <2> QED
      BY <2>1, <2>2, <2>3 DEF JobOK, JobRow
  <1>5. ASSUME NEW h \in Hash,
               \/ StoreSample(h) \/ NothingToSample(h) \/ MediaRetry(h)
               \/ DeferDependency(h) \/ Delivered(h)
        PROVE  JobOK'
    BY <1>5 DEF StoreSample, NothingToSample, MediaRetry, DeferDependency, Delivered, Settle, JobOK
  <1> QED
    BY <1>1, <1>2, <1>3, <1>4, <1>5 DEF Step

LEMMA CycleJob ==
  ASSUME BaseInv, Cycle
  PROVE  JobOK'
  <1>1. UNCHANGED <<job, up>>
    BY DEF Cycle, BeginCycle, Observe, StartWork, Remove, EndCycle, CutCycle, VerifyClaim,
       VerifyWait, VerifyOverdue, VerifyFailed, CompleteArchive, Verifying, ArchiveClaim,
       ArchiveNotDue, ArchiveDue, ArchiveRecord, ArchiveFailed, ManifestClaim, ManifestSaved,
       ManifestFailed, Manifesting, Controlling
  <1>2. CASE BeginCycle \/ StartWork \/ Remove \/ EndCycle \/ CutCycle
    <2>1. UNCHANGED <<media, owner>>
      BY <1>2 DEF BeginCycle, StartWork, Remove, EndCycle, CutCycle, db
    <2> QED
      BY <1>1, <2>1, JobKept
  <1>3. CASE Observe
    <2>1. UNCHANGED owner /\ ctl.snap \in Snapshot
      BY <1>3 DEF Observe, Controlling, BaseInv, CtlOK
    <2>2. ASSUME NEW x \in Hash
          PROVE  media'[x] = media[x] \/ ~media'[x].held
      <3>1. media'[x] = Observed(x, ctl.snap[x]) /\ ctl.snap[x] \in Torrent
        BY <1>3, <2>1 DEF Observe, Snapshot
      <3> QED
        BY <3>1, ObservedRow DEF BaseInv
    <2> QED
      BY <1>1, <2>1, <2>2, JobKept DEF BaseInv, JobOK
  <1>4. ASSUME NEW h \in Hash,
               \/ VerifyClaim(h) \/ ArchiveClaim(h) \/ ManifestClaim(h) \/ ArchiveDue(h)
               \/ VerifyWait(h) \/ VerifyOverdue(h) \/ VerifyFailed(h) \/ CompleteArchive(h)
               \/ ArchiveNotDue(h) \/ ArchiveRecord(h) \/ ArchiveFailed(h)
               \/ ManifestSaved(h) \/ ManifestFailed(h)
        PROVE  JobOK'
    <2>1. owner[h] # "media"
      <3>1. CASE VerifyClaim(h) \/ ArchiveClaim(h) \/ ManifestClaim(h)
        BY <3>1 DEF VerifyClaim, Verifiable, ArchiveClaim, Archivable, ManifestClaim,
           Manifestable, Free
      <3>2. CASE \/ VerifyWait(h) \/ VerifyOverdue(h) \/ VerifyFailed(h) \/ CompleteArchive(h)
                 \/ ArchiveNotDue(h) \/ ArchiveDue(h) \/ ArchiveRecord(h) \/ ArchiveFailed(h)
        <4>1. ctl.h = h /\ ctl.pc \in {"verify", "look", "record"}
          BY <3>2 DEF VerifyWait, VerifyOverdue, VerifyFailed, CompleteArchive, Verifying,
             ArchiveNotDue, ArchiveDue, ArchiveRecord, ArchiveFailed, Controlling
        <4> QED
          BY <4>1, RowsOf DEF BaseInv, CtlOK, TaskOK
      <3>3. CASE ManifestSaved(h) \/ ManifestFailed(h)
        BY <3>3 DEF ManifestSaved, ManifestFailed, Manifesting, Controlling, BaseInv, CtlOK
      <3> QED
        BY <1>4, <3>1, <3>2, <3>3
    <2>2. \A x \in Hash \ {h} : media'[x] = media[x] /\ owner'[x] = owner[x]
      BY <1>4 DEF VerifyClaim, VerifyWait, VerifyOverdue, VerifyFailed, CompleteArchive,
         Verifying, ArchiveClaim, ArchiveNotDue, ArchiveDue, ArchiveRecord, ArchiveFailed,
         ManifestClaim, ManifestSaved, ManifestFailed, Manifesting, Own, db, BaseInv, RowsOK,
         RowTypes
    <2> QED
      BY <1>1, <2>1, <2>2, JobKept DEF BaseInv, JobOK
  <1> QED
    BY <1>2, <1>3, <1>4 DEF Cycle

LEMMA JobNext ==
  ASSUME BaseInv, [Next]_vars
  PROVE  JobOK'
  <1>1. CASE Operator
    <2>1. UNCHANGED <<job, up, owner>>
      BY <1>1 DEF Operator, OperatorRetryArchive, OperatorCancelArchive, OperatorRetryMedia,
         OperatorCancelMedia, Operating, process
    <2>2. ASSUME NEW x \in Hash
          PROVE  media'[x] = media[x] \/ ~media'[x].held
      <3>1. CASE \E h \in Hash : OperatorRetryArchive(h) \/ OperatorCancelArchive(h)
        BY <3>1 DEF OperatorRetryArchive, OperatorCancelArchive
      <3>2. ASSUME NEW h \in Hash, OperatorRetryMedia(h)
            PROVE  media'[x] = media[x] \/ ~media'[x].held
        <4>1. /\ media[h] \in MediaTask /\ ~media[h].held
              /\ x # h => media'[x] = media[x]
          BY <3>2, RowsOf DEF OperatorRetryMedia, Operable, BaseInv, RowsOK, RowTypes
        <4>2. ~media'[h].held
          BY <3>2, <4>1 DEF OperatorRetryMedia, MediaRow, NoMedia, MediaTask, BaseInv, RowsOK,
             RowTypes
        <4> QED
          BY <4>1, <4>2
      <3>3. ASSUME NEW h \in Hash, OperatorCancelMedia(h)
            PROVE  media'[x] = media[x] \/ ~media'[x].held
        BY <3>3 DEF OperatorCancelMedia, NoMedia, BaseInv, RowsOK, RowTypes
      <3> QED
        BY <1>1, <3>1, <3>2, <3>3 DEF Operator
    <2> QED
      BY <2>1, <2>2, JobKept DEF BaseInv, JobOK
  <1>2. ASSUME NEW h \in Hash, Expire(h) PROVE JobOK'
    <2>1. UNCHANGED <<job, up>> /\ (job.pc # "idle" => job.h # h)
      BY <1>2 DEF Expire, Working, process
    <2>2. \A x \in Hash \ {h} : media'[x] = media[x] /\ owner'[x] = owner[x]
      BY <1>2 DEF Expire, Own, BaseInv, RowsOK, RowTypes
    <2> QED
      BY <2>1, <2>2, JobKept DEF BaseInv, JobOK
  <1>3. CASE Crash
    BY <1>3 DEF Crash, JobOK
  <1>4. CASE Recover
    BY <1>4 DEF Recover, BaseInv, JobOK
  <1>5. CASE (\E h \in Hash : Land(h) \/ Lose(h) \/ Finish(h) \/ ByHand(h)) \/ UNCHANGED vars
    <2>1. UNCHANGED <<media, owner, job, up>>
      BY <1>5 DEF Land, Lose, Finish, ByHand, QBUnchanged, db, process, vars
    <2> QED
      BY <2>1, JobKept
  <1> QED
    BY <1>1, <1>2, <1>3, <1>4, <1>5, CycleJob, StepJob DEF Next

\* Only complete payloads are sent.
LEMMA PublishedNext ==
  ASSUME BaseInv, [Next]_vars
  PROVE  PublishedOK'
  <1>1. CASE Upload
    <2>1. /\ job.row \in MediaTask /\ job.h \in Hash
          /\ job.row.loc \in Loc /\ job.row.samples = Pieces(Samples, job.row.loc)
      BY <1>1 DEF Upload, BaseInv, JobOK, JobRow, SamplesOK, MediaTask, Place, Idle
    <2>2. \/ published' = published
          \/ published' = [published EXCEPT ![job.h] = @ \cup {job.row.samples}]
      BY <1>1 DEF Upload
    <2> QED
      BY <2>1, <2>2 DEF BaseInv, PublishedOK
  <1>2. CASE ~Upload
    <2>1. CASE Cycle
      BY <2>1 DEF Cycle, BeginCycle, Observe, StartWork, Remove, EndCycle, CutCycle,
         VerifyClaim, VerifyWait, VerifyOverdue, VerifyFailed, CompleteArchive, Verifying,
         ArchiveClaim, ArchiveNotDue, ArchiveDue, ArchiveRecord, ArchiveFailed, ManifestClaim,
         ManifestSaved, ManifestFailed, Manifesting, Controlling, history, BaseInv, PublishedOK
    <2>2. CASE Step
      BY <1>2, <2>2 DEF Step, ReadSample, JobDropped, MediaClaim, StoreSample, NothingToSample,
         MediaRetry, DeferDependency, Delivered, Settle, history, BaseInv, PublishedOK
    <2>3. CASE Operator
      BY <2>3 DEF Operator, OperatorRetryArchive, OperatorCancelArchive, OperatorRetryMedia,
         OperatorCancelMedia, Operating, BaseInv, PublishedOK
    <2>4. CASE \/ Crash \/ Recover \/ UNCHANGED vars
               \/ \E h \in Hash : Expire(h) \/ Land(h) \/ Lose(h) \/ Finish(h) \/ ByHand(h)
      BY <2>4 DEF Crash, Recover, Expire, Land, Lose, Finish, ByHand, QBUnchanged, history, vars,
         BaseInv, PublishedOK
    <2> QED
      BY <2>1, <2>2, <2>3, <2>4 DEF Next
  <1> QED
    BY <1>1, <1>2

THEOREM BaseInvariant == Spec => []BaseInv
  <1>1. BaseInv /\ [Next]_vars => BaseInv'
    BY OutsideNext, RowsNext, CtlNext, JobNext, PublishedNext DEF BaseInv
  <1> QED
    BY <1>1, BaseInit, PTL DEF Spec

\* The values of the tables: a verification has its manifest, an upload as many
\* samples as a payload has, a claim its owner; qB is asked MaxAttempts times at most,
\* and no media task stands beside a media receipt.
THEOREM ArchiveTypeOK == Spec => []TypeOK
  BY BaseInvariant, BaseTypeOK, PTL

\* Whatever the site receives was sampled at one path of the torrent.
THEOREM PayloadsAreWhole == Spec => []PayloadFromOnePath
  <1>1. ASSUME BaseInv
        PROVE  PayloadFromOnePath
    <2>1. ASSUME NEW h \in Hash, NEW payload \in published[h]
          PROVE  Cardinality({read[2] : read \in payload}) <= 1
      <3>1. PICK loc \in Loc : payload = Pieces(Samples, loc)
        BY <1>1, <2>1 DEF BaseInv, PublishedOK
      <3>2. {read[2] : read \in payload} \subseteq {loc}
        BY <3>1 DEF Pieces
      <3>3. IsFiniteSet({loc}) /\ Cardinality({loc}) = 1
        BY FS_Singleton
      <3> QED
        BY <3>2, <3>3, FS_Subset
    <2> QED
      BY <2>1 DEF PayloadFromOnePath
  <1> QED
    BY <1>1, BaseInvariant, PTL

-----------------------------------------------------------------------------
\* What a step may do to the media work of a torrent.

\* The work goes on where it was, if it goes on.
StaysOn(x) ==
  /\ Unsampled(media'[x]) => Unsampled(media[x]) /\ media'[x].loc = media[x].loc
  /\ media'[x].phase = "none" => media[x].phase = "none"
  /\ done'[x] = done[x]

\* The work ends with a receipt.
Ends(x) == media'[x].phase = "none" /\ done'[x] # "none"

LEMMA StaysOnKept ==
  ASSUME NEW x, media'[x] = media[x], done'[x] = done[x]
  PROVE  StaysOn(x)
  BY DEF StaysOn, Unsampled

LEMMA StaysOnHeld ==
  ASSUME NEW x, NEW held \in BOOLEAN, media[x] \in MediaTask, SamplesOK(media[x]),
         media'[x] = [media[x] EXCEPT !.held = held], done'[x] = done[x]
  PROVE  StaysOn(x)
  BY HeldRow DEF StaysOn, Unsampled

LEMMA StaysOnRetried ==
  ASSUME NEW x, media[x] \in MediaTask, SamplesOK(media[x]),
         media[x].phase \in {"manifest", "extract", "upload"},
         media'[x] = Retried(media[x]), done'[x] = done[x]
  PROVE  StaysOn(x)
  BY RetriedRow DEF StaysOn, Unsampled, SamplesOK

LEMMA CycleMedia ==
  ASSUME BaseInv, NEW x \in Hash, Cycle
  PROVE  StaysOn(x) \/ Observe \/ CompleteArchive(x) \/ ManifestSaved(x)
  <1> USE DEF BaseInv
  <1>1. CASE BeginCycle \/ StartWork \/ Remove \/ EndCycle \/ CutCycle
    BY <1>1, StaysOnKept DEF BeginCycle, StartWork, Remove, EndCycle, CutCycle, db
  <1>2. ASSUME NEW h \in Hash,
               \/ VerifyClaim(h) \/ VerifyWait(h) \/ VerifyOverdue(h) \/ VerifyFailed(h)
               \/ ArchiveClaim(h) \/ ArchiveNotDue(h) \/ ArchiveDue(h) \/ ArchiveRecord(h)
               \/ ArchiveFailed(h)
        PROVE  StaysOn(x)
    BY <1>2, StaysOnKept DEF VerifyClaim, VerifyWait, VerifyOverdue, VerifyFailed, ArchiveClaim,
       ArchiveNotDue, ArchiveDue, ArchiveRecord, ArchiveFailed, db
  <1>3. ASSUME NEW h \in Hash, h # x,
               CompleteArchive(h) \/ ManifestSaved(h) \/ ManifestClaim(h) \/ ManifestFailed(h)
        PROVE  StaysOn(x)
    BY <1>3, StaysOnKept DEF CompleteArchive, ManifestSaved, ManifestClaim, ManifestFailed,
       Manifesting, RowsOK, RowTypes
  <1>4. CASE ManifestClaim(x)
    <2>1. media'[x] = [media[x] EXCEPT !.held = TRUE] /\ done' = done
      BY <1>4 DEF ManifestClaim, RowsOK, RowTypes
    <2> QED
      BY <2>1, RowsOf, StaysOnHeld DEF TaskOK
  <1>5. CASE ManifestFailed(x)
    <2>1. media'[x] = Retried(media[x]) /\ done' = done /\ media[x].phase = "manifest"
      BY <1>5 DEF ManifestFailed, Manifesting, Controlling, CtlOK, RowsOK, RowTypes
    <2> QED
      BY <2>1, RowsOf, StaysOnRetried DEF TaskOK
  <1> QED
    BY <1>1, <1>2, <1>3, <1>4, <1>5 DEF Cycle

LEMMA StepMedia ==
  ASSUME BaseInv, NEW x \in Hash, Step
  PROVE  StaysOn(x) \/ Ends(x)
  <1> USE DEF BaseInv
  <1>1. CASE ReadSample \/ Upload \/ JobDropped
    BY <1>1, StaysOnKept DEF ReadSample, Upload, JobDropped
  <1>2. ASSUME NEW h \in Hash, h # x,
               \/ MediaClaim(h) \/ StoreSample(h) \/ NothingToSample(h) \/ MediaRetry(h)
               \/ DeferDependency(h) \/ Delivered(h)
        PROVE  StaysOn(x)
    BY <1>2, StaysOnKept DEF MediaClaim, StoreSample, NothingToSample, MediaRetry,
       DeferDependency, Delivered, Settle, RowsOK, RowTypes
  <1>3. CASE MediaClaim(x)
    <2>1. media'[x] = [media[x] EXCEPT !.held = TRUE] /\ done' = done
      BY <1>3 DEF MediaClaim, RowsOK, RowTypes
    <2> QED
      BY <2>1, RowsOf, StaysOnHeld DEF TaskOK
  <1>4. CASE StoreSample(x)
    <2>1. /\ job.h = x /\ job.pc = "store" /\ media[x].held /\ done' = done
      BY <1>4 DEF StoreSample, Settle
    <2>2. /\ media[x].phase = "extract" /\ media[x].loc = job.row.loc
          /\ job.row \in MediaTask /\ ~job.row.held /\ job.row.files /\ job.row.loc # NoLoc
          /\ \E k \in 1..Samples : job.row.samples = Pieces(k, job.row.loc)
      BY <2>1 DEF JobOK, JobRow, Idle
    <2>3. media'[x].phase \in {"extract", "upload"} /\ media'[x].loc = job.row.loc
      BY <1>4, <2>2, StoredRow DEF StoreSample, Settle, RowsOK, RowTypes
    <2> QED
      BY <2>1, <2>2, <2>3 DEF StaysOn, Unsampled
  <1>5. CASE NothingToSample(x) \/ Delivered(x)
    <2>1. /\ media' = [media EXCEPT ![x] = NoMedia]
          /\ \E out \in {"no media tracks", "delivered"} : done' = [done EXCEPT ![x] = out]
      BY <1>5 DEF NothingToSample, Delivered, Settle
    <2>2. media'[x] = NoMedia /\ done'[x] # "none"
      BY <2>1 DEF RowsOK, RowTypes
    <2> QED
      BY <2>2 DEF Ends, NoMedia
  <1>6. CASE MediaRetry(x)
    <2>1. /\ media'[x] = Retried(media[x]) /\ done' = done
          /\ media[x].phase \in {"extract", "upload"}
      BY <1>6 DEF MediaRetry, Settle, JobOK, Idle, RowsOK, RowTypes
    <2> QED
      BY <2>1, RowsOf, StaysOnRetried DEF TaskOK
  <1>7. CASE DeferDependency(x)
    <2>1. media'[x] = [media[x] EXCEPT !.held = FALSE] /\ done' = done
      BY <1>7 DEF DeferDependency, Settle, RowsOK, RowTypes
    <2> QED
      BY <2>1, RowsOf, StaysOnHeld DEF TaskOK
  <1> QED
    BY <1>1, <1>2, <1>3, <1>4, <1>5, <1>6, <1>7 DEF Step

LEMMA OperatorMedia ==
  ASSUME BaseInv, NEW x \in Hash, Operator
  PROVE  StaysOn(x) \/ Ends(x)
  <1> USE DEF BaseInv
  <1>1. ASSUME NEW h \in Hash, OperatorRetryArchive(h) \/ OperatorCancelArchive(h)
        PROVE  StaysOn(x)
    BY <1>1, StaysOnKept DEF OperatorRetryArchive, OperatorCancelArchive
  <1>2. ASSUME NEW h \in Hash, h # x, OperatorRetryMedia(h) \/ OperatorCancelMedia(h)
        PROVE  StaysOn(x)
    BY <1>2, StaysOnKept DEF OperatorRetryMedia, OperatorCancelMedia, RowsOK, RowTypes
  <1>3. CASE OperatorRetryMedia(x)
    <2>1. /\ media[x] \in MediaTask /\ SamplesOK(media[x]) /\ media[x].phase # "none"
          /\ done' = done /\ media \in [Hash -> MediaTask]
      BY <1>3, RowsOf DEF OperatorRetryMedia, Operable, TaskOK, RowsOK, RowTypes
    <2>2. CASE media[x].phase # "blocked"
      <3>1. media'[x] = [media[x] EXCEPT !.attempts = 0]
        BY <1>3, <2>1, <2>2 DEF OperatorRetryMedia
      <3> QED
        BY <2>1, <3>1 DEF StaysOn, Unsampled, MediaTask
    <2>3. CASE media[x].phase = "blocked" /\ media[x].payload
      <3>1. media'[x] = [media[x] EXCEPT !.phase = "upload", !.attempts = 0]
        BY <1>3, <2>1, <2>3 DEF OperatorRetryMedia
      <3> QED
        BY <2>1, <3>1 DEF StaysOn, Unsampled, MediaTask
    <2>4. CASE media[x].phase = "blocked" /\ ~media[x].payload
      <3>1. media'[x] = MediaRow("manifest", media[x].loc, FALSE)
        BY <1>3, <2>1, <2>4 DEF OperatorRetryMedia
      <3>2. media[x].loc \in Place
        BY <2>1 DEF MediaTask
      <3> DEFINE row == MediaRow("manifest", media[x].loc, FALSE)
      <3>3. row.phase = "manifest" /\ row.loc = media[x].loc
        BY <3>2, FreshRow
      <3>4. media'[x].phase = "manifest" /\ media'[x].loc = media[x].loc
        BY <3>1, <3>3
      <3> QED
        BY <2>1, <2>4, <3>4 DEF StaysOn, Unsampled
    <2> QED
      BY <2>1, <2>2, <2>3, <2>4 DEF MediaTask
  <1>4. CASE OperatorCancelMedia(x)
    BY <1>4 DEF OperatorCancelMedia, Ends, NoMedia, RowsOK, RowTypes
  <1> QED
    BY <1>1, <1>2, <1>3, <1>4 DEF Operator

\* Only Observe, a manifest and the end of an archive start media work or move it.
LEMMA MediaStep ==
  ASSUME BaseInv, [Next]_vars, NEW x \in Hash
  PROVE  StaysOn(x) \/ Ends(x) \/ Observe \/ CompleteArchive(x) \/ ManifestSaved(x)
  <1>1. CASE \/ Crash \/ UNCHANGED vars
             \/ \E h \in Hash : Land(h) \/ Lose(h) \/ Finish(h) \/ ByHand(h)
    BY <1>1, StaysOnKept DEF Crash, Land, Lose, Finish, ByHand, QBUnchanged, db, vars
  <1>2. CASE Recover
    <2>1. media'[x] = [media[x] EXCEPT !.held = FALSE] /\ done' = done
      BY <1>2 DEF Recover
    <2> QED
      BY <2>1, RowsOf, StaysOnHeld DEF TaskOK, BaseInv
  <1>3. ASSUME NEW h \in Hash, Expire(h) PROVE StaysOn(x)
    <2>1. CASE h = x
      <3>1. media'[x] = [media[x] EXCEPT !.held = FALSE] /\ done' = done
        BY <1>3, <2>1 DEF Expire, BaseInv, RowsOK, RowTypes
      <3> QED
        BY <3>1, RowsOf, StaysOnHeld DEF TaskOK, BaseInv
    <2>2. CASE h # x
      BY <1>3, <2>2, StaysOnKept DEF Expire, BaseInv, RowsOK, RowTypes
    <2> QED
      BY <2>1, <2>2
  <1> QED
    BY <1>1, <1>2, <1>3, CycleMedia, StepMedia, OperatorMedia DEF Next


-----------------------------------------------------------------------------
\* The media work follows the torrent, and outlives it in qB.

LEMMA ObserveFollows ==
  ASSUME BaseInv, PlaceInv, Observe, NEW x \in Hash
  PROVE  Follows(x)'
  <1> DEFINE t == ctl.snap[x]
             old == prev[x]
             row == media[x]
             news == t.st = "seeding" /\ (old.st # "seeding" \/ old.loc # t.loc)
             new == MediaRow("manifest", t.loc, FALSE)
  <1>1. /\ prev'[x] = t /\ media'[x] = Observed(x, t)
        /\ ctl.snap \in Snapshot /\ row \in MediaTask /\ SamplesOK(row)
        /\ t.loc \in Place
    <2>1. Observe /\ ctl.snap \in Snapshot
      BY DEF Observe, Controlling, BaseInv, CtlOK
    <2>2. t.loc \in Place
      BY <2>1 DEF Snapshot, Torrent, Absent, Place
    <2> QED
      BY <2>1, <2>2, RowsOf DEF Observe, BaseInv, TaskOK
  <1>2. new.phase = "manifest" /\ new.loc = t.loc
    BY <1>1, FreshRow
  <1>3. CASE ~news
    <2>1. media'[x] = row
      BY <1>1, <1>3 DEF Observed
    <2>2. t.st = "seeding" => old.st = "seeding" /\ old.loc = t.loc
      BY <1>3
    <2> QED
      BY <1>1, <2>1, <2>2 DEF PlaceInv, Follows, Unsampled
  <1>4. CASE done[x] # "none"
    <2>1. media'[x] = row /\ row.phase = "none"
      BY <1>1, <1>4, RowsOf DEF Observed, BaseInv, TaskOK
    <2> QED
      BY <2>1 DEF Follows, Unsampled
  <1>5. CASE news /\ done[x] = "none"
    <2>1. CASE media'[x] = new
      BY <1>1, <1>2, <2>1 DEF Follows
    <2>2. CASE media'[x] # new
      <3>1. media'[x] = row /\ row.phase # "none"
        BY <1>1, <1>5, <2>2 DEF Observed, MovedRow
      <3>2. row.phase \in Movable => row.loc = t.loc
        BY <1>1, <1>5, <2>2, <3>1 DEF Observed, MovedRow
      <3> QED
        BY <1>1, <3>1, <3>2 DEF Follows, Unsampled, Movable
    <2> QED
      BY <2>1, <2>2
  <1> QED
    BY <1>3, <1>4, <1>5

LEMMA CompleteFollows ==
  ASSUME BaseInv, PlaceInv, NEW x \in Hash, CompleteArchive(x)
  PROVE  Follows(x)'
  <1>1. /\ ctl.pc = "verify" /\ prev' = prev /\ x \notin Present(ctl.snap)
    BY DEF CompleteArchive, Verifying, Controlling
  <1>2. prev[x] = Absent
    BY <1>1 DEF PlaceInv, Seen, Present
  <1> QED
    BY <1>1, <1>2 DEF Follows, Absent

LEMMA ManifestFollows ==
  ASSUME BaseInv, PlaceInv, NEW x \in Hash, ManifestSaved(x)
  PROVE  Follows(x)'
  <1>1. /\ ctl.pc = "manifest" /\ prev' = prev /\ prev = ctl.snap /\ ctl.snap \in Snapshot
    BY DEF ManifestSaved, Manifesting, Controlling, PlaceInv, Seen, BaseInv, CtlOK
  <1>2. CASE /\ x \in Complete(ctl.snap)
             /\ media' = [media EXCEPT ![x] = MediaRow("extract", ctl.snap[x].loc, TRUE)]
    <2> DEFINE row == MediaRow("extract", ctl.snap[x].loc, TRUE)
    <2>1. ctl.snap[x].loc \in Loc /\ Loc \subseteq Place /\ NoLoc \notin Loc
      BY <1>1, <1>2, SeedingPlace, ArchiveAssumption DEF ArchiveAssumption, Place
    <2>2. row.loc = ctl.snap[x].loc
      BY <2>1, FreshRow
    <2>3. media'[x] = row
      BY <1>2 DEF BaseInv, RowsOK, RowTypes
    <2> QED
      BY <1>1, <2>2, <2>3 DEF Follows
  <1>3. CASE x \notin Present(ctl.snap)
    BY <1>1, <1>3 DEF Follows, Present, Absent
  <1> QED
    BY <1>2, <1>3 DEF ManifestSaved

\* prev changes when a snapshot is compared with it, and when the process starts.
LEMMA PrevStep ==
  ASSUME BaseInv, [Next]_vars
  PROVE  \/ prev' = prev
         \/ Observe /\ prev' = ctl.snap
         \/ Recover /\ \A h \in Hash : prev'[h] = Absent
  <1>1. CASE Cycle
    BY <1>1 DEF Cycle, BeginCycle, Observe, StartWork, Remove, EndCycle, CutCycle,
       VerifyClaim, VerifyWait, VerifyOverdue, VerifyFailed, CompleteArchive, Verifying,
       ArchiveClaim, ArchiveNotDue, ArchiveDue, ArchiveRecord, ArchiveFailed, ManifestClaim,
       ManifestSaved, ManifestFailed, Manifesting
  <1>2. CASE Step
    BY <1>2 DEF Step, ReadSample, Upload, JobDropped, MediaClaim, StoreSample, NothingToSample,
       MediaRetry, DeferDependency, Delivered, Settle, Analysing
  <1>3. CASE Operator
    BY <1>3 DEF Operator, OperatorRetryArchive, OperatorCancelArchive, OperatorRetryMedia,
       OperatorCancelMedia, Operating, process
  <1>4. CASE Recover
    BY <1>4 DEF Recover
  <1>5. CASE \/ Crash \/ UNCHANGED vars
             \/ \E h \in Hash : Expire(h) \/ Land(h) \/ Lose(h) \/ Finish(h) \/ ByHand(h)
    BY <1>5 DEF Crash, Expire, Land, Lose, Finish, ByHand, QBUnchanged, process, vars
  <1> QED
    BY <1>1, <1>2, <1>3, <1>4, <1>5 DEF Next

\* How the control goroutine goes on with its snapshot.
LEMMA SnapStep ==
  ASSUME BaseInv, [Next]_vars, ctl'.pc # "idle"
  PROVE  \/ BeginCycle
         \/ Observe /\ ctl'.snap = ctl.snap
         \/ /\ ctl'.pc # "observe" \/ ctl.pc = "observe"
            /\ ctl.pc \notin {"idle", "observe"} \/ ctl' = ctl
            /\ ctl'.snap = ctl.snap /\ prev' = prev
  <1>1. CASE Cycle
    <2>1. CASE \/ Observe \/ StartWork \/ Remove \/ EndCycle \/ CutCycle
      BY <2>1 DEF Observe, StartWork, Remove, EndCycle, CutCycle, Controlling, ToWork, Idle
    <2>2. ASSUME NEW h \in Hash,
                 VerifyClaim(h) \/ VerifyWait(h) \/ VerifyOverdue(h) \/ VerifyFailed(h)
                 \/ CompleteArchive(h)
          PROVE  /\ ctl.pc \in {"reconcile", "verify"} /\ ctl'.pc \in {"reconcile", "verify"}
                 /\ ctl'.snap = ctl.snap /\ prev' = prev
      BY <2>2 DEF VerifyClaim, VerifyWait, VerifyOverdue, VerifyFailed, CompleteArchive,
         Verifying, Controlling
    <2>3. ASSUME NEW h \in Hash,
                 ArchiveClaim(h) \/ ArchiveNotDue(h) \/ ArchiveDue(h) \/ ArchiveRecord(h)
                 \/ ArchiveFailed(h)
          PROVE  /\ ctl.pc \in {"work", "look", "record"}
                 /\ ctl'.pc \in {"work", "look", "record", "remove", "idle"}
                 /\ ctl'.pc # "idle" => ctl'.snap = ctl.snap
                 /\ prev' = prev
      BY <2>3 DEF ArchiveClaim, ArchiveNotDue, ArchiveDue, ArchiveRecord, ArchiveFailed,
         Controlling, ToWork, Goes, Idle
    <2>4. ASSUME NEW h \in Hash, ManifestClaim(h) \/ ManifestSaved(h) \/ ManifestFailed(h)
          PROVE  /\ ctl.pc \in {"work", "manifest"}
                 /\ ctl'.pc \in {"work", "manifest", "idle"}
                 /\ ctl'.pc # "idle" => ctl'.snap = ctl.snap
                 /\ prev' = prev
      <3>1. CASE ManifestClaim(h)
        BY <3>1 DEF ManifestClaim, Controlling, Goes
      <3>2. CASE ManifestSaved(h)
        BY <3>2 DEF ManifestSaved, Manifesting, Controlling, ToWork
      <3>3. CASE ManifestFailed(h)
        BY <3>3 DEF ManifestFailed, Manifesting, Controlling, ToWork, Idle
      <3> QED
        BY <2>4, <3>1, <3>2, <3>3
    <2> QED
      BY <1>1, <2>1, <2>2, <2>3, <2>4 DEF Cycle
  <1>2. CASE Recover
    BY <1>2 DEF Recover, BaseInv, CtlOK
  <1>3. CASE Crash
    BY <1>3 DEF Crash, Idle
  <1>4. CASE ~Cycle /\ ~Recover /\ ~Crash
    <2>1. CASE Step
      BY <2>1 DEF Step, ReadSample, Upload, JobDropped, MediaClaim, StoreSample, NothingToSample,
         MediaRetry, DeferDependency, Delivered, Settle, Analysing
    <2>2. CASE Operator
      BY <2>2 DEF Operator, OperatorRetryArchive, OperatorCancelArchive, OperatorRetryMedia,
         OperatorCancelMedia, Operating, process
    <2>3. CASE \/ UNCHANGED vars
               \/ \E h \in Hash : Expire(h) \/ Land(h) \/ Lose(h) \/ Finish(h) \/ ByHand(h)
      BY <2>3 DEF Expire, Land, Lose, Finish, ByHand, QBUnchanged, process, vars
    <2> QED
      BY <1>4, <2>1, <2>2, <2>3 DEF Next
  <1> QED
    BY <1>1, <1>2, <1>3, <1>4

LEMMA PlaceNext ==
  ASSUME BaseInv, PlaceInv, [Next]_vars
  PROVE  PlaceInv'
  <1>1. Seen'
    <2>1. CASE ctl'.pc \in {"idle", "observe"}
      BY <2>1 DEF Seen
    <2>2. CASE BeginCycle
      BY <2>2 DEF BeginCycle, Seen
    <2>3. CASE Observe
      BY <2>3 DEF Observe, Seen
    <2> QED
      BY <2>1, <2>2, <2>3, SnapStep DEF Seen, PlaceInv
  <1>2. ASSUME NEW x \in Hash
        PROVE  Follows(x)'
    <2>1. CASE Observe
      BY <2>1, ObserveFollows
    <2>2. CASE CompleteArchive(x)
      BY <2>2, CompleteFollows
    <2>3. CASE ManifestSaved(x)
      BY <2>3, ManifestFollows
    <2>4. CASE StaysOn(x) /\ prev' = prev
      BY <2>4 DEF StaysOn, PlaceInv, Follows, Unsampled
    <2>5. CASE Ends(x)
      BY <2>5 DEF Ends, Follows, Unsampled
    <2>6. CASE prev'[x] = Absent
      BY <2>6 DEF Follows, Absent
    <2> QED
      BY <2>1, <2>2, <2>3, <2>4, <2>5, <2>6, MediaStep, PrevStep
  <1> QED
    BY <1>1, <1>2 DEF PlaceInv

LEMMA PlaceInit ==
  ASSUME Init
  PROVE  PlaceInv
  BY DEF Init, PlaceInv, Seen, Follows, Idle, Absent

\* Media work that is not yet sampled looks where qB was last seen to keep the files
\* (Observe, and the manifest of the same cycle).
THEOREM MediaWorkFollows == Spec => []MediaFollowsTorrent
  <1>1. Init => BaseInv /\ PlaceInv
    BY BaseInit, PlaceInit
  <1>2. BaseInv /\ PlaceInv /\ [Next]_vars => PlaceInv'
    BY PlaceNext
  <1>3. PlaceInv => MediaFollowsTorrent
    BY DEF PlaceInv, Follows, Unsampled, MediaFollowsTorrent, Complete
  <1> QED
    BY <1>1, <1>2, <1>3, BaseInvariant, PTL DEF Spec

\* A record of an archive is written by CompleteArchive alone.
LEMMA RecordStep ==
  ASSUME BaseInv, [Next]_vars, NEW x \in Hash
  PROVE  \/ record'[x] = record[x]
         \/ /\ CompleteArchive(x)
            /\ record'[x] = archive[x].loc /\ archive[x].loc # NoLoc
  <1>1. CASE Cycle
    <2>1. ASSUME NEW h \in Hash, CompleteArchive(h), h # x
          PROVE  record'[x] = record[x]
      BY <2>1 DEF CompleteArchive, BaseInv, OutsideOK
    <2>2. CASE CompleteArchive(x)
      <3>1. archive[x].loc # NoLoc
        BY <2>2, RowsOf DEF CompleteArchive, Verifying, Controlling, BaseInv, CtlOK, TaskOK
      <3> QED
        BY <2>2, <3>1 DEF CompleteArchive, BaseInv, OutsideOK
    <2>3. CASE BeginCycle \/ Observe \/ StartWork \/ Remove \/ EndCycle \/ CutCycle
      BY <2>3 DEF BeginCycle, Observe, StartWork, Remove, EndCycle, CutCycle, db
    <2>4. ASSUME NEW h \in Hash,
                 \/ VerifyClaim(h) \/ VerifyWait(h) \/ VerifyOverdue(h) \/ VerifyFailed(h)
                 \/ ArchiveClaim(h) \/ ArchiveNotDue(h) \/ ArchiveDue(h) \/ ArchiveRecord(h)
                 \/ ArchiveFailed(h)
                 \/ ManifestClaim(h) \/ ManifestSaved(h) \/ ManifestFailed(h)
          PROVE  record' = record
      BY <2>4 DEF VerifyClaim, VerifyWait, VerifyOverdue, VerifyFailed, ArchiveClaim,
         ArchiveNotDue, ArchiveDue, ArchiveRecord, ArchiveFailed, ManifestClaim,
         ManifestSaved, ManifestFailed, Manifesting, db
    <2> QED
      BY <1>1, <2>1, <2>2, <2>3, <2>4 DEF Cycle
  <1>2. CASE Step
    BY <1>2 DEF Step, ReadSample, Upload, JobDropped, MediaClaim, StoreSample, NothingToSample,
       MediaRetry, DeferDependency, Delivered, Settle, Analysing
  <1>3. CASE Operator
    BY <1>3 DEF Operator, OperatorRetryArchive, OperatorCancelArchive, OperatorRetryMedia,
       OperatorCancelMedia, Operating
  <1>4. CASE \/ Crash \/ Recover \/ UNCHANGED vars
             \/ \E h \in Hash : Expire(h) \/ Land(h) \/ Lose(h) \/ Finish(h) \/ ByHand(h)
    BY <1>4 DEF Crash, Recover, Expire, Land, Lose, Finish, ByHand, QBUnchanged, db, vars
  <1> QED
    BY <1>1, <1>2, <1>3, <1>4 DEF Next

LEMMA MediaNext ==
  ASSUME BaseInv, MediaInv, [Next]_vars
  PROVE  MediaInv'
  <1> SUFFICES ASSUME NEW x \in Hash, record'[x] # NoLoc
               PROVE  media'[x].phase # "none" \/ done'[x] # "none"
    BY DEF MediaInv
  <1>0. media \in [Hash -> MediaTask] /\ done \in [Hash -> Outcome]
    BY DEF BaseInv, RowsOK, RowTypes
  <1>1. CASE CompleteArchive(x)
    <2>1. archive[x].loc \in Place /\ archive[x].loc # NoLoc
      BY <1>1, RowsOf DEF CompleteArchive, Verifying, Controlling, BaseInv, CtlOK, TaskOK,
         ArchiveRow
    <2>2. MediaRow("extract", archive[x].loc, TRUE).phase = "extract"
      BY <2>1, FreshRow
    <2>3. media'[x] = AfterArchive(x) /\ done' = done
      BY <1>0, <1>1 DEF CompleteArchive
    <2> QED
      BY <2>2, <2>3 DEF AfterArchive
  <1>2. CASE ~CompleteArchive(x)
    <2>1. media[x].phase # "none" \/ done[x] # "none"
      BY <1>2, RecordStep DEF MediaInv
    <2>2. CASE StaysOn(x) \/ Ends(x)
      BY <2>1, <2>2 DEF StaysOn, Ends
    <2>3. CASE Observe
      <3>1. /\ ctl.snap \in Snapshot /\ ctl.snap[x].loc \in Place
            /\ media'[x] = Observed(x, ctl.snap[x]) /\ done' = done
        BY <2>3 DEF Observe, Controlling, BaseInv, CtlOK, Snapshot, Torrent, Absent, Place
      <3>2. MediaRow("manifest", ctl.snap[x].loc, FALSE).phase = "manifest"
        BY <3>1, FreshRow
      <3> QED
        BY <2>1, <3>1, <3>2 DEF Observed, MovedRow
    <2>4. CASE ManifestSaved(x)
      <3>1. done' = done /\ \E m \in MediaTask : media'[x] = m /\ m.phase = "extract"
        <4>1. \E loc \in Loc : media' = [media EXCEPT ![x] = MediaRow("extract", loc, TRUE)]
          BY <2>4, SeedingPlace DEF ManifestSaved, Manifesting, Controlling, BaseInv, CtlOK,
             OutsideOK, Place
        <4>2. PICK loc \in Loc : media'[x] = MediaRow("extract", loc, TRUE)
          BY <1>0, <4>1
        <4>3. /\ MediaRow("extract", loc, TRUE) \in MediaTask
              /\ MediaRow("extract", loc, TRUE).phase = "extract"
          BY FreshRow, ArchiveAssumption DEF ArchiveAssumption, Place
        <4> QED
          BY <2>4, <4>2, <4>3 DEF ManifestSaved, Manifesting
      <3> QED
        BY <3>1
    <2> QED
      BY <1>2, <2>2, <2>3, <2>4, MediaStep
  <1> QED
    BY <1>1, <1>2

\* Removing a torrent from qB never costs its media work: with the record of the
\* archive there is a media receipt, or a task that will still produce one.
THEOREM MediaOutlives == Spec => []MediaOutlivesArchive
  <1>1. Init => MediaInv
    BY DEF Init, MediaInv
  <1>2. BaseInv /\ MediaInv /\ [Next]_vars => MediaInv'
    BY MediaNext
  <1>3. MediaInv => MediaOutlivesArchive
    BY DEF MediaInv, MediaOutlivesArchive
  <1> QED
    BY <1>1, <1>2, <1>3, BaseInvariant, PTL DEF Spec

-----------------------------------------------------------------------------
\* What the absence of a torrent proves.

\* The manifest of a removal stays, and a task of which a removal was asked for
\* does not become one that never asked.
ArchiveStays(x) ==
  /\ archive'[x].loc # NoLoc => archive'[x].loc = archive[x].loc
  /\ Unasked(archive'[x]) => Unasked(archive[x]) \/ x \in waived'

LEMMA StaysKept ==
  ASSUME NEW x, archive'[x] = archive[x]
  PROVE  ArchiveStays(x)
  BY DEF ArchiveStays

LEMMA StaysHeld ==
  ASSUME NEW x, NEW held \in BOOLEAN, archive[x] \in ArchiveRow,
         archive'[x] = [archive[x] EXCEPT !.held = held]
  PROVE  ArchiveStays(x)
  BY HeldArchive DEF ArchiveStays, Unasked

LEMMA StaysRetried ==
  ASSUME NEW x, archive[x] \in ArchiveRow,
         \/ archive[x].phase = "ready"
         \/ archive[x].phase = "verifying" /\ archive[x].loc # NoLoc,
         archive'[x] = Retried(archive[x])
  PROVE  ArchiveStays(x)
  BY RetriedArchive DEF ArchiveStays, Unasked

LEMMA VerifyStays ==
  ASSUME BaseInv, NEW x \in Hash,
         VerifyClaim(x) \/ VerifyWait(x) \/ VerifyFailed(x)
  PROVE  ArchiveStays(x)
  <1>0. archive \in [Hash -> ArchiveRow] /\ TaskOK(archive[x], media[x], owner[x], done[x])
    BY RowsOf DEF BaseInv, RowsOK, RowTypes
  <1>1. CASE VerifyClaim(x)
    <2>1. archive'[x] = [archive[x] EXCEPT !.held = TRUE]
      BY <1>0, <1>1 DEF VerifyClaim
    <2> QED
      BY <1>0, <2>1, StaysHeld
  <1>2. CASE VerifyWait(x)
    <2>1. archive'[x] = [archive[x] EXCEPT !.held = FALSE, !.attempts = 0]
      BY <1>0, <1>2 DEF VerifyWait
    <2> QED
      BY <1>0, <2>1, WaitingArchive DEF ArchiveStays, Unasked
  <1>3. CASE VerifyFailed(x)
    <2>1. archive'[x] = Retried(archive[x]) /\ archive[x].phase = "verifying"
      BY <1>0, <1>3 DEF VerifyFailed, Verifying, Controlling, BaseInv, CtlOK
    <2> QED
      BY <1>0, <2>1, StaysRetried DEF TaskOK
  <1> QED
    BY <1>1, <1>2, <1>3

LEMMA ArchiveLaneStays ==
  ASSUME BaseInv, NEW x \in Hash,
         ArchiveClaim(x) \/ ArchiveNotDue(x) \/ ArchiveDue(x) \/ ArchiveFailed(x)
  PROVE  ArchiveStays(x)
  <1>0. archive \in [Hash -> ArchiveRow]
    BY DEF BaseInv, RowsOK, RowTypes
  <1>1. CASE ArchiveClaim(x)
    <2>1. archive'[x] = [archive[x] EXCEPT !.held = TRUE]
      BY <1>0, <1>1 DEF ArchiveClaim
    <2> QED
      BY <1>0, <2>1, StaysHeld
  <1>2. CASE ArchiveNotDue(x)
    <2>1. archive'[x] = NoArchive /\ archive[x].phase = "ready"
      BY <1>0, <1>2 DEF ArchiveNotDue, Controlling, BaseInv, CtlOK
    <2> QED
      BY <2>1, NoArchiveRow DEF ArchiveStays, Unasked
  <1>3. CASE ArchiveDue(x)
    BY <1>3, StaysKept DEF ArchiveDue, db
  <1>4. CASE ArchiveFailed(x)
    <2>1. archive'[x] = Retried(archive[x]) /\ archive[x].phase = "ready"
      BY <1>0, <1>4 DEF ArchiveFailed, Controlling, BaseInv, CtlOK
    <2> QED
      BY <1>0, <2>1, StaysRetried
  <1> QED
    BY <1>1, <1>2, <1>3, <1>4

LEMMA StartWorkStays ==
  ASSUME BaseInv, NEW x \in Hash, StartWork
  PROVE  ArchiveStays(x)
  <1> DEFINE row == [NoArchive EXCEPT !.phase = "ready"]
  <1>1. row.loc = NoLoc
    BY NewArchive
  <1>2. CASE enabled
    <2>1. archive'[x] = archive[x] \/ (archive[x].phase = "none" /\ archive'[x] = row)
      BY <1>2 DEF StartWork
    <2> QED
      BY <1>1, <2>1, StaysKept DEF ArchiveStays, Unasked
  <1>3. CASE ~enabled
    <2>1. \/ archive'[x] = archive[x]
          \/ /\ archive'[x] = NoArchive /\ archive[x].phase \in {"ready", "blocked"}
             /\ archive[x].phase = "blocked" => x \in waived'
      BY <1>3 DEF StartWork, Dropped
    <2> QED
      BY <2>1, StaysKept, NoArchiveRow DEF ArchiveStays, Unasked
  <1> QED
    BY <1>2, <1>3

LEMMA CycleArchive ==
  ASSUME BaseInv, NEW x \in Hash, Cycle
  PROVE  ArchiveRecord(x) \/ VerifyOverdue(x) \/ CompleteArchive(x) \/ ArchiveStays(x)
  <1>0. archive \in [Hash -> ArchiveRow]
    BY DEF BaseInv, RowsOK, RowTypes
  <1>1. CASE BeginCycle \/ Observe \/ Remove \/ EndCycle \/ CutCycle
    BY <1>1, StaysKept DEF BeginCycle, Observe, Remove, EndCycle, CutCycle, db
  <1>2. ASSUME NEW h \in Hash, ManifestClaim(h) \/ ManifestSaved(h) \/ ManifestFailed(h)
        PROVE  ArchiveStays(x)
    BY <1>2, StaysKept DEF ManifestClaim, ManifestSaved, ManifestFailed, Manifesting
  <1>3. ASSUME NEW h \in Hash, h # x,
               \/ VerifyClaim(h) \/ VerifyWait(h) \/ VerifyOverdue(h) \/ VerifyFailed(h)
               \/ CompleteArchive(h)
        PROVE  ArchiveStays(x)
    <2>1. archive'[x] = archive[x]
      BY <1>0, <1>3 DEF VerifyClaim, VerifyWait, VerifyOverdue, VerifyFailed, CompleteArchive
    <2> QED
      BY <2>1, StaysKept
  <1>4. ASSUME NEW h \in Hash, h # x,
               \/ ArchiveClaim(h) \/ ArchiveNotDue(h) \/ ArchiveDue(h) \/ ArchiveRecord(h)
               \/ ArchiveFailed(h)
        PROVE  ArchiveStays(x)
    <2>1. archive'[x] = archive[x]
      BY <1>0, <1>4 DEF ArchiveClaim, ArchiveNotDue, ArchiveDue, ArchiveRecord, ArchiveFailed, db
    <2> QED
      BY <2>1, StaysKept
  <1> QED
    BY <1>1, <1>2, <1>3, <1>4, VerifyStays, ArchiveLaneStays, StartWorkStays DEF Cycle

LEMMA OperatorArchive ==
  ASSUME BaseInv, NEW x \in Hash, Operator
  PROVE  ArchiveStays(x)
  <1>0. archive \in [Hash -> ArchiveRow]
    BY DEF BaseInv, RowsOK, RowTypes
  <1>1. ASSUME NEW h \in Hash, OperatorRetryMedia(h) \/ OperatorCancelMedia(h)
        PROVE  ArchiveStays(x)
    BY <1>1, StaysKept DEF OperatorRetryMedia, OperatorCancelMedia
  <1>2. ASSUME NEW h \in Hash, h # x, OperatorRetryArchive(h) \/ OperatorCancelArchive(h)
        PROVE  ArchiveStays(x)
    <2>1. archive'[x] = archive[x]
      BY <1>0, <1>2 DEF OperatorRetryArchive, OperatorCancelArchive
    <2> QED
      BY <2>1, StaysKept
  <1>3. CASE OperatorCancelArchive(x)
    <2>1. archive'[x] = NoArchive /\ x \in waived'
      BY <1>0, <1>3 DEF OperatorCancelArchive
    <2> QED
      BY <2>1, NoArchiveRow DEF ArchiveStays
  <1>4. CASE OperatorRetryArchive(x) /\ archive[x].phase # "blocked"
    <2>1. archive'[x] = [archive[x] EXCEPT !.attempts = 0]
      BY <1>0, <1>4 DEF OperatorRetryArchive
    <2> QED
      BY <1>0, <2>1 DEF ArchiveStays, Unasked, ArchiveRow
  <1>5. CASE OperatorRetryArchive(x) /\ archive[x].phase = "blocked"
    <2>1. archive'[x] = [archive[x] EXCEPT !.phase = RetryPhase(archive[x]), !.subs = 0,
                                           !.attempts = 0]
      BY <1>0, <1>5 DEF OperatorRetryArchive
    <2>2. /\ archive'[x].loc = archive[x].loc
          /\ archive'[x].phase = RetryPhase(archive[x])
      BY <1>0, <2>1 DEF ArchiveRow
    <2> QED
      BY <2>2 DEF ArchiveStays, Unasked, RetryPhase
  <1> QED
    BY <1>1, <1>2, <1>3, <1>4, <1>5 DEF Operator

LEMMA ArchiveStep ==
  ASSUME BaseInv, [Next]_vars, NEW x \in Hash
  PROVE  ArchiveRecord(x) \/ VerifyOverdue(x) \/ CompleteArchive(x) \/ ArchiveStays(x)
  <1>0. archive \in [Hash -> ArchiveRow]
    BY DEF BaseInv, RowsOK, RowTypes
  <1>1. CASE Step
    BY <1>1, StaysKept DEF Step, ReadSample, Upload, JobDropped, MediaClaim, StoreSample,
       NothingToSample, MediaRetry, DeferDependency, Delivered, Settle, Analysing
  <1>2. CASE \/ Crash \/ UNCHANGED vars
             \/ \E h \in Hash : Land(h) \/ Lose(h) \/ Finish(h) \/ ByHand(h)
    BY <1>2, StaysKept DEF Crash, Land, Lose, Finish, ByHand, QBUnchanged, db, vars
  <1>3. CASE Recover
    <2>1. archive'[x] = [archive[x] EXCEPT !.held = FALSE]
      BY <1>3 DEF Recover
    <2> QED
      BY <1>0, <2>1, StaysHeld
  <1>4. ASSUME NEW h \in Hash, Expire(h) PROVE ArchiveStays(x)
    <2>1. archive'[x] = archive[x] \/ archive'[x] = [archive[x] EXCEPT !.held = FALSE]
      BY <1>0, <1>4 DEF Expire
    <2> QED
      BY <1>0, <2>1, StaysKept, StaysHeld
  <1> QED
    BY <1>1, <1>2, <1>3, <1>4, CycleArchive, OperatorArchive DEF Next

\* Who touches qB, the removals and their history.
LEMMA OutsideStep ==
  ASSUME [Next]_vars
  PROVE  \/ UNCHANGED <<qb, removals, gone, taken>>
         \/ Remove
         \/ \E h \in Hash : ArchiveRecord(h) \/ Land(h) \/ Lose(h) \/ Finish(h) \/ ByHand(h)
  <1>1. CASE Cycle
    <2>1. CASE BeginCycle \/ Observe \/ StartWork \/ EndCycle \/ CutCycle
      BY <2>1 DEF BeginCycle, Observe, StartWork, EndCycle, CutCycle, Controlling, outside, history
    <2>2. ASSUME NEW h \in Hash,
                 VerifyClaim(h) \/ VerifyWait(h) \/ VerifyOverdue(h) \/ VerifyFailed(h)
                 \/ CompleteArchive(h)
          PROVE  UNCHANGED <<qb, removals, gone, taken>>
      BY <2>2 DEF VerifyClaim, VerifyWait, VerifyOverdue, VerifyFailed, CompleteArchive,
         Verifying, Controlling
    <2>3. ASSUME NEW h \in Hash,
                 ArchiveClaim(h) \/ ArchiveNotDue(h) \/ ArchiveDue(h) \/ ArchiveFailed(h)
          PROVE  UNCHANGED <<qb, removals, gone, taken>>
      BY <2>3 DEF ArchiveClaim, ArchiveNotDue, ArchiveDue, ArchiveFailed, Controlling
    <2>4. ASSUME NEW h \in Hash, ManifestClaim(h) \/ ManifestSaved(h) \/ ManifestFailed(h)
          PROVE  UNCHANGED <<qb, removals, gone, taken>>
      BY <2>4 DEF ManifestClaim, ManifestSaved, ManifestFailed, Manifesting, Controlling
    <2> QED
      BY <1>1, <2>1, <2>2, <2>3, <2>4 DEF Cycle
  <1>2. CASE Step
    BY <1>2 DEF Step, ReadSample, Upload, JobDropped, MediaClaim, StoreSample, NothingToSample,
       MediaRetry, DeferDependency, Delivered, Settle, Analysing, outside, history
  <1>3. CASE Operator
    BY <1>3 DEF Operator, OperatorRetryArchive, OperatorCancelArchive, OperatorRetryMedia,
       OperatorCancelMedia, Operating, outside
  <1>4. CASE Crash \/ Recover \/ UNCHANGED vars \/ \E h \in Hash : Expire(h)
    BY <1>4 DEF Crash, Recover, Expire, outside, history, vars
  <1> QED
    BY <1>1, <1>2, <1>3, <1>4 DEF Next

\* A torrent that leaves qB is noted, until its next manifest is saved.
LEMMA GoneStep ==
  ASSUME BaseInv, [Next]_vars, NEW x \in Hash, ~ArchiveRecord(x)
  PROVE  /\ x \in gone => x \in gone'
         /\ x \notin Present(qb)' => x \notin Present(qb) \/ x \in gone'
  <1>0. qb \in [Hash -> Torrent]
    BY DEF BaseInv, OutsideOK, Snapshot
  <1>1. CASE UNCHANGED <<qb, removals, gone, taken>> \/ Remove
    BY <1>1 DEF Remove, Controlling, Present
  <1>2. ASSUME NEW h \in Hash, ArchiveRecord(h), h # x
        PROVE  qb' = qb /\ gone' = gone \ {h}
    BY <1>2 DEF ArchiveRecord, Controlling
  <1>3. ASSUME NEW h \in Hash, Land(h)
        PROVE  /\ gone' = gone \cup {h}
               /\ x # h => qb'[x] = qb[x]
    BY <1>0, <1>3 DEF Land
  <1>4. ASSUME NEW h \in Hash, Lose(h)
        PROVE  gone' = gone /\ qb' = qb
    BY <1>4 DEF Lose
  <1>5. ASSUME NEW h \in Hash, Finish(h)
        PROVE  gone' = gone /\ (x # h => qb'[x] = qb[x]) /\ qb'[h].st = "seeding"
    BY <1>0, <1>5 DEF Finish, Torrent, Absent
  <1>6. ASSUME NEW h \in Hash, ByHand(h)
        PROVE  /\ gone \subseteq gone' /\ (x # h => qb'[x] = qb[x])
               /\ h \in gone' \/ qb'[h] = qb[h] \/ qb'[h].st \in {"busy", "seeding"}
    BY <1>0, <1>6 DEF ByHand, Torrent, Absent, Complete
  <1> QED
    BY <1>1, <1>2, <1>3, <1>4, <1>5, <1>6, OutsideStep DEF Present, Absent

\* A comparison goes on with its snapshot, and with the removals that can be overdue.
LEMMA ComparingStep ==
  ASSUME BaseInv, [Next]_vars, Comparing'
  PROVE  \/ BeginCycle
         \/ /\ Comparing
            /\ ctl'.snap = ctl.snap /\ ctl'.late = ctl.late
  <1>1. CASE Cycle
    <2>1. CASE Observe \/ StartWork \/ Remove \/ EndCycle \/ CutCycle
      BY <2>1 DEF Observe, StartWork, Remove, EndCycle, CutCycle, Controlling, ToWork, Idle,
         Comparing
    <2>2. ASSUME NEW h \in Hash,
                 VerifyClaim(h) \/ VerifyWait(h) \/ VerifyOverdue(h) \/ VerifyFailed(h)
                 \/ CompleteArchive(h)
          PROVE  Comparing /\ ctl'.snap = ctl.snap /\ ctl'.late = ctl.late
      BY <2>2 DEF VerifyClaim, VerifyWait, VerifyOverdue, VerifyFailed, CompleteArchive,
         Verifying, Controlling, Comparing
    <2>3. ASSUME NEW h \in Hash,
                 ArchiveClaim(h) \/ ArchiveNotDue(h) \/ ArchiveDue(h) \/ ArchiveRecord(h)
                 \/ ArchiveFailed(h)
          PROVE  ~Comparing'
      BY <2>3 DEF ArchiveClaim, ArchiveNotDue, ArchiveDue, ArchiveRecord, ArchiveFailed,
         Controlling, ToWork, Goes, Idle, Comparing
    <2>4. ASSUME NEW h \in Hash, ManifestClaim(h) \/ ManifestSaved(h) \/ ManifestFailed(h)
          PROVE  ~Comparing'
      <3>1. CASE ManifestClaim(h)
        BY <3>1 DEF ManifestClaim, Controlling, Goes, Comparing
      <3>2. CASE ManifestSaved(h)
        BY <3>2 DEF ManifestSaved, ToWork, Comparing
      <3>3. CASE ManifestFailed(h)
        BY <3>3 DEF ManifestFailed, ToWork, Idle, Comparing
      <3> QED
        BY <2>4, <3>1, <3>2, <3>3
    <2> QED
      BY <1>1, <2>1, <2>2, <2>3, <2>4 DEF Cycle
  <1>2. CASE Recover \/ Crash
    BY <1>2 DEF Recover, Crash, BaseInv, CtlOK, Idle, Comparing
  <1>3. CASE ~Cycle /\ ~Recover /\ ~Crash
    <2>1. ctl' = ctl
      <3>1. CASE Step
        BY <3>1 DEF Step, ReadSample, Upload, JobDropped, MediaClaim, StoreSample,
           NothingToSample, MediaRetry, DeferDependency, Delivered, Settle, Analysing
      <3>2. CASE Operator
        BY <3>2 DEF Operator, OperatorRetryArchive, OperatorCancelArchive, OperatorRetryMedia,
           OperatorCancelMedia, Operating, process
      <3>3. CASE \/ UNCHANGED vars
                 \/ \E h \in Hash : Expire(h) \/ Land(h) \/ Lose(h) \/ Finish(h) \/ ByHand(h)
        BY <3>3 DEF Expire, Land, Lose, Finish, ByHand, QBUnchanged, process, vars
      <3> QED
        BY <1>3, <3>1, <3>2, <3>3 DEF Next
    <2> QED
      BY <2>1 DEF Comparing
  <1> QED
    BY <1>1, <1>2, <1>3

LEMMA ProofNext ==
  ASSUME BaseInv, ProofInv, [Next]_vars
  PROVE  ProofInv'
  <1> SUFFICES ASSUME NEW x \in Hash, archive'[x].loc # NoLoc
               PROVE  /\ x \notin Present(qb)' => x \in gone'
                      /\ Comparing' /\ x \notin Present(ctl.snap)' => x \in gone'
    BY DEF ProofInv
  <1>0. archive \in [Hash -> ArchiveRow]
    BY DEF BaseInv, RowsOK, RowTypes
  <1>1. CASE ArchiveRecord(x)
    <2>1. x \in Present(qb)' /\ ~Comparing'
      BY <1>1 DEF ArchiveRecord, Controlling, Present, Comparing
    <2> QED
      BY <2>1
  <1>2. CASE ~ArchiveRecord(x)
    <2>1. archive[x].loc # NoLoc
      <3>1. CASE VerifyOverdue(x)
        <4> DEFINE phase == ReturnPhase(archive[x].subs)
                   spent == archive[x].attempts + 1
        <4>1. archive'[x] = [archive[x] EXCEPT !.phase = phase, !.held = FALSE, !.attempts = spent]
          BY <1>0, <3>1 DEF VerifyOverdue
        <4> HIDE DEF phase, spent
        <4>2. archive'[x].loc = archive[x].loc
          BY <1>0, <4>1 DEF ArchiveRow
        <4> QED
          BY <4>2
      <3>2. CASE CompleteArchive(x)
        BY <1>0, <3>2, NoArchiveRow DEF CompleteArchive
      <3>3. CASE ArchiveStays(x)
        BY <3>3 DEF ArchiveStays
      <3> QED
        BY <1>2, <3>1, <3>2, <3>3, ArchiveStep
    <2>2. /\ x \notin Present(qb) => x \in gone
          /\ Comparing /\ x \notin Present(ctl.snap) => x \in gone
      BY <2>1 DEF ProofInv
    <2>3. /\ x \in gone => x \in gone'
          /\ x \notin Present(qb)' => x \notin Present(qb) \/ x \in gone'
      BY <1>2, GoneStep
    <2>4. ASSUME Comparing', x \notin Present(ctl.snap)'
          PROVE  x \in gone'
      <3>1. CASE BeginCycle
        <4>1. x \notin Present(qb)
          BY <2>4, <3>1 DEF BeginCycle, Present
        <4> QED
          BY <2>2, <2>3, <4>1
      <3>2. CASE Comparing /\ ctl'.snap = ctl.snap
        <4>1. x \notin Present(ctl.snap)
          BY <2>4, <3>2 DEF Present
        <4> QED
          BY <2>2, <2>3, <3>2, <4>1
      <3> QED
        BY <2>4, <3>1, <3>2, ComparingStep
    <2> QED
      BY <2>2, <2>3, <2>4
  <1> QED
    BY <1>1, <1>2

LEMMA ProofInvariant == Spec => [](BaseInv /\ ProofInv)
  <1>1. Init => ProofInv
    BY DEF Init, ProofInv, NoArchive
  <1>2. BaseInv /\ ProofInv /\ [Next]_vars => ProofInv'
    BY ProofNext
  <1> QED
    BY <1>1, <1>2, BaseInvariant, PTL DEF Spec

\* An archive is recorded only for a torrent that has been out of qB since its manifest
\* was saved, and whose files are complete at the recorded path (CompleteArchive).
THEOREM ArchivesAreProven == Spec => ArchiveIsProven
  <1>1. ASSUME BaseInv, ProofInv, [Next]_vars, NEW x \in Hash, record'[x] # record[x]
        PROVE  x \in gone /\ disk[x] = record'[x]
    <2>1. /\ CompleteArchive(x)
          /\ record'[x] = archive[x].loc /\ archive[x].loc # NoLoc
      BY <1>1, RecordStep
    <2>2. /\ Comparing /\ x \notin Present(ctl.snap)
          /\ disk[x] = archive[x].loc
      BY <2>1 DEF CompleteArchive, Verifying, Controlling, Comparing, Intact
    <2> QED
      BY <1>1, <2>1, <2>2 DEF ProofInv
  <1>2. BaseInv /\ ProofInv /\ [Next]_vars
          => [\A h \in Hash : record'[h] # record[h] => h \in gone /\ disk[h] = record'[h]]_vars
    BY <1>1
  <1> QED
    BY <1>2, ProofInvariant, PTL DEF Spec, ArchiveIsProven

-----------------------------------------------------------------------------
\* What is known of the removals on their way.

\* A removal is asked for while its task is being verified.
LEMMA NotRemovedStep ==
  ASSUME BaseInv, [Next]_vars, NEW x \in Hash, NotRemoved(x)
  PROVE  \/ NotRemoved(x)'
         \/ /\ Remove
            /\ archive[x].phase = "verifying" /\ archive[x].loc # NoLoc
            /\ archive' = archive /\ ~Comparing'
  <1>0. removals \in [Hash -> Nat]
    BY DEF BaseInv, OutsideOK
  <1>1. CASE UNCHANGED <<qb, removals, gone, taken>>
    BY <1>1 DEF NotRemoved
  <1>2. CASE Remove /\ ctl.h = x
    <2>1. archive' = archive /\ ~Comparing'
      BY <1>2 DEF Remove, db, ToWork, Idle, Comparing
    <2>2. archive[x].phase = "verifying" /\ archive[x].loc # NoLoc
      BY <1>2, RowsOf DEF Remove, Controlling, BaseInv, CtlOK, TaskOK
    <2> QED
      BY <1>2, <2>1, <2>2
  <1>3. CASE Remove /\ ctl.h # x
    BY <1>0, <1>3 DEF Remove, Controlling, NotRemoved
  <1>4. ASSUME NEW h \in Hash, ArchiveRecord(h)
        PROVE  NotRemoved(x)'
    BY <1>4 DEF ArchiveRecord, Controlling, NotRemoved
  <1>5. ASSUME NEW h \in Hash, Land(h) \/ Lose(h)
        PROVE  NotRemoved(x)'
    <2>1. h # x
      BY <1>5 DEF Land, Lose, NotRemoved
    <2>2. removals'[x] = removals[x] /\ (x \in taken' => x \in taken)
      BY <1>0, <1>5, <2>1 DEF Land, Lose
    <2> QED
      BY <2>2 DEF NotRemoved
  <1>6. ASSUME NEW h \in Hash, Finish(h) \/ ByHand(h)
        PROVE  NotRemoved(x)'
    BY <1>6 DEF Finish, ByHand, NotRemoved
  <1> QED
    BY <1>1, <1>2, <1>3, <1>4, <1>5, <1>6, OutsideStep

\* What a removal of ours took out of qB is in qB again only when someone adds it.
LEMMA TakenStep ==
  ASSUME BaseInv, [Next]_vars, taken \cap Present(qb) = {}
  PROVE  taken' \cap Present(qb)' = {}
  <1>0. qb \in [Hash -> Torrent]
    BY DEF BaseInv, OutsideOK, Snapshot
  <1>1. ASSUME NEW x \in taken', x \in Present(qb)'
        PROVE  FALSE
    <2>0. x \in Hash /\ qb'[x] # Absent
      BY <1>1 DEF Present
    <2>1. CASE UNCHANGED <<qb, removals, gone, taken>> \/ Remove
      BY <1>1, <2>0, <2>1 DEF Remove, Controlling, Present
    <2>2. ASSUME NEW h \in Hash, ArchiveRecord(h) \/ Lose(h)
          PROVE  FALSE
      BY <1>1, <2>0, <2>2 DEF ArchiveRecord, Lose, Controlling, Present
    <2>3. ASSUME NEW h \in Hash, Land(h)
          PROVE  FALSE
      <3>1. x # h /\ qb'[x] = qb[x]
        BY <1>0, <2>0, <2>3 DEF Land
      <3>2. x \in taken
        BY <1>1, <2>3, <3>1 DEF Land
      <3> QED
        BY <2>0, <3>1, <3>2 DEF Present
    <2>4. ASSUME NEW h \in Hash, Finish(h)
          PROVE  FALSE
      <3>1. x \in taken /\ qb[x] = Absent
        BY <1>1, <2>0, <2>4 DEF Finish, Present
      <3>2. qb'[x] = qb[x]
        BY <1>0, <2>4, <3>1 DEF Finish, Absent
      <3> QED
        BY <2>0, <3>1, <3>2
    <2>5. ASSUME NEW h \in Hash, ByHand(h)
          PROVE  FALSE
      <3>1. x \in taken
        BY <1>1, <2>5 DEF ByHand
      <3>2. qb[x] = Absent
        BY <2>0, <3>1 DEF Present
      <3>3. x = h
        BY <1>0, <2>0, <2>5, <3>2 DEF ByHand
      <3> QED
        BY <1>0, <1>1, <2>0, <2>5, <3>2, <3>3 DEF ByHand, Complete, Present, Absent
    <2> QED
      BY <2>1, <2>2, <2>3, <2>4, <2>5, OutsideStep
  <1> QED
    BY <1>1

\* A task is waived until its torrent is asked for again.
LEMMA WaivedStep ==
  ASSUME BaseInv, [Next]_vars, NEW x \in Hash, ~ArchiveRecord(x)
  PROVE  x \in waived => x \in waived'
  <1>1. CASE Cycle
    <2>1. CASE BeginCycle \/ Observe \/ StartWork \/ Remove \/ EndCycle \/ CutCycle
      BY <2>1 DEF BeginCycle, Observe, StartWork, Remove, EndCycle, CutCycle, history
    <2>2. ASSUME NEW h \in Hash,
                 VerifyClaim(h) \/ VerifyWait(h) \/ VerifyOverdue(h) \/ VerifyFailed(h)
                 \/ CompleteArchive(h)
          PROVE  waived' = waived
      BY <2>2 DEF VerifyClaim, VerifyWait, VerifyOverdue, VerifyFailed, CompleteArchive,
         Verifying
    <2>3. ASSUME NEW h \in Hash, h # x,
                 ArchiveClaim(h) \/ ArchiveNotDue(h) \/ ArchiveDue(h) \/ ArchiveRecord(h)
                 \/ ArchiveFailed(h)
          PROVE  x \in waived => x \in waived'
      BY <2>3 DEF ArchiveClaim, ArchiveNotDue, ArchiveDue, ArchiveRecord, ArchiveFailed
    <2>4. CASE ArchiveClaim(x) \/ ArchiveNotDue(x) \/ ArchiveDue(x) \/ ArchiveFailed(x)
      BY <2>4 DEF ArchiveClaim, ArchiveNotDue, ArchiveDue, ArchiveFailed
    <2>5. ASSUME NEW h \in Hash, ManifestClaim(h) \/ ManifestSaved(h) \/ ManifestFailed(h)
          PROVE  waived' = waived
      BY <2>5 DEF ManifestClaim, ManifestSaved, ManifestFailed, Manifesting
    <2> QED
      BY <1>1, <2>1, <2>2, <2>3, <2>4, <2>5 DEF Cycle
  <1>2. CASE Step
    BY <1>2 DEF Step, ReadSample, Upload, JobDropped, MediaClaim, StoreSample, NothingToSample,
       MediaRetry, DeferDependency, Delivered, Settle, Analysing, history
  <1>3. CASE Operator
    BY <1>3 DEF Operator, OperatorRetryArchive, OperatorCancelArchive, OperatorRetryMedia,
       OperatorCancelMedia
  <1>4. CASE \/ Crash \/ Recover \/ UNCHANGED vars
             \/ \E h \in Hash : Expire(h) \/ Land(h) \/ Lose(h) \/ Finish(h) \/ ByHand(h)
    BY <1>4 DEF Crash, Recover, Expire, Land, Lose, Finish, ByHand, QBUnchanged, history, vars
  <1> QED
    BY <1>1, <1>2, <1>3, <1>4 DEF Next

\* When a removal is carried out within the grace, the ones that can be overdue are over.
LEMMA LateNext ==
  ASSUME ~SlowRemoval, BaseInv, RemovalInv, [Next]_vars, Comparing',
         NEW x \in ctl'.late, x \in Present(ctl.snap)'
  PROVE  x \in Hash /\ NotRemoved(x)'
  <1>1. CASE BeginCycle
    <2>1. /\ ctl'.late = {h \in Hash : removals[h] = 0 \/ SlowRemoval} /\ ctl'.snap = qb
          /\ removals' = removals /\ taken' = taken
      BY <1>1 DEF BeginCycle, Controlling
    <2>2. x \in Hash /\ removals[x] = 0 /\ x \in Present(qb)
      BY <2>1 DEF Present
    <2>3. x \notin taken
      BY <2>2 DEF RemovalInv
    <2> QED
      BY <2>1, <2>2, <2>3 DEF NotRemoved
  <1>2. CASE Comparing /\ ctl'.snap = ctl.snap /\ ctl'.late = ctl.late
    <2>1. x \in Present(ctl.snap)
      BY <1>2 DEF Present
    <2>2. x \in Hash /\ NotRemoved(x)
      BY <1>2, <2>1 DEF RemovalInv, Present
    <2> QED
      BY <2>2, NotRemovedStep
  <1> QED
    BY <1>1, <1>2, ComparingStep

LEMMA RemovalNext ==
  ASSUME ~SlowRemoval, BaseInv, RemovalInv, [Next]_vars
  PROVE  RemovalInv'
  <1>0. archive \in [Hash -> ArchiveRow]
    BY DEF BaseInv, RowsOK, RowTypes
  <1>1. taken' \cap Present(qb)' = {}
    BY TakenStep DEF RemovalInv
  <1>2. ASSUME NEW x \in Hash, x \notin waived', record'[x] = NoLoc, Unasked(archive[x])'
        PROVE  NotRemoved(x)'
    <2>1. CASE ArchiveRecord(x)
      <3>1. /\ ctl.loc \in Loc
            /\ archive'[x] = [phase |-> "verifying", held |-> FALSE, attempts |-> 0,
                              loc |-> ctl.loc, subs |-> archive[x].subs + 1]
        BY <1>0, <2>1 DEF ArchiveRecord, Controlling, BaseInv, CtlOK
      <3> QED
        BY <1>2, <3>1, ArchiveAssumption DEF ArchiveAssumption, Unasked
    <2>2. CASE ~ArchiveRecord(x)
      <3>1. x \notin waived /\ record[x] = NoLoc /\ ~CompleteArchive(x)
        <4>1. ~CompleteArchive(x)
          <5>1. ASSUME CompleteArchive(x) PROVE FALSE
            <6>1. record'[x] = archive[x].loc
              BY <5>1 DEF CompleteArchive, BaseInv, OutsideOK
            <6>2. archive[x].loc # NoLoc
              BY <5>1, RowsOf DEF CompleteArchive, Verifying, Controlling, BaseInv, CtlOK, TaskOK
            <6> QED
              BY <1>2, <6>1, <6>2
          <5> QED
            BY <5>1
        <4> QED
          BY <1>2, <2>2, <4>1, WaivedStep, RecordStep
      <3>2. CASE VerifyOverdue(x)
        <4>1. /\ Comparing /\ x \in ctl.late /\ x \in Present(ctl.snap)
              /\ removals' = removals /\ taken' = taken
          BY <3>2 DEF VerifyOverdue, Verifying, Controlling, Comparing
        <4> QED
          BY <4>1 DEF RemovalInv, NotRemoved
      <3>3. CASE ArchiveStays(x)
        <4>1. Unasked(archive[x])
          BY <1>2, <3>3 DEF ArchiveStays, Unasked
        <4>2. NotRemoved(x)
          BY <3>1, <4>1 DEF RemovalInv
        <4> QED
          BY <4>1, <4>2, NotRemovedStep DEF Unasked
      <3> QED
        BY <2>2, <3>1, <3>2, <3>3, ArchiveStep
    <2> QED
      BY <2>1, <2>2
  <1> QED
    BY <1>1, <1>2, LateNext DEF RemovalInv

\* A torrent that a removal of ours took out of qB is recorded, or its archive task goes
\* on or waits for an operator, as long as qB carries a removal out within the 120 s of
\* grace (reconcileArchives): no crash, failed file check, further request or change by
\* hand makes it vanish silently.
THEOREM RemovalsAreAccountedFor ==
  ASSUME ~SlowRemoval
  PROVE  Spec => []RemovalIsAccountedFor
  <1>1. Init => RemovalInv
    BY DEF Init, RemovalInv, NotRemoved, Idle, Comparing
  <1>2. BaseInv /\ RemovalInv /\ [Next]_vars => RemovalInv'
    BY RemovalNext
  <1>3. BaseInv /\ RemovalInv => RemovalIsAccountedFor
    BY DEF BaseInv, OutsideOK, RemovalInv, NotRemoved, Unasked, RemovalIsAccountedFor
  <1> QED
    BY <1>1, <1>2, <1>3, BaseInvariant, PTL DEF Spec

-----------------------------------------------------------------------------
\* Who ends a blocked archive task.

\* Only an operator ends a blocked task, or a cycle that finds archiving switched off.
LEMMA BlockedEnds ==
  ASSUME BaseInv, [Next]_vars, NEW x \in Hash,
         archive[x].phase = "blocked", archive'[x].phase = "none"
  PROVE  OperatorCancelArchive(x) \/ (StartWork /\ ~enabled)
  <1>0. archive \in [Hash -> ArchiveRow] /\ archive' # archive /\ archive'[x] # archive[x]
    BY DEF BaseInv, RowsOK, RowTypes
  <1>1. CASE Cycle
    <2>1. ~(BeginCycle \/ Observe \/ Remove \/ EndCycle \/ CutCycle)
      BY <1>0 DEF BeginCycle, Observe, Remove, EndCycle, CutCycle, db
    <2>2. CASE StartWork
      BY <2>2 DEF StartWork
    <2>3. ASSUME NEW h \in Hash,
                 \/ VerifyClaim(h) \/ VerifyWait(h) \/ VerifyOverdue(h) \/ VerifyFailed(h)
                 \/ CompleteArchive(h)
          PROVE  FALSE
      <3>1. archive[h].phase = "verifying"
        BY <2>3 DEF VerifyClaim, Verifiable, VerifyWait, VerifyOverdue, VerifyFailed,
           CompleteArchive, Verifying, Controlling, BaseInv, CtlOK
      <3>2. archive'[x] = archive[x]
        BY <1>0, <2>3, <3>1 DEF VerifyClaim, VerifyWait, VerifyOverdue, VerifyFailed,
           CompleteArchive
      <3> QED
        BY <1>0, <3>2
    <2>4. ASSUME NEW h \in Hash,
                 \/ ArchiveClaim(h) \/ ArchiveNotDue(h) \/ ArchiveDue(h) \/ ArchiveRecord(h)
                 \/ ArchiveFailed(h)
          PROVE  FALSE
      <3>1. archive[h].phase = "ready"
        BY <2>4 DEF ArchiveClaim, Archivable, ArchiveNotDue, ArchiveDue, ArchiveRecord,
           ArchiveFailed, Controlling, BaseInv, CtlOK
      <3>2. archive'[x] = archive[x]
        BY <1>0, <2>4, <3>1 DEF ArchiveClaim, ArchiveNotDue, ArchiveDue, ArchiveRecord,
           ArchiveFailed, db
      <3> QED
        BY <1>0, <3>2
    <2>5. ASSUME NEW h \in Hash, ManifestClaim(h) \/ ManifestSaved(h) \/ ManifestFailed(h)
          PROVE  FALSE
      BY <1>0, <2>5 DEF ManifestClaim, ManifestSaved, ManifestFailed, Manifesting
    <2> QED
      BY <1>1, <2>1, <2>2, <2>3, <2>4, <2>5 DEF Cycle
  <1>2. CASE Operator
    <2>1. ASSUME NEW h \in Hash, OperatorRetryMedia(h) \/ OperatorCancelMedia(h)
          PROVE  FALSE
      BY <1>0, <2>1 DEF OperatorRetryMedia, OperatorCancelMedia
    <2>2. ASSUME NEW h \in Hash, OperatorRetryArchive(h)
          PROVE  FALSE
      <3> DEFINE phase == RetryPhase(archive[x])
      <3>0. phase # "none"
        BY DEF RetryPhase
      <3> HIDE DEF phase
      <3>1. h = x
        BY <1>0, <2>2 DEF OperatorRetryArchive
      <3>2. archive'[x] = [archive[x] EXCEPT !.phase = phase, !.subs = 0, !.attempts = 0]
        BY <1>0, <2>2, <3>1 DEF OperatorRetryArchive, phase
      <3>3. archive'[x].phase = phase
        BY <1>0, <3>2 DEF ArchiveRow
      <3> QED
        BY <3>0, <3>3
    <2>3. ASSUME NEW h \in Hash, OperatorCancelArchive(h)
          PROVE  h = x
      BY <1>0, <2>3 DEF OperatorCancelArchive
    <2> QED
      BY <1>2, <2>1, <2>2, <2>3 DEF Operator
  <1>3. ~Step
    BY <1>0 DEF Step, ReadSample, Upload, JobDropped, MediaClaim, StoreSample,
       NothingToSample, MediaRetry, DeferDependency, Delivered, Settle, Analysing
  <1>4. ~(\/ Crash \/ UNCHANGED vars
          \/ \E h \in Hash : Land(h) \/ Lose(h) \/ Finish(h) \/ ByHand(h))
    BY <1>0 DEF Crash, Land, Lose, Finish, ByHand, QBUnchanged, db, vars
  <1>5. ASSUME Recover \/ \E h \in Hash : Expire(h)
        PROVE  FALSE
    <2>1. \/ archive'[x] = archive[x]
          \/ archive'[x] = [archive[x] EXCEPT !.held = FALSE]
      BY <1>0, <1>5 DEF Recover, Expire
    <2> QED
      BY <1>0, <2>1 DEF ArchiveRow
  <1> QED
    BY <1>1, <1>2, <1>3, <1>4, <1>5 DEF Next

\* While archiving stays switched on, the manifest of a removal that could not be
\* verified is kept until an operator ends the task (docs/validation.md:63): no crash,
\* later snapshot or further cycle drops it, so that switching archiving off
\* (StartWork) is the only way to lose one unasked.
THEOREM ManifestsAreKept == Spec /\ []enabled => ManifestKeptForOperator
  <1>1. ASSUME BaseInv, enabled, [Next]_vars, NEW x \in Hash,
               archive[x].phase = "blocked", archive'[x].phase = "none"
        PROVE  OperatorCancelArchive(x)
    BY <1>1, BlockedEnds
  <1>2. BaseInv /\ enabled /\ [Next]_vars
          => [\A h \in Hash :
                archive[h].phase = "blocked" /\ archive[h].loc # NoLoc
                  /\ archive'[h].phase = "none" => OperatorCancelArchive(h)]_vars
    BY <1>1
  <1> QED
    BY <1>2, BaseInvariant, PTL DEF Spec, ManifestKeptForOperator

================================================================================
