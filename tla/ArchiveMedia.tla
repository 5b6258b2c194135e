----------------------------- MODULE ArchiveMedia -----------------------------
(***************************************************************************)
(* What happens to a finished torrent: the archive lane (archive.go,        *)
(* archive_store.go) removes it from qB and keeps its files, while the      *)
(* media lane (manifest in controller.go, Media.Step in media.go) samples   *)
(* the same files and publishes what it found.  The two lanes meet in the   *)
(* owner row of the torrent, in Observe (observe.go) and in                 *)
(* CompleteArchive.                                                         *)
(*                                                                         *)
(* Each transaction, qB request and read of the disk is one action; the     *)
(* control goroutine, the media goroutine, the operator, qB and the people  *)
(* who work in qB interleave between them.  Due times are left out, but a   *)
(* row put off is not taken up again within the same cycle.  Claims follow  *)
(* TaskClaims with the clock abstracted, as in DownloadPipeline.            *)
(***************************************************************************)
EXTENDS Naturals, FiniteSets

CONSTANTS
  Hash,           \* torrents in our category
  Loc,            \* save paths under QBTRoot
  First,          \* the save path of a new torrent
  NoLoc,          \* no save path
  Samples,        \* how many files SelectSamples picks
  MaxAttempts,    \* Config.MaxAttempts
  SlowRemoval,    \* qB may carry out a removal later than the 120 s of grace
  MaxOperations,  \* bound: commands an operator gives
  MaxFaults,      \* bound: crashes and failures
  MaxChanges      \* bound: changes made by hand

ASSUME ArchiveAssumption ==
  /\ First \in Loc /\ NoLoc \notin Loc
  /\ Samples \in Nat \ {0} /\ MaxAttempts \in Nat \ {0}
  /\ SlowRemoval \in BOOLEAN
  /\ MaxOperations \in Nat /\ MaxFaults \in Nat /\ MaxChanges \in Nat

VARIABLES
  qb,          \* qB: the state and save path of each torrent
  disk,        \* where the complete files of each torrent are
  removals,    \* removal requests on their way, per torrent
  archive,     \* table tasks, lane "archive"
  media,       \* table tasks, lane "media"
  owner,       \* table owners: the goroutine that holds torrent:hash
  record,      \* table archives, and the archive receipt: the recorded path
  done,        \* receipts of kind "media"
  prev,        \* Controller.previous: the last snapshot, or nothing
  ctl,         \* the control goroutine
  job,         \* the media goroutine
  up,          \* the worker runs
  enabled,     \* archiving is switched on in this process's configuration
  operations,  \* operator commands given so far
  faults,      \* faults so far
  changes,     \* changes made by hand so far
  gone,        \* history: torrents out of qB at some time since their manifest
  taken,       \* history: torrents that a removal of ours took out of qB
  waived,      \* history: torrents whose last archive task was cancelled by an
               \* operator, or dropped when blocked
  published    \* history: what the site has received for each torrent

outside == <<qb, disk, removals>>
db == <<archive, media, owner, record, done>>
process == <<prev, ctl, job, up, enabled>>
bounds == <<operations, faults, changes>>
history == <<gone, taken, waived, published>>
vars == <<outside, db, process, bounds, history>>

-----------------------------------------------------------------------------
\* Rows.

Place == Loc \cup {NoLoc}
Absent == [st |-> "absent", loc |-> NoLoc]
Torrent == [st : {"busy", "seeding"}, loc : Loc] \cup {Absent}
Present(snap) == {h \in Hash : snap[h] # Absent}
Complete(snap) == {h \in Hash : snap[h].st = "seeding"}

\* loc: the path of the manifest that was saved before a removal was asked for.
NoArchive == [phase |-> "none", held |-> FALSE, attempts |-> 0, loc |-> NoLoc,
              subs |-> 0]
\* samples: which file was read where; in "upload" they make up the payload.
NoMedia == [phase |-> "none", held |-> FALSE, attempts |-> 0, loc |-> NoLoc,
            files |-> FALSE, samples |-> {}, payload |-> FALSE]

MediaRow(phase, loc, files) ==
  [NoMedia EXCEPT !.phase = phase, !.loc = loc, !.files = files]

Exhausted(spent) == spent >= MaxAttempts

\* Retry.
RetriedForFree(row) == [row EXCEPT !.held = FALSE]
Retried(row) ==
  [row EXCEPT !.attempts = @ + 1, !.held = FALSE,
              !.phase = IF Exhausted(row.attempts + 1) THEN "blocked" ELSE @]

Idle == [pc |-> "idle"]

Init ==
  /\ qb = [h \in Hash |-> [st |-> "busy", loc |-> First]]
  /\ disk = [h \in Hash |-> NoLoc]
  /\ removals = [h \in Hash |-> 0]
  /\ archive = [h \in Hash |-> NoArchive]
  /\ media = [h \in Hash |-> NoMedia]
  /\ owner = [h \in Hash |-> "free"]
  /\ record = [h \in Hash |-> NoLoc]
  /\ done = [h \in Hash |-> "none"]
  /\ prev = [h \in Hash |-> Absent]
  /\ ctl = Idle /\ job = Idle
  /\ up = TRUE /\ enabled = TRUE
  /\ operations = 0 /\ faults = 0 /\ changes = 0
  /\ gone = {} /\ taken = {} /\ waived = {}
  /\ published = [h \in Hash |-> {}]

Fault == faults < MaxFaults /\ faults' = faults + 1
Change == changes < MaxChanges /\ changes' = changes + 1

-----------------------------------------------------------------------------
\* Claims.

Free(h) == owner[h] = "free"
Own(h, who) == owner' = [owner EXCEPT ![h] = who]

Working(h) ==
  \/ job.pc # "idle" /\ job.h = h
  \/ ctl.pc \in {"verify", "look", "record", "manifest"} /\ ctl.h = h

\* The lease of a claim whose job is over runs out.
Expire(h) ==
  /\ ~Free(h) /\ ~Working(h)
  /\ Own(h, "free")
  /\ archive' = [archive EXCEPT ![h].held = FALSE]
  /\ media' = [media EXCEPT ![h].held = FALSE]
  /\ UNCHANGED <<outside, record, done, process, bounds, history>>

-----------------------------------------------------------------------------
\* The control goroutine.

Controlling(pc) ==
  /\ up /\ ctl.pc = pc
  /\ UNCHANGED <<qb, disk, job, up, enabled, operations, changes, taken, published>>

\* late: the removals that can be overdue in this snapshot.
BeginCycle ==
  /\ Controlling("idle")
  /\ ctl' = [pc |-> "observe", snap |-> qb,
             late |-> {h \in Hash : removals[h] = 0 \/ SlowRemoval}]
  /\ UNCHANGED <<removals, db, prev, faults, gone, waived>>

\* Observe: a torrent that is complete, and was not or was elsewhere when last
\* seen, gets a media task, and a task for another path starts over.  The row
\* loses its claim; the owner row stays, so that a reader drains.
MovableManifest == {"manifest"}
Movable == {"manifest", "extract", "blocked"}

MovedKeepingSamples(h, loc) == [media[h] EXCEPT !.loc = loc, !.held = FALSE]
MovedRow(h, loc) == MediaRow("manifest", loc, FALSE)

Observed(h, t) ==
  LET row == media[h]
      old == prev[h]
      news == t.st = "seeding" /\ (old.st # "seeding" \/ old.loc # t.loc)
      again == /\ row.phase \in Movable
               /\ \/ row.loc # t.loc
                  \/ old # Absent /\ old.st # "seeding" /\ row.phase = "blocked"
                       /\ ~row.payload IN
  IF ~news \/ done[h] # "none" THEN row
  ELSE IF row.phase = "none" THEN MediaRow("manifest", t.loc, FALSE)
  ELSE IF again THEN MovedRow(h, t.loc)
  ELSE row

Observe ==
  /\ Controlling("observe")
  /\ media' = [h \in Hash |-> Observed(h, ctl.snap[h])]
  /\ prev' = ctl.snap
  /\ ctl' = [pc |-> "reconcile", snap |-> ctl.snap, late |-> ctl.late, todo |-> Hash]
  /\ UNCHANGED <<removals, archive, owner, record, done, faults, gone, waived>>

\* reconcileArchives: one claim after another, ArchiveBatch at most.
Verifiable(h) ==
  ctl.pc = "reconcile" /\ h \in ctl.todo /\ archive[h].phase = "verifying"
    /\ ~archive[h].held /\ Free(h)

VerifyClaim(h) ==
  /\ Controlling("reconcile") /\ Verifiable(h)
  /\ archive' = [archive EXCEPT ![h].held = TRUE]
  /\ Own(h, "control")
  /\ ctl' = [pc |-> "verify", snap |-> ctl.snap, late |-> ctl.late,
             todo |-> ctl.todo \ {h}, h |-> h]
  /\ UNCHANGED <<removals, media, record, done, prev, faults, gone, waived>>

Verifying(h) ==
  /\ Controlling("verify") /\ ctl.h = h
  /\ Own(h, "free")
  /\ ctl' = [pc |-> "reconcile", snap |-> ctl.snap, late |-> ctl.late, todo |-> ctl.todo]
  /\ UNCHANGED <<removals, prev, gone, waived>>

\* Still in qB within the 120 s: look again in the next cycle.
VerifyWait(h) ==
  /\ Verifying(h) /\ h \in Present(ctl.snap)
  /\ archive' = [archive EXCEPT ![h].held = FALSE, ![h].attempts = 0]
  /\ UNCHANGED <<media, record, done, faults>>

ReturnPhase(subs) == IF subs >= MaxAttempts THEN "blocked" ELSE "ready"

\* Still in qB after the 120 s: ask again, or give up.
VerifyOverdue(h) ==
  /\ Verifying(h) /\ h \in Present(ctl.snap) /\ h \in ctl.late
  /\ archive' = [archive EXCEPT ![h].phase = ReturnPhase(archive[h].subs),
                                ![h].held = FALSE, ![h].attempts = @ + 1]
  /\ UNCHANGED <<media, record, done, faults>>

\* verifyArchiveFiles and OpenMedia: the complete files are where they should be.
IntactAlways(h, loc) == TRUE
Intact(h, loc) == disk[h] = loc

VerifyFailed(h) ==
  /\ Verifying(h) /\ h \notin Present(ctl.snap)
  /\ IF Intact(h, archive[h].loc) THEN Fault ELSE UNCHANGED faults
  /\ archive' = [archive EXCEPT ![h] = Retried(@)]
  /\ UNCHANGED <<media, record, done>>

\* CompleteArchive, and the media task that need not wait for qB any more.
AfterArchiveDropped(h) ==
  IF media[h].phase = "manifest" THEN NoMedia ELSE media[h]
AfterArchive(h) ==
  IF media[h].phase = "manifest" \/ (media[h].phase = "none" /\ done[h] = "none")
    THEN MediaRow("extract", archive[h].loc, TRUE) ELSE media[h]

CompleteArchive(h) ==
  /\ Verifying(h) /\ h \notin Present(ctl.snap)
  /\ Intact(h, archive[h].loc)
  /\ record' = [record EXCEPT ![h] = archive[h].loc]
  /\ media' = [media EXCEPT ![h] = AfterArchive(h)]
  /\ archive' = [archive EXCEPT ![h] = NoArchive]
  /\ UNCHANGED <<done, faults>>

\* The phases that are dropped when archiving is switched off.
Dropped == {"ready", "blocked"}

\* The rest of the cycle: archive tasks that the configuration forbids are
\* dropped, else PlanArchive enqueues some of what is due.
StartWork ==
  /\ up /\ ctl.pc = "reconcile"
  /\ ctl.todo # Hash \/ \A h \in Hash : ~Verifiable(h)
  /\ IF enabled
       THEN /\ \E due \in SUBSET Complete(ctl.snap) :
                 archive' = [h \in Hash |->
                               IF h \in due /\ archive[h].phase = "none"
                                 THEN [NoArchive EXCEPT !.phase = "ready"]
                                 ELSE archive[h]]
            /\ UNCHANGED waived
       ELSE /\ archive' = [h \in Hash |-> IF archive[h].phase \in Dropped
                                            THEN NoArchive ELSE archive[h]]
            /\ waived' = waived \cup {h \in Hash : archive[h].phase = "blocked"}
  /\ ctl' = [pc |-> "work", snap |-> ctl.snap, todo |-> {"archive", "manifest"} \X Hash]
  /\ UNCHANGED <<outside, media, owner, record, done, prev, job, up, enabled,
                 bounds, gone, taken, published>>

ToWork == ctl' = [pc |-> "work", snap |-> ctl.snap, todo |-> ctl.todo]
Goes(pc, lane, h) ==
  ctl' = [pc |-> pc, snap |-> ctl.snap, todo |-> ctl.todo \ {<<lane, h>>}, h |-> h]

\* archive, step by step.
Archivable(h) ==
  ctl.pc = "work" /\ <<"archive", h>> \in ctl.todo /\ enabled
    /\ archive[h].phase = "ready" /\ ~archive[h].held /\ Free(h)

ArchiveClaim(h) ==
  /\ Controlling("work") /\ Archivable(h)
  /\ archive' = [archive EXCEPT ![h].held = TRUE]
  /\ Own(h, "control")
  /\ Goes("look", "archive", h)
  /\ UNCHANGED <<removals, media, record, done, prev, faults, gone, waived>>

\* A fresh snapshot: not there any more, or not due any more.
ArchiveNotDue(h) ==
  /\ Controlling("look") /\ ctl.h = h
  /\ archive' = [archive EXCEPT ![h] = NoArchive]
  /\ Own(h, "free") /\ ToWork
  /\ UNCHANGED <<removals, media, record, done, prev, faults, gone, waived>>

ArchiveDue(h) ==
  /\ Controlling("look") /\ ctl.h = h
  /\ h \in Complete(qb)
  /\ ctl' = [pc |-> "record", snap |-> ctl.snap, todo |-> ctl.todo, h |-> h,
             loc |-> qb[h].loc]
  /\ UNCHANGED <<removals, db, prev, faults, gone, waived>>

\* The files are complete on disk: the manifest is saved, then qB is asked.
ArchiveRecord(h) ==
  /\ Controlling("record") /\ ctl.h = h
  /\ h \in Present(qb) /\ Intact(h, ctl.loc)
  /\ archive' = [archive EXCEPT ![h] =
                   [phase |-> "verifying", held |-> FALSE, attempts |-> 0,
                    loc |-> ctl.loc, subs |-> @.subs + 1]]
  /\ Own(h, "free")
  /\ ctl' = [pc |-> "remove", snap |-> ctl.snap, todo |-> ctl.todo, h |-> h]
  /\ gone' = gone \ {h} /\ waived' = waived \ {h}
  /\ UNCHANGED <<removals, media, record, done, prev, faults>>

\* qB does not answer, or the files are not as they should be: Retry.  A failed
\* request also ends the cycle.
ArchiveFailed(h) ==
  /\ \/ Controlling("look") /\ Fault /\ ctl' = Idle
     \/ Controlling("record") /\ ~Intact(h, ctl.loc) /\ ToWork /\ UNCHANGED faults
     \/ Controlling("record") /\ h \notin Present(qb) /\ ctl' = Idle /\ UNCHANGED faults
  /\ ctl.h = h
  /\ archive' = [archive EXCEPT ![h] = Retried(@)]
  /\ Own(h, "free")
  /\ UNCHANGED <<removals, media, record, done, prev, gone, waived>>

\* The request leaves; its answer is good, or fails the cycle.
Remove ==
  /\ Controlling("remove")
  /\ removals' = [removals EXCEPT ![ctl.h] = @ + 1]
  /\ ctl' = Idle \/ ToWork
  /\ UNCHANGED <<db, prev, faults, gone, waived>>

\* manifest.
Manifestable(h) ==
  ctl.pc = "work" /\ <<"manifest", h>> \in ctl.todo /\ media[h].phase = "manifest"
    /\ ~media[h].held /\ Free(h) /\ archive[h].phase # "verifying"

ManifestClaim(h) ==
  /\ Controlling("work") /\ Manifestable(h)
  /\ media' = [media EXCEPT ![h].held = TRUE]
  /\ Own(h, "control")
  /\ Goes("manifest", "manifest", h)
  /\ UNCHANGED <<removals, archive, record, done, prev, faults, gone, waived>>

Manifesting(h) ==
  /\ Controlling("manifest") /\ ctl.h = h
  /\ Own(h, "free")
  /\ UNCHANGED <<removals, archive, record, done, prev, gone, waived>>

\* The files are listed by qB, or by the archive record.
ManifestSaved(h) ==
  /\ Manifesting(h) /\ ToWork /\ UNCHANGED faults
  /\ \/ /\ h \in Complete(ctl.snap) /\ h \in Present(qb)
        /\ media' = [media EXCEPT ![h] = MediaRow("extract", ctl.snap[h].loc, TRUE)]
     \/ /\ h \notin Present(ctl.snap) /\ record[h] # NoLoc
        /\ media' = [media EXCEPT ![h] = MediaRow("extract", record[h], TRUE)]

ManifestFailed(h) ==
  /\ Manifesting(h)
  /\ \/ /\ h \notin Complete(ctl.snap)
        /\ h \in Present(ctl.snap) \/ record[h] = NoLoc
        /\ ToWork /\ UNCHANGED faults
     \/ /\ h \in Complete(ctl.snap)
        /\ (h \notin Present(qb) /\ UNCHANGED faults) \/ (h \in Present(qb) /\ Fault)
        /\ ctl' = Idle
  /\ media' = [media EXCEPT ![h] = Retried(@)]

\* Nothing left to do, or ArchiveBatch or the command budget reached.
EndCycle ==
  /\ Controlling("work")
  /\ \/ ctl.todo # {"archive", "manifest"} \X Hash
     \/ \A h \in Hash : ~Archivable(h) /\ ~Manifestable(h)
  /\ ctl' = Idle
  /\ UNCHANGED <<removals, db, prev, faults, gone, waived>>

\* A failed transaction, the 20 s or the command budget: claims stay behind.
CutCycle ==
  /\ up /\ ctl.pc # "idle" /\ Fault
  /\ ctl' = Idle
  /\ UNCHANGED <<outside, db, prev, job, up, enabled, operations, changes, history>>

Cycle ==
  \/ BeginCycle \/ Observe \/ StartWork \/ Remove \/ EndCycle \/ CutCycle
  \/ \E h \in Hash :
       \/ VerifyClaim(h) \/ VerifyWait(h) \/ VerifyOverdue(h) \/ VerifyFailed(h)
       \/ CompleteArchive(h)
       \/ ArchiveClaim(h) \/ ArchiveNotDue(h) \/ ArchiveDue(h) \/ ArchiveRecord(h)
       \/ ArchiveFailed(h)
       \/ ManifestClaim(h) \/ ManifestSaved(h) \/ ManifestFailed(h)

-----------------------------------------------------------------------------
\* The media goroutine.

MediaClaim(h) ==
  /\ up /\ job.pc = "idle"
  /\ media[h].phase \in {"extract", "upload"} /\ ~media[h].held /\ Free(h)
  /\ archive[h].phase # "verifying"
  /\ media' = [media EXCEPT ![h].held = TRUE]
  /\ Own(h, "media")
  /\ job' = [pc |-> media[h].phase, h |-> h, row |-> media[h]]
  /\ UNCHANGED <<outside, archive, record, done, prev, ctl, up, enabled, bounds,
                 history>>

Analysing == UNCHANGED <<outside, archive, record, prev, ctl, up, enabled,
                         operations, changes, gone, taken, waived>>

\* One sample is read from disk, outside any transaction.
ReadSample ==
  /\ job.pc = "extract" /\ Analysing
  /\ job' = IF Intact(job.h, job.row.loc)
              THEN [job EXCEPT !.pc = "store",
                      !.row.samples = @ \cup {<<Cardinality(@) + 1, job.row.loc>>}]
              ELSE [job EXCEPT !.pc = "failed"]
  /\ UNCHANGED <<media, owner, done, faults, published>>

\* The payload is sent.  An answer may be lost after the site took it.
Upload ==
  /\ job.pc = "upload" /\ Analysing
  /\ \/ /\ published' = [published EXCEPT ![job.h] = @ \cup {job.row.samples}]
        /\ \E pc \in {"acked", "down"} : job' = [job EXCEPT !.pc = pc]
     \/ /\ published' = published
        /\ \E pc \in {"failed", "down"} : job' = [job EXCEPT !.pc = pc]
  /\ UNCHANGED <<media, owner, done, faults>>

\* Settling: only if the row still carries the claim.
Settle(h, row) ==
  /\ job.h = h /\ media[h].held
  /\ media' = [media EXCEPT ![h] = row]
  /\ Own(h, "free")
  /\ job' = Idle
  /\ Analysing /\ UNCHANGED <<faults, published>>

StoreSample(h) ==
  LET full == Cardinality(job.row.samples) = Samples IN
  /\ job.pc = "store"
  /\ Settle(h, [job.row EXCEPT !.phase = IF full THEN "upload" ELSE "extract",
                               !.payload = full, !.attempts = 0])
  /\ UNCHANGED done

\* No file of the torrent is a media file.
NothingToSample(h) ==
  /\ job.pc = "extract" /\ job.row.samples = {}
  /\ Settle(h, NoMedia)
  /\ done' = [done EXCEPT ![h] = "no media tracks"]

MediaRetry(h) ==
  /\ job.pc = "failed"
  /\ Settle(h, Retried(media[h]))
  /\ UNCHANGED done

DeferDependency(h) ==
  /\ job.pc = "down"
  /\ Settle(h, [media[h] EXCEPT !.held = FALSE])
  /\ UNCHANGED done

Delivered(h) ==
  /\ job.pc = "acked"
  /\ Settle(h, NoMedia)
  /\ done' = [done EXCEPT ![h] = "delivered"]

\* ErrStale, or the settling transaction fails: the claim stays behind.
JobDropped ==
  /\ job.pc # "idle"
  /\ IF media[job.h].held THEN Fault ELSE UNCHANGED faults
  /\ job' = Idle
  /\ Analysing /\ UNCHANGED <<media, owner, done, published>>

Step ==
  \/ ReadSample \/ Upload \/ JobDropped
  \/ \E h \in Hash : \/ MediaClaim(h) \/ StoreSample(h) \/ NothingToSample(h)
                     \/ MediaRetry(h) \/ DeferDependency(h) \/ Delivered(h)

-----------------------------------------------------------------------------
\* qB, and people working in it.

QBUnchanged == UNCHANGED <<db, process, operations, waived, published>>

\* A removal arrives (deleteFiles=false), or is lost.
Land(h) ==
  /\ removals[h] > 0
  /\ removals' = [removals EXCEPT ![h] = @ - 1]
  /\ qb' = [qb EXCEPT ![h] = Absent]
  /\ gone' = gone \cup {h}
  /\ taken' = IF h \in Present(qb) THEN taken \cup {h} ELSE taken
  /\ QBUnchanged /\ UNCHANGED <<disk, faults, changes>>

Lose(h) ==
  /\ removals[h] > 0
  /\ removals' = [removals EXCEPT ![h] = @ - 1]
  /\ QBUnchanged /\ UNCHANGED <<qb, disk, faults, changes, gone, taken>>

\* The download, or the check after a change, ends with complete files.
Finish(h) ==
  /\ qb[h].st = "busy"
  /\ qb' = [qb EXCEPT ![h].st = "seeding"]
  /\ disk' = [disk EXCEPT ![h] = qb[h].loc]
  /\ QBUnchanged /\ UNCHANGED <<removals, faults, changes, gone, taken>>

\* A torrent is moved, removed without its files, added again, or its files are
\* damaged on disk.
ByHand(h) ==
  /\ Change
  /\ \/ \E l \in Loc \ {qb[h].loc} :
          /\ h \in Complete(qb)
          /\ qb' = [qb EXCEPT ![h].loc = l]
          /\ disk' = [disk EXCEPT ![h] = l]
          /\ UNCHANGED <<gone, taken>>
     \/ /\ h \in Present(qb)
        /\ qb' = [qb EXCEPT ![h] = Absent]
        /\ gone' = gone \cup {h}
        /\ UNCHANGED <<disk, taken>>
     \/ \E l \in Loc :
          /\ h \notin Present(qb)
          /\ qb' = [qb EXCEPT ![h] = [st |-> "busy", loc |-> l]]
          /\ taken' = taken \ {h}
          /\ UNCHANGED <<disk, gone>>
     \/ /\ disk' = [disk EXCEPT ![h] = NoLoc]
        /\ UNCHANGED <<qb, gone, taken>>
  /\ QBUnchanged /\ UNCHANGED <<removals, faults>>

-----------------------------------------------------------------------------
\* The operator's command line.

Operating ==
  /\ operations < MaxOperations
  /\ operations' = operations + 1
  /\ UNCHANGED <<outside, owner, record, process, faults, changes, gone, taken, published>>

Operable(row) == row.phase \notin {"none", "verifying"} /\ ~row.held

\* A blocked archive whose removal was asked for goes back to verification: the
\* torrent may be gone.
RetryVerifying(row) == "verifying"
RetryReady(row) == "ready"
RetryPhase(row) == IF row.loc # NoLoc THEN "verifying" ELSE "ready"

OperatorRetryArchive(h) ==
  /\ Operating /\ Operable(archive[h])
  /\ archive' = [archive EXCEPT ![h] =
       IF @.phase = "blocked"
         THEN [@ EXCEPT !.phase = RetryPhase(archive[h]), !.subs = 0, !.attempts = 0]
         ELSE [@ EXCEPT !.attempts = 0]]
  /\ UNCHANGED <<media, done, waived>>

\* From here on the torrent is the operator's.
OperatorCancelArchive(h) ==
  /\ Operating /\ Operable(archive[h])
  /\ archive' = [archive EXCEPT ![h] = NoArchive]
  /\ waived' = waived \cup {h}
  /\ UNCHANGED <<media, done>>

OperatorRetryMedia(h) ==
  /\ Operating /\ Operable(media[h])
  /\ media' = [media EXCEPT ![h] =
       IF @.phase # "blocked" THEN [@ EXCEPT !.attempts = 0]
       ELSE IF @.payload THEN [@ EXCEPT !.phase = "upload", !.attempts = 0]
       ELSE MediaRow("manifest", @.loc, FALSE)]
  /\ UNCHANGED <<archive, done, waived>>

OperatorCancelMedia(h) ==
  /\ Operating /\ Operable(media[h])
  /\ media' = [media EXCEPT ![h] = NoMedia]
  /\ done' = [done EXCEPT ![h] = "cancelled"]
  /\ UNCHANGED <<archive, waived>>

Operator ==
  \E h \in Hash : \/ OperatorRetryArchive(h) \/ OperatorCancelArchive(h)
                  \/ OperatorRetryMedia(h) \/ OperatorCancelMedia(h)

-----------------------------------------------------------------------------
\* The process.

Crash ==
  /\ up /\ Fault
  /\ up' = FALSE /\ ctl' = Idle /\ job' = Idle
  /\ UNCHANGED <<outside, db, prev, enabled, operations, changes, history>>

\* Recover frees every claim; the first snapshot has no previous one.
Recover ==
  /\ ~up
  /\ up' = TRUE /\ enabled' \in BOOLEAN
  /\ prev' = [h \in Hash |-> Absent]
  /\ owner' = [h \in Hash |-> "free"]
  /\ archive' = [h \in Hash |-> [archive[h] EXCEPT !.held = FALSE]]
  /\ media' = [h \in Hash |-> [media[h] EXCEPT !.held = FALSE]]
  /\ UNCHANGED <<outside, record, done, ctl, job, bounds, history>>

Next ==
  \/ Cycle \/ Step \/ Operator \/ Crash \/ Recover
  \/ \E h \in Hash : Expire(h) \/ Land(h) \/ Lose(h) \/ Finish(h) \/ ByHand(h)

Spec == Init /\ [][Next]_vars

\* Every goroutine goes on while the process runs, systemd restarts it, leases
\* end, and a removal is carried out or dropped at some time; the 120 s are
\* noticed at last by a cycle that begins after them.
Progress ==
  /\ WF_vars(Cycle) /\ WF_vars(Step) /\ WF_vars(Recover)
  /\ \A h \in Hash :
       /\ WF_vars(Expire(h)) /\ WF_vars(Land(h) \/ Lose(h)) /\ SF_vars(VerifyOverdue(h))
       /\ SF_vars(ManifestClaim(h)) /\ SF_vars(MediaClaim(h))

FairSpec == Spec /\ Progress

-----------------------------------------------------------------------------
\* Properties.

Read == (1..Samples) \X Loc
ArchiveRow == [phase : {"none", "ready", "verifying", "blocked"}, held : BOOLEAN,
               attempts : Nat, loc : Place, subs : 0..MaxAttempts]
MediaTask == [phase : {"none", "manifest", "extract", "upload", "blocked"},
              held : BOOLEAN, attempts : Nat, loc : Place, files : BOOLEAN,
              samples : SUBSET Read, payload : BOOLEAN]

\* The values of the tables, and what the phases say of the payloads: a
\* verification has its manifest, an upload its samples, a claim its owner.  qB
\* is asked MaxAttempts times to remove a torrent, then an operator is asked;
\* no media task stands beside a media receipt.
TypeOK ==
  /\ qb \in [Hash -> Torrent] /\ prev \in [Hash -> Torrent]
  /\ disk \in [Hash -> Place] /\ record \in [Hash -> Place]
  /\ removals \in [Hash -> Nat]
  /\ archive \in [Hash -> ArchiveRow] /\ media \in [Hash -> MediaTask]
  /\ owner \in [Hash -> {"free", "control", "media"}]
  /\ done \in [Hash -> {"none", "delivered", "no media tracks", "cancelled"}]
  /\ up \in BOOLEAN /\ enabled \in BOOLEAN
  /\ operations \in 0..MaxOperations /\ faults \in 0..MaxFaults /\ changes \in 0..MaxChanges
  /\ gone \subseteq Hash /\ taken \subseteq Hash /\ waived \subseteq Hash
  /\ published \in [Hash -> SUBSET SUBSET Read]
  /\ \A h \in Hash :
       /\ archive[h].phase = "verifying" => archive[h].loc # NoLoc
       /\ done[h] # "none" => media[h].phase = "none"
       /\ media[h].phase = "upload" => Cardinality(media[h].samples) = Samples
       /\ media[h].phase = "extract" => media[h].files /\ media[h].loc # NoLoc
       /\ archive[h].held \/ media[h].held => owner[h] # "free"
       /\ ~(archive[h].held /\ media[h].held)

\* An archive is recorded only for a torrent that has been out of qB since its
\* manifest was saved, and whose files are complete at the recorded path
\* (CONTEXT.md, docs/adr/0002: the receipt proves both).
ArchiveIsProven ==
  [][\A h \in Hash : record'[h] # record[h] =>
       h \in gone /\ disk[h] = record'[h]]_vars

\* A torrent that a removal of ours took out of qB is recorded, or its archive
\* task goes on, or waits for an operator (README.md:14): no crash, failed file
\* check or further request makes it vanish silently.  Waived are the torrents
\* whose task an operator cancelled, and the blocked tasks that switching
\* archiving off drops (see ManifestKeptForOperator).
RemovalIsAccountedFor ==
  \A h \in taken \ waived : record[h] # NoLoc \/ archive[h].phase # "none"

\* Removing the torrent never costs the media work: an archived torrent has its
\* media receipt, or a task that will still produce one.
MediaOutlivesArchive ==
  \A h \in Hash : record[h] # NoLoc => media[h].phase # "none" \/ done[h] # "none"

\* A payload never mixes samples from two paths of a torrent that was moved,
\* although a reader goes on over the move.
PayloadFromOnePath ==
  \A h \in Hash : \A payload \in published[h] :
    Cardinality({read[2] : read \in payload}) <= 1

\* Media work that is not yet sampled follows the torrent: it looks where qB was
\* last seen to keep the files.
MediaFollowsTorrent ==
  \A h \in Complete(prev) :
    media[h].phase \in {"manifest", "extract"} => media[h].loc = prev[h].loc

\* The manifest of a removal that could not be verified is kept for the operator
\* (docs/validation.md:63), who ends the task, or sends it back to verification.
ManifestKeptForOperator ==
  [][\A h \in Hash :
       archive[h].phase = "blocked" /\ archive[h].loc # NoLoc /\ archive'[h].phase = "none"
         => OperatorCancelArchive(h)]_vars

\* A removal that is being verified, and the media work of a torrent that qB has
\* forgotten: what no one but the lanes can carry on.
Unfinished(h) ==
  \/ archive[h].phase = "verifying"
  \/ /\ record[h] # NoLoc /\ h \notin Present(qb)
     /\ done[h] = "none" /\ media[h].phase \notin {"blocked", "upload"}

\* A verification ends or is asked for again or is shown to an operator, and
\* after it the media work is finished although qB has forgotten the torrent: it
\* is delivered, or shown to an operator, or (the site being down) still kept.
ArchivedWorkSettles == \A h \in Hash : Unfinished(h) ~> ~Unfinished(h)

=============================================================================
