------------------------------ MODULE TaskClaims ------------------------------
(***************************************************************************)
(* The durable task store and its claims: src/internal/anibt/store.go with  *)
(* every statement elsewhere that writes the columns phase, resource,       *)
(* revision, token, lease or attempts of a task, or the table of owners.    *)
(*                                                                         *)
(* A worker goroutine CLAIMS a task: one transaction writes a fresh random  *)
(* token and the end of a lease into the task row and into the owner row of *)
(* the task's resource.  Everything the worker writes later is conditional  *)
(* on that token, on the revision it read and on both leases.  Meanwhile    *)
(* the same rows are rewritten without a claim by the feed poller (a source *)
(* correction), by the control cycle (reconciliation, a moved torrent) and  *)
(* by an operator's command line in another process.                        *)
(*                                                                         *)
(* Payloads, due times and error texts are left out: any task whose guard   *)
(* holds may be picked, which covers every order the "due" column allows.   *)
(***************************************************************************)
EXTENDS Integers

CONSTANTS
  Key,          \* release keys: the keys of download tasks
  Hash,         \* infohashes: the keys of archive and media tasks
  TTL,          \* the lease a worker asks for, by worker
  MaxAttempts,  \* Store.MaxAttempts
  MaxTime,      \* bound: the clock stops here
  MaxToken,     \* bound: claims handed out
  MaxRevision   \* bound: revisions of one row

\* The goroutines of Worker.Run that claim tasks of these lanes.
Worker == {"control", "prepare", "media"}

ASSUME BoundsAssumption ==
  /\ TTL \in [Worker -> Nat \ {0}]
  /\ MaxAttempts \in Nat \ {0}
  /\ MaxTime \in Nat /\ MaxToken \in Nat /\ MaxRevision \in Nat

VARIABLES
  tasks,      \* table tasks: a row for each task id, phase "none" if absent
  owners,     \* table owners: who holds each resource, and until when
  held,       \* the claim each worker goroutine has in hand (in memory)
  now,        \* the wall clock
  issued,     \* how many tokens token() has produced
  up,         \* the worker process is running
  corrected   \* history: tokens whose owner row a source correction deleted

vars == <<tasks, owners, held, now, issued, up, corrected>>

-----------------------------------------------------------------------------
\* The tables.

TaskId == ({"download"} \X Key) \cup ({"archive", "media"} \X Hash)
Resource == ({"release"} \X Key) \cup ({"torrent"} \X Hash)
Lane(t) == t[1]

\* The resource a task is created with: "release:"+key or "torrent:"+hash.
Home(t) == IF Lane(t) = "download" THEN <<"release", t[2]>> ELSE <<"torrent", t[2]>>

Phase == {"none", "pending", "ready", "submitted", "tracking", "blocked",
          "verifying", "manifest", "extract", "upload"}

Row == [phase : Phase, res : Resource, revision : Nat, token : Nat,
        lease : Nat, attempts : Nat]

\* A row nobody has claimed; what INSERT creates (revision 1, no attempts).
FreeRow(phase, res, revision, attempts) ==
  [phase |-> phase, res |-> res, revision |-> revision, attempts |-> attempts,
   token |-> 0, lease |-> 0]
NewRow(t, phase) == FreeRow(phase, Home(t), 1, 0)
NoRow(t) == FreeRow("none", Home(t), 0, 0)
Exists(t) == tasks[t].phase # "none"

\* Token 0 stands for the empty string and for a missing owner row.
NoOwner == [token |-> 0, until |-> 0]
NoClaim == [token |-> 0]
Claimed == [id : TaskId, token : Nat \ {0}, revision : Nat, lease : Nat,
            res : Resource]

Holding(w) == held[w].token # 0
Idle(w) == up /\ ~Holding(w)

Unclaimed(row) == FreeRow(row.phase, row.res, row.revision, row.attempts)

\* What every rewrite that starts a task afresh sets, with or without a claim.
Restart(row, phase, res) == FreeRow(phase, res, row.revision + 1, 0)

CanBump(t) == tasks[t].revision < MaxRevision

Init ==
  /\ tasks = [t \in TaskId |-> NoRow(t)]
  /\ owners = [r \in Resource |-> NoOwner]
  /\ held = [w \in Worker |-> NoClaim]
  /\ now = 1
  /\ issued = 0
  /\ up = TRUE
  /\ corrected = {}

-----------------------------------------------------------------------------
\* Claiming.

\* Which lane and phases each goroutine passes to Claim.
Route(w) ==
  CASE w = "control" -> {<<"download", "ready">>, <<"archive", "ready">>,
                         <<"archive", "verifying">>, <<"media", "manifest">>}
    [] w = "prepare" -> {<<"download", "pending">>}
    [] OTHER         -> {<<"media", "extract">>, <<"media", "upload">>}

\* An archive task in "verifying" closes its torrent to the other lanes.
Verifying(r) ==
  \E h \in Hash : /\ tasks[<<"archive", h>>].phase = "verifying"
                  /\ tasks[<<"archive", h>>].res = r

ClaimableByRowOnly(w, t) ==
  /\ <<Lane(t), tasks[t].phase>> \in Route(w)
  /\ tasks[t].lease <= now
  /\ Lane(t) = "archive" \/ ~Verifying(tasks[t].res)

ClaimableWhileVerifying(w, t) ==
  /\ <<Lane(t), tasks[t].phase>> \in Route(w)
  /\ tasks[t].lease <= now
  /\ owners[tasks[t].res].until <= now

Claimable(w, t) ==
  /\ <<Lane(t), tasks[t].phase>> \in Route(w)
  /\ tasks[t].lease <= now
  /\ owners[tasks[t].res].until <= now
  /\ Lane(t) = "archive" \/ ~Verifying(tasks[t].res)

Claim(w, t) ==
  /\ Idle(w)
  /\ issued < MaxToken
  /\ Claimable(w, t)
  /\ issued' = issued + 1
  /\ LET until == now + TTL[w] IN
       /\ owners' = [owners EXCEPT ![tasks[t].res] =
                        [token |-> issued + 1, until |-> until]]
       /\ tasks' = [tasks EXCEPT ![t].token = issued + 1, ![t].lease = until]
       /\ held' = [held EXCEPT ![w] =
                      [id |-> t, token |-> issued + 1, lease |-> until,
                       revision |-> tasks[t].revision, res |-> tasks[t].res]]
  /\ UNCHANGED <<now, up, corrected>>

ClaimValidAnyTime(w) ==
  LET c == held[w]
      row == tasks[c.id] IN
  /\ row.token = c.token
  /\ row.revision = c.revision
  /\ owners[row.res].token = row.token

\* claimValid: the row still carries the token and revision the worker read,
\* neither lease has run out, and the owner row of the resource is its own.
ClaimValid(w) ==
  LET c == held[w]
      row == tasks[c.id] IN
  /\ row.token = c.token
  /\ row.revision = c.revision
  /\ row.lease > now
  /\ owners[row.res].token = row.token
  /\ owners[row.res].until > now

-----------------------------------------------------------------------------
\* Settling: every write of a worker, each one transaction that starts with
\* claimValid and ends with releaseOwner.

ReleaseOwner(w) ==
  owners' = [owners EXCEPT ![held[w].res] =
                IF @.token = held[w].token THEN NoOwner ELSE @]

Settle(w, row) ==
  /\ up /\ Holding(w) /\ ClaimValid(w)
  /\ tasks' = [tasks EXCEPT ![held[w].id] = row]
  /\ ReleaseOwner(w)
  /\ held' = [held EXCEPT ![w] = NoClaim]
  /\ UNCHANGED <<now, issued, up, corrected>>

\* The phase changes the callers of Transition ask for; the resource stays.
Move == {<<"download", "ready", "ready">>,        \* admit: already in qB
         <<"archive", "ready", "verifying">>,     \* archive
         <<"archive", "verifying", "verifying">>, \* reconcileArchives
         <<"media", "manifest", "extract">>,      \* manifest
         <<"media", "extract", "extract">>,       \* one more sample
         <<"media", "extract", "upload">>}        \* payload complete

Transition(w) ==
  LET t == held[w].id IN
  /\ Holding(w)
  /\ CanBump(t)
  /\ \E p \in Phase :
       /\ <<Lane(t), tasks[t].phase, p>> \in Move
       /\ Settle(w, Restart(tasks[t], p, tasks[t].res))

TorrentResourceUnprefixed(h) == <<"release", h>>
TorrentResource(h) == <<"torrent", h>>

\* Ready, when the content is new: the task moves to the torrent it resolved to.
Ready(w) ==
  LET t == held[w].id IN
  /\ Holding(w) /\ Lane(t) = "download" /\ tasks[t].phase = "pending"
  /\ CanBump(t)
  /\ \E h \in Hash :
       Settle(w, Restart(tasks[t], "ready", TorrentResource(h)))

\* Submitting: recorded before the request to qB leaves.
Submitting(w) ==
  LET t == held[w].id
      row == tasks[t] IN
  /\ Holding(w) /\ Lane(t) = "download" /\ row.phase = "ready"
  /\ CanBump(t)
  /\ Settle(w, FreeRow("submitted", row.res, row.revision + 1, row.attempts + 1))

\* DeferDependency: only the upload lane gives a claim back at no cost.
DeferDependency(w) ==
  LET t == held[w].id IN
  /\ Holding(w) /\ tasks[t].phase = "upload"
  /\ Settle(w, Unclaimed(tasks[t]))

ExhaustedAfterOneMore(spent) == spent > MaxAttempts
Exhausted(spent) == spent >= MaxAttempts

Retry(w) ==
  LET row == tasks[held[w].id]
      spent == row.attempts + 1 IN
  /\ Holding(w)
  /\ Settle(w, FreeRow(IF Exhausted(spent) THEN "blocked" ELSE row.phase,
                       row.res, row.revision, spent))

\* Finish, and Ready when the content is a duplicate: the row is deleted.
Finish(w) ==
  LET t == held[w].id IN
  /\ Holding(w)
  /\ tasks[t].phase \in {"pending", "ready", "extract", "upload"}
  /\ Settle(w, NoRow(t))

\* reconcileArchives, the torrent is still in qB after the grace period: ask
\* again, or give up after MaxAttempts requests.  The revision is not bumped.
ArchiveStillPresent(w) ==
  LET row == tasks[held[w].id] IN
  /\ Holding(w) /\ row.phase = "verifying"
  /\ \E p \in {"ready", "blocked"} :
       Settle(w, FreeRow(p, row.res, row.revision, row.attempts + 1))

\* CompleteArchive: the archive task ends and, in the same transaction, the
\* media task of the torrent is taken past its manifest, or created unless
\* media is off or already delivered.
AfterArchive(m) ==
  CASE tasks[m].phase = "manifest" -> {Restart(tasks[m], "extract", tasks[m].res)}
    [] tasks[m].phase = "none"     -> {NewRow(m, "extract"), tasks[m]}
    [] OTHER                       -> {tasks[m]}

CompleteArchive(w) ==
  LET t == held[w].id
      m == <<"media", t[2]>> IN
  /\ up /\ Holding(w) /\ ClaimValid(w)
  /\ Lane(t) = "archive" /\ tasks[t].phase = "verifying"
  /\ CanBump(m)
  /\ \E row \in AfterArchive(m) :
       tasks' = [tasks EXCEPT ![t] = NoRow(t), ![m] = row]
  /\ ReleaseOwner(w)
  /\ held' = [held EXCEPT ![w] = NoClaim]
  /\ UNCHANGED <<now, issued, up, corrected>>

\* The job ends without a write: ErrStale, a failed transaction, a budget that
\* ran out.  The rows keep the claim until its lease expires.
Abandon(w) ==
  /\ up /\ Holding(w)
  /\ held' = [held EXCEPT ![w] = NoClaim]
  /\ UNCHANGED <<tasks, owners, now, issued, up, corrected>>

-----------------------------------------------------------------------------
\* Writes without a claim.

\* Ingest: a new release, or a release whose source changed.  A prepared or
\* running task goes back to "pending" and its owner row is deleted; work that
\* qB may know of is left for reconciliation.
SourceCorrection(t) ==
  LET row == IF Exists(t) THEN tasks[t] ELSE NewRow(t, "pending") IN
  /\ up /\ Lane(t) = "download" /\ CanBump(t)
  /\ row.phase \in {"pending", "ready", "blocked"}
  /\ tasks' = [tasks EXCEPT ![t] = Restart(row, "pending", Home(t))]
  /\ owners' = [r \in Resource |->
                  IF row.token # 0 /\ owners[r].token = row.token
                    THEN NoOwner ELSE owners[r]]
  /\ corrected' = corrected \cup ({row.token} \ {0})
  /\ UNCHANGED <<held, now, issued, up>>

\* Observe and PlanArchive, on the control goroutine between its own claims.
Enqueue(t) ==
  /\ Idle("control") /\ ~Exists(t)
  /\ \/ Lane(t) = "media" /\ tasks' = [tasks EXCEPT ![t] = NewRow(t, "manifest")]
     \/ Lane(t) = "archive" /\ tasks' = [tasks EXCEPT ![t] = NewRow(t, "ready")]
  /\ UNCHANGED <<owners, held, now, issued, up, corrected>>

\* Observe: the torrent moved.  The samples are void, but the owner row stays
\* until its lease expires so that a running reader drains.
PathChange(t) ==
  /\ Idle("control") /\ Lane(t) = "media" /\ CanBump(t)
  /\ tasks[t].phase \in {"manifest", "extract", "blocked"}
  /\ tasks' = [tasks EXCEPT ![t] = Restart(@, "manifest", @.res)]
  /\ UNCHANGED <<owners, held, now, issued, up, corrected>>

\* An UPDATE that touches neither the claim columns nor the attempts.
Moved(row, phase, res) ==
  [phase |-> phase, res |-> res, revision |-> row.revision + 1,
   token |-> row.token, lease |-> row.lease, attempts |-> row.attempts]

\* ReconcileDownload against a snapshot, for a row that nobody holds.
ReconcileDownload(t) ==
  LET row == tasks[t] IN
  /\ Idle("control") /\ Lane(t) = "download" /\ row.lease <= now
  /\ \/ /\ row.phase \in {"ready", "submitted", "tracking"}   \* in qB, complete
        /\ tasks' = [tasks EXCEPT ![t] = NoRow(t)]
     \/ /\ row.phase \in {"ready", "submitted", "tracking"}   \* in qB
        /\ CanBump(t)
        /\ tasks' = [tasks EXCEPT ![t] = Moved(@, "tracking", @.res)]
     \/ /\ row.phase = "submitted" /\ CanBump(t)   \* absent past ConfirmTimeout
        /\ \E p \in {"pending", "blocked"} :
             tasks' = [tasks EXCEPT ![t] = Moved(@, p, Home(t))]
     \/ /\ row.phase = "tracking"                             \* gone from qB
        /\ tasks' = [tasks EXCEPT ![t].phase = "blocked"]
  /\ UNCHANGED <<owners, held, now, issued, up, corrected>>

\* Cycle, when archiving is switched off in the configuration.
DropArchives ==
  /\ Idle("control")
  /\ \E t \in TaskId : Lane(t) = "archive" /\ tasks[t].phase \in {"ready", "blocked"}
  /\ tasks' = [t \in TaskId |->
                 IF Lane(t) = "archive" /\ tasks[t].phase # "verifying"
                   THEN NoRow(t) ELSE tasks[t]]
  /\ UNCHANGED <<owners, held, now, issued, up, corrected>>

-----------------------------------------------------------------------------
\* The operator's command line: another process, with or without the worker.

OperableClaimed(t) ==
  /\ Exists(t)
  /\ tasks[t].phase \notin {"submitted", "verifying"}

\* Operate refuses a claimed task and one whose external effect is open.
Operable(t) ==
  /\ Exists(t)
  /\ tasks[t].lease <= now
  /\ tasks[t].phase \notin {"submitted", "verifying"}

\* Where a retry takes a blocked task, by lane.  A download has a resolved hash
\* exactly when it was moved to a torrent; the rest depends on the payload.
Unblocked(t) ==
  CASE tasks[t].res = Home(t) /\ Lane(t) = "download" -> {"pending"}
    [] Lane(t) = "download" -> {"ready", "tracking"}
    [] Lane(t) = "media"    -> {"manifest", "upload"}
    [] OTHER                -> {"ready", "verifying"}

OperatorRetry(t) ==
  /\ Operable(t) /\ CanBump(t)
  /\ \E p \in IF tasks[t].phase = "blocked" THEN Unblocked(t) ELSE {tasks[t].phase} :
       tasks' = [tasks EXCEPT ![t] = Restart(@, p, @.res)]
  /\ owners' = [r \in Resource |->
                  IF tasks[t].token # 0 /\ owners[r].token = tasks[t].token
                    THEN NoOwner ELSE owners[r]]
  /\ UNCHANGED <<held, now, issued, up, corrected>>

OperatorCancel(t) ==
  /\ Operable(t)
  /\ tasks' = [tasks EXCEPT ![t] = NoRow(t)]
  /\ UNCHANGED <<owners, held, now, issued, up, corrected>>

\* replay: the download row, if any, is replaced by a new one.
OperatorReplay(t) ==
  /\ Lane(t) = "download"
  /\ tasks[t].lease <= now
  /\ tasks[t].phase \notin {"submitted", "tracking"}
  /\ tasks' = [tasks EXCEPT ![t] = NewRow(t, "pending")]
  /\ UNCHANGED <<owners, held, now, issued, up, corrected>>

-----------------------------------------------------------------------------
\* Time, and the life of the process.

Tick ==
  /\ now < MaxTime
  /\ now' = now + 1
  /\ UNCHANGED <<tasks, owners, held, issued, up, corrected>>

\* The process stops, by a signal or a power cut: the claims in memory are lost.
Crash ==
  /\ up
  /\ up' = FALSE
  /\ held' = [w \in Worker |-> NoClaim]
  /\ UNCHANGED <<tasks, owners, now, issued, corrected>>

\* Recover, at the start of Run and under the process lock.
Recover ==
  /\ ~up
  /\ up' = TRUE
  /\ owners' = [r \in Resource |-> NoOwner]
  /\ tasks' = [t \in TaskId |-> Unclaimed(tasks[t])]
  /\ UNCHANGED <<held, now, issued, corrected>>

SettleStep(w) ==
  \/ Transition(w) \/ Ready(w) \/ Submitting(w) \/ DeferDependency(w)
  \/ Retry(w) \/ Finish(w) \/ ArchiveStillPresent(w) \/ CompleteArchive(w)

FreeStep(t) ==
  \/ SourceCorrection(t) \/ Enqueue(t) \/ PathChange(t) \/ ReconcileDownload(t)
  \/ OperatorRetry(t) \/ OperatorCancel(t) \/ OperatorReplay(t)

Next ==
  \/ \E w \in Worker, t \in TaskId : Claim(w, t)
  \/ \E w \in Worker : SettleStep(w) \/ Abandon(w)
  \/ \E t \in TaskId : FreeStep(t)
  \/ DropArchives \/ Tick \/ Crash \/ Recover

Spec == Init /\ [][Next]_vars

-----------------------------------------------------------------------------
\* Properties.

\* Every variable has its type; a token in any table was really issued.
TypeOK ==
  /\ tasks \in [TaskId -> Row]
  /\ owners \in [Resource -> [token : Nat, until : Nat]]
  /\ held \in [Worker -> Claimed \cup {NoClaim}]
  /\ now \in Nat /\ issued \in Nat /\ up \in BOOLEAN
  /\ corrected \subseteq 1..issued
  /\ \A t \in TaskId : tasks[t].token <= issued
  /\ \A r \in Resource : owners[r].token <= issued
  /\ \A w \in Worker : held[w].token <= issued

\* A job that still works within its lease, and whose claim was not revoked by
\* a correction of its source.
Reading(w) ==
  /\ Holding(w)
  /\ now < held[w].lease
  /\ held[w].token \notin corrected

\* Two jobs never work on one release or torrent at the same time, whatever a
\* moved torrent, an operator, an expired lease or a restart did in between:
\* the owner row outlives the row's claim ("so an in-flight reader drains").
ExclusiveReader ==
  \A v, w \in Worker :
    v # w /\ Reading(v) /\ Reading(w) => held[v].res # held[w].res

\* Whoever may commit has been, without a gap, the only reader of its resource:
\* claimValid never accepts a worker that lost its lease or was revoked.
SettlerIsReader ==
  \A w \in Worker : Holding(w) /\ ClaimValid(w) => Reading(w)

\* The two tables agree: a row that looks claimed is backed by the owner row of
\* the resource it has NOW, so a claim never blocks a row nobody can settle
\* and no other lane can take the resource of a claimed row.
ClaimedRowsOwnTheirResource ==
  \A t \in TaskId :
    tasks[t].lease > now =>
      /\ tasks[t].token # 0
      /\ owners[tasks[t].res] = [token |-> tasks[t].token, until |-> tasks[t].lease]

\* What makes the two facts above inductive.  A reader is backed by the owner
\* row of its resource; tokens identify one claim and one row; a row with a
\* worker's token carries that worker's lease and was not corrected; nobody
\* holds a claim while the process is down.
ReaderOwns ==
  \A w \in Worker : Reading(w) =>
    owners[held[w].res] = [token |-> held[w].token, until |-> held[w].lease]

TokensAreUnique ==
  /\ \A v, w \in Worker : v # w /\ Holding(v) => held[v].token # held[w].token
  /\ \A s, t \in TaskId :
       s # t /\ tasks[s].token # 0 => tasks[s].token # tasks[t].token

RowMatchesHolder ==
  /\ \A w \in Worker, t \in TaskId :
       Holding(w) /\ tasks[t].token = held[w].token =>
         t = held[w].id /\ tasks[t].lease = held[w].lease
  /\ \A t \in TaskId : tasks[t].token \notin corrected

DownMeansIdle == ~up => \A w \in Worker : ~Holding(w)

\* The inductive invariant of the claim protocol (store.go: Claim, claimValid,
\* releaseOwner, Recover, and the writes without a claim).
ClaimInv ==
  /\ TypeOK
  /\ ReaderOwns
  /\ TokensAreUnique
  /\ RowMatchesHolder
  /\ DownMeansIdle
  /\ ClaimedRowsOwnTheirResource

\* A task that can still be tried has an attempt left, and no task spends more
\* than MaxAttempts without an operator, although the count runs on across
\* phases: a submission spends one and its return to "pending" does not give it
\* back, an unconfirmed removal spends one and the next request does.
RetryBudget ==
  \A t \in TaskId :
    /\ tasks[t].phase \notin {"blocked", "none"} => tasks[t].attempts <= MaxAttempts
    /\ tasks[t].phase \in {"verifying", "manifest", "extract", "upload"} =>
         tasks[t].attempts < MaxAttempts

\* No other lane works on the torrent of an archive task in "verifying".
Quiet(h) ==
  \A w \in Worker :
    Reading(w) /\ held[w].res = <<"torrent", h>> =>
      Lane(held[w].id) = "archive"

\* An archive enters "verifying" with its torrent quiet, and the torrent stays
\* quiet while it verifies.  The one exception is an operator's retry, which
\* may reopen verification beside a running media job.
VerifyingStaysQuiet ==
  [][\A h \in Hash :
       LET a == <<"archive", h>> IN
       tasks'[a].phase = "verifying" /\ ~Quiet(h)' =>
         \/ tasks[a].phase = "verifying" /\ ~Quiet(h)
         \/ OperatorRetry(a)]_vars

\* The store implements an exclusive lease per resource, whose holder may only
\* leave: see ResourceLease.
Lease == INSTANCE ResourceLease WITH
           Resources <- Resource,
           Readers   <- Worker,
           readers   <- [r \in Resource |->
                           {w \in Worker : Reading(w) /\ held[w].res = r}]
LeaseSpec == Lease!Spec

=============================================================================
