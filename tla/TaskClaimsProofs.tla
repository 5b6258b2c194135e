-------------------------- MODULE TaskClaimsProofs --------------------------
(***************************************************************************)
(* ClaimInv is an invariant of TaskClaims for every set of releases and     *)
(* torrents, every lease length and every bound; ExclusiveReader,           *)
(* SettlerIsReader and ClaimedRowsOwnTheirResource follow.                  *)
(*                                                                         *)
(* The invariant speaks of tokens, leases and owners only.  So each action  *)
(* is first reduced to its SHAPE: what it may do to those.  Three shapes     *)
(* cover all the settling writes and all the writes without a claim.        *)
(*                                                                         *)
(* Two more parts build on it: what the claims amount to (a lease per       *)
(* resource, and the quiet of a verification), and the budget of retries.   *)
(***************************************************************************)
EXTENDS TaskClaims, TLAPS

\* What a step may do to the claim columns of row t.
Kept(t) == tasks'[t].token = tasks[t].token /\ tasks'[t].lease = tasks[t].lease
Freed(t) == tasks'[t].token = 0 /\ tasks'[t].lease = 0
RowStep(t) ==
  \/ tasks'[t] = tasks[t]
  \/ Freed(t)
  \/ Kept(t) /\ tasks[t].lease <= now

\* A worker's settling write.
SettleShape(w) ==
  /\ Holding(w) /\ ClaimValid(w) /\ up
  /\ tasks' \in [TaskId -> Row]
  /\ Freed(held[w].id)
  /\ \A t \in TaskId : RowStep(t)
  /\ ReleaseOwner(w)
  /\ held' = [held EXCEPT ![w] = NoClaim]
  /\ UNCHANGED <<now, issued, up, corrected>>

\* A write without a claim that leaves the owners alone.
FreeShape ==
  /\ tasks' \in [TaskId -> Row]
  /\ \A t \in TaskId : RowStep(t)
  /\ UNCHANGED <<owners, held, now, issued, up, corrected>>

\* A write without a claim that frees t and deletes the owner row of its token.
RevokeShape(t) ==
  /\ tasks' \in [TaskId -> Row]
  /\ Freed(t)
  /\ \A s \in TaskId : s # t => tasks'[s] = tasks[s]
  /\ owners' = [r \in Resource |->
                  IF tasks[t].token # 0 /\ owners[r].token = tasks[t].token
                    THEN NoOwner ELSE owners[r]]
  /\ \/ corrected' = corrected \cup ({tasks[t].token} \ {0})
     \/ corrected' = corrected /\ tasks[t].lease <= now
  /\ UNCHANGED <<held, now, issued, up>>

-----------------------------------------------------------------------------
\* The row constructors.

\* A row nobody has claimed is well typed, whatever wrote it.
LEMMA FreeRowType ==
  ASSUME NEW p \in Phase, NEW r \in Resource, NEW n \in Nat, NEW a \in Nat
  PROVE  /\ FreeRow(p, r, n, a) \in Row
         /\ FreeRow(p, r, n, a).token = 0
         /\ FreeRow(p, r, n, a).lease = 0
  BY DEF FreeRow, Row

\* A new row and an absent one (putTask, DELETE).
LEMMA NewRowType ==
  ASSUME NEW t \in TaskId, NEW p \in Phase
  PROVE  /\ Home(t) \in Resource
         /\ NewRow(t, p) \in Row /\ NewRow(t, p).token = 0 /\ NewRow(t, p).lease = 0
         /\ NoRow(t) \in Row /\ NoRow(t).token = 0 /\ NoRow(t).lease = 0
  <1>1. Home(t) \in Resource
    BY DEF Home, Lane, TaskId, Resource
  <1>2. "none" \in Phase
    BY DEF Phase
  <1>3. QED
    BY <1>1, <1>2, FreeRowType DEF NewRow, NoRow

\* Clearing the claim of a row, alone or on the way to a new phase (the common
\* tail of every UPDATE that ends a claim).
LEMMA FreedRowType ==
  ASSUME NEW row \in Row, NEW p \in Phase, NEW r \in Resource
  PROVE  /\ Unclaimed(row) \in Row
         /\ Unclaimed(row).token = 0 /\ Unclaimed(row).lease = 0
         /\ Restart(row, p, r) \in Row
         /\ Restart(row, p, r).token = 0 /\ Restart(row, p, r).lease = 0
  <1>1. /\ row.phase \in Phase /\ row.res \in Resource
        /\ row.revision \in Nat /\ row.attempts \in Nat
    BY DEF Row
  <1>2. row.revision + 1 \in Nat /\ 0 \in Nat
    BY <1>1
  <1>3. QED
    BY <1>1, <1>2, FreeRowType DEF Unclaimed, Restart

-----------------------------------------------------------------------------
\* Each action has one of the shapes.

\* A settling write of one row frees that row and no other.
LEMMA SettleHasShape ==
  ASSUME TypeOK, NEW w \in Worker, NEW row \in Row,
         row.token = 0, row.lease = 0, Settle(w, row)
  PROVE  SettleShape(w)
  <1>1. held[w].id \in TaskId
    BY DEF TypeOK, Settle, Holding, Claimed, NoClaim
  <1>2. tasks' \in [TaskId -> Row]
    BY <1>1 DEF TypeOK, Settle
  <1>3. Freed(held[w].id)
    BY <1>1 DEF Settle, Freed, TypeOK
  <1>4. \A t \in TaskId : t # held[w].id => tasks'[t] = tasks[t]
    BY <1>1 DEF Settle, TypeOK
  <1>5. QED
    BY <1>2, <1>3, <1>4 DEF Settle, SettleShape, RowStep

\* A settled row keeps well-typed columns: what the settling actions read.
LEMMA HeldRow ==
  ASSUME TypeOK, NEW w \in Worker, Holding(w)
  PROVE  /\ held[w].id \in TaskId
         /\ held[w].res \in Resource
         /\ held[w].lease \in Nat
         /\ held[w].token \in Nat \ {0}
         /\ tasks[held[w].id] \in Row
         /\ tasks[held[w].id].phase \in Phase
         /\ tasks[held[w].id].res \in Resource
         /\ tasks[held[w].id].revision \in Nat
         /\ tasks[held[w].id].attempts \in Nat
  <1>1. held[w] \in Claimed
    BY DEF TypeOK, Holding, NoClaim
  <1>2. tasks[held[w].id] \in Row
    BY <1>1 DEF TypeOK, Claimed
  <1>3. QED
    BY <1>1, <1>2 DEF Claimed, Row

\* CompleteArchive frees the archive row, and the media row if it rewrites it.
LEMMA CompleteArchiveShape ==
  ASSUME TypeOK, NEW w \in Worker, CompleteArchive(w)
  PROVE  SettleShape(w)
  <1> DEFINE t == held[w].id
             m == <<"media", t[2]>>
  <1>1. Holding(w) /\ t \in TaskId /\ Lane(t) = "archive"
    BY HeldRow DEF CompleteArchive
  <1>2. m \in TaskId /\ m # t
    BY <1>1 DEF TaskId, Lane
  <1>3. PICK row \in AfterArchive(m) :
          tasks' = [tasks EXCEPT ![t] = NoRow(t), ![m] = row]
    BY DEF CompleteArchive
  <1>4. /\ SettleShape(w) <=> /\ tasks' \in [TaskId -> Row]
                              /\ Freed(t)
                              /\ \A s \in TaskId : RowStep(s)
    BY <1>1 DEF CompleteArchive, SettleShape
  <1> HIDE DEF m, t
  <1>5. tasks[m] \in Row /\ tasks[m].res \in Resource /\ "extract" \in Phase
    BY <1>2 DEF TypeOK, Row, Phase
  <1>6. /\ Restart(tasks[m], "extract", tasks[m].res) \in Row
        /\ Restart(tasks[m], "extract", tasks[m].res).token = 0
        /\ Restart(tasks[m], "extract", tasks[m].res).lease = 0
    BY <1>5, FreedRowType
  <1>7. /\ NewRow(m, "extract") \in Row
        /\ NewRow(m, "extract").token = 0 /\ NewRow(m, "extract").lease = 0
        /\ NoRow(t) \in Row /\ NoRow(t).token = 0 /\ NoRow(t).lease = 0
    BY <1>1, <1>2, <1>5, NewRowType
  <1>8. row \in Row /\ (row = tasks[m] \/ (row.token = 0 /\ row.lease = 0))
    BY <1>3, <1>5, <1>6, <1>7 DEF AfterArchive
  <1>9. /\ tasks' \in [TaskId -> Row]
        /\ tasks'[t] = NoRow(t) /\ tasks'[m] = row
        /\ \A s \in TaskId : s # t /\ s # m => tasks'[s] = tasks[s]
    BY <1>1, <1>2, <1>3, <1>7, <1>8 DEF TypeOK
  <1>10. Freed(t) /\ \A s \in TaskId : RowStep(s)
    BY <1>7, <1>8, <1>9 DEF RowStep, Freed
  <1>11. QED
    BY <1>4, <1>9, <1>10

\* Every settling write has the settling shape.
LEMMA SettleStepShape ==
  ASSUME TypeOK, NEW w \in Worker, SettleStep(w)
  PROVE  SettleShape(w)
  <1> DEFINE t == held[w].id
             row == tasks[t]
  <1>1. Holding(w)
    BY DEF SettleStep, Transition, Ready, Submitting, DeferDependency, Retry,
           Finish, ArchiveStillPresent, CompleteArchive
  <1>2. /\ t \in TaskId /\ row \in Row /\ row.phase \in Phase /\ row.res \in Resource
        /\ row.revision \in Nat /\ row.attempts \in Nat
        /\ row.revision + 1 \in Nat /\ row.attempts + 1 \in Nat
    BY <1>1, HeldRow
  <1>3. {"ready", "submitted", "blocked"} \subseteq Phase
    BY DEF Phase
  <1>4. CASE Transition(w)
    <2>1. PICK p \in Phase : Settle(w, Restart(row, p, row.res))
      BY <1>4 DEF Transition
    <2>2. QED
      BY <1>2, <2>1, FreedRowType, SettleHasShape
  <1>5. CASE Ready(w)
    <2>1. PICK h \in Hash : Settle(w, Restart(row, "ready", TorrentResource(h)))
      BY <1>5 DEF Ready
    <2>2. TorrentResource(h) \in Resource
      BY DEF TorrentResource, Resource
    <2>3. QED
      BY <1>2, <1>3, <2>1, <2>2, FreedRowType, SettleHasShape
  <1>6. CASE Submitting(w)
    <2>1. Settle(w, FreeRow("submitted", row.res, row.revision + 1, row.attempts + 1))
      BY <1>6 DEF Submitting
    <2>2. QED
      BY <1>2, <1>3, <2>1, FreeRowType, SettleHasShape
  <1>7. CASE DeferDependency(w)
    <2>1. Settle(w, Unclaimed(row))
      BY <1>7 DEF DeferDependency
    <2>2. QED
      BY <1>2, <2>1, FreedRowType, SettleHasShape
  <1>8. CASE Retry(w)
    <2> DEFINE p == IF Exhausted(row.attempts + 1) THEN "blocked" ELSE row.phase
    <2>1. Settle(w, FreeRow(p, row.res, row.revision, row.attempts + 1))
      BY <1>8 DEF Retry
    <2>2. p \in Phase
      BY <1>2, <1>3
    <2>3. QED
      BY <1>2, <2>1, <2>2, FreeRowType, SettleHasShape
  <1>9. CASE Finish(w)
    <2>1. Settle(w, NoRow(t))
      BY <1>9 DEF Finish
    <2>2. QED
      BY <1>2, <1>3, <2>1, NewRowType, SettleHasShape
  <1>10. CASE ArchiveStillPresent(w)
    <2>1. PICK p \in {"ready", "blocked"} :
            Settle(w, FreeRow(p, row.res, row.revision, row.attempts + 1))
      BY <1>10 DEF ArchiveStillPresent
    <2>2. QED
      BY <1>2, <1>3, <2>1, FreeRowType, SettleHasShape
  <1>11. CASE CompleteArchive(w)
    BY <1>11, CompleteArchiveShape
  <1>12. QED
    BY <1>4, <1>5, <1>6, <1>7, <1>8, <1>9, <1>10, <1>11 DEF SettleStep

\* Rewriting one row, without a claim and without touching the owners.
LEMMA FreeRowShape ==
  ASSUME TypeOK, NEW t \in TaskId, NEW row \in Row,
         tasks' = [tasks EXCEPT ![t] = row],
         \/ row.token = 0 /\ row.lease = 0
         \/ row.token = tasks[t].token /\ row.lease = tasks[t].lease /\ row.lease <= now,
         UNCHANGED <<owners, held, now, issued, up, corrected>>
  PROVE  FreeShape
  BY DEF TypeOK, FreeShape, RowStep, Freed, Kept

\* Every write without a claim leaves the owners alone, or revokes one claim.
LEMMA FreeStepShape ==
  ASSUME TypeOK, NEW t \in TaskId, FreeStep(t)
  PROVE  FreeShape \/ RevokeShape(t)
  <1> DEFINE row == tasks[t]
  <1>1. /\ row \in Row /\ row.phase \in Phase /\ row.res \in Resource
        /\ row.revision \in Nat /\ row.token \in Nat /\ row.lease \in Nat
    BY DEF TypeOK, Row
  <1>2. Phase = {"none", "pending", "ready", "submitted", "tracking", "blocked",
                 "verifying", "manifest", "extract", "upload"}
    BY DEF Phase
  <1>3. CASE SourceCorrection(t)
    <2> DEFINE old == IF Exists(t) THEN row ELSE NewRow(t, "pending")
               new == Restart(old, "pending", Home(t))
    <2>1. old \in Row /\ (old = row \/ (old.token = 0 /\ old.lease = 0 /\ ~Exists(t)))
      BY <1>1, <1>2, NewRowType
    <2>2. new \in Row /\ new.token = 0 /\ new.lease = 0
      BY <1>2, <2>1, NewRowType, FreedRowType
    <2>3. /\ tasks' = [tasks EXCEPT ![t] = new]
          /\ owners' = [r \in Resource |->
                          IF old.token # 0 /\ owners[r].token = old.token
                            THEN NoOwner ELSE owners[r]]
          /\ corrected' = corrected \cup ({old.token} \ {0})
          /\ UNCHANGED <<held, now, issued, up>>
      BY <1>3 DEF SourceCorrection
    <2> HIDE DEF new
    <2>4. CASE old = row
      BY <2>2, <2>3, <2>4 DEF TypeOK, RevokeShape, Freed
    <2>5. CASE old.token = 0
      <3> HIDE DEF old
      <3>1. owners' = owners /\ corrected' = corrected
        BY <2>3, <2>5 DEF TypeOK
      <3>2. QED
        BY <2>2, <2>3, <3>1, FreeRowShape
    <2>6. QED
      BY <2>1, <2>4, <2>5
  <1>4. CASE Enqueue(t)
    <2>1. PICK p \in {"manifest", "ready"} : tasks' = [tasks EXCEPT ![t] = NewRow(t, p)]
      BY <1>4 DEF Enqueue
    <2>2. QED
      BY <1>2, <1>4, <2>1, NewRowType, FreeRowShape DEF Enqueue
  <1>5. CASE PathChange(t)
    <2>1. tasks' = [tasks EXCEPT ![t] = Restart(row, "manifest", row.res)]
      BY <1>5 DEF PathChange, TypeOK
    <2>2. QED
      BY <1>1, <1>2, <1>5, <2>1, FreedRowType, FreeRowShape DEF PathChange
  <1>6. CASE ReconcileDownload(t)
    <2>1. ASSUME NEW p \in Phase, NEW r \in Resource
          PROVE  /\ Moved(row, p, r) \in Row
                 /\ Moved(row, p, r).token = row.token
                 /\ Moved(row, p, r).lease = row.lease
      BY <1>1 DEF Moved, Row
    <2>2. row.lease <= now /\ UNCHANGED <<owners, held, now, issued, up, corrected>>
      BY <1>6 DEF ReconcileDownload
    <2>3. CASE tasks' = [tasks EXCEPT ![t] = NoRow(t)]
      BY <1>2, <2>2, <2>3, NewRowType, FreeRowShape
    <2>4. CASE \E p \in Phase, r \in Resource : tasks' = [tasks EXCEPT ![t] = Moved(row, p, r)]
      BY <2>1, <2>2, <2>4, FreeRowShape
    <2>5. CASE tasks' = [tasks EXCEPT ![t].phase = "blocked"]
      BY <1>1, <1>2, <2>2, <2>5 DEF FreeShape, RowStep, Kept, TypeOK, Row
    <2>6. QED
      BY <1>1, <1>2, <1>6, <2>3, <2>4, <2>5, NewRowType DEF ReconcileDownload, TypeOK
  <1>7. CASE OperatorRetry(t)
    <2>1. PICK p \in Phase : tasks' = [tasks EXCEPT ![t] = Restart(row, p, row.res)]
      BY <1>1, <1>2, <1>7 DEF OperatorRetry, Unblocked, TypeOK
    <2> DEFINE new == Restart(row, p, row.res)
    <2>2. new \in Row /\ new.token = 0 /\ new.lease = 0
      BY <1>1, FreedRowType
    <2> HIDE DEF new
    <2>3. QED
      BY <1>7, <2>1, <2>2 DEF OperatorRetry, Operable, RevokeShape, Freed, TypeOK, new
  <1>8. CASE OperatorCancel(t)
    BY <1>2, <1>8, NewRowType, FreeRowShape DEF OperatorCancel
  <1>9. CASE OperatorReplay(t)
    BY <1>2, <1>9, NewRowType, FreeRowShape DEF OperatorReplay
  <1>10. QED
    BY <1>3, <1>4, <1>5, <1>6, <1>7, <1>8, <1>9 DEF FreeStep

\* Dropping the archive tasks frees rows only.
LEMMA DropArchivesShape ==
  ASSUME TypeOK, DropArchives
  PROVE  FreeShape
  BY NewRowType DEF DropArchives, FreeShape, RowStep, Freed, TypeOK, Phase

-----------------------------------------------------------------------------
\* The invariant, shape by shape.

\* Claims and rows stay typed, and issued tokens stay bounded, when a step has
\* one of the shapes.
LEMMA ShapeTypes ==
  ASSUME TypeOK, NEW t \in TaskId, NEW w \in Worker,
         SettleShape(w) \/ FreeShape \/ RevokeShape(t)
  PROVE  TypeOK'
  <1>1. /\ tasks' \in [TaskId -> Row]
        /\ now' = now /\ issued' = issued /\ up' = up
        /\ issued \in Nat
    BY DEF SettleShape, FreeShape, RevokeShape, TypeOK
  <1>2. \A s \in TaskId : tasks'[s].token <= issued
    <2>1. ASSUME NEW s \in TaskId
          PROVE  tasks'[s].token = tasks[s].token \/ tasks'[s].token = 0
      BY DEF SettleShape, FreeShape, RevokeShape, RowStep, Freed, Kept
    <2>2. QED
      BY <1>1, <2>1 DEF TypeOK
  <1>3. /\ owners' \in [Resource -> [token : Nat, until : Nat]]
        /\ \A r \in Resource : owners'[r].token <= issued
    <2>1. \/ owners' = owners
          \/ /\ DOMAIN owners' = Resource
             /\ owners' = [r \in Resource |-> owners'[r]]
             /\ \A r \in Resource : owners'[r] = NoOwner \/ owners'[r] = owners[r]
      BY HeldRow DEF SettleShape, FreeShape, RevokeShape, ReleaseOwner, TypeOK
    <2>2. NoOwner \in [token : Nat, until : Nat] /\ NoOwner.token = 0
      BY DEF NoOwner
    <2>3. QED
      BY <1>1, <2>1, <2>2 DEF TypeOK
  <1>4. /\ held' \in [Worker -> Claimed \cup {NoClaim}]
        /\ \A v \in Worker : held'[v].token <= issued
    <2>1. NoClaim.token = 0
      BY DEF NoClaim
    <2>2. held' = held \/ held' = [held EXCEPT ![w] = NoClaim]
      BY DEF SettleShape, FreeShape, RevokeShape
    <2>3. QED
      BY <1>1, <2>1, <2>2 DEF TypeOK
  <1>5. corrected' \subseteq 1..issued
    <2>1. corrected' = corrected \/ corrected' = corrected \cup ({tasks[t].token} \ {0})
      BY DEF SettleShape, FreeShape, RevokeShape
    <2>2. tasks[t].token \in Nat /\ tasks[t].token <= issued
      BY DEF TypeOK, Row
    <2>3. {tasks[t].token} \ {0} \subseteq 1..issued
      BY <1>1, <2>2
    <2>4. QED
      BY <2>1, <2>3 DEF TypeOK
  <1>6. QED
    BY <1>1, <1>2, <1>3, <1>4, <1>5 DEF TypeOK

\* A settling worker releases its own row and owner, and nobody else's.
LEMMA SettleKeepsInv ==
  ASSUME ClaimInv, NEW w \in Worker, SettleShape(w)
  PROVE  ClaimInv'
  <1> USE DEF ClaimInv
  <1>1. TypeOK'
    BY ShapeTypes, HeldRow DEF SettleShape
  <1>2. /\ held[w].token # 0 /\ held[w].id \in TaskId /\ held[w].res \in Resource
        /\ tasks[held[w].id].token = held[w].token
        /\ held'[w] = NoClaim
        /\ \A v \in Worker : v # w => held'[v] = held[v]
        /\ now' = now /\ corrected' = corrected
    BY HeldRow DEF SettleShape, ClaimValid, Holding, TypeOK
  <1>3. \A t \in TaskId : \/ tasks'[t] = tasks[t]
                          \/ tasks'[t].token = 0 /\ tasks'[t].lease = 0
                          \/ /\ tasks'[t].token = tasks[t].token
                             /\ tasks'[t].lease = tasks[t].lease
                             /\ tasks[t].lease <= now
    BY DEF SettleShape, RowStep, Freed, Kept
  <1>4. \A r \in Resource : owners[r].token # held[w].token => owners'[r] = owners[r]
    BY <1>2 DEF SettleShape, ReleaseOwner, TypeOK
  <1>5. NoClaim.token = 0
    BY DEF NoClaim
  <1>6. ReaderOwns'
    <2> SUFFICES ASSUME NEW v \in Worker, Reading(v)'
                 PROVE  owners'[held'[v].res] = [token |-> held'[v].token,
                                                 until |-> held'[v].lease]
      BY DEF ReaderOwns
    <2>1. v # w /\ held'[v] = held[v] /\ Reading(v)
      BY <1>2, <1>5 DEF Reading, Holding
    <2>2. held[v].token # held[w].token /\ held[v].res \in Resource
      BY <2>1, HeldRow DEF TokensAreUnique, Reading
    <2>3. owners[held[v].res] = [token |-> held[v].token, until |-> held[v].lease]
      BY <2>1 DEF ReaderOwns
    <2>4. QED
      BY <1>4, <2>1, <2>2, <2>3
  <1>7. TokensAreUnique'
    <2>1. ASSUME NEW v \in Worker, NEW u \in Worker, v # u, Holding(v)'
          PROVE  held'[v].token # held'[u].token
      BY <1>2, <1>5, <2>1 DEF TokensAreUnique, Holding
    <2>2. ASSUME NEW s \in TaskId, NEW t \in TaskId, s # t, tasks'[s].token # 0
          PROVE  tasks'[s].token # tasks'[t].token
      BY <1>3, <2>2 DEF TokensAreUnique
    <2>3. QED
      BY <2>1, <2>2 DEF TokensAreUnique
  <1>8. RowMatchesHolder'
    <2>1. ASSUME NEW v \in Worker, NEW t \in TaskId,
                 Holding(v)', tasks'[t].token = held'[v].token
          PROVE  t = held'[v].id /\ tasks'[t].lease = held'[v].lease
      BY <1>2, <1>3, <1>5, <2>1 DEF RowMatchesHolder, Holding
    <2>2. ASSUME NEW t \in TaskId PROVE tasks'[t].token \notin corrected'
      BY <1>2, <1>3 DEF RowMatchesHolder, TypeOK
    <2>3. QED
      BY <2>1, <2>2 DEF RowMatchesHolder
  <1>9. DownMeansIdle'
    BY DEF SettleShape, DownMeansIdle
  <1>10. ClaimedRowsOwnTheirResource'
    <2> SUFFICES ASSUME NEW t \in TaskId, tasks'[t].lease > now'
                 PROVE  /\ tasks'[t].token # 0
                        /\ owners'[tasks'[t].res] = [token |-> tasks'[t].token,
                                                     until |-> tasks'[t].lease]
      BY DEF ClaimedRowsOwnTheirResource
    <2>1. tasks[t].res \in Resource /\ tasks[t].lease \in Nat /\ now \in Nat
      BY DEF TypeOK, Row
    <2>2. tasks'[t] = tasks[t] /\ t # held[w].id
      BY <1>2, <1>3, <2>1 DEF SettleShape, Freed
    <2>3. tasks[t].token # 0 /\ tasks[t].token # held[w].token
      BY <1>2, <2>2 DEF TokensAreUnique, ClaimedRowsOwnTheirResource
    <2>4. owners[tasks[t].res] = [token |-> tasks[t].token, until |-> tasks[t].lease]
      BY <1>2, <2>2 DEF ClaimedRowsOwnTheirResource
    <2>5. QED
      BY <1>4, <2>1, <2>2, <2>3, <2>4
  <1>11. QED
    BY <1>1, <1>6, <1>7, <1>8, <1>9, <1>10

\* A write without a claim that leaves the owners alone frees rows or touches
\* rows whose lease has run out.
LEMMA FreeKeepsInv ==
  ASSUME ClaimInv, FreeShape
  PROVE  ClaimInv'
  <1> USE DEF ClaimInv
  <1>1. \A t \in TaskId : \/ tasks'[t] = tasks[t]
                          \/ tasks'[t].token = 0 /\ tasks'[t].lease = 0
                          \/ /\ tasks'[t].token = tasks[t].token
                             /\ tasks'[t].lease = tasks[t].lease
                             /\ tasks[t].lease <= now
    BY DEF FreeShape, RowStep, Freed, Kept
  <1>2. UNCHANGED <<owners, held, now, issued, up, corrected>>
    BY DEF FreeShape
  <1>3. TypeOK'
    <2>1. \A t \in TaskId : tasks'[t].token <= issued
      BY <1>1 DEF TypeOK
    <2>2. QED
      BY <1>2, <2>1 DEF TypeOK, FreeShape
  <1>4. ReaderOwns' /\ DownMeansIdle'
    BY <1>2 DEF ReaderOwns, DownMeansIdle, Reading, Holding
  <1>5. TokensAreUnique'
    BY <1>1, <1>2 DEF TokensAreUnique, Holding
  <1>6. RowMatchesHolder'
    <2>1. 0 \notin corrected
      BY DEF TypeOK
    <2>2. QED
      BY <1>1, <1>2, <2>1 DEF RowMatchesHolder, Holding
  <1>7. ClaimedRowsOwnTheirResource'
    <2>1. \A t \in TaskId : tasks[t].lease \in Nat /\ now \in Nat
      BY DEF TypeOK, Row
    <2>2. QED
      BY <1>1, <1>2, <2>1 DEF ClaimedRowsOwnTheirResource
  <1>8. QED
    BY <1>3, <1>4, <1>5, <1>6, <1>7

\* Deleting the owner row of a freed row's token disturbs a reader only if the
\* token is recorded as corrected; an operator finds the lease already over.
LEMMA RevokeKeepsInv ==
  ASSUME ClaimInv, NEW t \in TaskId, RevokeShape(t)
  PROVE  ClaimInv'
  <1> USE DEF ClaimInv
  <1> DEFINE tok == tasks[t].token
  <1>1. TypeOK'
    <2>1. PICK w \in Worker : TRUE
      BY DEF Worker
    <2>2. QED
      BY <2>1, ShapeTypes
  <1>2. /\ tasks'[t].token = 0 /\ tasks'[t].lease = 0
        /\ \A s \in TaskId : s # t => tasks'[s] = tasks[s]
        /\ held' = held /\ now' = now /\ up' = up
    BY DEF RevokeShape, Freed
  <1>3. \A r \in Resource : tok = 0 \/ owners[r].token # tok => owners'[r] = owners[r]
    BY DEF RevokeShape
  <1>4. \/ corrected' = corrected \cup ({tok} \ {0})
        \/ corrected' = corrected /\ tasks[t].lease <= now
    BY DEF RevokeShape
  <1>5. ReaderOwns'
    <2> SUFFICES ASSUME NEW v \in Worker, Reading(v)'
                 PROVE  owners'[held[v].res] = [token |-> held[v].token,
                                                until |-> held[v].lease]
      BY <1>2 DEF ReaderOwns
    <2>1. Reading(v) /\ held[v].res \in Resource /\ held[v].lease \in Nat
          /\ now \in Nat /\ held[v].token # 0
      BY <1>2, <1>4, HeldRow DEF Reading, Holding, TypeOK
    <2>2. owners[held[v].res] = [token |-> held[v].token, until |-> held[v].lease]
      BY <2>1 DEF ReaderOwns
    <2>3. tok # held[v].token
      <3>1. CASE corrected' = corrected \cup ({tok} \ {0})
        BY <1>2, <2>1, <3>1 DEF Reading
      <3>2. CASE tasks[t].lease <= now
        BY <2>1, <3>2 DEF RowMatchesHolder, Reading
      <3>3. QED
        BY <1>4, <3>1, <3>2
    <2>4. QED
      BY <1>3, <2>1, <2>2, <2>3
  <1>6. TokensAreUnique'
    <2>1. ASSUME NEW v \in Worker, NEW u \in Worker, v # u, Holding(v)'
          PROVE  held'[v].token # held'[u].token
      BY <1>2, <2>1 DEF TokensAreUnique, Holding
    <2>2. ASSUME NEW r \in TaskId, NEW s \in TaskId, r # s, tasks'[r].token # 0
          PROVE  tasks'[r].token # tasks'[s].token
      BY <1>2, <2>2 DEF TokensAreUnique
    <2>3. QED
      BY <2>1, <2>2 DEF TokensAreUnique
  <1>7. RowMatchesHolder'
    <2>1. ASSUME NEW v \in Worker, NEW s \in TaskId,
                 Holding(v)', tasks'[s].token = held'[v].token
          PROVE  s = held'[v].id /\ tasks'[s].lease = held'[v].lease
      BY <1>2, <2>1 DEF RowMatchesHolder, Holding
    <2>2. ASSUME NEW s \in TaskId PROVE tasks'[s].token \notin corrected'
      <3>1. 0 \notin corrected'
        BY <1>1 DEF TypeOK
      <3>2. CASE s # t
        BY <1>2, <1>4, <3>1, <3>2 DEF RowMatchesHolder, TokensAreUnique
      <3>3. QED
        BY <1>2, <3>1, <3>2
    <2>3. QED
      BY <2>1, <2>2 DEF RowMatchesHolder
  <1>8. DownMeansIdle'
    BY <1>2 DEF DownMeansIdle, Holding
  <1>9. ClaimedRowsOwnTheirResource'
    <2> SUFFICES ASSUME NEW s \in TaskId, tasks'[s].lease > now'
                 PROVE  /\ tasks'[s].token # 0
                        /\ owners'[tasks'[s].res] = [token |-> tasks'[s].token,
                                                     until |-> tasks'[s].lease]
      BY DEF ClaimedRowsOwnTheirResource
    <2>1. s # t /\ tasks'[s] = tasks[s] /\ tasks[s].res \in Resource
      BY <1>2 DEF TypeOK, Row
    <2>2. /\ tasks[s].token # 0 /\ tasks[s].token # tok
          /\ owners[tasks[s].res] = [token |-> tasks[s].token, until |-> tasks[s].lease]
      BY <1>2, <2>1 DEF ClaimedRowsOwnTheirResource, TokensAreUnique
    <2>3. QED
      BY <1>3, <2>1, <2>2
  <1>10. QED
    BY <1>1, <1>5, <1>6, <1>7, <1>8, <1>9

\* A claim takes a fresh token for a resource whose owner row has expired.
LEMMA ClaimKeepsInv ==
  ASSUME ClaimInv, NEW w \in Worker, NEW t \in TaskId, Claim(w, t)
  PROVE  ClaimInv'
  <1> USE DEF ClaimInv
  <1> DEFINE tok == issued + 1
             until == now + TTL[w]
             res == tasks[t].res
             c == [id |-> t, token |-> tok, lease |-> until,
                   revision |-> tasks[t].revision, res |-> res]
  <1>1. /\ tok \in Nat \ {0} /\ until \in Nat /\ until > now
        /\ res \in Resource /\ tasks[t].revision \in Nat /\ now \in Nat
    BY BoundsAssumption DEF TypeOK, Row
  <1>2. /\ held[w].token = 0 /\ up
        /\ owners[res].until <= now
        /\ issued' = tok /\ now' = now /\ corrected' = corrected /\ up' = up
    BY DEF Claim, Claimable, Idle, Holding
  <1>3. /\ owners' \in [Resource -> [token : Nat, until : Nat]]
        /\ owners'[res] = [token |-> tok, until |-> until]
        /\ \A r \in Resource : r # res => owners'[r] = owners[r]
    BY <1>1 DEF Claim, TypeOK
  <1>4. /\ held' \in [Worker -> Claimed \cup {NoClaim}]
        /\ held'[w] = c
        /\ \A v \in Worker : v # w => held'[v] = held[v]
    <2>1. c \in Claimed
      BY <1>1 DEF Claimed
    <2>2. held' = [held EXCEPT ![w] = c]
      BY DEF Claim
    <2>3. QED
      BY <2>1, <2>2 DEF TypeOK
  <1>5. /\ tasks' \in [TaskId -> Row]
        /\ tasks'[t].token = tok /\ tasks'[t].lease = until /\ tasks'[t].res = res
        /\ \A s \in TaskId : s # t => tasks'[s] = tasks[s]
    <2>1. tasks' = [tasks EXCEPT ![t].token = tok, ![t].lease = until]
      BY DEF Claim
    <2>2. tasks[t] \in Row
      BY DEF TypeOK
    <2>3. \A s \in TaskId : s # t => tasks'[s] = tasks[s]
      BY <2>1 DEF TypeOK
    <2>4. tasks'[t].token = tok /\ tasks'[t].lease = until /\ tasks'[t].res = res
      BY <1>1, <2>1, <2>2 DEF TypeOK, Row
    <2>5. tasks' \in [TaskId -> Row]
      BY <1>1, <2>1, <2>2 DEF TypeOK, Row
    <2>6. QED
      BY <2>3, <2>4, <2>5
  <1>6. /\ \A s \in TaskId : tasks[s].token \in 0..issued /\ tasks[s].token # tok
        /\ \A r \in Resource : owners[r].token \in 0..issued /\ owners[r].token # tok
        /\ \A v \in Worker : held[v].token \in 0..issued /\ held[v].token # tok
        /\ tok \notin corrected /\ issued \in Nat
    <2>1. \A s \in TaskId : tasks[s].token \in Nat /\ tasks[s].token <= issued
      BY DEF TypeOK, Row
    <2>2. \A r \in Resource : owners[r].token \in Nat /\ owners[r].token <= issued
      BY DEF TypeOK
    <2>3. \A v \in Worker : held[v].token \in Nat /\ held[v].token <= issued
      BY DEF TypeOK, Claimed, NoClaim
    <2>4. issued \in Nat /\ tok \notin corrected
      BY DEF TypeOK
    <2>5. QED
      BY <2>1, <2>2, <2>3, <2>4
  <1>6c. c.token = tok /\ c.lease = until /\ c.id = t /\ c.res = res
    OBVIOUS
  <1> HIDE DEF tok, until, res, c
  <1>7. TypeOK'
    <2>1. corrected' \subseteq 1..issued'
      BY <1>2 DEF TypeOK, tok
    <2>2. /\ \A s \in TaskId : tasks'[s].token <= tok
          /\ \A r \in Resource : owners'[r].token <= tok
          /\ \A v \in Worker : held'[v].token <= tok
      <3>1. (\A n \in 0..issued : n <= tok) /\ tok <= tok
        BY <1>6 DEF tok
      <3>2. QED
        BY <1>3, <1>4, <1>5, <1>6, <1>6c, <3>1
    <2>3. QED
      BY <1>1, <1>2, <1>3, <1>4, <1>5, <2>1, <2>2 DEF TypeOK
  <1>8. ReaderOwns'
    <2> SUFFICES ASSUME NEW v \in Worker, Reading(v)'
                 PROVE  owners'[held'[v].res] = [token |-> held'[v].token,
                                                 until |-> held'[v].lease]
      BY DEF ReaderOwns
    <2>1. CASE v = w
      BY <1>3, <1>4, <1>6c, <2>1
    <2>2. CASE v # w
      <3>1. Reading(v) /\ held'[v] = held[v] /\ held[v].res \in Resource
            /\ held[v].lease \in Nat
        BY <1>2, <1>4, <2>2, HeldRow DEF Reading, Holding
      <3>2. owners[held[v].res] = [token |-> held[v].token, until |-> held[v].lease]
        BY <3>1 DEF ReaderOwns
      <3>3. held[v].res # res
        BY <1>1, <1>2, <3>1, <3>2 DEF Reading
      <3>4. QED
        BY <1>3, <3>1, <3>2, <3>3
    <2>3. QED
      BY <2>1, <2>2
  <1>9. TokensAreUnique'
    <2>1. ASSUME NEW v \in Worker, NEW u \in Worker, v # u, Holding(v)'
          PROVE  held'[v].token # held'[u].token
      BY <1>4, <1>6, <1>6c, <2>1 DEF TokensAreUnique, Holding
    <2>2. ASSUME NEW r \in TaskId, NEW s \in TaskId, r # s, tasks'[r].token # 0
          PROVE  tasks'[r].token # tasks'[s].token
      BY <1>5, <1>6, <2>2 DEF TokensAreUnique
    <2>3. QED
      BY <2>1, <2>2 DEF TokensAreUnique
  <1>10. RowMatchesHolder'
    <2>1. ASSUME NEW v \in Worker, NEW s \in TaskId,
                 Holding(v)', tasks'[s].token = held'[v].token
          PROVE  s = held'[v].id /\ tasks'[s].lease = held'[v].lease
      BY <1>4, <1>5, <1>6, <1>6c, <2>1 DEF RowMatchesHolder, Holding
    <2>2. ASSUME NEW s \in TaskId PROVE tasks'[s].token \notin corrected'
      BY <1>2, <1>5, <1>6 DEF RowMatchesHolder
    <2>3. QED
      BY <2>1, <2>2 DEF RowMatchesHolder
  <1>11. DownMeansIdle'
    BY <1>2 DEF DownMeansIdle
  <1>12. ClaimedRowsOwnTheirResource'
    <2> SUFFICES ASSUME NEW s \in TaskId, tasks'[s].lease > now'
                 PROVE  /\ tasks'[s].token # 0
                        /\ owners'[tasks'[s].res] = [token |-> tasks'[s].token,
                                                     until |-> tasks'[s].lease]
      BY DEF ClaimedRowsOwnTheirResource
    <2>1. CASE s = t
      BY <1>1, <1>3, <1>5, <2>1
    <2>2. CASE s # t
      <3>1. /\ tasks'[s] = tasks[s] /\ tasks[s].res \in Resource
            /\ tasks[s].lease \in Nat
        BY <1>5, <2>2 DEF TypeOK, Row
      <3>2. /\ tasks[s].token # 0
            /\ owners[tasks[s].res] = [token |-> tasks[s].token, until |-> tasks[s].lease]
        BY <1>2, <3>1 DEF ClaimedRowsOwnTheirResource
      <3>3. tasks[s].res # res
        BY <1>1, <1>2, <3>1, <3>2
      <3>4. QED
        BY <1>3, <3>1, <3>2, <3>3
    <2>3. QED
      BY <2>1, <2>2
  <1>13. QED
    BY <1>7, <1>8, <1>9, <1>10, <1>11, <1>12

\* A job that ends without a write, the clock, a crash and a recovery only take
\* readers away; recovery clears every row together with every owner.
LEMMA ProcessKeepsInv ==
  ASSUME ClaimInv,
         (\E w \in Worker : Abandon(w)) \/ Tick \/ Crash \/ Recover
  PROVE  ClaimInv'
  <1> USE DEF ClaimInv
  <1>1. NoClaim.token = 0
    BY DEF NoClaim
  <1>2. CASE (\E w \in Worker : Abandon(w)) \/ Crash
    <2>1. /\ tasks' = tasks /\ owners' = owners /\ now' = now
          /\ issued' = issued /\ corrected' = corrected /\ up' \in BOOLEAN
          /\ \A v \in Worker : held'[v] = held[v] \/ held'[v] = NoClaim
          /\ held' \in [Worker -> Claimed \cup {NoClaim}]
          /\ ~up' => \A v \in Worker : held'[v] = NoClaim
      BY <1>2 DEF Abandon, Crash, TypeOK
    <2>2. TypeOK'
      <3>1. \A v \in Worker : held'[v].token <= issued
        BY <1>1, <2>1 DEF TypeOK
      <3>2. QED
        BY <2>1, <3>1 DEF TypeOK
    <2>3. ReaderOwns' /\ DownMeansIdle'
      BY <1>1, <2>1 DEF ReaderOwns, DownMeansIdle, Reading, Holding
    <2>4. TokensAreUnique' /\ RowMatchesHolder'
      BY <1>1, <2>1 DEF TokensAreUnique, RowMatchesHolder, Holding
    <2>5. ClaimedRowsOwnTheirResource'
      BY <2>1 DEF ClaimedRowsOwnTheirResource
    <2>6. QED
      BY <2>2, <2>3, <2>4, <2>5
  <1>3. CASE Tick
    <2>1. /\ UNCHANGED <<tasks, owners, held, issued, up, corrected>>
          /\ now \in Nat /\ now' = now + 1
      BY <1>3 DEF Tick, TypeOK
    <2>2. TypeOK' /\ TokensAreUnique' /\ RowMatchesHolder' /\ DownMeansIdle'
      BY <2>1 DEF TypeOK, TokensAreUnique, RowMatchesHolder, DownMeansIdle, Holding
    <2>3. ReaderOwns'
      <3>1. \A w \in Worker : Reading(w)' => Reading(w)
        BY <2>1, HeldRow DEF Reading, Holding
      <3>2. QED
        BY <2>1, <3>1 DEF ReaderOwns
    <2>4. ClaimedRowsOwnTheirResource'
      <3>1. \A t \in TaskId : tasks[t].lease \in Nat
        BY DEF TypeOK, Row
      <3>2. QED
        BY <2>1, <3>1 DEF ClaimedRowsOwnTheirResource
    <2>5. QED
      BY <2>2, <2>3, <2>4
  <1>4. CASE Recover
    <2>1. /\ \A w \in Worker : held[w].token = 0
          /\ held' = held /\ now' = now /\ issued' = issued
          /\ corrected' = corrected /\ up' = TRUE
      BY <1>4 DEF Recover, DownMeansIdle, Holding
    <2>2. \A t \in TaskId : Unclaimed(tasks[t]) \in Row
                            /\ Unclaimed(tasks[t]).token = 0
                            /\ Unclaimed(tasks[t]).lease = 0
      <3>1. "none" \in Phase
        BY DEF Phase
      <3>2. \A t \in TaskId : Home(t) \in Resource
        BY <3>1, NewRowType
      <3>3. QED
        BY <3>1, <3>2, FreedRowType DEF TypeOK
    <2>3. /\ tasks' \in [TaskId -> Row]
          /\ \A t \in TaskId : tasks'[t].token = 0 /\ tasks'[t].lease = 0
      BY <1>4, <2>2 DEF Recover
    <2>4. /\ owners' \in [Resource -> [token : Nat, until : Nat]]
          /\ \A r \in Resource : owners'[r].token = 0
      BY <1>4 DEF Recover, NoOwner
    <2>5. TypeOK'
      <3>1. 0 <= issued
        BY DEF TypeOK
      <3>2. QED
        BY <2>1, <2>3, <2>4, <3>1 DEF TypeOK
    <2>6. ReaderOwns' /\ DownMeansIdle'
      BY <2>1 DEF ReaderOwns, DownMeansIdle, Reading, Holding
    <2>7. TokensAreUnique' /\ RowMatchesHolder'
      <3>1. 0 \notin corrected
        BY DEF TypeOK
      <3>2. QED
        BY <2>1, <2>3, <3>1 DEF TokensAreUnique, RowMatchesHolder, Holding
    <2>8. ClaimedRowsOwnTheirResource'
      <3>1. now \in Nat
        BY DEF TypeOK
      <3>2. QED
        BY <2>1, <2>3, <3>1 DEF ClaimedRowsOwnTheirResource
    <2>9. QED
      BY <2>5, <2>6, <2>7, <2>8
  <1>5. QED
    BY <1>2, <1>3, <1>4

-----------------------------------------------------------------------------
\* The theorems.

\* ClaimInv holds in every reachable state of the store: the type invariant,
\* the uniqueness of tokens, and the agreement of rows, owners and workers.
THEOREM ClaimInvariant == Spec => []ClaimInv
  <1>1. Init => ClaimInv
    <2> SUFFICES ASSUME Init PROVE ClaimInv
      OBVIOUS
    <2>1. NoClaim.token = 0 /\ NoOwner \in [token : Nat, until : Nat] /\ NoOwner.token = 0
      BY DEF NoClaim, NoOwner
    <2>2. \A t \in TaskId : NoRow(t) \in Row /\ NoRow(t).token = 0 /\ NoRow(t).lease = 0
      <3>1. "none" \in Phase
        BY DEF Phase
      <3>2. QED
        BY <3>1, NewRowType
    <2>3. TypeOK
      BY <2>1, <2>2 DEF Init, TypeOK
    <2>4. ReaderOwns /\ TokensAreUnique /\ RowMatchesHolder /\ DownMeansIdle
      BY <2>1, <2>2 DEF Init, ReaderOwns, TokensAreUnique, RowMatchesHolder,
                        DownMeansIdle, Reading, Holding
    <2>5. ClaimedRowsOwnTheirResource
      BY <2>2 DEF Init, ClaimedRowsOwnTheirResource
    <2>6. QED
      BY <2>3, <2>4, <2>5 DEF ClaimInv
  <1>2. ClaimInv /\ [Next]_vars => ClaimInv'
    <2> SUFFICES ASSUME ClaimInv, [Next]_vars PROVE ClaimInv'
      OBVIOUS
    <2>1. ASSUME NEW w \in Worker, NEW t \in TaskId, Claim(w, t) PROVE ClaimInv'
      BY <2>1, ClaimKeepsInv
    <2>2. ASSUME NEW w \in Worker, SettleStep(w) PROVE ClaimInv'
      BY <2>2, SettleStepShape, SettleKeepsInv DEF ClaimInv
    <2>3. ASSUME NEW t \in TaskId, FreeStep(t) PROVE ClaimInv'
      BY <2>3, FreeStepShape, FreeKeepsInv, RevokeKeepsInv DEF ClaimInv
    <2>4. CASE DropArchives
      BY <2>4, DropArchivesShape, FreeKeepsInv DEF ClaimInv
    <2>5. CASE (\E w \in Worker : Abandon(w)) \/ Tick \/ Crash \/ Recover
      BY <2>5, ProcessKeepsInv
    <2>6. CASE UNCHANGED vars
      BY <2>6 DEF vars, ClaimInv, TypeOK, ReaderOwns, TokensAreUnique,
                  RowMatchesHolder, DownMeansIdle, ClaimedRowsOwnTheirResource,
                  Reading, Holding
    <2>7. QED
      BY <2>1, <2>2, <2>3, <2>4, <2>5, <2>6 DEF Next
  <1>3. QED
    BY <1>1, <1>2, PTL DEF Spec

\* Two jobs never work on one release or torrent at the same time, whatever a
\* moved torrent, an operator, an expired lease or a restart does in between.
THEOREM OneReaderPerResource == Spec => []ExclusiveReader
  <1>1. ClaimInv => ExclusiveReader
    <2> SUFFICES ASSUME ClaimInv, NEW v \in Worker, NEW w \in Worker,
                        v # w, Reading(v), Reading(w), held[v].res = held[w].res
                 PROVE  FALSE
      BY DEF ExclusiveReader
    <2>1. /\ owners[held[v].res] = [token |-> held[v].token, until |-> held[v].lease]
          /\ owners[held[w].res] = [token |-> held[w].token, until |-> held[w].lease]
      BY DEF ClaimInv, ReaderOwns
    <2> DEFINE row(u) == [token |-> held[u].token, until |-> held[u].lease]
    <2>2. row(v).token = row(w).token
      BY <2>1
    <2>3. held[v].token = held[w].token
      BY <2>2
    <2>4. QED
      BY <2>3 DEF ClaimInv, TokensAreUnique, Reading
  <1>2. QED
    BY <1>1, ClaimInvariant, PTL

\* A worker whose write is accepted has been the reader of its resource all
\* along: claimValid implies an open lease that no correction revoked.
THEOREM OnlyReadersSettle == Spec => []SettlerIsReader
  <1>1. ClaimInv => SettlerIsReader
    <2> SUFFICES ASSUME ClaimInv, NEW w \in Worker, Holding(w), ClaimValid(w)
                 PROVE  Reading(w)
      BY DEF SettlerIsReader
    <2>1. held[w].id \in TaskId /\ held[w].lease \in Nat /\ now \in Nat
      BY HeldRow DEF ClaimInv, TypeOK
    <2>2. /\ tasks[held[w].id].token = held[w].token
          /\ tasks[held[w].id].lease > now
      BY DEF ClaimValid
    <2>3. tasks[held[w].id].lease = held[w].lease /\ held[w].token \notin corrected
      BY <2>1, <2>2 DEF ClaimInv, RowMatchesHolder
    <2>4. QED
      BY <2>1, <2>2, <2>3 DEF Reading
  <1>2. QED
    BY <1>1, ClaimInvariant, PTL

-----------------------------------------------------------------------------
(***************************************************************************)
(* What the claims of TaskClaims amount to, for every value of the          *)
(* constants.                                                               *)
(*                                                                         *)
(* TaskClaims implements ResourceLease: a claim is a Begin, since the owner *)
(* row of its resource has expired and by ReaderOwns nobody reads it; every *)
(* other step only makes readers leave, because no step but a claim gives a *)
(* worker a resource to work on.                                            *)
(*                                                                         *)
(* And an archive task in "verifying" has its torrent to itself: it enters  *)
(* that phase by a write of the only reader, and no claim of another lane   *)
(* is let in while it lasts (VerifyingStaysQuiet).                          *)
(***************************************************************************)

\* The exclusive lease.

\* The value of the abstract variable: who reads each resource.
ReadersOf(r) == {w \in Worker : Reading(w) /\ held[w].res = r}
Readers == [r \in Resource |-> ReadersOf(r)]

\* Nobody starts to read, and nobody changes to another claim.
OnlyLeaving ==
  \A w \in Worker : Reading(w)' => Reading(w) /\ held'[w] = held[w]

\* Every step but a claim.
ShortOfAClaim ==
  \/ \E w \in Worker : SettleStep(w) \/ Abandon(w)
  \/ \E t \in TaskId : FreeStep(t)
  \/ DropArchives \/ Tick \/ Crash \/ Recover

\* Where nobody starts to read, the abstract readers can only leave.
LEMMA LeavingIsLeave ==
  ASSUME OnlyLeaving
  PROVE  Lease!Leave
  <1>1. \A r \in Resource : ReadersOf(r)' \subseteq ReadersOf(r)
    BY DEF OnlyLeaving, ReadersOf
  <1>2. \A r \in Resource : ReadersOf(r)' \subseteq Worker
    BY DEF ReadersOf
  <1>3. Readers' \in [Resource -> SUBSET Worker]
    BY <1>2 DEF Readers
  <1>4. \A r \in Resource : Readers'[r] \subseteq Readers[r]
    BY <1>1 DEF Readers
  <1>5. QED
    BY <1>3, <1>4 DEF Lease!Leave, Readers, ReadersOf

\* A step that hands out no claim, does not turn the clock back and forgets no
\* correction gives nobody a resource to read.
LEMMA NoNewReader ==
  ASSUME TypeOK, now' \in Nat, now <= now', corrected \subseteq corrected',
         \A w \in Worker : held'[w] = held[w] \/ held'[w] = NoClaim
  PROVE  OnlyLeaving
  <1> SUFFICES ASSUME NEW w \in Worker, Reading(w)'
               PROVE  Reading(w) /\ held'[w] = held[w]
    BY DEF OnlyLeaving
  <1>1. held'[w].token # 0 /\ now' < held'[w].lease /\ held'[w].token \notin corrected'
    BY DEF Reading, Holding
  <1>2. held'[w] = held[w]
    BY <1>1 DEF NoClaim
  <1>3. Holding(w)
    BY <1>1, <1>2 DEF Holding
  <1>4. held[w].lease \in Nat /\ now \in Nat
    BY <1>3, HeldRow DEF TypeOK
  <1>5. QED
    BY <1>1, <1>2, <1>3, <1>4 DEF Reading

\* Short of a claim, claims in hand are only lost, the clock only goes forward
\* and a correction is not forgotten.
LEMMA ClaimsAreLost ==
  ASSUME TypeOK, ShortOfAClaim
  PROVE  /\ \A w \in Worker : held'[w] = held[w] \/ held'[w] = NoClaim
         /\ now' \in Nat /\ now <= now' /\ corrected \subseteq corrected'
  <1>1. now \in Nat /\ held \in [Worker -> Claimed \cup {NoClaim}]
    BY DEF TypeOK
  <1>2. CASE \E w \in Worker : SettleStep(w)
    BY <1>1, <1>2, SettleStepShape DEF SettleShape
  <1>3. CASE \E w \in Worker : Abandon(w)
    BY <1>1, <1>3 DEF Abandon
  <1>4. CASE \E t \in TaskId : FreeStep(t)
    BY <1>1, <1>4, FreeStepShape DEF FreeShape, RevokeShape
  <1>5. CASE DropArchives \/ Tick \/ Crash \/ Recover
    BY <1>1, <1>5 DEF DropArchives, Tick, Crash, Recover
  <1>6. QED
    BY <1>2, <1>3, <1>4, <1>5 DEF ShortOfAClaim

\* Whatever the job, the clock, the poller or an operator does short of a claim.
LEMMA OtherStepsLeave ==
  ASSUME TypeOK, ShortOfAClaim
  PROVE  OnlyLeaving
  BY ClaimsAreLost, NoNewReader

\* A claim begins to read a resource that has no reader, and nothing else.
LEMMA ClaimIsBegin ==
  ASSUME ClaimInv, NEW w \in Worker, NEW t \in TaskId, Claim(w, t)
  PROVE  Lease!Begin(w, tasks[t].res)
  <1> DEFINE res == tasks[t].res
             until == now + TTL[w]
  <1>1. /\ res \in Resource /\ now \in Nat /\ until \in Nat /\ now < until
        /\ issued \in Nat /\ corrected \subseteq 1..issued
    BY BoundsAssumption DEF ClaimInv, TypeOK, Row
  <1>2. ~Holding(w) /\ owners[res].until <= now
    BY DEF Claim, Idle, Claimable
  <1>3. /\ held'[w].token = issued + 1 /\ held'[w].lease = until /\ held'[w].res = res
        /\ \A v \in Worker : v # w => held'[v] = held[v]
        /\ now' = now /\ corrected' = corrected
    BY DEF Claim, ClaimInv, TypeOK
  <1> HIDE DEF res, until
  <1>4. \A v \in Worker : ~(Reading(v) /\ held[v].res = res)
    <2> SUFFICES ASSUME NEW v \in Worker, Reading(v), held[v].res = res PROVE FALSE
      OBVIOUS
    <2>1. now < held[v].lease /\ held[v].lease \in Nat
      BY HeldRow DEF Reading, ClaimInv
    <2>2. owners[res] = [token |-> held[v].token, until |-> held[v].lease]
      BY DEF ClaimInv, ReaderOwns
    <2>3. owners[res].until = held[v].lease
      BY <2>2
    <2>4. QED
      BY <1>1, <1>2, <2>1, <2>3
  <1>5. ~Reading(w)
    BY <1>2 DEF Reading
  <1>6. Reading(w)'
    <2>1. held'[w].token # 0 /\ held'[w].token \notin corrected'
      BY <1>1, <1>3
    <2>2. QED
      BY <1>1, <1>3, <2>1 DEF Reading, Holding
  <1>7. \A v \in Worker : v # w => (Reading(v)' <=> Reading(v))
    BY <1>3 DEF Reading, Holding
  <1>8. Readers[res] = {}
    BY <1>1, <1>4 DEF Readers, ReadersOf
  <1>9. \A s \in Resource : w \notin Readers[s]
    BY <1>5 DEF Readers, ReadersOf
  <1>10. ASSUME NEW s \in Resource
         PROVE  ReadersOf(s)' = IF s = res THEN {w} ELSE ReadersOf(s)
    <2>1. CASE s = res
      BY <1>3, <1>4, <1>6, <1>7, <2>1 DEF ReadersOf
    <2>2. CASE s # res
      BY <1>3, <1>5, <1>7, <2>2 DEF ReadersOf
    <2>3. QED
      BY <2>1, <2>2
  <1>11. Readers' = [Readers EXCEPT ![res] = {w}]
    BY <1>1, <1>10 DEF Readers
  <1>12. QED
    BY <1>8, <1>9, <1>11 DEF Lease!Begin, Readers, ReadersOf, res

\* The store implements an exclusive lease per resource: at every claim the
\* resource has no reader and the worker no resource, and between claims readers
\* only leave, whatever expires, moves, is corrected, crashes or is operated on.
THEOREM StoreIsALease == Spec => LeaseSpec
  <1>1. Init => Lease!Init
    <2> SUFFICES ASSUME Init PROVE Lease!Init
      OBVIOUS
    <2>1. \A w \in Worker : ~Reading(w)
      BY DEF Init, Reading, Holding, NoClaim
    <2>2. QED
      BY <2>1 DEF Lease!Init
  <1>2. ClaimInv /\ [Next]_vars => [Lease!Next]_Readers
    <2> SUFFICES ASSUME ClaimInv, [Next]_vars PROVE [Lease!Next]_Readers
      OBVIOUS
    <2>1. ASSUME NEW w \in Worker, NEW t \in TaskId, Claim(w, t) PROVE Lease!Next
      <3>1. tasks[t].res \in Resource
        BY DEF ClaimInv, TypeOK, Row
      <3>2. Lease!Begin(w, tasks[t].res)
        BY <2>1, ClaimIsBegin
      <3>3. QED
        BY <3>1, <3>2 DEF Lease!Next, Lease!Begin
    <2>2. CASE ShortOfAClaim
      BY <2>2, OtherStepsLeave, LeavingIsLeave DEF ClaimInv, Lease!Next
    <2>3. CASE UNCHANGED vars
      BY <2>3 DEF vars, Readers, ReadersOf, Reading, Holding
    <2>4. QED
      BY <2>1, <2>2, <2>3 DEF Next, ShortOfAClaim
  <1>3. QED
    BY <1>1, <1>2, ClaimInvariant, PTL DEF Spec, LeaseSpec, Lease!Spec, Readers, ReadersOf

-----------------------------------------------------------------------------
\* The torrent of an archive task in "verifying".

\* An archive task never leaves its torrent, and its holder works on that torrent.
AtHome ==
  /\ \A h \in Hash : tasks[<<"archive", h>>].res = <<"torrent", h>>
  /\ \A w \in Worker :
       Holding(w) /\ Lane(held[w].id) = "archive" =>
         held[w].res = <<"torrent", held[w].id[2]>>

LEMMA ArchiveTask ==
  ASSUME NEW h \in Hash
  PROVE  /\ <<"archive", h>> \in TaskId /\ Lane(<<"archive", h>>) = "archive"
         /\ Home(<<"archive", h>>) = <<"torrent", h>> /\ <<"torrent", h>> \in Resource
  BY DEF TaskId, Lane, Home, Resource

\* What a step that is no claim may do to an archive row: it stays where it is,
\* and it enters "verifying" by its holder's write or an operator's retry.
ArchiveShape(a) ==
  /\ tasks'[a].res \in {tasks[a].res, Home(a)}
  /\ tasks'[a].phase = "verifying" =>
       \/ tasks[a].phase = "verifying"
       \/ OperatorRetry(a)
       \/ \E w \in Worker : SettleShape(w) /\ held[w].id = a

\* The writes of a worker.
LEMMA SettleArchive ==
  ASSUME TypeOK, NEW w \in Worker, SettleStep(w), NEW h \in Hash
  PROVE  ArchiveShape(<<"archive", h>>)
  <1> DEFINE a == <<"archive", h>>
             t == held[w].id
             row == tasks[t]
  <1>1. a \in TaskId /\ Lane(a) = "archive"
    BY ArchiveTask
  <1>2. SettleShape(w)
    BY SettleStepShape
  <1>3. t \in TaskId
    BY <1>2, HeldRow DEF SettleShape
  <1> HIDE DEF a, t, row
  <1>4. CASE t # a
    <2>1. tasks'[a] = tasks[a]
      <3>1. CASE CompleteArchive(w)
        <4>1. PICK r : tasks' = [tasks EXCEPT ![t] = NoRow(t), ![<<"media", t[2]>>] = r]
          BY <3>1 DEF CompleteArchive, t
        <4>2. a # <<"media", t[2]>>
          BY DEF a
        <4>3. QED
          BY <1>1, <1>3, <1>4, <4>1, <4>2 DEF TypeOK
      <3>2. CASE \E r : Settle(w, r)
        BY <1>1, <1>3, <1>4, <3>2 DEF Settle, TypeOK, t
      <3>3. QED
        BY <3>1, <3>2 DEF SettleStep, Transition, Ready, Submitting, DeferDependency,
                          Retry, Finish, ArchiveStillPresent
    <2>2. QED
      BY <2>1 DEF ArchiveShape, a
  <1>5. CASE t = a
    <2>1. tasks'[a].res \in {tasks[a].res, Home(a)}
      <3>1. CASE CompleteArchive(w)
        <4>1. PICK r : tasks' = [tasks EXCEPT ![a] = NoRow(a), ![<<"media", a[2]>>] = r]
          BY <1>5, <3>1 DEF CompleteArchive, t
        <4>2. a # <<"media", a[2]>>
          BY DEF a
        <4>3. tasks'[a] = NoRow(a)
          BY <1>1, <4>1, <4>2 DEF TypeOK
        <4>4. QED
          BY <4>3 DEF NoRow, FreeRow
      <3>2. ASSUME NEW r, Settle(w, r), r.res \in {tasks[a].res, Home(a)}
            PROVE  tasks'[a].res \in {tasks[a].res, Home(a)}
        BY <1>1, <1>5, <3>2 DEF Settle, TypeOK, t
      <3>3. CASE Transition(w)
        <4>1. PICK p \in Phase : Settle(w, Restart(row, p, row.res))
          BY <3>3 DEF Transition, t, row
        <4>2. QED
          BY <1>5, <3>2, <4>1 DEF Restart, FreeRow, row
      <3>4. CASE Submitting(w) \/ Ready(w)
        BY <1>1, <1>5, <3>4 DEF Submitting, Ready, t
      <3>5. CASE DeferDependency(w)
        BY <1>5, <3>2, <3>5 DEF DeferDependency, Unclaimed, FreeRow, t
      <3>6. CASE Retry(w)
        BY <1>5, <3>2, <3>6 DEF Retry, FreeRow, t
      <3>7. CASE Finish(w)
        BY <1>5, <3>2, <3>7 DEF Finish, NoRow, FreeRow, t
      <3>8. CASE ArchiveStillPresent(w)
        <4>1. PICK p \in {"ready", "blocked"} :
                Settle(w, FreeRow(p, row.res, row.revision, row.attempts + 1))
          BY <3>8 DEF ArchiveStillPresent, t, row
        <4>2. QED
          BY <1>5, <3>2, <4>1 DEF FreeRow, row
      <3>9. QED
        BY <3>1, <3>3, <3>4, <3>5, <3>6, <3>7, <3>8 DEF SettleStep
    <2>2. QED
      BY <1>2, <1>5, <2>1 DEF ArchiveShape, a, t
  <1>6. QED
    BY <1>4, <1>5 DEF a

\* The writes without a claim, time, and the life of the process.
LEMMA UnclaimedArchive ==
  ASSUME TypeOK, NEW h \in Hash,
         \/ \E w \in Worker : Abandon(w)
         \/ \E t \in TaskId : FreeStep(t)
         \/ DropArchives \/ Tick \/ Crash \/ Recover
  PROVE  ArchiveShape(<<"archive", h>>)
  <1> DEFINE a == <<"archive", h>>
  <1>1. a \in TaskId /\ Lane(a) = "archive"
    BY ArchiveTask
  <1>2. \A p : /\ NewRow(a, p).res = Home(a) /\ NewRow(a, p).phase = p
               /\ NoRow(a).res = Home(a) /\ NoRow(a).phase = "none"
    BY DEF NewRow, NoRow, FreeRow
  <1> HIDE DEF a
  <1>3. ASSUME NEW t \in TaskId, FreeStep(t) PROVE ArchiveShape(a)
    <2>1. CASE t # a
      <3>1. \E row : tasks' = [tasks EXCEPT ![t] = row]
        <4>1. CASE ReconcileDownload(t)
          BY <4>1 DEF ReconcileDownload
        <4>2. QED
          BY <1>3, <4>1 DEF FreeStep, SourceCorrection, Enqueue, PathChange,
                            OperatorRetry, OperatorCancel, OperatorReplay
      <3>2. tasks'[a] = tasks[a]
        BY <1>1, <2>1, <3>1 DEF TypeOK
      <3>3. QED
        BY <3>2 DEF ArchiveShape
    <2>2. CASE t = a
      <3>1. CASE Enqueue(a) \/ OperatorCancel(a)
        <4>1. tasks' = [tasks EXCEPT ![a] = NewRow(a, "ready")]
              \/ tasks' = [tasks EXCEPT ![a] = NoRow(a)]
          BY <1>1, <3>1 DEF Enqueue, OperatorCancel
        <4>2. QED
          BY <1>1, <1>2, <4>1 DEF TypeOK, ArchiveShape
      <3>2. CASE OperatorRetry(a)
        <4>1. PICK p : tasks' = [tasks EXCEPT ![a] = Restart(tasks[a], p, tasks[a].res)]
          BY <3>2 DEF OperatorRetry
        <4>2. tasks'[a].res = tasks[a].res
          BY <1>1, <4>1 DEF TypeOK, Restart, FreeRow
        <4>3. QED
          BY <3>2, <4>2 DEF ArchiveShape
      <3>3. QED
        BY <1>1, <1>3, <2>2, <3>1, <3>2
           DEF FreeStep, SourceCorrection, PathChange, ReconcileDownload, OperatorReplay
    <2>3. QED
      BY <2>1, <2>2
  <1>4. CASE DropArchives
    <2>1. tasks'[a] = NoRow(a) \/ tasks'[a] = tasks[a]
      BY <1>1, <1>4 DEF DropArchives
    <2>2. /\ tasks'[a].res \in {tasks[a].res, Home(a)}
          /\ tasks'[a].phase \in {tasks[a].phase, "none"}
      BY <1>2, <2>1
    <2>3. QED
      BY <2>2 DEF ArchiveShape, a
  <1>5. CASE Recover
    <2>1. tasks'[a] = Unclaimed(tasks[a])
      BY <1>1, <1>5 DEF Recover
    <2>2. tasks'[a].res = tasks[a].res /\ tasks'[a].phase = tasks[a].phase
      BY <2>1 DEF Unclaimed, FreeRow
    <2>3. QED
      BY <2>2 DEF ArchiveShape, a
  <1>6. CASE (\E w \in Worker : Abandon(w)) \/ Tick \/ Crash
    BY <1>6 DEF Abandon, Tick, Crash, ArchiveShape
  <1>7. QED
    BY <1>3, <1>4, <1>5, <1>6 DEF a

\* A claim moves no archive row, and takes over the resource of the row.
LEMMA ClaimAtHome ==
  ASSUME TypeOK, AtHome, NEW w \in Worker, NEW t \in TaskId, Claim(w, t)
  PROVE  /\ AtHome'
         /\ \A h \in Hash : tasks'[<<"archive", h>>].phase = tasks[<<"archive", h>>].phase
  <1>1. /\ \A s \in TaskId : /\ tasks'[s].res = tasks[s].res
                             /\ tasks'[s].phase = tasks[s].phase
        /\ held'[w].id = t /\ held'[w].res = tasks[t].res
        /\ \A v \in Worker : v # w => held'[v] = held[v]
    <2> DEFINE row == [tasks[t] EXCEPT !.token = issued + 1, !.lease = now + TTL[w]]
    <2>1. tasks[t] \in Row
      BY DEF TypeOK
    <2>2. tasks' = [tasks EXCEPT ![t] = row]
      BY DEF Claim
    <2>3. row.res = tasks[t].res /\ row.phase = tasks[t].phase
      BY <2>1 DEF Row
    <2> HIDE DEF row
    <2>4. \A s \in TaskId : tasks'[s] = IF s = t THEN row ELSE tasks[s]
      BY <2>2 DEF TypeOK
    <2>5. /\ held'[w].id = t /\ held'[w].res = tasks[t].res
          /\ \A v \in Worker : v # w => held'[v] = held[v]
      BY DEF Claim, TypeOK
    <2>6. QED
      BY <2>3, <2>4, <2>5
  <1>2. Lane(t) = "archive" => \E h \in Hash : t = <<"archive", h>>
    BY DEF TaskId, Lane
  <1>3. Lane(t) = "archive" => tasks[t].res = <<"torrent", t[2]>>
    BY <1>2 DEF AtHome
  <1>4. QED
    BY <1>1, <1>3, ArchiveTask DEF AtHome, Holding

\* Archive tasks and their holders stay at home.
LEMMA StepKeepsHome ==
  ASSUME TypeOK, AtHome, [Next]_vars
  PROVE  AtHome'
  <1>1. CASE UNCHANGED vars
    BY <1>1 DEF vars, AtHome, Holding
  <1>2. CASE \E w \in Worker, t \in TaskId : Claim(w, t)
    BY <1>2, ClaimAtHome
  <1>3. CASE ShortOfAClaim
    <2>1. \A h \in Hash : ArchiveShape(<<"archive", h>>)
      BY <1>3, SettleArchive, UnclaimedArchive DEF ShortOfAClaim
    <2>2. \A h \in Hash : tasks'[<<"archive", h>>].res = <<"torrent", h>>
      BY <2>1, ArchiveTask DEF ArchiveShape, AtHome
    <2>3. \A w \in Worker : held'[w] = held[w] \/ held'[w] = NoClaim
      BY <1>3, ClaimsAreLost
    <2>4. QED
      BY <2>2, <2>3 DEF AtHome, Holding, NoClaim
  <1>4. QED
    BY <1>1, <1>2, <1>3 DEF Next, ShortOfAClaim

\* An archive enters "verifying" with no other lane at work on its torrent, and
\* none is let in while it verifies, except beside an operator's retry.
THEOREM VerifyingIsQuiet == Spec => VerifyingStaysQuiet
  <1> DEFINE QuietStep ==
        \A h \in Hash :
          LET a == <<"archive", h>> IN
          tasks'[a].phase = "verifying" /\ ~Quiet(h)' =>
            \/ tasks[a].phase = "verifying" /\ ~Quiet(h)
            \/ OperatorRetry(a)
  <1>1. Init => AtHome
    <2> SUFFICES ASSUME Init PROVE AtHome
      OBVIOUS
    <2>1. \A h \in Hash : tasks[<<"archive", h>>].res = <<"torrent", h>>
      BY ArchiveTask DEF Init, NoRow, FreeRow
    <2>2. \A w \in Worker : ~Holding(w)
      BY DEF Init, Holding, NoClaim
    <2>3. QED
      BY <2>1, <2>2 DEF AtHome
  <1>2. TypeOK /\ AtHome /\ [Next]_vars => AtHome'
    BY StepKeepsHome
  <1>3. ClaimInv /\ ExclusiveReader /\ SettlerIsReader /\ AtHome /\ [Next]_vars => [QuietStep]_vars
    <2> SUFFICES ASSUME ClaimInv, ExclusiveReader, SettlerIsReader, AtHome, Next,
                        NEW h \in Hash, tasks'[<<"archive", h>>].phase = "verifying",
                        NEW v \in Worker, Reading(v)', held'[v].res = <<"torrent", h>>,
                        Lane(held'[v].id) # "archive"
                 PROVE  \/ tasks[<<"archive", h>>].phase = "verifying" /\ ~Quiet(h)
                        \/ OperatorRetry(<<"archive", h>>)
      BY DEF Quiet
    <2> DEFINE a == <<"archive", h>>
    <2>1. a \in TaskId /\ Lane(a) = "archive" /\ tasks[a].res = <<"torrent", h>>
      BY ArchiveTask DEF AtHome
    <2>2. ASSUME NEW w \in Worker, NEW t \in TaskId, Claim(w, t)
          PROVE  tasks[a].phase = "verifying" /\ ~Quiet(h)
      <3>1. tasks[a].phase = "verifying"
        BY <2>2, ClaimAtHome DEF ClaimInv
      <3>2. v # w
        <4>1. held' = [held EXCEPT ![w] = [id |-> t, token |-> issued + 1,
                         lease |-> now + TTL[w], revision |-> tasks[t].revision,
                         res |-> tasks[t].res]]
          BY <2>2 DEF Claim
        <4>2. held'[w].id = t /\ held'[w].res = tasks[t].res
          BY <4>1 DEF ClaimInv, TypeOK
        <4>3. Verifying(<<"torrent", h>>)
          BY <2>1, <3>1 DEF Verifying
        <4>4. QED
          BY <2>2, <4>2, <4>3 DEF Claim, Claimable
      <3>3. held'[v] = held[v] /\ Reading(v)
        BY <2>2, <3>2 DEF Claim, ClaimInv, TypeOK, Reading, Holding
      <3>4. QED
        BY <3>1, <3>3 DEF Quiet
    <2>3. CASE ShortOfAClaim
      <3>1. held'[v] = held[v] /\ Reading(v)
        BY <2>3, OtherStepsLeave DEF OnlyLeaving, ClaimInv
      <3>2. ~Quiet(h)
        BY <3>1 DEF Quiet
      <3>3. ArchiveShape(a)
        BY <2>3, SettleArchive, UnclaimedArchive DEF ShortOfAClaim, ClaimInv
      <3>4. ASSUME NEW w \in Worker, SettleShape(w), held[w].id = a
            PROVE  FALSE
        <4>1. Holding(w) /\ ClaimValid(w) /\ v # w
          BY <2>1, <3>1, <3>4 DEF SettleShape
        <4>2. Reading(w)
          BY <4>1 DEF SettlerIsReader
        <4>3. held[w].res = <<"torrent", h>>
          BY <2>1, <3>4, <4>1 DEF AtHome
        <4>4. QED
          BY <3>1, <4>1, <4>2, <4>3 DEF ExclusiveReader
      <3>5. QED
        BY <3>2, <3>3, <3>4 DEF ArchiveShape
    <2>4. QED
      BY <2>2, <2>3 DEF Next, ShortOfAClaim
  <1>4. ClaimInv => TypeOK
    BY DEF ClaimInv
  <1>5. QED
    BY <1>1, <1>2, <1>3, <1>4, ClaimInvariant, OneReaderPerResource, OnlyReadersSettle, PTL
       DEF Spec, VerifyingStaysQuiet

-----------------------------------------------------------------------------
(***************************************************************************)
(* RetryBudget is an invariant of TaskClaims for every number of attempts.  *)
(* The count runs on across phases, so the bound depends on where a row can *)
(* have come from: the invariant says for each lane which phases it has and *)
(* what a row may have spent when it gets there (Fits).                     *)
(***************************************************************************)

LanePhases(lane) ==
  CASE lane = "download" -> {"none", "pending", "ready", "submitted", "tracking", "blocked"}
    [] lane = "archive"  -> {"none", "ready", "verifying", "blocked"}
    [] OTHER             -> {"none", "manifest", "extract", "upload", "blocked"}

\* A prepared download has an attempt left for its submission, an archive that
\* went back to "ready" may have none: its next failure blocks it.
Fits(lane, row) ==
  /\ row.phase \in LanePhases(lane)
  /\ row.phase \notin {"blocked", "none"} => row.attempts <= MaxAttempts
  /\ row.phase \in {"verifying", "manifest", "extract", "upload"} => row.attempts < MaxAttempts
  /\ lane = "download" /\ row.phase = "ready" => row.attempts < MaxAttempts

BudgetInv == \A t \in TaskId : Fits(Lane(t), tasks[t])

\* What every write does that spends no more than it may.
BudgetShape == \A t \in TaskId : tasks'[t] = tasks[t] \/ Fits(Lane(t), tasks'[t])

-----------------------------------------------------------------------------
\* Rows.

LEMMA Lanes ==
  ASSUME NEW t \in TaskId
  PROVE  Lane(t) \in {"download", "archive", "media"}
  BY DEF TaskId, Lane

\* A row with no attempts spent fits wherever its phase does.
LEMMA FreshFits ==
  ASSUME NEW lane, NEW p \in LanePhases(lane), NEW r, NEW n
  PROVE  Fits(lane, FreeRow(p, r, n, 0))
  BY BoundsAssumption DEF Fits, FreeRow, BoundsAssumption

LEMMA AbsentFits ==
  ASSUME NEW t \in TaskId
  PROVE  Fits(Lane(t), NoRow(t))
  <1>1. "none" \in LanePhases(Lane(t))
    BY DEF LanePhases
  <1> QED
    BY <1>1, FreshFits DEF NoRow

\* Rewriting one row.
LEMMA OneRow ==
  ASSUME TypeOK, NEW t \in TaskId, NEW row, Fits(Lane(t), row),
         tasks' = [tasks EXCEPT ![t] = row]
  PROVE  BudgetShape
  BY DEF TypeOK, BudgetShape

-----------------------------------------------------------------------------
\* The writes of a worker.

LEMMA SettleStepBudget ==
  ASSUME TypeOK, BudgetInv, NEW w \in Worker, SettleStep(w)
  PROVE  BudgetShape
  <1> DEFINE t == held[w].id
             row == tasks[t]
  <1>1. Holding(w)
    BY DEF SettleStep, Transition, Ready, Submitting, DeferDependency, Retry,
           Finish, ArchiveStillPresent, CompleteArchive
  <1>2. /\ t \in TaskId /\ Lane(t) \in {"download", "archive", "media"}
        /\ row.attempts \in Nat /\ Fits(Lane(t), row)
        /\ MaxAttempts \in Nat \ {0}
    BY <1>1, HeldRow, Lanes, BoundsAssumption DEF BudgetInv, BoundsAssumption
  <1>3. ASSUME NEW r, Settle(w, r), Fits(Lane(t), r) PROVE BudgetShape
    BY <1>2, <1>3, OneRow DEF Settle
  <1>4. CASE Transition(w)
    <2>1. PICK p \in Phase : /\ <<Lane(t), row.phase, p>> \in Move
                             /\ Settle(w, Restart(row, p, row.res))
      BY <1>4 DEF Transition
    <2>2. p \in LanePhases(Lane(t))
      BY <2>1 DEF Move, LanePhases
    <2> QED
      BY <1>3, <2>1, <2>2, FreshFits DEF Restart
  <1>5. CASE Ready(w)
    <2>1. PICK h \in Hash : Settle(w, Restart(row, "ready", TorrentResource(h)))
      BY <1>5 DEF Ready
    <2>2. "ready" \in LanePhases(Lane(t))
      BY <1>5 DEF Ready, LanePhases
    <2> QED
      BY <1>3, <2>1, <2>2, FreshFits DEF Restart
  <1>6. CASE Submitting(w)
    <2>1. Settle(w, FreeRow("submitted", row.res, row.revision + 1, row.attempts + 1))
      BY <1>6 DEF Submitting
    <2>2. Lane(t) = "download" /\ row.phase = "ready"
      BY <1>6 DEF Submitting
    <2>3. row.attempts + 1 <= MaxAttempts
      BY <1>2, <2>2 DEF Fits
    <2>4. Fits(Lane(t), FreeRow("submitted", row.res, row.revision + 1, row.attempts + 1))
      BY <2>2, <2>3 DEF Fits, FreeRow, LanePhases
    <2> QED
      BY <1>3, <2>1, <2>4
  <1>7. CASE DeferDependency(w)
    <2>1. Settle(w, Unclaimed(row))
      BY <1>7 DEF DeferDependency
    <2>2. Fits(Lane(t), Unclaimed(row))
      BY <1>2 DEF Fits, Unclaimed, FreeRow
    <2> QED
      BY <1>3, <2>1, <2>2
  <1>8. CASE Retry(w)
    <2> DEFINE p == IF Exhausted(row.attempts + 1) THEN "blocked" ELSE row.phase
    <2>1. Settle(w, FreeRow(p, row.res, row.revision, row.attempts + 1))
      BY <1>8 DEF Retry
    <2>2. p \in LanePhases(Lane(t))
      BY <1>2 DEF Fits, LanePhases
    <2>3. p # "blocked" => row.attempts + 1 < MaxAttempts
      BY <1>2 DEF Exhausted
    <2>4. Fits(Lane(t), FreeRow(p, row.res, row.revision, row.attempts + 1))
      <3> HIDE DEF p
      <3> QED
        BY <1>2, <2>2, <2>3 DEF Fits, FreeRow
    <2> QED
      BY <1>3, <2>1, <2>4
  <1>9. CASE Finish(w)
    BY <1>2, <1>3, <1>9, AbsentFits DEF Finish
  <1>10. CASE ArchiveStillPresent(w)
    <2>1. PICK p \in {"ready", "blocked"} :
            Settle(w, FreeRow(p, row.res, row.revision, row.attempts + 1))
      BY <1>10 DEF ArchiveStillPresent
    <2>2. row.phase = "verifying"
      BY <1>10 DEF ArchiveStillPresent
    <2>3. Lane(t) = "archive" /\ row.attempts + 1 <= MaxAttempts
      BY <1>2, <2>2 DEF Fits, LanePhases
    <2>4. Fits(Lane(t), FreeRow(p, row.res, row.revision, row.attempts + 1))
      BY <2>3 DEF Fits, FreeRow, LanePhases
    <2> QED
      BY <1>3, <2>1, <2>4
  <1>11. CASE CompleteArchive(w)
    <2> DEFINE m == <<"media", t[2]>>
    <2>1. m \in TaskId /\ m # t /\ Lane(m) = "media"
      BY <1>2, <1>11 DEF CompleteArchive, TaskId, Lane
    <2>2. PICK r \in AfterArchive(m) :
            tasks' = [tasks EXCEPT ![t] = NoRow(t), ![m] = r]
      BY <1>11 DEF CompleteArchive
    <2> HIDE DEF m, t, row
    <2>3. "extract" \in LanePhases(Lane(m))
      BY <2>1 DEF LanePhases
    <2>4. /\ Fits(Lane(m), Restart(tasks[m], "extract", tasks[m].res))
          /\ Fits(Lane(m), NewRow(m, "extract"))
      BY <2>3, FreshFits DEF Restart, NewRow
    <2>5. r = tasks[m] \/ Fits(Lane(m), r)
      BY <2>2, <2>4 DEF AfterArchive
    <2>6. /\ tasks'[t] = NoRow(t) /\ tasks'[m] = r
          /\ \A s \in TaskId : s # t /\ s # m => tasks'[s] = tasks[s]
      BY <1>2, <2>1, <2>2 DEF TypeOK
    <2>7. Fits(Lane(t), NoRow(t))
      BY <1>2, AbsentFits
    <2> QED
      BY <2>5, <2>6, <2>7 DEF BudgetShape
  <1> QED
    BY <1>4, <1>5, <1>6, <1>7, <1>8, <1>9, <1>10, <1>11 DEF SettleStep

-----------------------------------------------------------------------------
\* The writes without a claim.

\* ReconcileDownload moves a row on with what it has spent.
LEMMA ReconcileBudget ==
  ASSUME TypeOK, BudgetInv, NEW t \in TaskId, ReconcileDownload(t)
  PROVE  BudgetShape
  <1> DEFINE row == tasks[t]
  <1>1. Fits(Lane(t), row) /\ Lane(t) = "download" /\ row \in Row
    BY DEF BudgetInv, ReconcileDownload, TypeOK
  <1>2. CASE tasks' = [tasks EXCEPT ![t] = NoRow(t)]
    BY <1>2, AbsentFits, OneRow
  <1>3. CASE /\ row.phase \in {"ready", "submitted", "tracking"}
             /\ tasks' = [tasks EXCEPT ![t] = Moved(@, "tracking", @.res)]
    <2>1. Fits(Lane(t), Moved(row, "tracking", row.res))
      BY <1>1, <1>3 DEF Fits, Moved, LanePhases
    <2> QED
      BY <1>3, <2>1, OneRow
  <1>4. CASE /\ row.phase = "submitted"
             /\ \E p \in {"pending", "blocked"} :
                  tasks' = [tasks EXCEPT ![t] = Moved(@, p, Home(t))]
    <2>1. PICK p \in {"pending", "blocked"} :
            tasks' = [tasks EXCEPT ![t] = Moved(@, p, Home(t))]
      BY <1>4
    <2>2. Fits(Lane(t), Moved(row, p, Home(t)))
      BY <1>1, <1>4 DEF Fits, Moved, LanePhases
    <2> QED
      BY <2>1, <2>2, OneRow
  <1>5. CASE tasks' = [tasks EXCEPT ![t].phase = "blocked"]
    <2>1. Fits(Lane(t), [row EXCEPT !.phase = "blocked"])
      BY <1>1 DEF Fits, LanePhases, Row
    <2> QED
      BY <1>5, <2>1, OneRow
  <1> QED
    BY <1>2, <1>3, <1>4, <1>5 DEF ReconcileDownload

\* Everything else starts a row afresh, or deletes it.
LEMMA FreeStepBudget ==
  ASSUME TypeOK, BudgetInv, NEW t \in TaskId, FreeStep(t)
  PROVE  BudgetShape
  <1>1. Lane(t) \in {"download", "archive", "media"}
    BY Lanes
  <1>2. CASE SourceCorrection(t)
    <2>1. PICK row : tasks' = [tasks EXCEPT ![t] = Restart(row, "pending", Home(t))]
      BY <1>2 DEF SourceCorrection
    <2>2. "pending" \in LanePhases(Lane(t))
      BY <1>2 DEF SourceCorrection, LanePhases
    <2> QED
      BY <2>1, <2>2, FreshFits, OneRow DEF Restart
  <1>3. CASE Enqueue(t)
    <2>1. PICK p \in LanePhases(Lane(t)) : tasks' = [tasks EXCEPT ![t] = NewRow(t, p)]
      BY <1>3 DEF Enqueue, LanePhases
    <2> QED
      BY <2>1, FreshFits, OneRow DEF NewRow
  <1>4. CASE PathChange(t)
    <2>1. tasks' = [tasks EXCEPT ![t] = Restart(tasks[t], "manifest", tasks[t].res)]
      BY <1>4 DEF PathChange
    <2>2. "manifest" \in LanePhases(Lane(t))
      BY <1>4 DEF PathChange, LanePhases
    <2> QED
      BY <2>1, <2>2, FreshFits, OneRow DEF Restart
  <1>5. CASE ReconcileDownload(t)
    BY <1>5, ReconcileBudget
  <1>6. CASE OperatorRetry(t)
    <2>1. PICK p \in IF tasks[t].phase = "blocked" THEN Unblocked(t) ELSE {tasks[t].phase} :
            tasks' = [tasks EXCEPT ![t] = Restart(tasks[t], p, tasks[t].res)]
      BY <1>6 DEF OperatorRetry
    <2>2. Unblocked(t) \subseteq LanePhases(Lane(t))
      BY <1>1 DEF Unblocked, LanePhases
    <2>3. p \in LanePhases(Lane(t))
      BY <2>1, <2>2 DEF BudgetInv, Fits
    <2> QED
      BY <2>1, <2>3, FreshFits, OneRow DEF Restart
  <1>7. CASE OperatorCancel(t)
    BY <1>7, AbsentFits, OneRow DEF OperatorCancel
  <1>8. CASE OperatorReplay(t)
    <2>1. "pending" \in LanePhases(Lane(t))
      BY <1>8 DEF OperatorReplay, LanePhases
    <2> QED
      BY <1>8, <2>1, FreshFits, OneRow DEF OperatorReplay, NewRow
  <1> QED
    BY <1>2, <1>3, <1>4, <1>5, <1>6, <1>7, <1>8 DEF FreeStep

\* A claim, and a restart of the process, leave phase and count alone.
LEMMA OtherBudget ==
  ASSUME TypeOK, BudgetInv,
         \/ \E w \in Worker, t \in TaskId : Claim(w, t)
         \/ \E w \in Worker : Abandon(w)
         \/ DropArchives \/ Tick \/ Crash \/ Recover
  PROVE  BudgetShape
  <1>1. ASSUME NEW w \in Worker, NEW t \in TaskId, Claim(w, t)
        PROVE  BudgetShape
    <2> DEFINE row == [tasks[t] EXCEPT !.token = issued + 1, !.lease = now + TTL[w]]
    <2>1. tasks' = [tasks EXCEPT ![t] = row]
      BY <1>1 DEF Claim
    <2>2. tasks[t] \in Row /\ Fits(Lane(t), tasks[t])
      BY DEF TypeOK, BudgetInv
    <2>3. Fits(Lane(t), row)
      BY <2>2 DEF Fits, Row
    <2> QED
      BY <2>1, <2>3, OneRow
  <1>2. CASE DropArchives
    BY <1>2, AbsentFits DEF DropArchives, BudgetShape
  <1>3. CASE Recover
    BY <1>3 DEF Recover, BudgetShape, BudgetInv, Fits, Unclaimed, FreeRow
  <1>4. CASE (\E w \in Worker : Abandon(w)) \/ Tick \/ Crash
    BY <1>4 DEF Abandon, Tick, Crash, BudgetShape
  <1> QED
    BY <1>1, <1>2, <1>3, <1>4

-----------------------------------------------------------------------------
\* The theorem.

\* A task that can still be tried has an attempt left, and none spends more than
\* MaxAttempts without an operator.
THEOREM AttemptsAreBounded == Spec => []RetryBudget
  <1>1. Init => BudgetInv
    BY AbsentFits DEF Init, BudgetInv
  <1>2. TypeOK /\ BudgetInv /\ [Next]_vars => BudgetInv'
    <2> SUFFICES ASSUME TypeOK, BudgetInv, [Next]_vars PROVE BudgetInv'
      OBVIOUS
    <2>1. BudgetShape
      <3>1. CASE UNCHANGED vars
        BY <3>1 DEF vars, BudgetShape
      <3>2. CASE Next
        BY <3>2, SettleStepBudget, FreeStepBudget, OtherBudget DEF Next
      <3> QED
        BY <3>1, <3>2
    <2> QED
      BY <2>1 DEF BudgetShape, BudgetInv
  <1>3. BudgetInv => RetryBudget
    BY DEF BudgetInv, RetryBudget, Fits
  <1>4. ClaimInv => TypeOK
    BY DEF ClaimInv
  <1> QED
    BY <1>1, <1>2, <1>3, <1>4, ClaimInvariant, PTL DEF Spec

=============================================================================
