------------------------ MODULE SeedingQueueProofs ------------------------
(***************************************************************************)
(* FullExposure is an invariant of SeedingQueue, for every set of torrents  *)
(* and all limits.  It is not inductive: that a turn is over says something *)
(* of the table exposures, and the invariant says something of qB.  Between *)
(* them stand HonestRows (no row is older than the run it records), that a  *)
(* plan starts only what no row takes to be running, and that the rows      *)
(* follow the last snapshot.                                                *)
(***************************************************************************)
EXTENDS SeedingQueue, FiniteSetTheorems, TLAPS

RowType == [started : BOOLEAN, last : Nat, age : Nat]

WellTyped ==
  /\ exposure \in [Torrent -> RowType]
  /\ elapsed \in Nat
  /\ qb \in [Torrent -> State]
  /\ ran \in [Torrent -> Nat]

\* A row in use is no older, by the next snapshot, than its torrent's run.
HonestRows ==
  \A t \in Torrent : exposure[t].started /\ qb[t] \in Running
                       => Least(exposure[t].age + elapsed, Exposure) <= ran[t]

\* What the last snapshot of this process showed is what the rows say.
RowsFollow ==
  /\ \A t \in Torrent : prev[t] # "unknown" /\ exposure[t].started => prev[t] = "active"
  /\ ctl.pc = "seen" => \A t \in Torrent : exposure[t].started => ctl.snap[t] = "active"
  /\ ctl.pc = "send" => /\ \A t \in ctl.start : t \in Torrent => ~exposure[t].started
                        /\ \A t \in ctl.turn : t \in Torrent /\ Exposed(t)

RotationInv == WellTyped /\ HonestRows /\ RowsFollow

-----------------------------------------------------------------------------
\* A plan stops for a turn only what is exposed, and starts only what is stopped.
LEMMA PlanIsFair ==
  ASSUME PlanQueue
  PROVE  /\ ctl.pc = "seen" /\ ctl'.pc = "send"
         /\ \A t \in ctl'.turn : t \in Torrent /\ Exposed(t)
         /\ ctl'.start \subseteq Waiting
         /\ UNCHANGED <<outside, exposure, elapsed, prev, rested, faults>>
  <1>1. PICK hot, surplus, fill, turn, next, left :
          /\ hot \in Firsts(Waiting \cap ctl.wanted, Batch)
          /\ fill \in Firsts(Waiting \ hot, Room(Seen({"active"}), Seen({"reserved"}), hot, surplus))
          /\ turn \in Firsts(Due(surplus), Turns(surplus, hot \cup fill))
          /\ next \in Firsts(Waiting \ (hot \cup fill), Turns(surplus, hot \cup fill))
          /\ ctl' = [pc |-> "send", left |-> left, rotate |-> rested, surplus |-> surplus,
                     turn |-> turn, start |-> hot \cup fill \cup next]
    BY ZenonT(30) DEF PlanQueue
  <1>2. hot \subseteq Waiting /\ fill \subseteq Waiting /\ next \subseteq Waiting
    BY <1>1 DEF Firsts
  <1>3. turn \subseteq Due(surplus)
    BY <1>1 DEF Firsts
  <1>4. ctl'.pc = "send" /\ ctl'.turn = turn /\ ctl'.start = hot \cup fill \cup next
    BY <1>1
  <1> QED
    BY <1>2, <1>3, <1>4 DEF PlanQueue, Due, Cold, Seen, In

\* Ranking the rows changes neither who is running nor for how long.
LEMMA RankingKeepsRuns ==
  ASSUME NEW rows \in [Torrent -> RowType]
  PROVE  /\ Ranked(rows) \in [Torrent -> RowType]
         /\ \A t \in Torrent : /\ Ranked(rows)[t].started = rows[t].started
                               /\ Ranked(rows)[t].age = rows[t].age
  <1> DEFINE Below(t) == {rows[u].last : u \in Torrent} \cap 1..rows[t].last
  <1>1. ASSUME NEW t \in Torrent PROVE Cardinality(Below(t)) \in Nat
    <2>1. IsFiniteSet(1..rows[t].last)
      BY FS_Interval DEF RowType
    <2>2. IsFiniteSet(Below(t))
      BY <2>1, FS_Subset
    <2> QED
      BY <2>2, FS_CardinalityType
  <1>2. ASSUME NEW t \in Torrent
        PROVE  Ranked(rows)[t] = [rows[t] EXCEPT !.last = Cardinality(Below(t))]
    BY DEF Ranked
  <1> HIDE DEF Below
  <1>3. ASSUME NEW t \in Torrent
        PROVE  /\ Ranked(rows)[t] \in RowType
               /\ Ranked(rows)[t].started = rows[t].started
               /\ Ranked(rows)[t].age = rows[t].age
    BY <1>1, <1>2 DEF RowType
  <1>4. Ranked(rows) = [t \in Torrent |-> Ranked(rows)[t]]
    BY DEF Ranked
  <1> QED
    BY <1>3, <1>4

\* What Observe writes into a row.
LEMMA ObservedRow ==
  ASSUME WellTyped, QueueAssumption, NEW t \in Torrent
  PROVE  /\ Observed(t) \in RowType
         /\ Observed(t).started =>
              \/ Observed(t).age = 0 /\ qb[t] = "active"
              \/ /\ exposure[t].started
                 /\ Observed(t).age = Least(exposure[t].age + elapsed, Exposure)
                 /\ qb[t] = "active" \/ prev[t] = "absent" \/ ~Changed(t)
  <1>1. Newest \in Nat
    BY FS_CardinalityType DEF Newest, QueueAssumption
  <1>2. exposure[t] \in RowType /\ elapsed \in Nat /\ Exposure \in Nat /\ qb[t] \in State
    BY DEF WellTyped, QueueAssumption
  <1>3. /\ Older(exposure[t]) \in RowType
        /\ Older(exposure[t]).started <=> exposure[t].started
        /\ exposure[t].started => Older(exposure[t]).age = Least(exposure[t].age + elapsed, Exposure)
    BY <1>2 DEF Older, RowType, Least
  <1>4. NeverSeen \in RowType /\ ~NeverSeen.started
    BY DEF NeverSeen, RowType
  <1>5. CASE qb[t] = "absent" /\ prev[t] # "absent"
    BY <1>4, <1>5 DEF Observed
  <1>6. CASE qb[t] # "absent" /\ Changed(t)
    <2>1. Observed(t) = Upsert(exposure[t], qb[t] = "active")
      BY <1>6, Zenon DEF Observed
    <2>2. CASE qb[t] = "active" /\ exposure[t].started
      <3>1. Observed(t) = Older(exposure[t])
        BY <2>1, <2>2, Zenon DEF Upsert
      <3> QED
        BY <1>3, <2>2, <3>1, Zenon
    <2>3. CASE qb[t] = "active" /\ ~exposure[t].started
      <3>1. Observed(t) = [started |-> TRUE, last |-> Newest, age |-> 0]
        BY <2>1, <2>3, Zenon DEF Upsert
      <3> QED
        BY <1>1, <2>3, <3>1 DEF RowType
    <2>4. CASE qb[t] # "active"
      <3>1. Observed(t) = [started |-> FALSE, last |-> exposure[t].last, age |-> 0]
        BY <2>1, <2>4, Zenon DEF Upsert
      <3> QED
        BY <1>2, <3>1 DEF RowType
    <2> QED
      BY <2>2, <2>3, <2>4
  <1>7. CASE /\ ~(qb[t] = "absent" /\ prev[t] # "absent")
             /\ ~(qb[t] # "absent" /\ Changed(t))
    <2>1. Observed(t) = Older(exposure[t])
      BY <1>7 DEF Observed
    <2>2. ~Changed(t) \/ prev[t] = "absent"
      BY <1>7
    <2> QED
      BY <1>3, <2>1, <2>2, Zenon
  <1> QED
    BY <1>5, <1>6, <1>7

-----------------------------------------------------------------------------
\* The invariant holds at first, and every step keeps it.

LEMMA InitRotation ==
  ASSUME QueueAssumption, Init
  PROVE  RotationInv
  <1>1. WellTyped
    BY DEF Init, WellTyped, RowType, NeverSeen, State
  <1>2. HonestRows
    BY DEF Init, HonestRows, NeverSeen
  <1>3. RowsFollow
    BY DEF Init, RowsFollow, NeverSeen, Idle
  <1> QED
    BY <1>1, <1>2, <1>3 DEF RotationInv

\* A new snapshot: rows age, and are new where a run was seen to begin.
LEMMA ObserveKeeps ==
  ASSUME QueueAssumption, RotationInv, Observe
  PROVE  RotationInv'
  <1> DEFINE rows == [t \in Torrent |-> Observed(t)]
  <1>1. rows \in [Torrent -> RowType] /\ exposure' = Ranked(rows)
    BY ObservedRow DEF RotationInv, Observe
  <1>2. /\ exposure' \in [Torrent -> RowType]
        /\ \A t \in Torrent : /\ exposure'[t].started = Observed(t).started
                              /\ exposure'[t].age = Observed(t).age
    <2> HIDE DEF rows
    <2>1. /\ exposure' \in [Torrent -> RowType]
          /\ \A t \in Torrent : /\ exposure'[t].started = rows[t].started
                                /\ exposure'[t].age = rows[t].age
      BY <1>1, RankingKeepsRuns
    <2> QED
      BY <2>1 DEF rows
  <1>3. WellTyped'
    BY <1>2 DEF RotationInv, WellTyped, Observe, outside
  <1>4. HonestRows'
    <2> SUFFICES ASSUME NEW t \in Torrent, exposure'[t].started, qb[t] \in Running
                 PROVE  Least(exposure'[t].age + 0, Exposure) <= ran[t]
      BY DEF HonestRows, Observe, outside
    <2>1. \/ exposure'[t].age = 0
          \/ exposure[t].started
             /\ exposure'[t].age = Least(exposure[t].age + elapsed, Exposure)
      BY <1>2, ObservedRow DEF RotationInv
    <2> QED
      BY <2>1 DEF RotationInv, WellTyped, HonestRows, RowType, Least, QueueAssumption
  <1>5. \A t \in Torrent : exposure'[t].started => qb[t] = "active"
    <2> SUFFICES ASSUME NEW t \in Torrent, exposure'[t].started, qb[t] # "active"
                 PROVE  FALSE
      OBVIOUS
    <2>1. exposure[t].started /\ (prev[t] = "absent" \/ ~Changed(t))
      BY <1>2, ObservedRow DEF RotationInv
    <2>2. prev[t] = "unknown" \/ prev[t] = "active"
      BY <2>1 DEF RotationInv, RowsFollow
    <2> QED
      BY <2>1, <2>2 DEF Changed
  <1>6. RowsFollow'
    BY <1>5 DEF Observe, RowsFollow
  <1> QED
    BY <1>3, <1>4, <1>6 DEF RotationInv

\* A plan stops what is exposed and starts what no row takes to be running.
LEMMA PlanKeeps ==
  ASSUME RotationInv, PlanQueue
  PROVE  RotationInv'
  <1>1. WellTyped' /\ HonestRows'
    BY PlanIsFair DEF RotationInv, WellTyped, HonestRows, outside
  <1>2. \A t \in ctl'.start : t \in Torrent => ~exposure'[t].started
    BY PlanIsFair DEF RotationInv, RowsFollow, Waiting, Seen, In
  <1>3. \A t \in ctl'.turn : t \in Torrent /\ Exposed(t)'
    BY PlanIsFair DEF Exposed
  <1>4. RowsFollow'
    BY <1>2, <1>3, PlanIsFair DEF RotationInv, RowsFollow
  <1> QED
    BY <1>1, <1>4 DEF RotationInv

\* The steps that leave the table and the clock alone, and let a run begin only
\* where no row says that the torrent is running.
RunShape ==
  /\ qb' \in [Torrent -> State] /\ ran' \in [Torrent -> Nat]
  /\ \A t \in Torrent :
       qb'[t] \in Running => \/ qb[t] \in Running /\ ran'[t] = ran[t]
                            \/ ~exposure[t].started
  /\ UNCHANGED <<exposure, elapsed>>
  /\ prev' = prev \/ \A t \in Torrent : prev'[t] = "unknown"
  /\ \/ ctl' = ctl
     \/ ctl'.pc = "idle"
     \/ ctl'.pc = "send" /\ ctl.pc = "send" /\ ctl'.start \subseteq ctl.start
          /\ ctl'.turn \subseteq ctl.turn

LEMMA RunShapeKeeps ==
  ASSUME RotationInv, RunShape
  PROVE  RotationInv'
  <1>1. WellTyped'
    BY DEF RotationInv, WellTyped, RunShape
  <1>2. HonestRows'
    BY DEF RotationInv, HonestRows, RunShape
  <1>3. RowsFollow'
    BY DEF RotationInv, RowsFollow, RunShape, Exposed
  <1> QED
    BY <1>1, <1>2, <1>3 DEF RotationInv

\* The requests, whether they are carried out or not.
LEMMA RequestsAreRuns ==
  ASSUME RotationInv, SendStop \/ SendStart
  PROVE  RunShape
  <1> USE DEF Running, State
  <1>1. CASE SendStop
    <2>1. qb' \in {qb, Stopped}
      BY <1>1 DEF SendStop
    <2>2. /\ qb' \in [Torrent -> State]
          /\ \A t \in Torrent : qb'[t] \in Running => qb[t] \in Running
      BY <2>1 DEF Stopped, RotationInv, WellTyped
    <2>3. \/ ctl'.pc = "idle"
          \/ ctl'.pc = "send" /\ ctl'.start = ctl.start /\ ctl'.turn = {}
      BY <1>1 DEF SendStop, Idle
    <2> QED
      BY <1>1, <2>2, <2>3 DEF SendStop, RunShape, RotationInv, WellTyped
  <1>2. CASE SendStart
    <2>1. \/ qb' = qb /\ ran' = ran
          \/ qb' = Started /\ ran' = Restarted
      BY <1>2 DEF SendStart
    <2>2. \A t \in Torrent : t \in ctl.start => ~exposure[t].started
      BY <1>2 DEF SendStart, RotationInv, RowsFollow
    <2>3. /\ qb' \in [Torrent -> State] /\ ran' \in [Torrent -> Nat]
          /\ \A t \in Torrent :
               qb'[t] \in Running => \/ qb[t] \in Running /\ ran'[t] = ran[t]
                                    \/ ~exposure[t].started
      BY <2>1, <2>2 DEF Started, Restarted, RotationInv, WellTyped
    <2> QED
      BY <1>2, <2>3 DEF SendStart, RunShape, Idle
  <1> QED
    BY <1>1, <1>2

\* What others do to qB.
LEMMA ChangesAreRuns ==
  ASSUME RotationInv, NEW t \in Torrent,
         Demand(t) \/ ByHand(t) \/ Archive(t) \/ ArchiveEnds(t)
  PROVE  RunShape
  <1> USE DEF Running, State
  <1>1. CASE Demand(t) \/ Archive(t)
    BY <1>1 DEF Demand, Archive, Change, RunShape, RotationInv, WellTyped
  <1>2. CASE ByHand(t)
    <2>1. PICK to \in Moves(qb[t]) :
            /\ to = "active" => ~Unseen(t)
            /\ qb' = [qb EXCEPT ![t] = to]
            /\ ran' = [ran EXCEPT ![t] = IF qb[t] \in Running THEN @ ELSE 0]
      BY <1>2 DEF ByHand
    <2>2. to \in State /\ (to = "reserved" => qb[t] = "active")
      BY DEF Moves, RotationInv, WellTyped
    <2>3. /\ qb' \in [Torrent -> State] /\ ran' \in [Torrent -> Nat]
      BY <2>1, <2>2 DEF RotationInv, WellTyped
    <2>4. ASSUME NEW u \in Torrent, qb'[u] \in Running
          PROVE  \/ qb[u] \in Running /\ ran'[u] = ran[u]
                 \/ ~exposure[u].started
      BY <2>1, <2>2, <2>4 DEF Unseen, RotationInv, WellTyped
    <2> QED
      BY <1>2, <2>3, <2>4 DEF ByHand, Change, RunShape
  <1>3. CASE ArchiveEnds(t)
    BY <1>3 DEF ArchiveEnds, RunShape, RotationInv, WellTyped
  <1> QED
    BY <1>1, <1>2, <1>3

\* Time: the row and the run grow alike.
LEMMA TickKeeps ==
  ASSUME QueueAssumption, RotationInv, Tick
  PROVE  RotationInv'
  <1> USE DEF Least, QueueAssumption, RotationInv
  <1>1. WellTyped'
    BY DEF Tick, WellTyped
  <1>2. HonestRows'
    <2> SUFFICES ASSUME NEW t \in Torrent, exposure[t].started, qb[t] \in Running
                 PROVE  Least(exposure[t].age + elapsed', Exposure) <= ran'[t]
      BY DEF Tick, HonestRows
    <2>1. Least(exposure[t].age + elapsed, Exposure) <= ran[t]
      BY DEF HonestRows
    <2>2. ran'[t] = Least(ran[t] + 1, Exposure) /\ elapsed' = Least(elapsed + 1, Exposure)
      BY DEF Tick
    <2>3. exposure[t].age \in Nat /\ elapsed \in Nat /\ ran[t] \in Nat
      BY DEF WellTyped, RowType
    <2> QED
      BY <2>1, <2>2, <2>3
  <1>3. RowsFollow'
    BY DEF Tick, RowsFollow, Exposed
  <1> QED
    BY <1>1, <1>2, <1>3

LEMMA StepRotation ==
  ASSUME QueueAssumption, RotationInv, [Next]_vars
  PROVE  RotationInv'
  <1>1. CASE Observe
    BY <1>1, ObserveKeeps
  <1>2. CASE PlanQueue
    BY <1>2, PlanKeeps
  <1>3. CASE SendStop \/ SendStart
    BY <1>3, RequestsAreRuns, RunShapeKeeps
  <1>4. CASE EndCycle \/ CutCycle \/ Restart \/ Rest
    <2>1. RunShape
      BY <1>4 DEF EndCycle, CutCycle, Restart, Rest, RunShape, Idle, outside, RotationInv,
                  WellTyped
    <2> QED
      BY <2>1, RunShapeKeeps
  <1>5. CASE Tick
    BY <1>5, TickKeeps
  <1>6. CASE \E t \in Torrent : Demand(t) \/ ByHand(t) \/ Archive(t) \/ ArchiveEnds(t)
    BY <1>6, ChangesAreRuns, RunShapeKeeps
  <1>7. CASE UNCHANGED vars
    <2>1. RunShape
      BY <1>7 DEF vars, RunShape, RotationInv, WellTyped
    <2> QED
      BY <2>1, RunShapeKeeps
  <1> QED
    BY <1>1, <1>2, <1>3, <1>4, <1>5, <1>6, <1>7 DEF Next

\* The rows never run ahead of qB: no torrent is taken to have run for longer than
\* it has (observe.go:57).
THEOREM RowsNeverRunAhead == Spec => []RotationInv
  <1>1. Init => RotationInv
    BY InitRotation, QueueAssumption
  <1>2. RotationInv /\ [Next]_vars => RotationInv'
    BY StepRotation, QueueAssumption
  <1> QED
    BY <1>1, <1>2, PTL DEF Spec

\* A torrent whose turn is over has had all of its exposure.
THEOREM TurnsAreFull == Spec => []FullExposure
  <1>1. RotationInv => FullExposure
    <2> SUFFICES ASSUME RotationInv, ctl.pc = "send",
                        NEW t \in ctl.turn, qb[t] \in Running
                 PROVE  ran[t] >= Exposure
      BY DEF FullExposure
    <2>1. t \in Torrent /\ exposure[t].started /\ exposure[t].age >= Exposure
      BY DEF RotationInv, RowsFollow, Exposed
    <2>2. Least(exposure[t].age + elapsed, Exposure) <= ran[t]
      BY <2>1 DEF RotationInv, HonestRows
    <2>3. exposure[t].age \in Nat /\ elapsed \in Nat /\ ran[t] \in Nat
      BY <2>1 DEF RotationInv, WellTyped, RowType
    <2> QED
      BY <2>1, <2>2, <2>3, QueueAssumption DEF Least, QueueAssumption
  <1> QED
    BY <1>1, RowsNeverRunAhead, PTL

-----------------------------------------------------------------------------
\* The values of the queue, and how many torrents one command may name.

LEMMA TorrentsFinite ==
  ASSUME NEW S \in SUBSET Torrent
  PROVE  IsFiniteSet(S) /\ Cardinality(S) \in Nat
  BY FS_Subset, FS_CardinalityType, QueueAssumption DEF QueueAssumption

\* A choice is no larger than it may be.
LEMMA FirstsBounded ==
  ASSUME NEW S \in SUBSET Torrent, NEW n \in Int, NEW F \in Firsts(S, n)
  PROVE  F \subseteq S /\ Cardinality(F) \in Nat /\ Cardinality(F) <= AtLeast0(n)
  <1>1. F \subseteq S /\ Cardinality(F) = Least(AtLeast0(n), Cardinality(S))
    BY DEF Firsts
  <1>2. Cardinality(S) \in Nat
    BY TorrentsFinite
  <1> QED
    BY <1>1, <1>2 DEF Least, AtLeast0

LEMMA UnionBounded ==
  ASSUME NEW S \in SUBSET Torrent, NEW T \in SUBSET Torrent
  PROVE  /\ Cardinality(S \cup T) \in Nat
         /\ Cardinality(S \cup T) <= Cardinality(S) + Cardinality(T)
  <1>1. /\ IsFiniteSet(S) /\ IsFiniteSet(T)
        /\ Cardinality(S) \in Nat /\ Cardinality(T) \in Nat
        /\ Cardinality(S \cap T) \in Nat /\ Cardinality(S \cup T) \in Nat
    BY TorrentsFinite
  <1>2. Cardinality(S \cup T) = Cardinality(S) + Cardinality(T) - Cardinality(S \cap T)
    BY <1>1, FS_Union, Zenon
  <1> QED
    BY <1>1, <1>2

\* There are not more ranks than torrents.
LEMMA RanksBounded ==
  ASSUME NEW rows \in [Torrent -> RowType], NEW t \in Torrent
  PROVE  Ranked(rows)[t].last \in 0..Cardinality(Torrent)
  <1> DEFINE stamp == [u \in Torrent |-> rows[u].last]
             stamps == {rows[u].last : u \in Torrent}
             below == stamps \cap 1..rows[t].last
  <1>1. stamp \in Surjection(Torrent, stamps)
    BY DEF Surjection
  <1>2. IsFiniteSet(Torrent) /\ Cardinality(Torrent) \in Nat
    BY TorrentsFinite
  <1>3. IsFiniteSet(stamps) /\ Cardinality(stamps) <= Cardinality(Torrent)
    <2> HIDE DEF stamp, stamps
    <2> QED
      BY <1>1, <1>2, FS_Surjection
  <1>4. /\ Cardinality(stamps) \in Nat /\ Cardinality(below) \in Nat
        /\ Cardinality(below) <= Cardinality(stamps)
    <2> HIDE DEF stamps
    <2>1. IsFiniteSet(below) /\ Cardinality(below) <= Cardinality(stamps)
      BY <1>3, FS_Intersection
    <2> QED
      BY <1>3, <2>1, FS_CardinalityType
  <1>5. Ranked(rows)[t] = [rows[t] EXCEPT !.last = Cardinality(below)]
    BY DEF Ranked
  <1> HIDE DEF below, stamps
  <1>6. Ranked(rows)[t].last = Cardinality(below)
    BY <1>5 DEF RowType
  <1> QED
    BY <1>2, <1>3, <1>4, <1>6

\* Neither command of a plan names more than POOL_BATCH torrents.
LEMMA PlanIsBounded ==
  ASSUME TypeOK, PlanQueue
  PROVE  /\ ctl' \in [pc : {"send"}, left : 0..2, rotate : BOOLEAN, surplus : SUBSET Torrent,
                      turn : SUBSET Torrent, start : SUBSET Torrent]
         /\ Cardinality(ctl'.surplus \cup ctl'.turn) <= Batch
         /\ Cardinality(ctl'.start) <= Batch
  <1> USE QueueAssumption DEF QueueAssumption
  <1>1. PICK hot, surplus, fill, turn, next, left :
          /\ hot \in Firsts(Waiting \cap ctl.wanted, Batch)
          /\ surplus \in Firsts(Cold, Least(Excess(Seen({"active"}), Seen({"reserved"}), hot), Batch))
          /\ fill \in Firsts(Waiting \ hot, Room(Seen({"active"}), Seen({"reserved"}), hot, surplus))
          /\ turn \in Firsts(Due(surplus), Turns(surplus, hot \cup fill))
          /\ next \in Firsts(Waiting \ (hot \cup fill), Turns(surplus, hot \cup fill))
          /\ left \in 1..2
          /\ ctl' = [pc |-> "send", left |-> left, rotate |-> rested, surplus |-> surplus,
                     turn |-> turn, start |-> hot \cup fill \cup next]
    BY ZenonT(30) DEF PlanQueue
  <1> DEFINE active == Seen({"active"})
             reserved == Seen({"reserved"})
             started == hot \cup fill
             turns == Turns(surplus, started)
  <1>2. /\ active \subseteq Torrent /\ reserved \subseteq Torrent
        /\ Waiting \subseteq Torrent /\ Cold \subseteq Torrent /\ Due(surplus) \subseteq Torrent
    BY DEF Waiting, Cold, Due, Seen, In
  <1>3. Cardinality(active) \in Nat /\ Cardinality(reserved) \in Nat
    BY <1>2, TorrentsFinite
  <1>4. hot \subseteq Waiting /\ Cardinality(hot) \in Nat /\ Cardinality(hot) <= Batch
    <2>1. /\ hot \subseteq Waiting \cap ctl.wanted /\ Cardinality(hot) \in Nat
          /\ Cardinality(hot) <= AtLeast0(Batch)
      BY <1>1, <1>2, FirstsBounded
    <2> QED
      BY <2>1 DEF AtLeast0
  <1>5. surplus \subseteq Cold /\ Cardinality(surplus) \in Nat /\ Cardinality(surplus) <= Batch
    <2> DEFINE n == Least(Excess(active, reserved, hot), Batch)
    <2>1. n \in Int /\ n <= Batch
      BY <1>3, <1>4 DEF Excess, Least, AtLeast0
    <2>2. /\ surplus \subseteq Cold /\ Cardinality(surplus) \in Nat
          /\ Cardinality(surplus) <= AtLeast0(n)
      BY <1>1, <1>2, <2>1, FirstsBounded
    <2> HIDE DEF n
    <2> QED
      BY <2>1, <2>2 DEF AtLeast0
  <1>6. /\ fill \subseteq Waiting /\ Cardinality(fill) \in Nat
        /\ Cardinality(fill) <= Batch - Cardinality(hot)
    <2> DEFINE n == Room(active, reserved, hot, surplus)
    <2>1. n \in Int /\ n <= Batch - Cardinality(hot)
      BY <1>3, <1>4, <1>5 DEF Room, Least, AtLeast0
    <2>2. /\ fill \subseteq Waiting \ hot /\ Cardinality(fill) \in Nat
          /\ Cardinality(fill) <= AtLeast0(n)
      <3> Waiting \ hot \in SUBSET Torrent
        BY <1>2
      <3> QED
        BY <1>1, <2>1, FirstsBounded
    <2> HIDE DEF n
    <2> QED
      BY <1>4, <2>1, <2>2 DEF AtLeast0
  <1>7. /\ started \subseteq Waiting /\ Cardinality(started) \in Nat
        /\ Cardinality(started) <= Batch
    <2>1. hot \subseteq Torrent /\ fill \subseteq Torrent
      BY <1>2, <1>4, <1>6
    <2>2. /\ Cardinality(started) \in Nat
          /\ Cardinality(started) <= Cardinality(hot) + Cardinality(fill)
      BY <2>1, UnionBounded
    <2>3. started \subseteq Waiting
      BY <1>4, <1>6
    <2> HIDE DEF started
    <2> QED
      BY <1>4, <1>6, <2>2, <2>3
  <1>8. /\ turns \in Int /\ AtLeast0(turns) <= Batch - Cardinality(started)
        /\ AtLeast0(turns) <= Batch - Cardinality(surplus)
    <2>1. Cardinality(Waiting \ started) \in Nat /\ Cardinality(Due(surplus)) \in Nat
      BY <1>2, TorrentsFinite
    <2> HIDE DEF started
    <2> QED
      BY <1>5, <1>7, <2>1 DEF Turns, Slots, Least, AtLeast0
  <1> HIDE DEF turns
  <1>9. /\ turn \subseteq Due(surplus) /\ Cardinality(turn) \in Nat
        /\ Cardinality(turn) <= AtLeast0(turns)
    BY <1>1, <1>2, <1>8, FirstsBounded DEF turns
  <1>10. /\ next \subseteq Waiting /\ Cardinality(next) \in Nat
         /\ Cardinality(next) <= AtLeast0(turns)
    <2>1. Waiting \ started \in SUBSET Torrent
      BY <1>2
    <2>2. /\ next \subseteq Waiting \ started /\ Cardinality(next) \in Nat
          /\ Cardinality(next) <= AtLeast0(turns)
      BY <1>1, <1>8, <2>1, FirstsBounded DEF turns
    <2> QED
      BY <2>2
  <1>11. AtLeast0(turns) \in Nat
    BY <1>8 DEF AtLeast0
  <1>12. Cardinality(surplus \cup turn) <= Batch
    <2>1. surplus \subseteq Torrent /\ turn \subseteq Torrent
      BY <1>2, <1>5, <1>9
    <2>2. /\ Cardinality(surplus \cup turn) \in Nat
          /\ Cardinality(surplus \cup turn) <= Cardinality(surplus) + Cardinality(turn)
      BY <2>1, UnionBounded
    <2> QED
      BY <1>5, <1>8, <1>9, <1>11, <2>2
  <1>13. Cardinality(started \cup next) <= Batch
    <2>1. started \subseteq Torrent /\ next \subseteq Torrent
      BY <1>2, <1>7, <1>10
    <2>2. /\ Cardinality(started \cup next) \in Nat
          /\ Cardinality(started \cup next) <= Cardinality(started) + Cardinality(next)
      BY <2>1, UnionBounded
    <2> HIDE DEF started
    <2> QED
      BY <1>7, <1>8, <1>10, <1>11, <2>2
  <1>14. /\ surplus \subseteq Torrent /\ turn \subseteq Torrent
         /\ started \cup next \subseteq Torrent /\ rested \in BOOLEAN
    BY <1>2, <1>5, <1>7, <1>9, <1>10 DEF TypeOK
  <1> QED
    BY <1>1, <1>12, <1>13, <1>14

\* What Observe writes into a row is of the type of the table once it is ranked.
LEMMA ObserveTypes ==
  ASSUME TypeOK, Observe
  PROVE  TypeOK'
  <1> USE QueueAssumption DEF QueueAssumption
  <1> DEFINE rows == [t \in Torrent |-> Observed(t)]
  <1>1. WellTyped /\ Cardinality(Torrent) \in Nat
    BY TorrentsFinite DEF TypeOK, WellTyped, RowType, Exposures
  <1>2. ASSUME NEW t \in Torrent
        PROVE  Observed(t).age \in 0..Exposure
    <2>1. exposure[t] \in Exposures /\ elapsed \in 0..Exposure
      BY DEF TypeOK
    <2>2. Older(exposure[t]).age \in 0..Exposure
      BY <2>1 DEF Older, Exposures, Least
    <2>3. NeverSeen.age \in 0..Exposure
      BY DEF NeverSeen
    <2>4. Upsert(exposure[t], qb[t] = "active").age \in 0..Exposure
      BY <2>2 DEF Upsert
    <2> QED
      BY <2>2, <2>3, <2>4 DEF Observed
  <1>3. rows \in [Torrent -> RowType] /\ exposure' = Ranked(rows)
    BY <1>1, ObservedRow DEF Observe
  <1>4. ASSUME NEW t \in Torrent
        PROVE  exposure'[t] \in Exposures
    <2>1. rows[t].age \in 0..Exposure
      BY <1>2
    <2> HIDE DEF rows
    <2>2. /\ exposure'[t] \in RowType /\ exposure'[t].age = rows[t].age
          /\ exposure'[t].last \in 0..Cardinality(Torrent)
      BY <1>3, RankingKeepsRuns, RanksBounded
    <2> QED
      BY <2>1, <2>2 DEF RowType, Exposures
  <1>5. exposure' \in [Torrent -> Exposures]
    <2>1. exposure' = [t \in Torrent |-> exposure'[t]]
      BY <1>3 DEF Ranked
    <2> QED
      BY <1>4, <2>1
  <1> QED
    BY <1>5 DEF Observe, TypeOK, outside, Idle

LEMMA SendStopTypes ==
  ASSUME TypeOK, SendStop
  PROVE  TypeOK'
  <1> USE QueueAssumption DEF QueueAssumption
  <1>1. Stopped \in [Torrent -> State] /\ qb' \in {qb, Stopped}
    BY DEF SendStop, Stopped, TypeOK, State
  <1>2. \/ ctl' = Idle
        \/ /\ ctl' \in [pc : {"send"}, left : 0..2, rotate : BOOLEAN, surplus : SUBSET Torrent,
                        turn : SUBSET Torrent, start : SUBSET Torrent]
           /\ ctl'.surplus \cup ctl'.turn = {} /\ ctl'.start = ctl.start
           /\ Cardinality(ctl.start) <= Batch
    BY DEF SendStop, TypeOK, Idle
  <1>3. Cardinality({}) = 0
    BY FS_EmptySet
  <1>4. /\ wanted \subseteq Torrent /\ archiving \subseteq Torrent
        /\ UNCHANGED <<wanted, archiving, exposure, elapsed, prev, ran, changes>>
        /\ rested' \in BOOLEAN /\ faults' \in 0..MaxFaults
    <2>1. rested' = (rested /\ ~ctl.rotate) \/ rested' = rested
      BY DEF SendStop
    <2>2. rested' \in BOOLEAN
      BY <2>1, Zenon DEF TypeOK
    <2> QED
      BY <2>2 DEF SendStop, TypeOK, Fault
  <1>5. /\ qb' \in [Torrent -> State]
        /\ \/ ctl' = Idle
           \/ /\ ctl' \in [pc : {"send"}, left : 0..2, rotate : BOOLEAN,
                           surplus : SUBSET Torrent, turn : SUBSET Torrent,
                           start : SUBSET Torrent]
              /\ Cardinality(ctl'.surplus \cup ctl'.turn) <= Batch
              /\ Cardinality(ctl'.start) <= Batch
    <2>1. qb' \in [Torrent -> State]
      BY <1>1 DEF TypeOK
    <2>2. 0 <= Batch
      OBVIOUS
    <2> QED
      BY <1>2, <1>3, <2>1, <2>2
  <1> QED
    BY <1>4, <1>5 DEF TypeOK, Stops

LEMMA TypesNext ==
  ASSUME TypeOK, [Next]_vars
  PROVE  TypeOK'
  <1> USE QueueAssumption DEF QueueAssumption
  <1>1. CASE Observe
    BY <1>1, ObserveTypes
  <1>2. CASE PlanQueue
    <2>1. UNCHANGED <<outside, exposure, elapsed, prev, rested, faults>>
      BY <1>2, PlanIsFair
    <2> QED
      BY <1>2, <2>1, PlanIsBounded DEF TypeOK, Stops, outside
  <1>3. CASE SendStop
    BY <1>3, SendStopTypes
  <1>4. CASE SendStart
    <2>1. Started \in [Torrent -> State] /\ Restarted \in [Torrent -> 0..Exposure]
      BY DEF Started, Restarted, TypeOK, State
    <2> QED
      BY <1>4, <2>1 DEF SendStart, TypeOK, Fault
  <1>5. CASE EndCycle
    BY <1>5 DEF EndCycle, outside, TypeOK
  <1>6. CASE CutCycle
    BY <1>6 DEF CutCycle, outside, TypeOK, Fault
  <1>7. CASE Restart
    BY <1>7 DEF Restart, outside, TypeOK, Fault
  <1>8. CASE Tick
    <2>1. elapsed' \in 0..Exposure /\ ran' \in [Torrent -> 0..Exposure]
      BY <1>8 DEF Tick, TypeOK, Least
    <2> QED
      BY <1>8, <2>1 DEF Tick, TypeOK, Stops
  <1>9. CASE Rest
    BY <1>9 DEF Rest, outside, TypeOK, Stops
  <1>10. ASSUME NEW t \in Torrent, Demand(t) \/ Archive(t) \/ ArchiveEnds(t)
         PROVE  TypeOK'
    <2>1. wanted' \subseteq Torrent /\ archiving' \subseteq Torrent
      BY <1>10 DEF Demand, Archive, ArchiveEnds, Change, TypeOK
    <2>2. qb' \in [Torrent -> State] /\ changes' \in 0..MaxChanges
      BY <1>10 DEF Demand, Archive, ArchiveEnds, Change, TypeOK, State
    <2>3. UNCHANGED <<exposure, elapsed, prev, rested, ctl, ran, faults>>
      BY <1>10 DEF Demand, Archive, ArchiveEnds, Change
    <2> QED
      BY <2>1, <2>2, <2>3 DEF TypeOK, Stops
  <1>11. ASSUME NEW t \in Torrent, ByHand(t)
         PROVE  TypeOK'
    <2>1. Moves(qb[t]) \subseteq State
      BY DEF Moves, TypeOK, State
    <2>2. qb' \in [Torrent -> State] /\ ran' \in [Torrent -> 0..Exposure]
      BY <1>11, <2>1 DEF ByHand, TypeOK
    <2> QED
      BY <1>11, <2>2 DEF ByHand, Change, TypeOK, Stops
  <1>12. CASE UNCHANGED vars
    BY <1>12 DEF vars, TypeOK, Stops
  <1> QED
    BY <1>1, <1>2, <1>3, <1>4, <1>5, <1>6, <1>7, <1>8, <1>9, <1>10, <1>11, <1>12 DEF Next

\* The values of the table and of the cycle; and neither the stop nor the start of a
\* plan (PlanQueue) names more than POOL_BATCH torrents, whatever is wanted, in excess,
\* missing and due at once.
THEOREM QueueTypeOK == Spec => []TypeOK
  <1>1. Init => TypeOK
    <2>1. Cardinality(Torrent) \in Nat
      BY TorrentsFinite
    <2> QED
      BY <2>1, QueueAssumption
         DEF QueueAssumption, Init, TypeOK, State, Exposures, NeverSeen, Idle
  <1>2. TypeOK /\ [Next]_vars => TypeOK'
    BY TypesNext
  <1> QED
    BY <1>1, <1>2, PTL DEF Spec

=============================================================================
