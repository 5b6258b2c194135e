---------------------------- MODULE SeedingQueue ----------------------------
(***************************************************************************)
(* The seeding queue: PlanQueue (policy.go) over the snapshots of qB, the  *)
(* exposures that Observe keeps in the database (observe.go), the torrents *)
(* that WithoutArchiving leaves to the archive lane (archive_store.go) and *)
(* the two commands that Cycle sends (controller.go).  qB, its peers and   *)
(* its user go their own way.                                              *)
(*                                                                         *)
(* A time is kept only as far as the code compares it: exposures.last as a *)
(* rank among its values, exposures.started (which is 0 or equals last) as *)
(* a flag with its age, ages up to Exposure.                               *)
(***************************************************************************)
EXTENDS Integers, FiniteSets

CONSTANTS
  Torrent,        \* managed torrents that are, or may come to be, complete
  Target,         \* POOL_TARGET
  Batch,          \* POOL_BATCH
  RotationBatch,  \* ROTATION_BATCH
  Exposure,       \* EXPOSURE, in ticks
  MaxChanges,     \* bounds what qB, its user, peers and the archive lane change
  MaxFaults       \* bounds crashes and failed requests

ASSUME QueueAssumption ==
  /\ IsFiniteSet(Torrent)
  /\ Target \in Nat \ {0} /\ Batch \in Nat /\ RotationBatch \in Nat /\ Exposure \in Nat
  /\ MaxChanges \in Nat /\ MaxFaults \in Nat

VARIABLES
  qb,         \* torrent -> its state in qB
  wanted,     \* the torrents with demand, or completed within HOT
  archiving,  \* the torrents with an archive task that is not blocked
  exposure,   \* the table exposures
  elapsed,    \* ticks since the last snapshot
  prev,       \* Controller.previous: torrent -> state, "unknown" before the first
  rested,     \* ROTATION_INTERVAL has passed since lastRotation
  ctl,        \* the cycle under way
  ran,        \* ghost: torrent -> ticks since it was started in qB
  changes, faults

outside == <<qb, wanted, archiving, ran, changes>>
vars == <<qb, wanted, archiving, exposure, elapsed, prev, rested, ctl, ran, changes, faults>>

-----------------------------------------------------------------------------
\* "active" is uploading or stalledUP, "stopped" stoppedUP or pausedUP, "reserved"
\* a forced, queued, checked or moving torrent; "absent" is also not complete yet.
State == {"absent", "active", "stopped", "reserved"}
Running == {"active", "reserved"}
In(snap, states) == {t \in Torrent : snap[t] \in states}

Least(a, b) == IF a < b THEN a ELSE b
AtLeast0(n) == IF n < 0 THEN 0 ELSE n

NeverSeen == [started |-> FALSE, last |-> 0, age |-> 0]
Idle == [pc |-> "idle"]

Init ==
  /\ qb \in [Torrent -> {"active", "stopped"}]
  /\ wanted = {} /\ archiving = {}
  /\ exposure = [t \in Torrent |-> NeverSeen]
  /\ elapsed = 0
  /\ prev = [t \in Torrent |-> "unknown"]
  /\ rested = TRUE
  /\ ctl = Idle
  /\ ran = [t \in Torrent |-> 0]
  /\ changes = 0 /\ faults = 0

Fault == faults < MaxFaults /\ faults' = faults + 1

-----------------------------------------------------------------------------
\* Observe.

Older(row) == [row EXCEPT !.age = IF row.started THEN Least(@ + elapsed, Exposure) ELSE 0]
Newest == Cardinality(Torrent) + 1

\* Mistakes: a stop is not recorded, a start not dated.
UpsertKeeping(row, active) ==
  IF active /\ ~row.started THEN [started |-> TRUE, last |-> Newest, age |-> 0]
                            ELSE Older(row)
UpsertUndated(row, active) ==
  IF active /\ row.started THEN Older(row) ELSE [started |-> active, last |-> row.last, age |-> 0]
Upsert(row, active) ==
  IF active /\ row.started THEN Older(row)
  ELSE [started |-> active, last |-> IF active THEN Newest ELSE row.last, age |-> 0]

Changed(t) ==
  prev[t] \in {"unknown", "absent"} \/ (prev[t] = "active") # (qb[t] = "active")

Observed(t) ==
  CASE qb[t] = "absent" /\ prev[t] # "absent"  -> NeverSeen
    [] qb[t] # "absent" /\ Changed(t)          -> Upsert(exposure[t], qb[t] = "active")
    [] OTHER                                   -> Older(exposure[t])

\* Ranks without gaps, in the same order.
Ranked(rows) ==
  [t \in Torrent |-> [rows[t] EXCEPT !.last =
     Cardinality({rows[u].last : u \in Torrent} \cap 1..rows[t].last)]]

Observe ==
  /\ ctl.pc = "idle"
  /\ exposure' = Ranked([t \in Torrent |-> Observed(t)])
  /\ prev' = qb /\ elapsed' = 0
  /\ ctl' = [pc |-> "seen", snap |-> qb, wanted |-> wanted]
  /\ UNCHANGED <<outside, rested, faults>>

-----------------------------------------------------------------------------
\* PlanQueue.

\* The choices of n members of S (of all, if there are fewer) that were last
\* started no later than the others.  The order by added_on or hash among equals
\* is left open.  idle is sorted by started, which is last for what is active.
Firsts(S, n) ==
  {F \in SUBSET S : /\ Cardinality(F) = Least(AtLeast0(n), Cardinality(S))
                    /\ \A t \in F, u \in S \ F : exposure[t].last <= exposure[u].last}

Exposed(t) == exposure[t].started /\ exposure[t].age >= Exposure

ExcessByActive(active, reserved, resume) == AtLeast0(Cardinality(active) + Cardinality(resume) - Target)
Excess(active, reserved, resume) ==
  AtLeast0(Cardinality(active) + Cardinality(reserved) + Cardinality(resume) - Target)

\* Room for cold torrents up to the target.
Room(active, reserved, resume, pause) ==
  Least(AtLeast0(Target - Cardinality(active) - Cardinality(reserved)
                   - Cardinality(resume) + Cardinality(pause)),
        Batch - Cardinality(resume))

SlotsUnbounded(pause, resume, remaining) == Least(RotationBatch, Cardinality(remaining))
Slots(pause, resume, remaining) ==
  Least(Least(RotationBatch, Cardinality(remaining)),
        Least(Batch - Cardinality(pause), Batch - Cardinality(resume)))

\* What the snapshot shows of the torrents that the archive lane leaves.
Seen(states) == In(ctl.snap, states) \ archiving
Waiting == Seen({"stopped"})
Cold == Seen({"active"}) \ ctl.wanted
Due(surplus) == {t \in Cold \ surplus : Exposed(t)}

\* How many turns are over, given what is stopped and started anyway.
Turns(surplus, resume) ==
  IF rested THEN Least(AtLeast0(Slots(surplus, resume, Waiting \ resume)),
                       Cardinality(Due(surplus)))
            ELSE 0

\* The plan: start what is wanted (hot), stop what is too much then (surplus), fill
\* the pool, and let those whose turn is over make room for those next in line.
\* left is what the rate commands leave of COMMANDS for the two commands of the
\* queue.
PlanQueue ==
  /\ ctl.pc = "seen"
  /\ \E hot \in Firsts(Waiting \cap ctl.wanted, Batch) :
     \E surplus \in Firsts(Cold, Least(Excess(Seen({"active"}), Seen({"reserved"}), hot), Batch)) :
     \E fill \in Firsts(Waiting \ hot, Room(Seen({"active"}), Seen({"reserved"}), hot, surplus)) :
     \E turn \in Firsts(Due(surplus), Turns(surplus, hot \cup fill)) :
     \E next \in Firsts(Waiting \ (hot \cup fill), Turns(surplus, hot \cup fill)) :
     \E left \in 1..2 :
       ctl' = [pc |-> "send", left |-> left, rotate |-> rested, surplus |-> surplus,
               turn |-> turn, start |-> hot \cup fill \cup next]
  /\ UNCHANGED <<outside, exposure, elapsed, prev, rested, faults>>

Stops == ctl.surplus \cup ctl.turn
Stopped == [t \in Torrent |-> IF t \in Stops /\ qb[t] \in Running THEN "stopped" ELSE qb[t]]
Started == [t \in Torrent |-> IF t \in ctl.start /\ qb[t] = "stopped" THEN "active" ELSE qb[t]]
Restarted == [t \in Torrent |-> IF t \in ctl.start /\ qb[t] = "stopped" THEN 0 ELSE ran[t]]

\* The stop comes first; a failed request, carried out or not, ends the cycle.
SendStop ==
  /\ ctl.pc = "send" /\ Stops # {} /\ ctl.left > 0
  /\ \/ /\ qb' = Stopped
        /\ ctl' = [pc |-> "send", left |-> ctl.left - 1, rotate |-> ctl.rotate,
                   surplus |-> {}, turn |-> {}, start |-> ctl.start]
        /\ rested' = (rested /\ ~ctl.rotate)
        /\ UNCHANGED faults
     \/ /\ Fault /\ qb' \in {qb, Stopped}
        /\ ctl' = Idle /\ UNCHANGED rested
  /\ UNCHANGED <<wanted, archiving, exposure, elapsed, prev, ran, changes>>

SendStart ==
  /\ ctl.pc = "send" /\ Stops = {} /\ ctl.start # {} /\ ctl.left > 0
  /\ \/ qb' = Started /\ ran' = Restarted /\ UNCHANGED faults
     \/ Fault /\ \/ UNCHANGED <<qb, ran>>
                 \/ qb' = Started /\ ran' = Restarted
  /\ ctl' = Idle
  /\ UNCHANGED <<wanted, archiving, exposure, elapsed, prev, rested, changes>>

\* Nothing to send, or COMMANDS requests made: on to the rest of the cycle.
EndCycle ==
  /\ ctl.pc = "send"
  /\ ctl.left = 0 \/ (Stops = {} /\ ctl.start = {})
  /\ ctl' = Idle
  /\ UNCHANGED <<outside, exposure, elapsed, prev, rested, faults>>

\* An earlier step of the cycle fails, or the rate commands, which are sent when a
\* limit changes, leave nothing of COMMANDS.
CutCycle ==
  /\ ctl.pc = "seen" /\ Fault
  /\ ctl' = Idle
  /\ UNCHANGED <<outside, exposure, elapsed, prev, rested>>

\* The process ends and starts again with an empty memory.
Restart ==
  /\ Fault
  /\ ctl' = Idle /\ rested' = TRUE
  /\ prev' = [t \in Torrent |-> "unknown"]
  /\ UNCHANGED <<outside, exposure, elapsed>>

-----------------------------------------------------------------------------
\* Time, and what others do.

Tick ==
  /\ elapsed' = Least(elapsed + 1, Exposure)
  /\ ran' = [t \in Torrent |-> IF qb[t] \in Running THEN Least(ran[t] + 1, Exposure) ELSE ran[t]]
  /\ UNCHANGED <<qb, wanted, archiving, exposure, prev, rested, ctl, changes, faults>>

Rest ==
  /\ ~rested /\ rested' = TRUE
  /\ UNCHANGED <<outside, exposure, elapsed, prev, ctl, faults>>

Change ==
  /\ changes < MaxChanges /\ changes' = changes + 1
  /\ UNCHANGED <<exposure, elapsed, prev, rested, ctl, faults>>

\* Peers come and go; a torrent completes (wanted), or grows older than HOT.
Demand(t) ==
  /\ Change
  /\ wanted' = IF t \in wanted THEN wanted \ {t} ELSE wanted \cup {t}
  /\ UNCHANGED <<qb, archiving, ran>>

\* qB's user, or qB itself, stops, removes, queues or checks a torrent, starts or
\* completes one.  What was stopped or removed so is not started so again before
\* the worker has seen it.
Moves(from) ==
  CASE from = "active"   -> {"absent", "stopped", "reserved"}
    [] from = "reserved" -> {"absent", "stopped", "active"}
    [] from = "stopped"  -> {"absent", "active"}
    [] from = "absent"   -> {"active"}
Unseen(t) == exposure[t].started /\ qb[t] \notin Running

ByHand(t) ==
  /\ Change /\ t \notin archiving
  /\ \E to \in Moves(qb[t]) :
       /\ to = "active" => ~Unseen(t)
       /\ qb' = [qb EXCEPT ![t] = to]
       /\ ran' = [ran EXCEPT ![t] = IF qb[t] \in Running THEN @ ELSE 0]
  /\ UNCHANGED <<wanted, archiving>>

\* The archive lane takes a torrent, and removes it or gives up.
Archive(t) ==
  /\ Change /\ qb[t] \in {"active", "stopped"} /\ t \notin wanted \cup archiving
  /\ archiving' = archiving \cup {t}
  /\ UNCHANGED <<qb, wanted, ran>>

ArchiveEnds(t) ==
  /\ t \in archiving /\ archiving' = archiving \ {t}
  /\ qb' \in {qb, [qb EXCEPT ![t] = "absent"]}
  /\ UNCHANGED <<wanted, exposure, elapsed, prev, rested, ctl, ran, changes, faults>>

Next ==
  \/ Observe \/ PlanQueue \/ SendStop \/ SendStart \/ EndCycle \/ CutCycle \/ Restart
  \/ Tick \/ Rest
  \/ \E t \in Torrent : Demand(t) \/ ByHand(t) \/ Archive(t) \/ ArchiveEnds(t)

Spec == Init /\ [][Next]_vars

\* Time passes, and the archive lane comes to an end with a torrent.  In every
\* state a step of the cycle is enabled, so its weak fairness says that infinitely
\* many are taken: the steps that move ctl on without a fault.
Progress ==
  /\ []<><<ctl' # ctl /\ faults' = faults>>_vars
  /\ WF_vars(Tick) /\ WF_vars(Rest)
  /\ WF_vars(\E t \in Torrent : ArchiveEnds(t))

FairSpec == Spec /\ Progress

-----------------------------------------------------------------------------
\* Properties.

Exposures == [started : BOOLEAN, last : 0..Cardinality(Torrent), age : 0..Exposure]

TypeOK ==
  /\ qb \in [Torrent -> State] /\ prev \in [Torrent -> State \cup {"unknown"}]
  /\ wanted \subseteq Torrent /\ archiving \subseteq Torrent
  /\ exposure \in [Torrent -> Exposures] /\ elapsed \in 0..Exposure
  /\ ran \in [Torrent -> 0..Exposure]
  /\ rested \in BOOLEAN /\ changes \in 0..MaxChanges /\ faults \in 0..MaxFaults
  /\ \/ ctl = Idle
     \/ ctl \in [pc : {"seen"}, snap : [Torrent -> State], wanted : SUBSET Torrent]
     \/ /\ ctl \in [pc : {"send"}, left : 0..2, rotate : BOOLEAN, surplus : SUBSET Torrent,
                    turn : SUBSET Torrent, start : SUBSET Torrent]
        /\ Cardinality(Stops) <= Batch /\ Cardinality(ctl.start) <= Batch

\* A torrent whose turn is over has been running for EXPOSURE since it was really
\* started, whatever commands were lost, and whenever the process was restarted
\* (the exposures of observe.go:57 never run ahead of qB).
FullExposure ==
  ctl.pc = "send" => \A t \in ctl.turn : qb[t] \in Running => ran[t] >= Exposure

\* The pool comes back to its target: too large a pool is reduced unless every
\* torrent in it is wanted, and a pool with room is filled while torrents wait.
Pool == In(qb, Running) \ archiving
AtTarget ==
  \/ Cardinality(Pool) = Target
  \/ Cardinality(Pool) > Target /\ In(qb, {"active"}) \subseteq wanted \cup archiving
  \/ Cardinality(Pool) < Target /\ In(qb, {"stopped"}) \subseteq archiving
PoolReturnsToTarget == ~AtTarget ~> AtTarget

\* Fair rotation: a stopped torrent is started at last, unless those that are in
\* demand, recent or reserved fill the pool (README.md:13).
Saturated == Cardinality(Pool \cap (wanted \cup In(qb, {"reserved"}))) >= Target
Runs(t) == qb[t] = "stopped" ~> qb[t] # "stopped" \/ Saturated

=============================================================================
