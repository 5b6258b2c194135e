------------------------------ MODULE Deployment ------------------------------
(***************************************************************************)
(* Versioned deployment (scripts/deploy.py) against the life of the worker  *)
(* process (Run in worker.go under deploy/anibt.service): stage, stop, back *)
(* up, upgrade, switch, start, activate; and the way back, which either     *)
(* restores the snapshot of the state or keeps the live state, depending on *)
(* the marker that an activated worker leaves behind.                       *)
(*                                                                         *)
(* Each step of the script, of systemd and of the worker is one action.     *)
(* The script may fail, be killed, or lose its host between any two.  The   *)
(* state is abstracted to its schema and to how many of the external        *)
(* effects issued so far it knows of: a worker whose state has forgotten an *)
(* effect issues it again.                                                  *)
(***************************************************************************)
EXTENDS Naturals

CONSTANTS
  Revision,      \* builds
  None,          \* no release
  Installed,     \* the native release found on the host, or None
  Schema,        \* the state schema of each build
  AnyBackup,     \* an operator may roll back from any backup, not only the
                 \* current release from the last one
  CutRestore,    \* the way back may itself be cut short
  MaxEffects,    \* bound: external effects
  MaxRollbacks,  \* bound: rollbacks by an operator
  MaxFaults      \* bound: kills of the script and reboots

ASSUME DeploymentAssumption ==
  /\ None \notin Revision /\ Installed \in Revision \cup {None}
  /\ Schema \in [Revision -> {2, 3}]
  /\ AnyBackup \in BOOLEAN /\ CutRestore \in BOOLEAN
  /\ MaxEffects \in Nat /\ MaxRollbacks \in Nat /\ MaxFaults \in Nat

VARIABLES
  staged,     \* releases/<revision> exists
  activated,  \* releases/<revision>/activate exists
  current,    \* the link "current"
  unit,       \* whose unit file is installed
  db,         \* state.sqlite3, or NoState
  markers,    \* effects-<revision> exists in the state directory
  backup,     \* the backup taken for each deployment
  wanted,     \* systemd is to keep the service running
  enabled,    \* the unit is enabled: a reboot starts it
  proc,       \* the worker process
  script,     \* deploy.py
  issued,     \* external effects issued by any worker so far
  last,       \* history: the deployment the last backup was taken for
  rollbacks, faults

files == <<staged, activated, current, unit, db, markers, backup>>
system == <<wanted, enabled, proc>>
vars == <<files, system, script, issued, last, rollbacks, faults>>

NoState == [schema |-> 0, known |-> 0]
NoBackup == [prev |-> None, unit |-> None, db |-> NoState, taken |-> FALSE]
NoProcess == [st |-> "none", rev |-> None]
Idle == [pc |-> "idle", rev |-> None]

Init ==
  LET native == Installed # None
      here == IF native THEN {Installed} ELSE {} IN
  /\ staged = here /\ activated = here /\ markers = here
  /\ current = Installed /\ unit = Installed
  /\ db = IF native THEN [schema |-> Schema[Installed], known |-> 0] ELSE NoState
  /\ backup = [r \in Revision |-> NoBackup]
  /\ wanted = native /\ enabled = native
  /\ proc = NoProcess /\ script = Idle
  /\ issued = 0 /\ last = None /\ rollbacks = 0 /\ faults = 0

-----------------------------------------------------------------------------
\* The worker, as systemd runs it.

Working ==
  UNCHANGED <<staged, activated, current, unit, backup, wanted, enabled, script,
              last, rollbacks, faults>>

\* OpenStore: a state of another schema is refused, a missing one is created.
Openable(rev) == db = NoState \/ db.schema = Schema[rev]

Start ==
  /\ wanted /\ proc = NoProcess /\ unit # None /\ current # None
  /\ Openable(current)
  /\ db' = IF db = NoState THEN [schema |-> Schema[current], known |-> 0] ELSE db
  /\ proc' = [st |-> "starting", rev |-> current]
  /\ Working /\ UNCHANGED <<markers, issued>>

\* Preflight passed; the worker waits for activation.
BecomeReady ==
  /\ proc.st = "starting"
  /\ proc' = [proc EXCEPT !.st = "ready"]
  /\ Working /\ UNCHANGED <<db, markers, issued>>

\* The activation file beside the binary is what the worker waits for.
ReleasedWhenReady == current = proc.rev
Released == current = proc.rev /\ proc.rev \in activated

\* The durable marker comes before anything else an activated worker does.
MarkedNever == markers
Marked == markers \cup {proc.rev}

Activate ==
  /\ proc.st = "ready" /\ Released
  /\ markers' = Marked
  /\ proc' = [proc EXCEPT !.st = "active"]
  /\ Working /\ UNCHANGED <<db, issued>>

\* An effect is recorded in the state, and then issued.
Effect ==
  /\ proc.st = "active" /\ issued < MaxEffects
  /\ issued' = issued + 1
  /\ db' = [db EXCEPT !.known = @ + 1]
  /\ Working /\ UNCHANGED <<markers, proc>>

\* Preflight fails, the process dies, the watchdog kills it.
Die ==
  /\ proc # NoProcess
  /\ proc' = NoProcess
  /\ Working /\ UNCHANGED <<db, markers, issued>>

Worker == Start \/ BecomeReady \/ Activate \/ Effect \/ Die

-----------------------------------------------------------------------------
\* deploy.py: what both commands use.

At(pc) == script.pc = pc
Goto(pc) == script' = [script EXCEPT !.pc = pc]
Deploying == UNCHANGED <<markers, issued, last, rollbacks, faults>>

\* systemctl stop drains the process; is-active shows whether it did.
Stopped == wanted' = FALSE /\ proc' = NoProcess
NotStopped == proc # NoProcess /\ UNCHANGED <<wanted, proc>>

\* Where there was a release, its service is started again: when no backup could
\* be made ...
StartNothing == FALSE
StartAgain == script.prev # None

\* ... and at the end of a restore.
StartRestored == script.prev # None

\* A script that does not ask whether the service did stop.
StopServiceBlindly(next) ==
  /\ Goto(next)
  /\ Stopped \/ NotStopped
  /\ Deploying /\ UNCHANGED <<files, enabled>>

\* stop_service ends the script if the service is still there.
StopService(next) ==
  /\ \/ Stopped /\ Goto(next)
     \/ NotStopped /\ script' = Idle
  /\ Deploying /\ UNCHANGED <<files, enabled>>

-----------------------------------------------------------------------------
\* apply.

\* stage: a build is staged once; what its checks refuse changes nothing else.
Stage(r) ==
  /\ script = Idle /\ r \notin staged /\ Schema[r] = 3
  /\ staged' = staged \cup {r}
  /\ \/ script' = Idle
     \/ script' = [pc |-> "stop", rev |-> r, prev |-> current]
  /\ Deploying
  /\ UNCHANGED <<activated, current, unit, db, backup, system>>

Stop == At("stop") /\ StopService("checkpoint")

\* The opener of the backup command is the previous release, if there is one.
Readable ==
  Openable(IF script.prev # None THEN script.prev ELSE script.rev)

Snapshot == [prev |-> script.prev, unit |-> unit, db |-> db, taken |-> TRUE]

Checkpoint ==
  /\ At("checkpoint") /\ Readable
  /\ backup' = [backup EXCEPT ![script.rev] = Snapshot]
  /\ last' = script.rev
  /\ Goto("upgrade")
  /\ UNCHANGED <<staged, activated, current, unit, db, markers, system, issued,
                 rollbacks, faults>>

\* No backup: the old service is started again.
CheckpointFails ==
  /\ At("checkpoint")
  /\ wanted' = StartAgain
  /\ script' = Idle
  /\ Deploying /\ UNCHANGED <<files, enabled, proc>>

\* upgrade-state, in one transaction.
Upgrade ==
  /\ At("upgrade")
  /\ db' = IF db = NoState THEN db ELSE [db EXCEPT !.schema = 3]
  /\ Goto("unit")
  /\ Deploying
  /\ UNCHANGED <<staged, activated, current, unit, backup, system>>

InstallUnit ==
  /\ At("unit")
  /\ unit' = script.rev
  /\ Goto("link")
  /\ Deploying
  /\ UNCHANGED <<staged, activated, current, db, backup, system>>

Link ==
  /\ At("link")
  /\ current' = script.rev
  /\ Goto("start")
  /\ Deploying
  /\ UNCHANGED <<staged, activated, unit, db, backup, system>>

StartCandidate ==
  /\ At("start")
  /\ enabled' = TRUE /\ wanted' = TRUE
  /\ Goto("ready")
  /\ Deploying /\ UNCHANGED <<files, proc>>

\* wait_status: the candidate itself reports the phase.
Reports(st) == proc = [st |-> st, rev |-> script.rev]

WaitReady ==
  /\ At("ready") /\ Reports("ready")
  /\ Goto("activate")
  /\ Deploying /\ UNCHANGED <<files, system>>

WriteActivation ==
  /\ At("activate")
  /\ activated' = activated \cup {script.rev}
  /\ Goto("ok")
  /\ Deploying
  /\ UNCHANGED <<staged, current, unit, db, backup, system>>

WaitOk ==
  /\ At("ok") /\ Reports("active")
  /\ script' = Idle
  /\ Deploying /\ UNCHANGED <<files, system>>

\* Any step of these may fail, and a wait may time out while the worker goes on.
Try == {"upgrade", "unit", "link", "start", "ready", "activate", "ok"}

Fail ==
  /\ script.pc \in Try
  /\ Goto("back")
  /\ Deploying /\ UNCHANGED <<files, system>>

-----------------------------------------------------------------------------
\* restore.

Rollback(r) ==
  /\ script = Idle /\ rollbacks < MaxRollbacks
  /\ backup[r].taken /\ (AnyBackup \/ (current = r /\ last = r))
  /\ rollbacks' = rollbacks + 1
  /\ script' = [pc |-> "back", rev |-> r, prev |-> backup[r].prev]
  /\ UNCHANGED <<files, system, issued, last, faults>>

StopBack == At("back") /\ StopService("inspect")

\* The marker is looked for after the service has stopped.
Effects == script.rev \in markers

CompatibleAlways == TRUE
Compatible == Schema[script.prev] = Schema[script.rev]

\* Effects may be out: the live state stays, if the old binary can read it.
KeepState ==
  /\ At("inspect") /\ Effects
  /\ script' = IF script.prev = None THEN Idle
               ELSE IF ~Compatible THEN Idle
               ELSE [script EXCEPT !.pc = "relink"]
  /\ Deploying /\ UNCHANGED <<files, system>>

\* No effects: the state of the candidate is removed ...
WipeState ==
  /\ At("inspect") /\ ~Effects
  /\ db' = NoState
  /\ Goto("copy")
  /\ Deploying
  /\ UNCHANGED <<staged, activated, current, unit, backup, system>>

\* ... and the snapshot takes its place.
RestoreState ==
  /\ At("copy")
  /\ db' = backup[script.rev].db
  /\ Goto("relink")
  /\ Deploying
  /\ UNCHANGED <<staged, activated, current, unit, backup, system>>

LinkBack ==
  /\ At("relink")
  /\ current' = script.prev
  /\ Goto("reunit")
  /\ Deploying
  /\ UNCHANGED <<staged, activated, unit, db, backup, system>>

UnitBack ==
  /\ At("reunit")
  /\ unit' = backup[script.rev].unit
  /\ Goto("restart")
  /\ Deploying
  /\ UNCHANGED <<staged, activated, current, db, backup, system>>

StartBack ==
  /\ At("restart")
  /\ wanted' = StartRestored
  /\ script' = Idle
  /\ Deploying /\ UNCHANGED <<files, enabled, proc>>

Restore ==
  StopBack \/ KeepState \/ WipeState \/ RestoreState \/ LinkBack \/ UnitBack \/ StartBack

Apply ==
  \/ Stop \/ Checkpoint \/ CheckpointFails \/ Upgrade \/ InstallUnit \/ Link
  \/ StartCandidate \/ WaitReady \/ WriteActivation \/ WaitOk \/ Fail

-----------------------------------------------------------------------------
\* Faults.

Back == {"back", "inspect", "copy", "relink", "reunit", "restart"}

Fault ==
  /\ faults < MaxFaults /\ faults' = faults + 1
  /\ CutRestore \/ script.pc \notin Back
  /\ script' = Idle
  /\ UNCHANGED <<files, enabled, issued, last, rollbacks>>

\* The script is killed, or fails on the way back.
Kill == script # Idle /\ Fault /\ UNCHANGED <<wanted, proc>>

Reboot == Fault /\ proc' = NoProcess /\ wanted' = enabled

Next ==
  \/ Worker \/ Apply \/ Restore \/ Kill \/ Reboot
  \/ \E r \in Revision : Stage(r) \/ Rollback(r)

Spec == Init /\ [][Next]_vars

\* The script, systemd and the worker go on.  A worker that is restarted after
\* each failed preflight passes it at last, and one that waits looks for its
\* activation file again and again.
Progress ==
  /\ WF_vars(Apply) /\ WF_vars(Restore)
  /\ WF_vars(Start) /\ SF_vars(BecomeReady) /\ SF_vars(Activate)

FairSpec == Spec /\ Progress

-----------------------------------------------------------------------------
\* Properties.

TypeOK ==
  /\ staged \subseteq Revision /\ activated \subseteq staged /\ markers \subseteq activated
  /\ current \in staged \cup {None} /\ unit \in staged \cup {None}
  /\ db \in [schema : {0, 2, 3}, known : 0..MaxEffects]
  /\ backup \in [Revision -> [prev : staged \cup {None}, unit : staged \cup {None},
                              db : [schema : {0, 2, 3}, known : 0..MaxEffects],
                              taken : BOOLEAN]]
  /\ wanted \in BOOLEAN /\ enabled \in BOOLEAN
  /\ proc \in [st : {"none", "starting", "ready", "active"}, rev : staged \cup {None}]
  /\ issued \in 0..MaxEffects
  /\ rollbacks \in 0..MaxRollbacks /\ faults \in 0..MaxFaults

\* An active worker works on a state that knows every external effect issued so
\* far, by itself or by the releases before it: no rollback brings back a
\* snapshot older than an effect (deploy.py:4, README.md:69).
EffectsRemembered == proc.st = "active" => db.known = issued

\* The state file is never exchanged under a running worker.
StateReplacedWhenStopped ==
  [][WipeState \/ RestoreState \/ Upgrade => proc = NoProcess]_vars

\* Between deployments the current release can open the state, whatever failed:
\* a rollback never leaves an old binary with an upgraded state.  (A script that
\* is killed after its upgrade does; see MaxFaults.)
CurrentCanOpenState ==
  script = Idle /\ faults = 0 /\ current # None => Openable(current)

\* Restore gives up: effects are out, recorded in a state that the previous
\* release cannot read.  The service stays down until a newer build is deployed
\* (deploy.py:124, "live state schema is incompatible with rollback binary").
RepairForward == At("inspect") /\ Effects /\ ~Compatible

\* A candidate that fails before its activation, and that systemd does not stop,
\* is left waiting for it (deploy.py:113, "service did not stop").
LeftWaiting == script = Idle /\ proc.st = "ready" /\ proc.rev \notin activated

\* Once apply or restore has stopped the service of a host that had a release, a
\* release works again, whatever step fails: the backup (deploy.py:176), a step
\* before or after activation (deploy.py:194), within a schema or across two.
\* The exceptions are the two above, and a script that is killed or loses its
\* host.
ServiceReturns ==
  script.pc \in {"checkpoint", "inspect"} /\ script.prev # None
    ~> proc.st = "active" \/ RepairForward \/ LeftWaiting \/ faults > 0

=============================================================================
