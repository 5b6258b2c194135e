--------------------------- MODULE DeploymentProofs ---------------------------
(***************************************************************************)
(* What deploy.py keeps, for every number of builds, effects, rollbacks and *)
(* faults.                                                                  *)
(*                                                                         *)
(* LifeInv holds of every deployment: what a running worker and a running   *)
(* script rely on.  The rest is about a host where an operator rolls back   *)
(* the last deployment only: WayInv follows the revision of the script from *)
(* its backup to the links, RememberInv counts the effects the state and    *)
(* the last backup know of, and OpenInv says of each step who can open the  *)
(* state.                                                                   *)
(***************************************************************************)
EXTENDS Deployment, TLAPS

-----------------------------------------------------------------------------
\* The invariants.

\* Before the backup, and from then on.
Before == {"stop", "checkpoint"}
After == Try \cup Back

\* No service runs, and none is started.
Quiet == {"checkpoint", "upgrade", "unit", "link", "start",
          "inspect", "copy", "relink", "reunit", "restart"}

ScriptOK ==
  script = Idle \/ script \in [pc : Before \cup After, rev : staged, prev : staged \cup {None}]

ProcOK ==
  proc # NoProcess =>
    /\ proc.st # "none" /\ proc.rev = current /\ current # None
    /\ db.schema = Schema[current]
    /\ proc.st = "active" => current \in markers

KnownOK ==
  /\ db.known <= issued
  /\ \A r \in Revision : backup[r].db.known <= issued /\ (backup[r].taken => r \in staged)

QuietOK == script.pc \in Quiet => ~wanted /\ proc = NoProcess

LifeInv == TypeOK /\ ScriptOK /\ ProcOK /\ KnownOK /\ QuietOK

\* Every new build has the third schema and another release before it.
BuildsOK ==
  /\ script # Idle => Schema[script.rev] = 3 /\ script.prev # script.rev
  /\ \A r \in Revision : backup[r].taken => Schema[r] = 3 /\ backup[r].prev # r

\* Where the script is, and whose link and backup it works with.
WayOK ==
  /\ script.pc \in Before => script.prev = current
  /\ script.pc \in Before \cup {"upgrade", "unit", "link"} => script.rev \notin activated
  /\ script.pc \in After =>
       /\ script.rev = last /\ backup[last].taken /\ backup[last].prev = script.prev
       /\ current # last => ~wanted /\ proc = NoProcess
  /\ script.pc \in {"start", "ready", "activate", "ok"} => current = last
  /\ script.pc \in {"back", "inspect"} /\ last \in markers => current = last

WayInv == BuildsOK /\ WayOK

\* The state knows every effect, but while a snapshot takes its place; so does
\* the last backup, as long as its release has never been activated.
RememberInv ==
  /\ script.pc # "copy" => db.known = issued
  /\ script.pc = "copy" => last \notin markers
  /\ last # None /\ last \notin markers /\ (current = last \/ script.pc \in After)
       => backup[last].db.known = issued

Opens(rev, state) == state = NoState \/ state.schema = Schema[rev]

\* Without a fault: who can open the state.
OpenOK ==
  /\ script.pc \in {"idle", "stop", "checkpoint", "upgrade"} /\ current # None
       => Openable(current)
  /\ script.pc \in {"unit", "link", "start", "ready", "activate", "ok"}
       => db = NoState \/ db.schema = 3
  /\ script.pc \in {"back", "inspect"} /\ current = last => Openable(current)
  /\ script.pc \in {"relink", "reunit", "restart"} /\ script.prev # None
       => Openable(script.prev)
  /\ script.pc \in {"reunit", "restart"} => current = script.prev

OpenInv ==
  /\ \A r \in Revision :
       backup[r].taken /\ backup[r].prev # None => Opens(backup[r].prev, backup[r].db)
  /\ faults = 0 => OpenOK

-----------------------------------------------------------------------------
\* Every step keeps LifeInv.

LEMMA WorkerLife ==
  ASSUME LifeInv, Worker
  PROVE  LifeInv'
  <1> USE DeploymentAssumption DEF DeploymentAssumption, LifeInv, TypeOK, ScriptOK, ProcOK,
             KnownOK, QuietOK, Quiet, files, system, Before, After, Try, Back, NoState,
             NoProcess, Idle
  <1>1. CASE Start
    BY <1>1 DEF Start, Working, Openable
  <1>2. CASE BecomeReady
    BY <1>2 DEF BecomeReady, Working
  <1>3. CASE Activate
    BY <1>3 DEF Activate, Working, Released, Marked
  <1>4. CASE Effect
    BY <1>4 DEF Effect, Working
  <1>5. CASE Die
    BY <1>5 DEF Die, Working
  <1> QED
    BY <1>1, <1>2, <1>3, <1>4, <1>5 DEF Worker

\* Both scripts stop the service in the same way, and go on only if it did stop.
LEMMA StopServiceLife ==
  ASSUME LifeInv, script # Idle, NEW next \in {"checkpoint", "inspect"}, StopService(next)
  PROVE  LifeInv'
  <1> USE DeploymentAssumption DEF DeploymentAssumption, LifeInv, TypeOK, ScriptOK, ProcOK,
             KnownOK, QuietOK, Quiet, files, system, Before, After, Try, Back, NoState,
             NoProcess, Idle
  <1>1. UNCHANGED <<markers, issued, last, rollbacks, faults, files, enabled>>
    BY DEF StopService, Deploying
  <1>2. CASE Stopped /\ Goto(next)
    <2>1. /\ script' \in [pc : {next}, rev : staged, prev : staged \cup {None}]
          /\ script'.pc = next
      BY <1>1, <1>2 DEF Goto
    <2>2. wanted' = FALSE /\ proc' = NoProcess
      BY <1>2 DEF Stopped
    <2>3. TypeOK'
      BY <1>1, <2>2
    <2>4. ScriptOK'
      BY <1>1, <2>1
    <2>5. ProcOK' /\ KnownOK' /\ QuietOK'
      BY <1>1, <2>1, <2>2
    <2> QED
      BY <2>3, <2>4, <2>5
  <1>3. CASE NotStopped /\ script' = Idle
    BY <1>1, <1>3 DEF NotStopped
  <1> QED
    BY <1>2, <1>3 DEF StopService

LEMMA ApplyLife ==
  ASSUME LifeInv, Apply
  PROVE  LifeInv'
  <1> USE DeploymentAssumption DEF DeploymentAssumption, LifeInv, TypeOK, ScriptOK, ProcOK,
             KnownOK, QuietOK, Quiet, files, system, Before, After, Try, Back, NoState,
             NoProcess, Idle
  <1>1. CASE Stop
    BY <1>1, StopServiceLife DEF Stop, At
  <1>2. CASE Checkpoint
    BY <1>2 DEF Checkpoint, At, Goto, Snapshot
  <1>3. CASE CheckpointFails
    BY <1>3 DEF CheckpointFails, At, Deploying, StartAgain
  <1>4. CASE Upgrade
    BY <1>4 DEF Upgrade, At, Goto, Deploying
  <1>5. CASE InstallUnit
    BY <1>5 DEF InstallUnit, At, Goto, Deploying
  <1>6. CASE Link
    BY <1>6, SMTT(30) DEF Link, At, Goto, Deploying
  <1>7. CASE StartCandidate
    BY <1>7 DEF StartCandidate, At, Goto, Deploying
  <1>8. CASE WaitReady
    BY <1>8, SMTT(30) DEF WaitReady, At, Goto, Deploying, Reports
  <1>9. CASE WriteActivation
    BY <1>9, SMTT(30) DEF WriteActivation, At, Goto, Deploying
  <1>10. CASE WaitOk
    BY <1>10 DEF WaitOk, At, Deploying, Reports
  <1>11. CASE Fail
    BY <1>11 DEF Fail, Goto, Deploying
  <1> QED
    BY <1>1, <1>2, <1>3, <1>4, <1>5, <1>6, <1>7, <1>8, <1>9, <1>10, <1>11 DEF Apply

LEMMA RestoreLife ==
  ASSUME LifeInv, Restore
  PROVE  LifeInv'
  <1> USE DeploymentAssumption DEF DeploymentAssumption, LifeInv, TypeOK, ScriptOK, ProcOK,
             KnownOK, QuietOK, Quiet, files, system, Before, After, Try, Back, NoState,
             NoProcess, Idle
  <1>1. CASE StopBack
    BY <1>1, StopServiceLife DEF StopBack, At
  <1>2. CASE KeepState
    BY <1>2 DEF KeepState, At, Deploying
  <1>3. CASE WipeState
    BY <1>3 DEF WipeState, At, Goto, Deploying
  <1>4. CASE RestoreState
    <2>1. /\ script \in [pc : Before \cup After, rev : staged, prev : staged \cup {None}]
          /\ script.rev \in Revision
      BY <1>4 DEF RestoreState, At
    <2>2. /\ backup[script.rev].db \in [schema : {0, 2, 3}, known : 0..MaxEffects]
          /\ backup[script.rev].db.known <= issued
      BY <2>1
    <2> QED
      BY <1>4, <2>1, <2>2 DEF RestoreState, At, Goto, Deploying
  <1>5. CASE LinkBack
    BY <1>5 DEF LinkBack, At, Goto, Deploying
  <1>6. CASE UnitBack
    BY <1>6 DEF UnitBack, At, Goto, Deploying
  <1>7. CASE StartBack
    BY <1>7 DEF StartBack, At, Deploying, StartRestored
  <1> QED
    BY <1>1, <1>2, <1>3, <1>4, <1>5, <1>6, <1>7 DEF Restore

LEMMA LifeNext ==
  ASSUME LifeInv, [Next]_vars
  PROVE  LifeInv'
  <1> USE DeploymentAssumption DEF DeploymentAssumption, LifeInv, TypeOK, ScriptOK, ProcOK,
             KnownOK, QuietOK, Quiet, files, system, Before, After, Try, Back, NoState,
             NoProcess, Idle
  <1>1. ASSUME NEW r \in Revision, Stage(r) PROVE LifeInv'
    BY <1>1 DEF Stage, Deploying
  <1>2. ASSUME NEW r \in Revision, Rollback(r) PROVE LifeInv'
    BY <1>2 DEF Rollback
  <1>3. CASE Kill
    BY <1>3 DEF Kill, Fault
  <1>4. CASE Reboot
    BY <1>4 DEF Reboot, Fault
  <1>5. CASE UNCHANGED vars
    BY <1>5 DEF vars
  <1> QED
    BY <1>1, <1>2, <1>3, <1>4, <1>5, WorkerLife, ApplyLife, RestoreLife DEF Next

-----------------------------------------------------------------------------
\* Where an operator rolls back the last deployment only, the script works with
\* the last backup.

LEMMA WorkerWay ==
  ASSUME ~AnyBackup, LifeInv, WayInv, Worker
  PROVE  WayInv'
  <1> USE DeploymentAssumption DEF DeploymentAssumption, LifeInv, TypeOK, ScriptOK, ProcOK,
             KnownOK, QuietOK, Quiet,
             WayInv, BuildsOK, WayOK, files, system, Before, After, Try, Back, NoState,
             NoProcess, Idle
  <1>1. CASE Start
    BY <1>1 DEF Start, Working
  <1>2. CASE BecomeReady
    BY <1>2 DEF BecomeReady, Working
  \* The released worker is that of the link, so a marker means: linked.
  <1>3. CASE Activate
    BY <1>3 DEF Activate, Working, Released, Marked
  <1>4. CASE Effect
    BY <1>4 DEF Effect, Working
  <1>5. CASE Die
    BY <1>5 DEF Die, Working
  <1> QED
    BY <1>1, <1>2, <1>3, <1>4, <1>5 DEF Worker

LEMMA ApplyWay ==
  ASSUME ~AnyBackup, LifeInv, WayInv, Apply
  PROVE  WayInv'
  <1> USE DeploymentAssumption DEF DeploymentAssumption, LifeInv, TypeOK, ScriptOK, ProcOK,
             KnownOK, QuietOK, Quiet,
             WayInv, BuildsOK, WayOK, files, system, Before, After, Try, Back, NoState,
             NoProcess, Idle
  <1>1. CASE Stop
    BY <1>1 DEF Stop, At, Goto, Deploying, StopService, Stopped, NotStopped
  \* From here on the deployment of the script is the last.
  <1>2. CASE Checkpoint
    BY <1>2 DEF Checkpoint, At, Goto, Snapshot
  <1>3. CASE CheckpointFails
    BY <1>3 DEF CheckpointFails, At, Deploying, StartAgain
  <1>4. CASE Upgrade
    BY <1>4 DEF Upgrade, At, Goto, Deploying
  <1>5. CASE InstallUnit
    BY <1>5 DEF InstallUnit, At, Goto, Deploying
  <1>6. CASE Link
    BY <1>6 DEF Link, At, Goto, Deploying
  <1>7. CASE StartCandidate
    BY <1>7 DEF StartCandidate, At, Goto, Deploying
  <1>8. CASE WaitReady
    BY <1>8 DEF WaitReady, At, Goto, Deploying, Reports
  <1>9. CASE WriteActivation
    BY <1>9 DEF WriteActivation, At, Goto, Deploying
  <1>10. CASE WaitOk
    BY <1>10 DEF WaitOk, At, Deploying, Reports
  \* What fails before the link has no marker yet.
  <1>11. CASE Fail
    BY <1>11 DEF Fail, Goto, Deploying
  <1> QED
    BY <1>1, <1>2, <1>3, <1>4, <1>5, <1>6, <1>7, <1>8, <1>9, <1>10, <1>11 DEF Apply

LEMMA RestoreWay ==
  ASSUME ~AnyBackup, LifeInv, WayInv, Restore
  PROVE  WayInv'
  <1> USE DeploymentAssumption DEF DeploymentAssumption, LifeInv, TypeOK, ScriptOK, ProcOK,
             KnownOK, QuietOK, Quiet,
             WayInv, BuildsOK, WayOK, files, system, Before, After, Try, Back, NoState,
             NoProcess, Idle
  <1>1. CASE StopBack
    BY <1>1 DEF StopBack, At, Goto, Deploying, StopService, Stopped, NotStopped
  <1>2. CASE KeepState
    BY <1>2 DEF KeepState, At, Deploying, Effects
  <1>3. CASE WipeState
    BY <1>3 DEF WipeState, At, Goto, Deploying, Effects
  <1>4. CASE RestoreState
    BY <1>4 DEF RestoreState, At, Goto, Deploying
  <1>5. CASE LinkBack
    BY <1>5 DEF LinkBack, At, Goto, Deploying
  <1>6. CASE UnitBack
    BY <1>6 DEF UnitBack, At, Goto, Deploying
  <1>7. CASE StartBack
    BY <1>7 DEF StartBack, At, Deploying, StartRestored
  <1> QED
    BY <1>1, <1>2, <1>3, <1>4, <1>5, <1>6, <1>7 DEF Restore

LEMMA WayNext ==
  ASSUME ~AnyBackup, LifeInv, WayInv, [Next]_vars
  PROVE  WayInv'
  <1> USE DeploymentAssumption DEF DeploymentAssumption, LifeInv, TypeOK, ScriptOK, ProcOK,
             KnownOK, QuietOK, Quiet,
             WayInv, BuildsOK, WayOK, files, system, Before, After, Try, Back, NoState,
             NoProcess, Idle
  <1>1. ASSUME NEW r \in Revision, Stage(r) PROVE WayInv'
    BY <1>1 DEF Stage, Deploying
  <1>2. ASSUME NEW r \in Revision, Rollback(r) PROVE WayInv'
    BY <1>2 DEF Rollback
  <1>3. CASE Kill
    BY <1>3 DEF Kill, Fault
  <1>4. CASE Reboot
    BY <1>4 DEF Reboot, Fault
  <1>5. CASE UNCHANGED vars
    BY <1>5 DEF vars
  <1> QED
    BY <1>1, <1>2, <1>3, <1>4, <1>5, WorkerWay, ApplyWay, RestoreWay DEF Next

-----------------------------------------------------------------------------
\* A snapshot without an effect is put back only where no effect was issued
\* since.

LEMMA WorkerRemember ==
  ASSUME ~AnyBackup, ~CutRestore, LifeInv, WayInv, RememberInv, Worker
  PROVE  RememberInv'
  <1> USE DeploymentAssumption DEF DeploymentAssumption, LifeInv, TypeOK, ScriptOK, ProcOK,
             KnownOK, QuietOK, Quiet,
             WayInv, BuildsOK, WayOK, RememberInv, files, system, Before, After, Try, Back, NoState,
             NoProcess, Idle
  <1>1. CASE Start
    BY <1>1 DEF Start, Working
  <1>2. CASE BecomeReady
    BY <1>2 DEF BecomeReady, Working
  <1>3. CASE Activate
    BY <1>3 DEF Activate, Working, Released, Marked
  \* An active worker has its marker, and nobody else than the current one runs.
  <1>4. CASE Effect
    BY <1>4 DEF Effect, Working
  <1>5. CASE Die
    BY <1>5 DEF Die, Working
  <1> QED
    BY <1>1, <1>2, <1>3, <1>4, <1>5 DEF Worker

LEMMA ApplyRemember ==
  ASSUME ~AnyBackup, ~CutRestore, LifeInv, WayInv, RememberInv, Apply
  PROVE  RememberInv'
  <1> USE DeploymentAssumption DEF DeploymentAssumption, LifeInv, TypeOK, ScriptOK, ProcOK,
             KnownOK, QuietOK, Quiet,
             WayInv, BuildsOK, WayOK, RememberInv, files, system, Before, After, Try, Back, NoState,
             NoProcess, Idle
  <1>1. CASE Stop
    BY <1>1 DEF Stop, At, Goto, Deploying, StopService, Stopped, NotStopped
  \* The snapshot knows what the state knows.
  <1>2. CASE Checkpoint
    BY <1>2 DEF Checkpoint, At, Goto, Snapshot
  <1>3. CASE CheckpointFails
    BY <1>3 DEF CheckpointFails, At, Deploying, StartAgain
  <1>4. CASE Upgrade
    BY <1>4 DEF Upgrade, At, Goto, Deploying
  <1>5. CASE InstallUnit
    BY <1>5 DEF InstallUnit, At, Goto, Deploying
  <1>6. CASE Link
    BY <1>6 DEF Link, At, Goto, Deploying
  <1>7. CASE StartCandidate
    BY <1>7 DEF StartCandidate, At, Goto, Deploying
  <1>8. CASE WaitReady
    BY <1>8 DEF WaitReady, At, Goto, Deploying, Reports
  <1>9. CASE WriteActivation
    BY <1>9 DEF WriteActivation, At, Goto, Deploying
  <1>10. CASE WaitOk
    BY <1>10 DEF WaitOk, At, Deploying, Reports
  <1>11. CASE Fail
    BY <1>11 DEF Fail, Goto, Deploying
  <1> QED
    BY <1>1, <1>2, <1>3, <1>4, <1>5, <1>6, <1>7, <1>8, <1>9, <1>10, <1>11 DEF Apply

LEMMA RestoreRemember ==
  ASSUME ~AnyBackup, ~CutRestore, LifeInv, WayInv, RememberInv, Restore
  PROVE  RememberInv'
  <1> USE DeploymentAssumption DEF DeploymentAssumption, LifeInv, TypeOK, ScriptOK, ProcOK,
             KnownOK, QuietOK, Quiet,
             WayInv, BuildsOK, WayOK, RememberInv, files, system, Before, After, Try, Back, NoState,
             NoProcess, Idle
  <1>1. CASE StopBack
    BY <1>1 DEF StopBack, At, Goto, Deploying, StopService, Stopped, NotStopped
  <1>2. CASE KeepState
    BY <1>2 DEF KeepState, At, Deploying, Effects
  \* Without a marker the snapshot is up to date.
  <1>3. CASE WipeState
    BY <1>3 DEF WipeState, At, Goto, Deploying, Effects
  <1>4. CASE RestoreState
    BY <1>4 DEF RestoreState, At, Goto, Deploying
  \* The current release is no longer the last deployment.
  <1>5. CASE LinkBack
    BY <1>5 DEF LinkBack, At, Goto, Deploying
  <1>6. CASE UnitBack
    BY <1>6 DEF UnitBack, At, Goto, Deploying
  <1>7. CASE StartBack
    BY <1>7 DEF StartBack, At, Deploying, StartRestored
  <1> QED
    BY <1>1, <1>2, <1>3, <1>4, <1>5, <1>6, <1>7 DEF Restore

LEMMA RememberNext ==
  ASSUME ~AnyBackup, ~CutRestore, LifeInv, WayInv, RememberInv, [Next]_vars
  PROVE  RememberInv'
  <1> USE DeploymentAssumption DEF DeploymentAssumption, LifeInv, TypeOK, ScriptOK, ProcOK,
             KnownOK, QuietOK, Quiet,
             WayInv, BuildsOK, WayOK, RememberInv, files, system, Before, After, Try, Back, NoState,
             NoProcess, Idle
  <1>1. ASSUME NEW r \in Revision, Stage(r) PROVE RememberInv'
    BY <1>1 DEF Stage, Deploying
  <1>2. ASSUME NEW r \in Revision, Rollback(r) PROVE RememberInv'
    BY <1>2 DEF Rollback
  <1>3. CASE Kill
    BY <1>3 DEF Kill, Fault
  <1>4. CASE Reboot
    BY <1>4 DEF Reboot, Fault
  <1>5. CASE UNCHANGED vars
    BY <1>5 DEF vars
  <1> QED
    BY <1>1, <1>2, <1>3, <1>4, <1>5, WorkerRemember, ApplyRemember, RestoreRemember DEF Next

-----------------------------------------------------------------------------
\* Whoever is started without a fault can open the state.

LEMMA WorkerOpen ==
  ASSUME ~AnyBackup, LifeInv, WayInv, OpenInv, Worker
  PROVE  OpenInv'
  <1> USE DeploymentAssumption DEF DeploymentAssumption, LifeInv, TypeOK, ScriptOK, ProcOK,
             KnownOK, QuietOK, Quiet,
             WayInv, BuildsOK, WayOK, OpenInv, OpenOK, Opens, Openable, files,
             system, Before, After, Try, Back, NoState, NoProcess, Idle
  <1>1. CASE Start
    BY <1>1 DEF Start, Working, Openable
  <1>2. CASE BecomeReady
    BY <1>2 DEF BecomeReady, Working
  <1>3. CASE Activate
    BY <1>3 DEF Activate, Working, Released, Marked
  <1>4. CASE Effect
    BY <1>4 DEF Effect, Working
  <1>5. CASE Die
    BY <1>5 DEF Die, Working
  <1> QED
    BY <1>1, <1>2, <1>3, <1>4, <1>5 DEF Worker

LEMMA ApplyOpen ==
  ASSUME ~AnyBackup, LifeInv, WayInv, OpenInv, Apply
  PROVE  OpenInv'
  <1> USE DeploymentAssumption DEF DeploymentAssumption, LifeInv, TypeOK, ScriptOK, ProcOK,
             KnownOK, QuietOK, Quiet,
             WayInv, BuildsOK, WayOK, OpenInv, OpenOK, Opens, Openable, files,
             system, Before, After, Try, Back, NoState, NoProcess, Idle
  <1>1. CASE Stop
    BY <1>1 DEF Stop, At, Goto, Deploying, StopService, Stopped, NotStopped
  <1>2. CASE Checkpoint
    BY <1>2 DEF Checkpoint, At, Goto, Snapshot, Readable, Openable
  <1>3. CASE CheckpointFails
    BY <1>3 DEF CheckpointFails, At, Deploying, StartAgain
  \* From the upgrade on the candidate can open the state, but not an old release.
  <1>4. CASE Upgrade
    BY <1>4 DEF Upgrade, At, Goto, Deploying
  <1>5. CASE InstallUnit
    BY <1>5 DEF InstallUnit, At, Goto, Deploying
  <1>6. CASE Link
    BY <1>6 DEF Link, At, Goto, Deploying
  <1>7. CASE StartCandidate
    BY <1>7 DEF StartCandidate, At, Goto, Deploying
  <1>8. CASE WaitReady
    BY <1>8 DEF WaitReady, At, Goto, Deploying, Reports
  <1>9. CASE WriteActivation
    BY <1>9 DEF WriteActivation, At, Goto, Deploying
  <1>10. CASE WaitOk
    BY <1>10 DEF WaitOk, At, Deploying, Reports
  <1>11. CASE Fail
    BY <1>11 DEF Fail, Goto, Deploying
  <1> QED
    BY <1>1, <1>2, <1>3, <1>4, <1>5, <1>6, <1>7, <1>8, <1>9, <1>10, <1>11 DEF Apply

LEMMA RestoreOpen ==
  ASSUME ~AnyBackup, LifeInv, WayInv, OpenInv, Restore
  PROVE  OpenInv'
  <1> USE DeploymentAssumption DEF DeploymentAssumption, LifeInv, TypeOK, ScriptOK, ProcOK,
             KnownOK, QuietOK, Quiet,
             WayInv, BuildsOK, WayOK, OpenInv, OpenOK, Opens, Openable, files,
             system, Before, After, Try, Back, NoState, NoProcess, Idle
  <1>1. CASE StopBack
    BY <1>1 DEF StopBack, At, Goto, Deploying, StopService, Stopped, NotStopped
  \* The live state stays with the candidate, or is compatible.
  <1>2. CASE KeepState
    BY <1>2 DEF KeepState, At, Deploying, Effects, Compatible
  <1>3. CASE WipeState
    BY <1>3 DEF WipeState, At, Goto, Deploying, Effects
  \* The opener of the snapshot was the release that is linked back.
  <1>4. CASE RestoreState
    BY <1>4 DEF RestoreState, At, Goto, Deploying
  <1>5. CASE LinkBack
    BY <1>5 DEF LinkBack, At, Goto, Deploying
  <1>6. CASE UnitBack
    BY <1>6 DEF UnitBack, At, Goto, Deploying
  <1>7. CASE StartBack
    BY <1>7 DEF StartBack, At, Deploying, StartRestored
  <1> QED
    BY <1>1, <1>2, <1>3, <1>4, <1>5, <1>6, <1>7 DEF Restore

LEMMA OpenNext ==
  ASSUME ~AnyBackup, LifeInv, WayInv, OpenInv, [Next]_vars
  PROVE  OpenInv'
  <1> USE DeploymentAssumption DEF DeploymentAssumption, LifeInv, TypeOK, ScriptOK, ProcOK,
             KnownOK, QuietOK, Quiet,
             WayInv, BuildsOK, WayOK, OpenInv, OpenOK, Opens, Openable, files,
             system, Before, After, Try, Back, NoState, NoProcess, Idle
  <1>1. ASSUME NEW r \in Revision, Stage(r) PROVE OpenInv'
    BY <1>1 DEF Stage, Deploying
  <1>2. ASSUME NEW r \in Revision, Rollback(r) PROVE OpenInv'
    BY <1>2 DEF Rollback
  <1>3. CASE Kill
    BY <1>3 DEF Kill, Fault
  <1>4. CASE Reboot
    BY <1>4 DEF Reboot, Fault
  <1>5. CASE UNCHANGED vars
    BY <1>5 DEF vars
  <1> QED
    BY <1>1, <1>2, <1>3, <1>4, <1>5, WorkerOpen, ApplyOpen, RestoreOpen DEF Next

-----------------------------------------------------------------------------
\* The theorems.

THEOREM LifeInvariant == Spec => []LifeInv
  <1>1. Init => LifeInv
    BY DeploymentAssumption
    DEF DeploymentAssumption, Init, LifeInv, TypeOK, ScriptOK, ProcOK, KnownOK, QuietOK,
        Quiet, NoState, NoBackup, NoProcess, Idle
  <1>2. LifeInv /\ [Next]_vars => LifeInv'
    BY LifeNext
  <1> QED
    BY <1>1, <1>2, PTL DEF Spec

\* The values of the state; a release whose worker has marked its effects has
\* been activated, and has been staged before that.
THEOREM DeploymentTypeOK == Spec => []TypeOK
  <1>1. LifeInv => TypeOK
    BY DEF LifeInv
  <1> QED
    BY <1>1, LifeInvariant, PTL

\* No step of deploy.py that writes the state file runs beside a worker.
THEOREM StateFileIsQuiet == Spec => StateReplacedWhenStopped
  <1>1. LifeInv /\ [Next]_vars => [WipeState \/ RestoreState \/ Upgrade => proc = NoProcess]_vars
    BY DEF LifeInv, QuietOK, Quiet, WipeState, RestoreState, Upgrade, At
  <1> QED
    BY <1>1, LifeInvariant, PTL DEF Spec, StateReplacedWhenStopped

THEOREM WayInvariant ==
  ASSUME ~AnyBackup
  PROVE  Spec => []WayInv
  <1>1. Init => WayInv
    BY DEF Init, WayInv, BuildsOK, WayOK, Before, After, Try, Back, NoBackup, Idle
  <1>2. LifeInv /\ WayInv /\ [Next]_vars => WayInv'
    BY WayNext
  <1> QED
    BY <1>1, <1>2, LifeInvariant, PTL DEF Spec

\* No rollback of the last deployment that runs to its end makes an active worker
\* forget an effect, and neither does a deployment that is killed or fails anywhere:
\* a snapshot is put back only where the marker shows that nothing has been issued
\* since it was taken.
THEOREM NoEffectForgotten ==
  ASSUME ~AnyBackup, ~CutRestore
  PROVE  Spec => []EffectsRemembered
  <1>1. Init => RememberInv
    BY DEF Init, RememberInv, NoState, NoBackup, Idle
  <1>2. LifeInv /\ WayInv /\ RememberInv /\ [Next]_vars => RememberInv'
    BY RememberNext
  <1>3. LifeInv /\ RememberInv => EffectsRemembered
    BY DEF LifeInv, QuietOK, Quiet, RememberInv, EffectsRemembered, NoProcess
  <1> QED
    BY <1>1, <1>2, <1>3, LifeInvariant, WayInvariant, PTL DEF Spec

\* Whatever step of a deployment fails, the release it leaves in place can open
\* the state it leaves behind.
THEOREM NoReleaseLockedOut ==
  ASSUME ~AnyBackup
  PROVE  Spec => []CurrentCanOpenState
  <1>1. Init => OpenInv
    BY DEF Init, OpenInv, OpenOK, Openable, NoBackup, Idle
  <1>2. LifeInv /\ WayInv /\ OpenInv /\ [Next]_vars => OpenInv'
    BY OpenNext
  <1>3. OpenInv => CurrentCanOpenState
    BY DEF OpenInv, OpenOK, CurrentCanOpenState, Idle
  <1> QED
    BY <1>1, <1>2, <1>3, LifeInvariant, WayInvariant, PTL DEF Spec

=============================================================================
