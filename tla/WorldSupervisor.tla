-------------------------- MODULE WorldSupervisor --------------------------
(***************************************************************************)
(* better-world-management-server.sh: the supervisor that replaces the     *)
(* world of a dedicated server by a successor, as a transaction that every *)
(* run of the script resumes from the files the last one left behind.      *)
(*                                                                         *)
(* A variable is a file, a directory or a process; the supervisor's        *)
(* program counter and its two shell variables are lost whenever it ends.  *)
(* One action is one durable write with the tests before it, so a crash    *)
(* falls between any two of them; writes are one action only where no      *)
(* test and no move of a world lies between them.                          *)
(***************************************************************************)
EXTENDS LifecyclePhases, FiniteSets

CONSTANTS MaxTx,       \* bound: resets the players confirm
          Seeds,       \* bound: the seeds worlds are drawn with
          MaxFaults,   \* bound: disturbances of the kinds in Faults
          Faults       \* which disturbances may strike

FaultKinds == {"crash", "signal", "reboot", "archive", "publish"}

ASSUME SupervisorAssumption ==
    /\ MaxTx \in Nat
    /\ Seeds \subseteq Nat \ {0}
    /\ MaxFaults \in Nat
    /\ Faults \subseteq FaultKinds

VARIABLES
    \* worlds: the level directory, archive-input/world, and the seeds of the
    \* worlds a player has joined; a world set aside is never used again
    active, staged, inhabited,
    \* state directory: lineage-v5, perks-v2 and world-axioms-v1
    lineage, perks, laws,
    \* control directory: the reset's files, the seed the in-world binding
    \* names, successor-request, health-result, active-successor-process
    controls, bound, request, health, record,
    \* server root: level-seed of server.properties (0: torn), projected laws
    props, projected,
    \* transaction directory
    tx, dir, phase, base, before, evidence, failed,
    \* archive directory
    archives, partial, checksum,
    \* processes: launchers before and after exec, the normal server
    forked, up, normal,
    \* the supervisor: program counter, attempt, SUCCESSOR_PID
    sup, k, child,
    \* disturbances suffered
    faults

worlds == <<active, staged, inhabited>>
ledger == <<lineage, perks, laws>>
control == <<controls, bound, request, health, record>>
root == <<props, projected>>
evidences == <<tx, dir, base, before, evidence, failed>>
vault == <<archives, partial, checksum>>
procs == <<forked, up, normal>>
locals == <<k, child>>
vars == <<worlds, ledger, control, root, evidences, phase, vault, procs, sup, locals, faults>>

-----------------------------------------------------------------------------
(* A world is known by its seed: 64 random bits, taken to differ from      *)
(* every seed still named by a world, a file or a process. laws is the     *)
(* transaction whose frozen laws its snapshot holds (0: none), gen the     *)
(* generation it belongs to.                                               *)
Worlds == [seed : Nat, laws : Nat, gen : Nat]
NoWorld == [seed |-> 0, laws |-> 0, gen |-> 0]

ResetFiles == {"reset", "perks", "laws"}

Published == \E a \in archives : a.tx = tx

\* What reset_identity and the active world's snapshot must agree on.
SnapshotCurrent == active.laws # 0 => active.gen = lineage

\* verify_successor_axioms: the snapshot is the frozen one and is projected.
LawsHold == active.laws = tx /\ projected = tx

Resetting == "reset" \in controls

Init ==
    /\ active = [seed |-> 1, laws |-> 0, gen |-> 0]
    /\ staged = NoWorld /\ inhabited = {1}
    /\ lineage = 0 /\ perks = 0 /\ laws = 0
    /\ controls = {} /\ bound = 0 /\ request = 0 /\ health = 0 /\ record = 0
    /\ props = 1 /\ projected = 0
    /\ tx = 0 /\ dir = "none" /\ phase = NoPhase
    /\ base = 0 /\ before = 0 /\ evidence = 0 /\ failed = {}
    /\ archives = {} /\ partial = "none" /\ checksum = "none"
    /\ forked = {} /\ up = {} /\ normal = FALSE
    /\ sup = "down" /\ k = 0 /\ child = 0
    /\ faults = 0

-----------------------------------------------------------------------------
(* Control flow.                                                           *)

Goto(pc) == sup' = pc /\ UNCHANGED locals

\* die: the script ends, its files and its children stay.
Die == sup' = "down" /\ k' = 0 /\ child' = 0

WritePhase(next, pc) ==
    \/ Legal(phase, next) /\ phase' = next /\ Goto(pc)
    \/ ~Legal(phase, next) /\ UNCHANGED phase /\ Die

\* Nothing but the program counter and the shell variables changes.
Quiet == UNCHANGED <<worlds, ledger, control, root, evidences, phase, vault, procs, faults>>

\* A disturbance happens; nothing else counts against the bound.
Strikes(kind) == kind \in Faults /\ faults < MaxFaults /\ faults' = faults + 1

\* Ends the recorded launcher and its server; it may have ended already.
StopRecorded == up' = up \ {record} /\ UNCHANGED <<forked, normal>>

-----------------------------------------------------------------------------
(* Start, and the server that runs while no reset is pending.              *)

\* The lock is free unless a normal server that inherited it outlives its
\* supervisor; launchers of successors close the descriptor. A launcher left
\* behind is taken to write its record before the next supervisor starts.
Start ==
    /\ sup = "down"
    /\ ~normal /\ forked = {}
    /\ Goto("reconcile")
    /\ Quiet

\* Variant: the record of an orphan is removed and the orphan left running.
ReconcileWithoutStop ==
    /\ sup = "reconcile"
    /\ record' = 0
    /\ Goto(IF Resetting THEN "parse" ELSE "normal")
    /\ UNCHANGED <<worlds, ledger, controls, bound, request, health, root,
                   evidences, phase, vault, procs, faults>>

ReconcileActiveProcess ==
    /\ sup = "reconcile"
    /\ StopRecorded
    /\ record' = 0
    /\ Goto(IF Resetting THEN "parse" ELSE "normal")
    /\ UNCHANGED <<worlds, ledger, controls, bound, request, health, root,
                   evidences, phase, vault, faults>>

LaunchNormal ==
    /\ sup = "normal"
    /\ \/ /\ SnapshotCurrent /\ props # 0
          /\ projected' = active.laws /\ normal' = TRUE /\ Goto("serving")
       \/ /\ ~(SnapshotCurrent /\ props # 0)
          /\ UNCHANGED <<projected, normal>> /\ Die
    /\ UNCHANGED <<worlds, ledger, control, props, evidences, phase, vault,
                   forked, up, faults>>

NormalExits ==
    /\ normal
    /\ normal' = FALSE
    /\ \/ sup = "serving" /\ Resetting /\ Goto("parse")
       \/ sup = "serving" /\ ~Resetting /\ Die
       \/ sup # "serving" /\ UNCHANGED <<sup, locals>>
    /\ UNCHANGED <<worlds, ledger, control, root, evidences, phase, vault,
                   forked, up, faults>>

\* External: the mod in a server of the home world commits a reset. Its files
\* replace what an interrupted release left; a release under way is one rm of
\* six files and is taken to end before the players confirm another reset.
RequestReset ==
    /\ normal \/ (active.seed \in up /\ active.gen = lineage)
    /\ ~Resetting
    /\ sup \notin {"release-perks", "release-laws"}
    /\ tx < MaxTx
    /\ tx' = tx + 1
    /\ controls' = ResetFiles
    /\ bound' = active.seed
    /\ dir' = "none" /\ phase' = NoPhase
    /\ base' = 0 /\ before' = 0 /\ evidence' = 0 /\ failed' = {}
    /\ partial' = "none" /\ checksum' = "none"
    /\ UNCHANGED <<worlds, ledger, request, health, record, root, archives,
                   procs, sup, locals, faults>>

-----------------------------------------------------------------------------
(* Opening or resuming the transaction.                                    *)

ParseReset ==
    /\ sup = "parse"
    /\ \/ /\ controls = ResetFiles /\ props # 0
          /\ Goto(IF dir = "none" THEN "create" ELSE "resume")
       \/ ~(controls = ResetFiles /\ props # 0) /\ Die
    /\ Quiet

CreateTransaction ==
    /\ sup = "create"
    /\ dir' = "incomplete"
    /\ Goto("record")
    /\ UNCHANGED <<worlds, ledger, control, root, tx, base, before, evidence,
                   failed, phase, vault, procs, faults>>

RecordRequest ==
    /\ sup = "record"
    /\ dir' = "complete"
    /\ base' = lineage
    /\ before' = props
    /\ WritePhase(Plain("request-recorded"), "resume")
    /\ UNCHANGED <<worlds, ledger, control, root, tx, evidence, failed, vault,
                   procs, faults>>

\* Variant: no branch recovers a rolled-back transaction.
ResumeWithoutRolledBack ==
    /\ sup = "resume"
    /\ Goto(CASE phase.name = "lineage-committed" -> "committed"
              [] phase.name = "health-verified" -> "recheck"
              [] OTHER -> "stage")
    /\ Quiet

\* Evidence missing from a directory whose creation was cut short is fatal.
ResumeTransaction ==
    /\ sup = "resume"
    /\ LET advanced == lineage = base + 1
           verified == phase.name \in {"health-verified", "lineage-committed"}
           coherent == /\ dir = "complete"
                       /\ lineage = base \/ (advanced /\ verified)
       IN \/ ~coherent /\ Die
          \/ coherent /\ Goto(CASE phase.name = "lineage-committed" -> "committed"
                                [] phase.name = "rolled-back" -> "rolled"
                                [] phase.name = "health-verified" -> "recheck"
                                [] OTHER -> "stage")
    /\ Quiet

RecoverCommitted ==
    /\ sup = "committed"
    /\ LET finished == /\ Published /\ checksum # "partial"
                       /\ perks \in {base, base + 1}
       IN \/ lineage # base + 1 /\ Die /\ UNCHANGED <<perks, record, up, checksum>>
          \/ /\ lineage = base + 1
             /\ up' = up \ {record} /\ record' = 0
             /\ \/ finished /\ perks' = base + 1 /\ checksum' = "written"
                            /\ Goto("committed-laws")
                \/ ~finished /\ UNCHANGED <<perks, checksum>> /\ Die
    /\ UNCHANGED <<worlds, lineage, laws, controls, bound, request, health,
                   root, evidences, phase, archives, partial, forked, normal,
                   faults>>

RecoverCommittedLaws ==
    /\ sup = "committed-laws"
    /\ LET promoted == active.laws = tx /\ laws = tx /\ SnapshotCurrent
       IN \/ promoted /\ projected' = active.laws /\ Goto("discard")
          \/ ~promoted /\ UNCHANGED projected /\ Die
    /\ UNCHANGED <<worlds, ledger, control, props, evidences, phase, vault,
                   procs, faults>>

RecoverRolledBack ==
    /\ sup = "rolled"
    /\ \/ /\ lineage = base /\ active # NoWorld
          /\ record' = 0 /\ Goto("restore-laws")
       \/ ~(lineage = base /\ active # NoWorld) /\ UNCHANGED record /\ Die
    /\ UNCHANGED <<worlds, ledger, controls, bound, request, health, root,
                   evidences, phase, vault, procs, faults>>

RecoverHealthVerified ==
    /\ sup = "recheck"
    /\ LET unchanged == request = evidence /\ health = evidence /\ LawsHold
                          /\ active # NoWorld
       IN \/ unchanged /\ Goto("verify")
          \/ ~unchanged /\ Die
    /\ Quiet

-----------------------------------------------------------------------------
(* Staging the old world and archiving it.                                 *)

\* Variant: a world in place is staged although one is staged already.
StageAgain ==
    /\ sup = "stage"
    /\ IF active = NoWorld THEN UNCHANGED <<active, staged>>
                           ELSE staged' = active /\ active' = NoWorld
    /\ Goto(IF phase.name = "request-recorded" THEN "mark-staged" ELSE "binding")
    /\ UNCHANGED <<inhabited, ledger, control, root, evidences, phase,
                   vault, procs, faults>>

StageWorld ==
    /\ sup = "stage"
    /\ \/ /\ staged = NoWorld /\ active # NoWorld
          /\ staged' = active /\ active' = NoWorld /\ Goto("mark-staged")
       \/ /\ staged = NoWorld /\ active = NoWorld
          /\ UNCHANGED <<active, staged>> /\ Die
       \/ /\ staged # NoWorld /\ UNCHANGED <<active, staged>>
          /\ Goto(IF phase.name = "request-recorded" THEN "mark-staged" ELSE "binding")
    /\ UNCHANGED <<inhabited, ledger, control, root, evidences, phase,
                   vault, procs, faults>>

MarkStaged ==
    /\ sup = "mark-staged"
    /\ WritePhase(Plain("world-staged"), "binding")
    /\ UNCHANGED <<worlds, ledger, control, root, evidences, vault, procs, faults>>

ValidateWorldBinding ==
    /\ sup = "binding"
    /\ \/ bound = staged.seed /\ Goto(IF Published THEN "reverify" ELSE "archive")
       \/ bound # staged.seed /\ Die
    /\ Quiet

\* An unpublished archive is only expected in world-staged; checksum evidence
\* without it fails create_verified_archive.
BeginArchive ==
    /\ sup = "archive"
    /\ \/ phase.name # "world-staged" /\ Die
       \/ phase.name = "world-staged" /\ Goto(IF checksum = "written" THEN "undo" ELSE "zip")
    /\ Quiet

\* Variant: a partial zip is resumed unseen.
ZipResumingAny ==
    /\ sup = "zip"
    /\ \/ partial # "none" /\ UNCHANGED partial /\ Goto("publish")
       \/ partial = "none" /\ partial' = "torn" /\ Goto("zipping")
    /\ UNCHANGED <<worlds, ledger, control, root, evidences, phase, archives,
                   checksum, procs, faults>>

\* A partial zip that verifies is resumed, any other is rejected and rebuilt.
ZipWorld ==
    /\ sup = "zip"
    /\ \/ partial = "whole" /\ UNCHANGED partial /\ Goto("publish")
       \/ partial # "whole" /\ partial' = "torn" /\ Goto("zipping")
    /\ UNCHANGED <<worlds, ledger, control, root, evidences, phase, archives,
                   checksum, procs, faults>>

ZipFinished ==
    /\ sup = "zipping"
    /\ partial' = "whole"
    /\ Goto("publish")
    /\ UNCHANGED <<worlds, ledger, control, root, evidences, phase, archives,
                   checksum, procs, faults>>

\* Variant: the zip gets its final name without being verified.
PublishUnverified ==
    /\ sup = "publish"
    /\ archives' = archives \cup {[tx |-> tx, world |-> staged, whole |-> partial = "whole"]}
    /\ partial' = "none" /\ Goto("digest")
    /\ UNCHANGED <<worlds, ledger, control, root, evidences, phase, checksum,
                   procs, faults>>

\* Verified, then moved to its final name. In the subshell of the caller's
\* condition errexit is off: a failing mv goes unnoticed.
PublishArchive ==
    /\ sup = "publish"
    /\ \/ /\ partial = "whole"
          /\ archives' = archives \cup {[tx |-> tx, world |-> staged, whole |-> partial = "whole"]}
          /\ partial' = "none" /\ Goto("digest") /\ UNCHANGED faults
       \/ /\ partial = "whole" /\ Strikes("publish")
          /\ Goto("digest") /\ UNCHANGED <<archives, partial>>
       \/ partial # "whole" /\ Goto("undo") /\ UNCHANGED <<archives, partial, faults>>
    /\ UNCHANGED <<worlds, ledger, control, root, evidences, phase, checksum,
                   procs>>

\* verify_archive_against_world of the published archive.
ReverifyArchive ==
    /\ sup = "reverify"
    /\ Goto(IF \E a \in archives : a.tx = tx /\ a.world = staged /\ a.whole
              THEN "digest" ELSE "undo")
    /\ Quiet

\* atomic_write refuses to start over a partial file it finds.
WriteDigest ==
    /\ sup = "digest"
    /\ \/ checksum = "none" /\ checksum' = "partial" /\ Goto("digest-move")
       \/ checksum = "partial" /\ UNCHANGED checksum /\ Goto("undo")
       \/ checksum = "written" /\ UNCHANGED checksum /\ Goto("mark-archived")
    /\ UNCHANGED <<worlds, ledger, control, root, evidences, phase, archives,
                   partial, procs, faults>>

MoveDigest ==
    /\ sup = "digest-move"
    /\ checksum' = "written"
    /\ Goto("mark-archived")
    /\ UNCHANGED <<worlds, ledger, control, root, evidences, phase, archives,
                   partial, procs, faults>>

\* The verifier or the checksum comparison fails; a failing zip goes unnoticed
\* too, until its archive is verified.
ArchiveFails ==
    /\ Strikes("archive")
    /\ sup \in {"zip", "zipping", "publish", "reverify", "digest"}
    /\ Goto(IF sup = "zipping" THEN "publish" ELSE "undo")
    /\ UNCHANGED <<worlds, ledger, control, root, evidences, phase, vault, procs>>

MarkArchived ==
    /\ sup = "mark-archived"
    /\ \/ phase.name = "world-staged" /\ WritePhase(Plain("archive-verified"), "attempts")
       \/ phase.name # "world-staged" /\ UNCHANGED phase /\ Goto("attempts")
    /\ UNCHANGED <<worlds, ledger, control, root, evidences, vault, procs, faults>>

-----------------------------------------------------------------------------
(* An archive that fails: the old world goes back without an attempt.      *)

\* Variant: server.properties keeps the seed of the candidate.
UndoKeepingProperties ==
    /\ sup = "undo"
    /\ StopRecorded
    /\ record' = 0
    /\ active' = NoWorld
    /\ Goto("restore-world")
    /\ UNCHANGED <<staged, inhabited, ledger, controls, bound, request, health,
                   root, evidences, phase, vault, faults>>

\* rollback_archive_failure moves whatever world is in place aside.
UndoCandidate ==
    /\ sup = "undo"
    /\ StopRecorded
    /\ record' = 0
    /\ active' = NoWorld
    /\ Goto("restore-properties")
    /\ UNCHANGED <<staged, inhabited, ledger, controls, bound, request, health,
                   root, evidences, phase, vault, faults>>

-----------------------------------------------------------------------------
(* Successor attempts.                                                     *)

Inhabited(w) == w # NoWorld /\ w.seed \in inhabited

\* Variant: an interrupted candidate is quarantined whoever joined it.
BeginUnchecked ==
    /\ sup = "attempts"
    /\ IF phase.name \in AttemptPhases THEN StopRecorded ELSE UNCHANGED procs
    /\ active' = NoWorld
    /\ sup' = "loop" /\ child' = 0
    /\ k' = CASE phase.name = "attempt-prepared" -> phase.k
              [] phase.name = "attempt-running" -> phase.k + 1
              [] OTHER -> 1
    /\ UNCHANGED <<staged, inhabited, ledger, control, root, evidences, phase,
                   vault, faults>>

\* Variant: the attempt after an interrupted one is counted twice.
BeginTwiceCounted ==
    /\ sup = "attempts"
    /\ ~Inhabited(active)
    /\ IF phase.name \in AttemptPhases THEN StopRecorded ELSE UNCHANGED procs
    /\ active' = NoWorld
    /\ sup' = "loop" /\ child' = 0
    /\ k' = IF phase.name \in AttemptPhases THEN phase.k + 2 ELSE 1
    /\ UNCHANGED <<staged, inhabited, ledger, control, root, evidences, phase,
                   vault, faults>>

\* An interrupted attempt is retried if its server was never seen running and
\* abandoned otherwise; its candidate is quarantined.
BeginAttempts ==
    /\ sup = "attempts"
    /\ IF phase.name \in AttemptPhases THEN StopRecorded ELSE UNCHANGED procs
    /\ \/ Inhabited(active) /\ UNCHANGED active /\ Die
       \/ /\ ~Inhabited(active)
          /\ active' = NoWorld
          /\ sup' = "loop" /\ child' = 0
          /\ k' = CASE phase.name = "attempt-prepared" -> phase.k
                    [] phase.name = "attempt-running" -> phase.k + 1
                    [] OTHER -> 1
    /\ UNCHANGED <<staged, inhabited, ledger, control, root, evidences, phase,
                   vault, faults>>

\* mv to failed-attempt-n fails if a crash already left that directory.
SetAside(n, pc) ==
    \/ active = NoWorld /\ UNCHANGED <<active, failed>> /\ Goto(pc)
    \/ /\ active # NoWorld /\ (Inhabited(active) \/ n \in failed)
       /\ UNCHANGED <<active, failed>> /\ Die
    \/ /\ active # NoWorld /\ ~Inhabited(active) /\ n \notin failed
       /\ active' = NoWorld
       /\ failed' = failed \cup {n}
       /\ Goto(pc)

NextAttempt ==
    /\ sup = "loop" /\ k <= MaxAttempts
    /\ SetAside(k - 1, "draw")
    /\ UNCHANGED <<staged, inhabited, ledger, control, root, tx, dir, base,
                   before, evidence, phase, vault, procs, faults>>

\* Variant: the final rollback leaves the last candidate's server.properties.
ExhaustedKeepingProperties ==
    /\ sup = "loop" /\ k > MaxAttempts
    /\ SetAside(MaxAttempts, "restore-world")
    /\ UNCHANGED <<staged, inhabited, ledger, control, root, tx, dir, base,
                   before, evidence, phase, vault, procs, faults>>

AttemptsExhausted ==
    /\ sup = "loop" /\ k > MaxAttempts
    /\ SetAside(MaxAttempts, "restore-properties")
    /\ UNCHANGED <<staged, inhabited, ledger, control, root, tx, dir, base,
                   before, evidence, phase, vault, procs, faults>>

SeedsInUse ==
    {active.seed, staged.seed, bound, request, health, record, props, before, evidence, child}
      \cup inhabited \cup forked \cup up \cup {a.world.seed : a \in archives}

\* Old health goes before the successor request names a new seed.
DrawSeed ==
    /\ sup = "draw"
    /\ \E s \in Seeds \ SeedsInUse :
          /\ \A t \in Seeds \ SeedsInUse : s <= t
          /\ health' = 0 /\ request' = s
    /\ Goto("set-seed")
    /\ UNCHANGED <<worlds, ledger, controls, bound, record, root, evidences,
                   phase, vault, procs, faults>>

SetServerSeed ==
    /\ sup = "set-seed"
    /\ props' = request
    /\ Goto("prepare")
    /\ UNCHANGED <<worlds, ledger, control, projected, evidences, phase, vault,
                   procs, faults>>

\* world-axioms.py prepare puts the frozen laws into the new level directory.
PrepareWorld ==
    /\ sup = "prepare"
    /\ active' = [seed |-> request, laws |-> tx, gen |-> base + 1]
    /\ projected' = tx
    /\ Goto("mark-prepared")
    /\ UNCHANGED <<staged, inhabited, ledger, control, props, evidences,
                   phase, vault, procs, faults>>

MarkPrepared ==
    /\ sup = "mark-prepared"
    /\ WritePhase(Prepared(k), "fork")
    /\ UNCHANGED <<worlds, ledger, control, root, evidences, vault, procs, faults>>

\* The old record is removed, then the launcher is forked; a launch is known
\* by the seed it was made for.
Fork ==
    /\ sup = "fork"
    /\ record' = 0
    /\ forked' = forked \cup {request}
    /\ child' = request /\ sup' = "handshake" /\ UNCHANGED k
    /\ UNCHANGED <<worlds, ledger, controls, bound, request, health, root,
                   evidences, phase, vault, up, normal, faults>>

\* The launcher is taken to write its record, or to die, within the ten seconds
\* of the handshake; the record is then its own.
Handshake ==
    /\ sup = "handshake"
    /\ child \notin forked
    /\ \/ child \in up /\ WritePhase(Running(k), "poll")
       \/ child \notin up /\ UNCHANGED phase /\ Goto("failed")
    /\ UNCHANGED <<worlds, ledger, control, root, evidences, vault, procs, faults>>

\* Variant: a server that is up at the deadline counts as healthy.
PollUnread ==
    /\ sup = "poll"
    /\ Goto(IF record \in up THEN "stable" ELSE "failed")
    /\ Quiet

\* Polls until the health files validate, the server ends or the deadline
\* passes; then the server has to outlive the stability window.
PollHealth ==
    /\ sup = "poll"
    /\ \/ record \in up /\ health = child /\ LawsHold /\ Goto("stable")
       \/ Goto("failed")
    /\ Quiet

StabilityWindow ==
    /\ sup = "stable"
    /\ Goto(IF record \in up THEN "verify" ELSE "failed")
    /\ Quiet

StopFailedServer ==
    /\ sup = "failed"
    /\ StopRecorded
    /\ Goto("inspect")
    /\ UNCHANGED <<worlds, ledger, control, root, evidences, phase, vault, faults>>

InspectCandidate ==
    /\ sup = "inspect"
    /\ \/ Inhabited(active) /\ Die
       \/ ~Inhabited(active) /\ sup' = "loop" /\ k' = k + 1 /\ child' = 0
    /\ Quiet

-----------------------------------------------------------------------------
(* finalize_success.                                                       *)

RecordHealth ==
    /\ sup = "verify"
    /\ \/ /\ LawsHold /\ evidence' = request
          /\ WritePhase(Plain("health-verified"), "seal")
       \/ ~LawsHold /\ UNCHANGED <<evidence, phase>> /\ Die
    /\ UNCHANGED <<worlds, ledger, control, root, tx, dir, base, before, failed,
                   vault, procs, faults>>

SealArchive ==
    /\ sup = "seal"
    /\ \/ Published /\ checksum # "partial" /\ checksum' = "written" /\ Goto("promote")
       \/ ~(Published /\ checksum # "partial") /\ UNCHANGED checksum /\ Die
    /\ UNCHANGED <<worlds, ledger, control, root, evidences, phase, archives,
                   partial, procs, faults>>

\* world-axioms.py promote repeats the health check before it writes.
PromoteLaws ==
    /\ sup = "promote"
    /\ \/ LawsHold /\ laws' = active.laws /\ Goto("commit-lineage")
       \/ ~LawsHold /\ UNCHANGED laws /\ Die
    /\ UNCHANGED <<worlds, lineage, perks, control, root, evidences, phase,
                   vault, procs, faults>>

\* Variant: a commit that is resumed increments again.
CommitAgain ==
    /\ sup = "commit-lineage"
    /\ lineage' = lineage + 1 /\ Goto("commit-perks")
    /\ UNCHANGED <<worlds, perks, laws, control, root, evidences, phase, vault,
                   procs, faults>>

CommitLineage ==
    /\ sup = "commit-lineage"
    /\ \/ /\ lineage \in {base, base + 1}
          /\ lineage' = base + 1 /\ Goto("commit-perks")
       \/ lineage \notin {base, base + 1} /\ UNCHANGED lineage /\ Die
    /\ UNCHANGED <<worlds, perks, laws, control, root, evidences, phase, vault,
                   procs, faults>>

CommitPerks ==
    /\ sup = "commit-perks"
    /\ \/ /\ perks \in {base, base + 1}
          /\ perks' = base + 1 /\ Goto("mark-committed")
       \/ perks \notin {base, base + 1} /\ UNCHANGED perks /\ Die
    /\ UNCHANGED <<worlds, lineage, laws, control, root, evidences, phase,
                   vault, procs, faults>>

MarkCommitted ==
    /\ sup = "mark-committed"
    /\ WritePhase(Plain("lineage-committed"), "discard")
    /\ UNCHANGED <<worlds, ledger, control, root, evidences, vault, procs, faults>>

\* cleanup_committed_transaction up to the release of the reset.
DiscardSource ==
    /\ sup = "discard"
    /\ request' = 0 /\ health' = 0
    /\ staged' = NoWorld
    /\ IF active = NoWorld THEN Die ELSE Goto("release-reset")
    /\ UNCHANGED <<active, inhabited, ledger, controls, bound, record,
                   root, evidences, phase, vault, procs, faults>>

-----------------------------------------------------------------------------
(* Restoring the old world, after the last attempt or a failed archive.    *)

\* cp truncates server.properties before it writes it.
TruncateProperties ==
    /\ sup = "restore-properties"
    /\ props' = 0
    /\ Goto("rewrite-properties")
    /\ UNCHANGED <<worlds, ledger, control, projected, evidences, phase, vault,
                   procs, faults>>

RewriteProperties ==
    /\ sup = "rewrite-properties"
    /\ props' = before
    /\ Goto("restore-world")
    /\ UNCHANGED <<worlds, ledger, control, projected, evidences, phase, vault,
                   procs, faults>>

RestoreWorld ==
    /\ sup = "restore-world"
    /\ \/ /\ staged # NoWorld
          /\ active' = staged /\ staged' = NoWorld /\ Goto("mark-rolled-back")
       \/ staged = NoWorld /\ UNCHANGED <<active, staged>> /\ Die
    /\ UNCHANGED <<inhabited, ledger, control, root, evidences, phase,
                   vault, procs, faults>>

MarkRolledBack ==
    /\ sup = "mark-rolled-back"
    /\ WritePhase(Plain("rolled-back"), "clear")
    /\ UNCHANGED <<worlds, ledger, control, root, evidences, vault, procs, faults>>

ClearActiveProcess ==
    /\ sup = "clear"
    /\ record' = 0
    /\ Goto("restore-laws")
    /\ UNCHANGED <<worlds, ledger, controls, bound, request, health, root,
                   evidences, phase, vault, procs, faults>>

\* cleanup_rolled_back_transaction up to the release of the reset.
RestoreLaws ==
    /\ sup = "restore-laws"
    /\ \/ /\ SnapshotCurrent /\ active # NoWorld
          /\ projected' = active.laws /\ request' = 0 /\ health' = 0
          /\ Goto("release-reset")
       \/ /\ ~(SnapshotCurrent /\ active # NoWorld)
          /\ UNCHANGED <<projected, request, health>> /\ Die
    /\ UNCHANGED <<worlds, ledger, controls, bound, record, props, evidences,
                   phase, vault, procs, faults>>

-----------------------------------------------------------------------------
(* Releasing the reset: one rm, in the order of its arguments.             *)

Release(pc, file, then) ==
    /\ sup = pc
    /\ controls' = controls \ {file}
    /\ Goto(then)
    /\ UNCHANGED <<worlds, ledger, bound, request, health, record, root,
                   evidences, phase, vault, procs, faults>>

\* Variant: the reset file goes last.
ReleaseResetLast ==
    \/ Release("release-reset", "perks", "release-perks")
    \/ Release("release-perks", "laws", "release-laws")
    \/ Release("release-laws", "reset", "released")

ReleaseReset ==
    \/ Release("release-reset", "reset", "release-perks")
    \/ Release("release-perks", "perks", "release-laws")
    \/ Release("release-laws", "laws", "released")

\* A fresh success waits for its server, every recovery restarts the script.
Conclude ==
    /\ sup = "released"
    /\ \/ child # 0 /\ Goto("await") /\ UNCHANGED <<up, record>>
       \/ /\ child = 0 /\ up' = up \ {record} /\ record' = 0
          /\ sup' = "reconcile" /\ UNCHANGED locals
    /\ UNCHANGED <<worlds, ledger, controls, bound, request, health, root,
                   evidences, phase, vault, forked, normal, faults>>

AwaitSuccessor ==
    /\ sup = "await"
    /\ child \notin up
    /\ record' = 0
    /\ sup' = (IF Resetting THEN "reconcile" ELSE "down")
    /\ k' = 0 /\ child' = 0
    /\ UNCHANGED <<worlds, ledger, controls, bound, request, health, root,
                   evidences, phase, vault, procs, faults>>

-----------------------------------------------------------------------------
(* Launchers, servers and players.                                         *)

\* The forked subshell writes its process record and execs the server.
ChildExecs ==
    \E p \in forked :
        /\ record' = p
        /\ forked' = forked \ {p}
        /\ up' = up \cup {p}
        /\ UNCHANGED <<worlds, ledger, controls, bound, request, health, root,
                       evidences, phase, vault, normal, sup, locals, faults>>

ChildEnds ==
    \E p \in forked \cup up :
        /\ forked' = forked \ {p}
        /\ up' = up \ {p}
        /\ UNCHANGED <<worlds, ledger, control, root, evidences, phase, vault,
                       normal, sup, locals, faults>>

\* External: the mod in the candidate's server reports health for the
\* successor request it was booted with.
ReportHealth ==
    \E p \in up :
        /\ request = p /\ health # p
        /\ health' = p
        /\ UNCHANGED <<worlds, ledger, controls, bound, request, record, root,
                       evidences, phase, vault, procs, sup, locals, faults>>

\* External: a player joins a running server; the world keeps the evidence.
PlayerJoins ==
    \E s \in (up \cup (IF normal THEN {active.seed} ELSE {})) \ inhabited :
        /\ inhabited' = inhabited \cup {s}
        /\ UNCHANGED <<active, staged, ledger, control, root, evidences,
                       phase, vault, procs, sup, locals, faults>>

-----------------------------------------------------------------------------
(* Disturbances.                                                           *)

\* The script is killed, or one of its commands fails: its children stay.
Crash ==
    /\ Strikes("crash")
    /\ sup # "down"
    /\ Die
    /\ UNCHANGED <<worlds, ledger, control, root, evidences, phase, vault, procs>>

\* handle_signal; a shell in the foreground wait for the normal server defers it.
Signal ==
    /\ Strikes("signal")
    /\ sup \notin {"down", "serving"}
    /\ StopRecorded
    /\ record' = 0
    /\ Die
    /\ UNCHANGED <<worlds, ledger, controls, bound, request, health, root,
                   evidences, phase, vault>>

Reboot ==
    /\ Strikes("reboot")
    /\ forked' = {} /\ up' = {} /\ normal' = FALSE
    /\ Die
    /\ UNCHANGED <<worlds, ledger, control, root, evidences, phase, vault>>

-----------------------------------------------------------------------------

Supervise ==
    \/ ReconcileActiveProcess \/ LaunchNormal
    \/ ParseReset \/ CreateTransaction \/ RecordRequest \/ ResumeTransaction
    \/ RecoverCommitted \/ RecoverCommittedLaws \/ RecoverRolledBack
    \/ RecoverHealthVerified
    \/ StageWorld \/ MarkStaged \/ ValidateWorldBinding
    \/ BeginArchive \/ ZipWorld \/ ZipFinished \/ PublishArchive
    \/ ReverifyArchive \/ WriteDigest \/ MoveDigest \/ MarkArchived
    \/ UndoCandidate
    \/ BeginAttempts \/ NextAttempt \/ AttemptsExhausted \/ DrawSeed
    \/ SetServerSeed \/ PrepareWorld \/ MarkPrepared \/ Fork \/ Handshake
    \/ PollHealth \/ StabilityWindow \/ StopFailedServer \/ InspectCandidate
    \/ RecordHealth \/ SealArchive \/ PromoteLaws \/ CommitLineage
    \/ CommitPerks \/ MarkCommitted \/ DiscardSource
    \/ TruncateProperties \/ RewriteProperties \/ RestoreWorld
    \/ MarkRolledBack \/ ClearActiveProcess \/ RestoreLaws
    \/ ReleaseReset \/ Conclude \/ AwaitSuccessor

Environment ==
    \/ NormalExits \/ RequestReset
    \/ ChildExecs \/ ChildEnds \/ ReportHealth \/ PlayerJoins
    \/ ArchiveFails \/ Crash \/ Signal \/ Reboot

Next == Start \/ Supervise \/ Environment

Spec == Init /\ [][Next]_vars

\* The operator restarts a supervisor that ended, the shell runs its next
\* command, and a forked launcher reaches its exec. Servers, players and
\* disturbances owe nothing.
Fairness == WF_vars(Start) /\ WF_vars(Supervise) /\ WF_vars(ChildExecs)

FairSpec == Spec /\ Fairness
=============================================================================
