----------------------- MODULE WorldSupervisorProofs -----------------------
(***************************************************************************)
(* Proofs about the world lifecycle supervisor, for every number of        *)
(* attempts, resets and disturbances, every kind of them and every set of  *)
(* seeds: it keeps its types, it never loses the home world, and it never  *)
(* leaves a reset that a restart cannot parse.                             *)
(***************************************************************************)
EXTENDS WorldSupervisorProperties, TLAPS

-----------------------------------------------------------------------------
(* The inductive invariant.                                                *)

\* Between NextAttempt and InspectCandidate the attempt is an authorized one,
\* so that counting it cannot leave the domain of k; the loop starts at one.
AttemptControls == {"draw", "set-seed", "prepare", "mark-prepared", "fork",
                    "handshake", "poll", "stable", "failed", "inspect"}

AttemptAuthorized ==
    /\ sup \in AttemptControls => k <= MaxAttempts
    /\ sup = "loop" => k # 0

Verified == {"health-verified", "lineage-committed"}

\* The old world is staged, and the transaction still open.
StagedHome ==
    /\ staged # NoWorld /\ staged.gen = lineage
    /\ lineage = base /\ dir = "complete"
    /\ phase.name \notin Verified \cup {"rolled-back"}

CandidateInPlace == active # NoWorld /\ active.gen = base + 1

\* What the phase file says of the worlds and of the lineage.
PhaseInv ==
    /\ dir # "complete" => phase.name = "none"
    /\ phase.name \in Verified => CandidateInPlace
    /\ phase.name = "lineage-committed" => lineage = base + 1
    /\ phase.name = "health-verified" =>
         \/ lineage = base + 1
         \/ lineage = base /\ staged # NoWorld /\ staged.gen = lineage
    /\ dir = "complete" /\ phase.name \notin Verified => lineage = base
    /\ staged # NoWorld /\ phase.name \notin Verified =>
         staged.gen = lineage /\ dir = "complete"
    /\ phase.name = "rolled-back" => staged = NoWorld
    /\ ~Resetting => staged = NoWorld

\* Where the supervisor has no transaction at hand.
IdleControls == {"down", "reconcile", "normal", "serving", "release-perks",
                 "release-laws", "released", "await"}

StagedControls == {"mark-staged", "binding", "archive", "zip", "zipping",
    "publish", "reverify", "digest", "digest-move", "mark-archived", "undo",
    "attempts", "loop", "restore-properties", "rewrite-properties",
    "restore-world"} \cup AttemptControls

CandidateControls == {"mark-prepared", "fork", "handshake", "poll", "stable",
                      "verify"}

\* What each position of the supervisor adds to the phase file.
ControlInv ==
    /\ sup \notin IdleControls => Resetting
    /\ sup = "create" => dir = "none"
    /\ sup = "record" => dir = "incomplete"
    /\ sup = "stage" => dir = "complete" /\ phase.name \notin Verified \cup {"rolled-back"}
    /\ sup \in StagedControls => StagedHome
    /\ sup \in CandidateControls => CandidateInPlace
    /\ sup = "verify" => StagedHome \/ phase.name = "health-verified"
    /\ sup \in {"recheck", "seal", "promote", "commit-lineage", "commit-perks",
                "mark-committed"} => phase.name = "health-verified"
    /\ sup \in {"commit-perks", "mark-committed"} => lineage = base + 1
    /\ sup \in {"committed", "committed-laws", "discard"} =>
         phase.name = "lineage-committed"
    /\ sup = "mark-rolled-back" =>
         staged = NoWorld /\ dir = "complete" /\ phase.name \notin Verified
    /\ sup \in {"rolled", "clear", "restore-laws"} => phase.name = "rolled-back"
    /\ sup = "release-reset" => staged = NoWorld

TypeInv == TypeOK /\ AttemptAuthorized

HomeInv == TypeInv /\ HomeWorldKept /\ PhaseInv /\ ControlInv

\* Once the reset file is gone the rest of the rm cannot bring it back.
ReleaseInv ==
    /\ ResetParsable
    /\ sup \in {"release-perks", "release-laws"} => ~Resetting

-----------------------------------------------------------------------------
(* Type correctness.                                                       *)

LEMMA InitTypeInv == Init => TypeInv
<1> SUFFICES ASSUME Init PROVE TypeInv
  OBVIOUS
<1>1. phase \in Phases /\ active \in Worlds /\ staged \in Worlds
  BY DEF Init, Phases, PlainPhases, Plain, NoPhase, Worlds, NoWorld
<1>2. normal \in BOOLEAN
  BY Zenon DEF Init
<1>3. sup \in Controls /\ k \in 0..MaxAttempts + 1 /\ AttemptAuthorized
  BY MaxAttemptsAssumption
  DEF Init, Controls, AttemptAuthorized, AttemptControls
<1>4. /\ inhabited \subseteq Nat /\ controls \subseteq ResetFiles
      /\ failed \subseteq Nat /\ archives \subseteq Archives
      /\ forked \subseteq Nat /\ up \subseteq Nat
  BY DEF Init
<1> QED
  BY <1>1, <1>2, <1>3, <1>4 DEF Init, TypeInv, TypeOK

\* Every step, of the supervisor or of its environment, keeps the types.
LEMMA NextTypeInv == TypeInv /\ [Next]_vars => TypeInv'
<1> SUFFICES ASSUME TypeInv, [Next]_vars PROVE TypeInv'
  OBVIOUS
<1> USE SupervisorAssumption, MaxAttemptsAssumption
        DEF TypeInv, TypeOK, AttemptAuthorized, AttemptControls, Controls
<1> USE DEF Worlds, NoWorld, ResetFiles, Archives, Phases, PlainPhases,
        AttemptPhases, Goto, Die, StopRecorded, Strikes, Quiet,
        worlds, ledger, control, root, evidences, vault, procs, locals
<1>1. CASE Start
  BY <1>1 DEF Start
<1>2. CASE ReconcileActiveProcess
  BY <1>2 DEF ReconcileActiveProcess
<1>3. CASE LaunchNormal
  <2>1. normal' \in BOOLEAN
    BY <1>3, Zenon DEF LaunchNormal
  <2>2. projected' \in Nat /\ sup' \in Controls /\ k' \in 0..MaxAttempts + 1 /\ child' \in Nat
    BY <1>3 DEF LaunchNormal
  <2> QED
    BY <1>3, <2>1, <2>2 DEF LaunchNormal
<1>4. CASE ParseReset
  BY <1>4 DEF ParseReset
<1>5. CASE CreateTransaction
  BY <1>5 DEF CreateTransaction
<1>6. CASE RecordRequest
  BY <1>6
  DEF RecordRequest, WritePhase, Legal, Plain, Prepared, Running, NoPhase
<1>7. CASE ResumeTransaction
  BY <1>7 DEF ResumeTransaction
<1>8. CASE RecoverCommitted
  <2>1. up' \subseteq up /\ (record' = 0 \/ record' = record)
    BY <1>8, Zenon DEF RecoverCommitted
  <2>2. record' \in Nat /\ up' \subseteq Nat
    BY <2>1
  <2>3. perks' \in Nat
    BY <1>8 DEF RecoverCommitted
  <2>4. checksum' \in {"none", "partial", "written"}
    BY <1>8 DEF RecoverCommitted
  <2>5. sup' \in Controls /\ k' \in 0..MaxAttempts + 1 /\ child' \in Nat
    BY <1>8 DEF RecoverCommitted
  <2>6. sup' \notin AttemptControls \cup {"loop"}
    BY <1>8 DEF RecoverCommitted
  <2> QED
    BY <1>8, <2>2, <2>3, <2>4, <2>5, <2>6 DEF RecoverCommitted
<1>9. CASE RecoverCommittedLaws
  BY <1>9 DEF RecoverCommittedLaws
<1>10. CASE RecoverRolledBack
  BY <1>10 DEF RecoverRolledBack
<1>11. CASE RecoverHealthVerified
  BY <1>11 DEF RecoverHealthVerified
<1>12. CASE StageWorld
  BY <1>12 DEF StageWorld
<1>13. CASE MarkStaged
  BY <1>13 DEF MarkStaged, WritePhase, Legal, Plain, Prepared, Running, NoPhase
<1>14. CASE ValidateWorldBinding
  BY <1>14 DEF ValidateWorldBinding
<1>15. CASE BeginArchive
  BY <1>15 DEF BeginArchive
<1>16. CASE ZipWorld
  BY <1>16 DEF ZipWorld
<1>17. CASE ZipFinished
  BY <1>17 DEF ZipFinished
<1>18. CASE PublishArchive
  <2>1. [tx |-> tx, world |-> staged, whole |-> partial = "whole"] \in Archives
    BY Zenon
  <2>2. archives' \subseteq archives
                  \cup {[tx |-> tx, world |-> staged, whole |-> partial = "whole"]}
    BY <1>18, Zenon DEF PublishArchive
  <2>3. archives' \subseteq Archives
    BY <2>2, <2>1, Zenon
  <2>4. faults' \in Nat /\ partial' \in {"none", "torn", "whole"}
    BY <1>18 DEF PublishArchive
  <2>5. sup' \in {"digest", "undo"} /\ UNCHANGED locals
    BY <1>18 DEF PublishArchive
  <2> QED
    BY <1>18, <2>3, <2>4, <2>5 DEF PublishArchive
<1>19. CASE ReverifyArchive
  BY <1>19 DEF ReverifyArchive
<1>20. CASE WriteDigest
  BY <1>20 DEF WriteDigest
<1>21. CASE MoveDigest
  BY <1>21 DEF MoveDigest
<1>22. CASE MarkArchived
  BY <1>22
  DEF MarkArchived, WritePhase, Legal, Plain, Prepared, Running, NoPhase
<1>23. CASE UndoCandidate
  BY <1>23 DEF UndoCandidate
<1>24. CASE BeginAttempts
  BY <1>24 DEF BeginAttempts
<1>25. CASE NextAttempt
  <2>1. /\ active' = active \/ active' = NoWorld
        /\ failed' \subseteq failed \cup {k - 1}
    BY <1>25, Zenon DEF NextAttempt, SetAside
  <2>2. k - 1 \in Nat
    BY <1>25 DEF NextAttempt
  <2>3. active' \in Worlds /\ failed' \subseteq Nat
    BY <2>1, <2>2
  <2>4. \/ sup' = "draw" /\ UNCHANGED locals
        \/ sup' = "down" /\ k' = 0 /\ child' = 0
    BY <1>25 DEF NextAttempt, SetAside
  <2> QED
    BY <1>25, <2>3, <2>4 DEF NextAttempt
<1>26. CASE AttemptsExhausted
  <2>1. /\ active' = active \/ active' = NoWorld
        /\ failed' \subseteq failed \cup {MaxAttempts}
    BY <1>26, Zenon DEF AttemptsExhausted, SetAside
  <2>2. MaxAttempts \in Nat
    BY <1>26 DEF AttemptsExhausted
  <2>3. active' \in Worlds /\ failed' \subseteq Nat
    BY <2>1, <2>2
  <2>4. \/ sup' = "restore-properties" /\ UNCHANGED locals
        \/ sup' = "down" /\ k' = 0 /\ child' = 0
    BY <1>26 DEF AttemptsExhausted, SetAside
  <2> QED
    BY <1>26, <2>3, <2>4 DEF AttemptsExhausted
<1>27. CASE DrawSeed
  BY <1>27 DEF DrawSeed
<1>28. CASE SetServerSeed
  BY <1>28 DEF SetServerSeed
<1>29. CASE PrepareWorld
  BY <1>29 DEF PrepareWorld
<1>30. CASE MarkPrepared
  BY <1>30
  DEF MarkPrepared, WritePhase, Legal, Plain, Prepared, Running, NoPhase
<1>31. CASE Fork
  BY <1>31 DEF Fork
<1>32. CASE Handshake
  BY <1>32 DEF Handshake, WritePhase, Legal, Plain, Prepared, Running, NoPhase
<1>33. CASE PollHealth
  BY <1>33 DEF PollHealth
<1>34. CASE StabilityWindow
  BY <1>34 DEF StabilityWindow
<1>35. CASE StopFailedServer
  BY <1>35 DEF StopFailedServer
<1>36. CASE InspectCandidate
  BY <1>36 DEF InspectCandidate
<1>37. CASE RecordHealth
  BY <1>37
  DEF RecordHealth, WritePhase, Legal, Plain, Prepared, Running, NoPhase
<1>38. CASE SealArchive
  BY <1>38 DEF SealArchive
<1>39. CASE PromoteLaws
  BY <1>39 DEF PromoteLaws
<1>40. CASE CommitLineage
  BY <1>40 DEF CommitLineage
<1>41. CASE CommitPerks
  BY <1>41 DEF CommitPerks
<1>42. CASE MarkCommitted
  BY <1>42
  DEF MarkCommitted, WritePhase, Legal, Plain, Prepared, Running, NoPhase
<1>43. CASE DiscardSource
  BY <1>43 DEF DiscardSource
<1>44. CASE TruncateProperties
  BY <1>44 DEF TruncateProperties
<1>45. CASE RewriteProperties
  BY <1>45 DEF RewriteProperties
<1>46. CASE RestoreWorld
  BY <1>46 DEF RestoreWorld
<1>47. CASE MarkRolledBack
  BY <1>47
  DEF MarkRolledBack, WritePhase, Legal, Plain, Prepared, Running, NoPhase
<1>48. CASE ClearActiveProcess
  BY <1>48 DEF ClearActiveProcess
<1>49. CASE RestoreLaws
  BY <1>49 DEF RestoreLaws
<1>50. CASE ReleaseReset
  <2>1. controls' \subseteq ResetFiles
    BY <1>50 DEF ReleaseReset, Release
  <2>2. sup' \in {"release-perks", "release-laws", "released"} /\ UNCHANGED locals
    BY <1>50 DEF ReleaseReset, Release
  <2>3. UNCHANGED <<worlds, ledger, bound, request, health, record, root,
                    evidences, phase, vault, procs, faults>>
    BY <1>50 DEF ReleaseReset, Release
  <2> QED
    BY <2>1, <2>2, <2>3
<1>51. CASE Conclude
  <2>1. up' \subseteq Nat /\ record' \in Nat
    BY <1>51 DEF Conclude
  <2>2. sup' \in Controls /\ UNCHANGED locals
    BY <1>51 DEF Conclude
  <2> QED
    BY <1>51, <2>1, <2>2 DEF Conclude
<1>52. CASE AwaitSuccessor
  BY <1>52 DEF AwaitSuccessor
<1>53. CASE NormalExits
  <2>1. normal' \in BOOLEAN
    BY <1>53, Zenon DEF NormalExits
  <2>2. sup' \in Controls /\ k' \in 0..MaxAttempts + 1 /\ child' \in Nat
    BY <1>53 DEF NormalExits
  <2> QED
    BY <1>53, <2>1, <2>2 DEF NormalExits
<1>54. CASE RequestReset
  BY <1>54 DEF RequestReset, NoPhase, Plain
<1>55. CASE ChildExecs
  BY <1>55 DEF ChildExecs
<1>56. CASE ChildEnds
  BY <1>56 DEF ChildEnds
<1>57. CASE ReportHealth
  BY <1>57 DEF ReportHealth
<1>58. CASE PlayerJoins
  BY <1>58 DEF PlayerJoins
<1>59. CASE ArchiveFails
  BY <1>59 DEF ArchiveFails
<1>60. CASE Crash
  BY <1>60 DEF Crash
<1>61. CASE Signal
  BY <1>61 DEF Signal
<1>62. CASE Reboot
  <2>1. normal' \in BOOLEAN
    BY <1>62, Zenon DEF Reboot
  <2> QED
    BY <1>62, <2>1 DEF Reboot
<1>63. CASE UNCHANGED vars
  BY <1>63 DEF vars
<1> QED
  BY <1>1, <1>2, <1>3, <1>4, <1>5, <1>6, <1>7, <1>8, <1>9, <1>10, <1>11,
     <1>12, <1>13, <1>14, <1>15, <1>16, <1>17, <1>18, <1>19, <1>20, <1>21,
     <1>22, <1>23, <1>24, <1>25, <1>26, <1>27, <1>28, <1>29, <1>30, <1>31,
     <1>32, <1>33, <1>34, <1>35, <1>36, <1>37, <1>38, <1>39, <1>40, <1>41,
     <1>42, <1>43, <1>44, <1>45, <1>46, <1>47, <1>48, <1>49, <1>50, <1>51,
     <1>52, <1>53, <1>54, <1>55, <1>56, <1>57, <1>58, <1>59, <1>60, <1>61,
     <1>62, <1>63
  DEF Next, Supervise, Environment

\* Every variable of the supervisor keeps its domain; no phase file names an
\* attempt beyond the authorized ones (lines 272-284, 907-919).
THEOREM TypeCorrect == Spec => []TypeOK
<1>1. Init => TypeInv
  BY InitTypeInv
<1>2. TypeInv /\ [Next]_vars => TypeInv'
  BY NextTypeInv
<1>3. TypeInv => TypeOK
  BY DEF TypeInv
<1> QED
  BY <1>1, <1>2, <1>3, PTL DEF Spec

-----------------------------------------------------------------------------
(* The home world.                                                         *)

LEMMA InitHomeInv == Init => HomeInv
<1> SUFFICES ASSUME Init PROVE HomeInv
  OBVIOUS
<1>1. TypeInv
  BY InitTypeInv
<1>2. HomeWorldKept /\ PhaseInv /\ ControlInv
  BY DEF Init, HomeWorldKept, PhaseInv, ControlInv, Verified, IdleControls,
         StagedControls, CandidateControls, AttemptControls, NoWorld, Plain,
         NoPhase, Resetting
<1> QED
  BY <1>1, <1>2 DEF HomeInv

\* Every step keeps the home world and what the phase file and the position of
\* the supervisor say of it.
LEMMA NextHomeInv ==
    ASSUME TypeInv, HomeWorldKept, PhaseInv, ControlInv, Next
    PROVE  HomeWorldKept' /\ PhaseInv' /\ ControlInv'
<1>a. lineage \in Nat /\ base \in Nat
  BY DEF TypeInv, TypeOK
<1> USE <1>a DEF HomeWorldKept, PhaseInv, ControlInv
<1> USE
DEF StagedHome, CandidateInPlace, Verified, IdleControls, StagedControls,
        CandidateControls, AttemptControls, NoWorld, Resetting, Goto, Die,
        StopRecorded, Strikes, Quiet,
        worlds, ledger, control, root, evidences, vault, procs, locals
<1>1. CASE Start
  BY <1>1 DEF Start
<1>2. CASE ReconcileActiveProcess
  BY <1>2 DEF ReconcileActiveProcess
<1>3. CASE LaunchNormal
  BY <1>3 DEF LaunchNormal
<1>4. CASE ParseReset
  BY <1>4 DEF ParseReset
<1>5. CASE CreateTransaction
  BY <1>5 DEF CreateTransaction
<1>6. CASE RecordRequest
  BY <1>6
  DEF RecordRequest, WritePhase, Legal, Plain, Prepared, Running, NoPhase,
      AttemptPhases
<1>7. CASE ResumeTransaction
  BY <1>7 DEF ResumeTransaction
<1>8. CASE RecoverCommitted
  BY <1>8 DEF RecoverCommitted
<1>9. CASE RecoverCommittedLaws
  BY <1>9 DEF RecoverCommittedLaws
<1>10. CASE RecoverRolledBack
  BY <1>10 DEF RecoverRolledBack
<1>11. CASE RecoverHealthVerified
  BY <1>11 DEF RecoverHealthVerified
<1>12. CASE StageWorld
  BY <1>12 DEF StageWorld
<1>13. CASE MarkStaged
  BY <1>13
  DEF MarkStaged, WritePhase, Legal, Plain, Prepared, Running, NoPhase,
      AttemptPhases
<1>14. CASE ValidateWorldBinding
  BY <1>14 DEF ValidateWorldBinding
<1>15. CASE BeginArchive
  BY <1>15 DEF BeginArchive
<1>16. CASE ZipWorld
  BY <1>16 DEF ZipWorld
<1>17. CASE ZipFinished
  BY <1>17 DEF ZipFinished
<1>18. CASE PublishArchive
  BY <1>18 DEF PublishArchive
<1>19. CASE ReverifyArchive
  BY <1>19 DEF ReverifyArchive
<1>20. CASE WriteDigest
  BY <1>20 DEF WriteDigest
<1>21. CASE MoveDigest
  BY <1>21 DEF MoveDigest
<1>22. CASE MarkArchived
  BY <1>22
  DEF MarkArchived, WritePhase, Legal, Plain, Prepared, Running, NoPhase,
      AttemptPhases
<1>23. CASE UndoCandidate
  BY <1>23 DEF UndoCandidate
<1>24. CASE BeginAttempts
  BY <1>24 DEF BeginAttempts
<1>25. CASE NextAttempt
  BY <1>25 DEF NextAttempt, SetAside
<1>26. CASE AttemptsExhausted
  BY <1>26 DEF AttemptsExhausted, SetAside
<1>27. CASE DrawSeed
  BY <1>27 DEF DrawSeed
<1>28. CASE SetServerSeed
  BY <1>28 DEF SetServerSeed
<1>29. CASE PrepareWorld
  BY <1>29 DEF PrepareWorld
<1>30. CASE MarkPrepared
  BY <1>30
  DEF MarkPrepared, WritePhase, Legal, Plain, Prepared, Running, NoPhase,
      AttemptPhases
<1>31. CASE Fork
  BY <1>31 DEF Fork
<1>32. CASE Handshake
  BY <1>32
  DEF Handshake, WritePhase, Legal, Plain, Prepared, Running, NoPhase,
      AttemptPhases
<1>33. CASE PollHealth
  BY <1>33 DEF PollHealth
<1>34. CASE StabilityWindow
  BY <1>34 DEF StabilityWindow
<1>35. CASE StopFailedServer
  BY <1>35 DEF StopFailedServer
<1>36. CASE InspectCandidate
  BY <1>36 DEF InspectCandidate
<1>37. CASE RecordHealth
  BY <1>37
  DEF RecordHealth, WritePhase, Legal, Plain, Prepared, Running, NoPhase,
      AttemptPhases
<1>38. CASE SealArchive
  BY <1>38 DEF SealArchive
<1>39. CASE PromoteLaws
  BY <1>39 DEF PromoteLaws
<1>40. CASE CommitLineage
  BY <1>40 DEF CommitLineage
<1>41. CASE CommitPerks
  BY <1>41 DEF CommitPerks
<1>42. CASE MarkCommitted
  BY <1>42
  DEF MarkCommitted, WritePhase, Legal, Plain, Prepared, Running, NoPhase,
      AttemptPhases
<1>43. CASE DiscardSource
  BY <1>43 DEF DiscardSource
<1>44. CASE TruncateProperties
  BY <1>44 DEF TruncateProperties
<1>45. CASE RewriteProperties
  BY <1>45 DEF RewriteProperties
<1>46. CASE RestoreWorld
  BY <1>46 DEF RestoreWorld
<1>47. CASE MarkRolledBack
  BY <1>47
  DEF MarkRolledBack, WritePhase, Legal, Plain, Prepared, Running, NoPhase,
      AttemptPhases
<1>48. CASE ClearActiveProcess
  BY <1>48 DEF ClearActiveProcess
<1>49. CASE RestoreLaws
  BY <1>49 DEF RestoreLaws
<1>50. CASE ReleaseReset
  BY <1>50 DEF ReleaseReset, Release
<1>51. CASE Conclude
  BY <1>51 DEF Conclude
<1>52. CASE AwaitSuccessor
  BY <1>52 DEF AwaitSuccessor
<1>53. CASE NormalExits
  BY <1>53 DEF NormalExits
<1>54. CASE RequestReset
  BY <1>54 DEF RequestReset, NoPhase, Plain
<1>55. CASE ChildExecs
  BY <1>55 DEF ChildExecs
<1>56. CASE ChildEnds
  BY <1>56 DEF ChildEnds
<1>57. CASE ReportHealth
  BY <1>57 DEF ReportHealth
<1>58. CASE PlayerJoins
  BY <1>58 DEF PlayerJoins
<1>59. CASE ArchiveFails
  BY <1>59 DEF ArchiveFails
<1>60. CASE Crash
  BY <1>60 DEF Crash
<1>61. CASE Signal
  BY <1>61 DEF Signal
<1>62. CASE Reboot
  BY <1>62 DEF Reboot
<1> QED
  BY <1>1, <1>2, <1>3, <1>4, <1>5, <1>6, <1>7, <1>8, <1>9, <1>10, <1>11,
     <1>12, <1>13, <1>14, <1>15, <1>16, <1>17, <1>18, <1>19, <1>20, <1>21,
     <1>22, <1>23, <1>24, <1>25, <1>26, <1>27, <1>28, <1>29, <1>30, <1>31,
     <1>32, <1>33, <1>34, <1>35, <1>36, <1>37, <1>38, <1>39, <1>40, <1>41,
     <1>42, <1>43, <1>44, <1>45, <1>46, <1>47, <1>48, <1>49, <1>50, <1>51,
     <1>52, <1>53, <1>54, <1>55, <1>56, <1>57, <1>58, <1>59, <1>60, <1>61,
     <1>62
  DEF Next, Supervise, Environment

LEMMA HomeInductive == HomeInv /\ [Next]_vars => HomeInv'
<1> SUFFICES ASSUME HomeInv, [Next]_vars PROVE HomeInv'
  OBVIOUS
<1>1. TypeInv'
  BY NextTypeInv DEF HomeInv
<1>2. HomeWorldKept' /\ PhaseInv' /\ ControlInv'
  <2>1. CASE Next
    BY <2>1, NextHomeInv DEF HomeInv
  <2>2. CASE UNCHANGED vars
    BY <2>2 DEF vars, worlds, ledger, control, root, evidences, vault, procs,
                locals, HomeInv, HomeWorldKept, PhaseInv, ControlInv,
                StagedHome, CandidateInPlace, Resetting
  <2> QED
    BY <2>1, <2>2
<1> QED
  BY <1>1, <1>2 DEF HomeInv

\* Staging, attempts, rollback, commit, and crashes, signals, reboots and
\* archive failures in any order never lose the world of the lineage's own
\* generation (lines 638-654, 864-949, 611-623).
THEOREM HomeWorldNeverLost == Spec => []HomeWorldKept
<1>1. HomeInv => HomeWorldKept
  BY DEF HomeInv
<1> QED
  BY <1>1, InitHomeInv, HomeInductive, PTL DEF Spec

-----------------------------------------------------------------------------
(* The release of a reset.                                                 *)

\* Only RequestReset and ReleaseReset touch the reset's files.
LEMMA NextReleaseInv == ReleaseInv /\ [Next]_vars => ReleaseInv'
<1> SUFFICES ASSUME ReleaseInv, [Next]_vars PROVE ReleaseInv'
  OBVIOUS
<1> USE DEF ReleaseInv, ResetParsable, Resetting
<1>1. CASE RequestReset
  BY <1>1 DEF RequestReset, procs, root, ResetFiles
<1>2. CASE ReleaseReset
  BY <1>2 DEF ReleaseReset, Release, Goto, ResetFiles
<1>3. CASE ~RequestReset /\ ~ReleaseReset
  <2> USE <1>3
      DEF Next, Supervise, Environment, vars, Quiet,
            Start, ReconcileActiveProcess, LaunchNormal,
            ParseReset, CreateTransaction, RecordRequest,
            ResumeTransaction, RecoverCommitted,
            RecoverCommittedLaws, RecoverRolledBack,
            RecoverHealthVerified, StageWorld, MarkStaged,
            ValidateWorldBinding, BeginArchive, ZipWorld,
            ZipFinished, PublishArchive, ReverifyArchive,
            WriteDigest, MoveDigest, MarkArchived, UndoCandidate,
            BeginAttempts, NextAttempt, AttemptsExhausted,
            DrawSeed, SetServerSeed, PrepareWorld, MarkPrepared,
            Fork, Handshake, PollHealth, StabilityWindow,
            StopFailedServer, InspectCandidate, RecordHealth,
            SealArchive, PromoteLaws, CommitLineage, CommitPerks,
            MarkCommitted, DiscardSource, TruncateProperties,
            RewriteProperties, RestoreWorld, MarkRolledBack,
            ClearActiveProcess, RestoreLaws, Conclude,
            AwaitSuccessor, NormalExits, ChildExecs, ChildEnds,
            ReportHealth, PlayerJoins, ArchiveFails, Crash,
            Signal, Reboot
  <2>1. controls' = controls
    BY Zenon DEF control
  <2>2. sup' \notin {"release-perks", "release-laws"} \/ sup' = sup
    BY DEF Goto, Die, WritePhase, SetAside
  <2> QED
    BY <2>1, <2>2
<1> QED
  BY <1>1, <1>2, <1>3

\* A reset that is pending has its perks and laws beside it at every moment,
\* whatever interrupts the rm that releases it (lines 620-621, 633-634).
THEOREM ResetAlwaysParsable == Spec => []ResetParsable
<1>1. Init => ReleaseInv
  BY DEF Init, ReleaseInv, ResetParsable, Resetting
<1>2. ReleaseInv => ResetParsable
  BY DEF ReleaseInv
<1> QED
  BY <1>1, <1>2, NextReleaseInv, PTL DEF Spec
=============================================================================
