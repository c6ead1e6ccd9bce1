------------------------- MODULE WorldServerProofs -------------------------
(***************************************************************************)
(* Servers and their players, for every number of attempts, resets and     *)
(* disturbances. At most one server or launcher exists: whoever died, the  *)
(* process record and the position of the next supervisor account for      *)
(* every process left. And a world that a player has joined is not moved,  *)
(* but to stage it, unless an archive fails its verification.              *)
(***************************************************************************)
EXTENDS WorldCommitProofs

\* Where the supervisor has stopped what its predecessors left, or has not
\* launched a candidate yet.
ServerlessControls == {"normal", "parse", "create", "record", "resume", "rolled", "recheck",
    "stage", "inspect", "fork", "mark-rolled-back", "clear", "restore-laws"} \cup
    (StagedControls \ {"handshake", "poll", "stable", "failed"})

\* A launcher writes the record before it becomes the server, so the record
\* names every server of a successor; a launcher without one is still being
\* waited for, or was left by a supervisor that died.
ServerInv ==
    /\ normal => forked = {} /\ up = {} /\ sup \in {"serving", "down"}
    /\ sup = "serving" => normal
    /\ forked # {} => up = {} /\ sup \in {"handshake", "down"}
    /\ \A p, q \in forked : p = q
    /\ \A p \in up : p = record
    /\ sup = "handshake" => forked \subseteq {child}
    /\ child # 0 => forked \subseteq {child} /\ up \subseteq {child}
    /\ sup \in ServerlessControls => up = {}
    /\ sup = "await" => child # 0

LEMMA InitServerInv == Init => ServerInv
BY DEF Init, ServerInv, ServerlessControls, StagedControls, AttemptControls

LEMMA NextServerInv == ServerInv /\ [Next]_vars => ServerInv'
<1> SUFFICES ASSUME ServerInv, [Next]_vars PROVE ServerInv'
  OBVIOUS
<1> USE DEF ServerInv, ServerlessControls, StagedControls, AttemptControls
<1> USE DEF Goto, Die, StopRecorded, Strikes, Quiet,
        worlds, ledger, control, root, evidences, vault, procs, locals
<1>0. CASE UNCHANGED vars
  BY <1>0 DEF vars
<1>1. CASE Start
  BY <1>1 DEF Start
<1>2. CASE ReconcileActiveProcess
  BY <1>2 DEF ReconcileActiveProcess
<1>3. CASE LaunchNormal
  BY <1>3 DEF LaunchNormal
<1>4. CASE ParseReset
  BY <1>4 DEF ParseReset
<1>5. CASE CreateTransaction
  BY <1>5 DEF CreateTransaction
<1>6. CASE RecordRequest
  BY <1>6 DEF RecordRequest, WritePhase, Legal, Plain, Prepared, Running,
      NoPhase, AttemptPhases
<1>7. CASE ResumeTransaction
  BY <1>7 DEF ResumeTransaction
<1>8. CASE RecoverCommitted
  BY <1>8 DEF RecoverCommitted
<1>9. CASE RecoverCommittedLaws
  BY <1>9 DEF RecoverCommittedLaws
<1>10. CASE RecoverRolledBack
  BY <1>10 DEF RecoverRolledBack
<1>11. CASE RecoverHealthVerified
  BY <1>11 DEF RecoverHealthVerified
<1>12. CASE StageWorld
  BY <1>12 DEF StageWorld
<1>13. CASE MarkStaged
  BY <1>13 DEF MarkStaged, WritePhase, Legal, Plain, Prepared, Running, NoPhase,
      AttemptPhases
<1>14. CASE ValidateWorldBinding
  BY <1>14 DEF ValidateWorldBinding
<1>15. CASE BeginArchive
  BY <1>15 DEF BeginArchive
<1>16. CASE ZipWorld
  BY <1>16 DEF ZipWorld
<1>17. CASE ZipFinished
  BY <1>17 DEF ZipFinished
<1>18. CASE PublishArchive
  BY <1>18 DEF PublishArchive
<1>19. CASE ReverifyArchive
  BY <1>19 DEF ReverifyArchive
<1>20. CASE WriteDigest
  BY <1>20 DEF WriteDigest
<1>21. CASE MoveDigest
  BY <1>21 DEF MoveDigest
<1>22. CASE MarkArchived
  BY <1>22 DEF MarkArchived, WritePhase, Legal, Plain, Prepared, Running,
      NoPhase, AttemptPhases
<1>23. CASE UndoCandidate
  BY <1>23 DEF UndoCandidate
<1>24. CASE BeginAttempts
  BY <1>24 DEF BeginAttempts
<1>25. CASE NextAttempt
  BY <1>25 DEF NextAttempt, SetAside
<1>26. CASE AttemptsExhausted
  BY <1>26 DEF AttemptsExhausted, SetAside
<1>27. CASE DrawSeed
  BY <1>27 DEF DrawSeed
<1>28. CASE SetServerSeed
  BY <1>28 DEF SetServerSeed
<1>29. CASE PrepareWorld
  BY <1>29 DEF PrepareWorld
<1>30. CASE MarkPrepared
  BY <1>30 DEF MarkPrepared, WritePhase, Legal, Plain, Prepared, Running,
      NoPhase, AttemptPhases
<1>31. CASE Fork
  <2>1. forked = {} /\ up = {} /\ ~normal
    BY <1>31 DEF Fork
  <2>2. /\ forked' = {request} /\ up' = {} /\ normal' = normal
        /\ sup' = "handshake" /\ child' = request
    BY <1>31, <2>1 DEF Fork
  <2> QED
    BY <2>1, <2>2
<1>32. CASE Handshake
  BY <1>32 DEF Handshake, WritePhase, Legal, Plain, Prepared, Running, NoPhase,
      AttemptPhases
<1>33. CASE PollHealth
  BY <1>33 DEF PollHealth
<1>34. CASE StabilityWindow
  BY <1>34 DEF StabilityWindow
<1>35. CASE StopFailedServer
  BY <1>35 DEF StopFailedServer
<1>36. CASE InspectCandidate
  BY <1>36 DEF InspectCandidate
<1>37. CASE RecordHealth
  BY <1>37 DEF RecordHealth, WritePhase, Legal, Plain, Prepared, Running,
      NoPhase, AttemptPhases
<1>38. CASE SealArchive
  BY <1>38 DEF SealArchive
<1>39. CASE PromoteLaws
  BY <1>39 DEF PromoteLaws
<1>40. CASE CommitLineage
  BY <1>40 DEF CommitLineage
<1>41. CASE CommitPerks
  BY <1>41 DEF CommitPerks
<1>42. CASE MarkCommitted
  BY <1>42 DEF MarkCommitted, WritePhase, Legal, Plain, Prepared, Running,
      NoPhase, AttemptPhases
<1>43. CASE DiscardSource
  BY <1>43 DEF DiscardSource
<1>44. CASE TruncateProperties
  BY <1>44 DEF TruncateProperties
<1>45. CASE RewriteProperties
  BY <1>45 DEF RewriteProperties
<1>46. CASE RestoreWorld
  BY <1>46 DEF RestoreWorld
<1>47. CASE MarkRolledBack
  BY <1>47 DEF MarkRolledBack, WritePhase, Legal, Plain, Prepared, Running,
      NoPhase, AttemptPhases
<1>48. CASE ClearActiveProcess
  BY <1>48 DEF ClearActiveProcess
<1>49. CASE RestoreLaws
  BY <1>49 DEF RestoreLaws
<1>50. CASE ReleaseReset
  BY <1>50 DEF ReleaseReset, Release
<1>51. CASE Conclude
  BY <1>51 DEF Conclude
<1>52. CASE AwaitSuccessor
  BY <1>52 DEF AwaitSuccessor
<1>53. CASE NormalExits
  BY <1>53 DEF NormalExits
<1>54. CASE RequestReset
  BY <1>54 DEF RequestReset, NoPhase, Plain
<1>55. CASE ChildExecs
  BY <1>55 DEF ChildExecs
<1>56. CASE ChildEnds
  BY <1>56 DEF ChildEnds
<1>57. CASE ReportHealth
  BY <1>57 DEF ReportHealth
<1>58. CASE PlayerJoins
  BY <1>58 DEF PlayerJoins
<1>59. CASE ArchiveFails
  BY <1>59 DEF ArchiveFails
<1>60. CASE Crash
  BY <1>60 DEF Crash
<1>61. CASE Signal
  BY <1>61 DEF Signal
<1>62. CASE Reboot
  BY <1>62 DEF Reboot
<1> QED
  BY <1>0, <1>1, <1>2, <1>3, <1>4, <1>5, <1>6, <1>7, <1>8, <1>9, <1>10, <1>11, <1>12,
     <1>13, <1>14, <1>15, <1>16, <1>17, <1>18, <1>19, <1>20, <1>21, <1>22,
     <1>23, <1>24, <1>25, <1>26, <1>27, <1>28, <1>29, <1>30, <1>31, <1>32,
     <1>33, <1>34, <1>35, <1>36, <1>37, <1>38, <1>39, <1>40, <1>41, <1>42,
     <1>43, <1>44, <1>45, <1>46, <1>47, <1>48, <1>49, <1>50, <1>51, <1>52,
     <1>53, <1>54, <1>55, <1>56, <1>57, <1>58, <1>59, <1>60, <1>61, <1>62
  DEF Next, Supervise, Environment

\* At most one server or launcher exists: the lock, the stop of the recorded
\* process and the wait for a forked launcher leave no second one, whichever of
\* supervisor, launcher and server died first (lines 483-500, 660-700).
THEOREM OnlyOneServer == Spec => []OneServer
<1>1. ServerInv => OneServer
  BY DEF ServerInv, OneServer
<1> QED
  BY <1>1, InitServerInv, NextServerInv, PTL DEF Spec

-----------------------------------------------------------------------------
(* No world that a player has joined is moved, but to stage it.            *)

\* Before an archive is verified there is no candidate.
Unattempted == {"none", "request-recorded", "world-staged"}

\* Where a world is about to be put in place.
VacantControls == {"draw", "set-seed", "prepare", "restore-properties",
                   "rewrite-properties", "restore-world"}

ArchivingControls == {"binding", "archive", "zip", "zipping", "publish", "reverify",
                      "digest", "digest-move", "mark-archived", "undo"}

\* An archive can fail by itself only while there is no candidate: the zip is
\* made before the first attempt, its digest is complete by then, and what
\* was verified once is found to be the archive of the same staged world.
CandidateInv ==
    /\ sup \in VacantControls => active = NoWorld
    /\ staged # NoWorld /\ phase.name \in Unattempted => active = NoWorld
    /\ dir = "complete" => phase.name # "none"
    /\ sup \in ArchivingControls => phase.name # "request-recorded"
    /\ sup \in {"zip", "zipping", "publish"} => phase.name = "world-staged"
    /\ sup \in {"attempts", "loop"} \cup AttemptControls => phase.name \notin Unattempted
    /\ sup = "reverify" => Published
    /\ phase.name \notin Unattempted \cup {"rolled-back"} => checksum = "written"
    /\ sup = "mark-archived" => checksum = "written"
    /\ sup = "undo" => active = NoWorld \/ "archive" \in Faults

LEMMA InitCandidateInv == Init => CandidateInv
BY DEF Init, CandidateInv, VacantControls, ArchivingControls, Unattempted, AttemptControls,
       NoPhase, Plain

LEMMA NextCandidateInv ==
    ASSUME HomeInv, CommitInv, CandidateInv, [Next]_vars
    PROVE  CandidateInv'
<1>a. PhaseInv /\ ControlInv
  BY DEF HomeInv
<1> USE <1>a DEF CandidateInv, VacantControls, ArchivingControls, Unattempted,
        PhaseInv, ControlInv
<1> USE DEF StagedHome, Verified, IdleControls, StagedControls,
        AttemptControls, Published, Goto, Die, StopRecorded, Strikes, Quiet,
        worlds, ledger, control, root, evidences, vault, procs, locals
<1>0. CASE UNCHANGED vars
  BY <1>0 DEF vars
<1>1. CASE Start
  BY <1>1 DEF Start
<1>2. CASE ReconcileActiveProcess
  BY <1>2 DEF ReconcileActiveProcess
<1>3. CASE LaunchNormal
  BY <1>3 DEF LaunchNormal
<1>4. CASE ParseReset
  BY <1>4 DEF ParseReset
<1>5. CASE CreateTransaction
  BY <1>5 DEF CreateTransaction
<1>6. CASE RecordRequest
  <2>1. phase.name = "none" /\ UNCHANGED <<worlds, checksum, archives, tx>>
    BY <1>6 DEF RecordRequest
  <2>2. Legal(phase, Plain("request-recorded"))
    BY <2>1 DEF Legal, Plain, Phases, PlainPhases
  <2>3. phase' = Plain("request-recorded") /\ sup' = "resume"
    BY <1>6, <2>2 DEF RecordRequest, WritePhase
  <2>4. staged # NoWorld => active = NoWorld
    BY <2>1
  <2> QED
    BY <2>1, <2>3, <2>4 DEF Plain
<1>7. CASE ResumeTransaction
  BY <1>7 DEF ResumeTransaction
<1>8. CASE RecoverCommitted
  BY <1>8 DEF RecoverCommitted
<1>9. CASE RecoverCommittedLaws
  BY <1>9 DEF RecoverCommittedLaws
<1>10. CASE RecoverRolledBack
  BY <1>10 DEF RecoverRolledBack
<1>11. CASE RecoverHealthVerified
  BY <1>11 DEF RecoverHealthVerified
<1>12. CASE StageWorld
  BY <1>12 DEF StageWorld
<1>13. CASE MarkStaged
  BY <1>13 DEF MarkStaged, WritePhase, Legal, Plain, Prepared, Running, NoPhase,
      AttemptPhases
<1>14. CASE ValidateWorldBinding
  BY <1>14 DEF ValidateWorldBinding
<1>15. CASE BeginArchive
  BY <1>15 DEF BeginArchive
<1>16. CASE ZipWorld
  BY <1>16 DEF ZipWorld
<1>17. CASE ZipFinished
  BY <1>17 DEF ZipFinished
<1>18. CASE PublishArchive
  BY <1>18 DEF PublishArchive
<1>19. CASE ReverifyArchive
  <2>1. \E a \in archives : a.tx = tx /\ a.world = staged /\ a.whole
    BY <1>19 DEF ReverifyArchive, CommitInv, ArchiveInv, HomeWorld
  <2> QED
    BY <1>19, <2>1 DEF ReverifyArchive
<1>20. CASE WriteDigest
  BY <1>20 DEF WriteDigest
<1>21. CASE MoveDigest
  BY <1>21 DEF MoveDigest
<1>22. CASE MarkArchived
  BY <1>22 DEF MarkArchived, WritePhase, Legal, Plain, Prepared, Running, NoPhase,
      AttemptPhases
<1>23. CASE UndoCandidate
  BY <1>23 DEF UndoCandidate
<1>24. CASE BeginAttempts
  BY <1>24 DEF BeginAttempts
<1>25. CASE NextAttempt
  BY <1>25 DEF NextAttempt, SetAside
<1>26. CASE AttemptsExhausted
  BY <1>26 DEF AttemptsExhausted, SetAside
<1>27. CASE DrawSeed
  BY <1>27 DEF DrawSeed
<1>28. CASE SetServerSeed
  BY <1>28 DEF SetServerSeed
<1>29. CASE PrepareWorld
  BY <1>29 DEF PrepareWorld
<1>30. CASE MarkPrepared
  BY <1>30 DEF MarkPrepared, WritePhase, Legal, Plain, Prepared, Running, NoPhase,
      AttemptPhases
<1>31. CASE Fork
  BY <1>31 DEF Fork
<1>32. CASE Handshake
  BY <1>32 DEF Handshake, WritePhase, Legal, Plain, Prepared, Running, NoPhase,
      AttemptPhases
<1>33. CASE PollHealth
  BY <1>33 DEF PollHealth
<1>34. CASE StabilityWindow
  BY <1>34 DEF StabilityWindow
<1>35. CASE StopFailedServer
  BY <1>35 DEF StopFailedServer
<1>36. CASE InspectCandidate
  BY <1>36 DEF InspectCandidate
<1>37. CASE RecordHealth
  BY <1>37 DEF RecordHealth, WritePhase, Legal, Plain, Prepared, Running, NoPhase,
      AttemptPhases
<1>38. CASE SealArchive
  BY <1>38 DEF SealArchive
<1>39. CASE PromoteLaws
  BY <1>39 DEF PromoteLaws
<1>40. CASE CommitLineage
  BY <1>40 DEF CommitLineage
<1>41. CASE CommitPerks
  BY <1>41 DEF CommitPerks
<1>42. CASE MarkCommitted
  BY <1>42 DEF MarkCommitted, WritePhase, Legal, Plain, Prepared, Running, NoPhase,
      AttemptPhases
<1>43. CASE DiscardSource
  BY <1>43 DEF DiscardSource
<1>44. CASE TruncateProperties
  BY <1>44 DEF TruncateProperties
<1>45. CASE RewriteProperties
  BY <1>45 DEF RewriteProperties
<1>46. CASE RestoreWorld
  BY <1>46 DEF RestoreWorld
<1>47. CASE MarkRolledBack
  BY <1>47 DEF MarkRolledBack, WritePhase, Legal, Plain, Prepared, Running, NoPhase,
      AttemptPhases
<1>48. CASE ClearActiveProcess
  BY <1>48 DEF ClearActiveProcess
<1>49. CASE RestoreLaws
  BY <1>49 DEF RestoreLaws
<1>50. CASE ReleaseReset
  BY <1>50 DEF ReleaseReset, Release
<1>51. CASE Conclude
  BY <1>51 DEF Conclude
<1>52. CASE AwaitSuccessor
  BY <1>52 DEF AwaitSuccessor
<1>53. CASE NormalExits
  BY <1>53 DEF NormalExits
<1>54. CASE RequestReset
  BY <1>54 DEF RequestReset, NoPhase, Plain
<1>55. CASE ChildExecs
  BY <1>55 DEF ChildExecs
<1>56. CASE ChildEnds
  BY <1>56 DEF ChildEnds
<1>57. CASE ReportHealth
  BY <1>57 DEF ReportHealth
<1>58. CASE PlayerJoins
  BY <1>58 DEF PlayerJoins
<1>59. CASE ArchiveFails
  BY <1>59 DEF ArchiveFails
<1>60. CASE Crash
  BY <1>60 DEF Crash
<1>61. CASE Signal
  BY <1>61 DEF Signal
<1>62. CASE Reboot
  BY <1>62 DEF Reboot
<1> QED
  BY <1>0, <1>1, <1>2, <1>3, <1>4, <1>5, <1>6, <1>7, <1>8, <1>9, <1>10, <1>11, <1>12,
     <1>13, <1>14, <1>15, <1>16, <1>17, <1>18, <1>19, <1>20, <1>21, <1>22,
     <1>23, <1>24, <1>25, <1>26, <1>27, <1>28, <1>29, <1>30, <1>31, <1>32,
     <1>33, <1>34, <1>35, <1>36, <1>37, <1>38, <1>39, <1>40, <1>41, <1>42,
     <1>43, <1>44, <1>45, <1>46, <1>47, <1>48, <1>49, <1>50, <1>51, <1>52,
     <1>53, <1>54, <1>55, <1>56, <1>57, <1>58, <1>59, <1>60, <1>61, <1>62
  DEF Next, Supervise, Environment


LEMMA CandidateInvariant == Spec => []CandidateInv
BY InitCandidateInv, NextCandidateInv, CommitInvariant, PTL DEF Spec

\* Worlds are put in place, taken away and set aside by these steps alone.
LEMMA OtherStepsLeaveWorlds ==
    Next => \/ StageWorld \/ UndoCandidate \/ BeginAttempts \/ NextAttempt
            \/ AttemptsExhausted \/ PrepareWorld \/ RestoreWorld
            \/ active' = active
BY DEF Next, Supervise, Environment, Start, ReconcileActiveProcess, LaunchNormal,
       ParseReset, CreateTransaction, RecordRequest, ResumeTransaction, RecoverCommitted,
       RecoverCommittedLaws, RecoverRolledBack, RecoverHealthVerified, MarkStaged,
       ValidateWorldBinding, BeginArchive, ZipWorld, ZipFinished, PublishArchive,
       ReverifyArchive, WriteDigest, MoveDigest, MarkArchived, DrawSeed, SetServerSeed,
       MarkPrepared, Fork, Handshake, PollHealth, StabilityWindow, StopFailedServer,
       InspectCandidate, RecordHealth, SealArchive, PromoteLaws, CommitLineage,
       CommitPerks, MarkCommitted, DiscardSource, TruncateProperties, RewriteProperties,
       MarkRolledBack, ClearActiveProcess, RestoreLaws, ReleaseReset, Release, Conclude,
       AwaitSuccessor, NormalExits, RequestReset, ChildExecs, ChildEnds, ReportHealth,
       PlayerJoins, ArchiveFails, Crash, Signal, Reboot, Quiet, worlds

\* InhabitedCandidatePreserved: while no verification of an archive fails, no
\* crash, signal, reboot or unnoticed mv makes the supervisor move a world that a
\* player has joined, but to stage it for the next reset (lines 656-667). With such
\* failures rollback_archive_failure does.
THEOREM CandidatesPreserved ==
    ASSUME "archive" \notin Faults
    PROVE  Spec => InhabitedCandidatePreserved
<1>1. CandidateInv /\ [Next]_vars => [Inhabited(active) /\ active' # active => staged' = active]_vars
  <2> SUFFICES ASSUME CandidateInv, Next, Inhabited(active), active' # active
               PROVE  staged' = active
    BY DEF vars
  <2>0. active # NoWorld
    BY DEF Inhabited
  <2>1. CASE StageWorld
    BY <2>1 DEF StageWorld
  <2>2. CASE UndoCandidate
    BY <2>0, <2>2 DEF UndoCandidate, CandidateInv
  <2>3. CASE BeginAttempts
    BY <2>3 DEF BeginAttempts
  <2>4. CASE NextAttempt \/ AttemptsExhausted
    BY <2>4 DEF NextAttempt, AttemptsExhausted, SetAside
  <2>5. CASE PrepareWorld
    BY <2>0, <2>5 DEF PrepareWorld, CandidateInv, VacantControls
  <2>6. CASE RestoreWorld
    BY <2>0, <2>6 DEF RestoreWorld, CandidateInv, VacantControls
  <2> QED
    BY <2>1, <2>2, <2>3, <2>4, <2>5, <2>6, OtherStepsLeaveWorlds
<1> QED
  BY <1>1, CandidateInvariant, PTL DEF Spec, InhabitedCandidatePreserved
=============================================================================
