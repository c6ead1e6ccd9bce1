------------------------- MODULE WorldCommitProofs -------------------------
(***************************************************************************)
(* Proofs about what a succession commits, for every number of attempts,   *)
(* resets and disturbances: the succeeded worlds are archived, health is   *)
(* accepted for the candidate in place only, the files of a settled server *)
(* agree, the lineage advances and the reset is released only on a         *)
(* decision, and the supervisor implements WorldSuccession.                *)
(***************************************************************************)
EXTENDS WorldSupervisorProofs

-----------------------------------------------------------------------------
(* The inductive invariant, beside HomeInv.                                *)

\* The old world, until the lineage moves on.
HomeWorld == IF staged # NoWorld THEN staged ELSE active

\* Published archives were verified; that of the open transaction is of the
\* world it is to replace.
ArchiveInv ==
    /\ \A a \in archives : a.whole /\ a.tx <= tx
    /\ \A a \in archives : a.tx = tx =>
           /\ dir = "complete" /\ a.world.gen = base
           /\ lineage = base => a.world = HomeWorld
    /\ sup \in {"promote", "commit-lineage"} => Published
    /\ PastWorldsArchived

\* From its draw to its health the seed of a candidate is the one requested.
Launching == {"mark-prepared", "fork", "handshake", "poll", "stable"}

SeedInv ==
    /\ sup \in {"set-seed", "prepare"} \cup Launching =>
           request # 0 /\ request # staged.seed
    /\ sup \in {"prepare"} \cup Launching => props = request
    /\ sup \in Launching => active.seed = request /\ active.laws = tx
    /\ sup \in {"handshake", "poll", "stable"} => child = request
    /\ sup = "stable" => health = request

\* What is known of a candidate about to be accepted, and of an accepted one.
Accepted(seed) ==
    /\ seed # 0 /\ (staged # NoWorld => staged.seed # seed)
    /\ active.seed = seed /\ props = seed /\ active.laws = tx

HealthInv ==
    /\ sup = "verify" => request = health /\ Accepted(request)
    /\ phase.name \in Verified => Accepted(evidence)
    /\ phase.name = "health-verified" => request = evidence /\ health = evidence

\* Perks and laws follow the lineage, before and after it moves.
LedgerInv ==
    /\ phase.name \notin Verified =>
           /\ HomeWorld # NoWorld /\ HomeWorld.gen = lineage /\ HomeWorld.seed # 0
           /\ perks = lineage /\ laws = HomeWorld.laws
    /\ phase.name \in Verified =>
           /\ perks \in {base, base + 1} /\ lineage \in {base, base + 1}
           /\ lineage = base => staged.seed # 0
           /\ lineage = base + 1 => laws = active.laws
           /\ staged # NoWorld => staged.gen = base
    /\ sup = "commit-lineage" => laws = active.laws
    /\ sup = "mark-committed" \/ phase.name = "lineage-committed" => perks = base + 1

\* server.properties names the home world wherever no candidate is in place.
PropertiesInv ==
    /\ dir # "complete" => props = active.seed
    /\ dir = "complete" /\ phase.name \notin Verified =>
           /\ before = HomeWorld.seed
           /\ staged = NoWorld => props = before
    /\ sup = "restore-world" => props = before
    /\ Resetting /\ phase.name \notin Verified => bound = HomeWorld.seed

DecisionInv ==
    /\ sup = "release-reset" => phase.name \in {"lineage-committed", "rolled-back"}
    /\ ~Resetting => phase.name # "health-verified"

CommitInv ==
    ArchiveInv /\ SeedInv /\ HealthInv /\ LedgerInv /\ PropertiesInv /\ DecisionInv

-----------------------------------------------------------------------------
(* The invariant is inductive.                                             *)

LEMMA InitCommitInv == Init => CommitInv
BY DEF Init, CommitInv, ArchiveInv, PastWorldsArchived, SeedInv, HealthInv, LedgerInv,
       PropertiesInv, DecisionInv, HomeWorld, Launching, Verified, NoWorld, Plain, NoPhase,
       Resetting

\* Every step keeps what is known of seeds, health, ledger and properties.
LEMMA NextLedgerInv ==
    ASSUME HomeInv, CommitInv, Next
    PROVE  SeedInv' /\ HealthInv' /\ LedgerInv' /\ PropertiesInv' /\ DecisionInv'
<1>a. lineage \in Nat /\ base \in Nat /\ perks \in Nat
  BY DEF HomeInv, TypeInv, TypeOK
<1>b. HomeWorldKept /\ PhaseInv /\ ControlInv
  BY DEF HomeInv
<1>c. SeedInv /\ HealthInv /\ LedgerInv /\ PropertiesInv /\ DecisionInv
  BY DEF CommitInv
<1> USE <1>a, <1>b, <1>c
    DEF HomeWorldKept, PhaseInv, ControlInv, SeedInv, HealthInv, LedgerInv,
        PropertiesInv, DecisionInv, Accepted, HomeWorld, Launching, LawsHold
<1> USE DEF StagedHome, CandidateInPlace, Verified, IdleControls, StagedControls,
        CandidateControls, AttemptControls, NoWorld, Resetting, Goto, Die,
        StopRecorded, Strikes, Quiet,
        worlds, ledger, control, root, evidences, vault, procs, locals
<1>1. CASE Start
  BY <1>1 DEF Start
<1>2. CASE ReconcileActiveProcess
  BY <1>2 DEF ReconcileActiveProcess
<1>3. CASE LaunchNormal
  BY <1>3 DEF LaunchNormal
<1>4. CASE ParseReset
  BY <1>4 DEF ParseReset
<1>5. CASE CreateTransaction
  BY <1>5 DEF CreateTransaction
<1>6. CASE RecordRequest
  BY <1>6 DEF RecordRequest, WritePhase, Legal, Plain, Prepared, Running,
      NoPhase, AttemptPhases
<1>7. CASE ResumeTransaction
  BY <1>7 DEF ResumeTransaction
<1>8. CASE RecoverCommitted
  BY <1>8 DEF RecoverCommitted
<1>9. CASE RecoverCommittedLaws
  BY <1>9 DEF RecoverCommittedLaws
<1>10. CASE RecoverRolledBack
  BY <1>10 DEF RecoverRolledBack
<1>11. CASE RecoverHealthVerified
  BY <1>11 DEF RecoverHealthVerified
<1>12. CASE StageWorld
  BY <1>12 DEF StageWorld
<1>13. CASE MarkStaged
  BY <1>13 DEF MarkStaged, WritePhase, Legal, Plain, Prepared, Running, NoPhase,
      AttemptPhases
<1>14. CASE ValidateWorldBinding
  BY <1>14 DEF ValidateWorldBinding
<1>15. CASE BeginArchive
  BY <1>15 DEF BeginArchive
<1>16. CASE ZipWorld
  BY <1>16 DEF ZipWorld
<1>17. CASE ZipFinished
  BY <1>17 DEF ZipFinished
<1>18. CASE PublishArchive
  BY <1>18 DEF PublishArchive
<1>19. CASE ReverifyArchive
  BY <1>19 DEF ReverifyArchive
<1>20. CASE WriteDigest
  BY <1>20 DEF WriteDigest
<1>21. CASE MoveDigest
  BY <1>21 DEF MoveDigest
<1>22. CASE MarkArchived
  BY <1>22 DEF MarkArchived, WritePhase, Legal, Plain, Prepared, Running,
      NoPhase, AttemptPhases
<1>23. CASE UndoCandidate
  BY <1>23 DEF UndoCandidate
<1>24. CASE BeginAttempts
  BY <1>24 DEF BeginAttempts
<1>25. CASE NextAttempt
  BY <1>25 DEF NextAttempt, SetAside
<1>26. CASE AttemptsExhausted
  BY <1>26 DEF AttemptsExhausted, SetAside
<1>27. CASE DrawSeed
  <2>1. request' # 0 /\ request' # staged.seed
    BY <1>27, SupervisorAssumption DEF DrawSeed, SeedsInUse
  <2>2. /\ sup = "draw" /\ sup' = "set-seed"
        /\ UNCHANGED <<worlds, ledger, controls, bound, record, root, evidences, phase>>
    BY <1>27 DEF DrawSeed
  <2> QED
    BY <2>1, <2>2
<1>28. CASE SetServerSeed
  BY <1>28 DEF SetServerSeed
<1>29. CASE PrepareWorld
  BY <1>29 DEF PrepareWorld
<1>30. CASE MarkPrepared
  BY <1>30 DEF MarkPrepared, WritePhase, Legal, Plain, Prepared, Running,
      NoPhase, AttemptPhases
<1>31. CASE Fork
  BY <1>31 DEF Fork
<1>32. CASE Handshake
  BY <1>32 DEF Handshake, WritePhase, Legal, Plain, Prepared, Running, NoPhase,
      AttemptPhases
<1>33. CASE PollHealth
  BY <1>33 DEF PollHealth
<1>34. CASE StabilityWindow
  BY <1>34 DEF StabilityWindow
<1>35. CASE StopFailedServer
  BY <1>35 DEF StopFailedServer
<1>36. CASE InspectCandidate
  BY <1>36 DEF InspectCandidate
<1>37. CASE RecordHealth
  BY <1>37 DEF RecordHealth, WritePhase, Legal, Plain, Prepared, Running,
      NoPhase, AttemptPhases
<1>38. CASE SealArchive
  BY <1>38 DEF SealArchive
<1>39. CASE PromoteLaws
  BY <1>39 DEF PromoteLaws
<1>40. CASE CommitLineage
  BY <1>40 DEF CommitLineage
<1>41. CASE CommitPerks
  BY <1>41 DEF CommitPerks
<1>42. CASE MarkCommitted
  BY <1>42 DEF MarkCommitted, WritePhase, Legal, Plain, Prepared, Running,
      NoPhase, AttemptPhases
<1>43. CASE DiscardSource
  BY <1>43 DEF DiscardSource
<1>44. CASE TruncateProperties
  BY <1>44 DEF TruncateProperties
<1>45. CASE RewriteProperties
  BY <1>45 DEF RewriteProperties
<1>46. CASE RestoreWorld
  BY <1>46 DEF RestoreWorld
<1>47. CASE MarkRolledBack
  BY <1>47 DEF MarkRolledBack, WritePhase, Legal, Plain, Prepared, Running,
      NoPhase, AttemptPhases
<1>48. CASE ClearActiveProcess
  BY <1>48 DEF ClearActiveProcess
<1>49. CASE RestoreLaws
  BY <1>49 DEF RestoreLaws
<1>50. CASE ReleaseReset
  BY <1>50 DEF ReleaseReset, Release
<1>51. CASE Conclude
  BY <1>51 DEF Conclude
<1>52. CASE AwaitSuccessor
  BY <1>52 DEF AwaitSuccessor
<1>53. CASE NormalExits
  BY <1>53 DEF NormalExits
<1>54. CASE RequestReset
  BY <1>54 DEF RequestReset, NoPhase, Plain
<1>55. CASE ChildExecs
  BY <1>55 DEF ChildExecs
<1>56. CASE ChildEnds
  BY <1>56 DEF ChildEnds
<1>57. CASE ReportHealth
  BY <1>57 DEF ReportHealth
<1>58. CASE PlayerJoins
  BY <1>58 DEF PlayerJoins
<1>59. CASE ArchiveFails
  BY <1>59 DEF ArchiveFails
<1>60. CASE Crash
  BY <1>60 DEF Crash
<1>61. CASE Signal
  BY <1>61 DEF Signal
<1>62. CASE Reboot
  BY <1>62 DEF Reboot
<1> QED
  BY <1>1, <1>2, <1>3, <1>4, <1>5, <1>6, <1>7, <1>8, <1>9, <1>10, <1>11, <1>12,
     <1>13, <1>14, <1>15, <1>16, <1>17, <1>18, <1>19, <1>20, <1>21, <1>22,
     <1>23, <1>24, <1>25, <1>26, <1>27, <1>28, <1>29, <1>30, <1>31, <1>32,
     <1>33, <1>34, <1>35, <1>36, <1>37, <1>38, <1>39, <1>40, <1>41, <1>42,
     <1>43, <1>44, <1>45, <1>46, <1>47, <1>48, <1>49, <1>50, <1>51, <1>52,
     <1>53, <1>54, <1>55, <1>56, <1>57, <1>58, <1>59, <1>60, <1>61, <1>62
  DEF Next, Supervise, Environment

\* Every step keeps what the archives are known to hold.
LEMMA NextArchiveInv ==
    ASSUME HomeInv, CommitInv, Next
    PROVE  ArchiveInv'
<1>a. lineage \in Nat /\ base \in Nat /\ tx \in Nat
  BY DEF HomeInv, TypeInv, TypeOK
<1>b. HomeWorldKept /\ PhaseInv /\ ControlInv
  BY DEF HomeInv
<1>c. ArchiveInv
  BY DEF CommitInv
<1> USE <1>a, <1>b, <1>c
    DEF HomeWorldKept, PhaseInv, ControlInv, ArchiveInv, PastWorldsArchived, Published,
        HomeWorld
<1> USE DEF StagedHome, CandidateInPlace, Verified, IdleControls, StagedControls,
        CandidateControls, AttemptControls, NoWorld, Resetting, Goto, Die,
        StopRecorded, Strikes, Quiet,
        worlds, ledger, control, root, evidences, vault, procs, locals
<1>1. CASE Start
  BY <1>1 DEF Start
<1>2. CASE ReconcileActiveProcess
  BY <1>2 DEF ReconcileActiveProcess
<1>3. CASE LaunchNormal
  BY <1>3 DEF LaunchNormal
<1>4. CASE ParseReset
  BY <1>4 DEF ParseReset
<1>5. CASE CreateTransaction
  BY <1>5 DEF CreateTransaction
<1>6. CASE RecordRequest
  BY <1>6 DEF RecordRequest, WritePhase, Legal, Plain, Prepared, Running,
      NoPhase, AttemptPhases
<1>7. CASE ResumeTransaction
  BY <1>7 DEF ResumeTransaction
<1>8. CASE RecoverCommitted
  BY <1>8 DEF RecoverCommitted
<1>9. CASE RecoverCommittedLaws
  BY <1>9 DEF RecoverCommittedLaws
<1>10. CASE RecoverRolledBack
  BY <1>10 DEF RecoverRolledBack
<1>11. CASE RecoverHealthVerified
  BY <1>11 DEF RecoverHealthVerified
<1>12. CASE StageWorld
  BY <1>12 DEF StageWorld
<1>13. CASE MarkStaged
  BY <1>13 DEF MarkStaged, WritePhase, Legal, Plain, Prepared, Running, NoPhase,
      AttemptPhases
<1>14. CASE ValidateWorldBinding
  BY <1>14 DEF ValidateWorldBinding
<1>15. CASE BeginArchive
  BY <1>15 DEF BeginArchive
<1>16. CASE ZipWorld
  BY <1>16 DEF ZipWorld
<1>17. CASE ZipFinished
  BY <1>17 DEF ZipFinished
<1>18. CASE PublishArchive
  <2> DEFINE new == [tx |-> tx, world |-> staged, whole |-> partial = "whole"]
  <2>1. /\ UNCHANGED <<worlds, lineage, evidences>>
        /\ sup' \notin {"promote", "commit-lineage"} /\ StagedHome
    BY <1>18 DEF PublishArchive
  <2>2. archives' = archives \/ (archives' = archives \cup {new} /\ partial = "whole")
    BY <1>18, Zenon DEF PublishArchive
  <2>3. new.tx = tx /\ new.world = staged /\ (partial = "whole" => new.whole)
    BY Zenon
  <2> HIDE DEF new
  <2> QED
    BY <2>1, <2>2, <2>3
<1>19. CASE ReverifyArchive
  BY <1>19 DEF ReverifyArchive
<1>20. CASE WriteDigest
  BY <1>20 DEF WriteDigest
<1>21. CASE MoveDigest
  BY <1>21 DEF MoveDigest
<1>22. CASE MarkArchived
  BY <1>22 DEF MarkArchived, WritePhase, Legal, Plain, Prepared, Running,
      NoPhase, AttemptPhases
<1>23. CASE UndoCandidate
  BY <1>23 DEF UndoCandidate
<1>24. CASE BeginAttempts
  BY <1>24 DEF BeginAttempts
<1>25. CASE NextAttempt
  BY <1>25 DEF NextAttempt, SetAside
<1>26. CASE AttemptsExhausted
  BY <1>26 DEF AttemptsExhausted, SetAside
<1>27. CASE DrawSeed
  BY <1>27 DEF DrawSeed
<1>28. CASE SetServerSeed
  BY <1>28 DEF SetServerSeed
<1>29. CASE PrepareWorld
  BY <1>29 DEF PrepareWorld
<1>30. CASE MarkPrepared
  BY <1>30 DEF MarkPrepared, WritePhase, Legal, Plain, Prepared, Running,
      NoPhase, AttemptPhases
<1>31. CASE Fork
  BY <1>31 DEF Fork
<1>32. CASE Handshake
  BY <1>32 DEF Handshake, WritePhase, Legal, Plain, Prepared, Running, NoPhase,
      AttemptPhases
<1>33. CASE PollHealth
  BY <1>33 DEF PollHealth
<1>34. CASE StabilityWindow
  BY <1>34 DEF StabilityWindow
<1>35. CASE StopFailedServer
  BY <1>35 DEF StopFailedServer
<1>36. CASE InspectCandidate
  BY <1>36 DEF InspectCandidate
<1>37. CASE RecordHealth
  BY <1>37 DEF RecordHealth, WritePhase, Legal, Plain, Prepared, Running,
      NoPhase, AttemptPhases
<1>38. CASE SealArchive
  BY <1>38 DEF SealArchive
<1>39. CASE PromoteLaws
  BY <1>39 DEF PromoteLaws
<1>40. CASE CommitLineage
  BY <1>40 DEF CommitLineage
<1>41. CASE CommitPerks
  BY <1>41 DEF CommitPerks
<1>42. CASE MarkCommitted
  BY <1>42 DEF MarkCommitted, WritePhase, Legal, Plain, Prepared, Running,
      NoPhase, AttemptPhases
<1>43. CASE DiscardSource
  BY <1>43 DEF DiscardSource
<1>44. CASE TruncateProperties
  BY <1>44 DEF TruncateProperties
<1>45. CASE RewriteProperties
  BY <1>45 DEF RewriteProperties
<1>46. CASE RestoreWorld
  BY <1>46 DEF RestoreWorld
<1>47. CASE MarkRolledBack
  BY <1>47 DEF MarkRolledBack, WritePhase, Legal, Plain, Prepared, Running,
      NoPhase, AttemptPhases
<1>48. CASE ClearActiveProcess
  BY <1>48 DEF ClearActiveProcess
<1>49. CASE RestoreLaws
  BY <1>49 DEF RestoreLaws
<1>50. CASE ReleaseReset
  BY <1>50 DEF ReleaseReset, Release
<1>51. CASE Conclude
  BY <1>51 DEF Conclude
<1>52. CASE AwaitSuccessor
  BY <1>52 DEF AwaitSuccessor
<1>53. CASE NormalExits
  BY <1>53 DEF NormalExits
<1>54. CASE RequestReset
  <2>1. /\ tx' = tx + 1 /\ UNCHANGED <<archives, lineage, sup>> /\ ~Resetting
    BY <1>54 DEF RequestReset
  <2>2. \A a \in archives : a.tx \in Nat /\ a.tx <= tx
    BY DEF HomeInv, TypeInv, TypeOK, Archives
  <2>3. \A a \in archives' : a.whole /\ a.tx <= tx' /\ a.tx # tx'
    BY <2>1, <2>2
  <2>4. sup' \notin {"promote", "commit-lineage"}
    BY <2>1
  <2>5. PastWorldsArchived'
    BY <2>1
  <2> QED
    BY <2>3, <2>4, <2>5
<1>55. CASE ChildExecs
  BY <1>55 DEF ChildExecs
<1>56. CASE ChildEnds
  BY <1>56 DEF ChildEnds
<1>57. CASE ReportHealth
  BY <1>57 DEF ReportHealth
<1>58. CASE PlayerJoins
  BY <1>58 DEF PlayerJoins
<1>59. CASE ArchiveFails
  BY <1>59 DEF ArchiveFails
<1>60. CASE Crash
  BY <1>60 DEF Crash
<1>61. CASE Signal
  BY <1>61 DEF Signal
<1>62. CASE Reboot
  BY <1>62 DEF Reboot
<1> QED
  BY <1>1, <1>2, <1>3, <1>4, <1>5, <1>6, <1>7, <1>8, <1>9, <1>10, <1>11, <1>12,
     <1>13, <1>14, <1>15, <1>16, <1>17, <1>18, <1>19, <1>20, <1>21, <1>22,
     <1>23, <1>24, <1>25, <1>26, <1>27, <1>28, <1>29, <1>30, <1>31, <1>32,
     <1>33, <1>34, <1>35, <1>36, <1>37, <1>38, <1>39, <1>40, <1>41, <1>42,
     <1>43, <1>44, <1>45, <1>46, <1>47, <1>48, <1>49, <1>50, <1>51, <1>52,
     <1>53, <1>54, <1>55, <1>56, <1>57, <1>58, <1>59, <1>60, <1>61, <1>62
  DEF Next, Supervise, Environment

LEMMA CommitInvariant == Spec => [](HomeInv /\ CommitInv)
<1>1. Init => HomeInv /\ CommitInv
  BY InitHomeInv, InitCommitInv
<1>2. HomeInv /\ CommitInv /\ [Next]_vars => (HomeInv /\ CommitInv)'
  <2> SUFFICES ASSUME HomeInv, CommitInv, [Next]_vars PROVE HomeInv' /\ CommitInv'
    OBVIOUS
  <2>1. CASE Next
    BY <2>1, HomeInductive, NextLedgerInv, NextArchiveInv DEF CommitInv
  <2>2. CASE UNCHANGED vars
    BY <2>2, HomeInductive
       DEF vars, worlds, ledger, control, root, evidences, vault, procs, locals,
           CommitInv, ArchiveInv, PastWorldsArchived, Published, SeedInv, HealthInv,
           Accepted, LedgerInv, PropertiesInv, DecisionInv, HomeWorld, Resetting
  <2> QED
    BY <2>1, <2>2
<1> QED
  BY <1>1, <1>2, PTL DEF Spec

-----------------------------------------------------------------------------
(* What is archived and what is accepted.                                  *)

\* Every generation that was succeeded left a verified archive of its world,
\* for any number of resets and of crashes around the zip (lines 336-362, 615).
THEOREM PastWorldsKept == Spec => []PastWorldsArchived
<1>1. CommitInv => PastWorldsArchived
  BY DEF CommitInv, ArchiveInv
<1> QED
  BY <1>1, CommitInvariant, PTL

\* Accepted health was reported for the request on disk by the candidate in
\* place, whatever result files and servers survived (lines 671-672, 834-843).
THEOREM AcceptedHealthCurrent == Spec => []AcceptedHealthIsCurrent
<1>1. CommitInv => AcceptedHealthIsCurrent
  BY DEF CommitInv, HealthInv, Accepted, Verified, AcceptedHealthIsCurrent
<1> QED
  BY <1>1, CommitInvariant, PTL

\* With no reset pending, worlds, lineage, perks, laws and server.properties
\* agree, after every interruption of the writes between them (lines 611-636).
THEOREM SettledStateConsistent == Spec => []SettledConsistent
<1>1. HomeInv /\ CommitInv => SettledConsistent
  BY DEF HomeInv, TypeInv, TypeOK, HomeWorldKept, PhaseInv, Verified, CandidateInPlace, CommitInv,
         HealthInv, LedgerInv, PropertiesInv, DecisionInv, Accepted, HomeWorld,
         SettledConsistent
<1> QED
  BY <1>1, CommitInvariant, PTL

-----------------------------------------------------------------------------
(* What a step may do to the lineage and to the reset.                     *)

\* Requests, commits and releases are the only steps that touch the lineage or
\* the files of the reset.
LEMMA OtherStepsKeep ==
    ASSUME Next, ~RequestReset, ~CommitLineage, ~ReleaseReset
    PROVE  lineage' = lineage /\ controls' = controls
<1> USE DEF Next, Supervise, Environment, Quiet, Start, ReconcileActiveProcess,
        LaunchNormal, ParseReset, CreateTransaction, RecordRequest,
        ResumeTransaction, RecoverCommitted, RecoverCommittedLaws,
        RecoverRolledBack, RecoverHealthVerified, StageWorld, MarkStaged,
        ValidateWorldBinding, BeginArchive, ZipWorld, ZipFinished,
        PublishArchive, ReverifyArchive, WriteDigest, MoveDigest, MarkArchived,
        UndoCandidate, BeginAttempts, NextAttempt, AttemptsExhausted, DrawSeed,
        SetServerSeed, PrepareWorld, MarkPrepared, Fork, Handshake, PollHealth,
        StabilityWindow, StopFailedServer, InspectCandidate, RecordHealth,
        SealArchive, PromoteLaws, CommitPerks, MarkCommitted, DiscardSource,
        TruncateProperties, RewriteProperties, RestoreWorld, MarkRolledBack,
        ClearActiveProcess, RestoreLaws, Conclude, AwaitSuccessor, NormalExits,
        ChildExecs, ChildEnds, ReportHealth, PlayerJoins, ArchiveFails, Crash,
        Signal, Reboot, ledger, control
<1>1. lineage' = lineage
  BY Zenon
<1>2. controls' = controls
  BY Zenon
<1> QED
  BY <1>1, <1>2

\* The lineage moves by one generation, once per transaction, when health is
\* verified and the succeeded world is archived (lines 844-852).
THEOREM LineageOnlyAdvancesVerified == Spec => LineageAdvancesVerified
<1>1. ASSUME HomeInv, CommitInv, Next, lineage' # lineage
      PROVE  /\ lineage' = lineage + 1 /\ lineage = base
             /\ phase.name = "health-verified"
             /\ active.gen = lineage' /\ laws = active.laws
             /\ \E a \in archives : a.tx = tx /\ a.world = staged /\ a.whole
  <2>1. CommitLineage
    BY <1>1, OtherStepsKeep DEF RequestReset, ReleaseReset, Release, ledger
  <2>2. /\ sup = "commit-lineage" /\ lineage = base /\ lineage' = base + 1
    BY <1>1, <2>1 DEF CommitLineage
  <2>3. /\ phase.name = "health-verified" /\ active.gen = base + 1
        /\ staged # NoWorld /\ laws = active.laws
    BY <1>1, <2>2 DEF HomeInv, TypeInv, TypeOK, PhaseInv, ControlInv, Verified,
                      CandidateInPlace, CommitInv, LedgerInv
  <2>4. \E a \in archives : a.tx = tx /\ a.world = staged /\ a.whole
    BY <1>1, <2>2, <2>3 DEF CommitInv, ArchiveInv, Published, HomeWorld
  <2> QED
    BY <2>2, <2>3, <2>4
<1>2. HomeInv /\ CommitInv /\ [Next]_vars =>
        [lineage' # lineage =>
         /\ lineage' = lineage + 1 /\ lineage = base
         /\ phase.name = "health-verified"
         /\ active.gen = lineage' /\ laws = active.laws
         /\ \E a \in archives : a.tx = tx /\ a.world = staged /\ a.whole]_vars
  BY <1>1
<1> QED
  BY <1>2, CommitInvariant, PTL DEF Spec, LineageAdvancesVerified

\* A reset is released only once it is decided, with the whole effect of the
\* decision in place (lines 611-636).
THEOREM ReleasedOnlyDecided == Spec => ReleaseDecided
<1>1. ASSUME HomeInv, CommitInv, Next, Resetting, ~Resetting'
      PROVE  \/ phase.name = "lineage-committed" /\ lineage = base + 1
                  /\ active.seed = evidence
             \/ phase.name = "rolled-back" /\ lineage = base
                  /\ active.seed = bound /\ props = before
  <2>1. ReleaseReset
    BY <1>1, OtherStepsKeep DEF Resetting, RequestReset, CommitLineage, control
  <2>2. sup = "release-reset"
    BY <1>1, <2>1 DEF ReleaseReset, Release, Resetting
  <2> QED
    BY <1>1, <2>2
       DEF HomeInv, PhaseInv, Verified, CommitInv, HealthInv, Accepted, PropertiesInv,
           DecisionInv, HomeWorld
<1>2. HomeInv /\ CommitInv /\ [Next]_vars =>
        [(Resetting /\ ~Resetting') =>
         \/ phase.name = "lineage-committed" /\ lineage = base + 1
              /\ active.seed = evidence
         \/ phase.name = "rolled-back" /\ lineage = base
              /\ active.seed = bound /\ props = before]_vars
  BY <1>1
<1> QED
  BY <1>2, CommitInvariant, PTL DEF Spec, ReleaseDecided

-----------------------------------------------------------------------------
(* The supervisor implements WorldSuccession.                              *)

\* Every step is a step of the promise or leaves it alone.
LEMMA PromisedStep ==
    ASSUME HomeInv, CommitInv, Next
    PROVE  [Promise!Next]_(Promise!vars)
<1>a. lineage \in Nat /\ base \in Nat /\ active.seed \in Nat /\ staged.seed \in Nat
  BY DEF HomeInv, TypeInv, TypeOK, Worlds
<1>b. HomeWorldKept /\ PhaseInv /\ ControlInv
  BY DEF HomeInv
<1>c. HealthInv /\ LedgerInv /\ DecisionInv
  BY DEF CommitInv
<1> USE <1>a, <1>b, <1>c
    DEF Promise!Next, Promise!Request, Promise!Succeed, Promise!Abandon, Promise!Release,
        Promise!vars, Home, Status
<1> USE DEF HomeWorldKept, PhaseInv, ControlInv, HealthInv, LedgerInv, DecisionInv,
        Accepted, HomeWorld
<1> USE DEF StagedHome, CandidateInPlace, Verified, IdleControls, StagedControls,
        CandidateControls, AttemptControls, NoWorld, Resetting, Goto, Die,
        StopRecorded, Strikes, Quiet,
        worlds, ledger, control, root, evidences, vault, procs, locals
<1>1. CASE Start
  BY <1>1 DEF Start
<1>2. CASE ReconcileActiveProcess
  BY <1>2 DEF ReconcileActiveProcess
<1>3. CASE LaunchNormal
  BY <1>3 DEF LaunchNormal
<1>4. CASE ParseReset
  BY <1>4 DEF ParseReset
<1>5. CASE CreateTransaction
  BY <1>5 DEF CreateTransaction
<1>6. CASE RecordRequest
  BY <1>6 DEF RecordRequest, WritePhase, Legal, Plain, Prepared, Running,
      NoPhase, AttemptPhases
<1>7. CASE ResumeTransaction
  BY <1>7 DEF ResumeTransaction
<1>8. CASE RecoverCommitted
  BY <1>8 DEF RecoverCommitted
<1>9. CASE RecoverCommittedLaws
  BY <1>9 DEF RecoverCommittedLaws
<1>10. CASE RecoverRolledBack
  BY <1>10 DEF RecoverRolledBack
<1>11. CASE RecoverHealthVerified
  BY <1>11 DEF RecoverHealthVerified
<1>12. CASE StageWorld
  BY <1>12 DEF StageWorld
<1>13. CASE MarkStaged
  BY <1>13 DEF MarkStaged, WritePhase, Legal, Plain, Prepared, Running, NoPhase,
      AttemptPhases
<1>14. CASE ValidateWorldBinding
  BY <1>14 DEF ValidateWorldBinding
<1>15. CASE BeginArchive
  BY <1>15 DEF BeginArchive
<1>16. CASE ZipWorld
  BY <1>16 DEF ZipWorld
<1>17. CASE ZipFinished
  BY <1>17 DEF ZipFinished
<1>18. CASE PublishArchive
  BY <1>18 DEF PublishArchive
<1>19. CASE ReverifyArchive
  BY <1>19 DEF ReverifyArchive
<1>20. CASE WriteDigest
  BY <1>20 DEF WriteDigest
<1>21. CASE MoveDigest
  BY <1>21 DEF MoveDigest
<1>22. CASE MarkArchived
  BY <1>22 DEF MarkArchived, WritePhase, Legal, Plain, Prepared, Running,
      NoPhase, AttemptPhases
<1>23. CASE UndoCandidate
  BY <1>23 DEF UndoCandidate
<1>24. CASE BeginAttempts
  BY <1>24 DEF BeginAttempts
<1>25. CASE NextAttempt
  BY <1>25 DEF NextAttempt, SetAside
<1>26. CASE AttemptsExhausted
  BY <1>26 DEF AttemptsExhausted, SetAside
<1>27. CASE DrawSeed
  BY <1>27 DEF DrawSeed
<1>28. CASE SetServerSeed
  BY <1>28 DEF SetServerSeed
<1>29. CASE PrepareWorld
  BY <1>29 DEF PrepareWorld
<1>30. CASE MarkPrepared
  BY <1>30 DEF MarkPrepared, WritePhase, Legal, Plain, Prepared, Running,
      NoPhase, AttemptPhases
<1>31. CASE Fork
  BY <1>31 DEF Fork
<1>32. CASE Handshake
  BY <1>32 DEF Handshake, WritePhase, Legal, Plain, Prepared, Running, NoPhase,
      AttemptPhases
<1>33. CASE PollHealth
  BY <1>33 DEF PollHealth
<1>34. CASE StabilityWindow
  BY <1>34 DEF StabilityWindow
<1>35. CASE StopFailedServer
  BY <1>35 DEF StopFailedServer
<1>36. CASE InspectCandidate
  BY <1>36 DEF InspectCandidate
<1>37. CASE RecordHealth
  BY <1>37 DEF RecordHealth, WritePhase, Legal, Plain, Prepared, Running,
      NoPhase, AttemptPhases
<1>38. CASE SealArchive
  BY <1>38 DEF SealArchive
<1>39. CASE PromoteLaws
  BY <1>39 DEF PromoteLaws
<1>40. CASE CommitLineage
  BY <1>40 DEF CommitLineage
<1>41. CASE CommitPerks
  BY <1>41 DEF CommitPerks
<1>42. CASE MarkCommitted
  BY <1>42 DEF MarkCommitted, WritePhase, Legal, Plain, Prepared, Running,
      NoPhase, AttemptPhases
<1>43. CASE DiscardSource
  BY <1>43 DEF DiscardSource
<1>44. CASE TruncateProperties
  BY <1>44 DEF TruncateProperties
<1>45. CASE RewriteProperties
  BY <1>45 DEF RewriteProperties
<1>46. CASE RestoreWorld
  BY <1>46 DEF RestoreWorld
<1>47. CASE MarkRolledBack
  BY <1>47 DEF MarkRolledBack, WritePhase, Legal, Plain, Prepared, Running,
      NoPhase, AttemptPhases
<1>48. CASE ClearActiveProcess
  BY <1>48 DEF ClearActiveProcess
<1>49. CASE RestoreLaws
  BY <1>49 DEF RestoreLaws
<1>50. CASE ReleaseReset
  BY <1>50 DEF ReleaseReset, Release
<1>51. CASE Conclude
  BY <1>51 DEF Conclude
<1>52. CASE AwaitSuccessor
  BY <1>52 DEF AwaitSuccessor
<1>53. CASE NormalExits
  BY <1>53 DEF NormalExits
<1>54. CASE RequestReset
  BY <1>54 DEF RequestReset, NoPhase, Plain
<1>55. CASE ChildExecs
  BY <1>55 DEF ChildExecs
<1>56. CASE ChildEnds
  BY <1>56 DEF ChildEnds
<1>57. CASE ReportHealth
  BY <1>57 DEF ReportHealth
<1>58. CASE PlayerJoins
  BY <1>58 DEF PlayerJoins
<1>59. CASE ArchiveFails
  BY <1>59 DEF ArchiveFails
<1>60. CASE Crash
  BY <1>60 DEF Crash
<1>61. CASE Signal
  BY <1>61 DEF Signal
<1>62. CASE Reboot
  BY <1>62 DEF Reboot
<1> QED
  BY <1>1, <1>2, <1>3, <1>4, <1>5, <1>6, <1>7, <1>8, <1>9, <1>10, <1>11, <1>12,
     <1>13, <1>14, <1>15, <1>16, <1>17, <1>18, <1>19, <1>20, <1>21, <1>22,
     <1>23, <1>24, <1>25, <1>26, <1>27, <1>28, <1>29, <1>30, <1>31, <1>32,
     <1>33, <1>34, <1>35, <1>36, <1>37, <1>38, <1>39, <1>40, <1>41, <1>42,
     <1>43, <1>44, <1>45, <1>46, <1>47, <1>48, <1>49, <1>50, <1>51, <1>52,
     <1>53, <1>54, <1>55, <1>56, <1>57, <1>58, <1>59, <1>60, <1>61, <1>62
  DEF Next, Supervise, Environment

\* Moves, crashes, signals, reboots and restarts amount to requests that are
\* each decided once, for all of WorldSuccession's behaviours and no others.
THEOREM SuccessionImplemented == Spec => ImplementsSuccession
<1>1. Init => Promise!Init
  BY DEF Init, Promise!Init, Home, Status, Resetting, NoWorld
<1>2. HomeInv /\ CommitInv /\ [Next]_vars => [Promise!Next]_(Promise!vars)
  <2> SUFFICES ASSUME HomeInv, CommitInv, [Next]_vars PROVE [Promise!Next]_(Promise!vars)
    OBVIOUS
  <2>1. CASE Next
    BY <2>1, PromisedStep
  <2>2. CASE UNCHANGED vars
    BY <2>2 DEF vars, worlds, ledger, control, evidences, Promise!vars, Home, Status,
                Resetting
  <2> QED
    BY <2>1, <2>2
<1> QED
  BY <1>1, <1>2, CommitInvariant, PTL DEF Spec, ImplementsSuccession, Promise!Spec
=============================================================================
