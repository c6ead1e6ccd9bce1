--------------------- MODULE WorldSupervisorProperties ---------------------
(***************************************************************************)
(* What must hold of the world lifecycle supervisor, whatever the order of *)
(* its restarts, its servers, its players and its disturbances.            *)
(***************************************************************************)
EXTENDS WorldSupervisor

Controls == {"down", "reconcile", "normal", "serving", "parse", "create",
    "record", "resume", "committed", "committed-laws", "rolled", "recheck",
    "stage", "mark-staged", "binding", "archive", "zip", "zipping", "publish",
    "reverify", "digest", "digest-move", "mark-archived", "undo", "attempts",
    "loop", "draw", "set-seed", "prepare", "mark-prepared", "fork", "handshake",
    "poll", "stable", "failed", "inspect", "verify", "seal", "promote",
    "commit-lineage", "commit-perks", "mark-committed", "discard",
    "restore-properties", "rewrite-properties", "restore-world",
    "mark-rolled-back", "clear", "restore-laws", "release-reset",
    "release-perks", "release-laws", "released", "await"}

Archives == [tx : Nat, world : Worlds, whole : BOOLEAN]

\* Every file and process variable stays in its domain; in particular no
\* phase file ever names an attempt beyond the authorized ones.
TypeOK ==
    /\ active \in Worlds /\ staged \in Worlds
    /\ inhabited \subseteq Nat
    /\ lineage \in Nat /\ perks \in Nat /\ laws \in Nat
    /\ controls \subseteq ResetFiles
    /\ bound \in Nat /\ request \in Nat /\ health \in Nat /\ record \in Nat
    /\ props \in Nat /\ projected \in Nat
    /\ tx \in Nat /\ dir \in {"none", "incomplete", "complete"}
    /\ phase \in Phases
    /\ base \in Nat /\ before \in Nat /\ evidence \in Nat
    /\ failed \subseteq Nat
    /\ archives \subseteq Archives
    /\ partial \in {"none", "torn", "whole"}
    /\ checksum \in {"none", "partial", "written"}
    /\ forked \subseteq Nat /\ up \subseteq Nat /\ normal \in BOOLEAN
    /\ sup \in Controls /\ k \in 0..MaxAttempts + 1 /\ child \in Nat
    /\ faults \in Nat

-----------------------------------------------------------------------------
(* Safety.                                                                 *)

\* The world of the lineage's own generation is in place or staged, never
\* deleted or only aside: staging, eight attempts, rollback, commit and every
\* restart between them move worlds about (lines 864-949).
HomeWorldKept ==
    \E w \in {active, staged} : w # NoWorld /\ w.gen = lineage

\* Every generation that was succeeded left an archive of its world that
\* passed verification: the staged original is deleted at line 615 only.
PastWorldsArchived ==
    \A g \in 0..lineage - 1 :
        \E a \in archives : a.world.gen = g /\ a.whole

\* A pending reset has its perks and laws beside it, so that every restart
\* can parse it (lines 185-267, 762): the order of the final rm matters.
ResetParsable == Resetting => controls = ResetFiles

\* With no reset pending, what the transaction left in nine places agrees:
\* the world in place is the lineage's generation, nothing is staged, perks
\* and promoted laws follow it, and server.properties names its seed.
SettledConsistent ==
    ~Resetting =>
        /\ active # NoWorld /\ active.gen = lineage /\ staged = NoWorld
        /\ perks = lineage /\ laws = active.laws /\ props = active.seed

\* At most one server or launcher exists, whoever died before it.
OneServer ==
    \A p, q \in forked \cup up : p = q /\ ~normal

\* Accepted health is the health the candidate in place reported for the
\* request still on disk, not that of an earlier attempt whose result file or
\* server survived, and stays so through every restart (lines 671-672, 834-843).
AcceptedHealthIsCurrent ==
    (Resetting /\ phase.name = "health-verified")
        => /\ health = evidence /\ request = evidence
           /\ active.seed = evidence /\ props = evidence /\ active.laws = tx

\* A transaction past its archive has a published archive (line 888 asserts
\* it, create_verified_archive is to establish it).
VerifiedArchiveExists ==
    phase.name \in AttemptPhases \cup
                   {"archive-verified", "health-verified", "lineage-committed"}
        => Published

\* A step changes the lineage only by one generation, once per transaction,
\* after health was verified and the succeeded world archived.
LineageAdvancesVerified ==
    [][lineage' # lineage =>
         /\ lineage' = lineage + 1 /\ lineage = base
         /\ phase.name = "health-verified"
         /\ active.gen = lineage' /\ laws = active.laws
         /\ \E a \in archives : a.tx = tx /\ a.world = staged /\ a.whole]_vars

\* A world in place that a player has joined is only ever moved by staging it
\* as the old world of the next reset: seed rotation, quarantine and rollback
\* all refuse it (require_uninhabited_candidate, lines 656-667).
InhabitedCandidatePreserved ==
    [][Inhabited(active) /\ active' # active => staged' = active]_vars

\* The reset is only released once decided, and with it goes the decision's
\* whole effect: a committed one has its successor, a rolled-back one its
\* source world and its server.properties.
ReleaseDecided ==
    [][(Resetting /\ ~Resetting') =>
         \/ phase.name = "lineage-committed" /\ lineage = base + 1
              /\ active.seed = evidence
         \/ phase.name = "rolled-back" /\ lineage = base
              /\ active.seed = bound /\ props = before]_vars

\* Whatever a crash leaves of a half-made archive, a reset is only given up after
\* its last authorized attempt (lines 907-953): a zip cut short is made anew (lines
\* 333-348), a zip found whole is published, and neither calls for the rollback of line
\* 890. The one exception is a partial checksum, on which atomic_write dies (138).
GivenUpOnlyExhausted ==
    [][phase'.name = "rolled-back" /\ phase.name # "rolled-back" =>
         \/ phase.name \in AttemptPhases /\ phase.k = MaxAttempts
         \/ checksum = "partial"]_vars

-----------------------------------------------------------------------------
(* Progress.                                                               *)

\* The states no restart leaves without an operator: transaction creation or
\* the server.properties copy cut short, and a candidate a player has joined.
Wedged ==
    \/ dir = "incomplete"
    \/ props = 0
    \/ phase.name \in AttemptPhases /\ Inhabited(active)

Decides == []<>(~Resetting \/ dir = "none")

LaunchFails == sup = "failed" /\ phase.name = "attempt-prepared"

\* Under a finite number of disturbances every recorded reset is decided and
\* released, unless it is stuck for good in one of the states of Wedged, or
\* every launch from some point on ends before its handshake.
ResetsDecided == Decides \/ <>[]Wedged \/ []<>LaunchFails

\* Failing launches use up the eight attempts, after which the old world is
\* restored (lines 919-953).
FailingLaunchesEnd == Decides \/ <>[]Wedged

-----------------------------------------------------------------------------
(* The supervisor implements WorldSuccession.                              *)

Home == IF staged # NoWorld /\ staged.gen = lineage THEN staged.seed ELSE active.seed

Status == CASE ~Resetting -> "idle"
            [] Resetting /\ dir = "complete"
                 /\ (lineage = base + 1 \/ phase.name = "rolled-back") -> "decided"
            [] OTHER -> "pending"

Promise == INSTANCE WorldSuccession
             WITH generation <- lineage, home <- Home, status <- Status

\* Moves, crashes and restarts amount to requests that are each decided once.
ImplementsSuccession == Promise!Spec
=============================================================================
