-------------------------- MODULE LifecyclePhases --------------------------
(***************************************************************************)
(* The phases of a world-succession transaction and the table of           *)
(* transitions write_phase accepts (better-world-management-server.sh).     *)
(***************************************************************************)
EXTENDS Naturals

CONSTANT MaxAttempts     \* MAX_ATTEMPTS, 8 in the program

ASSUME MaxAttemptsAssumption == MaxAttempts \in Nat \ {0}

PlainPhases == {"none", "request-recorded", "world-staged", "archive-verified",
                "health-verified", "lineage-committed", "rolled-back"}
AttemptPhases == {"attempt-prepared", "attempt-running"}

Phases == [name : PlainPhases, k : {0}]
            \cup [name : AttemptPhases, k : 1..MaxAttempts]

Plain(n) == [name |-> n, k |-> 0]
NoPhase == Plain("none")
Prepared(n) == [name |-> "attempt-prepared", k |-> n]
Running(n) == [name |-> "attempt-running", k |-> n]

\* The case statement of write_phase: may the phase last written, current, be
\* followed by next? The attempt patterns only match the authorized attempts.
Legal(current, next) ==
    /\ next \in Phases
    /\ \/ current.name = "none" /\ next.name = "request-recorded"
       \/ current.name = "request-recorded" /\ next.name = "world-staged"
       \/ current.name = "world-staged" /\ next.name \in {"archive-verified", "rolled-back"}
       \/ current.name = "archive-verified" /\ next = Prepared(1)
       \/ current.name = "attempt-prepared" /\ next.name \in AttemptPhases
       \/ current.name = "attempt-running" /\ next = Prepared(current.k + 1)
       \/ current.name = "attempt-running" /\ next.name = "health-verified"
       \/ current.name = "health-verified"
            /\ next.name \in {"health-verified", "lineage-committed"}
       \/ current.name \in AttemptPhases /\ current.k = MaxAttempts
            /\ next.name = "rolled-back"
=============================================================================
