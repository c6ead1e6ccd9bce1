--------------------------- MODULE MCPackTestLock ---------------------------
(* Values of the constants of PackTestLock for TLC. *)
EXTENDS PackTestLock, TLC

CONSTANTS r1, r2, r3

ThreeRunners == {r1, r2, r3}
TwoRunners == {r1, r2}
AllFaults == {"signal", "kill"}
Signals == {"signal"}

\* Runners are alike: only their tokens tell them apart.
AnyRunner == Permutations(ThreeRunners)
=============================================================================
