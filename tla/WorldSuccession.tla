-------------------------- MODULE WorldSuccession --------------------------
(***************************************************************************)
(* What the World Lifecycle Manager promises, without files, processes or  *)
(* crashes: a server always has exactly one home world, a committed reset  *)
(* is decided exactly once, and the decision either moves the lineage one  *)
(* generation on to a new home world or leaves both untouched.             *)
(***************************************************************************)
EXTENDS Naturals

VARIABLES generation,   \* prestiges completed by the lineage
          home,         \* seed of the world players live in
          status        \* progress of the current reset request

vars == <<generation, home, status>>

Statuses == {"idle", "pending", "decided"}

Init ==
    /\ generation = 0
    /\ home \in Nat \ {0}
    /\ status = "idle"

\* Players confirm a reset; nothing else changes.
Request ==
    /\ status = "idle"
    /\ status' = "pending"
    /\ UNCHANGED <<generation, home>>

\* The successor takes over: generation and home change together.
Succeed ==
    /\ status = "pending"
    /\ status' = "decided"
    /\ generation' = generation + 1
    /\ home' \in Nat \ {0, home}

\* The reset is given up: the old world stays home.
Abandon ==
    /\ status = "pending"
    /\ status' = "decided"
    /\ UNCHANGED <<generation, home>>

\* The request is released, and only now may another one be made.
Release ==
    /\ status = "decided"
    /\ status' = "idle"
    /\ UNCHANGED <<generation, home>>

Next == Request \/ Succeed \/ Abandon \/ Release

Spec == Init /\ [][Next]_vars
=============================================================================
