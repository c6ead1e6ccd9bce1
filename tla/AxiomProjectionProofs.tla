----------------------- MODULE AxiomProjectionProofs -----------------------
(***************************************************************************)
(* Proofs about the projection of world laws, for any worlds, laws, jars   *)
(* and interruptions: a command that succeeds leaves a valid projection,   *)
(* and the home world's datapack survives every interrupted swap.          *)
(***************************************************************************)
EXTENDS AxiomProjection, TLAPS

\* What each position of a command knows of the world it projects.
CommandInv ==
    /\ home \in used /\ world \in used
    /\ pc # "idle" => served = NoWorld
    /\ pc = "snapshot" => world # home
    /\ pc \notin {"idle", "snapshot"} => build = snapshot[world]
    /\ pc \in {"stage", "retire"} => previous[world] = NoPack
    /\ pc = "install" => target[world] = NoPack /\ Owned(previous[world])
    /\ pc = "discard" => target[world] # NoPack
    /\ pc \in {"clear", "clearing", "runtime", "properties"} =>
         target[world] = Wanted(build)
    /\ pc = "properties" => runtime = build

\* A datapack in a world, in place or replaced, is one of its own laws; a
\* directory not yet used, or about to get its laws, has none.
PackInv ==
    /\ \A w \in Worlds :
         /\ target[w] = NoPack \/ target[w].build = snapshot[w]
         /\ previous[w] = NoPack \/ previous[w].build = snapshot[w]
    /\ \A w \in Worlds :
         w \notin used \/ (pc = "snapshot" /\ w = world)
           => target[w] = NoPack /\ previous[w] = NoPack

ProjectionInv == TypeOK /\ CommandInv /\ PackInv /\ ServedProjection /\ HomePackKept

-----------------------------------------------------------------------------
(* Lemmas.                                                                 *)

LEMMA NoPackIsNeutral == /\ NoPack \in Packs /\ ~NoPack.torn
                         /\ NoPack.build \notin Packed
BY ProjectionAssumption DEF NoPack, Packs

\* A removal that has begun leaves a datapack of the same laws.
LEMMA TornPack ==
    ASSUME NEW p \in Packs
    PROVE  /\ [p EXCEPT !.torn = TRUE] \in Packs
           /\ [p EXCEPT !.torn = TRUE].build = p.build
           /\ [p EXCEPT !.torn = TRUE].torn
BY DEF Packs

LEMMA WholeProjection ==
    ASSUME TypeOK
    PROVE  /\ Projection(build) \in Packs /\ ~Projection(build).torn
           /\ Projection(build).build = build
BY ProjectionAssumption DEF TypeOK, Packs, Projection

\* Beginning to remove the replaced datapack leaves it one of its world's laws.
LEMMA TearPrevious ==
    ASSUME TypeOK, PackInv, world \in used, pc # "snapshot", pc' # "snapshot",
           previous[world] # NoPack,
           previous' = [previous EXCEPT ![world].torn = TRUE],
           UNCHANGED <<snapshot, target, used, world>>
    PROVE  PackInv'
<1>1. previous[world] \in Packs /\ previous[world].build = snapshot[world]
  BY DEF TypeOK, PackInv
<1>2. previous'[world].build = snapshot'[world]
  BY <1>1, TornPack DEF TypeOK
<1>3. \A w \in Worlds : w # world => previous'[w] = previous[w]
  BY DEF TypeOK
<1>4. \A w \in Worlds :
        /\ target'[w] = NoPack \/ target'[w].build = snapshot'[w]
        /\ previous'[w] = NoPack \/ previous'[w].build = snapshot'[w]
  BY <1>2, <1>3 DEF PackInv
<1>5. \A w \in Worlds : w \notin used'
                        => target'[w] = NoPack /\ previous'[w] = NoPack
  BY <1>3 DEF PackInv
<1> QED
  BY <1>4, <1>5 DEF PackInv

LEMMA RecoverPacks ==
    ASSUME TypeOK, CommandInv, PackInv, RecoverSwap PROVE PackInv'
<1>1. /\ UNCHANGED <<snapshot, used, world>> /\ world \in used
      /\ pc # "snapshot" /\ pc' # "snapshot"
  BY DEF RecoverSwap, CommandInv, Goto, Reject, settings
<1>2. CASE UNCHANGED <<target, previous>>
  BY <1>1, <1>2 DEF PackInv
<1>3. CASE /\ previous[world] # NoPack
           /\ target' = [target EXCEPT ![world] = previous[world]]
           /\ previous' = [previous EXCEPT ![world] = NoPack]
  BY <1>1, <1>3 DEF PackInv, TypeOK
<1>4. CASE /\ previous[world] # NoPack /\ UNCHANGED target
           /\ previous' = [previous EXCEPT ![world].torn = TRUE]
  BY <1>1, <1>4, TearPrevious
<1> QED
  BY <1>2, <1>3, <1>4 DEF RecoverSwap

LEMMA ClearPacks ==
    ASSUME TypeOK, CommandInv, PackInv, Clear PROVE PackInv'
<1>1. /\ UNCHANGED <<snapshot, target, used, world>> /\ world \in used
      /\ pc # "snapshot" /\ pc' # "snapshot"
  BY DEF Clear, CommandInv, Goto, settings
<1>2. CASE UNCHANGED previous
  BY <1>1, <1>2 DEF PackInv
<1>3. CASE /\ previous[world] # NoPack
           /\ previous' = [previous EXCEPT ![world].torn = TRUE]
  BY <1>1, <1>3, TearPrevious
<1> QED
  BY <1>2, <1>3 DEF Clear

LEMMA InitInv == Init => ProjectionInv
<1> SUFFICES ASSUME Init PROVE ProjectionInv
  OBVIOUS
<1> USE ProjectionAssumption, NoPackIsNeutral DEF Init
<1>1. TypeOK
  BY DEF TypeOK, LevelTypes
<1>2. CommandInv /\ PackInv
  BY DEF CommandInv, PackInv, Owned
<1>3. ServedProjection
  BY DEF ServedProjection
<1>4. HomePackKept
  BY DEF HomePackKept
<1> QED
  BY <1>1, <1>2, <1>3, <1>4 DEF ProjectionInv

LEMMA NextType == TypeOK /\ CommandInv /\ [Next]_vars => TypeOK'
<1> SUFFICES ASSUME TypeOK, CommandInv, [Next]_vars PROVE TypeOK'
  OBVIOUS
<1>a. /\ Projection(build) \in Packs /\ ~Projection(build).torn
      /\ \A p \in Packs : [p EXCEPT !.torn = TRUE] \in Packs
  BY WholeProjection, TornPack
<1> USE <1>a, ProjectionAssumption, NoPackIsNeutral
    DEF TypeOK, Goto, Begin, Reject, files, settings
<1>1. CASE Prepare
  BY <1>1 DEF Prepare
<1>2. CASE Normal
  BY <1>2 DEF Normal
<1>3. CASE Promote
  BY <1>3 DEF Promote
<1>4. CASE WriteSnapshot
  BY <1>4 DEF WriteSnapshot
<1>5. CASE RecoverSwap
  BY <1>5 DEF RecoverSwap, Owned
<1>6. CASE Stage
  BY <1>6 DEF Stage
<1>7. CASE Retire
  BY <1>7 DEF Retire
<1>8. CASE Install
  BY <1>8 DEF Install
<1>9. CASE InstallFails
  BY <1>9 DEF InstallFails, CommandInv, Owned
<1>10. CASE Clear
  BY <1>10 DEF Clear
<1>11. CASE RemovePrevious
  BY <1>11 DEF RemovePrevious, Discard
<1>12. CASE WriteRuntime
  BY <1>12 DEF WriteRuntime
<1>13. CASE WriteProperties
  BY <1>13 DEF WriteProperties, LevelTypes, LevelType
<1>14. CASE UpdateMods
  BY <1>14 DEF UpdateMods
<1>15. CASE Kill
  BY <1>15 DEF Kill
<1>16. CASE UNCHANGED vars
  BY <1>16 DEF vars
<1> QED
  BY <1>1, <1>2, <1>3, <1>4, <1>5, <1>6, <1>7, <1>8, <1>9, <1>10, <1>11,
     <1>12, <1>13, <1>14, <1>15, <1>16 DEF Next, Project

\* The position of a command and the packs of its world move together.
LEMMA NextCommand ==
    ASSUME TypeOK, CommandInv, PackInv, Next
    PROVE  CommandInv' /\ PackInv'
<1>a. /\ Projection(build).build = build
      /\ \A p \in Packs : [p EXCEPT !.torn = TRUE].build = p.build
  BY WholeProjection, TornPack
<1> USE <1>a, ProjectionAssumption, NoPackIsNeutral
    DEF TypeOK, CommandInv, PackInv, Owned, Goto, Begin, Reject, files, settings
<1>1. CASE Prepare
  <2>1. CommandInv'
    BY <1>1 DEF Prepare, Wanted, Projection
  <2>2. PackInv'
    BY <1>1 DEF Prepare
  <2> QED
    BY <2>1, <2>2
<1>2. CASE Normal
  <2>1. CommandInv'
    BY <1>2 DEF Normal, Wanted, Projection
  <2>2. PackInv'
    BY <1>2 DEF Normal
  <2> QED
    BY <2>1, <2>2
<1>3. CASE Promote
  <2>1. CommandInv'
    BY <1>3 DEF Promote, Wanted, Projection
  <2>2. PackInv'
    BY <1>3 DEF Promote
  <2> QED
    BY <2>1, <2>2
<1>4. CASE WriteSnapshot
  <2>1. CommandInv'
    BY <1>4 DEF WriteSnapshot, Wanted, Projection
  <2>2. PackInv'
    BY <1>4 DEF WriteSnapshot
  <2> QED
    BY <2>1, <2>2
<1>5. CASE RecoverSwap
  <2>1. CommandInv'
    BY <1>5 DEF RecoverSwap, Wanted, Projection
  <2>2. PackInv'
    BY <1>5, RecoverPacks
  <2> QED
    BY <2>1, <2>2
<1>6. CASE Stage
  <2>1. CommandInv'
    BY <1>6 DEF Stage, Wanted, Projection
  <2>2. PackInv'
    BY <1>6 DEF Stage
  <2> QED
    BY <2>1, <2>2
<1>7. CASE Retire
  <2>1. CommandInv'
    BY <1>7 DEF Retire, Wanted, Projection
  <2>2. PackInv'
    BY <1>7 DEF Retire
  <2> QED
    BY <2>1, <2>2
<1>8. CASE Install
  <2>1. CommandInv'
    BY <1>8 DEF Install, Wanted, Projection
  <2>2. PackInv'
    BY <1>8 DEF Install
  <2> QED
    BY <2>1, <2>2
<1>9. CASE InstallFails
  <2>1. CommandInv'
    BY <1>9 DEF InstallFails, Wanted, Projection
  <2>2. PackInv'
    BY <1>9 DEF InstallFails
  <2> QED
    BY <2>1, <2>2
<1>10. CASE Clear
  <2>1. CommandInv'
    BY <1>10 DEF Clear, Wanted, Projection
  <2>2. PackInv'
    BY <1>10, ClearPacks
  <2> QED
    BY <2>1, <2>2
<1>11. CASE RemovePrevious
  <2>1. CommandInv'
    BY <1>11 DEF RemovePrevious, Discard, Wanted, Projection
  <2>2. PackInv'
    BY <1>11 DEF RemovePrevious, Discard
  <2> QED
    BY <2>1, <2>2
<1>12. CASE WriteRuntime
  <2>1. CommandInv'
    BY <1>12 DEF WriteRuntime, Wanted, Projection
  <2>2. PackInv'
    BY <1>12 DEF WriteRuntime
  <2> QED
    BY <2>1, <2>2
<1>13. CASE WriteProperties
  <2>1. CommandInv'
    BY <1>13 DEF WriteProperties, Wanted, Projection
  <2>2. PackInv'
    BY <1>13 DEF WriteProperties
  <2> QED
    BY <2>1, <2>2
<1>14. CASE UpdateMods
  <2>1. CommandInv'
    BY <1>14 DEF UpdateMods, Wanted, Projection
  <2>2. PackInv'
    BY <1>14 DEF UpdateMods
  <2> QED
    BY <2>1, <2>2
<1>15. CASE Kill
  <2>1. CommandInv'
    BY <1>15 DEF Kill, Wanted, Projection
  <2>2. PackInv'
    BY <1>15 DEF Kill
  <2> QED
    BY <2>1, <2>2
<1> QED
  BY <1>1, <1>2, <1>3, <1>4, <1>5, <1>6, <1>7, <1>8, <1>9, <1>10, <1>11,
     <1>12, <1>13, <1>14, <1>15 DEF Next, Project
\* Only the last write of a command makes its world the one served.
LEMMA NextServed ==
    ASSUME TypeOK, CommandInv, ServedProjection, Next
    PROVE  ServedProjection'
<1> USE ProjectionAssumption
    DEF TypeOK, CommandInv, ServedProjection, Valid, Wanted, Projection, LevelType,
        Goto, Begin, Reject, files, settings
<1>1. CASE Prepare
  BY <1>1 DEF Prepare
<1>2. CASE Normal
  BY <1>2 DEF Normal
<1>3. CASE Promote
  BY <1>3 DEF Promote
<1>4. CASE WriteSnapshot
  BY <1>4 DEF WriteSnapshot
<1>5. CASE RecoverSwap
  BY <1>5 DEF RecoverSwap
<1>6. CASE Stage
  BY <1>6 DEF Stage
<1>7. CASE Retire
  BY <1>7 DEF Retire
<1>8. CASE Install
  BY <1>8 DEF Install
<1>9. CASE InstallFails
  BY <1>9 DEF InstallFails
<1>10. CASE Clear
  BY <1>10 DEF Clear
<1>11. CASE RemovePrevious
  BY <1>11 DEF RemovePrevious, Discard
<1>12. CASE WriteRuntime
  BY <1>12 DEF WriteRuntime
<1>13. CASE WriteProperties
  BY <1>13 DEF WriteProperties
<1>14. CASE UpdateMods
  BY <1>14 DEF UpdateMods
<1>15. CASE Kill
  BY <1>15 DEF Kill
<1> QED
  BY <1>1, <1>2, <1>3, <1>4, <1>5, <1>6, <1>7, <1>8, <1>9,
     <1>10, <1>11, <1>12, <1>13, <1>14, <1>15 DEF Next, Project

\* A step that gives up one of the home world's datapacks leaves the other.
LEMMA NextHome ==
    ASSUME TypeOK, CommandInv, PackInv, ServedProjection, HomePackKept, Next
    PROVE  HomePackKept'
<1>a. Projection(build).build = build
  BY WholeProjection
<1> USE <1>a, ProjectionAssumption, NoPackIsNeutral
    DEF TypeOK, CommandInv, PackInv, HomePackKept, Owned, Goto, Begin, Reject,
        files, settings
<1>1. CASE Prepare
  BY <1>1 DEF Prepare
<1>2. CASE Normal
  BY <1>2 DEF Normal
<1>3. CASE Promote
  BY <1>3 DEF Promote, ServedProjection, Valid, Wanted, Projection
<1>4. CASE WriteSnapshot
  BY <1>4 DEF WriteSnapshot
<1>5. CASE RecoverSwap
  BY <1>5 DEF RecoverSwap
<1>6. CASE Stage
  BY <1>6 DEF Stage
<1>7. CASE Retire
  BY <1>7 DEF Retire
<1>8. CASE Install
  BY <1>8 DEF Install
<1>9. CASE InstallFails
  BY <1>9 DEF InstallFails
<1>10. CASE Clear
  BY <1>10 DEF Clear, Wanted
<1>11. CASE RemovePrevious
  BY <1>11 DEF RemovePrevious, Discard, Wanted
<1>12. CASE WriteRuntime
  BY <1>12 DEF WriteRuntime
<1>13. CASE WriteProperties
  BY <1>13 DEF WriteProperties
<1>14. CASE UpdateMods
  BY <1>14 DEF UpdateMods
<1>15. CASE Kill
  BY <1>15 DEF Kill
<1> QED
  BY <1>1, <1>2, <1>3, <1>4, <1>5, <1>6, <1>7, <1>8, <1>9,
     <1>10, <1>11, <1>12, <1>13, <1>14, <1>15 DEF Next, Project

LEMMA ProjectionStep == ProjectionInv /\ [Next]_vars => ProjectionInv'
<1> SUFFICES ASSUME ProjectionInv, [Next]_vars PROVE ProjectionInv'
  OBVIOUS
<1> USE DEF ProjectionInv
<1>1. TypeOK'
  BY NextType
<1>2. CASE Next
  BY <1>1, <1>2, NextCommand, NextServed, NextHome
<1>3. CASE UNCHANGED vars
  <2>1. CommandInv' /\ PackInv'
    BY <1>3 DEF vars, CommandInv, PackInv, Owned, Wanted, Projection
  <2>2. ServedProjection' /\ HomePackKept'
    BY <1>3 DEF vars, ServedProjection, HomePackKept, Owned, Valid, Wanted, Projection
  <2> QED
    BY <1>1, <2>1, <2>2
<1> QED
  BY <1>2, <1>3

\* The invariant is inductive: it holds of every state a run reaches.
LEMMA ProjectionInductive == Spec => []ProjectionInv
<1> QED
  BY InitInv, ProjectionStep, PTL DEF Spec

-----------------------------------------------------------------------------
(* Theorems.                                                               *)

\* No interruption leaves a torn datapack where a server enables it: the type
\* of target, which allows none, holds of every run (lines 318-350).
THEOREM ProjectionTypeCorrect == Spec => []TypeOK
<1> QED
  BY ProjectionInductive, PTL DEF ProjectionInv

\* A command that succeeds leaves the projection validate_projection demands,
\* whatever worlds, laws, jars and interruptions came before (lines 370-409).
THEOREM ServedProjectionValid == Spec => []ServedProjection
<1> QED
  BY ProjectionInductive, PTL DEF ProjectionInv

\* The datapack of the home world is never lost (lines 332-350).
THEOREM HomePackNeverLost == Spec => []HomePackKept
<1> QED
  BY ProjectionInductive, PTL DEF ProjectionInv
=============================================================================
