-------------------------- MODULE AxiomProjection --------------------------
(***************************************************************************)
(* world-axioms.py: the projection of a world's frozen laws into what a    *)
(* server reads when it starts: the generated datapack in the world, the   *)
(* startup recipes and the level type in the server root. The supervisor   *)
(* runs one command at a time; a command may be killed between any two     *)
(* renames, and the next one repairs the swap of datapacks it finds.       *)
(***************************************************************************)
EXTENDS Naturals

CONSTANTS Worlds,      \* level directories, each prepared at most once
          Builds,      \* frozen laws
          Neutral,     \* no laws: a world that never was a successor
          NoWorld,
          Packed,      \* the builds that select a deposit, and so a datapack
          Large,       \* the builds that select large biomes
          First,       \* the world of a new server
          MaxJars,     \* bound: versions of the geology jar
          MaxFaults    \* bound: kills and failing renames

ASSUME ProjectionAssumption ==
    /\ Neutral \notin Builds /\ NoWorld \notin Worlds
    /\ Packed \subseteq Builds /\ Large \subseteq Builds
    /\ First \in Worlds
    /\ MaxJars \in Nat \ {0} /\ MaxFaults \in Nat

VARIABLES
    snapshot,           \* per world: the laws in its directory
    target, previous,   \* per world: its datapack, and the one being replaced
    runtime, level,     \* root: laws of the startup recipes, level-type
    jar,                \* version of the geology jar in mods/
    home,               \* the world of the lineage
    used,               \* directories prepared so far
    pc, world, build,   \* the command that runs, or the last one
    served,             \* the world whose projection it completed
    faults

vars == <<snapshot, target, previous, runtime, level, jar, home, used,
          pc, world, build, served, faults>>

files == <<snapshot, target, previous, runtime, level>>
settings == <<jar, home, used>>

-----------------------------------------------------------------------------
(* Datapacks. A torn one has lost its marker or some of its files.         *)

NoPack == [build |-> Neutral, jar |-> 0, torn |-> FALSE]

\* ore_projection and the marker: the datapack of the build under projection.
Projection(b) == [build |-> b, jar |-> jar, torn |-> FALSE]

Wanted(b) == IF b \in Packed THEN Projection(b) ELSE NoPack

LevelTypes == {"normal", "large_biomes"}
LevelType(b) == IF b \in Large THEN "large_biomes" ELSE "normal"

\* owned_pack
Owned(pack) == ~pack.torn

\* validate_projection, against the laws in the world's own directory.
Valid(w) ==
    /\ runtime = snapshot[w]
    /\ level = LevelType(snapshot[w])
    /\ target[w] = Wanted(snapshot[w])

Init ==
    /\ snapshot = [w \in Worlds |-> Neutral]
    /\ target = [w \in Worlds |-> NoPack]
    /\ previous = [w \in Worlds |-> NoPack]
    /\ runtime = Neutral /\ level = "normal"
    /\ jar = 1 /\ home = First /\ used = {First}
    /\ pc = "idle" /\ world = First /\ build = Neutral
    /\ served = NoWorld /\ faults = 0

-----------------------------------------------------------------------------
(* Commands.                                                               *)

Goto(next) == pc' = next /\ UNCHANGED <<world, build, served, faults>>

Begin(w, b, first) ==
    /\ pc = "idle"
    /\ pc' = first /\ world' = w /\ build' = b /\ served' = NoWorld
    /\ UNCHANGED <<files, faults>>

\* The command ends without a projection; the supervisor dies or retries.
Reject == Goto("idle")

\* prepare, in a directory without a world and without other laws.
Prepare ==
    \E w \in Worlds \ used, b \in Builds :
        /\ Begin(w, b, "snapshot")
        /\ used' = used \cup {w} /\ UNCHANGED <<jar, home>>

\* normal, for the world of the lineage with the laws it was born with.
Normal == Begin(home, snapshot[home], "recover") /\ UNCHANGED settings

\* promote: after health, the candidate becomes the world of the lineage.
Promote ==
    /\ pc = "idle"
    /\ world # home /\ served = world /\ Valid(world)
    /\ home' = world
    /\ UNCHANGED <<files, jar, used, pc, world, build, served, faults>>

-----------------------------------------------------------------------------
(* project                                                                 *)

WriteSnapshot ==
    /\ pc = "snapshot"
    /\ snapshot' = [snapshot EXCEPT ![world] = build]
    /\ Goto("recover")
    /\ UNCHANGED <<target, previous, runtime, level, settings>>

\* Variant: both directories present is taken for a damaged swap.
RecoverOnlyMissing ==
    /\ pc = "recover"
    /\ \/ /\ previous[world] = NoPack
          /\ UNCHANGED <<target, previous>> /\ Goto("stage")
       \/ /\ previous[world] # NoPack
          /\ ~Owned(previous[world]) \/ target[world] # NoPack
          /\ UNCHANGED <<target, previous>> /\ Reject
       \/ /\ previous[world] # NoPack /\ Owned(previous[world]) /\ target[world] = NoPack
          /\ target' = [target EXCEPT ![world] = previous[world]]
          /\ previous' = [previous EXCEPT ![world] = NoPack]
          /\ Goto("stage")
    /\ UNCHANGED <<snapshot, runtime, level, settings>>

\* The swap a killed command left: the replaced datapack is put back, or, if
\* its successor is already in place, removed.
RecoverSwap ==
    /\ pc = "recover"
    /\ \/ /\ previous[world] = NoPack
          /\ UNCHANGED <<target, previous>> /\ Goto("stage")
       \/ /\ ~Owned(previous[world])
          /\ UNCHANGED <<target, previous>> /\ Reject
       \/ /\ previous[world] # NoPack /\ Owned(previous[world]) /\ target[world] = NoPack
          /\ target' = [target EXCEPT ![world] = previous[world]]
          /\ previous' = [previous EXCEPT ![world] = NoPack]
          /\ Goto("stage")
       \/ /\ previous[world] # NoPack /\ Owned(previous[world]) /\ target[world] # NoPack
          /\ previous' = [previous EXCEPT ![world].torn = TRUE]
          /\ UNCHANGED target /\ Goto("discard")
    /\ UNCHANGED <<snapshot, runtime, level, settings>>

\* rmtree(previous) has begun; it ends with the directory itself.
Discard(from, next) ==
    /\ pc = from
    /\ previous' = [previous EXCEPT ![world] = NoPack]
    /\ Goto(next)
    /\ UNCHANGED <<snapshot, target, runtime, level, settings>>

\* Variant: a datapack already in place is kept as it is.
StageOnce ==
    /\ pc = "stage"
    /\ Goto(IF build \notin Packed \/ target[world] # NoPack THEN "runtime" ELSE "retire")
    /\ UNCHANGED <<files, settings>>

\* Variant: the datapack is staged where servers look for it.
StageInPlace ==
    /\ pc = "stage"
    /\ target' = [target EXCEPT ![world] = [Projection(build) EXCEPT !.torn = TRUE]]
    /\ Goto("retire")
    /\ UNCHANGED <<snapshot, previous, runtime, level, settings>>

\* The datapack is staged outside datapacks/, where a stage that a killed
\* command leaves behind is never read.
Stage ==
    /\ pc = "stage"
    /\ Goto(IF build \notin Packed /\ target[world] = NoPack THEN "runtime" ELSE "retire")
    /\ UNCHANGED <<files, settings>>

\* Variant: the old datapack is removed, not moved.
RetireByRemoval ==
    /\ pc = "retire"
    /\ target' = [target EXCEPT ![world] = NoPack]
    /\ Goto("install")
    /\ UNCHANGED <<snapshot, previous, runtime, level, settings>>

Retire ==
    /\ pc = "retire"
    /\ IF target[world] = NoPack
         THEN UNCHANGED <<target, previous>>
         ELSE /\ previous' = [previous EXCEPT ![world] = target[world]]
              /\ target' = [target EXCEPT ![world] = NoPack]
    /\ Goto("install")
    /\ UNCHANGED <<snapshot, runtime, level, settings>>

Install ==
    /\ pc = "install"
    /\ target' = IF build \in Packed
                   THEN [target EXCEPT ![world] = Projection(build)] ELSE target
    /\ Goto("clear")
    /\ UNCHANGED <<snapshot, previous, runtime, level, settings>>

\* The rename of the stage fails: the old datapack is put back.
InstallFails ==
    /\ pc = "install" /\ build \in Packed
    /\ faults < MaxFaults /\ faults' = faults + 1
    /\ IF previous[world] = NoPack
         THEN UNCHANGED <<target, previous>>
         ELSE /\ target' = [target EXCEPT ![world] = previous[world]]
              /\ previous' = [previous EXCEPT ![world] = NoPack]
    /\ pc' = "idle"
    /\ UNCHANGED <<snapshot, runtime, level, settings, world, build, served>>

Clear ==
    /\ pc = "clear"
    /\ IF previous[world] = NoPack
         THEN UNCHANGED previous /\ Goto("runtime")
         ELSE previous' = [previous EXCEPT ![world].torn = TRUE] /\ Goto("clearing")
    /\ UNCHANGED <<snapshot, target, runtime, level, settings>>

RemovePrevious == Discard("discard", "stage") \/ Discard("clearing", "runtime")

WriteRuntime ==
    /\ pc = "runtime"
    /\ runtime' = build
    /\ Goto("properties")
    /\ UNCHANGED <<snapshot, target, previous, level, settings>>

WriteProperties ==
    /\ pc = "properties"
    /\ level' = LevelType(build)
    /\ pc' = "idle" /\ served' = world
    /\ UNCHANGED <<snapshot, target, previous, runtime, settings, world, build, faults>>

-----------------------------------------------------------------------------

\* The operator replaces the mods while no command runs.
UpdateMods ==
    /\ pc = "idle" /\ jar < MaxJars
    /\ jar' = jar + 1 /\ served' = NoWorld
    /\ UNCHANGED <<files, home, used, pc, world, build, faults>>

Kill ==
    /\ pc # "idle"
    /\ faults < MaxFaults /\ faults' = faults + 1
    /\ pc' = "idle"
    /\ UNCHANGED <<files, settings, world, build, served>>

Project ==
    \/ WriteSnapshot \/ RecoverSwap \/ Stage \/ Retire \/ Install
    \/ Clear \/ RemovePrevious \/ WriteRuntime \/ WriteProperties

Next == Prepare \/ Normal \/ Promote \/ Project \/ InstallFails \/ UpdateMods \/ Kill

Spec == Init /\ [][Next]_vars

\* A command that runs goes on, and a server that is not up is started again.
FairSpec == Spec /\ WF_vars(Project) /\ WF_vars(Normal)

-----------------------------------------------------------------------------
(* Properties.                                                             *)

Packs == [build : Builds \cup {Neutral}, jar : 0..MaxJars, torn : BOOLEAN]

\* Only previous is ever torn: no interruption leaves a partial datapack where
\* a server would enable it (line 308).
TypeOK ==
    /\ snapshot \in [Worlds -> Builds \cup {Neutral}]
    /\ target \in [Worlds -> {p \in Packs : ~p.torn}]
    /\ previous \in [Worlds -> Packs]
    /\ runtime \in Builds \cup {Neutral} /\ level \in LevelTypes
    /\ jar \in 1..MaxJars /\ home \in Worlds /\ used \subseteq Worlds
    /\ pc \in {"idle", "snapshot", "recover", "discard", "stage", "retire",
               "install", "clear", "clearing", "runtime", "properties"}
    /\ world \in Worlds /\ build \in Builds \cup {Neutral}
    /\ served \in Worlds \cup {NoWorld} /\ faults \in 0..MaxFaults

\* A command that succeeds leaves all three projections as validate_projection
\* demands them of the candidate's health, for the laws of its own world and
\* the jar at hand, whatever earlier commands left of other worlds (370-409).
ServedProjection == served # NoWorld => Valid(served)

\* From its promotion on, the home world's datapack exists whole, in place or
\* as the previous one, however the swaps on it are interrupted (332-350).
HomePackKept ==
    snapshot[home] \in Packed =>
        \/ target[home].build = snapshot[home]
        \/ previous[home].build = snapshot[home] /\ Owned(previous[home])

Torn == ~Owned(previous[home])

\* Once disturbances end, starting the server succeeds again and again, unless
\* a removal cut short has left a torn previous datapack (line 310).
NormalCompletes == []<>(served # NoWorld) \/ <>[]Torn

\* The recovery of an interrupted swap accepts what it finds (lines 308-319).
SwapRecoverable == pc = "recover" => Owned(previous[world])
=============================================================================
