# Formal models of the Better Content pack

Better Content is a Minecraft modpack. Much of the repository is declarative
game data; its programs are the KubeJS scripts that rewrite the recipes of some
hundred mods into one progression, the shell supervisor that runs a dedicated
server and replaces its world, the Python projector that freezes the laws of a
world, and the Kotlin and Python tooling that tests and releases the pack. This
directory holds TLA+ models of those programs, TLC configurations that check
them on small instances, and proofs checked by TLAPS.

## Inventory

| Component | Source | State it keeps | Operations | Modelled |
|---|---|---|---|---|
| World lifecycle supervisor | `src/better-world-management-server.sh` | level directory, archive-input, transaction directory and phase file, lineage, perks, control files, archive, process record | start, normal launch, parse a reset, open or resume a transaction, stage, archive, attempt a successor, accept its health, commit, roll back, release | yes |
| World-Axiom projector | `src/world-axioms.py` | frozen and promoted laws, law snapshot in a world, projected datapack | validate, prepare, normal, project with the datapack swap, promote, health check | yes, but for the decoding of laws |
| Perk reset graph | `parse_reset_perks` in the supervisor | none | prerequisites and costs of the chosen perks | verdict only |
| Pack-test runner lock | `src/pack-test-lock.main.kts`, `test.main.kts`, `release.main.kts` | lock file, `owner.json`, inherited token | acquire or exit 75, run the child, clean up, nest | yes |
| Session harness | `src/src/main/kotlin/com/bettercontent/tests/*.kt` | server and client processes, log cursor, session state | start, wait for readiness, connect, play, disconnect, stop, validate, clean up descendants | one session and its processes |
| Teleport soak | `TeleSoak*.kt` | tick-rate window, deadline, receipt | sample, decide, write the receipt | no |
| Release pipeline | `.../tests/release/*.kt` | stage markers keyed by fingerprints | run a stage, publish and reuse a marker | no |
| all24 controllers | `src/scripts/all24_*.py` | workspace, receipts, process census | preflight, materialize, attest, launch, stop | no |
| KubeJS recipe scripts | `src/kubejs/server_scripts`: `compat/retained`, `policy`, `progression`, `transport`, `utility`, `99_world_axioms.js` | native and queued recipes while the server loads | remove, replace an input, amend, add a recipe; remove trades and loot; select perks | yes, what is needed for what |
| Other scripts, config, datapacks | rest of `src/kubejs`, `src/config`, `src/datapacks` | none of their own | interpreted by the game | no: data |

How they interact. The mod inside the running server (not in this repository)
commits a reset by writing three control files (request, perks, laws) and stops
the server. The supervisor finds them, opens a transaction and calls the
projector for every step that touches laws. It talks to each successor server
through files only: it writes `successor-request`, the mod answers with
`health-result`. Players act on any server that is up, and the world remembers
that they joined. The release pipeline runs the session harness, which runs a
server through the supervisor's launcher; both take the runner lock first.
When a server loads, its recipe scripts rewrite the recipes; the last of them,
`99_world_axioms.js`, reads the projection that the supervisor's projector has
left for this world and adds what its perks allow.

What makes the supervisor hard: it is a state machine whose whole state is a
set of files; any command may be its last, and the next run must tell from the
files what the last one did; servers it started outlive it; `errexit` is off in
functions called as conditions; and a candidate world becomes worth keeping
the moment a player joins it, while the supervisor is still deciding.

What makes the recipe scripts hard: no one of them sees the others. Each
removes, gates or adds recipes for items that scripts of other directories,
datapacks and perks use too; whether an expedition, an era or a closed item can
be bypassed, or an item cannot be made at all, is a property of the sum of some
forty files, in one load order, in each kind of world.

What makes each component correct:

- supervisor: a reset is decided exactly once; the home world is never lost; a
  generation is only given up for a verified archive of its world; health that
  is accepted belongs to the world in place; a world with players in it is never
  moved aside; no two servers run; every reset is eventually released.
- projector: a world's datapack is the projection of its frozen laws, or absent
  for a moment, never that of another world.
- runner lock: no two runners' children overlap; a nested runner only enters
  under a live owner.
- session harness: a session that reports `passed` had its client join and leave,
  its server save and exit on request, and left no process it has seen; every
  session ends with a result and every tracker stopped.
- soak: it passes only after a full window of good samples before the deadline.
- release pipeline: a marker vouches for exactly the inputs it names.
- recipe scripts: what a script takes away or gates stays so; no route, however
  long, passes an expedition or an era; closed items stay closed; everything
  else can be made; a perk has its effect exactly where it was paid for.
- all24 launch: a signal only reaches a process of the census it was meant for.

## Modules

| Module | Role |
|---|---|
| `WorldSuccession` | abstract specification: one home world, one generation counter, a reset that is requested, decided once and released |
| `LifecyclePhases` | the phase names and the transition table of `write_phase` |
| `WorldSupervisor` | the supervisor, its servers, players and disturbances |
| `WorldSupervisorProperties` | type invariant, safety, action and progress properties, the refinement mapping to `WorldSuccession` |
| `MCWorldSupervisor` | constants for TLC |
| `WorldSupervisorProofs` | types, the home world, the release of a reset: theorems and proofs |
| `WorldCommitProofs` | archives, accepted health, the settled server, commit and refinement: theorems and proofs |
| `WorldServerProofs` | at most one server, and no inhabited candidate moved aside: theorems and proofs |
| `AxiomProjection` | the projector's commands, the datapack swap, kills and failing renames, and its properties |
| `MCAxiomProjection`, `AxiomProjectionProofs` | constants for TLC; theorems and proofs |
| `PackTestLock` | concurrent test and release runners, their shutdown hooks, signals and kills, and its properties |
| `MCPackTestLock`, `PackTestLockProofs` | constants for TLC; theorems and proofs |
| `ProcessTracker` | processes, their descent, and the trackers that end them; no behaviour of its own |
| `PackSession` | extends `ProcessTracker`: the session thread and the processes it starts, and its properties |
| `MCPackSession`, `PackSessionProofs` | constants for TLC; theorems and proofs |
| `RecipeRules` | what a script does to recipes: kinds of rules, machines, and what rules do to a native route |
| `WorkshopRecipes`, `ChemistryRecipes`, `LogisticsRecipes`, `TransportRecipes`, `ArmouryRecipes`, `MagicRecipes`, `PolicyRecipes`, `WorldAxiomRecipes` | the scripts, each as the set of its rules |
| `RecipeLoading` | the scripts run in order, then players travel and craft; its properties for any scripts |
| `PackProgression` | the scripts of the pack in load order, what is found where, the gates, and what the progression promises |
| `RecipeLoadingProofs` | theorems and proofs for any scripts |
| `MCPackProgression`, `PackProgressionProofs` | worlds for TLC; theorems and proofs for the scripts of the pack |

### How WorldSupervisor corresponds to the code

A variable is a file, a directory or a process. The program counter `sup`, the
attempt `k` and `child` (SUCCESSOR_PID) are the shell's own memory and are lost
by `Die`, which stands for `die`, for a failing command under `errexit` and for
a kill. One action is one durable write with the tests before it, so
`Crash`, `Signal` and `Reboot` strike between any two of them. Writes are put in
one action only where no move of a world lies between them and a restart repeats
them all:
`DiscardSource` (the removals of `cleanup_committed_transaction` before the
release), `RecordRequest` (the copies into a new transaction directory and
its first phase; a crash inside them is the state `dir = "incomplete"` between
`CreateTransaction` and `RecordRequest`), `DrawSeed` (old health removed, new
request written), `RecoverCommitted` (lines 808-817: the server stopped, its record
cleared, checksum and perks written again) and `BeginAttempts` (906-917: the server
stopped, the candidate set aside). In the last two the phase
stays as it is, so a restart finds the same phase and does again what is left;
between those writes the model has no crash of its own.

| Variable | Code |
|---|---|
| `active`, `staged` | `$ACTIVE_WORLD`, `$ARCHIVE_INPUT/world`, as the seed, the law snapshot and the generation of the world in it |
| `inhabited` | seeds of the worlds with an inhabited marker or player data |
| `lineage`, `perks`, `laws` | `lineage-v5.tsv`, `perks-v2.tsv`, `world-axioms-v1.json` |
| `controls`, `bound` | the files of the confirmed reset; the world its in-world binding names |
| `request`, `health` | `successor-request-v5.tsv`, `health-result-v5.tsv` and its companions |
| `record` | `active-successor-process` |
| `props`, `projected` | `level-seed` in `server.properties` (0: torn); the laws in the projected datapack |
| `dir`, `phase`, `base`, `before`, `evidence`, `failed` | the transaction directory: whether its creation finished, the phase file, lineage and properties before, the accepted request, the `failed-attempt-n` directories |
| `archives`, `partial`, `checksum` | the published zips, the partial zip, its `.sha256` and `.sha256.partial` |
| `forked`, `up`, `normal` | launchers before and after `exec`, the server of normal operation |

Worlds are known by their seed. `random_seed` draws 64 bits; the model draws
the least value of `Seeds` not named by any world, file or process, so that
distinct seeds are distinct and TLC does not meet permutations of them.

Disturbances (`Faults`, at most `MaxFaults` of them):

- `crash`: the script is killed, or a command fails under `errexit`; servers stay.
- `signal`: `handle_signal` stops the recorded server, removes the record and exits.
- `reboot`: every process is gone, files stay.
- `archive`: the verifier, the checksum comparison or the zip fails.
- `publish`: the `mv` of the verified zip to its final name fails.

Assumptions about the outside. The mod commits a reset only from the server of
the home world and only when no reset is pending (`RequestReset`); its health
report names the request its server was booted with (`ReportHealth`). A forked
launcher writes its process record, or dies, within the ten seconds of the
handshake and before another supervisor starts; a launcher stalled longer than
that would go unrecorded, and `OneServer` says nothing about it. The rm that
releases a reset ends before the players confirm another one. `sync` works.

### How AxiomProjection corresponds to the code

`WorldSupervisor` calls the projector as one step; this module opens that step.
A world is a level directory, with its frozen laws (`snapshot`), its generated
datapack (`target`) and the one a swap is replacing (`previous`). `runtime` and
`level` are the two projections in the server root. A command walks through
`project` and `write_pack` at the granularity of its durable writes: `pc` is the
place, `world` and `build` the arguments. A datapack is known by the laws and by
the jar it was generated from, and is `torn` from the first file `rmtree`
removes. Worlds keep their identity when the supervisor moves them into or out
of the one level directory there is. What is left out: how laws are decoded
(lines 1-226), which jars are acceptable, JSON and file-type checks; each ends
the command without a write, as `Reject` and `Kill` do.

`Kill` strikes between any two writes, `InstallFails` is the `OSError` of lines
342-347, and `UpdateMods` changes the jar that ore_projection reads between two
commands.

### How PackTestLock corresponds to the code

A runner is one invocation of the script. `lock` is the kernel lock by its
holder, `owner` the token in `owner.json`. `main` is the place of the main
thread, `hook` that of the shutdown hook; `Cleanup` is run by either. The flag
`cleaned` is neither volatile nor guarded: after a signal nothing orders the
two threads, so `EnterCleanup` may miss the other's write; on a normal exit the
main thread starts the hook, which sees it. A signal (to the JVM alone or to
its process group) starts the hook while the main thread goes on; before the
hook is armed, and for a kill at any time, the JVM ends at once and the kernel
frees its lock. The session is another process and ends when it likes. `Nest`
is the runner a session starts in turn with its inherited token; it never
touches the lock.

### How ProcessTracker and PackSession correspond to the code

A process has a life and a fixed line of ancestors. The kernel finds a process
below another as long as all between them live (`Below`); a tracker keeps those
it has found in `handles`, looks every 25 ms (`Observe`) and on every round of
`terminate`. A look is one step (`Observe`, and that of `EndStop`), while the code
lists descendants and records them one by one: a process that forks or loses its
parent in between is one that the look has not seen, as in the model when it
forks, or its parent dies, next to a look.
SIGTERM leaves no trace in the model, since a process may exit at
any time and may ignore it; one that was sent SIGKILL forks and saves no more,
and may still be there at the deadline. `closing` and `stage` are the `stop` in
progress; only the session thread stops trackers, so there is at most one.

`pc` walks through `runLifecycle`, `close` and the `finally` of `main`. `Trouble`
is everything that makes a step of `runLifecycle` throw: a deadline, a failed
`check`, an unwritable file. It goes to `close`, like a lifecycle that has
passed. `told` is the console's "stop", `world` what the game did about
it, `clean` whether the launcher exited with status zero. The game is a child
of the launcher and dies with or without it; the client's JVM is a child of
`pipx`. The helper is any process the game may fork.

Left out: preparation (its commands end before the session begins), heartbeats
and the itinerary of the soak (`Play` needs the connection, and may fail as
`Trouble`), the hash comparison and the itinerary at the end (a verdict in
`Finish`), the status `diagnostic`, and a `run.json` that cannot be written: it
then stays `running`. Processes stand still once the result is written.

### How RecipeLoading and PackProgression correspond to the code

A recipe script is a `ServerEvents.recipes` handler. Its calls become a set of
rules: `event.remove` and trade or loot removals (`Removes`, `RemovesFrom`), a
new recipe (`Makes`), a removal with a new recipe (`Remakes`),
`event.replaceInput` (`Requires`), `event.forEachRecipe` with `merge`
(`Amends`) or with a copy (`Copies`). A route is an item and what it needs. An
item is the path of its identifier, with the namespace where scripts have one path
under two (the rope of the hooks, the dragon scales); a fluid is an item, and a
machine is a need of the recipes worked in it, so that a gate on a machine is a gate
on its products. A gate by a proof of formal magic (`#kubejs:formal_magic/proof/...`)
names no need: a proof is of any of several disciplines, and no gate of the model
stands on one. Counts, patterns, temperatures, pressures and durations are left out:
they delay players but stop none. Goods that no script touches (planks, iron,
sand, copper, redstone) are free and are not named.

The scripts run in the order of their `priority` and then of their path.
`event.remove`, `replaceInput` and `forEachRecipe` act on native recipes as
earlier scripts left them; what scripts add is queued, and no later event sees
it. The repository relies on this: `progression/plant_drinks.js:37` and
`84_cooking_recipes.js:96` say so and work around it, and most scripts remove by
output and then write recipes of that output. Inside one script a removal
never reaches its own additions for the same reason, so the rules of a script
are a set. The library itself (KubeJS, MoreJS, LootJS) is not in the repository;
its part of the model is marked external.

Native routes are taken at their weakest: every item and origin (recipes, trades,
offers, loot) that some script removes, gates or amends, and every closed item, has a
native route that needs nothing. So whatever a gate's guard says holds although
mods would hand the item out, and a script that forgets a removal shows at
once. What such routes needed beyond the gate is lost, so the model lets players
make things earlier than the game does, never later. `PackKept` are the few
mod and datapack recipes that scripts rely on and do not touch; `PackHome` are goods
of the first world that the model names and no script supplies: a metal and two
goods of magic that mods make. What a script does lay out, as
`21_starter_hook_loot.js` does the prototypes of the hooks, is a rule of that script.

Every mod and item that a script tests for is there (`Item.exists`,
`Platform.isLoaded`), but for Manufacturing. A world
has Better Manufacturing or not (`Platform.isLoaded`; many scripts have two
forms), and a projection: generation, transaction and selected perks. `Selection` is
`bcWorldAxiomSelection`. `paid` is what the supervisor accepted for this world.
The tier of a blood altar is an item of its own (`altar_tier_5` is the model's name
for `upgradeLevel` 4).

`Visit` and `Craft` are the players. Craft is a round of everything that can be made;
visits wait until a round adds nothing, since more at hand never makes less
possible. Three of the five rock families stand for all: pairs of two
families are interchangeable, and three show that any two do and that one
does not.

Left out: the fifteen or so handlers that gate nothing and close nothing (cooking and
furnace catalogues, `zz_recipe_clash_remediation.js` with its corrected patterns, tags,
wood and stone compatibility), client scripts, glyphs, the late safety net of script 165, and
recipes that mods add for items the scripts only consume. Of the forty-odd focuses that
script 125 gates alike, `Foci` has those that other scripts name and one for the rest.
The limit of 24 perks is in `Active`, but fewer than 24 perks touch recipes: the runs
exercise the limit by the generation only.

## Runs

All runs of the supervisor use two authorized attempts in place of eight: one that can be
retried and one that is the last covers every branch that compares the attempt
with `MAX_ATTEMPTS`. Two resets (`MaxTx = 2`) are needed for what one transaction leaves to the
next: stale health, projected laws, a second staged world. `Seeds` is larger
than the number of worlds a run can draw, so a draw never fails for lack of one.

| Run | Result | What it shows |
|---|---|---|
| `Recovery` | passes | under up to three crashes, signals, reboots or failing archive operations: types, `HomeWorldKept`, `ResetParsable`, `SettledConsistent`, `OneServer`, `AcceptedHealthIsCurrent`, `PastWorldsArchived`, `LineageAdvancesVerified`, `ReleaseDecided`, and that the supervisor implements `WorldSuccession` |
| `Progress` | passes | two crashes, signals or reboots: `InhabitedCandidatePreserved`, `GivenUpOnlyExhausted` (an archive that a crash cut short is made anew and does not end its reset), and under fairness `ResetsDecided` |
| `InhabitedDiscarded` | violation | `InhabitedCandidatePreserved`, finding 1 |
| `ArchiveMissing` | violation | `VerifiedArchiveExists`, finding 2 |
| `LaunchLivelock` | violation | `FailingLaunchesEnd`, finding 3 |
| `Projection` | passes | under three kills or failing renames: no torn datapack is where a server would enable it (part of `TypeOK`), `ServedProjection`, `HomePackKept`, and under fairness `NormalCompletes` |
| `TornSwap` | violation | `SwapRecoverable`, finding 4 |
| `RunnerLock` | passes | three runners, two signals or kills: `SessionUnderLock`, `OwnerHoldsLock`, `OwnerPublished` |
| `Session` | passes | three started processes and three descendants that live and die as they like: `PassedSession`, `ClosedBeforeStop`, `AllStopped`, and under fairness `SessionEnds` |
| `Progression` | passes | five worlds, eight sites in any order: `ScriptsStand`, `GatesGuarded`, `GatesHold`, `PerksAsPaid`, `ClosedStaysClosed`, `NothingElseStranded` |
| `AssemblyDeadlock` | violation | `AssemblyToolingReachable`, finding 5 |
| `PerkWithoutEffect` | violation | `SacrificialTraditionTakesEffect`, finding 6 |

Three disturbances let a recovery be interrupted and its recovery be interrupted
again, with one left for the second reset. A supervisor that ended can always be
started again, so its runs check for deadlock, as those of the projector do.

`Projection` has three worlds (the first one has no laws, a successor that is
promoted, and a successor of that), two sets of laws, of which one has a
datapack and the other large biomes, and two versions of the jar. `RunnerLock`
has three runners: one that is disturbed, one that profits from it, and one
that the late cleanup of the first could harm; runners are alike, so the run
uses symmetry. Its runs set `CHECK_DEADLOCK FALSE` because a run ends when all
runners have.

`Session` has the launcher, the game, a process below the game, the client with
its JVM, and the display: the game and the helper can lose one and two ancestors
before or after they are seen, and each of the three roots can survive its stop.
It sets `CHECK_DEADLOCK FALSE` because a session ends with its result.

`Progression` has five worlds: neutral with and without Manufacturing; one with
Manufacturing and three perks (iron law, spirit awakening, patient alchemist), one
without it and with four others (eternal engine, captive hearth, alloy testament,
chalk covenant), so that no perk hides what another opens; and one whose projection
selects seven perks in its sixth generation, which must select nothing. There are 2^8 sets of visited sites, and
each is reached by every order. The runs set `CHECK_DEADLOCK FALSE`
because a world in which everything is visited and made stops. `GatesGuarded` is
local (each route to an item of a gate takes another of its items or a key), so
it holds or fails whatever players do; `GatesHold` says what players meet. The gates name
items across scripts: one item left out of a gate makes its guard fail, so the
lists are as complete as the routes are. In the worlds that TLC sees, that is: the gate
of the rock families once lacked the brass billet, by which the alloy testament casts
brass. A world with that perk and without the iron law, which spares the families
anyway, was in no run; it was the proof for every set of perks that did not go through.
The gate names the billet now, and the perks of the third and fourth world are split so
that a run shows it.

### Fairness

`FairSpec` asks for weak fairness of three things: `Start` (whoever runs the
server restarts a script that ended; the script itself `exec`s
itself after every recovery), `Supervise` as a whole (the shell executes its
next command) and `ChildExecs` (a launcher that was forked reaches its exec
unless it dies). Nothing is assumed of servers, health reports, players or
disturbances: a server may run for ever, never report health, or end at
any moment. `MaxFaults` makes disturbances finite.

`ResetsDecided` therefore says: a recorded reset is released, or the system is
for ever in one of three states that only an operator leaves (`Wedged`: the
creation of the transaction directory was cut short, line 766; the copy of
`server.properties` was cut short, lines 645 and 946; a player has joined the
candidate, which is deliberate), or launches keep ending before their handshake
(finding 3).

`AxiomProjection` asks for weak fairness of the steps of a running command and
of `Normal`: every start of the server begins with that command. Successor
attempts, jar updates and disturbances are not fair. `NormalCompletes` excludes
the state of finding 4, a torn previous datapack that no command removes.

`PackSession` asks for weak fairness of the session thread: every wait of it has
a deadline (`waitUntil`, `waitForExit`, both rounds of `terminate`). Nothing is
assumed of processes or of the periodic looks of the trackers.

`RecipeLoading` has no fairness: what can be made is a safety property of worlds in
which nothing is left to visit or make (`Complete`).

## Findings

1. `rollback_archive_failure` (line 642) moves the world in place aside without
   `require_uninhabited_candidate`. After a crash during an attempt whose
   candidate a player has joined, a published archive that fails its
   re-verification (lines 894-902) discards the candidate.
   `docs/implementation.md:747-749` says the supervisor preserves it.
2. `create_verified_archive` is called as the condition of an `if` (line 889),
   where `errexit` does not apply inside it. A failing `mv` to the final name
   (line 353) goes unnoticed and the phase becomes `archive-verified` without an
   archive. The source world is safe: the checksum in `finalize_success` fails and
   line 888 stops every restart, but nothing resolves the transaction.
3. The candidate of attempt k whose launcher ended before its handshake is set
   aside as `failed-attempt-k`. If the supervisor dies before it writes
   `attempt-(k+1)-prepared`, the phase is still `attempt-k-prepared` and the
   restart repeats attempt k. If its launcher ends early again, `mv -T` meets the
   directory that is already there (line 922), the supervisor dies in the same
   phase, and so does every restart: the rollback after eight attempts is never
   reached.
4. `shutil.rmtree(previous)` (lines 318 and 349 of `world-axioms.py`) is not
   atomic. Cut short after it has removed the marker or some file, it leaves a
   directory that `owned_pack` (line 310) rejects on this and on every later
   command: no server starts until an operator removes it. The comment of line
   308 announces the recovery of an interrupted swap.
5. `81_pneumaticcraft_progression.js:26-33` removes every recipe of the assembly
   controller and writes one that needs an advanced pressure tube. The
   only recipe of that tube is the assembly laser's, an assembly line works only
   under a controller, and `82_pneumaticcraft_acquisition.js:76-84` removes the tube
   from loot, noting that it is an assembly-laser output. So the controller,
   the tube, and the programmable controller cannot be had, while line 54 of the first
   script calls assembly tooling a pressure-era capability.
6. The block of `sacrificial_tradition` in `99_world_axioms.js:136-144` amends
   `kubejs:bloodmagic/deep_dagger_of_sacrifice`. That recipe is queued by
   `compat/retained/...82_blood_magic_lifeforce_rework.js` in the same event, and
   `forEachRecipe` only visits native recipes: the tier stays, and the perk that a world
   paid for does nothing.

Where the progression's documents and scripts disagree without a run of their own:

- `removed_items.js` and `config/quarantined_items.json:125-126` close the jet boots
  upgrades 4 and 5, and `81_pneumaticcraft_progression.js:94-102` writes recipes for both
  afterwards. The fourth can be made again (`Reopened`), the fifth needs the closed
  dragon breath (`Stranded`).
- `utility/hooks_drones_gates.js:43` makes the iron hook of
  `better_rehooked_grappling:soap_on_a_rope`; `config/hover_annotations.json:127` knows the
  item by that name. `utility/21_starter_hook_loot.js:43-52` lays
  `better_compat_fixes:soap_on_a_rope` into the early chests, or nothing where no
  such item exists. No script supplies the rope of the hook, and the iron, diamond,
  blaze, ender and red hook, each built from the one before, cannot be had, while line 3
  of the first script says that the rope is supplied as early loot. The hooks are in
  `Stranded` (`MetalHooks`), so `Progression` shows them out of reach in every world it
  visits, and `StrandedForGood` proves it of every world.
- `closed_end_dragon_replacements.js:74-77` makes `tconstruct:dragon_scale` of the
  scale that Quark's Ender Dragon drops, "that finite boss reward"; `dimension_access.js:38-43`
  cancels the End portal, and `docs/progression.md:401` has the End inaccessible. The scale
  is therefore in `Stranded`.
- `docs/progression.md:381` has the steam engine behind the Brass Machine Block; script
  `30_precision_factory.js:57-72` asks for a precision mechanism only.
- A comment of `22_underwater_works.js:12` says that Certus supplies the control component of
  the mechanical conduit; the recipe has none.
- `166_tome_of_blood_post_ae2_gates.js` names the sentient wrath glyph post-AE2; its
  needs are a slate and the support matrix, which come before AE2.

The shutdown hook of a runner releases the lock (line 105 of
`pack-test-lock.main.kts`) without stopping the session it was taken for. When a signal
reaches the runner alone, the next runner starts a second session beside the
first, which `docs/testing.md:72` excludes; a killed runner has the same effect, but no
user code can run then. The model has both, and `SessionUnderLock` speaks of the
runners no fault has struck.

Four smaller behaviours are in the models without a run of their own. A crash
between the move that restores the old world and `write_phase rolled-back`
(648/650, 947/949 of the supervisor) makes the next start stage the world again
and die in `write_phase` (line 283); the start after it goes on, as `Progress`
shows. And after a signal both threads of a runner may clean up, the slower one
deleting the `owner.json` that the next runner has just published, so that
runners nested in the new session are refused: `OwnerPublished` therefore speaks
of runs in which no runner was signalled. Finally, a descendant whose parent has
exited before any tracker looked is unknown to all of them, and may outlive a
session that passed: `PassedSession` speaks of the processes that were seen, as
`ProcessCleanup.kt:12` does, while `docs/testing.md:60` counts every surviving
owned process as a failure. And a crash inside the write of the archive's checksum
leaves a partial file, on which `atomic_write` dies (lines 138-140); called for a
published archive (line 899), that is taken for an archive that does not verify, and the
reset is given up although its archive is good. The server is consistent
afterwards; `GivenUpOnlyExhausted` has this as its one exception.

## Proofs

`WorldSupervisorProofs` proves, for every value of `MaxAttempts`, `MaxTx`,
`Seeds`, `MaxFaults` and `Faults` that the named assumptions allow:

- `TypeCorrect`: `Spec => []TypeOK`. Strengthened by `AttemptAuthorized`:
  between `NextAttempt` and `InspectCandidate` the attempt is at most
  `MaxAttempts`, and the loop starts from at least one; without it `k + 1`,
  `k - 1` and the phase `attempt-k-prepared` could leave their domains.
- `HomeWorldNeverLost`: `Spec => []HomeWorldKept`. `HomeWorldKept` alone is not
  inductive: whether a move or a removal loses the home world depends on where
  it is. `PhaseInv` says what each phase implies (before health is verified
  the old world is staged or in place and the lineage has not moved;
  after it the candidate of the next generation is in place), `ControlInv` what
  each position of the script adds to the phase file (for example that
  at `commit-lineage` the phase is `health-verified`, and in the attempt loop
  the home world is staged). The proof has one step per action.
- `ResetAlwaysParsable`: `Spec => []ResetParsable`, strengthened by the fact that
  after the first removal of the release the reset file is gone.

`WorldCommitProofs` proves, from the same assumptions and `HomeInv`, the inductive
invariant of `HomeWorldNeverLost`, what a succession commits. `CommitInv` adds, part by
part, what is known of the files: `ArchiveInv` (every published archive was verified,
and that of the open transaction is of the world it is to replace), `SeedInv`
and `HealthInv` (from its draw to its acceptance a candidate, its request, its
health and `server.properties` carry one seed, which no world has had), `LedgerInv`
(perks and promoted laws follow the lineage before and after it moves),
`PropertiesInv` (`server.properties` names the home world wherever no candidate is
in place) and `DecisionInv` (a release comes after a decision). From it follow

- `PastWorldsKept`: `Spec => []PastWorldsArchived`;
- `AcceptedHealthCurrent`: `Spec => []AcceptedHealthIsCurrent`;
- `SettledStateConsistent`: `Spec => []SettledConsistent`;
- `LineageOnlyAdvancesVerified` and `ReleasedOnlyDecided`, the two action properties;
- `SuccessionImplemented`: `Spec => ImplementsSuccession`. Each of the supervisor's
  and its environment's steps is a step of `WorldSuccession` or leaves
  `lineage`, `Home` and `Status` alone, for any number of disturbances.

`WorldServerProofs` proves `OnlyOneServer`: `Spec => []OneServer`. `ServerInv` says
that the process record names every server of a successor, that a launcher
without a record is being waited for or was left by a supervisor that died,
and at which positions of the script there is no process at all. It also proves

- `CandidatesPreserved`: without archive failures, under any number of crashes, signals,
  reboots and failing publications, the action property
  `Spec => InhabitedCandidatePreserved`. `CandidateInv` says at which positions and in which
  phases no candidate can be in place, what has been verified of the archive by the
  time one is, and hence that the rollback of line 642 finds none. The hypothesis
  `"archive" \notin Faults` is needed: finding 1 is its counterexample.

`AxiomProjectionProofs` proves, for any worlds, laws, jars and number of
disturbances:

- `ProjectionTypeCorrect`: `Spec => []TypeOK`; the type of `target` admits no
  torn datapack, so no interruption leaves one where a server enables it.
- `ServedProjectionValid`: `Spec => []ServedProjection`. `CommandInv` says what
  each place of a command knows: from `recover` on it projects the laws of its
  own world, from `clear` on the datapack is the wanted one.
- `HomePackNeverLost`: `Spec => []HomePackKept`. `PackInv` adds that every
  datapack in a world stems from that world's own laws, and that a directory
  that is about to get its laws has none; without it the `discard` branch of the
  recovery could give up the only right datapack.

`PackTestLockProofs` proves, for any number of runners and faults:

- `SessionsUnderLock` and `OwnersHoldLock`. `Orderly` says that an undisturbed
  runner cleans up exactly once, on its main thread, and holds the lock up to
  that; it is inductive although disturbed runners may clean up twice.
- `LockTypeCorrect`: `Spec => []TypeOK`.
- `OwnersPublished`: while no runner was signalled, metadata lasts as long as
  the session. `Quiet` adds that a killed runner has no thread left that could
  remove metadata.

`PackSessionProofs` proves, for any processes and any parentage among them:

- `SessionTypeCorrect`, `PassedSessionsWhole`, `ClientGoneFirst` and
  `EveryTrackerStopped`: `TypeOK`, `PassedSession`, `ClosedBeforeStop` and `AllStopped`.
  `SessionInv` says what the session thread has behind it at each position
  (`Reached`), that a tracker holds only processes that have lived (`Traced`), and that
  a cleanup without a failure comes after a whole session (`Unfailed`). The argument
  rests on one lemma on trackers: once all that a tracker holds is dead, no fork and
  no look can add to it, since nothing is found below a dead process.

`RecipeLoadingProofs` proves, for any scripts, native routes, sites and gates:

- `TypeCorrect`: what players hold was found where they have been or has a route.
- `DecisionsStand`: `Spec => []ScriptsStand`, from the hypothesis `NothingSpared` that no
  script amends away what another requires. With an amendment of that kind the property is
  false, which its mutant shows.
- `GuardedGatesHold`: if every gate is guarded when the recipes are loaded, no order of
  visits and crafts passes one. The inductive invariant keeps the guard of each gate after
  loading, since players change no recipe, and `Home` free of its items; a craft then adds an
  item of a gate only where one of its items or keys is already held.
- `SealedGatesGuarded`: `Spec => []GatesGuarded`, from the hypothesis `GatesSealed`, which
  looks at the scripts one by one: each writes only guarded routes to the items of a
  gate, and each native route to one is cut or given a guard by some script and amended by
  none. The invariant `History` says where the routes of a loading world
  come from: a queued route was written by, or is the copy of a native route made by, a
  script that has run; a native route that no script which has run cuts is still
  there with all that was added.

Both hypotheses are conditions on scripts. `PackProgressionProofs` proves them of the
forty-three scripts of this pack, and with them what `Progression` checks, for every set of
worlds with any projection, with and without Manufacturing, where TLC looks at five.
It assumes `PackAssumption` (the scripts, native routes, finds and gates are the pack's;
TLC evaluates it in every run of `PackProgression`), and for three theorems `Truthful`:
the perks a world paid for are those its projection selects. That is the supervisor's and
the projector's business, and every world of `Progression` is so.

The argument is local. A seal is a set of items and a guard; a script respects it if no
rule of its own writes, copies or amends a way to an item past the guard. Each gate is
a seal, and so is each perk that was not paid for. `OrdinaryProper` takes the ordinary
scripts one by one and the axioms one by one (`AxiomsProper`, `AxiomsRespect`);
`RespectedSeals` puts them together. No combination of perks and no order of play is
enumerated.

- `PackDecisionsStand`: `Spec => []ScriptsStand`, without a hypothesis on amendments.
- `PackGatesGuarded` and `PackGatesHold` (`Truthful`): all gates are guarded and hold.
- `PackPerksAsPaid` (`Truthful`): each perk opens its route if it was paid for, and no
  script or other perk opens it if it was not. That the altar opens needs the order of the
  scripts: the perks copy the altar's native recipe, which no script may have removed.
- `ClosedForGood`: `Spec => []ClosedStaysClosed`, from the seal of all that is closed.
- `StrandedForGood` and `TraditionWithoutEffect`: findings 5 and 6, and that hooks
  and dragon scale are out of reach, are no matter of the worlds that were tried; they
  hold in every world with any perks.
- `PackNothingElseStranded`: `Spec => []NothingElseStranded`. That the ten stranded items
  are stranded is `StrandedForGood`: nothing but closed and stranded things (`Shut`, which
  has the rope and Quark's scale too) makes one. That all others can be made is a reachability
  that an invariant does not give; the proof instead names the goods of each era in turn
  and shows of any set that holds the finds and is closed under the recipes
  (`Sufficient`) that it holds the goods (`GoodsMade`, one lemma per era), and of
  each script that its rules need only goods (`Supplied`). `CompleteSuffices` shows that who
  has been everywhere, with nothing left to craft, holds such a set: native routes need only
  finds (`NativeFound`), finds are kept (`FindsKept`), and four native recipes that scripts
  gate but leave standing (`Standing`) are still there to start from.

The inductive invariants of the first four components were checked by TLC on the
instances of the runs before they were proved, under all kinds of disturbances together.
Every safety invariant, action property and refinement that a passing run checks is
stated by a theorem, but for `GivenUpOnlyExhausted`. Model-checked only are that property;
what needs fairness, which TLAPS 1.4 does not handle: `ResetsDecided`, `NormalCompletes`
and `SessionEnds`; and the six disagreements of the runs that end in a violation, two
of which have the theorems named above beside them.

## Not modelled

- The supervisor's log, console relay, retained evidence copies, disk-space
  reserve and tool checks: they decide nothing that the properties mention,
  except that each may end the script, which `Crash` covers at every position.
- The creation of the state files on the first start of a server (lines 145-160).
- The contents of perks, laws and archives: their validation is a verdict.
- Failing writes that `errexit` would have caught but for the `if` of line 925.
- The release pipeline, the teleport soak, the all24 controllers and the perk check.
  The pipeline and the controllers are mostly validation of receipts and files; two
  publishers of one release marker (`ReleaseMarkers.kt:72` tests for existence and then
  moves) are kept apart by the runner lock, which `PackTestLock` models. The soak is one
  sequential loop over measured tick rates.
- Client scripts, tags, loot tables, cooking catalogues, configuration and datapacks, as said
  above.

## How the project is laid out

Most important first: `WorldSupervisor` with its abstract specification, then the projector
it calls, the runner lock and the session harness of its tests, and the recipe
scripts that a server loads. A model, its constants for TLC and its proofs are in
modules of their own, so that each can be read and checked alone. What would come next:
`WorldSupervisor` over `AxiomProjection` (the projector's steps in place of the
supervisor's single step), and the release markers.
