---------------------------- MODULE RecipeRules ----------------------------
(***************************************************************************)
(* What a KubeJS script does to the server's recipes, one rule per event.  *)
(* An item is the path of its identifier, with its namespace where the     *)
(* scripts have one path under two. The needs of a route are the items a   *)
(* script authors, withholds or takes from one place, and its machine;     *)
(* planks, ingots and other goods the pack leaves alone are free. A        *)
(* removed route to such a free good stands under a name of its own.       *)
(***************************************************************************)

Rule(kind, outs, needs) ==
    [kind |-> kind, from |-> "recipes", outs |-> outs, needs |-> needs, spare |-> {}]

\* event.shaped, shapeless, smelting, custom, and addLoot, which takes nothing:
\* a new route to each of outs.
MakesEach(outs, needs) == Rule("make", outs, needs)
Makes(out, needs) == MakesEach({out}, needs)

\* event.remove by output or identifier, followed by a new route.
RemakesEach(outs, needs) == Rule("remake", outs, needs)
Remakes(out, needs) == RemakesEach({out}, needs)

\* event.remove alone; removeTrades and removeLoot with their origin.
Removes(outs) == Rule("remove", outs, {})
RemovesFrom(origin, outs) == [Removes(outs) EXCEPT !.from = origin]

\* event.replaceInput: the route the pack came with needs something more.
Requires(outs, needs) == Rule("require", outs, needs)

\* event.forEachRecipe with merge: the recipe needs one thing for another.
Amends(out, old, new) == [Rule("amend", {out}, {new}) EXCEPT !.spare = {old}]

\* event.forEachRecipe with custom: a second recipe that spares something.
Copies(out, old) == [Rule("copy", {out}, {}) EXCEPT !.spare = {old}]

-----------------------------------------------------------------------------
(* The machine a recipe's type is worked in is one of its needs.           *)

Via(machine, rules) == {[r EXCEPT !.needs = @ \cup machine] : r \in rules}

Mixer == {"mechanical_mixer", "basin"}
Compactor == {"mechanical_press", "basin"}
Press == {"mechanical_press"}
Crafters == {"mechanical_crafter"}
Deployer == {"deployer"}
Millstone == {"millstone"}
Foundry == {"seared_brick"}
Plant == {"thermopneumatic_processing_plant", "air_compressor"}

\* global.bcPncrPressure
Chamber == {"pressure_chamber_interface", "air_compressor"}

-----------------------------------------------------------------------------
(* What a set of rules does to a native route, one the pack came with, and *)
(* the routes it queues. No event reaches a route already queued.          *)

Of(rules, kinds) == {r \in rules : r.kind \in kinds}

IsAbout(r, n) == n.out \in r.outs /\ n.from = r.from

\* The native route is removed.
Cuts(rules, n) == \E r \in Of(rules, {"remove", "remake"}) : IsAbout(r, n)

\* What the native route needs for something it needed before.
Added(rules, n) == UNION {r.needs : r \in {q \in Of(rules, {"require"}) : IsAbout(q, n)}}

Spared(rules) == UNION {r.spare : r \in Of(rules, {"amend"})}

Amending(rules, n) ==
    {r \in Of(rules, {"amend"}) : IsAbout(r, n) /\ r.spare \subseteq n.needs}

Rewritten(rules, n) ==
    [from |-> n.from, out |-> n.out,
     needs |-> (n.needs \ Spared(Amending(rules, n)))
               \cup (UNION {r.needs : r \in Amending(rules, n)}) \cup Added(rules, n)]

Authored(rules) ==
    UNION {{[out |-> o, needs |-> r.needs] : o \in r.outs}
           : r \in Of(rules, {"make", "remake"})}

Counterparts(rules, n) ==
    {[out |-> n.out, needs |-> n.needs \ r.spare] :
        r \in {c \in Of(rules, {"copy"}) : IsAbout(c, n) /\ c.spare \subseteq n.needs}}

\* The places and items whose native routes the rules are about.
Touched(rules) ==
    UNION {{r.from} \X r.outs
           : r \in Of(rules, {"remove", "remake", "require", "amend", "copy"})}
=============================================================================
