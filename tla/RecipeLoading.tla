--------------------------- MODULE RecipeLoading ---------------------------
(***************************************************************************)
(* A server loads the recipes of its world, and its players reach what the *)
(* recipes allow. KubeJS runs the scripts in the order of their priority   *)
(* and then of their path. Each rewrites the native routes where they are, *)
(* and queues its own, which no later event reaches: plant_drinks.js and   *)
(* 84_cooking_recipes.js note as much. Then players visit the sites of the *)
(* world in any order and craft what they can; what they have they keep.   *)
(***************************************************************************)
EXTENDS RecipeRules, Sequences, FiniteSets, Naturals

CONSTANTS
    Scripts,   \* of each world, the rules of its scripts in load order
    Native,    \* of each world, the routes the pack came with
    Kept,      \* routes in which no script has a part
    Home,      \* what is found where the players start
    Finds,     \* of each site, what is found there
    Gates      \* of each world, items that open with a key or at a site only

Worlds == DOMAIN Scripts
Sites == DOMAIN Finds

ASSUME ScriptsAssumption ==
    \A w \in Worlds :
        Len(Scripts[w]) \in Nat /\ DOMAIN Scripts[w] = 1 .. Len(Scripts[w])

\* No one starts with what is to be found.
ASSUME GatesAssumption ==
    \A w \in Worlds : \A gate \in Gates[w] : Home \cap gate.items = {}

VARIABLES
    world,     \* the world of this server
    scripts,   \* the rules of its scripts in load order
    ran,       \* the number of them that have run
    native,    \* the routes left of those the pack came with
    queued,    \* the routes the scripts have added
    visited,   \* the sites the players have been to
    held       \* the items they have had

vars == <<world, scripts, ran, native, queued, visited, held>>
server == <<world, scripts>>
players == <<visited, held>>

Init ==
    /\ world \in Worlds
    /\ scripts = Scripts[world]
    /\ ran = 0
    /\ native = Native[world]
    /\ queued = {}
    /\ visited = {}
    /\ held = Home

-----------------------------------------------------------------------------
(* Loading                                                                 *)

Loaded == ran = Len(scripts)

\* The native routes a script leaves, and the form it leaves them in.
LeftBy(rules, routes) == {Rewritten(rules, n) : n \in {m \in routes : ~Cuts(rules, m)}}

QueuedBy(rules, routes) == Authored(rules) \cup UNION {Counterparts(rules, n) : n \in routes}

\* Variant: a script that is run counts for two.
RunScriptSkipping ==
    /\ ~Loaded
    /\ LET rules == scripts[ran + 1] IN
       /\ native' = LeftBy(rules, native)
       /\ queued' = queued \cup QueuedBy(rules, native)
    /\ ran' = ran + 2
    /\ UNCHANGED <<server, players>>

RunScript ==
    /\ ~Loaded
    /\ LET rules == scripts[ran + 1] IN
       /\ native' = LeftBy(rules, native)
       /\ queued' = queued \cup QueuedBy(rules, native)
    /\ ran' = ran + 1
    /\ UNCHANGED <<server, players>>

-----------------------------------------------------------------------------
(* Play                                                                    *)

Routes == native \cup queued \cup Kept

MadeBy(routes) == {r.out : r \in {q \in routes : q.needs \subseteq held}}

Craftable == MadeBy(native) \cup MadeBy(queued) \cup MadeBy(Kept)

\* All that can be made of what is at hand; a visit waits for it, which loses
\* nothing, since more at hand never makes less of it.
Craft ==
    /\ Loaded
    /\ ~(Craftable \subseteq held)
    /\ held' = held \cup Craftable
    /\ UNCHANGED <<server, ran, native, queued, visited>>

Visit ==
    /\ Loaded
    /\ Craftable \subseteq held
    /\ \E s \in Sites \ visited :
          /\ visited' = visited \cup {s}
          /\ held' = held \cup Finds[s]
    /\ UNCHANGED <<server, ran, native, queued>>

Next == RunScript \/ Craft \/ Visit

Spec == Init /\ [][Next]_vars

FoundAt(sites) == UNION {Finds[s] : s \in sites}

\* Nothing more to visit or to make.
Complete == Loaded /\ visited = Sites /\ Craftable \subseteq held

-----------------------------------------------------------------------------
\* What players have was found where they have been or made by some route.
TypeOK ==
    /\ world \in Worlds
    /\ scripts = Scripts[world]
    /\ ran \in 0 .. Len(scripts)
    /\ visited \subseteq Sites
    /\ held \subseteq Home \cup FoundAt(visited) \cup {r.out : r \in Routes}

(***************************************************************************)
(* What a script decides of a native route stands: a route it cut is gone  *)
(* and one it gated still needs what it was given. Scripts of several      *)
(* directories edit one recipe and no one of them sees what the others do. *)
(***************************************************************************)
ScriptsStand ==
    \A i \in 1 .. ran :
        \A r \in Of(scripts[i], {"remove", "remake", "require"}) :
            \A n \in native : IsAbout(r, n) => r.kind = "require" /\ r.needs \subseteq n.needs

\* No amendment spares what a script requires: what ScriptsStand rests on.
NothingSpared ==
    \A w \in Worlds : \A i, j \in DOMAIN Scripts[w] :
        \A r \in Of(Scripts[w][i], {"require"}) :
            r.needs \cap Spared(Scripts[w][j]) = {}

(***************************************************************************)
(* Items are guarded when each route to one of them takes something of the *)
(* guard: of a gate, another of its items or a key.                        *)
(***************************************************************************)
Guarded(items, guard) ==
    \A r \in Routes : r.out \in items => r.needs \cap guard # {}

Guard(gate) == gate.items \cup gate.keys

\* When the recipes are loaded each gate of the world is guarded, whatever
\* the other scripts and the perks leave or add; players change no recipe.
GatesGuarded ==
    Loaded /\ visited = {} => \A gate \in Gates[world] : Guarded(gate.items, Guard(gate))

\* Whoever has an item of the gate has a key, or has been where one is found.
Holds(gate) ==
    held \cap gate.items # {} =>
        \/ held \cap gate.keys # {}
        \/ \E s \in visited : Finds[s] \cap gate.items # {}

\* Every gate of the world holds.
GatesHold == \A gate \in Gates[world] : Holds(gate)

=============================================================================
