------------------------- MODULE MCPackProgression -------------------------
(* The worlds and projections that TLC runs through.                       *)
EXTENDS PackProgression

LOCAL INSTANCE Functions

Projection(generation, selected) ==
    [bad |-> FALSE, generation |-> generation, selected |-> selected,
     transaction |-> IF generation = 0 THEN "" ELSE "t"]

World(parts, projection, paid) ==
    [parts |-> parts, projection |-> projection, paid |-> paid]

Neutral == Projection(0, <<>>)

\* Half of the perks each, so that no perk hides what another one opens: cast
\* brass is still held behind the stone that an iron law would spare.
Works == Projection(3, <<"iron_law", "spirit_awakening", "patient_alchemist">>)
Rites == Projection(4, <<"eternal_engine", "captive_hearth", "alloy_testament",
                         "chalk_covenant">>)

\* Seven perks in the sixth generation.
OverBudget == Projection(6, Works.selected \o Rites.selected)

MCWorlds ==
    {World(parts, Neutral, {}) : parts \in BOOLEAN}
    \cup {World(TRUE, Works, Range(Works.selected)), World(FALSE, Rites, Range(Rites.selected)),
          World(TRUE, OverBudget, {})}

TraditionWorlds ==
    {World(TRUE, Projection(1, <<"sacrificial_tradition">>), {"sacrificial_tradition"})}

PlainWorlds == {World(TRUE, Neutral, {})}
=============================================================================
