------------------------- MODULE WorldAxiomRecipes -------------------------
(***************************************************************************)
(* What the perks of a world add to its recipes: 99_world_axioms.js, which *)
(* runs after the ordinary scripts. The supervisor leaves it a projection, *)
(* here one of a few records; bad stands for every field of a wrong type.  *)
(***************************************************************************)
EXTENDS RecipeRules, Integers, Sequences, FiniteSets

\* BC_WORLD_AXIOM_IDS, the perks without a recipe as one.
AxiomIds == {"iron_law", "eternal_engine", "alloy_testament", "captive_hearth",
             "sacrificial_tradition", "spirit_awakening", "chalk_covenant",
             "patient_alchemist", "no_recipe"}

PerkBudget == 24

Distinct(ids) == \A i, j \in DOMAIN ids : ids[i] = ids[j] => i = j

Active(p) ==
    /\ p.transaction # ""
    /\ \A i \in DOMAIN p.selected : p.selected[i] \in AxiomIds
    /\ Distinct(p.selected)
    /\ Len(p.selected) <= PerkBudget
    /\ Len(p.selected) <= p.generation

\* Variant: the length of the selection is not held against the generation.
SelectionUnbudgeted(p) ==
    IF p.bad \/ p.generation = 0 THEN {} ELSE {p.selected[i] : i \in DOMAIN p.selected}

\* bcWorldAxiomSelection: every doubt about the projection selects nothing,
\* and so does the neutral one of generation 0.
Selection(p) ==
    IF ~p.bad /\ p.generation > 0 /\ Active(p)
    THEN {p.selected[i] : i \in DOMAIN p.selected}
    ELSE {}

-----------------------------------------------------------------------------
(* Each perk is one more way to something, and takes none away.            *)

IronLaw ==
    {Makes("lineage_refractory_mix", {}), Makes("seared_brick", {"lineage_refractory_mix"})}

EternalEngine(parts) ==
    LET plank == IF parts THEN {"eternal_engine_plank"} ELSE {} IN
    {Makes("water_wheel", {"andesite_alloy"} \cup plank)}
    \cup {Makes(p, {}) : p \in plank}

\* The billet is cast in a basin over zinc.
AlloyTestament ==
    Via(Foundry, {Makes("brass_billet", {})}) \cup {Makes("brass_ingot", {"brass_billet"})}

CaptiveHearth(parts) ==
    IF parts
    THEN {Makes("firebox_native_bill", {}), Makes("thermal_firebox", {"firebox_native_bill"})}
    ELSE {Makes("thermal_firebox", {})}

\* The dagger's recipe asks for an altar of tier upgradeLevel + 1.
SacrificialTradition == {Amends("daggerofsacrifice", "altar_tier_5", "altar_tier_2")}

\* Variant: the ordinary recipe itself is weakened.
SpiritWeakened == {Amends("spirit_altar", "blankslate", "wicked_spirit")}

\* The altar as the gates left it, without its slate.
SpiritAwakening == {Copies("spirit_altar", "blankslate")}

ChalkCovenant == Via({"mixing_cauldron"}, {Makes("chalk_white_impure", {})})

PatientAlchemist ==
    {Makes("amethyst_preparation", {})}
    \cup Via({"mixing_cauldron"},
        {Makes("moon_dust", {"amethyst_preparation", "ambrosium_shard", "zanite_gemstone"})})

WorldAxioms(parts, selected) ==
    LET has(perk, rules) == IF perk \in selected THEN rules ELSE {} IN
    has("iron_law", IronLaw)
    \cup has("eternal_engine", EternalEngine(parts))
    \cup has("alloy_testament", AlloyTestament)
    \cup has("captive_hearth", CaptiveHearth(parts))
    \cup has("sacrificial_tradition", SacrificialTradition)
    \cup has("spirit_awakening", SpiritAwakening)
    \cup has("chalk_covenant", ChalkCovenant)
    \cup has("patient_alchemist", PatientAlchemist)
=============================================================================
