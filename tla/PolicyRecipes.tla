--------------------------- MODULE PolicyRecipes ---------------------------
(***************************************************************************)
(* What the pack closes: policy/. Of the items that                        *)
(* config/quarantined_items.json lists, those of the mods modelled here.   *)
(***************************************************************************)
EXTENDS RecipeRules

-----------------------------------------------------------------------------
(* removed_items.js                                                        *)

\* BC_DISABLED_ITEMS
Quarantined ==
    {"jet_boots_upgrade_4", "jet_boots_upgrade_5", "pneumatic_dynamo",
     "creative_compressor", "crystal_resonance_generator", "vibration_chamber",
     "source_acceptor", "cable_source_acceptor", "chromatic_compound",
     "refined_radiance_casing", "shadow_steel_casing", "teleposer", "teleposerfocus",
     "telepositionsigil", "reagentteleposition", "simplekey", "minekey",
     "mineentrancekey", "lavasigil", "watersigil", "sigilofsuppression",
     "chunky_cheese_token", "gem_of_ratlantis", "ratlantis_portal"}

\* Recipes removed one by one or by their type; a ratio of goods that would
\* come from nothing, potions, and what a meteor or a wish would repeat.
RemovedRecipes ==
    {"emerald_to_oil", "water_essence_to_bucket", "water_essence_to_obsidian",
     "fire_essence_to_magma_block", "conjuration_essence_to_soul_sand",
     "conjuration_essence_to_end_stone", "sulfur_from_sigil", "clay_from_sand_sigil",
     "crude_oil", "behead_dragon", "drygmy_charm", "whirlisprig_charm", "relay_warp",
     "stable_warp_scroll", "source_cell_housing", "pressure_chamber_enchanting",
     "ender_dragon_head", "splash_potion", "lingering_potion", "tipped_arrow",
     "miner_sky_stone", "meteor_ae2", "void_pendant", "void_mirror", "void_core"}

\* BC_TECH01_RESTRICTED_TRADE_OUTPUTS
RestrictedTrades ==
    {"sky_stone_block", "certus_quartz_crystal", "charged_certus_quartz_crystal",
     "quartz_glass", "logic_processor", "engineering_processor", "controller",
     "cell_workbench", "energy_acceptor"}

\* Each is removed and queued again under its own identifier.
PotionReplacements ==
    {Remakes("soul_heal_focus", {"empty_focus"}),
     Remakes("weakening_focus", {"empty_focus", "wind_blast_focus"}),
     Remakes("jumping_upgrade_4", {"jumping_upgrade_3"}),
     Remakes("mended_zombie_scepter", {"blaze_powder"}),
     RemakesEach({"wind_robe", "jumping_upgrade_3", "night_vision_upgrade", "acid",
                  "fertilizer"}, {})}

\* Variant: the villagers still offer what the meteor should bring.
TradesLeft == {Removes(Quarantined \cup RemovedRecipes)} \cup PotionReplacements

RemovedItems ==
    {Removes(Quarantined \cup RemovedRecipes), RemovesFrom("trades", RestrictedTrades)}
    \cup PotionReplacements

-----------------------------------------------------------------------------
(* dimension_access.js and closed_end_dragon_replacements.js               *)

\* BC_DIRECT_DIMENSION_ROUTE_ITEMS
DirectRoutes ==
    {"portal_frame", "wastelands", "chunky_cheese_token", "simplekey", "minekey",
     "mineentrancekey", "teleposer", "telepositionsigil", "reagentteleposition",
     "teleposerfocus", "reinforcedteleposerfocus", "enhancedteleposerfocus",
     "aether_portal_frame", "ratlantis_portal"}

\* Variant: only what the quarantine lists as well.
DirectRoutesLeft(parts) == {Removes(DirectRoutes \cap Quarantined)}

DimensionAccess(parts) == {Removes(DirectRoutes)}

\* Elytra of feathers, and two of one; one scale of another mod's.
DragonReplacements(parts) ==
    {Remakes("hero_shield", {}), Makes("elytra", {"elytra"}),
     Makes("tconstruct:dragon_scale", {"quark:dragon_scale"})}
    \cup Via(Crafters, {Remakes("elytra", {})})
    \cup Via(Press, {Remakes("createdeco_netherite_sheet", {"netherite_ingot"})})

Policy(parts) == RemovedItems

\* No item is under any of these names in another way.
ClosedItems == Quarantined \cup RemovedRecipes \cup DirectRoutes
=============================================================================
