--------------------------- MODULE MagicRecipes ---------------------------
(***************************************************************************)
(* Blood, spirits, chalk and formal magic: compat/retained/ 59, 63, 80,    *)
(* 82, 125 and 127. Slates come from the blood altar, which the scripts    *)
(* leave alone but for its own recipe and the tier a recipe asks for. The  *)
(* proofs of formal magic are of any discipline: a gate by one names no    *)
(* need.                                                                   *)
(***************************************************************************)
EXTENDS RecipeRules

Cauldron == {"mixing_cauldron"}

\* Proof of the three expedition Fonts.
FontProof == {"ambrosium_shard", "blaze_powder", "honey_crystal_shards"}

-----------------------------------------------------------------------------
(* 63_fonts_hexerei_occultism_chalk.js                                     *)

CauldronWares ==
    {Remakes("mixing_cauldron", {})}
    \cup Via(Cauldron,
        {Remakes("moon_dust", {"ambrosium_shard", "zanite_gemstone"}),
         Remakes("infused_fabric", {}),
         Remakes("blood_sigil", {"magma_cream", "blaze_powder", "nether_brick"}),
         Remakes("crystal_ball", {"moon_dust"})})

\* Variant: the honey of the third expedition is left out.
ChalkOfTwoFonts == Via(Cauldron,
    {Remakes("chalk_white_impure", {"ambrosium_shard", "blaze_powder"}),
     RemakesEach({"chalk_gold_impure", "chalk_purple_impure", "chalk_red_impure"},
                 {"chalk_white_impure", "ambrosium_shard", "blaze_powder"})})

Chalk == Via(Cauldron,
    {Remakes("chalk_white_impure", FontProof),
     RemakesEach({"chalk_gold_impure", "chalk_purple_impure", "chalk_red_impure"},
                 FontProof \cup {"chalk_white_impure"})})

\* Finite space: no remote or unbounded storage, and no mineshaft.
FiniteSpace ==
    Removes({"satchel", "stable_wormhole", "storage_controller", "storage_controller_base",
             "storage_remote", "storage_remote_inert", "storage_stabilizer_tier1",
             "storage_stabilizer_tier2", "storage_stabilizer_tier3",
             "storage_stabilizer_tier4", "wormhole_frame", "dimensional_mineshaft"})

Hexerei(parts) ==
    CauldronWares \cup Chalk \cup {FiniteSpace}
    \cup Via(Cauldron, {RemakesEach({"spirit_attuned_crystal", "spirit_attuned_pickaxe_head",
                                     "book_of_binding_empty"}, {})})

-----------------------------------------------------------------------------
(* 59, 80, 82, 125 and 127                                                 *)

\* Of the gates of 80, those that name a slate.
SlateGates(parts) ==
    {Requires({"spirit_altar"}, {"blankslate"}),
     Requires({"cursed_cage", "dark_altar"}, {"demonslate"})}

\* The last stands for all that no other script names.
Foci == {"empty_focus", "soul_heal_focus", "wind_blast_focus", "crafting_focus"}

SpikeGates(parts) ==
    {Requires({"spirit_altar"}, {"blankslate"}),
     Requires(Foci \cup {"dark_altar", "dark_altar_stone", "focus_bag", "focus_pack"},
              {"demonslate"}),
     Removes({"teleposer", "crossbow_arrow_teleport"})}

BloodLifeforce(parts) ==
    {Remakes("altar", {}), Makes("heart_block", {}),
     Remakes("daggerofsacrifice", {"altar_tier_5"}),
     Requires({"blood_rune_sacrifice", "blood_rune_self_sac_2"}, {"demonslate"}),
     Requires({"blood_rune_sac_2"}, {"etherealslate"}),
     Requires({"blood_rune_self_sacrifice"}, {"infusedslate"})}

FormulaicSynthesis(parts) ==
    {Makes("silicon_dioxide", {"quartz"}),
     Makes("fluix_dust", {"certus_quartz_crystal", "infusedslate"})}

ArsBooks(parts) ==
    {Remakes("novice_spell_book", {"andesite_alloy"}),
     Remakes("scribes_table", {}),
     Remakes("apprentice_spell_book", {"novice_spell_book"}),
     Remakes("archmage_spell_book", {"apprentice_spell_book", "nether_star"})}
=============================================================================
