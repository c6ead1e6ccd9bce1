-------------------------- MODULE ArmouryRecipes --------------------------
(***************************************************************************)
(* Body armour, weapons and utilities past AE2, the extremes of depth and  *)
(* height, and Tome of Blood: compat/retained/ 80, 110, 165 to 174. The    *)
(* marks of the branch are the logic package and sky steel of              *)
(* ChemistryRecipes. An optional item of a mod that is not installed makes *)
(* its script skip the recipe; here all of them are.                       *)
(***************************************************************************)
EXTENDS RecipeRules

-----------------------------------------------------------------------------
(* 165_protection_pixel_post_ae2_gates.js                                  *)

\* bcPpMechanical, bcPpSequence
Mechanical(rules) == Via(Crafters, rules)
Sequence(rules) == Via(Press \cup Deployer, rules)

ArmourMaterials ==
    Via(Mixer,
        {Remakes("smallnetheritesheet", {"netherite_ingot", "sky_steel_sheet",
                                         "soulstone_carbon_matrix", "titanium_thermal_plate"}),
         Remakes("reinforcedfiber", {"netherite_scrap", "tungsten_carbide_insert",
                                     "platinum_group_residue", "etherealslate"}),
         Remakes("heatresistantceramicsheet", {"netherite_scrap"})})
    \cup Sequence(
        {Remakes("alloyarmorplate", {"smallnetheritesheet", "sky_steel_sheet",
                                     "etherealslate", "titanium_thermal_plate"})})

ArmourKits == Mechanical(
    {Remakes("armorloadplatform",
             {"sky_steel_sheet", "alloyarmorplate", "engineering_processor"}),
     Remakes("powerengine", {"ae_logic_package", "engineering_processor", "alloyarmorplate"}),
     Remakes("heatoverlockingmechanism",
             {"platinum_group_residue", "ae_logic_package", "powerengine"}),
     Remakes("equipmentkit", {"reinforcedfiber", "heatresistantceramicsheet",
                              "alloyarmorplate", "sky_steel_sheet", "powerengine"}),
     Remakes("armorplatekit", {"alloyarmorplate", "reinforcedfiber", "etherealslate",
                               "heatresistantceramicsheet", "ae_logic_package",
                               "equipmentkit"})})

\* Linings go into link plates over a netherite piece.
Linings ==
    LET lined == {"reinforcedfiber", "heatresistantceramicsheet", "alloyarmorplate"}
        plated == {"alloyarmorplate", "ae_logic_package"}
    IN  Mechanical(
        {RemakesEach({"chestplatelining", "leggingslining"}, lined \cup {"ae_logic_package"}),
         Remakes("socks_boots", lined),
         Remakes("linkplate_helmet", lined \cup {"ae_logic_package", "netherite_helmet"}),
         Remakes("linkplate_chestplate", plated \cup {"chestplatelining", "netherite_chestplate"}),
         Remakes("linkplate_leggings", plated \cup {"leggingslining", "netherite_leggings"}),
         Remakes("linkplate_boots", plated \cup {"socks_boots", "netherite_boots"})})

Exoskeletons ==
    Mechanical(
        {Remakes("steamectoskeleton",
                 {"smallnetheritesheet", "sky_steel_sheet", "powerengine", "reinforcedfiber",
                  "engineering_processor", "armorloadplatform"}),
         Remakes("suspjetpack", {"ae_logic_package", "reinforcedfiber", "powerengine"}),
         Remakes("maneuveringwing", {"sky_steel_sheet", "reinforcedfiber", "powerengine",
                                     "elytra", "engineering_processor"}),
         Remakes("tosaki_helmet", {"heatresistantceramicsheet", "ae_logic_package",
                                   "linkplate_helmet", "smallnetheritesheet"}),
         Remakes("tosaki_chestplate",
                 {"heatresistantceramicsheet", "ae_logic_package", "linkplate_chestplate",
                  "heatoverlockingmechanism", "equipmentkit", "smallnetheritesheet"}),
         Remakes("tosaki_leggings",
                 {"heatresistantceramicsheet", "ae_logic_package", "linkplate_leggings",
                  "smallnetheritesheet", "titanium_thermal_plate"})})
    \cup Sequence(
        {Remakes("wingsofprismas_chestplate",
                 {"heatoverlockingmechanism", "ae_logic_package", "etherealslate",
                  "titanium_thermal_plate"})})

\* Without sky steel the whole branch is removed instead. The late safety net
\* changes only recipes that still hold a plain ingot, mechanism or sheet.
ProtectionPixel(parts) ==
    ArmourMaterials \cup ArmourKits \cup Linings \cup Exoskeletons

-----------------------------------------------------------------------------
(* 171_tacz_manufacturing_gates.js and 174_tacz_turrets_electrical_gate.js *)

\* A workbench is one item with several BlockIds; so is each name here.
Workbenches ==
    {Remakes("gun_smith_table", {"brass_casing"}),
     Remakes("ammo_workbench", {"brass_utility_assembly", "gun_smith_table"}),
     Remakes("attachment_workbench",
             {"precision_mechanism", "brass_utility_assembly", "brass_casing", "gun_smith_table"}),
     Remakes("create_workbench",
             {"brass_ingot", "precision_mechanism", "brass_casing", "gun_smith_table"}),
     Remakes("worckbench_applied_armorer",
             {"sky_steel_sheet", "ae_logic_package", "engineering_processor", "controller"}),
     Remakes("immersive_workbench",
             {"electric_motor", "electrical_instrumentation_module", "conductive_casing",
              "gun_smith_table"}),
     Remakes("turret_workbench",
             {"electrical_instrumentation_module", "conductive_casing", "electric_motor",
              "ae_logic_package"})}

\* tacz:gun_smith_table_crafting; which bench offers it is the ZIP's matter.
DefaultPack ==
    {Remakes("deagle", {"electrical_instrumentation_module", "brass_utility_assembly",
                        "engineering_processor"}),
     Remakes("ammo_338", {"brass_utility_assembly", "integrated_circuit"}),
     Remakes("scope_vudu", {"ae_logic_package", "mountain_beryl_lens", "integrated_circuit"})}

\* Create, Applied and Immersive Armorer: brass, AE2 and electrical works.
ArmorerPacks ==
    {RemakesEach({"40mmhe", "assult_rifle"},
                 {"electrical_instrumentation_module", "integrated_circuit"}),
     RemakesEach({"pistol_auto_stress", "gl_revolver_devastator"},
                 {"brass_utility_assembly", "precision_mechanism"}),
     Remakes("muzzle_refit_ap_grenade",
             {"electrical_instrumentation_module", "brass_utility_assembly",
              "precision_mechanism", "netherite_scrap"}),
     Remakes("melee_weapon", {"brass_utility_assembly", "andesite_alloy"}),
     Remakes("gas_pistol_ammo", {"brass_utility_assembly"}),
     RemakesEach({"fluix_battery", "cluster_quartz_bullet", "applied_melee",
                  "etched_quartz_bullet"}, {"ae_logic_package"}),
     Remakes("moritz_gernade_gl3", {"ae_logic_package", "quartz"}),
     Remakes("muzzle_commander", {"ae_logic_package", "engineering_processor"}),
     Remakes("burst_capacitor", {"integrated_circuit"}),
     Remakes("muzzle_refit_electromagnetic_accelerator",
             {"electrical_instrumentation_module", "electric_motor"}),
     Remakes("20mm", {"electrical_instrumentation_module", "integrated_circuit",
                      "netherite_scrap"})}

TaCZ(parts) == Workbenches \cup DefaultPack \cup ArmorerPacks

-----------------------------------------------------------------------------
(* 110_extreme_y_band_reward_gates.js and 169_backpack_post_ae2_utility_    *)
(* gates.js: the native recipe goes only when all of the new one exists.   *)

MountainRewards ==
    {Remakes("cloud_in_a_bottle", {"mountain_beryl_lens", "corundum_lapping_grit",
                                   "precision_mechanism", "conductive_casing"}),
     Remakes("digging_claws", {"corundum_lapping_grit", "mountain_beryl_lens", "brass_casing"}),
     Remakes("pocket_piston", {"corundum_lapping_grit", "conductive_casing",
                               "mountain_beryl_lens", "andesite_alloy"})}

DeepRewards ==
    {Remakes("advanced_magnet_upgrade",
             {"tungsten_carbide_insert", "titanium_thermal_plate", "conductive_casing"}),
     Remakes("gadget_destruction",
             {"titanium_thermal_plate", "platinum_group_residue", "conductive_casing",
              "kimberlite_diamond_seed", "tungsten_carbide_insert"}),
     Remakes("spatial_anchor", {"kimberlite_diamond_seed", "platinum_group_residue",
                                "engineering_processor"}),
     Remakes("obsidian_skull", {"netherite_scrap", "titanium_thermal_plate",
                                "soulstone_carbon_matrix", "conductive_casing"}),
     Remakes("fire_gauntlet", {"soulstone_carbon_matrix", "titanium_thermal_plate",
                               "conductive_casing", "demonslate"}),
     Remakes("universal_attractor", {"titanium_thermal_plate", "tungsten_carbide_insert",
                                     "engineering_processor"}),
     RemakesEach({"netherite_chest", "netherite_barrel"},
                 {"titanium_thermal_plate", "netherite_scrap", "soulstone_carbon_matrix"})}

ExtremeRewards(parts) == MountainRewards \cup DeepRewards

BackpackUtilities(parts) ==
    {Remakes("feeding_upgrade", {"engineering_processor", "ae_logic_package"}),
     Remakes("advanced_feeding_upgrade",
             {"sky_steel_sheet", "feeding_upgrade", "engineering_processor"}),
     RemakesEach({"backpack_alchemy_upgrade", "storage_alchemy_upgrade"},
                 {"etherealslate", "source_gem_block", "engineering_processor"}),
     Remakes("tool_swapper_upgrade", {"sky_steel_sheet", "engineering_processor"})}
    \cup {Remakes(u[1], {"sky_steel_sheet", "ae_logic_package", "engineering_processor", u[2]}) :
            u \in {<<"advanced_backpack_alchemy_upgrade", "backpack_alchemy_upgrade">>,
                   <<"advanced_storage_alchemy_upgrade", "storage_alchemy_upgrade">>,
                   <<"advanced_tool_swapper_upgrade", "tool_swapper_upgrade">>}}

-----------------------------------------------------------------------------
(* 166_tome_of_blood_post_ae2_gates.js                                     *)

LivingMage == {"living_mage_hood", "living_mage_robes", "living_mage_leggings",
               "living_mage_boots"}

BloodReagents ==
    {Makes("purified_blood_catalyst", {"reinforcedslate"}),
     Makes("living_binding",
           {"etherealslate", "purified_blood_catalyst", "soulstone_carbon_matrix"}),
     Makes("purified_source_core",
           {"source_gem_block", "etherealslate", "mountain_beryl_lens",
            "corundum_lapping_grit", "purified_blood_catalyst", "ae_logic_package"})}

TomeOfBlood(parts) ==
    BloodReagents
    \cup {Remakes("novice_tome_of_blood", {"controller", "ae_logic_package",
                                           "purified_source_core", "living_binding"}),
          Remakes("apprentice_tome_of_blood",
                  {"novice_tome_of_blood", "etherealslate", "engineering_processor",
                   "sky_steel_sheet"}),
          Remakes("archmage_tome_of_blood",
                  {"apprentice_tome_of_blood", "nether_star", "etherealslate",
                   "impossible_support_matrix"}),
          Remakes("glyph_sentient_harm",
                  {"etherealslate", "ae_logic_package", "purified_source_core"}),
          Remakes("glyph_sentient_wrath", {"etherealslate", "impossible_support_matrix"}),
          RemakesEach(LivingMage, {"etherealslate", "ae_logic_package", "sky_steel_sheet",
                                   "purified_source_core", "living_binding"})}
=============================================================================
