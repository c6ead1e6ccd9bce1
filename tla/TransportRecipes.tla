-------------------------- MODULE TransportRecipes --------------------------
(* Hooks, drones, airships, tracks and rail beetles: utility/ and           *)
(* transport/.                                                              *)
EXTENDS RecipeRules

\* 21_starter_hook_loot.js: the prototypes are laid into chests of the first
\* world, under the namespace that the script gives them.
StarterHooks(parts) ==
    {MakesEach({"better_compat_fixes:soap_on_a_rope", "block_and_tackle",
                "grapnel_bundle", "climbing_vine", "ratchet_reel", "anglers_gaff"}, {})}

\* The namespace that the hook's script takes its rope from.
Rope == "better_rehooked_grappling:soap_on_a_rope"

\* hooks_drones_gates.js: each hook is built from the one before, and the
\* first metal one from the rope.
Hooks ==
    {Remakes("wood_chain", {"seared_brick"}),
     Remakes("wood_hook", {"seared_brick", "wood_chain"}),
     Remakes("iron_hook", {"andesite_casing", Rope}),
     Remakes("diamond_chain", {"brass_casing"}),
     Remakes("diamond_hook", {"brass_casing", "iron_hook", "diamond_chain"}),
     Remakes("blaze_hook", {"blaze_rod", "diamond_hook", "conductive_casing"}),
     Remakes("ender_hook", {"blaze_hook", "sky_stone_block"}),
     Remakes("red_hook", {"sky_steel_sheet", "engineering_processor", "ender_hook",
                          "ae_logic_package"}),
     Remakes("brass_drone", {"sky_steel_sheet", "precision_mechanism", "brass_ingot",
                             "engineering_processor"})}

MobilityGates(parts) == Hooks

-----------------------------------------------------------------------------
(* 10_optional_engineering_roots.js                                        *)

ShipHelms ==
    {RemakesEach({"oak_ship_helm", "spruce_ship_helm", "birch_ship_helm",
                  "jungle_ship_helm", "acacia_ship_helm", "dark_oak_ship_helm"}, {}),
     Removes({"crimson_ship_helm", "warped_ship_helm"})}

\* With Manufacturing these are left to its own recipes.
Clockwork(parts) ==
    IF parts THEN {Makes("reactionwheel_flywheel", {})} ELSE
    {Remakes("andesite_flap_bearing", {"cogwheel", "copper_casing", "shaft"}),
     Remakes("brass_propeller_bearing",
             {"precision_mechanism", "brass_ingot", "brass_casing", "shaft", "skyroot_log"}),
     Remakes("clockwork_air_compressor", {"brass_casing", "blue_aercloud"}),
     Remakes("gyro", {"integrated_circuit", "electric_motor", "precision_mechanism"}),
     Remakes("gas_thruster", {"aerogel", "blue_aercloud", "integrated_circuit"})}

Trackwork(parts) ==
    {Remakes("simple_wheel", {}),
     Remakes("track_level_controller",
             {"electron_tube", "precision_mechanism", "brass_casing", "railway_casing"})}

EngineeringRoots(parts) == ShipHelms \cup Clockwork(parts) \cup Trackwork(parts)

-----------------------------------------------------------------------------
(* Better Rail Beetle: a chassis, first modules, second ones built on them. *)

BeetleFrames(parts) ==
    {Makes("engine_cradle", {"brass_ingot", "andesite_casing", "precision_mechanism"}),
     Makes("compact_module_frame", {"brass_ingot", "precision_mechanism"}),
     Makes("dispatch_remote", {"electron_tube", "compact_module_frame"})}
    \cup IF parts THEN {} ELSE
        {Remakes("better_rail_beetle", {"electron_tube", "railway_casing"})}

\* materialTierOne is authored here only without Manufacturing.
TierOne(out, needs) == Makes(out, needs \cup {"compact_module_frame"})

BeetleTierOne(parts) ==
    {TierOne("telescopic_survey_array_1", {"electron_tube"}),
     TierOne("dispatch_receiver_1", {"dispatch_remote"}),
     TierOne("caged_searchlight", {})}
    \cup IF parts THEN {} ELSE
        {TierOne("high_speed_governor_1", {"cogwheel"}),
         TierOne("exhaust_recuperator_1", {}), TierOne("brake_manifold_1", {}),
         TierOne("adhesion_sanders_1", {"chute"}),
         TierOne("compound_torque_clutch_1", {"large_cogwheel"}),
         TierOne("reinforced_drawgear_1", {}), TierOne("trestle_erector_1", {"deployer"})}

ThermalTierTwo(out, prior, needs) ==
    Makes(out, needs \cup {"airtight_machine_block", prior})
ElectricalTierTwo(out, prior, needs) ==
    Makes(out, needs \cup {"electrical_machine_block", prior})

BeetleTierTwo(parts) ==
    {ElectricalTierTwo("telescopic_survey_array_2", "telescopic_survey_array_1",
                       {"integrated_circuit"}),
     ElectricalTierTwo("dispatch_receiver_2", "dispatch_receiver_1", {})}
    \cup IF parts THEN {} ELSE
        {ThermalTierTwo("high_speed_governor_2", "high_speed_governor_1",
                        {"precision_mechanism"}),
         ThermalTierTwo("brake_manifold_2", "brake_manifold_1", {}),
         ThermalTierTwo("adhesion_sanders_2", "adhesion_sanders_1", {}),
         ThermalTierTwo("compound_torque_clutch_2", "compound_torque_clutch_1", {}),
         ThermalTierTwo("reinforced_drawgear_2", "reinforced_drawgear_1", {}),
         ThermalTierTwo("trestle_erector_2", "trestle_erector_1", {"mechanical_crafter"}),
         ElectricalTierTwo("exhaust_recuperator_2", "exhaust_recuperator_1",
                           {"integrated_circuit"})}

BeetleDrives(parts) ==
    IF parts THEN {} ELSE
        {Makes("steam_drive", {"steam_engine", "engine_cradle"}),
         Makes("flux_traction_motor",
               {"integrated_circuit", "electric_motor", "engine_cradle", "conductive_casing"}),
         MakesEach({"source_impeller", "lifeforce_ram", "pneumatic_expansion_motor",
                    "soul_combustor", "spirit_warping_engine"}, {"engine_cradle"})}

RailBeetles(parts) ==
    BeetleFrames(parts) \cup BeetleTierOne(parts) \cup BeetleTierTwo(parts)
    \cup BeetleDrives(parts)
=============================================================================
