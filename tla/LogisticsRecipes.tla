-------------------------- MODULE LogisticsRecipes --------------------------
(* Meteor logistics, AE2, PneumaticCraft and the Dimension Fonts:          *)
(* progression/20_meteor_logistics and 21, 22, 80 to 86.                   *)
EXTENDS RecipeRules

-----------------------------------------------------------------------------
(* 20_meteor_logistics.js                                                  *)

\* highModules; two of them are left to Manufacturing's own recipes.
HighModules(parts) ==
    LET modules == {"high_crafting_module", "high_filter_module",
                    "high_high_priority_module", "high_low_priority_module",
                    "high_retrieval_module"}
        settings == {"high_extraction_module", "high_speed_module"}
    IN  Via(IF parts THEN Crafters ELSE {},
            {RemakesEach(IF parts THEN modules ELSE modules \cup settings,
                         {"certus_quartz_crystal"})})

RetiredRats ==
    Removes({"module_clearing", "chunky_cheese_token", "ratlantis_portal",
             "rat_upgrade_ore_doubling", "rat_upgrade_fisherman", "rat_upgrade_milker",
             "rat_upgrade_aristocrat", "rat_upgrade_christmas", "rat_upgrade_support"})

\* Sky Stone pays for the devices that last.
SkyStoneDevices(parts) ==
    {Remakes("item_terminal", {"sky_stone_block", "high_retrieval_module"})}
    \cup Via(IF parts THEN Crafters ELSE {}, {Remakes("pressurizer", {"sky_stone_block"})})

EnergyAcceptor ==
    Remakes("energy_acceptor",
            {"generator_housing", "certus_quartz_crystal", "enchanted_gravitite",
             "sky_stone_block", "impossible_support_matrix"})

MeteorLogistics(parts) ==
    HighModules(parts) \cup SkyStoneDevices(parts)
    \cup {RetiredRats, EnergyAcceptor,
          RemakesEach({"pipe", "hopper_upgrade", "redstone_requester"},
                      {"certus_quartz_crystal"}),
          Remakes("blank_module", {"certus_quartz_crystal", "pipe"}),
          Remakes("rat_upgrade_basic", {"honey_crystal_shards", "certus_quartz_crystal"})}
    \cup IF parts THEN {} ELSE {Remakes("rapid_hopper", {"certus_quartz_crystal"})}

-----------------------------------------------------------------------------
(* 21_better_bumblezone_crops.js to 22_underwater_works.js                 *)

RatArcheology(parts) ==
    {Makes("archeologist_hat", {}),
     Remakes("rat_upgrade_archeologist", {"archeologist_hat", "rat_upgrade_basic"})}

BumblezoneSeeds(parts) == {Removes({"cultivar_seeds"})}

UnderwaterWorks(parts) ==
    {Remakes("mechanical_conduit", {"blaze_rod"}),
     Removes({"prismarine_to_lapis_and_copper", "splashed_suspicious_rock",
              "channeled_heart_of_the_sea"})}

-----------------------------------------------------------------------------
(* 80_tech_palette.js and 85_certus_quartz_components.js                   *)

MeteorController ==
    Via(Chamber, {Remakes("controller",
        {"sky_stone_block", "charged_certus_quartz_crystal", "engineering_processor",
         "integrated_circuit", "electron_tube"})})

TechPalette(parts) ==
    MeteorController
    \cup Via(Chamber, {RemakesEach({"logic_processor", "engineering_processor"},
                                   {"electron_tube", "integrated_circuit"})})
    \cup {Remakes("quartz_glass", {"certus_quartz_crystal", "electron_tube"}),
          Remakes("cell_workbench", {"quartz_glass", "integrated_circuit"}),
          Remakes("world_condenser_interface", {"sky_stone_block", "brass_ingot"})}

CertusInputs ==
    Requires({"daylight_detector", "comparator", "observer", "barretter_tube",
              "dispenser_upgrade", "elite_energy_upgrade", "floppy", "floppy_modern",
              "rose_quartz"},
             {"certus_quartz_crystal"})

CertusComponents(parts) == {CertusInputs}

-----------------------------------------------------------------------------
(* 81_pneumaticcraft_progression.js and 82_pneumaticcraft_acquisition.js   *)

AssemblyController ==
    Via(Chamber, {Remakes("assembly_controller",
        {"advanced_pressure_tube", "printed_circuit_board", "integrated_circuit",
         "electrical_machine_block"})})

\* BC_ADVANCED_UPGRADES
AdvancedUpgrades ==
    Via(Chamber,
        {Remakes("jet_boots_upgrade_3", {"blaze_rod", "ghast_tear"}),
         Remakes("jet_boots_upgrade_4", {"jet_boots_upgrade_3", "nether_star"}),
         Remakes("jet_boots_upgrade_5", {"jet_boots_upgrade_4", "elytra", "dragon_breath"}),
         Remakes("minigun_upgrade",
                 {"printed_circuit_board", "electrical_instrumentation_module"}),
         Remakes("entity_tracker_upgrade", {"printed_circuit_board", "ae_logic_package"}),
         RemakesEach({"charging_upgrade", "range_upgrade"},
                     {"printed_circuit_board", "integrated_circuit"}),
         Remakes("magnet_upgrade",
                 {"printed_circuit_board", "plastic", "integrated_circuit"})})

PneumaticMachines(parts) ==
    {Remakes("air_compressor", {"pressure_seal", "cogwheel"}),
     Remakes("armor_upgrade", {"plastic", "printed_circuit_board", "integrated_circuit"}),
     Removes({"assembly_drill"}),
     Remakes("universal_sensor", {"plastic", "electrical_instrumentation_module"}),
     Remakes("programmer", {"printed_circuit_board", "electrical_instrumentation_module"}),
     Remakes("programmable_controller",
             {"printed_circuit_board", "drone", "advanced_pressure_tube", "ae_logic_package"}),
     Remakes("amadron_tablet", {"plastic"})}
    \cup Via(Chamber,
        {Remakes("drone", {"printed_circuit_board", "plastic", "electric_motor",
                           "precision_mechanism"}),
         Remakes("inventory_upgrade",
                 {"printed_circuit_board", "plastic", "electrical_instrumentation_module"}),
         Remakes("coordinate_tracker_upgrade", {"printed_circuit_board", "ae_logic_package"})})

PneumaticProgression(parts) ==
    PneumaticMachines(parts) \cup AssemblyController \cup AdvancedUpgrades

Blueprint ==
    Via(Chamber, {Makes("pcb_blueprint", {"electron_tube", "brass_ingot"})})

\* BC_PNCR_SERVICE_OFFERS, which villagers no longer trade
ServiceOffers ==
    {"assembly_program_drill", "assembly_program_laser", "assembly_program_drill_laser",
     "pcb_blueprint", "printed_circuit_board", "drone"}

\* Amadron's own offers go, but the one of the blueprint comes back, for
\* pressure tubes; and the mechanic's chest loses its tablet and tubes.
PneumaticAcquisition(parts) ==
    Blueprint
    \cup {RemovesFrom("offers", ServiceOffers \ {"printed_circuit_board", "drone"}),
          RemovesFrom("trades", ServiceOffers),
          RemovesFrom("loot", {"amadron_tablet", "advanced_pressure_tube"}),
          Makes("pcb_blueprint", {"amadron_tablet"})}
    \cup Via(Chamber,
        {Makes("assembly_program_laser",
               {"precision_mechanism", "electron_tube", "brass_ingot"}),
         Makes("assembly_program_drill", {"precision_mechanism"})})

-----------------------------------------------------------------------------
(* 82_food_drying.js to 86_dimension_transport.js                          *)

FoodDrying(parts) ==
    {RemakesEach({"dried_beef", "dried_porkchop", "dried_chicken", "dried_mutton",
                  "dried_rabbit", "dried_cod", "dried_salmon"}, {})}

StationCrafting(parts) ==
    {Remakes("crafting_station", {}), Makes("crafting_table", {"crafting_station"})}

\* Honeycomb is free, and honey is bottled from any hive.
Libations ==
    Via(Mixer, {Makes("nether_libation", {"nether_wart", "blaze_powder", "magma_cream"}),
                Makes("aether_libation", {"blue_berry", "swet_ball", "skyroot_leaves"}),
                Makes("bumblezone_libation", {"pollen_puff", "honey_bottle"})})

ThermopneumaticPlant == Remakes("thermopneumatic_processing_plant", {"magma_cream"})

FontEcology(parts) ==
    Libations
    \cup Via(IF parts THEN Crafters ELSE {},
             {ThermopneumaticPlant, Remakes("boiler_heater", {"magma_cream", "blaze_rod"})})
    \cup {Makes("font_pourer", {}),
          Remakes("mechanical_harvester", {"andesite_alloy", "pollen_puff", "andesite_casing"}),
          Remakes("mechanical_plough", {"andesite_alloy", "carvable_wax", "andesite_casing"})}

DimensionTransport(parts) ==
    {Makes("rail_batch", {"quartz", "nether_brick"}),
     RemakesEach({"seater_car", "chest_car"}, {"crimson_planks"}),
     Makes("quicksoil_path", {"quicksoil", "swet_ball"}),
     Requires({"fishing_barge"}, {"humble_rod"}),
     Makes("honey_bottle", {"honey_crystal_shards"}),
     Makes("saddle", {"carvable_wax", "pollen_puff"}),
     Makes("canvas_collar", {"string"}), Makes("iron_collar", {"canvas_collar"}),
     Makes("diamond_collar", {"iron_collar"})}
    \cup IF parts THEN {} ELSE {Remakes("steam_locomotive", {"blaze_rod", "seater_car"})}
=============================================================================
