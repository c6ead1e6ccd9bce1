------------------------- MODULE ChemistryRecipes -------------------------
(***************************************************************************)
(* Acids, polymers, electricity and the components between the eras:       *)
(* progression/45, 46, 50, 51, 52 and 70. A fluid or a gas is an item.     *)
(***************************************************************************)
EXTENDS RecipeRules

\* pneumaticcraft:fluid_mixer
FluidMixer == {"air_compressor"}

-----------------------------------------------------------------------------
(* 45_acid_chemistry.js                                                    *)

\* The contact catalyst is oxygenated and comes back with the trioxide.
SulfuricAcid ==
    Via(Chamber, {Makes("vanadium_contact_catalyst", {"quartz"})})
    \cup Via(FluidMixer,
        {MakesEach({"oxygen_fluid", "hydrogen"}, {}),
         Makes("sulfuric_acid_fluid", {"sulfur_trioxide_fluid"})})
    \cup Via(Plant,
        {Makes("sulfur_dioxide_fluid", {"oxygen_fluid"}),
         Makes("oxygenated_vanadium_contact_catalyst",
               {"vanadium_contact_catalyst", "oxygen_fluid"}),
         MakesEach({"sulfur_trioxide_fluid", "vanadium_contact_catalyst"},
                   {"oxygenated_vanadium_contact_catalyst", "sulfur_dioxide_fluid"})})

SaltsAndVinegar ==
    Via(Mixer,
        {MakesEach({"ethanol_fluid", "carbon_dioxide", "sodium_chloride",
                    "potassium_chloride", "cellulose"}, {}),
         Makes("acetic_acid_fluid", {"ethanol_fluid"}),
         Makes("acetate_membrane", {"cellulose", "acetic_acid_fluid"})})

AcidChemistry(parts) ==
    SulfuricAcid \cup SaltsAndVinegar
    \cup {Removes({"etching_acid", "coal_to_diamond"}),
          Makes("airtight_upgrade", {"pressure_seal", "acetate_membrane", "carvable_wax"})}
    \cup Via(Plant,
        {MakesEach({"hydrochloric_acid_fluid", "sodium_sulfate"},
                   {"sodium_chloride", "sulfuric_acid_fluid"}),
         MakesEach({"nitric_acid_fluid", "potassium_sulfate"}, {"sulfuric_acid_fluid"})})

-----------------------------------------------------------------------------
(* 46_polymer_manufacturing.js: nothing without better_manufacturing.      *)

PLA ==
    Via(Mixer, {Makes("sugar_solution", {}), Makes("lactic_culture", {})})
    \cup {Makes("lactic_acid_broth", {"sugar_solution", "lactic_culture"}),
          Makes("concentrated_lactic_acid", {"lactic_acid_broth"})}
    \cup Via(Plant,
        {Makes("lactide", {"concentrated_lactic_acid", "tin_carboxylate_catalyst"}),
         Makes("dry_lactide", {"lactide"}),
         Makes("molten_pla", {"dry_lactide", "tin_carboxylate_catalyst"}),
         Makes("pla_stock", {"molten_pla"})})

\* The stock is melted to measure and cooled back into stock.
PP ==
    {MakesEach({"butane_fluid", "propane_fluid"}, {})}
    \cup Via(Plant,
        {MakesEach({"hot_propylene", "hydrogen"},
                   {"propane_fluid", "supported_dehydrogenation_catalyst"}),
         Makes("propylene_stream", {"hot_propylene"}),
         Makes("pp_stock", {"propylene_stream", "coordination_polymerisation_catalyst"}),
         Makes("molten_pp", {"pp_stock"}), Makes("pp_stock", {"molten_pp"})})

Catalysts ==
    Via(Plant, {MakesEach({"tin_oxide", "aluminum_oxide"}, {"oxygen_fluid"})})
    \cup Via(Mixer,
        {Makes("tin_carboxylate_catalyst", {"tin_oxide", "cellulose", "acetic_acid_fluid"}),
         Makes("supported_dehydrogenation_catalyst", {"tin_oxide", "aluminum_oxide"}),
         Makes("coordination_polymerisation_catalyst",
               {"titanium_ingot", "sodium_chloride", "aluminum_oxide", "acetic_acid_fluid"})})

Polymers(parts) == IF parts THEN PLA \cup PP \cup Catalysts ELSE {}

-----------------------------------------------------------------------------
(* 50_electrical_control.js to 52_clockwork_blade_cutting.js               *)

\* With Manufacturing the casing is deployed in two steps.
ConductiveCasing(parts) ==
    LET red == Makes(IF parts THEN "conductive_casing_blank" ELSE "conductive_casing",
                     {"copper_casing"}) IN
    {Removes({"conductive_casing"})}
    \cup Via(Deployer, {red} \cup
        IF parts THEN {Makes("conductive_casing", {"conductive_casing_blank"})} ELSE {})

\* Variant: the airtight block is not part of the electrical one.
ElectricalBlockUnsealed ==
    Via(Chamber, {Makes("electrical_machine_block", {"conductive_casing", "electron_tube"})})

ElectricalBlock ==
    Via(Chamber, {Makes("electrical_machine_block",
                        {"airtight_machine_block", "conductive_casing", "electron_tube"})})

\* Variant: each orientation only from the other.
GeneratorHousingTurned ==
    {Removes({"generator_housing", "vertical_generator_housing", "pneumatic_dynamo"}),
     Makes("vertical_generator_housing", {"generator_housing"}),
     Makes("generator_housing", {"vertical_generator_housing"})}

\* Either orientation is turned into the other.
GeneratorHousing ==
    {Removes({"generator_housing", "vertical_generator_housing", "pneumatic_dynamo"}),
     Makes("vertical_generator_housing", {"generator_housing"}),
     Makes("generator_housing", {"vertical_generator_housing"})}
    \cup Via(Chamber, {Makes("generator_housing", {"conductive_casing", "electron_tube"})})

ElectricalControl(parts) ==
    ConductiveCasing(parts) \cup ElectricalBlock \cup GeneratorHousing
    \cup {Remakes("soldering_table", {"printed_circuit_board"})}

SoulstoneBootstrap(parts) ==
    {Makes("raw_soulstone", {"soul_sand"})}
    \cup Via(Mixer, {Makes("crushed_brilliance", {})})

\* Every slab of the tag is marked, and the saw takes a marked one.
PowerGridCutting(parts) ==
    IF parts THEN {Makes("empty_circuit_slab", {}),
                   Remakes("empty_circuit", {"empty_circuit_slab"})}
    ELSE {}

ClockworkBladeCutting(parts) ==
    IF parts THEN {RemakesEach({"propeller_blade", "wide_propeller_blade"}, {})} ELSE {}

-----------------------------------------------------------------------------
(* 70_transition_components.js                                             *)

ControlModules ==
    {Makes("steel_ingot", {}),
     Makes("brass_utility_assembly",
           {"brass_ingot", "electron_tube", "brass_casing", "precision_mechanism"})}
    \cup Via(Chamber,
        {Makes("electrical_control_module",
               {"integrated_circuit", "battery", "printed_circuit_board"}),
         Makes("electrical_instrumentation_module",
               {"integrated_circuit", "printed_circuit_board", "blaze_rod"}),
         Makes("ae_logic_package",
               {"sky_steel_sheet", "logic_processor", "electrical_control_module", "blaze_rod"})})
    \cup Via(Mixer, {Makes("sky_steel_ingot", {"steel_ingot", "sky_dust", "fluix_crystal"})})
    \cup Via(Press, {Makes("sky_steel_sheet", {"sky_steel_ingot"})})

GeologyComponents ==
    Via(Millstone, {Makes("corundum_lapping_grit", {})})
    \cup {Makes("mountain_beryl_lens", {"corundum_lapping_grit"})}
    \cup Via(Compactor, {Makes("kimberlite_diamond_seed", {}),
                         Makes("tungsten_carbide_insert", {"steel_ingot"})})
    \cup Via(Mixer,
        {Makes("platinum_group_residue", {"hydrochloric_acid_fluid", "nitric_acid_fluid"}),
         Makes("soulstone_carbon_matrix", {"soul_sand", "demonslate"})})
    \cup Via(Press, {Makes("titanium_thermal_plate", {"titanium_ingot"})})

ImpossibleMatter ==
    {Makes("impossible_support_matrix", {"source_gem_block", "netherite_ingot", "nether_star"})}

TransitionComponents(parts) == ControlModules \cup GeologyComponents \cup ImpossibleMatter
=============================================================================
