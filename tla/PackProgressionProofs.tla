------------------------ MODULE PackProgressionProofs ------------------------
(***************************************************************************)
(* What holds of the pack in every world that may be loaded, whatever its  *)
(* perks: each script is seen to respect what the world seals off, and to  *)
(* need only goods that can be made; the lemmas about loading do the rest. *)
(* No combination of perks and no order of play needs to be looked at.     *)
(***************************************************************************)
EXTENDS PackProgression, RecipeLoadingProofs

\* Perks were paid for as the projection says.
Truthful == \A w \in PackWorlds : w.paid = Perks(w)

-----------------------------------------------------------------------------
(* What a world seals off, and what its scripts must not do to it.         *)

Seal(items, guard) == [items |-> items, guard |-> guard]

\* What is closed, and what needs itself or what is nowhere found, can be had
\* of nothing else.
Shut == (ClosedItems \ Reopened) \cup Stranded
        \cup {"dragon_breath", "quark:dragon_scale", Rope}

\* Of all worlds, with any perks.
PackSeals == {Seal(Shut, Shut), Seal({"daggerofsacrifice"}, {"altar_tier_5"})}

\* Of a world, by its gates and the perks that were not paid for.
WorldSeals(w) ==
    {Seal(gate.items, Guard(gate)) : gate \in WorldGates(w)}
    \cup {Seal({p[2]}, p[3]) : p \in {q \in PerkRoutes : q[1] \notin w.paid}}

\* The rule writes and gates no route to the items past the guard, and
\* copies none.
Respects(r, seal) ==
    r.outs \cap seal.items # {} =>
        /\ r.kind \in {"make", "remake", "require"} => r.needs \cap seal.guard # {}
        /\ r.kind # "copy"

AllRespect(rules, seals) == \A r \in rules : \A seal \in seals : Respects(r, seal)

-----------------------------------------------------------------------------
(* The goods that recipes need, by the era or the craft that makes them.   *)

\* What is found at home and at the sites, of what recipes need.
FoundGoods ==
    {"gabbro", "slate", "nether_brick", "blaze_rod", "magma_cream", "ghast_tear",
     "nether_star", "quartz", "nether_wart", "crimson_planks", "soul_sand", "basalt",
     "netherite_ingot", "netherite_scrap", "skyroot_log", "blue_aercloud", "aerogel",
     "enchanted_gravitite", "quicksoil", "swet_ball", "blue_berry", "skyroot_leaves",
     "ambrosium_shard", "zanite_gemstone", "pollen_puff", "carvable_wax",
     "honey_crystal_shards", "sky_stone_block", "certus_quartz_crystal", "fluix_crystal",
     "charged_certus_quartz_crystal", "blankslate", "reinforcedslate", "infusedslate",
     "demonslate", "etherealslate", "altar_tier_2", "altar_tier_5", "titanium_ingot",
     "source_gem_block", "humble_rod"}

\* The hand workshop: two families of stone, fired.
HandGoods == {"refractory_compound", "seared_brick", "molten_andesite_alloy",
              "andesite_alloy"}

\* The powered workshop, with a brick of the Nether and a log of the Aether.
WorkshopGoods ==
    {"andesite_machine_block", "shaft", "cogwheel", "large_cogwheel", "andesite_casing",
     "basin", "whisk", "mechanical_press", "mechanical_mixer", "propeller", "millstone",
     "copper_casing", "copper_machine_block", "water_wheel"}

\* The brass era: the precision factory, and what mods make of rose quartz and of
\* what is found.
BrassGoods ==
    {"rose_quartz", "electron_tube", "blaze_powder", "honey_bottle", "sky_dust",
     "netherite_helmet", "netherite_chestplate", "netherite_leggings",
     "netherite_boots", "brass_ingot",
     "brass_casing", "brass_machine_block", "deployer", "mechanical_crafter",
     "precision_mechanism", "railway_casing", "integrated_circuit", "electric_motor",
     "battery", "steam_engine"}

\* The pressure era, and the plant of the Fonts.
PressureGoods ==
    {"pressure_seal", "pressure_chamber_interface", "air_compressor",
     "airtight_machine_block", "thermopneumatic_processing_plant"}

\* The electrical era, the processors of the meteor, and what is laid out by them.
ElectricGoods ==
    {"conductive_casing", "electrical_machine_block", "generator_housing",
     "vertical_generator_housing", "logic_processor", "engineering_processor", "controller",
     "quartz_glass", "pcb_blueprint", "assembly_program_laser"}

\* Acids, and what is printed and moulded with them.
AcidGoods ==
    {"ethanol_fluid", "sodium_chloride", "cellulose", "acetic_acid_fluid",
     "acetate_membrane", "vanadium_contact_catalyst", "oxygen_fluid",
     "sulfur_dioxide_fluid", "oxygenated_vanadium_contact_catalyst",
     "sulfur_trioxide_fluid", "sulfuric_acid_fluid", "hydrochloric_acid_fluid",
     "nitric_acid_fluid", "plastic", "printed_circuit_board"}

\* The components between the eras.
TransitionGoods ==
    {"steel_ingot", "brass_utility_assembly", "electrical_control_module",
     "electrical_instrumentation_module", "ae_logic_package", "sky_steel_ingot",
     "sky_steel_sheet", "corundum_lapping_grit", "mountain_beryl_lens",
     "kimberlite_diamond_seed", "tungsten_carbide_insert", "platinum_group_residue",
     "soulstone_carbon_matrix", "titanium_thermal_plate", "impossible_support_matrix"}

\* Crafts that a script builds on what it has made before.
CraftGoods ==
    {"novice_spell_book", "apprentice_spell_book", "mixing_cauldron", "moon_dust",
     "chalk_white_impure", "string", "chute", "archeologist_hat", "crafting_station",
     "canvas_collar", "iron_collar", "seater_car", "elytra", "wood_chain",
     "diamond_chain", "pipe", "jumping_upgrade_3",
     "rat_upgrade_basic", "high_retrieval_module", "gun_smith_table", "feeding_upgrade",
     "backpack_alchemy_upgrade", "storage_alchemy_upgrade", "tool_swapper_upgrade",
     "purified_blood_catalyst", "purified_source_core", "living_binding",
     "novice_tome_of_blood", "apprentice_tome_of_blood", "amadron_tablet", "drone",
     "jet_boots_upgrade_3", "jet_boots_upgrade_4"}

\* Armour past AE2, by what it is built of.
ArmourGoods ==
    {"smallnetheritesheet", "reinforcedfiber", "heatresistantceramicsheet",
     "alloyarmorplate", "armorloadplatform", "powerengine", "heatoverlockingmechanism",
     "equipmentkit", "chestplatelining", "leggingslining", "socks_boots",
     "linkplate_helmet", "linkplate_chestplate", "linkplate_leggings"}

\* Rail beetles.
BeetleGoods == {"compact_module_frame", "dispatch_remote", "dispatch_receiver_1",
                "telescopic_survey_array_1", "engine_cradle"}

\* What only the recipes with Manufacturing need: polymers, and marked parts.
PolymerGoods ==
    {"sugar_solution", "lactic_culture", "lactic_acid_broth", "concentrated_lactic_acid",
     "tin_oxide", "aluminum_oxide", "tin_carboxylate_catalyst",
     "supported_dehydrogenation_catalyst", "coordination_polymerisation_catalyst",
     "lactide", "dry_lactide", "molten_pla", "propane_fluid", "hot_propylene",
     "propylene_stream", "pp_stock", "molten_pp"}

PartGoods ==
    PolymerGoods \cup {"paid_sifter_brick", "rotational_compressor_bill",
                       "conductive_casing_blank", "empty_circuit_slab"}

\* What only those without it need.
PlainGoods ==
    {"high_speed_governor_1", "exhaust_recuperator_1", "brake_manifold_1",
     "adhesion_sanders_1", "compound_torque_clutch_1", "reinforced_drawgear_1",
     "trestle_erector_1"}

\* The recipes that are gated and that no script takes away.
Standing == {"spirit_altar", "rose_quartz", "empty_focus", "wind_blast_focus"}

\* All of them; only what is stranded needs more.
Goods(parts) ==
    Standing \cup FoundGoods \cup HandGoods \cup WorkshopGoods \cup BrassGoods
    \cup PressureGoods \cup ElectricGoods \cup AcidGoods \cup TransitionGoods
    \cup CraftGoods \cup ArmourGoods \cup BeetleGoods \cup (IF parts THEN PartGoods ELSE PlainGoods)

\* The rules need goods only, or make what is a good anyway, or stranded.
Supplied(rules, parts) ==
    \A r \in rules : r.kind \in {"make", "remake"} =>
        r.needs \subseteq Goods(parts) \/ r.outs \subseteq Goods(parts) \cup Stranded

-----------------------------------------------------------------------------
(* What is asked of the scripts.                                           *)

\* No rule takes away a recipe that is to stand, and the altar's alone is
\* copied; the dagger's alone is amended, for what no rule requires.
\* What is added to a native route is found.
Orderly(rules) ==
    \A r \in rules :
        /\ r.kind \in {"remove", "remake"} => r.outs \cap Standing = {}
        /\ r.kind = "copy" => r.outs = {"spirit_altar"}
        /\ r.kind = "require" => "altar_tier_5" \notin r.needs
        /\ r.kind = "amend" =>
               /\ r.outs = {"daggerofsacrifice"} /\ r.from = "recipes"
               /\ r.spare = {"altar_tier_5"}
        /\ r.kind \in {"require", "amend"} => r.needs \subseteq FoundGoods

\* What is asked of an ordinary script.
Proper(rules, w) ==
    /\ Orderly(rules)
    /\ AllRespect(rules, PackSeals \cup WorldSeals(w))
    /\ Supplied(rules, w.parts)

-----------------------------------------------------------------------------
(* The scripts one at a time.                                              *)

\* Rules are proper when some of them are and the others are.
LEMMA ProperParts ==
    ASSUME NEW w, NEW R, NEW S, Proper(R, w), Proper(S \ R, w)
    PROVE  Proper(S, w)
BY DEF Proper, Orderly, AllRespect, Supplied

\* Two sets of proper rules are proper together.
LEMMA ProperBoth ==
    ASSUME NEW w, NEW R, NEW S, Proper(R, w), Proper(S, w)
    PROVE  Proper(R \cup S, w)
BY DEF Proper, Orderly, AllRespect, Supplied

\* Every ordinary script respects the seals of its world and needs its goods.
LEMMA OrdinaryProper ==
    ASSUME NEW w, NEW i \in 1 .. 42
    PROVE  Proper(Ordinary(w.parts)[i], w)
<1> USE DEF Supplied, Goods, FoundGoods, HandGoods, WorkshopGoods, BrassGoods,
        PressureGoods, ElectricGoods, AcidGoods, TransitionGoods, CraftGoods, ArmourGoods,
        BeetleGoods, PolymerGoods, PartGoods, PlainGoods,
        Orderly, AllRespect, Respects, PackSeals, WorldSeals, Seal, Shut,
        ClosedItems, Quarantined, RemovedRecipes, DirectRoutes, Reopened, Stranded,
        MetalHooks, Rope, Standing, Foci, PerkRoutes, WorldGates, Gate, Guard,
        FamilyGates, Families, NetherGates,
        AetherGates, ChalkGates, MeteorGates, RestrictedTrades, AltarGates, EraGates,
        BranchGates, LivingMage, Rule, Via, Makes, MakesEach, Remakes, RemakesEach,
        Removes, RemovesFrom, Requires, Amends, Copies, Mixer, Compactor, Press, Crafters,
        Deployer, Millstone, Foundry, Plant, Chamber
<1>1. Proper(ExtremeRewards(w.parts), w)
  BY SMTT(60) DEF Proper, ExtremeRewards, MountainRewards, DeepRewards
<1>2. Proper(SpikeGates(w.parts), w)
  BY SMTT(60) DEF Proper, SpikeGates
<1>3. Proper(ArsBooks(w.parts), w)
  BY SMTT(60) DEF Proper, ArsBooks
<1>4. Proper(ProtectionPixel(w.parts), w)
  <2>1. Proper(ArmourMaterials, w)
    BY SMTT(60) DEF Proper, ArmourMaterials, Sequence
  <2>2. Proper(ArmourKits, w)
    BY SMTT(60) DEF Proper, ArmourKits, Mechanical
  <2>3. Proper(Linings, w)
    BY SMTT(60) DEF Proper, Linings, Mechanical
  <2>4. Proper(Exoskeletons, w)
    BY SMTT(60) DEF Proper, Exoskeletons, Mechanical, Sequence
  <2> QED
    BY <2>1, <2>2, <2>3, <2>4, ProperBoth DEF ProtectionPixel
<1>5. Proper(TomeOfBlood(w.parts), w)
  BY SMTT(60) DEF Proper, TomeOfBlood, BloodReagents
<1>6. Proper(BackpackUtilities(w.parts), w)
  BY SMTT(60) DEF Proper, BackpackUtilities
<1>7. Proper(TaCZ(w.parts), w)
  <2>1. Proper(Workbenches, w)
    BY SMTT(60) DEF Proper, Workbenches
  <2>2. Proper(DefaultPack, w)
    BY SMTT(60) DEF Proper, DefaultPack
  <2>3. Proper(ArmorerPacks, w)
    BY SMTT(60) DEF Proper, ArmorerPacks
  <2> QED
    BY <2>1, <2>2, <2>3, ProperBoth DEF TaCZ
<1>8. Proper(Hexerei(w.parts), w)
  BY SMTT(60) DEF Proper, Hexerei, CauldronWares, Cauldron, Chalk, FontProof,
         FiniteSpace
<1>9. Proper(SlateGates(w.parts), w)
  BY SMTT(60) DEF Proper, SlateGates
<1>10. Proper(BloodLifeforce(w.parts), w)
  BY SMTT(60) DEF Proper, BloodLifeforce
<1>11. Proper(FormulaicSynthesis(w.parts), w)
  BY SMTT(60) DEF Proper, FormulaicSynthesis
<1>12. Proper(DragonReplacements(w.parts), w)
  BY SMTT(60) DEF Proper, DragonReplacements
<1>13. Proper(DimensionAccess(w.parts), w)
  BY SMTT(60) DEF Proper, DimensionAccess
<1>14. Proper(Policy(w.parts), w)
  BY SMTT(60) DEF Proper, Policy, RemovedItems, PotionReplacements
<1>15. Proper(PrimitiveWorkshop(w.parts), w)
  BY SMTT(60) DEF Proper, PrimitiveWorkshop
<1>16. Proper(HandWorkshop(w.parts), w)
  BY SMTT(60) DEF Proper, HandWorkshop, Refractory, SurfaceSynthesis
<1>17. Proper(MeteorLogistics(w.parts), w)
  BY SMTT(60) DEF Proper, MeteorLogistics, HighModules, SkyStoneDevices, RetiredRats,
         EnergyAcceptor
<1>18. Proper(PoweredWorks(w.parts), w)
  <2>1. Proper(IronWorkshop(w.parts), w)
    BY SMTT(60) DEF Proper, IronWorkshop
  <2>2. Proper(PoweredMachines(w.parts), w)
    BY SMTT(60) DEF Proper, PoweredMachines, MillstoneRoot
  <2>3. Proper(SkyrootRoots(w.parts), w)
    BY SMTT(60) DEF Proper, SkyrootRoots, WaterWheel
  <2>4. Proper(Sifter(w.parts), w)
    BY SMTT(60) DEF Proper, Sifter
  <2>5. Proper(PoweredWorks(w.parts) \ (IronWorkshop(w.parts) \cup PoweredMachines(w.parts) \cup SkyrootRoots(w.parts) \cup Sifter(w.parts)), w)
    BY SMTT(60) DEF Proper, PoweredWorks
  <2>6. Proper(IronWorkshop(w.parts) \cup PoweredMachines(w.parts) \cup SkyrootRoots(w.parts) \cup Sifter(w.parts), w)
    BY <2>1, <2>2, <2>3, <2>4, ProperBoth
  <2> QED
    BY <2>5, <2>6, ProperParts
<1>19. Proper(BumblezoneSeeds(w.parts), w)
  BY SMTT(60) DEF Proper, BumblezoneSeeds
<1>20. Proper(RatArcheology(w.parts), w)
  BY SMTT(60) DEF Proper, RatArcheology
<1>21. Proper(UnderwaterWorks(w.parts), w)
  BY SMTT(60) DEF Proper, UnderwaterWorks
<1>22. Proper(PrecisionFactory(w.parts), w)
  BY SMTT(60) DEF Proper, PrecisionFactory
<1>23. Proper(ThermalPressure(w.parts), w)
  BY SMTT(60) DEF Proper, ThermalPressure, AirtightBlock, RotationalCompressor
<1>24. Proper(AcidChemistry(w.parts), w)
  <2>1. Proper(SulfuricAcid, w)
    BY SMTT(60) DEF Proper, SulfuricAcid, FluidMixer
  <2>2. Proper(SaltsAndVinegar, w)
    BY SMTT(60) DEF Proper, SaltsAndVinegar
  <2>3. Proper(AcidChemistry(w.parts) \ (SulfuricAcid \cup SaltsAndVinegar), w)
    BY SMTT(60) DEF Proper, AcidChemistry
  <2>4. Proper(SulfuricAcid \cup SaltsAndVinegar, w)
    BY <2>1, <2>2, ProperBoth
  <2> QED
    BY <2>3, <2>4, ProperParts
<1>25. Proper(Polymers(w.parts), w)
  <2>1. w.parts => Proper(PLA, w)
    BY SMTT(60) DEF Proper, PLA
  <2>2. w.parts => Proper(PP, w)
    BY SMTT(60) DEF Proper, PP
  <2>3. w.parts => Proper(Catalysts, w)
    BY SMTT(60) DEF Proper, Catalysts
  <2>4. Proper({}, w)
    BY DEF Proper
  <2> QED
    BY <2>1, <2>2, <2>3, <2>4, ProperBoth DEF Polymers
<1>26. Proper(ElectricalControl(w.parts), w)
  BY SMTT(60) DEF Proper, ElectricalControl, ConductiveCasing, ElectricalBlock,
         GeneratorHousing
<1>27. Proper(SoulstoneBootstrap(w.parts), w)
  BY SMTT(60) DEF Proper, SoulstoneBootstrap
<1>28. Proper(PowerGridCutting(w.parts), w)
  BY SMTT(60) DEF Proper, PowerGridCutting
<1>29. Proper(ClockworkBladeCutting(w.parts), w)
  BY SMTT(60) DEF Proper, ClockworkBladeCutting
<1>30. Proper(TransitionComponents(w.parts), w)
  <2>1. Proper(ControlModules, w)
    BY SMTT(60) DEF Proper, ControlModules
  <2>2. Proper(GeologyComponents, w)
    BY SMTT(60) DEF Proper, GeologyComponents
  <2>3. Proper(ImpossibleMatter, w)
    BY SMTT(60) DEF Proper, ImpossibleMatter
  <2> QED
    BY <2>1, <2>2, <2>3, ProperBoth DEF TransitionComponents
<1>31. Proper(TechPalette(w.parts), w)
  BY SMTT(60) DEF Proper, TechPalette, MeteorController
<1>32. Proper(PneumaticProgression(w.parts), w)
  <2>1. Proper(PneumaticMachines(w.parts), w)
    BY SMTT(60) DEF Proper, PneumaticMachines
  <2>2. Proper(AssemblyController, w)
    BY SMTT(60) DEF Proper, AssemblyController
  <2>3. Proper(AdvancedUpgrades, w)
    BY SMTT(60) DEF Proper, AdvancedUpgrades
  <2> QED
    BY <2>1, <2>2, <2>3, ProperBoth DEF PneumaticProgression
<1>33. Proper(FoodDrying(w.parts), w)
  BY SMTT(60) DEF Proper, FoodDrying
<1>34. Proper(PneumaticAcquisition(w.parts), w)
  BY SMTT(60) DEF Proper, PneumaticAcquisition, Blueprint, ServiceOffers
<1>35. Proper(StationCrafting(w.parts), w)
  BY SMTT(60) DEF Proper, StationCrafting
<1>36. Proper(CertusComponents(w.parts), w)
  BY SMTT(60) DEF Proper, CertusComponents, CertusInputs
<1>37. Proper(FontEcology(w.parts), w)
  BY SMTT(60) DEF Proper, FontEcology, Libations, ThermopneumaticPlant
<1>38. Proper(DimensionTransport(w.parts), w)
  BY SMTT(60) DEF Proper, DimensionTransport
<1>39. Proper(EngineeringRoots(w.parts), w)
  BY SMTT(60) DEF Proper, EngineeringRoots, ShipHelms, Clockwork, Trackwork
<1>40. Proper(RailBeetles(w.parts), w)
  BY SMTT(60) DEF Proper, RailBeetles, BeetleFrames, BeetleTierOne, TierOne,
         BeetleTierTwo, ElectricalTierTwo, ThermalTierTwo, BeetleDrives
<1>41. Proper(StarterHooks(w.parts), w)
  BY SMTT(60) DEF Proper, StarterHooks
<1>42. Proper(MobilityGates(w.parts), w)
  BY SMTT(60) DEF Proper, MobilityGates, Hooks
<1> HIDE DEF Supplied, Goods, FoundGoods, HandGoods, WorkshopGoods, BrassGoods,
        PressureGoods, ElectricGoods, AcidGoods, TransitionGoods, CraftGoods, ArmourGoods,
        BeetleGoods, PolymerGoods, PartGoods, PlainGoods,
        Orderly, AllRespect, Respects, PackSeals, WorldSeals, Seal, Shut,
        ClosedItems, Quarantined, RemovedRecipes, DirectRoutes, Reopened, Stranded,
        MetalHooks, Rope, Standing, Foci, PerkRoutes, WorldGates, Gate, Guard,
        FamilyGates, Families, NetherGates,
        AetherGates, ChalkGates, MeteorGates, RestrictedTrades, AltarGates, EraGates,
        BranchGates, LivingMage, Rule, Via, Makes, MakesEach, Remakes, RemakesEach,
        Removes, RemovesFrom, Requires, Amends, Copies, Mixer, Compactor, Press, Crafters,
        Deployer, Millstone, Foundry, Plant, Chamber
<1> QED
  BY <1>1, <1>2, <1>3, <1>4, <1>5, <1>6, <1>7, <1>8, <1>9, <1>10, <1>11, <1>12, <1>13,
     <1>14, <1>15, <1>16, <1>17, <1>18, <1>19, <1>20, <1>21, <1>22, <1>23, <1>24,
     <1>25, <1>26, <1>27, <1>28, <1>29, <1>30, <1>31, <1>32, <1>33, <1>34, <1>35,
     <1>36, <1>37, <1>38, <1>39, <1>40, <1>41, <1>42 DEF Ordinary

\* The perks respect what no perk opens.
LEMMA AxiomsProper ==
    ASSUME NEW parts, NEW selected
    PROVE  /\ Orderly(WorldAxioms(parts, selected))
           /\ AllRespect(WorldAxioms(parts, selected), PackSeals)
<1> USE DEF FoundGoods, Orderly, AllRespect, Respects, PackSeals, WorldSeals, Seal, Shut,
        ClosedItems, Quarantined, RemovedRecipes, DirectRoutes, Reopened, Stranded,
        MetalHooks, Rope, Standing, Foci, PerkRoutes, WorldGates, Gate, Guard,
        FamilyGates, Families, NetherGates,
        AetherGates, ChalkGates, MeteorGates, RestrictedTrades, AltarGates, EraGates,
        BranchGates, LivingMage, Rule, Via, Makes, MakesEach, Remakes, RemakesEach,
        Removes, RemovesFrom, Requires, Amends, Copies, Mixer, Compactor, Press, Crafters,
        Deployer, Millstone, Foundry, Plant, Chamber
<1> QED
  BY SMTT(60) DEF WorldAxioms, IronLaw, EternalEngine, AlloyTestament, CaptiveHearth,
         SacrificialTradition, SpiritAwakening, ChalkCovenant, PatientAlchemist

\* A perk opens the gates only of a world that has paid for it.
LEMMA AxiomsRespect ==
    ASSUME NEW w
    PROVE  AllRespect(WorldAxioms(w.parts, w.paid), WorldSeals(w))
<1> USE DEF Orderly, AllRespect, Respects, PackSeals, WorldSeals, Seal, Shut,
        ClosedItems, Quarantined, RemovedRecipes, DirectRoutes, Reopened, Stranded,
        MetalHooks, Rope, Standing, Foci, PerkRoutes, WorldGates, Gate, Guard,
        FamilyGates, Families, NetherGates,
        AetherGates, ChalkGates, MeteorGates, RestrictedTrades, AltarGates, EraGates,
        BranchGates, LivingMage, Rule, Via, Makes, MakesEach, Remakes, RemakesEach,
        Removes, RemovesFrom, Requires, Amends, Copies, Mixer, Compactor, Press, Crafters,
        Deployer, Millstone, Foundry, Plant, Chamber
<1> QED
  BY SMTT(60) DEF WorldAxioms, IronLaw, EternalEngine, AlloyTestament, CaptiveHearth,
         SacrificialTradition, SpiritAwakening, ChalkCovenant, PatientAlchemist

-----------------------------------------------------------------------------
(* The scripts of a world together.                                        *)

\* The forty-two ordinary scripts come first, the perks last.
LEMMA OrderOfScripts ==
    ASSUME NEW w
    PROVE  /\ DOMAIN LoadOrder(w) = 1 .. 43
           /\ \A i \in 1 .. 42 : LoadOrder(w)[i] = Ordinary(w.parts)[i]
           /\ LoadOrder(w)[43] = WorldAxioms(w.parts, Perks(w))
<1>1. /\ DOMAIN LoadOrder(w) = 1 .. 43
      /\ LoadOrder(w)[43] = WorldAxioms(w.parts, Perks(w))
  BY SMTT(30) DEF LoadOrder, Ordinary
<1>2. \A i \in 1 .. 42 : LoadOrder(w)[i] = Ordinary(w.parts)[i]
  BY SMTT(30) DEF LoadOrder, Ordinary
<1> QED
  BY <1>1, <1>2

\* The scripts by name on which the closings, the altar and what is stranded rest.
LEMMA PlacesInOrder ==
    ASSUME NEW w
    PROVE  /\ LoadOrder(w)[9] = SlateGates(w.parts)
           /\ LoadOrder(w)[10] = BloodLifeforce(w.parts)
           /\ LoadOrder(w)[13] = DimensionAccess(w.parts)
           /\ LoadOrder(w)[14] = Policy(w.parts)
           /\ LoadOrder(w)[36] = CertusComponents(w.parts)
           /\ LoadOrder(w)[2] = SpikeGates(w.parts)
           /\ LoadOrder(w)[12] = DragonReplacements(w.parts)
           /\ LoadOrder(w)[32] = PneumaticProgression(w.parts)
           /\ LoadOrder(w)[42] = MobilityGates(w.parts)
<1>1. /\ Ordinary(w.parts)[9] = SlateGates(w.parts)
      /\ Ordinary(w.parts)[10] = BloodLifeforce(w.parts)
      /\ Ordinary(w.parts)[13] = DimensionAccess(w.parts)
      /\ Ordinary(w.parts)[14] = Policy(w.parts)
      /\ Ordinary(w.parts)[36] = CertusComponents(w.parts)
      /\ Ordinary(w.parts)[2] = SpikeGates(w.parts)
      /\ Ordinary(w.parts)[12] = DragonReplacements(w.parts)
      /\ Ordinary(w.parts)[32] = PneumaticProgression(w.parts)
      /\ Ordinary(w.parts)[42] = MobilityGates(w.parts)
  BY DEF Ordinary
<1> QED
  BY <1>1, OrderOfScripts

\* No script of a world takes away a recipe that is to stand.
LEMMA ScriptsOrderly ==
    ASSUME NEW w, NEW i \in 1 .. 43
    PROVE  Orderly(LoadOrder(w)[i])
<1>1. CASE i \in 1 .. 42
  BY <1>1, OrderOfScripts, OrdinaryProper DEF Proper
<1>2. CASE i = 43
  BY <1>2, OrderOfScripts, AxiomsProper
<1> QED
  BY <1>1, <1>2

\* All scripts of a world respect what every world seals, and what theirs does.
LEMMA ScriptsRespect ==
    ASSUME NEW w, NEW i \in 1 .. 43
    PROVE  /\ AllRespect(LoadOrder(w)[i], PackSeals)
           /\ w.paid = Perks(w) => AllRespect(LoadOrder(w)[i], WorldSeals(w))
<1>1. CASE i \in 1 .. 42
  BY <1>1, OrderOfScripts, OrdinaryProper DEF Proper, AllRespect
<1>2. CASE i = 43
  <2>1. LoadOrder(w)[i] = WorldAxioms(w.parts, Perks(w))
    BY <1>2, OrderOfScripts
  <2>2. ASSUME w.paid = Perks(w)
        PROVE  AllRespect(LoadOrder(w)[i], WorldSeals(w))
    <3>1. LoadOrder(w)[i] = WorldAxioms(w.parts, w.paid)
      BY <2>1, <2>2
    <3> QED
      BY <3>1, AxiomsRespect
  <2> QED
    BY <2>1, <2>2, AxiomsProper
<1> QED
  BY <1>1, <1>2

\* Mods and datapacks respect the seals of every world.
LEMMA KeptRespects ==
    ASSUME NEW w, NEW seal \in PackSeals \cup WorldSeals(w), NEW r \in PackKept,
           r.out \in seal.items
    PROVE  r.needs \cap seal.guard # {}
<1> USE DEF Orderly, AllRespect, Respects, PackSeals, WorldSeals, Seal, Shut,
        ClosedItems, Quarantined, RemovedRecipes, DirectRoutes, Reopened, Stranded,
        MetalHooks, Rope, Standing, Foci, PerkRoutes, WorldGates, Gate, Guard,
        FamilyGates, Families, NetherGates,
        AetherGates, ChalkGates, MeteorGates, RestrictedTrades, AltarGates, EraGates,
        BranchGates, LivingMage, Rule, Via, Makes, MakesEach, Remakes, RemakesEach,
        Removes, RemovesFrom, Requires, Amends, Copies, Mixer, Compactor, Press, Crafters,
        Deployer, Millstone, Foundry, Plant, Chamber
<1> QED
  BY SMTT(60) DEF PackKept, Route

-----------------------------------------------------------------------------
(* A seal that all scripts respect seals, for native routes too: each is   *)
(* there because a script or a closing names it, and is cut or gated.      *)

\* A removal that is about a route cuts it.
LEMMA RemovalCuts ==
    ASSUME NEW rules, NEW r \in rules, r.kind \in {"remove", "remake"}, NEW n, IsAbout(r, n)
    PROVE  Cuts(rules, n)
BY DEF Cuts, Of

\* Restricted trades are cut, and so are the recipes of what is closed.
LEMMA ClosingsCut ==
    ASSUME NEW w, NEW n,
           \/ n.from = "recipes" /\ n.out \in ClosedItems
           \/ n.from = "trades" /\ n.out \in RestrictedTrades
    PROVE  \E i \in 1 .. 43 : Cuts(LoadOrder(w)[i], n)
<1> DEFINE quarantine == Removes(Quarantined \cup RemovedRecipes)
           trades == RemovesFrom("trades", RestrictedTrades)
<1>1. /\ quarantine \in LoadOrder(w)[14] /\ trades \in LoadOrder(w)[14]
      /\ Removes(DirectRoutes) \in LoadOrder(w)[13]
  BY PlacesInOrder DEF Policy, RemovedItems, DimensionAccess
<1>2. \A outs : /\ Removes(outs).kind = "remove" /\ Removes(outs).outs = outs
                /\ Removes(outs).from = "recipes"
  BY DEF Removes, Rule
<1>3. trades.kind = "remove" /\ trades.outs = RestrictedTrades /\ trades.from = "trades"
  BY DEF RemovesFrom, Removes, Rule
<1>4. CASE n.from = "trades" /\ n.out \in RestrictedTrades
  <2>1. IsAbout(trades, n)
    BY <1>3, <1>4 DEF IsAbout
  <2> QED
    BY <1>1, <1>3, <2>1, RemovalCuts
<1>5. CASE n.from = "recipes" /\ n.out \in Quarantined \cup RemovedRecipes
  <2>1. IsAbout(quarantine, n)
    BY <1>2, <1>5 DEF IsAbout
  <2> QED
    BY <1>1, <1>2, <2>1, RemovalCuts
<1>6. CASE n.from = "recipes" /\ n.out \in DirectRoutes
  <2>1. IsAbout(Removes(DirectRoutes), n)
    BY <1>2, <1>6 DEF IsAbout
  <2> QED
    BY <1>1, <1>2, <2>1, RemovalCuts
<1> QED
  BY <1>4, <1>5, <1>6 DEF ClosedItems

\* The dagger's own recipe is cut, and so what is amended of it.
LEMMA DaggerCut ==
    ASSUME NEW w, NEW n, n.from = "recipes", n.out = "daggerofsacrifice"
    PROVE  Cuts(LoadOrder(w)[10], n)
<1> DEFINE r == Remakes("daggerofsacrifice", {"altar_tier_5"})
<1>1. r \in LoadOrder(w)[10]
  BY PlacesInOrder DEF BloodLifeforce
<1>2. r.kind = "remake" /\ IsAbout(r, n)
  BY DEF Remakes, RemakesEach, Rule, IsAbout
<1> QED
  BY <1>1, <1>2, RemovalCuts

\* What all scripts respect is sealed off by them together: mods and datapacks
\* respect it too.
LEMMA RespectedSeals ==
    ASSUME NEW w \in PackWorlds, NEW seal \in PackSeals \cup WorldSeals(w),
           \A i \in 1 .. 43 : \A r \in LoadOrder(w)[i] : Respects(r, seal)
    PROVE  Sealed(w, seal.items, seal.guard)
<1> DEFINE order == LoadOrder(w)
<1>1. Scripts[w] = order /\ Native[w] = WorldNative(w) /\ Kept = PackKept
  BY PackAssumption DEF PackScripts, PackNative
<1>2. DOMAIN order = 1 .. 43
  BY OrderOfScripts
<1> HIDE DEF order
<1>3. ASSUME NEW i \in 1 .. 43
      PROVE  WritesGuarded(order[i], seal.items, seal.guard)
  BY DEF order, Respects, WritesGuarded
<1>4. ASSUME NEW n \in WorldNative(w), n.out \in seal.items
      PROVE  GivenGuard(order, n, seal.guard)
  <2>1. PICK t \in (UNION {Touched(order[i]) : i \in DOMAIN order})
                   \cup {"recipes"} \X ClosedItems \cup {"trades"} \X RestrictedTrades :
           n = [from |-> t[1], out |-> t[2], needs |-> {}]
    BY <1>4 DEF WorldNative, order
  <2>2. n.from = t[1] /\ n.out = t[2]
    BY <2>1
  <2>3. CASE t \in {"recipes"} \X ClosedItems \cup {"trades"} \X RestrictedTrades
    <3>1. \/ n.from = "recipes" /\ n.out \in ClosedItems
          \/ n.from = "trades" /\ n.out \in RestrictedTrades
      BY <2>2, <2>3
    <3> QED
      BY <1>2, <3>1, ClosingsCut DEF GivenGuard, order
  <2>4. CASE n.from = "recipes" /\ n.out = "daggerofsacrifice"
    BY <1>2, <2>4, DaggerCut DEF GivenGuard, order
  <2>5. CASE /\ t \in UNION {Touched(order[i]) : i \in DOMAIN order}
             /\ ~(n.from = "recipes" /\ n.out = "daggerofsacrifice")
    <3>1. PICK i \in 1 .. 43 : t \in Touched(order[i])
      BY <1>2, <2>5
    <3>2. PICK r \in order[i] :
             /\ r.kind \in {"remove", "remake", "require", "amend", "copy"}
             /\ t \in {r.from} \X r.outs
      BY <3>1 DEF Touched, Of
    <3>3. IsAbout(r, n)
      BY <2>2, <3>2 DEF IsAbout
    <3>4. \A j \in 1 .. 43 : \A a \in Of(order[j], {"amend"}) : ~IsAbout(a, n)
      BY <2>5, ScriptsOrderly DEF order, Orderly, Of, IsAbout
    <3>5. Respects(r, seal) /\ r.outs \cap seal.items # {}
      BY <1>4, <3>3 DEF order, IsAbout
    <3>6. CASE r.kind \in {"remove", "remake"}
      BY <1>2, <3>2, <3>3, <3>6, RemovalCuts DEF GivenGuard
    <3>7. CASE r.kind = "require"
      <4>1. r.needs \subseteq Added(order[i], n)
        BY <3>2, <3>3, <3>7 DEF Added, Of
      <4>2. r.needs \cap seal.guard # {}
        BY <3>5, <3>7 DEF Respects
      <4>3. Added(order[i], n) \cap seal.guard # {}
        BY <4>1, <4>2
      <4> QED
        BY <1>2, <3>4, <4>3 DEF GivenGuard
    <3>8. r.kind # "amend"
      BY <3>2, <3>3, <3>4 DEF Of
    <3>9. r.kind # "copy"
      BY <3>5 DEF Respects
    <3> QED
      BY <3>2, <3>6, <3>7, <3>8, <3>9
  <2> QED
    BY <2>1, <2>3, <2>4, <2>5
<1>5. \A r \in PackKept : r.out \in seal.items => r.needs \cap seal.guard # {}
  BY KeptRespects
<1> QED
  BY <1>1, <1>2, <1>3, <1>4, <1>5 DEF Sealed

\* What no perk opens is sealed off in every world.
LEMMA PackSealed ==
    ASSUME NEW w \in PackWorlds, NEW seal \in PackSeals
    PROVE  Sealed(w, seal.items, seal.guard)
<1>1. \A i \in 1 .. 43 : \A r \in LoadOrder(w)[i] : Respects(r, seal)
  BY ScriptsRespect DEF AllRespect
<1> QED
  BY <1>1, RespectedSeals

\* What a world has not paid for is sealed off in it.
LEMMA WorldSealed ==
    ASSUME Truthful, NEW w \in PackWorlds, NEW seal \in WorldSeals(w)
    PROVE  Sealed(w, seal.items, seal.guard)
<1>1. \A i \in 1 .. 43 : \A r \in LoadOrder(w)[i] : Respects(r, seal)
  BY ScriptsRespect DEF AllRespect, Truthful
<1> QED
  BY <1>1, RespectedSeals

-----------------------------------------------------------------------------
(* What every world may rely on.                                           *)

\* A loaded world runs the scripts of the pack, all forty-three.
LEMMA WorldOfPack ==
    ASSUME Loading
    PROVE  /\ world \in PackWorlds /\ scripts = LoadOrder(world)
           /\ Len(scripts) = 43 /\ DOMAIN scripts = 1 .. 43
<1>1. world \in PackWorlds /\ scripts = LoadOrder(world)
  BY PackAssumption DEF Loading, Worlds, PackScripts
<1>2. DOMAIN scripts = 1 .. 43
  BY <1>1, OrderOfScripts
<1>3. Len(scripts) \in Nat /\ 1 .. Len(scripts) = 1 .. 43
  BY <1>2, ScriptsAssumption DEF Loading
<1>4. 43 \in 1 .. Len(scripts)
  BY <1>3
<1>5. Len(scripts) >= 43
  BY <1>3, <1>4
<1>6. Len(scripts) \in 1 .. Len(scripts)
  BY <1>3, <1>5
<1>7. Len(scripts) \in 1 .. 43
  BY <1>3, <1>6, Zenon
<1> QED
  BY <1>1, <1>2, <1>3, <1>5, <1>7

\* A rule that a machine is added to still makes what it did.
LEMMA ViaAdds ==
    ASSUME NEW machine, NEW rules, NEW kind, NEW outs, NEW needs,
           Rule(kind, outs, needs) \in rules
    PROVE  Rule(kind, outs, needs \cup machine) \in Via(machine, rules)
<1>1. [Rule(kind, outs, needs) EXCEPT !.needs = @ \cup machine]
          = Rule(kind, outs, needs \cup machine)
  BY DEF Rule
<1>2. [Rule(kind, outs, needs) EXCEPT !.needs = @ \cup machine] \in Via(machine, rules)
  BY DEF Via
<1> QED
  BY <1>1, <1>2

\* A rule that makes an item is a route to it once its script has run.
LEMMA RuleAuthors ==
    ASSUME NEW rules, NEW kind \in {"make", "remake"}, NEW outs, NEW needs, NEW o \in outs,
           Rule(kind, outs, needs) \in rules
    PROVE  [out |-> o, needs |-> needs] \in Authored(rules)
<1>1. Rule(kind, outs, needs) \in Of(rules, {"make", "remake"})
  BY DEF Of, Rule
<1>2. Rule(kind, outs, needs).outs = outs /\ Rule(kind, outs, needs).needs = needs
  BY DEF Rule
<1> QED
  BY <1>1, <1>2 DEF Authored

\* The pack came with the recipes that its scripts are about.
LEMMA NativeNamed ==
    ASSUME NEW w \in PackWorlds, NEW i \in 1 .. 43, NEW r \in LoadOrder(w)[i],
           r.kind \in {"remove", "remake", "require", "amend", "copy"},
           r.from = "recipes", NEW x \in r.outs
    PROVE  [from |-> "recipes", out |-> x, needs |-> {}] \in Native[w]
<1> DEFINE t == <<"recipes", x>>
<1>1. t[1] = "recipes" /\ t[2] = x
  OBVIOUS
<1>2. t \in Touched(LoadOrder(w)[i])
  BY DEF Touched, Of
<1>3. t \in UNION {Touched(LoadOrder(w)[j]) : j \in DOMAIN LoadOrder(w)}
  BY <1>2, OrderOfScripts
<1> HIDE DEF t
<1>4. [from |-> "recipes", out |-> x, needs |-> {}] \in WorldNative(w)
  BY <1>1, <1>3 DEF WorldNative
<1> QED
  BY <1>4, PackAssumption DEF PackNative

\* The recipes that are gated and that no script takes away are always there.
LEMMA NativeStands ==
    ASSUME Loading, History, NEW x \in Standing
    PROVE  \E n \in native : n.out = x /\ n.from = "recipes"
<1> DEFINE altar == Requires({"spirit_altar"}, {"blankslate"})
           foci == Requires(Foci \cup {"dark_altar", "dark_altar_stone", "focus_bag",
                                       "focus_pack"}, {"demonslate"})
<1>0. ran \in 0 .. 43
  BY WorldOfPack DEF Loading
<1>1. /\ world \in PackWorlds /\ scripts = LoadOrder(world)
      /\ ran \in 0 .. 43 /\ 1 .. ran \subseteq 1 .. 43
  <2>1. world \in PackWorlds /\ scripts = LoadOrder(world)
    BY WorldOfPack
  <2>2. \A i \in 1 .. ran : i \in 1 .. 43
    BY <1>0
  <2> QED
    BY <1>0, <2>1, <2>2
<1>2. /\ altar \in LoadOrder(world)[9] /\ foci \in LoadOrder(world)[2]
      /\ CertusInputs \in LoadOrder(world)[36]
  BY PlacesInOrder DEF SlateGates, SpikeGates, CertusComponents
<1>3. /\ altar.kind = "require" /\ altar.from = "recipes" /\ "spirit_altar" \in altar.outs
      /\ CertusInputs.kind = "require" /\ CertusInputs.from = "recipes"
      /\ "rose_quartz" \in CertusInputs.outs
      /\ foci.kind = "require" /\ foci.from = "recipes"
      /\ {"empty_focus", "wind_blast_focus"} \subseteq foci.outs
  BY DEF CertusInputs, Requires, Rule, Foci
<1> DEFINE m == [from |-> "recipes", out |-> x, needs |-> {}]
<1>4. m \in Native[world]
  <2> HIDE DEF altar, foci
  <2>1. 9 \in 1 .. 43 /\ 2 \in 1 .. 43 /\ 36 \in 1 .. 43
    OBVIOUS
  <2> QED
    BY <1>1, <1>2, <1>3, <2>1, NativeNamed DEF Standing
<1>5. \A i \in 1 .. ran : ~Cuts(scripts[i], m)
  BY <1>1, ScriptsOrderly DEF Orderly, Cuts, Of, IsAbout
<1> QED
  BY <1>4, <1>5 DEF History

\* ScriptsStand: no amendment of the pack spares what one of its scripts
\* requires, so every removal and every gate stands, in all worlds.
THEOREM PackDecisionsStand == Spec => []ScriptsStand
<1>1. ASSUME NEW w \in Worlds, NEW i \in DOMAIN Scripts[w], NEW j \in DOMAIN Scripts[w],
             NEW r \in Of(Scripts[w][i], {"require"})
      PROVE  r.needs \cap Spared(Scripts[w][j]) = {}
  <2>1. w \in PackWorlds /\ Scripts[w] = LoadOrder(w) /\ DOMAIN Scripts[w] = 1 .. 43
    BY PackAssumption, OrderOfScripts DEF Worlds, PackScripts
  <2>2. "altar_tier_5" \notin r.needs
    BY <2>1, ScriptsOrderly DEF Orderly, Of
  <2>3. \A a \in Of(Scripts[w][j], {"amend"}) : a.spare = {"altar_tier_5"}
    BY <2>1, ScriptsOrderly DEF Orderly, Of
  <2>4. Spared(Scripts[w][j]) \subseteq {"altar_tier_5"}
    BY <2>3 DEF Spared
  <2> QED
    BY <2>2, <2>4
<1>2. NothingSpared
  BY <1>1 DEF NothingSpared
<1> QED
  BY <1>2, DecisionsStand

\* GatesGuarded: in every world whose perks were paid for, the recipes that
\* all scripts leave together guard all of its gates.
THEOREM PackGatesGuarded ==
    ASSUME Truthful
    PROVE  Spec => []GatesGuarded
<1>1. ASSUME NEW w \in Worlds, NEW gate \in Gates[w]
      PROVE  Sealed(w, gate.items, Guard(gate))
  <2>1. w \in PackWorlds /\ Gates[w] = WorldGates(w)
    BY PackAssumption DEF Worlds, PackScripts, PackGates
  <2>2. Seal(gate.items, Guard(gate)) \in WorldSeals(w)
    BY <2>1 DEF WorldSeals
  <2> QED
    BY <2>1, <2>2, WorldSealed DEF Seal
<1>2. GatesSealed
  BY <1>1 DEF GatesSealed
<1> QED
  BY <1>2, SealedGatesGuarded

\* GatesHold: players of such a world have an item of a gate only past its
\* keys and its sites, in whatever order they go and craft.
THEOREM PackGatesHold ==
    ASSUME Truthful
    PROVE  Spec => []GatesHold
<1>1. Spec => []GatesGuarded
  BY PackGatesGuarded
<1> QED
  BY <1>1, GuardedGatesHold, PTL

-----------------------------------------------------------------------------
(* What is shut stays shut.                                                *)

\* A gate without a key or a site.
ShutGate == Gate(Shut, {})

\* Nothing shut is found anywhere.
LEMMA NothingShutFound ==
    /\ Home \cap Shut = {}
    /\ \A s \in Sites : Finds[s] \cap Shut = {}
<1> USE DEF Shut, ClosedItems, Quarantined, RemovedRecipes, DirectRoutes, Reopened,
        Stranded, MetalHooks, Rope
<1>1. Home \cap Shut = {}
  BY PackAssumption DEF PackHome
<1>2. \A s \in Sites : Finds[s] \cap Shut = {}
  BY PackAssumption, SMTT(60) DEF Sites, PackFinds
<1> QED
  BY <1>1, <1>2

\* All that is shut takes something that is shut.
LEMMA ShutGuarded == Loading /\ History /\ Loaded => Guarded(ShutGate.items, Guard(ShutGate))
<1>1. ShutGate.items = Shut /\ Guard(ShutGate) = Shut
  BY DEF ShutGate, Gate, Guard
<1>2. Seal(Shut, Shut) \in PackSeals
  BY DEF PackSeals
<1>3. Loading => Sealed(world, Shut, Shut)
  BY <1>2, WorldOfPack, PackSealed DEF Seal
<1> QED
  BY <1>1, <1>3, SealedIsGuarded

\* No order of visits and crafts has what is shut.
LEMMA AlwaysShut == Spec => [](TypeOK /\ Holds(ShutGate))
<1>1. Home \cap ShutGate.items = {}
  BY NothingShutFound DEF ShutGate, Gate
<1>2. Init => Holds(ShutGate)
  BY <1>1 DEF Init, Holds
<1>3. Loading /\ Loading' /\ History /\ Holds(ShutGate) /\ [Next]_vars => Holds(ShutGate)'
  BY <1>1, ShutGuarded, HoldsStep
<1> QED
  BY <1>2, <1>3, AlwaysLoading, AlwaysHistory, TypeCorrect, PTL DEF Spec

\* The shut gate has no key and no site, so no one has passed it.
LEMMA NothingShutHeld == TypeOK /\ Holds(ShutGate) => held \cap Shut = {}
BY NothingShutFound DEF Holds, ShutGate, Gate, TypeOK

\* ClosedStaysClosed: what removed_items.js and dimension_access.js close is
\* had by no one in any world with any perks, but for what is reopened.
THEOREM ClosedForGood == Spec => []ClosedStaysClosed
<1>1. held \cap Shut = {} => ClosedStaysClosed
  BY DEF Shut, ClosedStaysClosed
<1> QED
  BY <1>1, AlwaysShut, NothingShutHeld, PTL

\* A rule of a script of a loaded world is a route to what it makes.
LEMMA MadeIsRouted ==
    ASSUME Loading, History, Loaded, NEW i \in 1 .. 43, NEW kind \in {"make", "remake"},
           NEW outs, NEW needs, Rule(kind, outs, needs) \in LoadOrder(world)[i], NEW x \in outs
    PROVE  x \in {r.out : r \in Routes}
<1>1. scripts = LoadOrder(world) /\ ran = 43
  BY WorldOfPack DEF Loaded
<1>2. Authored(LoadOrder(world)[i]) \subseteq queued
  BY <1>1 DEF History
<1>3. [out |-> x, needs |-> needs] \in queued
  BY <1>2, RuleAuthors
<1> QED
  BY <1>3 DEF Routes

\* The recipes make what is stranded and no one ever has it, in any world with
\* any perks: neither the assembly controller that the comments of 81 and 82
\* promise, nor the metal hooks, whose rope hooks_drones_gates.js says is early
\* loot, nor the scale that closed_end_dragon_replacements.js would turn over.
THEOREM StrandedForGood ==
    Spec => [](Loaded => Stranded \subseteq {r.out : r \in Routes} \ held)
<1>1. ASSUME Loading, History, Loaded, NEW x \in Stranded
      PROVE  x \in {r.out : r \in Routes}
  <2> DEFINE pneumatic == PneumaticProgression(world.parts)
             controller == {"advanced_pressure_tube", "printed_circuit_board",
                            "integrated_circuit", "electrical_machine_block"}
             boots == {"jet_boots_upgrade_4", "elytra", "dragon_breath"}
             programmable == {"printed_circuit_board", "drone", "advanced_pressure_tube",
                              "ae_logic_package"}
  <2>1. /\ pneumatic = LoadOrder(world)[32] /\ Hooks = LoadOrder(world)[42]
        /\ DragonReplacements(world.parts) = LoadOrder(world)[12]
    BY PlacesInOrder DEF MobilityGates
  <2>2. CASE x = "advanced_pressure_tube"
    <3> DEFINE needs == {"assembly_controller", "assembly_program_laser"}
    <3>1. [out |-> "advanced_pressure_tube", needs |-> needs] \in PackKept
      BY DEF PackKept, Route
    <3> QED
      BY <2>2, <3>1, PackAssumption DEF Routes
  <2>3. CASE x \in {"assembly_controller", "jet_boots_upgrade_5", "programmable_controller"}
    <3>1. Rule("remake", {"assembly_controller"}, controller \cup Chamber) \in pneumatic
      BY ViaAdds DEF PneumaticProgression, AssemblyController, Remakes, RemakesEach
    <3>2. Rule("remake", {"jet_boots_upgrade_5"}, boots \cup Chamber) \in pneumatic
      BY ViaAdds DEF PneumaticProgression, AdvancedUpgrades, Remakes, RemakesEach
    <3>3. Rule("remake", {"programmable_controller"}, programmable) \in pneumatic
      BY DEF PneumaticProgression, PneumaticMachines, Remakes, RemakesEach
    <3>4. \E needs : Rule("remake", {x}, needs) \in LoadOrder(world)[32]
      BY <2>1, <2>3, <3>1, <3>2, <3>3
    <3> QED
      BY <1>1, <3>4, MadeIsRouted
  <2>4. CASE x \in MetalHooks
    <3>1. \E needs : Remakes(x, needs) \in Hooks
      BY <2>4 DEF MetalHooks, Hooks
    <3>2. \E needs : Rule("remake", {x}, needs) \in LoadOrder(world)[42]
      BY <2>1, <3>1 DEF Remakes, RemakesEach
    <3> QED
      BY <1>1, <3>2, MadeIsRouted
  <2>5. CASE x = "tconstruct:dragon_scale"
    <3>1. Rule("make", {x}, {"quark:dragon_scale"}) \in LoadOrder(world)[12]
      BY <2>1, <2>5 DEF DragonReplacements, Makes, MakesEach
    <3> QED
      BY <1>1, <3>1, MadeIsRouted
  <2> QED
    BY <1>1, <2>2, <2>3, <2>4, <2>5 DEF Stranded
<1>2. Loading /\ History /\ held \cap Shut = {} =>
          (Loaded => Stranded \subseteq {r.out : r \in Routes} \ held)
  BY <1>1 DEF Shut
<1> QED
  BY <1>2, AlwaysLoading, AlwaysHistory, AlwaysShut, NothingShutHeld, PTL

\* sacrificial_tradition has no effect in any world: each way to the dagger
\* still takes the altar of the tier that the perk should have spared.
THEOREM TraditionWithoutEffect == Spec => [](Loaded => ~(
    \E r \in Routes : r.out = "daggerofsacrifice" /\ "altar_tier_5" \notin r.needs))
<1>1. Seal({"daggerofsacrifice"}, {"altar_tier_5"}) \in PackSeals
  BY DEF PackSeals
<1>2. Loading => Sealed(world, {"daggerofsacrifice"}, {"altar_tier_5"})
  BY <1>1, WorldOfPack, PackSealed DEF Seal
<1>3. Loading /\ History /\ Loaded => Guarded({"daggerofsacrifice"}, {"altar_tier_5"})
  BY <1>2, SealedIsGuarded
<1>4. Loading /\ History => (Loaded => ~(
          \E r \in Routes : r.out = "daggerofsacrifice" /\ "altar_tier_5" \notin r.needs))
  BY <1>3 DEF Guarded
<1> QED
  BY <1>4, AlwaysLoading, AlwaysHistory, PTL

-----------------------------------------------------------------------------
(* A perk has its effect where it was paid for and nowhere else.           *)

\* The perks but the spirit's write the routes they open.
LEMMA PerksWriteRoutes ==
    ASSUME NEW parts, NEW selected, NEW p \in PerkRoutes, p[1] \in selected,
           p[1] # "spirit_awakening"
    PROVE  \E r \in Authored(WorldAxioms(parts, selected)) : r.out = p[2] /\ r.needs \cap p[3] = {}
<1> DEFINE axioms == WorldAxioms(parts, selected)
           plank == IF parts THEN {"eternal_engine_plank"} ELSE {}
           bill == IF parts THEN {"firebox_native_bill"} ELSE {}
<1>1. CASE p = <<"iron_law", "seared_brick", {"refractory_compound"}>>
  <2>1. Rule("make", {"seared_brick"}, {"lineage_refractory_mix"}) \in axioms
    BY <1>1 DEF WorldAxioms, IronLaw, Makes, MakesEach
  <2>2. [out |-> "seared_brick", needs |-> {"lineage_refractory_mix"}] \in Authored(axioms)
    BY <2>1, RuleAuthors
  <2> QED
    BY <1>1, <2>2
<1>2. CASE p = <<"eternal_engine", "water_wheel", {"skyroot_log"}>>
  <2>1. Rule("make", {"water_wheel"}, {"andesite_alloy"} \cup plank) \in axioms
    BY <1>2 DEF WorldAxioms, EternalEngine, Makes, MakesEach
  <2>2. [out |-> "water_wheel", needs |-> {"andesite_alloy"} \cup plank] \in Authored(axioms)
    BY <2>1, RuleAuthors
  <2> QED
    BY <1>2, <2>2
<1>3. CASE p = <<"alloy_testament", "brass_ingot", {"seared_brick"}>>
  <2>1. Rule("make", {"brass_ingot"}, {"brass_billet"}) \in axioms
    BY <1>3 DEF WorldAxioms, AlloyTestament, Makes, MakesEach
  <2>2. [out |-> "brass_ingot", needs |-> {"brass_billet"}] \in Authored(axioms)
    BY <2>1, RuleAuthors
  <2> QED
    BY <1>3, <2>2
<1>4. CASE p = <<"captive_hearth", "thermal_firebox", {}>>
  <2>1. Rule("make", {"thermal_firebox"}, bill) \in axioms
    BY <1>4 DEF WorldAxioms, CaptiveHearth, Makes, MakesEach
  <2>2. [out |-> "thermal_firebox", needs |-> bill] \in Authored(axioms)
    BY <2>1, RuleAuthors
  <2> QED
    BY <1>4, <2>2
<1>5. CASE p = <<"chalk_covenant", "chalk_white_impure", {"honey_crystal_shards"}>>
  <2>1. Rule("make", {"chalk_white_impure"}, {} \cup {"mixing_cauldron"}) \in axioms
    BY <1>5, ViaAdds DEF WorldAxioms, ChalkCovenant, Makes, MakesEach
  <2>2. [out |-> "chalk_white_impure", needs |-> {} \cup {"mixing_cauldron"}] \in Authored(axioms)
    BY <2>1, RuleAuthors
  <2> QED
    BY <1>5, <2>2
<1>6. CASE p = <<"patient_alchemist", "amethyst_preparation", {}>>
  <2>1. Rule("make", {"amethyst_preparation"}, {}) \in axioms
    BY <1>6 DEF WorldAxioms, PatientAlchemist, Makes, MakesEach
  <2>2. [out |-> "amethyst_preparation", needs |-> {}] \in Authored(axioms)
    BY <2>1, RuleAuthors
  <2> QED
    BY <1>6, <2>2
<1> QED
  BY <1>1, <1>2, <1>3, <1>4, <1>5, <1>6 DEF PerkRoutes

\* The altar keeps its own recipe, and its copy is queued with the perk.
AltarOpens ==
    Loaded /\ "spirit_awakening" \in Perks(world) =>
        \E q \in queued : q.out = "spirit_altar" /\ "blankslate" \notin q.needs

\* The gate of the altar.
LEMMA AltarGate ==
    ASSUME NEW w
    PROVE  \E r \in Of(LoadOrder(w)[9], {"require"}) :
              r.outs = {"spirit_altar"} /\ r.from = "recipes" /\ r.needs = {"blankslate"}
<1> DEFINE r == Requires({"spirit_altar"}, {"blankslate"})
<1>1. r \in LoadOrder(w)[9]
  BY PlacesInOrder DEF SlateGates
<1>2. /\ r.kind = "require" /\ r.outs = {"spirit_altar"}
      /\ r.from = "recipes" /\ r.needs = {"blankslate"}
  BY DEF Requires, Rule
<1> QED
  BY <1>1, <1>2 DEF Of

\* When the perks run they find the altar's recipe, with its slate.
LEMMA AltarStands ==
    ASSUME Loading, History, ScriptsStand, ran >= 9
    PROVE  \E n \in native :
              n.out = "spirit_altar" /\ n.from = "recipes" /\ "blankslate" \in n.needs
<1>1. scripts = LoadOrder(world) /\ 9 \in 1 .. ran
  BY WorldOfPack DEF Loading
<1>2. PICK n \in native : n.out = "spirit_altar" /\ n.from = "recipes"
  BY NativeStands DEF Standing
<1>3. PICK r \in Of(scripts[9], {"require"}) :
         r.outs = {"spirit_altar"} /\ r.from = "recipes" /\ r.needs = {"blankslate"}
  BY <1>1, AltarGate
<1>4. r \in Of(scripts[9], {"remove", "remake", "require"}) /\ IsAbout(r, n)
  BY <1>2, <1>3 DEF Of, IsAbout
<1>5. r.needs \subseteq n.needs
  BY <1>1, <1>4 DEF ScriptsStand
<1> QED
  BY <1>2, <1>3, <1>5

\* The perks are the last script; they find the altar's recipe and copy it.
LEMMA AltarOpensStep ==
    ASSUME Loading, Loading', History, ScriptsStand, AltarOpens, [Next]_vars
    PROVE  AltarOpens'
<1>1. CASE RunScript
  <2>1. SUFFICES ASSUME Loaded', "spirit_awakening" \in Perks(world)
                 PROVE  \E q \in queued' : q.out = "spirit_altar" /\ "blankslate" \notin q.needs
    BY <1>1 DEF AltarOpens, RunScript, server
  <2> DEFINE rules == scripts[ran + 1]
             c == Copies("spirit_altar", "blankslate")
  <2>2. ran = 42 /\ rules = WorldAxioms(world.parts, Perks(world))
    <3>1. ran \in Nat /\ ran' = ran + 1 /\ scripts' = scripts /\ Len(scripts) = 43
      BY <1>1, WorldOfPack DEF Loading, RunScript, server
    <3>2. ran + 1 = 43
      BY <2>1, <3>1 DEF Loaded
    <3> QED
      BY <3>1, <3>2, WorldOfPack, OrderOfScripts
  <2>3. c \in rules
    BY <2>1, <2>2 DEF WorldAxioms, SpiritAwakening
  <2>4. /\ c.kind = "copy" /\ c.outs = {"spirit_altar"} /\ c.from = "recipes"
        /\ c.spare = {"blankslate"}
    BY DEF Copies, Rule
  <2>5. PICK n \in native :
           n.out = "spirit_altar" /\ n.from = "recipes" /\ "blankslate" \in n.needs
    BY <2>2, AltarStands
  <2>6. [out |-> n.out, needs |-> n.needs \ c.spare] \in Counterparts(rules, n)
    BY <2>3, <2>4, <2>5 DEF Counterparts, Of, IsAbout
  <2>7. [out |-> n.out, needs |-> n.needs \ c.spare] \in queued'
    BY <1>1, <2>6 DEF RunScript, QueuedBy
  <2> QED
    BY <2>4, <2>5, <2>7
<1>2. CASE UNCHANGED <<world, scripts, ran, queued>>
  BY <1>2 DEF AltarOpens, Loaded
<1>3. Craft \/ Visit \/ UNCHANGED vars => UNCHANGED <<world, scripts, ran, queued>>
  BY DEF Craft, Visit, vars, server
<1> QED
  BY <1>1, <1>2, <1>3 DEF Next

\* Wherever the spirit awakening is selected the altar is had without its slate.
LEMMA AlwaysAltarOpens == Spec => []AltarOpens
<1>1. Init => AltarOpens
  <2>1. Init => Loading /\ ran = 0 /\ scripts = Scripts[world]
    BY LoadingInit DEF Init
  <2>2. Init => ~Loaded
    BY <2>1, WorldOfPack DEF Loaded
  <2> QED
    BY <2>2 DEF AltarOpens
<1> QED
  BY <1>1, AltarOpensStep, AlwaysLoading, AlwaysHistory, PackDecisionsStand, PTL DEF Spec

\* PerksAsPaid: in every world whose perks were paid for, with any of them,
\* each has its effect if it was paid for and not otherwise.
THEOREM PackPerksAsPaid ==
    ASSUME Truthful
    PROVE  Spec => []PerksAsPaid
<1>1. ASSUME Loading, History, Loaded, NEW p \in PerkRoutes, p[1] \notin world.paid
      PROVE  ~ \E r \in Routes : r.out = p[2] /\ r.needs \cap p[3] = {}
  <2>1. Seal({p[2]}, p[3]) \in WorldSeals(world)
    BY <1>1 DEF WorldSeals
  <2>2. Sealed(world, {p[2]}, p[3])
    BY <1>1, <2>1, WorldOfPack, WorldSealed DEF Seal
  <2> QED
    BY <1>1, <2>2, SealedIsGuarded DEF Guarded
<1>2. ASSUME Loading, History, AltarOpens, Loaded, NEW p \in PerkRoutes, p[1] \in world.paid
      PROVE  \E r \in Routes : r.out = p[2] /\ r.needs \cap p[3] = {}
  <2>1. world.paid = Perks(world) /\ scripts = LoadOrder(world)
    BY <1>2, WorldOfPack DEF Truthful
  <2>2. ran = 43 /\ scripts[43] = WorldAxioms(world.parts, Perks(world))
    BY <1>2, <2>1, WorldOfPack, OrderOfScripts DEF Loaded
  <2>3. CASE p[1] = "spirit_awakening"
    <3>1. p[2] = "spirit_altar" /\ p[3] = {"blankslate"}
      BY <2>3, SMTT(30) DEF PerkRoutes
    <3> QED
      BY <1>2, <2>1, <2>3, <3>1 DEF AltarOpens, Routes
  <2>4. CASE p[1] # "spirit_awakening"
    <3>1. p[1] \in Perks(world)
      BY <1>2, <2>1
    <3>2. \E r \in Authored(WorldAxioms(world.parts, Perks(world))) :
              r.out = p[2] /\ r.needs \cap p[3] = {}
      BY <2>4, <3>1, PerksWriteRoutes
    <3>3. Authored(WorldAxioms(world.parts, Perks(world))) \subseteq queued
      BY <1>2, <2>2 DEF History
    <3> QED
      BY <3>2, <3>3 DEF Routes
  <2> QED
    BY <2>3, <2>4
<1>3. Loading /\ History /\ AltarOpens => PerksAsPaid
  BY <1>1, <1>2 DEF PerksAsPaid
<1> QED
  BY <1>3, AlwaysLoading, AlwaysHistory, AlwaysAltarOpens, PTL

-----------------------------------------------------------------------------
(* Goods that suffice: from what is found and the recipes that stand, the  *)
(* scripts lead to all goods, one era after another.                       *)

\* Who has what a rule needs has what it makes.
Closes(rules, H) ==
    \A r \in rules : r.kind \in {"make", "remake"} /\ r.needs \subseteq H => r.outs \subseteq H

\* Goods that suffice for all that follows from them, in a world of the pack.
Sufficient(parts, H) ==
    /\ PackHome \subseteq H
    /\ \A s \in DOMAIN PackFinds : PackFinds[s] \subseteq H
    /\ Standing \subseteq H
    /\ \A i \in 1 .. 42 : Closes(Ordinary(parts)[i], H)
    /\ \A r \in PackKept : r.needs \subseteq H => r.out \in H

\* The shape of all rules but amendments, copies and removals by origin.
IsRule(r) == r = Rule(r.kind, r.outs, r.needs)

LEMMA RulesAre == \A kind, outs, needs : IsRule(Rule(kind, outs, needs))
BY DEF IsRule, Rule

\* Who has the machine needs no more for its rules than they say without it.
LEMMA ClosesVia ==
    ASSUME NEW H, NEW machine, NEW R, NEW rules, Closes(rules, H), machine \subseteq H,
           Via(machine, R) \subseteq rules, \A r \in R : IsRule(r)
    PROVE  Closes(R, H)
<1> SUFFICES ASSUME NEW r \in R, r.kind \in {"make", "remake"}, r.needs \subseteq H
             PROVE  r.outs \subseteq H
  BY DEF Closes
<1> DEFINE q == [r EXCEPT !.needs = @ \cup machine]
<1>1. q \in rules
  BY DEF Via
<1>2. q.kind = r.kind /\ q.outs = r.outs /\ q.needs = r.needs \cup machine
  <2>1. r = [kind |-> r.kind, from |-> "recipes", outs |-> r.outs, needs |-> r.needs,
             spare |-> {}]
    BY DEF IsRule, Rule
  <2> QED
    BY <2>1
<1> QED
  BY <1>1, <1>2 DEF Closes

\* Every script closes what suffices.
LEMMA ScriptsClose ==
    ASSUME NEW parts, NEW H, Sufficient(parts, H)
    PROVE  /\ Closes(ProtectionPixel(parts), H) /\ Closes(ArsBooks(parts), H)
           /\ Closes(TomeOfBlood(parts), H) /\ Closes(BackpackUtilities(parts), H)
           /\ Closes(TaCZ(parts), H) /\ Closes(Hexerei(parts), H)
           /\ Closes(DragonReplacements(parts), H) /\ Closes(PrimitiveWorkshop(parts), H)
           /\ Closes(HandWorkshop(parts), H) /\ Closes(MeteorLogistics(parts), H)
           /\ Closes(PoweredWorks(parts), H) /\ Closes(RatArcheology(parts), H)
           /\ Closes(PrecisionFactory(parts), H) /\ Closes(ThermalPressure(parts), H)
           /\ Closes(AcidChemistry(parts), H) /\ Closes(Polymers(parts), H)
           /\ Closes(ElectricalControl(parts), H) /\ Closes(PowerGridCutting(parts), H)
           /\ Closes(TransitionComponents(parts), H) /\ Closes(TechPalette(parts), H)
           /\ Closes(PneumaticProgression(parts), H) /\ Closes(PneumaticAcquisition(parts), H)
           /\ Closes(StationCrafting(parts), H) /\ Closes(FontEcology(parts), H)
           /\ Closes(DimensionTransport(parts), H) /\ Closes(RailBeetles(parts), H)
           /\ Closes(MobilityGates(parts), H) /\ Closes(Policy(parts), H)
<1>1. \A i \in 1 .. 42 : Closes(Ordinary(parts)[i], H)
  BY DEF Sufficient
<1> HIDE DEF Closes, Sufficient
<1> QED
  BY <1>1 DEF Ordinary

\* The goods of each era follow from those before it.
LEMMA GoodsFound ==
    ASSUME NEW parts, NEW H, Sufficient(parts, H)
    PROVE  FoundGoods \subseteq H
<1>1. /\ PackFinds.gabbro \subseteq H /\ PackFinds.slate \subseteq H
      /\ PackFinds.nether \subseteq H /\ PackFinds.aether \subseteq H
      /\ PackFinds.bumblezone \subseteq H /\ PackFinds.meteor \subseteq H
      /\ PackFinds.altar \subseteq H /\ PackHome \subseteq H
  BY DEF Sufficient, PackFinds
<1> QED
  BY <1>1 DEF PackFinds, PackHome, FoundGoods

\* What is made by hand.
LEMMA HandGoodsMade ==
    ASSUME NEW parts, NEW H, Sufficient(parts, H)
    PROVE  HandGoods \subseteq H
<1> USE DEF Makes, MakesEach, Remakes, RemakesEach
<1>1. Closes(HandWorkshop(parts), H) /\ {"gabbro", "slate"} \subseteq H
  BY ScriptsClose, GoodsFound DEF FoundGoods
<1>2. {"refractory_compound", "seared_brick"} \subseteq H
  <2> DEFINE p == <<"gabbro", "slate">>
  <2>1. p \in {q \in Families \X Families : q[1] # q[2]} /\ p[1] = "gabbro" /\ p[2] = "slate"
    BY DEF Families
  <2> HIDE DEF p
  <2>2. Makes("refractory_compound", {"gabbro", "slate"}) \in Refractory
    BY <2>1 DEF Refractory
  <2>3. Closes({Makes("refractory_compound", {"gabbro", "slate"}),
                Makes("seared_brick", {"refractory_compound"})}, H)
    BY <1>1, <2>2 DEF HandWorkshop, Refractory, Closes
  <2> QED
    BY <1>1, <2>3 DEF Closes, Rule
<1> DEFINE cast == {Remakes("andesite_alloy", {}), Makes("molten_andesite_alloy", {}),
                    Makes("andesite_alloy", {"molten_andesite_alloy"})}
<1>3. Closes(cast, H)
  <2>1. Foundry \subseteq H /\ Via(Foundry, cast) \subseteq HandWorkshop(parts)
    BY <1>2 DEF Foundry, HandWorkshop
  <2>2. \A r \in cast : IsRule(r)
    BY RulesAre
  <2> QED
    BY <1>1, <2>1, <2>2, ClosesVia
<1> QED
  BY <1>2, <1>3 DEF HandGoods, Closes, Rule

\* What the workshop makes of it.
LEMMA WorkshopGoodsMade ==
    ASSUME NEW parts, NEW H, Sufficient(parts, H)
    PROVE  WorkshopGoods \subseteq H
<1> USE DEF Makes, MakesEach, Remakes, RemakesEach
<1>1. Closes(PoweredWorks(parts), H) /\ {"nether_brick", "skyroot_log"} \subseteq H
  BY ScriptsClose, GoodsFound DEF FoundGoods
<1>2. /\ Closes(IronWorkshop(parts), H) /\ Closes(SkyrootRoots(parts), H)
      /\ Closes({MillstoneRoot,
                 Remakes("mechanical_press", {"shaft", "andesite_machine_block"}),
                 Remakes("mechanical_mixer", {"shaft", "whisk"}),
                 Remakes("propeller", {"shaft"})}, H)
  BY <1>1 DEF PoweredWorks, PoweredMachines, Closes
<1>3. WorkshopGoods \ {"copper_casing", "copper_machine_block"} \subseteq H
  BY <1>1, <1>2 DEF WorkshopGoods, Closes, IronWorkshop, SkyrootRoots, WaterWheel,
     MillstoneRoot, Rule
<1>4. Closes({Remakes("copper_casing", {}),
              Makes("copper_machine_block", {"andesite_machine_block", "copper_casing"})}, H)
  BY <1>1, <1>3, RulesAre, ClosesVia DEF PoweredWorks, PoweredMachines, Compactor,
     WorkshopGoods
<1> QED
  BY <1>3, <1>4 DEF WorkshopGoods, Closes, Rule

\* Brass, and what it opens.
LEMMA BrassGoodsMade ==
    ASSUME NEW parts, NEW H, Sufficient(parts, H)
    PROVE  BrassGoods \subseteq H
<1> USE DEF Makes, MakesEach, Remakes, RemakesEach
<1> DEFINE kept == {"electron_tube", "blaze_powder", "honey_bottle", "sky_dust", "netherite_helmet",
                    "netherite_chestplate", "netherite_leggings", "netherite_boots",
                    "brass_ingot"}
<1>1. /\ Closes(PrecisionFactory(parts), H)
      /\ FoundGoods \subseteq H /\ HandGoods \subseteq H /\ WorkshopGoods \subseteq H
  BY ScriptsClose, GoodsFound, HandGoodsMade, WorkshopGoodsMade
<1>2. {"rose_quartz"} \subseteq H /\ \A r \in PackKept : r.needs \subseteq H => r.out \in H
  BY DEF Sufficient, Standing
<1>3. kept \subseteq H
  <2>1. \A piece \in {"netherite_helmet", "netherite_chestplate", "netherite_leggings",
                      "netherite_boots"} : Route(piece, {"netherite_ingot"}) \in PackKept
    BY DEF PackKept
  <2>2. /\ Route("electron_tube", {"rose_quartz"}) \in PackKept
        /\ Route("blaze_powder", {"blaze_rod"}) \in PackKept
        /\ Route("honey_bottle", {}) \in PackKept
        /\ Route("sky_dust", {"sky_stone_block"}) \in PackKept
        /\ Route("brass_ingot", {"seared_brick"}) \in PackKept
    BY DEF PackKept
  <2> QED
    BY <1>1, <1>2, <2>1, <2>2 DEF Route, FoundGoods, HandGoods
<1>4. Closes({Remakes("brass_casing", {"brass_ingot"}),
              Makes("brass_machine_block",
                    {"copper_machine_block", "brass_casing", "brass_ingot",
                     "electron_tube", "rose_quartz"})}, H)
  BY <1>1, RulesAre, ClosesVia DEF PrecisionFactory, Compactor, WorkshopGoods
<1>5. {"brass_casing", "brass_machine_block"} \subseteq H
  BY <1>1, <1>2, <1>3, <1>4 DEF Closes, WorkshopGoods, Rule
<1>6. Closes({Remakes("deployer", {"electron_tube", "brass_casing"}),
              Remakes("mechanical_crafter",
                      {"electron_tube", "brass_casing", "andesite_alloy"}),
              Remakes("steam_engine", {"andesite_alloy", "precision_mechanism"})}, H)
  BY <1>1 DEF PrecisionFactory, Closes
<1>7. {"deployer", "mechanical_crafter"} \subseteq H
  BY <1>1, <1>3, <1>5, <1>6 DEF Closes, HandGoods, Rule
<1>8. {"precision_mechanism", "railway_casing", "integrated_circuit", "electric_motor",
       "battery"} \subseteq H
  <2>1. /\ Route("precision_mechanism", {"deployer", "cogwheel", "large_cogwheel"}) \in PackKept
        /\ Route("railway_casing", {"brass_casing"}) \in PackKept
        /\ Route("integrated_circuit", {"mechanical_crafter", "rose_quartz"}) \in PackKept
        /\ Route("electric_motor", {"mechanical_crafter"}) \in PackKept
        /\ Route("battery", {"deployer"}) \in PackKept
    BY DEF PackKept
  <2> QED
    BY <1>1, <1>2, <1>5, <1>7, <2>1 DEF Route, WorkshopGoods
<1>9. "steam_engine" \in H
  BY <1>1, <1>6, <1>8 DEF Closes, HandGoods, Rule
<1> QED
  BY <1>2, <1>3, <1>5, <1>7, <1>8, <1>9 DEF BrassGoods

\* What steel and pressure make.
LEMMA PressureGoodsMade ==
    ASSUME NEW parts, NEW H, Sufficient(parts, H)
    PROVE  PressureGoods \subseteq H
<1> USE DEF Makes, MakesEach, Remakes, RemakesEach
<1>1. /\ Closes(ThermalPressure(parts), H) /\ Closes(PneumaticProgression(parts), H)
      /\ Closes(FontEcology(parts), H)
      /\ "magma_cream" \in H /\ WorkshopGoods \subseteq H /\ BrassGoods \subseteq H
  BY ScriptsClose, GoodsFound, WorkshopGoodsMade, BrassGoodsMade DEF FoundGoods
<1>2. /\ Closes({Remakes("pressure_seal", {}),
                 Remakes("pressure_chamber_interface", {"pressure_seal"})}, H)
      /\ Closes({Remakes("air_compressor", {"pressure_seal", "cogwheel"})}, H)
  BY <1>1 DEF ThermalPressure, PneumaticProgression, PneumaticMachines, Closes
<1>3. {"pressure_seal", "pressure_chamber_interface", "air_compressor"} \subseteq H
  BY <1>1, <1>2 DEF Closes, WorkshopGoods, Rule
<1>4. Crafters \subseteq H
  BY <1>1 DEF Crafters, BrassGoods
<1>5. "airtight_machine_block" \in H
  <2> DEFINE block == {Makes("airtight_machine_block", {"pressure_seal", "brass_machine_block"})}
  <2>1. Via(Crafters, block) \subseteq ThermalPressure(parts) /\ \A r \in block : IsRule(r)
    BY RulesAre DEF ThermalPressure, AirtightBlock
  <2>2. Closes(block, H)
    BY <1>1, <1>4, <2>1, ClosesVia
  <2> QED
    BY <1>1, <1>3, <2>2 DEF Closes, BrassGoods, Rule
<1>6. "thermopneumatic_processing_plant" \in H
  <2> DEFINE machine == IF parts THEN Crafters ELSE {}
             plant == {ThermopneumaticPlant,
                       Remakes("boiler_heater", {"magma_cream", "blaze_rod"})}
  <2>1. /\ machine \subseteq H /\ Via(machine, plant) \subseteq FontEcology(parts)
        /\ \A r \in plant : IsRule(r)
    BY <1>4, RulesAre DEF FontEcology, ThermopneumaticPlant
  <2> HIDE DEF machine, plant
  <2>2. Closes(plant, H)
    BY <1>1, <2>1, ClosesVia
  <2> QED
    BY <1>1, <2>2 DEF plant, Closes, ThermopneumaticPlant, Rule
<1> QED
  BY <1>3, <1>5, <1>6 DEF PressureGoods

\* The machines of rules, all of which can be had.
LEMMA MachinesMade ==
    ASSUME NEW parts, NEW H, Sufficient(parts, H)
    PROVE  /\ Mixer \subseteq H /\ Compactor \subseteq H /\ Press \subseteq H
           /\ Crafters \subseteq H /\ Deployer \subseteq H /\ Millstone \subseteq H
           /\ Plant \subseteq H /\ Chamber \subseteq H /\ FluidMixer \subseteq H
BY WorkshopGoodsMade, BrassGoodsMade, PressureGoodsMade
DEF WorkshopGoods, BrassGoods, PressureGoods, Mixer, Compactor, Press, Crafters, Deployer,
    Millstone, Plant, Chamber, FluidMixer

\* What electricity makes.
LEMMA ElectricGoodsMade ==
    ASSUME NEW parts, NEW H, Sufficient(parts, H)
    PROVE  ElectricGoods \subseteq H
<1> USE DEF Makes, MakesEach, Remakes, RemakesEach
<1>1. /\ Closes(ElectricalControl(parts), H) /\ Closes(TechPalette(parts), H)
      /\ Closes(PneumaticAcquisition(parts), H)
      /\ FoundGoods \subseteq H /\ WorkshopGoods \subseteq H /\ BrassGoods \subseteq H
      /\ PressureGoods \subseteq H /\ Deployer \subseteq H /\ Chamber \subseteq H
  BY ScriptsClose, GoodsFound, WorkshopGoodsMade, BrassGoodsMade, PressureGoodsMade,
     MachinesMade
<1>2. "conductive_casing" \in H
  <2> DEFINE red == IF parts THEN "conductive_casing_blank" ELSE "conductive_casing"
             casing ==
          {Makes(red, {"copper_casing"})} \cup
          (IF parts THEN {Makes("conductive_casing", {"conductive_casing_blank"})} ELSE {})
  <2>1. Via(Deployer, casing) \subseteq ElectricalControl(parts) /\ \A r \in casing : IsRule(r)
    BY RulesAre DEF ElectricalControl, ConductiveCasing
  <2>2. Closes(casing, H)
    BY <1>1, <2>1, ClosesVia
  <2>3. Closes({Makes(red, {"copper_casing"})}, H)
    BY <2>2 DEF Closes
  <2>4. CASE parts
    <3>1. Closes({Makes("conductive_casing", {"conductive_casing_blank"})}, H)
      BY <2>2, <2>4 DEF Closes
    <3> QED
      BY <1>1, <2>3, <2>4, <3>1 DEF Closes, WorkshopGoods, Rule
  <2>5. CASE ~parts
    BY <1>1, <2>3, <2>5 DEF Closes, WorkshopGoods, Rule
  <2> QED
    BY <2>4, <2>5
<1>3. {"electrical_machine_block", "generator_housing", "vertical_generator_housing"} \subseteq H
  <2> DEFINE block == {Makes("electrical_machine_block",
                          {"airtight_machine_block", "conductive_casing", "electron_tube"})}
             housing == {Makes("generator_housing", {"conductive_casing", "electron_tube"})}
  <2>1. /\ Via(Chamber, block) \subseteq ElectricalControl(parts) /\ \A r \in block : IsRule(r)
        /\ Via(Chamber, housing) \subseteq ElectricalControl(parts) /\ \A r \in housing : IsRule(r)
    BY RulesAre DEF ElectricalControl, ElectricalBlock, GeneratorHousing
  <2>2. Closes(block, H) /\ Closes(housing, H)
    BY <1>1, <2>1, ClosesVia
  <2>3. Closes({Makes("vertical_generator_housing", {"generator_housing"})}, H)
    BY <1>1 DEF ElectricalControl, GeneratorHousing, Closes
  <2> QED
    BY <1>1, <1>2, <2>2, <2>3 DEF Closes, BrassGoods, PressureGoods, Rule
<1>4. {"logic_processor", "engineering_processor", "controller", "quartz_glass"} \subseteq H
  <2> DEFINE processors == {RemakesEach({"logic_processor", "engineering_processor"},
                                        {"electron_tube", "integrated_circuit"})}
             meteor == {Remakes("controller",
                           {"sky_stone_block", "charged_certus_quartz_crystal",
                            "engineering_processor", "integrated_circuit", "electron_tube"})}
  <2>1. /\ Via(Chamber, processors) \subseteq TechPalette(parts) /\ \A r \in processors : IsRule(r)
        /\ Via(Chamber, meteor) \subseteq TechPalette(parts) /\ \A r \in meteor : IsRule(r)
    BY RulesAre DEF TechPalette, MeteorController
  <2>2. Closes(processors, H) /\ Closes(meteor, H)
    BY <1>1, <2>1, ClosesVia
  <2>3. Closes({Remakes("quartz_glass", {"certus_quartz_crystal", "electron_tube"})}, H)
    BY <1>1 DEF TechPalette, Closes
  <2> QED
    BY <1>1, <2>2, <2>3 DEF Closes, FoundGoods, BrassGoods, Rule
<1>5. {"pcb_blueprint", "assembly_program_laser"} \subseteq H
  <2> DEFINE print == {Makes("pcb_blueprint", {"electron_tube", "brass_ingot"})}
             laser == {Makes("assembly_program_laser",
                             {"precision_mechanism", "electron_tube", "brass_ingot"}),
                       Makes("assembly_program_drill", {"precision_mechanism"})}
  <2>1. /\ Via(Chamber, print) \subseteq PneumaticAcquisition(parts) /\ \A r \in print : IsRule(r)
        /\ Via(Chamber, laser) \subseteq PneumaticAcquisition(parts) /\ \A r \in laser : IsRule(r)
    BY RulesAre DEF PneumaticAcquisition, Blueprint
  <2>2. Closes(print, H) /\ Closes(laser, H)
    BY <1>1, <2>1, ClosesVia
  <2> QED
    BY <1>1, <2>2 DEF Closes, BrassGoods, Rule
<1> QED
  BY <1>2, <1>3, <1>4, <1>5 DEF ElectricGoods

\* What acids make.
LEMMA AcidGoodsMade ==
    ASSUME NEW parts, NEW H, Sufficient(parts, H)
    PROVE  AcidGoods \subseteq H
<1> USE DEF Makes, MakesEach, Remakes, RemakesEach
<1>1. /\ Closes(AcidChemistry(parts), H) /\ "quartz" \in H /\ ElectricGoods \subseteq H
      /\ Mixer \subseteq H /\ Plant \subseteq H /\ Chamber \subseteq H /\ FluidMixer \subseteq H
  BY ScriptsClose, GoodsFound, ElectricGoodsMade, MachinesMade DEF FoundGoods
<1>2. {"ethanol_fluid", "sodium_chloride", "cellulose", "acetic_acid_fluid",
       "acetate_membrane"} \subseteq H
  <2> DEFINE salts ==
          {MakesEach({"ethanol_fluid", "carbon_dioxide", "sodium_chloride",
                      "potassium_chloride", "cellulose"}, {}),
           Makes("acetic_acid_fluid", {"ethanol_fluid"}),
           Makes("acetate_membrane", {"cellulose", "acetic_acid_fluid"})}
  <2>1. Via(Mixer, salts) \subseteq AcidChemistry(parts) /\ \A r \in salts : IsRule(r)
    BY RulesAre DEF AcidChemistry, SaltsAndVinegar
  <2>2. Closes(salts, H)
    BY <1>1, <2>1, ClosesVia
  <2> QED
    BY <2>2 DEF Closes, Rule
<1>3. {"vanadium_contact_catalyst", "oxygen_fluid", "sulfur_dioxide_fluid",
       "oxygenated_vanadium_contact_catalyst", "sulfur_trioxide_fluid",
       "sulfuric_acid_fluid"} \subseteq H
  <2> DEFINE vanadium == {Makes("vanadium_contact_catalyst", {"quartz"})}
             mixed == {MakesEach({"oxygen_fluid", "hydrogen"}, {}),
                       Makes("sulfuric_acid_fluid", {"sulfur_trioxide_fluid"})}
             oxides ==
                 {Makes("sulfur_dioxide_fluid", {"oxygen_fluid"}),
                  Makes("oxygenated_vanadium_contact_catalyst",
                        {"vanadium_contact_catalyst", "oxygen_fluid"}),
                  MakesEach({"sulfur_trioxide_fluid", "vanadium_contact_catalyst"},
                            {"oxygenated_vanadium_contact_catalyst", "sulfur_dioxide_fluid"})}
  <2>1. /\ Via(Chamber, vanadium) \subseteq AcidChemistry(parts)
        /\ Via(FluidMixer, mixed) \subseteq AcidChemistry(parts)
        /\ Via(Plant, oxides) \subseteq AcidChemistry(parts)
    BY DEF AcidChemistry, SulfuricAcid
  <2>2. /\ \A r \in vanadium : IsRule(r)
        /\ \A r \in mixed : IsRule(r)
        /\ \A r \in oxides : IsRule(r)
    BY RulesAre
  <2>3. Closes(vanadium, H) /\ Closes(mixed, H) /\ Closes(oxides, H)
    BY <1>1, <2>1, <2>2, ClosesVia
  <2> QED
    BY <1>1, <2>3 DEF Closes, Rule
<1>4. {"hydrochloric_acid_fluid", "nitric_acid_fluid"} \subseteq H
  <2> DEFINE acids ==
          {MakesEach({"hydrochloric_acid_fluid", "sodium_sulfate"},
                     {"sodium_chloride", "sulfuric_acid_fluid"}),
           MakesEach({"nitric_acid_fluid", "potassium_sulfate"}, {"sulfuric_acid_fluid"})}
  <2>1. Via(Plant, acids) \subseteq AcidChemistry(parts) /\ \A r \in acids : IsRule(r)
    BY RulesAre DEF AcidChemistry
  <2>2. Closes(acids, H)
    BY <1>1, <2>1, ClosesVia
  <2> QED
    BY <1>2, <1>3, <2>2 DEF Closes, Rule
<1>5. {"plastic", "printed_circuit_board"} \subseteq H
  <2>1. /\ Route("plastic", Plant) \in PackKept
        /\ Route("printed_circuit_board", {"pcb_blueprint", "nitric_acid_fluid"}) \in PackKept
    BY DEF PackKept
  <2>2. \A r \in PackKept : r.needs \subseteq H => r.out \in H
    BY DEF Sufficient
  <2> QED
    BY <1>1, <1>4, <2>1, <2>2 DEF Route, ElectricGoods
<1> QED
  BY <1>2, <1>3, <1>4, <1>5 DEF AcidGoods

\* What the components between the eras are made of is there by then.
LEMMA TransitionGoodsMade ==
    ASSUME NEW parts, NEW H, Sufficient(parts, H)
    PROVE  TransitionGoods \subseteq H
<1> USE DEF Makes, MakesEach, Remakes, RemakesEach
<1> DEFINE script == TransitionComponents(parts)
<1>1. /\ Closes(script, H) /\ FoundGoods \subseteq H /\ BrassGoods \subseteq H
      /\ ElectricGoods \subseteq H /\ AcidGoods \subseteq H
      /\ Mixer \subseteq H /\ Compactor \subseteq H /\ Press \subseteq H
      /\ Chamber \subseteq H /\ Millstone \subseteq H
  BY ScriptsClose, GoodsFound, BrassGoodsMade, ElectricGoodsMade, AcidGoodsMade,
     MachinesMade
<1> DEFINE modules ==
        {Makes("electrical_control_module",
               {"integrated_circuit", "battery", "printed_circuit_board"}),
         Makes("electrical_instrumentation_module",
               {"integrated_circuit", "printed_circuit_board", "blaze_rod"}),
         Makes("ae_logic_package",
               {"sky_steel_sheet", "logic_processor", "electrical_control_module",
                "blaze_rod"})}
           alloy == {Makes("sky_steel_ingot", {"steel_ingot", "sky_dust", "fluix_crystal"})}
           sheet == {Makes("sky_steel_sheet", {"sky_steel_ingot"})}
           grit == {Makes("corundum_lapping_grit", {})}
           pressed == {Makes("kimberlite_diamond_seed", {}),
                       Makes("tungsten_carbide_insert", {"steel_ingot"})}
           residues ==
               {Makes("platinum_group_residue",
                      {"hydrochloric_acid_fluid", "nitric_acid_fluid"}),
                Makes("soulstone_carbon_matrix", {"soul_sand", "demonslate"})}
           plate == {Makes("titanium_thermal_plate", {"titanium_ingot"})}
<1>2. /\ Via(Chamber, modules) \subseteq script /\ Via(Mixer, alloy) \subseteq script
      /\ Via(Press, sheet) \subseteq script /\ Via(Millstone, grit) \subseteq script
      /\ Via(Compactor, pressed) \subseteq script /\ Via(Mixer, residues) \subseteq script
      /\ Via(Press, plate) \subseteq script
  BY DEF TransitionComponents, ControlModules, GeologyComponents
<1>3. \A r \in modules \cup alloy \cup sheet \cup grit \cup pressed \cup residues \cup plate :
          IsRule(r)
  BY RulesAre
<1>4. /\ Closes(modules, H) /\ Closes(alloy, H) /\ Closes(sheet, H) /\ Closes(grit, H)
      /\ Closes(pressed, H) /\ Closes(residues, H) /\ Closes(plate, H)
  <2> HIDE DEF modules, alloy, sheet, grit, pressed, residues, plate
  <2> QED
    BY <1>1, <1>2, <1>3, ClosesVia
<1>5. /\ Closes(ImpossibleMatter, H)
      /\ Closes({Makes("steel_ingot", {}),
                 Makes("brass_utility_assembly",
                       {"brass_ingot", "electron_tube", "brass_casing",
                        "precision_mechanism"}),
                 Makes("mountain_beryl_lens", {"corundum_lapping_grit"})}, H)
  BY <1>1 DEF TransitionComponents, ControlModules, GeologyComponents, Closes
<1>6. {"steel_ingot", "brass_utility_assembly", "sky_steel_ingot", "sky_steel_sheet",
       "corundum_lapping_grit", "mountain_beryl_lens"} \subseteq H
  BY <1>1, <1>4, <1>5 DEF Closes, FoundGoods, BrassGoods, Rule
<1>7. {"kimberlite_diamond_seed", "tungsten_carbide_insert", "platinum_group_residue",
       "soulstone_carbon_matrix", "titanium_thermal_plate",
       "impossible_support_matrix"} \subseteq H
  BY <1>1, <1>4, <1>5, <1>6 DEF Closes, FoundGoods, AcidGoods, ImpossibleMatter, Rule
<1>8. {"electrical_control_module", "electrical_instrumentation_module",
       "ae_logic_package"} \subseteq H
  BY <1>1, <1>4, <1>6 DEF Closes, FoundGoods, BrassGoods, ElectricGoods, AcidGoods, Rule
<1> QED
  BY <1>6, <1>7, <1>8 DEF TransitionGoods

\* Crafts that a script builds on what it has made before.
LEMMA CraftGoodsMade ==
    ASSUME NEW parts, NEW H, Sufficient(parts, H)
    PROVE  CraftGoods \subseteq H
<1> USE DEF Makes, MakesEach, Remakes, RemakesEach
<1>1. /\ FoundGoods \subseteq H /\ HandGoods \subseteq H /\ WorkshopGoods \subseteq H
      /\ BrassGoods \subseteq H /\ ElectricGoods \subseteq H /\ AcidGoods \subseteq H
      /\ TransitionGoods \subseteq H
  BY GoodsFound, HandGoodsMade, WorkshopGoodsMade, BrassGoodsMade, ElectricGoodsMade,
     AcidGoodsMade, TransitionGoodsMade
<1>2. {"novice_spell_book", "apprentice_spell_book"} \subseteq H
  BY <1>1, ScriptsClose DEF ArsBooks, Closes, HandGoods, Rule
<1>3. {"mixing_cauldron", "moon_dust", "chalk_white_impure"} \subseteq H
  <2> DEFINE wares ==
          {Remakes("moon_dust", {"ambrosium_shard", "zanite_gemstone"}),
           Remakes("infused_fabric", {}),
           Remakes("blood_sigil", {"magma_cream", "blaze_powder", "nether_brick"}),
           Remakes("crystal_ball", {"moon_dust"})}
             chalk ==
          {Remakes("chalk_white_impure", FontProof),
           RemakesEach({"chalk_gold_impure", "chalk_purple_impure", "chalk_red_impure"},
                       FontProof \cup {"chalk_white_impure"})}
  <2>1. Closes(Hexerei(parts), H)
    BY ScriptsClose
  <2>2. Closes({Remakes("mixing_cauldron", {})}, H)
    BY <2>1 DEF Hexerei, CauldronWares, Closes
  <2>3. Cauldron \subseteq H
    BY <2>2 DEF Cauldron, Closes, Rule
  <2>4. Via(Cauldron, wares) \subseteq Hexerei(parts) /\ \A r \in wares : IsRule(r)
    BY RulesAre DEF Hexerei, CauldronWares
  <2>5. Via(Cauldron, chalk) \subseteq Hexerei(parts) /\ \A r \in chalk : IsRule(r)
    BY RulesAre DEF Hexerei, Chalk
  <2>6. Closes(wares, H) /\ Closes(chalk, H)
    <3> HIDE DEF wares, chalk
    <3> QED
      BY <2>1, <2>3, <2>4, <2>5, ClosesVia
  <2> QED
    BY <1>1, <2>3, <2>6 DEF Cauldron, FontProof, Closes, FoundGoods, BrassGoods, Rule
<1>4. {"string", "chute", "archeologist_hat", "crafting_station"} \subseteq H
  BY ScriptsClose DEF PrimitiveWorkshop, RatArcheology, StationCrafting, Closes, Rule
<1>5. {"canvas_collar", "iron_collar", "seater_car"} \subseteq H
  <2>1. Closes({RemakesEach({"seater_car", "chest_car"}, {"crimson_planks"}),
                Makes("canvas_collar", {"string"}),
                Makes("iron_collar", {"canvas_collar"})}, H)
    BY ScriptsClose DEF DimensionTransport, Closes
  <2> QED
    BY <1>1, <1>4, <2>1 DEF Closes, FoundGoods, Rule
<1>6. "elytra" \in H
  <2> DEFINE wings == {Remakes("elytra", {})}
  <2>1. Via(Crafters, wings) \subseteq DragonReplacements(parts) /\ \A r \in wings : IsRule(r)
    BY RulesAre DEF DragonReplacements
  <2>2. Closes(wings, H)
    BY <2>1, ScriptsClose, MachinesMade, ClosesVia
  <2> QED
    BY <2>2 DEF Closes, Rule
<1>7. {"wood_chain", "diamond_chain", "jumping_upgrade_3"} \subseteq H
  BY <1>1, ScriptsClose DEF MobilityGates, Hooks, Policy, RemovedItems, PotionReplacements,
     Closes, HandGoods, BrassGoods, Rule
<1>8. {"pipe", "rat_upgrade_basic", "high_retrieval_module"} \subseteq H
  <2> DEFINE modules == {"high_crafting_module", "high_filter_module",
                         "high_high_priority_module", "high_low_priority_module",
                         "high_retrieval_module"}
             settings == {"high_extraction_module", "high_speed_module"}
             machine == IF parts THEN Crafters ELSE {}
             high == {RemakesEach(IF parts THEN modules ELSE modules \cup settings,
                                  {"certus_quartz_crystal"})}
  <2>1. Closes(MeteorLogistics(parts), H) /\ machine \subseteq H
    BY ScriptsClose, MachinesMade
  <2>2. Via(machine, high) \subseteq MeteorLogistics(parts) /\ \A r \in high : IsRule(r)
    BY RulesAre DEF MeteorLogistics, HighModules
  <2>3. Closes(high, H)
    <3> HIDE DEF machine, high
    <3> QED
      BY <2>1, <2>2, ClosesVia
  <2>4. Closes({RemakesEach({"pipe", "hopper_upgrade", "redstone_requester"},
                            {"certus_quartz_crystal"}),
                Remakes("rat_upgrade_basic",
                        {"honey_crystal_shards", "certus_quartz_crystal"})}, H)
    BY <2>1 DEF MeteorLogistics, Closes
  <2> QED
    BY <1>1, <2>3, <2>4 DEF Closes, FoundGoods, Rule
<1>9. "gun_smith_table" \in H
  <2>1. Closes({Remakes("gun_smith_table", {"brass_casing"})}, H)
    BY ScriptsClose DEF TaCZ, Workbenches, Closes
  <2> QED
    BY <1>1, <2>1 DEF Closes, BrassGoods, Rule
<1>10. {"feeding_upgrade", "backpack_alchemy_upgrade", "storage_alchemy_upgrade",
        "tool_swapper_upgrade"} \subseteq H
  <2>1. Closes({Remakes("feeding_upgrade", {"engineering_processor", "ae_logic_package"}),
                RemakesEach({"backpack_alchemy_upgrade", "storage_alchemy_upgrade"},
                            {"etherealslate", "source_gem_block", "engineering_processor"}),
                Remakes("tool_swapper_upgrade",
                        {"sky_steel_sheet", "engineering_processor"})}, H)
    BY ScriptsClose DEF BackpackUtilities, Closes
  <2> QED
    BY <1>1, <2>1 DEF Closes, FoundGoods, ElectricGoods, TransitionGoods, Rule
<1>11. {"purified_blood_catalyst", "purified_source_core", "living_binding",
        "novice_tome_of_blood", "apprentice_tome_of_blood"} \subseteq H
  BY <1>1, ScriptsClose DEF TomeOfBlood, BloodReagents, Closes, FoundGoods, ElectricGoods,
     TransitionGoods, Rule
<1>12. {"amadron_tablet", "drone", "jet_boots_upgrade_3", "jet_boots_upgrade_4"} \subseteq H
  <2> DEFINE drone == {"printed_circuit_board", "plastic", "electric_motor",
                       "precision_mechanism"}
             third == {"blaze_rod", "ghast_tear"}
             fourth == {"jet_boots_upgrade_3", "nether_star"}
  <2>1. Closes(PneumaticProgression(parts), H) /\ Chamber \subseteq H
    BY ScriptsClose, MachinesMade
  <2>2. /\ Rule("remake", {"drone"}, drone \cup Chamber) \in PneumaticProgression(parts)
        /\ Rule("remake", {"jet_boots_upgrade_3"}, third \cup Chamber)
               \in PneumaticProgression(parts)
        /\ Rule("remake", {"jet_boots_upgrade_4"}, fourth \cup Chamber)
               \in PneumaticProgression(parts)
    BY ViaAdds DEF PneumaticProgression, PneumaticMachines, AdvancedUpgrades
  <2>3. Closes({Remakes("amadron_tablet", {"plastic"})}, H)
    BY <2>1 DEF PneumaticProgression, PneumaticMachines, Closes
  <2> QED
    BY <1>1, <2>1, <2>2, <2>3 DEF Closes, FoundGoods, BrassGoods, AcidGoods, Rule
<1> QED
  BY <1>2, <1>3, <1>4, <1>5, <1>6, <1>7, <1>8, <1>9, <1>10, <1>11, <1>12 DEF CraftGoods

\* What armour is made of.
LEMMA ArmourGoodsMade ==
    ASSUME NEW parts, NEW H, Sufficient(parts, H)
    PROVE  ArmourGoods \subseteq H
<1> USE DEF Makes, MakesEach, Remakes, RemakesEach
<1> DEFINE script == ProtectionPixel(parts)
           mixed ==
        {Remakes("smallnetheritesheet", {"netherite_ingot", "sky_steel_sheet",
                                         "soulstone_carbon_matrix", "titanium_thermal_plate"}),
         Remakes("reinforcedfiber", {"netherite_scrap", "tungsten_carbide_insert",
                                     "platinum_group_residue", "etherealslate"}),
         Remakes("heatresistantceramicsheet", {"netherite_scrap"})}
           plate == {Remakes("alloyarmorplate",
                             {"smallnetheritesheet", "sky_steel_sheet", "etherealslate",
                              "titanium_thermal_plate"})}
           platform == {"sky_steel_sheet", "alloyarmorplate", "engineering_processor"}
           engine == {"ae_logic_package", "engineering_processor", "alloyarmorplate"}
           heat == {"platinum_group_residue", "ae_logic_package", "powerengine"}
           kit == {"reinforcedfiber", "heatresistantceramicsheet", "alloyarmorplate",
                   "sky_steel_sheet", "powerengine"}
           lined == {"reinforcedfiber", "heatresistantceramicsheet", "alloyarmorplate"}
           plated == {"alloyarmorplate", "ae_logic_package"}
<1>1. /\ FoundGoods \subseteq H /\ BrassGoods \subseteq H /\ ElectricGoods \subseteq H
      /\ TransitionGoods \subseteq H
      /\ Mixer \subseteq H /\ Press \cup Deployer \subseteq H /\ Crafters \subseteq H
      /\ Closes(script, H)
  BY GoodsFound, BrassGoodsMade, ElectricGoodsMade, TransitionGoodsMade, MachinesMade,
     ScriptsClose
<1>2. /\ Via(Mixer, mixed) \subseteq script /\ \A r \in mixed : IsRule(r)
      /\ Via(Press \cup Deployer, plate) \subseteq script /\ \A r \in plate : IsRule(r)
  BY RulesAre DEF ProtectionPixel, ArmourMaterials, Sequence
<1>3. Closes(mixed, H) /\ Closes(plate, H)
  <2> HIDE DEF script, mixed, plate
  <2> QED
    BY <1>1, <1>2, ClosesVia
<1>4. {"smallnetheritesheet", "reinforcedfiber", "heatresistantceramicsheet",
       "alloyarmorplate"} \subseteq H
  BY <1>1, <1>3 DEF Closes, FoundGoods, TransitionGoods, Rule
<1>5. /\ Rule("remake", {"armorloadplatform"}, platform \cup Crafters) \in script
      /\ Rule("remake", {"powerengine"}, engine \cup Crafters) \in script
      /\ Rule("remake", {"heatoverlockingmechanism"}, heat \cup Crafters) \in script
      /\ Rule("remake", {"equipmentkit"}, kit \cup Crafters) \in script
  BY ViaAdds DEF ProtectionPixel, ArmourKits, Mechanical
<1>6. {"armorloadplatform", "powerengine", "heatoverlockingmechanism", "equipmentkit"}
          \subseteq H
  BY <1>1, <1>4, <1>5 DEF Closes, ElectricGoods, TransitionGoods, Rule
<1>7. /\ Rule("remake", {"chestplatelining", "leggingslining"},
              (lined \cup {"ae_logic_package"}) \cup Crafters) \in script
      /\ Rule("remake", {"socks_boots"}, lined \cup Crafters) \in script
      /\ Rule("remake", {"linkplate_helmet"},
              (lined \cup {"ae_logic_package", "netherite_helmet"}) \cup Crafters) \in script
      /\ Rule("remake", {"linkplate_chestplate"},
              (plated \cup {"chestplatelining", "netherite_chestplate"}) \cup Crafters)
             \in script
      /\ Rule("remake", {"linkplate_leggings"},
              (plated \cup {"leggingslining", "netherite_leggings"}) \cup Crafters) \in script
  BY ViaAdds DEF ProtectionPixel, Linings, Mechanical
<1>8. {"chestplatelining", "leggingslining", "socks_boots", "linkplate_helmet",
       "linkplate_chestplate", "linkplate_leggings"} \subseteq H
  BY <1>1, <1>4, <1>7 DEF Closes, BrassGoods, TransitionGoods, Rule
<1> QED
  BY <1>4, <1>6, <1>8 DEF ArmourGoods

\* Polymers, and what they make.
LEMMA PolymerGoodsMade ==
    ASSUME NEW parts, NEW H, Sufficient(parts, H), parts
    PROVE  PolymerGoods \subseteq H
<1> USE DEF Makes, MakesEach, Remakes, RemakesEach
<1> DEFINE script == Polymers(parts)
           cultures == {Makes("sugar_solution", {}), Makes("lactic_culture", {})}
           oxides == {MakesEach({"tin_oxide", "aluminum_oxide"}, {"oxygen_fluid"})}
           catalysts ==
        {Makes("tin_carboxylate_catalyst", {"tin_oxide", "cellulose", "acetic_acid_fluid"}),
         Makes("supported_dehydrogenation_catalyst", {"tin_oxide", "aluminum_oxide"}),
         Makes("coordination_polymerisation_catalyst",
               {"titanium_ingot", "sodium_chloride", "aluminum_oxide", "acetic_acid_fluid"})}
           lactides ==
        {Makes("lactide", {"concentrated_lactic_acid", "tin_carboxylate_catalyst"}),
         Makes("dry_lactide", {"lactide"}),
         Makes("molten_pla", {"dry_lactide", "tin_carboxylate_catalyst"}),
         Makes("pla_stock", {"molten_pla"})}
           propylenes ==
        {MakesEach({"hot_propylene", "hydrogen"},
                   {"propane_fluid", "supported_dehydrogenation_catalyst"}),
         Makes("propylene_stream", {"hot_propylene"}),
         Makes("pp_stock", {"propylene_stream", "coordination_polymerisation_catalyst"}),
         Makes("molten_pp", {"pp_stock"}), Makes("pp_stock", {"molten_pp"})}
<1>1. /\ "titanium_ingot" \in H /\ AcidGoods \subseteq H
      /\ Mixer \subseteq H /\ Plant \subseteq H /\ Closes(script, H)
  BY GoodsFound, AcidGoodsMade, MachinesMade, ScriptsClose DEF FoundGoods
<1>2. /\ Via(Mixer, cultures) \subseteq script /\ Via(Plant, oxides) \subseteq script
      /\ Via(Mixer, catalysts) \subseteq script /\ Via(Plant, lactides) \subseteq script
      /\ Via(Plant, propylenes) \subseteq script
  BY DEF Polymers, PLA, PP, Catalysts
<1>3. \A r \in cultures \cup oxides \cup catalysts \cup lactides \cup propylenes : IsRule(r)
  BY RulesAre
<1>4. /\ Closes(cultures, H) /\ Closes(oxides, H) /\ Closes(catalysts, H)
      /\ Closes(lactides, H) /\ Closes(propylenes, H)
  <2> HIDE DEF script, cultures, oxides, catalysts, lactides, propylenes
  <2> QED
    BY <1>1, <1>2, <1>3, ClosesVia
<1>5. /\ Closes({Makes("lactic_acid_broth", {"sugar_solution", "lactic_culture"}),
                 Makes("concentrated_lactic_acid", {"lactic_acid_broth"})}, H)
      /\ Closes({MakesEach({"butane_fluid", "propane_fluid"}, {})}, H)
  BY <1>1 DEF Polymers, PLA, PP, Closes
<1>6. {"sugar_solution", "lactic_culture", "lactic_acid_broth", "concentrated_lactic_acid",
       "tin_oxide", "aluminum_oxide", "propane_fluid"} \subseteq H
  BY <1>1, <1>4, <1>5 DEF Closes, AcidGoods, Rule
<1>7. {"tin_carboxylate_catalyst", "supported_dehydrogenation_catalyst",
       "coordination_polymerisation_catalyst"} \subseteq H
  BY <1>1, <1>4, <1>6 DEF Closes, AcidGoods, Rule
<1>8. {"lactide", "dry_lactide", "molten_pla", "hot_propylene", "propylene_stream",
       "pp_stock", "molten_pp"} \subseteq H
  BY <1>4, <1>6, <1>7 DEF Closes, Rule
<1> QED
  BY <1>6, <1>7, <1>8 DEF PolymerGoods

\* What the rail beetles need.
LEMMA BeetleGoodsMade ==
    ASSUME NEW parts, NEW H, Sufficient(parts, H)
    PROVE  BeetleGoods \subseteq H /\ (~parts => PlainGoods \subseteq H)
<1> USE DEF Makes, MakesEach, Remakes, RemakesEach
<1>1. /\ Closes(RailBeetles(parts), H)
      /\ "chute" \in H /\ WorkshopGoods \subseteq H /\ BrassGoods \subseteq H
  BY WorkshopGoodsMade, BrassGoodsMade, CraftGoodsMade, ScriptsClose DEF CraftGoods
<1>2. Closes(BeetleFrames(parts), H) /\ Closes(BeetleTierOne(parts), H)
  BY <1>1 DEF RailBeetles, Closes
<1>3. Closes({Makes("engine_cradle", {"brass_ingot", "andesite_casing", "precision_mechanism"}),
              Makes("compact_module_frame", {"brass_ingot", "precision_mechanism"}),
              Makes("dispatch_remote", {"electron_tube", "compact_module_frame"})}, H)
  BY <1>2 DEF BeetleFrames, Closes
<1>4. {"engine_cradle", "compact_module_frame", "dispatch_remote"} \subseteq H
  BY <1>1, <1>3 DEF Closes, WorkshopGoods, BrassGoods, Rule
<1>5. {"telescopic_survey_array_1", "dispatch_receiver_1"} \subseteq H
  <2>1. Closes({TierOne("telescopic_survey_array_1", {"electron_tube"}),
                TierOne("dispatch_receiver_1", {"dispatch_remote"})}, H)
    BY <1>2 DEF BeetleTierOne, Closes
  <2> QED
    BY <1>1, <1>4, <2>1 DEF TierOne, Closes, BrassGoods, Rule
<1>6. CASE ~parts
  <2>1. Closes({TierOne("high_speed_governor_1", {"cogwheel"}),
                TierOne("exhaust_recuperator_1", {}), TierOne("brake_manifold_1", {}),
                TierOne("adhesion_sanders_1", {"chute"}),
                TierOne("compound_torque_clutch_1", {"large_cogwheel"}),
                TierOne("reinforced_drawgear_1", {}),
                TierOne("trestle_erector_1", {"deployer"})}, H)
    BY <1>2, <1>6 DEF BeetleTierOne, Closes
  <2>2. PlainGoods \subseteq H
    BY <1>1, <1>4, <2>1 DEF TierOne, PlainGoods, Closes, WorkshopGoods, BrassGoods, Rule
  <2> QED
    BY <1>4, <1>5, <2>2 DEF BeetleGoods
<1> QED
  BY <1>4, <1>5, <1>6 DEF BeetleGoods

\* What only a world with Manufacturing makes.
LEMMA PartGoodsMade ==
    ASSUME NEW parts, NEW H, Sufficient(parts, H), parts
    PROVE  PartGoods \subseteq H
<1> USE DEF Makes, MakesEach, Remakes, RemakesEach
<1>1. /\ Closes(PoweredWorks(parts), H) /\ Closes(ThermalPressure(parts), H)
      /\ Closes(ElectricalControl(parts), H) /\ Closes(PowerGridCutting(parts), H)
      /\ FoundGoods \subseteq H /\ WorkshopGoods \subseteq H /\ BrassGoods \subseteq H
      /\ Deployer \subseteq H
  BY GoodsFound, WorkshopGoodsMade, BrassGoodsMade, MachinesMade, ScriptsClose
<1>2. /\ Closes({Makes("paid_sifter_brick", {"nether_brick"})}, H)
      /\ Closes({Makes("rotational_compressor_bill", {"aerogel", "brass_casing"})}, H)
      /\ Closes({Makes("empty_circuit_slab", {})}, H)
  BY <1>1 DEF PoweredWorks, Sifter, ThermalPressure, RotationalCompressor, PowerGridCutting,
     Closes
<1>3. Rule("make", {"conductive_casing_blank"}, {"copper_casing"} \cup Deployer)
          \in ElectricalControl(parts)
  BY ViaAdds DEF ElectricalControl, ConductiveCasing
<1>4. {"paid_sifter_brick", "rotational_compressor_bill", "empty_circuit_slab",
       "conductive_casing_blank"} \subseteq H
  BY <1>1, <1>2, <1>3 DEF Closes, FoundGoods, WorkshopGoods, BrassGoods, Rule
<1> QED
  BY <1>4, PolymerGoodsMade DEF PartGoods

\* What is found and what recipes make of it suffices for all goods.
LEMMA GoodsMade ==
    ASSUME NEW parts, NEW H, Sufficient(parts, H)
    PROVE  Goods(parts) \subseteq H
<1>1. Standing \subseteq H
  BY DEF Sufficient
<1> QED
  BY <1>1, GoodsFound, HandGoodsMade, WorkshopGoodsMade, BrassGoodsMade, PressureGoodsMade,
     ElectricGoodsMade, AcidGoodsMade, TransitionGoodsMade, CraftGoodsMade, ArmourGoodsMade,
     BeetleGoodsMade, PartGoodsMade DEF Goods

\* Mods and datapacks make goods, and the tube that is stranded.
LEMMA KeptMakesGoods ==
    ASSUME NEW parts, NEW r \in PackKept
    PROVE  r.out \in Goods(parts) \cup Stranded
BY DEF PackKept, Route, Goods, BrassGoods, AcidGoods, Stranded

\* All that ordinary scripts make is made.
LEMMA OrdinaryMade ==
    ASSUME NEW w, NEW H, Sufficient(w.parts, H), NEW i \in 1 .. 42,
           NEW r \in Ordinary(w.parts)[i], r.kind \in {"make", "remake"}
    PROVE  r.outs \subseteq H \cup Stranded
<1>1. Supplied(Ordinary(w.parts)[i], w.parts)
  BY OrdinaryProper DEF Proper
<1>2. Closes(Ordinary(w.parts)[i], H) /\ Goods(w.parts) \subseteq H
  BY GoodsMade DEF Sufficient
<1> QED
  BY <1>1, <1>2 DEF Supplied, Closes

\* All that the perks make is made.
LEMMA AxiomsMade ==
    ASSUME NEW parts, NEW selected, NEW H, Sufficient(parts, H),
           Closes(WorldAxioms(parts, selected), H),
           NEW r \in WorldAxioms(parts, selected), r.kind \in {"make", "remake"}
    PROVE  r.outs \subseteq H
<1> DEFINE axioms == WorldAxioms(parts, selected)
           bill == Makes("firebox_native_bill", {})
<1>1. HandGoods \cup WorkshopGoods \cup BrassGoods \cup CraftGoods \subseteq H
  BY GoodsMade DEF Goods
<1>2. \/ r.needs \subseteq {"seared_brick"}
      \/ r.outs \subseteq {"seared_brick", "water_wheel", "brass_ingot", "chalk_white_impure",
                         "moon_dust"}
      \/ r.needs = {"firebox_native_bill"} /\ bill \in axioms
  BY SMTT(60) DEF WorldAxioms, IronLaw, EternalEngine, AlloyTestament, CaptiveHearth,
     SacrificialTradition, SpiritAwakening, ChalkCovenant, PatientAlchemist, Via, Rule, Makes,
     MakesEach, Amends, Copies, Foundry
<1>3. CASE r.needs \subseteq {"seared_brick"}
  BY <1>1, <1>3 DEF HandGoods, Closes
<1>4. CASE r.outs \subseteq {"seared_brick", "water_wheel", "brass_ingot", "chalk_white_impure",
                           "moon_dust"}
  BY <1>1, <1>4 DEF HandGoods, WorkshopGoods, BrassGoods, CraftGoods
<1>5. CASE r.needs = {"firebox_native_bill"} /\ bill \in axioms
  <2>1. "firebox_native_bill" \in H
    BY <1>5 DEF Closes, Makes, MakesEach, Rule
  <2> QED
    BY <1>5, <2>1 DEF Closes
<1> QED
  BY <1>2, <1>3, <1>4, <1>5

-----------------------------------------------------------------------------
(* Who has been everywhere and has nothing left to make has what suffices. *)

\* What a native route has come to need is found.
NativeFound == \A n \in native : n.needs \subseteq FoundGoods

\* Finds are kept.
FindsKept == Home \cup FoundAt(visited) \subseteq held

LEMMA AlwaysNativeFound == Spec => []NativeFound
<1>1. Init => NativeFound
  BY PackAssumption DEF Init, NativeFound, Worlds, PackScripts, PackNative, WorldNative
<1>2. Loading /\ NativeFound /\ [Next]_vars => NativeFound'
  <2> SUFFICES ASSUME Loading, NativeFound, [Next]_vars
               PROVE  NativeFound'
    OBVIOUS
  <2>1. CASE RunScript
    <3> DEFINE rules == scripts[ran + 1]
    <3>1. ran + 1 \in 1 .. 43 /\ native' = LeftBy(rules, native)
      <4>1. ran \in 0 .. 43
        BY WorldOfPack DEF Loading
      <4>2. ran # 43
        BY <2>1, WorldOfPack DEF Loaded, RunScript
      <4>3. ran + 1 \in 1 .. 43
        BY <4>1, <4>2
      <4>4. native' = LeftBy(rules, native)
        BY <2>1 DEF RunScript
      <4> QED
        BY <4>3, <4>4
    <3>2. Orderly(rules)
      BY <3>1, WorldOfPack, ScriptsOrderly
    <3> HIDE DEF rules
    <3>3. ASSUME NEW n \in native'
          PROVE  n.needs \subseteq FoundGoods
      <4>1. PICK m \in native : n = Rewritten(rules, m)
        BY <3>1 DEF LeftBy
      <4>2. m.needs \subseteq FoundGoods
        BY DEF NativeFound
      <4>3. \A r \in Amending(rules, m) : r.needs \subseteq FoundGoods
        BY <3>2 DEF Amending, Of, Orderly
      <4>4. Added(rules, m) \subseteq FoundGoods
        BY <3>2 DEF Added, Of, Orderly
      <4>5. n.needs \subseteq m.needs \cup (UNION {r.needs : r \in Amending(rules, m)})
                              \cup Added(rules, m)
        BY <4>1 DEF Rewritten
      <4> QED
        BY <4>2, <4>3, <4>4, <4>5
    <3> QED
      BY <3>3 DEF NativeFound
  <2>2. CASE UNCHANGED native
    BY <2>2 DEF NativeFound
  <2>3. Craft \/ Visit \/ UNCHANGED vars => UNCHANGED native
    BY DEF Craft, Visit, vars
  <2> QED
    BY <2>1, <2>2, <2>3 DEF Next
<1> QED
  BY <1>1, <1>2, AlwaysLoading, PTL DEF Spec

\* Visits and crafts only add.
LEMMA AlwaysFindsKept == Spec => []FindsKept
<1>1. Init => FindsKept
  BY DEF Init, FindsKept, FoundAt
<1>2. FindsKept /\ [Next]_vars => FindsKept'
  <2> SUFFICES ASSUME FindsKept, [Next]_vars
               PROVE  FindsKept'
    OBVIOUS
  <2>1. CASE Visit
    <3>1. PICK s \in Sites \ visited :
             visited' = visited \cup {s} /\ held' = held \cup Finds[s]
      BY <2>1 DEF Visit
    <3>2. FoundAt(visited') = FoundAt(visited) \cup Finds[s]
      BY <3>1 DEF FoundAt
    <3> QED
      BY <3>1, <3>2 DEF FindsKept
  <2>2. CASE visited' = visited /\ held \subseteq held'
    BY <2>2 DEF FindsKept, FoundAt
  <2>3. RunScript \/ Craft \/ UNCHANGED vars => visited' = visited /\ held \subseteq held'
    BY DEF RunScript, Craft, vars, players
  <2> QED
    BY <2>1, <2>2, <2>3 DEF Next
<1> QED
  BY <1>1, <1>2, PTL DEF Spec

\* What all finds and all recipes have come to, when nothing is left to make.
LEMMA CompleteSuffices ==
    ASSUME Loading, History, NativeFound, FindsKept, Complete
    PROVE  /\ Sufficient(world.parts, held)
           /\ Closes(WorldAxioms(world.parts, Perks(world)), held)
           /\ \A n \in native : n.out \in held
<1>1. /\ world \in PackWorlds /\ scripts = LoadOrder(world) /\ ran = 43
      /\ MadeBy(native) \subseteq held /\ MadeBy(queued) \subseteq held
      /\ MadeBy(Kept) \subseteq held
  BY WorldOfPack DEF Complete, Loaded, Craftable
<1>2. PackHome \subseteq held /\ \A s \in DOMAIN PackFinds : PackFinds[s] \subseteq held
  BY PackAssumption DEF FindsKept, FoundAt, Complete, Sites
<1>3. FoundGoods \subseteq held
  <2>1. /\ PackFinds.gabbro \subseteq held /\ PackFinds.slate \subseteq held
        /\ PackFinds.nether \subseteq held /\ PackFinds.aether \subseteq held
        /\ PackFinds.bumblezone \subseteq held /\ PackFinds.meteor \subseteq held
        /\ PackFinds.altar \subseteq held
    BY <1>2 DEF PackFinds
  <2> QED
    BY <1>2, <2>1 DEF PackFinds, PackHome, FoundGoods
<1>4. \A n \in native : n.out \in held
  BY <1>1, <1>3 DEF NativeFound, MadeBy
<1>5. Standing \subseteq held
  BY <1>4, NativeStands
<1>6. \A i \in 1 .. 43 : Closes(scripts[i], held)
  <2> SUFFICES ASSUME NEW i \in 1 .. 43, NEW r \in scripts[i],
                      r.kind \in {"make", "remake"}, r.needs \subseteq held, NEW o \in r.outs
               PROVE  o \in held
    BY DEF Closes
  <2> DEFINE q == [out |-> o, needs |-> r.needs]
  <2>1. q \in Authored(scripts[i])
    BY DEF Authored, Of
  <2>2. q \in queued /\ q.needs \subseteq held
    BY <1>1, <2>1 DEF History
  <2> QED
    BY <1>1, <2>2 DEF MadeBy
<1>7. /\ \A i \in 1 .. 42 : Closes(Ordinary(world.parts)[i], held)
      /\ Closes(WorldAxioms(world.parts, Perks(world)), held)
  BY <1>1, <1>6, OrderOfScripts
<1>8. \A r \in PackKept : r.needs \subseteq held => r.out \in held
  BY <1>1, PackAssumption DEF MadeBy
<1> QED
  BY <1>2, <1>4, <1>5, <1>7, <1>8 DEF Sufficient

\* NothingElseStranded: in every world, with any perks, whoever has been
\* everywhere can make all that any recipe makes, but for the ten items that
\* need themselves, or what is closed, or what nothing supplies.
THEOREM PackNothingElseStranded == Spec => []NothingElseStranded
<1>1. ASSUME Loading, History, NativeFound, FindsKept, Complete, NEW r \in Routes
      PROVE  r.out \in held \cup Stranded
  <2>1. /\ Sufficient(world.parts, held) /\ \A n \in native : n.out \in held
        /\ Closes(WorldAxioms(world.parts, Perks(world)), held)
    BY <1>1, CompleteSuffices
  <2>2. scripts = LoadOrder(world) /\ ran = 43
    BY <1>1, WorldOfPack DEF Complete, Loaded
  <2>3. CASE r \in native
    BY <2>1, <2>3
  <2>4. CASE r \in queued
    <3>1. PICK i \in 1 .. 43 : WrittenBy(LoadOrder(world)[i], r)
      BY <1>1, <2>2, <2>4 DEF History
    <3>2. CASE r \in Authored(LoadOrder(world)[i])
      <4>1. PICK q \in LoadOrder(world)[i] :
               q.kind \in {"make", "remake"} /\ r.out \in q.outs
        BY <3>2 DEF Authored, Of
      <4>2. CASE i \in 1 .. 42
        <5>1. q \in Ordinary(world.parts)[i]
          BY <4>1, <4>2, OrderOfScripts
        <5>2. q.outs \subseteq held \cup Stranded
          BY <2>1, <4>1, <4>2, <5>1, OrdinaryMade
        <5> QED
          BY <4>1, <5>2
      <4>3. CASE i = 43
        <5>1. q \in WorldAxioms(world.parts, Perks(world))
          BY <4>1, <4>3, OrderOfScripts
        <5>2. q.outs \subseteq held
          BY <2>1, <4>1, <5>1, AxiomsMade
        <5> QED
          BY <4>1, <5>2
      <4> QED
        BY <4>2, <4>3
    <3>3. CASE \E c \in Of(LoadOrder(world)[i], {"copy"}) : r.out \in c.outs
      <4>1. r.out = "spirit_altar"
        BY <3>3, ScriptsOrderly DEF Orderly, Of
      <4>2. \E n \in native : n.out = "spirit_altar"
        BY <1>1, NativeStands DEF Standing
      <4> QED
        BY <2>1, <4>1, <4>2
    <3> QED
      BY <3>1, <3>2, <3>3 DEF WrittenBy
  <2>5. CASE r \in Kept
    <3>1. r.out \in Goods(world.parts) \cup Stranded
      BY <2>5, PackAssumption, KeptMakesGoods
    <3> QED
      BY <2>1, <3>1, GoodsMade
  <2> QED
    BY <2>3, <2>4, <2>5 DEF Routes
<1>2. Complete => Loaded
  BY DEF Complete
<1>3. /\ Loading /\ History /\ NativeFound /\ FindsKept
      /\ (Loaded => Stranded \subseteq {r.out : r \in Routes} \ held)
      => NothingElseStranded
  BY <1>1, <1>2 DEF NothingElseStranded
<1> QED
  BY <1>3, AlwaysLoading, AlwaysHistory, AlwaysNativeFound, AlwaysFindsKept, StrandedForGood,
     PTL
=============================================================================
