-------------------------- MODULE PackProgression --------------------------
(***************************************************************************)
(* The recipe scripts of the pack in their load order, the worlds they are *)
(* loaded in, what those worlds hold, and what the progression promises.   *)
(* A world has Better Manufacturing or not (its recipes are for parts),    *)
(* and the projection the supervisor has left it.                          *)
(***************************************************************************)
EXTENDS RecipeLoading, WorkshopRecipes, ChemistryRecipes, LogisticsRecipes,
        TransportRecipes, ArmouryRecipes, MagicRecipes, PolicyRecipes,
        WorldAxiomRecipes

CONSTANT PackWorlds

\* compat, policy, progression, transport, utility and, of a priority of its
\* own, the perks; in a directory by path.
Ordinary(parts) ==
    <<ExtremeRewards(parts), SpikeGates(parts), ArsBooks(parts), ProtectionPixel(parts),
      TomeOfBlood(parts), BackpackUtilities(parts), TaCZ(parts), Hexerei(parts), SlateGates(parts),
      BloodLifeforce(parts), FormulaicSynthesis(parts),
      DragonReplacements(parts), DimensionAccess(parts), Policy(parts),
      PrimitiveWorkshop(parts), HandWorkshop(parts), MeteorLogistics(parts),
      PoweredWorks(parts), BumblezoneSeeds(parts), RatArcheology(parts),
      UnderwaterWorks(parts), PrecisionFactory(parts), ThermalPressure(parts),
      AcidChemistry(parts), Polymers(parts), ElectricalControl(parts),
      SoulstoneBootstrap(parts), PowerGridCutting(parts), ClockworkBladeCutting(parts),
      TransitionComponents(parts), TechPalette(parts), PneumaticProgression(parts),
      FoodDrying(parts), PneumaticAcquisition(parts), StationCrafting(parts),
      CertusComponents(parts), FontEcology(parts), DimensionTransport(parts),
      EngineeringRoots(parts), RailBeetles(parts), StarterHooks(parts),
      MobilityGates(parts)>>

Perks(w) == Selection(w.projection)

\* Variant: the perks run before the scripts they add to.
PerksFirst(w) == <<WorldAxioms(w.parts, Perks(w))>> \o Ordinary(w.parts)

LoadOrder(w) == Append(Ordinary(w.parts), WorldAxioms(w.parts, Perks(w)))

PackScripts == [w \in PackWorlds |-> LoadOrder(w)]

-----------------------------------------------------------------------------
(* What was there before the scripts, and what is found.                   *)

\* One bare route for every item and origin that a script or a closing names.
WorldNative(w) ==
    LET order == LoadOrder(w)
        named == (UNION {Touched(order[i]) : i \in DOMAIN order})
                 \cup {"recipes"} \X ClosedItems \cup {"trades"} \X RestrictedTrades
    IN  {[from |-> t[1], out |-> t[2], needs |-> {}] : t \in named}

PackNative == [w \in PackWorlds |-> WorldNative(w)]

\* Datapack and mod recipes on which the scripts rely.
Route(out, needs) == [out |-> out, needs |-> needs]

PackKept ==
    {Route("electron_tube", {"rose_quartz"}),
     Route("precision_mechanism", {"deployer", "cogwheel", "large_cogwheel"}),
     Route("railway_casing", {"brass_casing"}),
     Route("brass_ingot", {"seared_brick"}),
     Route("integrated_circuit", {"mechanical_crafter", "rose_quartz"}),
     Route("electric_motor", {"mechanical_crafter"}),
     Route("battery", {"deployer"}),
     Route("plastic", Plant),
     Route("printed_circuit_board", {"pcb_blueprint", "nitric_acid_fluid"}),
     Route("advanced_pressure_tube", {"assembly_controller", "assembly_program_laser"}),
     Route("blaze_powder", {"blaze_rod"}),
     Route("honey_bottle", {}),
     Route("sky_dust", {"sky_stone_block"})}
    \cup {Route(piece, {"netherite_ingot"}) :
            piece \in {"netherite_helmet", "netherite_chestplate", "netherite_leggings",
                       "netherite_boots"}}

\* Mineral and magic goods of the first world that no script supplies.
PackHome == {"titanium_ingot", "source_gem_block", "humble_rod"}

\* Three of the five families stand for all; the Fonts stand in the open.
PackFinds ==
    [gabbro |-> {"gabbro"}, slate |-> {"slate"}, schist |-> {"schist"},
     nether |-> {"nether_brick", "blaze_rod", "magma_cream", "ghast_tear", "nether_star",
                 "quartz", "nether_wart", "crimson_planks", "soul_sand", "basalt",
                 "netherite_ingot", "netherite_scrap"},
     aether |-> {"skyroot_log", "blue_aercloud", "aerogel", "enchanted_gravitite",
                 "quicksoil", "swet_ball", "blue_berry", "skyroot_leaves",
                 "ambrosium_shard", "zanite_gemstone"},
     bumblezone |-> {"pollen_puff", "carvable_wax", "honey_crystal_shards"},
     meteor |-> {"sky_stone_block", "certus_quartz_crystal", "fluix_crystal",
                 "charged_certus_quartz_crystal"},
     altar |-> {"blankslate", "reinforcedslate", "infusedslate", "demonslate",
                "etherealslate", "altar_tier_2", "altar_tier_5"}]

-----------------------------------------------------------------------------
(* The gates of a world. A perk that was paid for opens its own.           *)

Gate(items, keys) == [items |-> items, keys |-> keys]

\* Fired bricks, and what they cast, take two families of stone.
FamilyGates(w) ==
    IF "iron_law" \in w.paid THEN {} ELSE
    {Gate({"refractory_compound", "seared_brick", "andesite_alloy", "molten_andesite_alloy",
           "brass_billet", "brass_ingot"} \cup (Families \ {f}), {}) : f \in Families}

\* The roots of water, wind and pressure, and chalk, each take an expedition.
NetherGates(w) ==
    {Gate({"nether_brick", "paid_sifter_brick", "millstone", "sifter", "crushing_wheel",
           "corundum_lapping_grit", "mountain_beryl_lens"}, {}),
     Gate({"magma_cream", "thermopneumatic_processing_plant", "plastic",
           "sulfur_dioxide_fluid", "oxygenated_vanadium_contact_catalyst",
           "sulfur_trioxide_fluid", "sulfuric_acid_fluid", "nitric_acid_fluid",
           "printed_circuit_board", "soldering_table", "drone"}, {})}

AetherGates(w) ==
    LET wheel == IF "eternal_engine" \in w.paid THEN {} ELSE {"water_wheel"} IN
    {Gate({"skyroot_log", "large_water_wheel", "windmill_bearing"} \cup wheel, {}),
     Gate({"aerogel", "rotational_compressor_bill", "rotational_compressor"}, {}),
     Gate({"enchanted_gravitite", "energy_acceptor"}, {})}

ChalkGates(w) ==
    LET white == IF "chalk_covenant" \in w.paid THEN {} ELSE {"chalk_white_impure"}
        chalks == {"chalk_gold_impure", "chalk_purple_impure", "chalk_red_impure"} \cup white
    IN  {Gate(chalks \cup {"blaze_powder", "blaze_rod"}, {}),
         Gate(chalks \cup {"ambrosium_shard"}, {}),
         Gate(chalks \cup {"honey_crystal_shards"}, {})}

\* Rose quartz takes Certus, and so does the electronics of every later era;
\* none of it is traded.
MeteorGates(w) ==
    {Gate({"certus_quartz_crystal", "rose_quartz", "electron_tube", "integrated_circuit",
           "deployer", "mechanical_crafter", "brass_machine_block", "pipe"}
          \cup (RestrictedTrades \ {"sky_stone_block", "charged_certus_quartz_crystal"}), {}),
     Gate({"sky_stone_block", "sky_dust", "sky_steel_ingot", "sky_steel_sheet",
           "ae_logic_package", "item_terminal", "pressurizer", "ender_hook", "red_hook",
           "brass_drone", "programmable_controller"}, {}),
     Gate({"charged_certus_quartz_crystal", "controller"}, {})}

AltarGates(w) ==
    (IF "spirit_awakening" \in w.paid THEN {} ELSE {Gate({"spirit_altar"}, {"blankslate"})})
    \cup {Gate(Foci \cup {"weakening_focus", "focus_bag", "focus_pack", "cursed_cage",
                          "dark_altar", "dark_altar_stone", "blood_rune_sacrifice"},
               {"demonslate"}),
          Gate({"daggerofsacrifice"}, {"altar_tier_5"})}

\* Each machine block, and all that is built of it, takes the one before.
EraGates(w) ==
    {Gate({"copper_machine_block"}, {"andesite_machine_block"}),
     Gate({"brass_machine_block"}, {"copper_machine_block"}),
     Gate({"airtight_machine_block", "high_speed_governor_2", "brake_manifold_2"},
          {"brass_machine_block"}),
     Gate({"electrical_machine_block", "telescopic_survey_array_2", "dispatch_receiver_2"},
          {"airtight_machine_block"})}

\* Armour and tomes of the branch past AE2.
BranchGates(w) ==
    LET armour == {"smallnetheritesheet", "alloyarmorplate", "armorloadplatform",
                   "powerengine", "heatoverlockingmechanism", "equipmentkit",
                   "armorplatekit", "chestplatelining", "leggingslining", "socks_boots",
                   "linkplate_helmet", "linkplate_chestplate", "linkplate_leggings",
                   "linkplate_boots", "steamectoskeleton", "suspjetpack",
                   "maneuveringwing", "tosaki_helmet", "tosaki_chestplate",
                   "tosaki_leggings", "wingsofprismas_chestplate"}
        tomes == {"purified_source_core", "novice_tome_of_blood",
                  "apprentice_tome_of_blood", "archmage_tome_of_blood",
                  "glyph_sentient_harm"}
    IN  {Gate(LivingMage \cup armour \cup tomes, {"sky_steel_sheet", "ae_logic_package"})}

WorldGates(w) ==
    FamilyGates(w) \cup NetherGates(w) \cup AetherGates(w) \cup ChalkGates(w)
    \cup MeteorGates(w) \cup AltarGates(w) \cup EraGates(w) \cup BranchGates(w)

PackGates == [w \in PackWorlds |-> WorldGates(w)]

\* The scripts that are loaded are the pack's, and so is what they find.
ASSUME PackAssumption ==
    /\ Scripts = PackScripts /\ Native = PackNative /\ Kept = PackKept
    /\ Home = PackHome /\ Finds = PackFinds /\ Gates = PackGates

-----------------------------------------------------------------------------
(* What the progression promises.                                          *)

\* Of each perk, an item it makes and what the item needs without it.
PerkRoutes ==
    {<<"iron_law", "seared_brick", {"refractory_compound"}>>,
     <<"eternal_engine", "water_wheel", {"skyroot_log"}>>,
     <<"alloy_testament", "brass_ingot", {"seared_brick"}>>,
     <<"captive_hearth", "thermal_firebox", {}>>,
     <<"spirit_awakening", "spirit_altar", {"blankslate"}>>,
     <<"chalk_covenant", "chalk_white_impure", {"honey_crystal_shards"}>>,
     <<"patient_alchemist", "amethyst_preparation", {}>>}

\* A perk has its effect in a world that paid for it and in no other, whatever
\* the projection says and whichever scripts ran before.
PerksAsPaid ==
    Loaded => \A p \in PerkRoutes :
        (\E r \in Routes : r.out = p[2] /\ r.needs \cap p[3] = {}) <=> p[1] \in world.paid

\* The comment of sacrificial_tradition: the dagger's tier is the one changed.
SacrificialTraditionTakesEffect ==
    Loaded /\ "sacrificial_tradition" \in world.paid =>
        \E r \in Routes : r.out = "daggerofsacrifice" /\ "altar_tier_5" \notin r.needs

\* Written after the closing of its item, by 81_pneumaticcraft_progression.js.
Reopened == {"jet_boots_upgrade_4"}

\* No script opens again what removed_items.js and dimension_access.js close.
ClosedStaysClosed == held \cap ClosedItems \subseteq Reopened

\* The hooks that are built, one from the other, from the metal one.
MetalHooks == {"iron_hook", "diamond_hook", "blaze_hook", "ender_hook", "red_hook"}

\* Each needs itself, or what is closed, or what nothing supplies: the rope of
\* the hooks, which 21_starter_hook_loot.js lays out under another namespace,
\* and the scale of a dragon of the End.
Stranded == {"assembly_controller", "advanced_pressure_tube", "programmable_controller",
             "jet_boots_upgrade_5", "tconstruct:dragon_scale"} \cup MetalHooks

\* Whoever goes everywhere can make all that any recipe makes, but for these.
NothingElseStranded == Complete => {r.out : r \in Routes} \ held = Stranded

\* The comments of 81 and 82: assembly tooling belongs to the pressure era.
AssemblyToolingReachable == Complete => "assembly_controller" \in held
=============================================================================
