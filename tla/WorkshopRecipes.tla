-------------------------- MODULE WorkshopRecipes --------------------------
(* The hand, water and pressure workshops: progression/00 to 52.           *)
EXTENDS RecipeRules

\* 00_primitive_workshop.js
PrimitiveWorkshop(parts) ==
    {MakesEach({"string", "awning", "doormat", "fire_pit", "feeding_trough",
                "white_wattle_and_daub"}, {}),
     Makes("sack", {"string"}),
     Remakes("backpack", {"string"}),
     RemakesEach({"chute", "cooking_pot", "thatch", "thatch_wheat",
                  "wattle_and_daub"}, {})}

-----------------------------------------------------------------------------
(* 10_hand_workshop.js                                                     *)

\* BC_REFRACTORY_FAMILIES
Families == {"gabbro", "slate", "phyllite", "quartzite", "schist"}

\* Variant: one union tag in both slots.
RefractoryUnion == {Makes("refractory_compound", {f}) : f \in Families}

Refractory ==
    {Makes("refractory_compound", {p[1], p[2]}) :
        p \in {q \in Families \X Families : q[1] # q[2]}}
    \cup {Makes("seared_brick", {"refractory_compound"})}

\* Every route from grout goes, and so the one to seared bricks.
SurfaceSynthesis ==
    Removes(Families \cup {"grout", "nether_font_grout", "aether_font_grout",
                           "bumblezone_font_grout", "seared_brick"})

HandWorkshop(parts) ==
    Refractory
    \cup Via(Foundry, {Remakes("andesite_alloy", {}),
                       Makes("molten_andesite_alloy", {}),
                       Makes("andesite_alloy", {"molten_andesite_alloy"})})
    \cup {SurfaceSynthesis,
          MakesEach({"blank_sand_cast", "blank_red_sand_cast"}, {}),
          Remakes("hand_crank", {"shaft"})}

-----------------------------------------------------------------------------
(* 20_powered_works.js                                                     *)

IronWorkshop(parts) ==
    {MakesEach({"andesite_machine_block", "shaft"}, {}),
     MakesEach({"cogwheel", "large_cogwheel"}, {"shaft"}),
     RemakesEach({"andesite_casing", "basin", "whisk"}, {}),
     Remakes("mechanical_bearing", {"andesite_casing", "shaft"}),
     Remakes("depot", {"andesite_casing"})}

MillstoneRoot == Remakes("millstone", {"cogwheel", "andesite_machine_block", "nether_brick"})

PoweredMachines(parts) ==
    {MillstoneRoot,
     Remakes("mechanical_press", {"shaft", "andesite_machine_block"}),
     Remakes("mechanical_mixer", {"shaft", "whisk"}),
     Remakes("propeller", {"shaft"}), Remakes("white_sail", {})}
    \cup Via(Compactor,
        {Remakes("copper_casing", {}),
         Makes("copper_machine_block", {"andesite_machine_block", "copper_casing"})})

\* Variant: stripped logs of any wood.
WaterWheelAnyWood == Remakes("water_wheel", {"shaft"})

WaterWheel == Remakes("water_wheel", {"skyroot_log", "shaft"})

SkyrootRoots(parts) ==
    {WaterWheel,
     Remakes("large_water_wheel", {"skyroot_log", "water_wheel"}),
     Remakes("windmill_bearing", {"skyroot_log", "andesite_casing", "shaft"}),
     RemakesEach({"andesite_funnel", "andesite_tunnel"}, {"andesite_casing"})}

\* The sifter's brick is marked before it is built in.
Sifter(parts) ==
    LET brick == IF parts THEN "paid_sifter_brick" ELSE "nether_brick" IN
    {Remakes("sifter", {brick, "andesite_casing", "cogwheel"})}
    \cup IF ~parts THEN {} ELSE
        {Makes("paid_sifter_brick", {"nether_brick"}),
         Makes("brass_sifter_paid_materials", {"brass_ingot"}),
         MakesEach({"string_mesh_paid", "zinc_mesh_paid"}, {}),
         Makes("andesite_mesh_paid", {"andesite_alloy"}),
         Makes("brass_mesh_paid", {"brass_ingot"})}

PoweredWorks(parts) ==
    IronWorkshop(parts) \cup PoweredMachines(parts) \cup SkyrootRoots(parts)
    \cup Sifter(parts)
    \cup Via(Crafters, {Remakes("crushing_wheel", {"andesite_alloy", "nether_brick"})})

-----------------------------------------------------------------------------
(* 30_precision_factory.js and 40_thermal_pressure.js                      *)

PrecisionFactory(parts) ==
    Via(Compactor,
        {Remakes("brass_casing", {"brass_ingot"}),
         Makes("brass_machine_block",
               {"copper_machine_block", "brass_casing", "brass_ingot",
                "electron_tube", "rose_quartz"})})
    \cup Via(IF parts THEN Crafters ELSE {}, {Remakes("crafter", {"mechanical_crafter"})})
    \cup {Removes({"brass_ingot"}),
          Remakes("deployer", {"electron_tube", "brass_casing"}),
          Remakes("mechanical_crafter",
                  {"electron_tube", "brass_casing", "andesite_alloy"}),
          Remakes("track_station", {"railway_casing", "precision_mechanism"}),
          Remakes("steam_engine", {"andesite_alloy", "precision_mechanism"})}

AirtightBlock ==
    Via(Crafters, {Makes("airtight_machine_block", {"pressure_seal", "brass_machine_block"})})

RotationalCompressor(parts) ==
    LET gel == IF parts THEN "rotational_compressor_bill" ELSE "aerogel" IN
    {Remakes("rotational_compressor",
             {gel, "propeller", "shaft", "pressure_seal", "brass_casing"})}
    \cup IF parts
         THEN {Makes("rotational_compressor_bill", {"aerogel", "brass_casing"})}
         ELSE {}

ThermalPressure(parts) ==
    {Remakes("pressure_seal", {}),
     Remakes("pressure_chamber_interface", {"pressure_seal"}),
     Removes({"nether_grout", "scorched_brick"})}
    \cup AirtightBlock \cup RotationalCompressor(parts)
    \cup Via(Mixer, {Makes("scorched_brick", {"basalt"})})
=============================================================================
