------------------------------ MODULE Formulas ------------------------------
(***************************************************************************)
(* The formulas of packages/shared/src/formulas.ts, which the backend      *)
(* charges with and the pages show, in integers.  A price or a duration is *)
(* exact: the power of the code's factor is kept as a mixed number and     *)
(* rounded where the code rounds (its floating point puts a few exact      *)
(* halves below the half, and is then one second shorter).  A production   *)
(* rate is a fraction, whose mine outputs are whole hundredths.            *)
(***************************************************************************)
EXTENDS Integers

CONSTANT Steps   \* the settings of a mine: 0 is 0 %, Steps is 100 %

ASSUME StepsAssumption == Steps \in Nat \ {0}

Lesser(a, b) == IF a <= b THEN a ELSE b
Greater(a, b) == IF a >= b THEN a ELSE b

-----------------------------------------------------------------------------
(* Mixed numbers and fractions.                                            *)

Whole(n) == [whole |-> n, num |-> 0, den |-> 1]

\* x * f, for f = <<numerator, denominator>>; reduced when it can be, which
\* keeps the numbers small.
Times(x, f) ==
  LET part == ((x.whole * f[1]) % f[2]) * x.den + x.num * f[1]
      q    == IF part % f[2] = 0 THEN f[2] ELSE 1
      den  == x.den * (f[2] \div q)
  IN  [whole |-> (x.whole * f[1]) \div f[2] + (part \div q) \div den,
       num |-> (part \div q) % den, den |-> den]

\* base * Math.pow(f, n)
Power(base, f, n) ==
  LET pow[i \in 0 .. n] ==
        IF i = 0 THEN Whole(base) ELSE Times(pow[i - 1], f)
  IN  pow[n]

\* Math.round(x * num / den), a half upwards.
Rounded(x, num, den) ==
  LET twice == 2 * num * x.whole + (2 * num * x.num) \div x.den
  IN  (twice + den) \div (2 * den)

\* x <= y for fractions, by Euclid's algorithm: no product is formed.
AtMost(x, y) ==
  LET le[q \in Nat \X (Nat \ {0}) \X Nat \X (Nat \ {0})] ==
        LET a == q[1] \div q[2]
            b == q[3] \div q[4]
        IN  IF a # b THEN a < b
            ELSE IF q[1] % q[2] = 0 THEN TRUE
            ELSE IF q[3] % q[4] = 0 THEN FALSE
            ELSE le[<<q[4], q[3] % q[4], q[2], q[1] % q[2]>>]
  IN  le[<<x.num, x.den, y.num, y.den>>]

-----------------------------------------------------------------------------
(* The tables.                                                             *)

Mines == {"metal_mine", "crystal_mine", "deuterium_synthesizer"}
Storages == {"metal_storage", "crystal_storage", "deuterium_tank"}
Installations == {"robotics_factory", "shipyard", "research_lab"}
BuildingKeys == Mines \cup {"solar_plant"} \cup Storages \cup Installations

Resources == {"metal", "crystal", "deuterium"}
Amount(m, c, d) == [metal |-> m, crystal |-> c, deuterium |-> d]
Row(cost, costFactor, baseTime, timeFactor) ==
  [cost |-> cost, costFactor |-> costFactor, baseTime |-> baseTime,
   timeFactor |-> timeFactor]

BaseBuildings ==
  [metal_mine            |-> Row(Amount(60, 15, 0), <<3, 2>>, 60, <<3, 2>>),
   crystal_mine          |-> Row(Amount(48, 24, 0), <<8, 5>>, 80, <<31, 20>>),
   deuterium_synthesizer |-> Row(Amount(225, 75, 0), <<3, 2>>, 100, <<8, 5>>),
   solar_plant           |-> Row(Amount(75, 30, 0), <<3, 2>>, 70, <<3, 2>>),
   metal_storage         |-> Row(Amount(1000, 0, 0), <<2, 1>>, 120, <<8, 5>>),
   crystal_storage       |-> Row(Amount(1000, 500, 0), <<2, 1>>, 140, <<8, 5>>),
   deuterium_tank        |-> Row(Amount(1000, 1000, 0), <<2, 1>>, 160, <<8, 5>>),
   robotics_factory      |-> Row(Amount(400, 120, 200), <<2, 1>>, 120, <<17, 10>>),
   shipyard              |-> Row(Amount(400, 200, 100), <<2, 1>>, 150, <<17, 10>>),
   research_lab          |-> Row(Amount(200, 400, 200), <<2, 1>>, 200, <<9, 5>>)]

BaseResearch ==
  [energy           |-> Row(Amount(0, 800, 400), <<2, 1>>, 300, <<9, 5>>),
   laser            |-> Row(Amount(200, 100, 0), <<2, 1>>, 240, <<17, 10>>),
   ion              |-> Row(Amount(1000, 300, 100), <<2, 1>>, 360, <<9, 5>>),
   hyperspace       |-> Row(Amount(1000, 2000, 500), <<11, 5>>, 600, <<19, 10>>),
   combustion_drive |-> Row(Amount(400, 0, 600), <<9, 5>>, 260, <<9, 5>>),
   impulse_drive    |-> Row(Amount(2000, 4000, 600), <<19, 10>>, 500, <<19, 10>>),
   hyperdrive       |-> Row(Amount(10000, 20000, 6000), <<2, 1>>, 900, <<2, 1>>),
   espionage        |-> Row(Amount(200, 1000, 200), <<2, 1>>, 260, <<17, 10>>)]
ResearchKeys == DOMAIN BaseResearch

BaseShips ==
  [small_cargo   |-> [cost |-> Amount(2000, 2000, 0), baseTime |-> 120],
   large_cargo   |-> [cost |-> Amount(6000, 6000, 0), baseTime |-> 240],
   light_fighter |-> [cost |-> Amount(3000, 1000, 0), baseTime |-> 180],
   probe         |-> [cost |-> Amount(1000, 500, 0), baseTime |-> 60]]
ShipKeys == DOMAIN BaseShips

-----------------------------------------------------------------------------
(* Prices.                                                                 *)

\* A variant off by one: the second level costs what the first did.
CostFromLevelTwo(row, level) ==
  [r \in Resources |->
     Rounded(Power(row.cost[r], row.costFactor, Greater(level - 2, 0)), 1, 1)]

Cost(row, level) ==
  [r \in Resources |->
     Rounded(Power(row.cost[r], row.costFactor, Greater(level - 1, 0)), 1, 1)]

BuildingCost(key, level) == Cost(BaseBuildings[key], level)
ResearchCost(key, level) == Cost(BaseResearch[key], level)
ShipCost(key, qty) == [r \in Resources |-> BaseShips[key].cost[r] * qty]

-----------------------------------------------------------------------------
(* Durations, in seconds.                                                  *)

LevelTime(row, level) ==
  Power(row.baseTime, row.timeFactor, Greater(level - 1, 0))

\* A variant without the least duration.
BuildingTimeUnclamped(key, level, speedBuild) ==
  Rounded(LevelTime(BaseBuildings[key], level), 1, Greater(speedBuild, 1))

BuildingTime(key, level, speedBuild) ==
  Greater(10, Rounded(LevelTime(BaseBuildings[key], level),
                      1, Greater(speedBuild, 1)))

\* A laboratory takes 5 % off per level.
ResearchTime(key, level, speedResearch, labLevel) ==
  Greater(10, Rounded(LevelTime(BaseResearch[key], level),
                      100, Greater(speedResearch, 1) * (100 + 5 * labLevel)))

\* A variant in which a robotics factory does nothing.
ShipTimeOfYard(key, qty, speedBuild, shipyardLevel, roboticsLevel) ==
  Greater(5, Rounded(Whole(BaseShips[key].baseTime * qty), 100,
                     Greater(speedBuild, 1)
                       * Greater(100 + 5 * shipyardLevel, 100)))

\* A shipyard adds 5 % per level to the speed, a robotics factory 2 %.
ShipTime(key, qty, speedBuild, shipyardLevel, roboticsLevel) ==
  Greater(5, Rounded(Whole(BaseShips[key].baseTime * qty), 100,
                     Greater(speedBuild, 1)
                       * Greater(100 + 5 * shipyardLevel + 2 * roboticsLevel,
                                 100)))

-----------------------------------------------------------------------------
(* Production.  Rates and energy are in units of 1 / (10 * Steps).         *)

Clamped(position) == Greater(1, Lesser(15, position))

Temperature(position) == 45 - (Clamped(position) - 1) * 4

\* level * 1.1^level, in hundredths: what a mine or a plant of base 1 yields.
Output(level) == Power(100 * level, <<11, 10>>, level).whole

\* Mine k as its setting lets it run; `running` is the setting of each mine.
Running(level, running, k) == Output(level[k]) * running[k]

EnergyUsed(level, running) ==
  Running(level, running, "metal_mine") + Running(level, running, "crystal_mine")
    + 2 * Running(level, running, "deuterium_synthesizer")

\* A variant with the modifiers of the position swapped.
EnergyProducedFar(level, position) ==
  (2 * Output(level["solar_plant"]) * Steps * (39 + Clamped(position))) \div 40

\* 20 per unit of output, up to 30 % more near the sun.
EnergyProduced(level, position) ==
  (Output(level["solar_plant"]) * Steps * (185 - 3 * Clamped(position))) \div 70

\* A variant that lets every mine run at the share of the metal mine.
FullRateOfAll(level, running, position, k) ==
  [num |-> Output(level[k]) * running["metal_mine"], den |-> 1]

\* Deuterium: up to 35 % more far from the sun.
FullRate(level, running, position, k) ==
  LET output == Running(level, running, k)
  IN  CASE k = "metal_mine"   -> [num |-> 3 * output, den |-> 1]
        [] k = "crystal_mine" -> [num |-> 2 * output, den |-> 1]
        [] OTHER -> [num |-> output * (39 + Clamped(position)), den |-> 40]

\* The rate of each mine: full, or the share there is energy for.
Rate(level, running, position, k) ==
  LET full     == FullRate(level, running, position, k)
      used     == EnergyUsed(level, running)
      produced == EnergyProduced(level, position)
  IN  IF used <= produced THEN full
      ELSE [num |-> full.num * produced, den |-> full.den * used]

StorageCapacity(level) == Power(10000, <<8, 5>>, Greater(level, 0)).whole

StorageCapacities(level) ==
  Amount(StorageCapacity(level["metal_storage"]),
         StorageCapacity(level["crystal_storage"]),
         StorageCapacity(level["deuterium_tank"]))

HasEnough(available, cost) == \A r \in Resources : available[r] >= cost[r]
=============================================================================
