------------------------------- MODULE Growth -------------------------------
(***************************************************************************)
(* A planet as its player develops it, with the real prices, durations and *)
(* rates: what the building and research windows of overview/page.tsx and  *)
(* buildings/[key]/page.tsx show of the next levels.  An order and its     *)
(* completion are one step here; PlanetService and TaskQueue have the      *)
(* queue in between.                                                       *)
(***************************************************************************)
EXTENDS Formulas

CONSTANTS
  FutureLevels,  \* FUTURE_LEVELS: how many levels ahead a window shows
  Positions,     \* orbital positions the positions of an instance
  Sites          \* bound: the planets of an instance and how far each may
                 \* develop

Site == [position : Positions, speedBuild : Nat \ {0},
         speedResearch : Nat \ {0}, settings : SUBSET (0 .. Steps),
         ceiling : [BuildingKeys -> Nat], techCeiling : Nat]

ASSUME SitesAssumption ==
  /\ Positions \subseteq Nat \ {0}
  /\ FutureLevels \in Nat \ {0}
  /\ Sites \subseteq Site

VARIABLES
  site,      \* where the planet is, in which universe, and its bounds
  level,     \* BuildingLevel
  running,   \* BuildingSetting.productionFactor, in steps
  tech       \* ResearchLevel of Energy, the research the windows sample

vars == <<site, level, running, tech>>

\* The levels createStarterPlanet writes.
StarterLevel ==
  [k \in BuildingKeys |->
     IF k \in Storages \cup {"deuterium_synthesizer"} THEN 0 ELSE 1]

Init ==
  /\ site \in Sites
  /\ level = StarterLevel
  /\ running = [k \in Mines |-> Steps]
  /\ tech = 0

\* What the windows offer: a level of a building or of a research, some ships.
BuildingOffer(key, n) ==
  [cost |-> BuildingCost(key, n), time |-> BuildingTime(key, n, site.speedBuild)]
ResearchOffer(key, n) ==
  [cost |-> ResearchCost(key, n),
   time |-> ResearchTime(key, n, site.speedResearch, level["research_lab"])]
ShipOffer(key, qty) ==
  [cost |-> ShipCost(key, qty),
   time |-> ShipTime(key, qty, site.speedBuild, level["shipyard"],
                     level["robotics_factory"])]

\* An order is paid from a balance that never exceeds the capacities.
Affordable(cost) == HasEnough(StorageCapacities(level), cost)

StartBuilding(key) ==
  /\ level[key] < site.ceiling[key]                              \* bound
  /\ Affordable(BuildingOffer(key, level[key] + 1).cost)
  /\ level' = [level EXCEPT ![key] = @ + 1]
  /\ UNCHANGED <<site, running, tech>>

StartResearch ==
  /\ tech < site.techCeiling                                     \* bound
  /\ Affordable(ResearchOffer("energy", tech + 1).cost)
  /\ tech' = tech + 1
  /\ UNCHANGED <<site, level, running>>

UpdateProductionFactor(key) ==
  /\ \E setting \in site.settings :
       running' = [running EXCEPT ![key] = setting]
  /\ UNCHANGED <<site, level, tech>>

Next ==
  \/ \E key \in BuildingKeys : StartBuilding(key)
  \/ StartResearch
  \/ \E key \in Mines : UpdateProductionFactor(key)

Spec == Init /\ [][Next]_vars

-----------------------------------------------------------------------------
(* What a building window shows for a target level.                        *)

AtLevel(key, n) == [level EXCEPT ![key] = n]

FutureRate(key, n, mine) == Rate(AtLevel(key, n), running, site.position, mine)

SampleShip(lv) ==
  ShipTime("small_cargo", 1, site.speedBuild, lv["shipyard"],
           lv["robotics_factory"])
SampleResearch(lv) ==
  ResearchTime("energy", tech + 1, site.speedResearch, lv["research_lab"])

\* The levels a window lists, and the current one.
Shown(key) == level[key] .. level[key] + FutureLevels

\* A mine that alone takes all the energy there is at level m.
Saturated(key, m) ==
  /\ EnergyProduced(AtLevel(key, m), site.position) <= EnergyUsed(AtLevel(key, m), running)
  /\ \A k \in Mines \ {key} : Running(level, running, k) = 0

\* impactForLevel: what level n of a building would bring, against level m.
Grows(before, after) == ~AtMost(after, before)
MineHelps(key, m, n) ==
  LET before == FutureRate(key, m, key)
      after  == FutureRate(key, n, key)
  IN  IF running[key] = 0 \/ Saturated(key, m) THEN AtMost(before, after)
      ELSE Grows(before, after)
PlantHelps(m, n) ==
  LET energy(l) == EnergyProduced(AtLevel("solar_plant", l), site.position)
  IN  /\ energy(m) < energy(n)
      /\ \A k \in Mines :
           LET before == FutureRate("solar_plant", m, k)
               after  == FutureRate("solar_plant", n, k)
           IN  IF energy(m) < EnergyUsed(level, running) /\ Running(level, running, k) > 0
               THEN Grows(before, after) ELSE AtMost(before, after)
StorageHelps(key, m, n) ==
  LET before == StorageCapacities(AtLevel(key, m))
      after  == StorageCapacities(AtLevel(key, n))
  IN  HasEnough(after, before) /\ after # before

\* What the installations promise, in hundredths of the speed of a universe.
YardSpeed(lv) ==
  site.speedBuild * (100 + 5 * lv["shipyard"] + 2 * lv["robotics_factory"])
LabSpeed(lv) == site.speedResearch * (100 + 5 * lv["research_lab"])

\* Does whoever works faster need a second less for so many seconds' work?
SavesASecond(work, slow, fast) == slow * fast <= 100 * work * (fast - slow)

\* The duration becomes no longer, and shorter when the speeds promise a second,
\* unless it is the least one already.
Shortens(before, after, least, gain) ==
  after <= before /\ (gain => after < before \/ before = least)
InstallationHelps(key, m, n) ==
  LET lv == AtLevel(key, m)
      lw == AtLevel(key, n)
  IN  /\ Shortens(SampleShip(lv), SampleShip(lw), 5,
            SavesASecond(BaseShips["small_cargo"].baseTime, YardSpeed(lv), YardSpeed(lw)))
      /\ Shortens(SampleResearch(lv), SampleResearch(lw), 10,
            SavesASecond(LevelTime(BaseResearch["energy"], tech + 1).whole,
                         LabSpeed(lv), LabSpeed(lw)))

-----------------------------------------------------------------------------
(* Properties.                                                             *)

(* The planet stays within its type, and within the signs the other        *)
(* modules assume of the formulas (GameState!FormulasAssumption): prices   *)
(* are natural numbers and durations at least 10 s and 5 s.                *)
TypeOK ==
  /\ site \in Sites
  /\ level \in [BuildingKeys -> Nat]
  /\ running \in [Mines -> 0 .. Steps]
  /\ tech \in Nat
  /\ SampleShip(level) >= 5 /\ SampleResearch(level) >= 10
  /\ \A k \in BuildingKeys :
       LET offer == BuildingOffer(k, level[k] + 1)
       IN  offer.time >= 10 /\ offer.cost \in [Resources -> Nat]

(* Every level a window offers brings what the formulas have the building  *)
(* for.  A mine that runs yields more itself, although it takes energy     *)
(* from the others, unless it alone already takes all there is; a solar    *)
(* plant brings energy, speeds up every mine that is short of it and slows *)
(* none; a storage holds more; a shipyard and a robotics factory shorten   *)
(* ships and a laboratory shortens research by what their 5 %, 2 % and     *)
(* 5 % are worth, down to the least duration and to the second.  That a    *)
(* robotics factory speeds up construction, as metadata.ts:57 has it, is   *)
(* not among it: BuildingTime does not know its level.                     *)
EveryLevelHelps ==
  \A k \in BuildingKeys : \A n \in Shown(k) \ {level[k]} :
    /\ k \in Mines => MineHelps(k, n - 1, n)
    /\ k = "solar_plant" => PlantHelps(n - 1, n)
    /\ k \in Storages => StorageHelps(k, n - 1, n)
    /\ k \in Installations => InstallationHelps(k, n - 1, n)

(* Levels cost more and more and never take less time, as a window lists   *)
(* them (README.md: "couts/temps exponentiels"), rounding, the minimum     *)
(* duration and the speed of the universe included; and ships ordered      *)
(* together take no longer than ordered apart, but for a second of         *)
(* rounding (only one order of ships may be pending at a time).            *)
LevelsGetDearer ==
  /\ \A k \in BuildingKeys : \A n \in Shown(k) \ {level[k], 0, 1} :
       LET last == BuildingOffer(k, n - 1)
           next == BuildingOffer(k, n)
       IN  /\ HasEnough(next.cost, last.cost)
           /\ last.cost["metal"] < next.cost["metal"]
           /\ last.time <= next.time
  /\ \A k \in ResearchKeys :
       LET last == ResearchOffer(k, tech + 1)
           next == ResearchOffer(k, tech + 2)
       IN  /\ HasEnough(next.cost, last.cost) /\ next.cost # last.cost
           /\ last.time <= next.time
  /\ \A k \in ShipKeys : \A qty \in 1 .. FutureLevels :
       LET few  == ShipOffer(k, qty)
           more == ShipOffer(k, qty + 1)
       IN  /\ HasEnough(more.cost, few.cost)
           /\ few.time <= more.time
           /\ more.time <= few.time + ShipOffer(k, 1).time + 1

(* Near the sun a planet is at least as warm, has at least the energy of   *)
(* one farther out, and its metal and crystal mines run at least as well;  *)
(* deuterium is the other way round as long as the farther planet has      *)
(* energy enough (overview/page.tsx: "plus d energie, moins de deut").     *)
CloserIsSunnier ==
  \A near, far \in Positions : near <= far =>
    /\ Temperature(far) <= Temperature(near)
    /\ EnergyProduced(level, far) <= EnergyProduced(level, near)
    /\ \A k \in Mines \ {"deuterium_synthesizer"} :
         AtMost(Rate(level, running, far, k), Rate(level, running, near, k))
    /\ EnergyUsed(level, running) <= EnergyProduced(level, far) =>
         AtMost(Rate(level, running, near, "deuterium_synthesizer"),
                Rate(level, running, far, "deuterium_synthesizer"))

(* Slowing a mine down yields no more of its own resource and never less   *)
(* of another: the energy it leaves goes to the other mines.               *)
ThrottlingSharesEnergy ==
  [][\A key, k \in Mines : running'[key] < running[key] =>
       LET before == Rate(level, running, site.position, k)
           after  == Rate(level, running', site.position, k)
       IN  IF k = key THEN AtMost(after, before) ELSE AtMost(before, after)]_vars
=============================================================================
