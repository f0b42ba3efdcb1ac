----------------------------- MODULE MCAstraxis -----------------------------
(***************************************************************************)
(* Small instances of Astraxis.  The tables keep the shape of the formulas *)
(* of packages/shared (prices and durations grow with the level, a mine    *)
(* yields more with its level and nothing at factor 0, storage grows with  *)
(* the storage level) with numbers small enough to reach every limit.      *)
(***************************************************************************)
EXTENDS Astraxis, TLC

\* Every handler runs in the first process; a second one has but a worker.
TwoProcs == {"p1", "p2"}
OneProc == {"p1"}
HostFirst == [h \in Handlers |-> "p1"]
NoSkew == [p \in Procs |-> 0]
FirstAhead == [p \in Procs |-> IF p = "p1" THEN 1 ELSE 0]

\* Handlers do not differ where all run in one process.
AnyHandler == Permutations(Handlers)

Metal == {"metal"}
Mine == {"metal_mine"}
MineAndStorage == {"metal_mine", "metal_storage"}
OneQty == {1}
OffOn == {0, 100}

AnyLevelMap == [Buildings -> 0 .. MaxLevel]
\* Levels of buildings an instance leaves out are 0.
LevelIn(lv, k) == IF k \in Buildings THEN lv[k] ELSE 0

BuildCost ==
  [k \in Buildings |-> [n \in 0 .. MaxLevel |-> [r \in Resources |-> n]]]
BuildTime == [k \in Buildings |-> [n \in 0 .. MaxLevel |-> 2]]
ShipPrice == [s \in ShipKeys |-> [q \in Qty |-> [r \in Resources |-> 2 * q]]]
ShipDuration ==
  [s \in ShipKeys |-> [q \in Qty |-> [lv \in AnyLevelMap |-> q]]]
TechCost ==
  [t \in Techs |-> [n \in 0 .. MaxLevel |-> [r \in Resources |-> n]]]
TechTime ==
  [t \in Techs |-> [n \in 0 .. MaxLevel |-> [lv \in AnyLevelMap |-> n + 1]]]
Rate == [lv \in AnyLevelMap |-> [f \in [Mines -> Factors] |->
          [r \in Resources |->
             IF "metal_mine" \in Mines
             THEN (LevelIn(lv, "metal_mine") * f["metal_mine"]) \div 100
             ELSE 0]]]
Storage == [lv \in AnyLevelMap |->
             [r \in Resources |-> 4 + 2 * LevelIn(lv, "metal_storage")]]
AmpleStorage == [lv \in AnyLevelMap |-> [r \in Resources |-> 100]]
StartLevel == [k \in Buildings |-> IF k = "metal_mine" THEN 1 ELSE 0]
StartBalance == [r \in Resources |-> 3]

-----------------------------------------------------------------------------
(* The requests clients send.                                              *)

Overview(pl) == [op |-> "getOverview", player |-> pl, planet |-> pl]
Build(pl, k) == [op |-> "startBuilding", player |-> pl, planet |-> pl, key |-> k]
BuildShips(pl, s, q) == [op |-> "startShips", player |-> pl, planet |-> pl,
                         key |-> s, qty |-> q]
Learn(pl, t) == [op |-> "startResearch", player |-> pl, key |-> t]
SetFactor(pl, k, f) == [op |-> "updateProductionFactor", player |-> pl,
                        planet |-> pl, key |-> k, factor |-> f]

Orders ==
  {Build(pl, k) : pl \in Planets, k \in Buildings}
  \cup {BuildShips(pl, s, q) : pl \in Planets, s \in ShipKeys, q \in Qty}
  \cup {Learn(pl, t) : pl \in Planets, t \in Techs}
OnlyBuildings == {Build(pl, k) : pl \in Planets, k \in Buildings}
AllButShips ==
  OnlyBuildings \cup {Overview(pl) : pl \in Planets}
  \cup {SetFactor(pl, k, f) : pl \in Planets, k \in Mines, f \in {0}}
ShipsAndResearch == Orders \ OnlyBuildings
=============================================================================
