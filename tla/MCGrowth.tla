------------------------------ MODULE MCGrowth ------------------------------
(***************************************************************************)
(* Small instances of Growth: what the mines do to each other, how far the *)
(* storages go, and what the installations save.                           *)
(***************************************************************************)
EXTENDS Growth

Ceiling(mines, storages, installations) ==
  [k \in BuildingKeys |-> IF k \in Storages THEN storages
                          ELSE IF k \in Installations THEN installations
                          ELSE mines]

Planet(position, speed, settings, ceiling, techCeiling) ==
  [position |-> position, speedBuild |-> speed, speedResearch |-> speed,
   settings |-> settings, ceiling |-> ceiling, techCeiling |-> techCeiling]

\* 15 is the last slot of a system and the last the formulas tell apart.
Slots == {1, 8, 15, 16}

Planets ==
  {Planet(p, 1, 0 .. Steps, Ceiling(3, 0, 1), 0) : p \in Slots}
  \cup {Planet(1, 1, {}, Ceiling(1, 13, 1), 0)}
  \cup {Planet(1, speed, {}, Ceiling(1, 0, 5), 3) : speed \in {1, 8, 100}}
=============================================================================
