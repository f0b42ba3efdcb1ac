---------------------------- MODULE TickEconomy ----------------------------
(***************************************************************************)
(* What the economy promises a player, as a game with a global tick would  *)
(* keep it: at every tick each planet receives its rate, up to its storage *)
(* capacity, and between ticks a player may spend what he has.  A new rate *)
(* or capacity counts from the moment it is set.  The books may be up to   *)
(* Grace ticks late, and a payment or a new rate is then off by what so    *)
(* many ticks produce; with Grace = 0 they are exact.                      *)
(***************************************************************************)
EXTENDS Integers

CONSTANTS Planets, Resources, Grace

VARIABLES clock, stock, rate, capacity

vars == <<clock, stock, rate, capacity>>

Amount == [Resources -> Nat]

Init ==
  /\ clock = 0
  /\ stock \in [Planets -> Amount]
  /\ rate \in [Planets -> Amount]
  /\ capacity \in [Planets -> Amount]

\* One more tick of production, cut off at the capacity.
Produced(pl) ==
  [r \in Resources |->
     IF stock[pl][r] + rate[pl][r] <= capacity[pl][r]
     THEN stock[pl][r] + rate[pl][r] ELSE capacity[pl][r]]

Tick ==
  /\ clock' = clock + 1
  /\ stock' = [pl \in Planets |-> Produced(pl)]
  /\ UNCHANGED <<rate, capacity>>

Spend(pl) ==
  /\ stock' \in [Planets -> Amount]
  /\ \A r \in Resources : stock'[pl][r] <= stock[pl][r] + rate[pl][r] * Grace
  /\ \A other \in Planets \ {pl} : stock'[other] = stock[other]
  /\ UNCHANGED <<clock, rate, capacity>>

Adjust(pl) ==
  /\ rate' \in [Planets -> Amount]
  /\ capacity' \in [Planets -> Amount]
  /\ stock' \in [Planets -> Amount]
  /\ \A r \in Resources :
       /\ stock'[pl][r] <= stock[pl][r] + rate'[pl][r] * Grace
       /\ stock[pl][r] <= stock'[pl][r] + rate[pl][r] * Grace
  /\ \A other \in Planets \ {pl} :
       /\ rate'[other] = rate[other] /\ capacity'[other] = capacity[other]
       /\ stock'[other] = stock[other]
  /\ UNCHANGED clock

Next == Tick \/ \E pl \in Planets : Spend(pl) \/ Adjust(pl)

Spec == Init /\ [][Next]_vars
=============================================================================
