----------------------------- MODULE OrderBook -----------------------------
(***************************************************************************)
(* What the queue promises a player, as a book of orders would keep it: an *)
(* order is entered once, and only where the rules have room for it; later *)
(* it is delivered once, to the planet that placed it, as it is crossed    *)
(* out.  There are no jobs, workers, clocks or failures here.  The orderly *)
(* book also delivers the buildings of a planet one level at a time, in    *)
(* the order of their ends.                                                *)
(***************************************************************************)
EXTENDS Integers

CONSTANTS
  Ids,       \* the lines of the book
  NoOrder,   \* an empty line
  Planets, Buildings, Techs, ShipKeys

VARIABLES orders, level, research, ships

vars == <<orders, level, research, ships>>

OrderFor(type, keys) ==
  [type : {type}, planet : Planets, key : keys, n : Nat, startAt : Nat,
   endAt : Nat, status : {"PENDING"}]
Order == OrderFor("BUILDING", Buildings) \cup OrderFor("RESEARCH", Techs)
           \cup OrderFor("SHIP", ShipKeys)

Open(i) == orders[i].status = "PENDING"
OpenOf(type, pl) ==
  {i \in Ids : Open(i) /\ orders[i].type = type /\ orders[i].planet = pl}

Init ==
  /\ orders = [i \in Ids |-> NoOrder]
  /\ level \in [Planets -> [Buildings -> Nat]]
  /\ research = [pl \in Planets |-> [t \in Techs |-> 0]]
  /\ ships = [pl \in Planets |-> [s \in ShipKeys |-> 0]]

-----------------------------------------------------------------------------
(* Entering an order.                                                      *)

\* A building follows those the planet has under way; there is one ship
\* order per planet, and one research per player, for the next level.
Fits(o) ==
  LET open == OpenOf(o.type, o.planet)
  IN  CASE o.type = "BUILDING" -> /\ o.startAt < o.endAt
                                  /\ \A i \in open : orders[i].endAt <= o.startAt
        [] o.type = "RESEARCH" -> /\ open = {}
                                  /\ o.n = research[o.planet][o.key] + 1
        [] o.type = "SHIP" -> open = {}

Place(i) ==
  /\ orders[i] = NoOrder
  /\ orders'[i] \in Order
  /\ Fits(orders'[i])
  /\ orders' = [orders EXCEPT ![i] = orders'[i]]
  /\ UNCHANGED <<level, research, ships>>

-----------------------------------------------------------------------------
(* Delivering one.                                                         *)

DeliverBuilding(o) ==
  /\ o.type = "BUILDING"
  /\ level' = [level EXCEPT ![o.planet][o.key] = o.n]
  /\ UNCHANGED <<research, ships>>

DeliverResearch(o) ==
  /\ o.type = "RESEARCH"
  /\ research' = [research EXCEPT ![o.planet][o.key] = @ + 1]
  /\ UNCHANGED <<level, ships>>

DeliverShips(o) ==
  /\ o.type = "SHIP"
  /\ ships' = [ships EXCEPT ![o.planet][o.key] = @ + o.n]
  /\ UNCHANGED <<level, research>>

Deliver(i) ==
  /\ Open(i)
  /\ orders' = [orders EXCEPT ![i].status = "DONE"]
  /\ \/ DeliverBuilding(orders[i])
     \/ DeliverResearch(orders[i])
     \/ DeliverShips(orders[i])

\* The building is the one its planet has waited for longest, and the level
\* it is for is the next one.
InTurn(i) ==
  LET o == orders[i]
  IN  o.type = "BUILDING" =>
        /\ o.n = level[o.planet][o.key] + 1
        /\ \A j \in OpenOf("BUILDING", o.planet) : o.endAt <= orders[j].endAt

Next == \E i \in Ids : Place(i) \/ Deliver(i)

Spec == Init /\ [][Next]_vars

OrderlyNext == \E i \in Ids : Place(i) \/ (Deliver(i) /\ InTurn(i))

OrderlySpec == Init /\ [][OrderlyNext]_vars
=============================================================================
