-------------------------- MODULE UniverseService --------------------------
(***************************************************************************)
(* Universes, registration and stored rates: UniverseService,              *)
(* AuthService.register and updateProfile, with their transactions as two  *)
(* steps, one that reads a snapshot and one that commits.                  *)
(*                                                                         *)
(* A registration inserts one user, one player and one planet, and nothing *)
(* else inserts any of them: all three are named by their number.  Rows    *)
(* are never deleted.  All planets are in galaxy 1.                        *)
(***************************************************************************)
EXTENDS Naturals, Sequences, FiniteSets

CONSTANTS
  Handlers,       \* requests and jobs that may be under way at once
  Emails,
  Speeds, Sizes,  \* what the administrator may set
  Configs,        \* a planet's building levels and production factors
  InitialConfig,
  BaseRate,       \* what a configuration produces at speed 1
  MaxUniverses, MaxUsers   \* bounds: rows

ASSUME RowsAssumption ==
  /\ Speeds \subseteq Nat \ {0}
  /\ Sizes \subseteq [systems : Nat \ {0}, positions : Nat \ {0}]
  /\ InitialConfig \in Configs
  /\ BaseRate \in [Configs -> Nat]
  /\ MaxUniverses \in Nat /\ MaxUsers \in Nat

VARIABLES
  universes,  \* Universe rows, in the order of createdAt
  email,      \* User.email
  planets,    \* Planet rows
  config,     \* BuildingLevel and BuildingSetting rows of a planet
  rate,       \* Production row of a planet
  request,    \* per handler: what it has read, and what is left to do
  abandoned   \* history: planets an interrupted update has not recomputed

rows == <<universes, email, planets, config, rate>>
vars == <<rows, request, abandoned>>

Universe == [speed : Speeds, size : Sizes]
Slot == UNION {(1 .. size.systems) \X (1 .. size.positions) : size \in Sizes}
Idle == [op |-> "idle"]

Ids(table) == DOMAIN table
PlanetsOf(u) == {p \in Ids(planets) : planets[p].universe = u}

(* The tables have the rows that their foreign keys name.                  *)
TypeOK ==
  /\ universes \in Seq(Universe) /\ Len(universes) <= MaxUniverses
  /\ email \in Seq(Emails) /\ Len(email) <= MaxUsers
  /\ planets \in Seq([universe : Ids(universes), slot : Slot])
  /\ config \in [Ids(planets) -> Configs]
  /\ rate \in [Ids(planets) -> Nat]
  /\ Len(planets) = Len(email)
  /\ abandoned \subseteq Ids(planets)
  /\ \A h \in Handlers : request[h].op \in {"update", "recompute"} =>
       request[h].todo \subseteq PlanetsOf(request[h].universe)

Init ==
  /\ universes = <<>> /\ email = <<>> /\ planets = <<>>
  /\ config = <<>> /\ rate = <<>>
  /\ request = [h \in Handlers |-> Idle]
  /\ abandoned = {}

Set(h, r) == request' = [request EXCEPT ![h] = r]
Done(h) == Set(h, Idle)

-----------------------------------------------------------------------------
(* Transactions.                                                           *)

\* A variant at a weaker level, where only written rows conflict.
SnapshotIsolated(h) ==
  request[h].op = "recompute" => config[request[h].planet] = request[h].old

\* A Serializable transaction commits only if what it has read is unchanged.
Serializable(h) ==
  LET r == request[h]
  IN  /\ universes[r.universe] = r.seen
      /\ r.op = "register" =>
           r.scanned = {p \in PlanetsOf(r.universe) : planets[p].slot[1] <= r.slot[1]}
      /\ r.op = "recompute" => config[r.planet] = r.old

\* recomputeProduction: the rate of a configuration, at the speed that was read.
RecomputeProduction(c, universe) == BaseRate[c] * universe.speed

-----------------------------------------------------------------------------
(* Registration.                                                           *)

Taken(u) == {planets[p].slot : p \in PlanetsOf(u)}

\* A variant that looks at the planets of all universes.
FreeAnywhere(u, system) ==
  {position \in 1 .. universes[u].size.positions :
     <<system, position>> \notin {planets[p].slot : p \in Ids(planets)}}

Free(u, system) ==
  {position \in 1 .. universes[u].size.positions : <<system, position>> \notin Taken(u)}

Open(u) == {system \in 1 .. universes[u].size.systems : Free(u, system) # {}}

\* Any position of the first system with a free one; 1:1 of a full universe,
\* which is taken.
FindRandomSlot(u) ==
  IF Open(u) = {} THEN {<<1, 1>>}
  ELSE LET first == CHOOSE s \in Open(u) : \A t \in Open(u) : s <= t
       IN  {<<first, position>> : position \in Free(u, first)}

\* No other user has the address.
EmailUnused(e, user) == \A i \in Ids(email) \ {user} : email[i] # e

\* The universe of a request is the one it names, or else the first.
Register(h) ==
  /\ request[h] = Idle
  /\ \E e \in Emails, u \in Ids(universes) :
       /\ EmailUnused(e, 0)
       /\ Set(h, [op |-> "checked", email |-> e, universe |-> u])
  /\ UNCHANGED <<rows, abandoned>>

BeginRegister(h) ==
  /\ request[h].op = "checked"
  /\ LET u == request[h].universe
     IN  \E slot \in FindRandomSlot(u) :
           Set(h, [op |-> "register", email |-> request[h].email, universe |-> u,
                   seen |-> universes[u], slot |-> slot,
                   scanned |-> {p \in PlanetsOf(u) : planets[p].slot[1] <= slot[1]}])
  /\ UNCHANGED <<rows, abandoned>>

\* A variant without the constraint on planets.
SlotUnchecked(u, slot) == u \in Ids(universes)

\* The unique constraints on User and Planet.  A statement that violates one
\* aborts the transaction: the further attempts of createStarterPlanet find it
\* aborted and fail (Fail).
SlotUnused(u, slot) == slot \notin Taken(u)

CommitRegister(h) ==
  LET r == request[h]
  IN  /\ r.op = "register"
      /\ EmailUnused(r.email, 0) /\ SlotUnused(r.universe, r.slot)
      /\ Serializable(h)
      /\ Len(email) < MaxUsers
      /\ email' = Append(email, r.email)
      /\ planets' = Append(planets, [universe |-> r.universe, slot |-> r.slot])
      /\ config' = Append(config, InitialConfig)
      /\ rate' = Append(rate, RecomputeProduction(InitialConfig, r.seen))
      /\ Done(h)
      /\ UNCHANGED <<universes, abandoned>>

\* updateProfile checks the address, and updates the row later.
UpdateProfile(h) ==
  /\ request[h] = Idle
  /\ \E e \in Emails, user \in Ids(email) :
       /\ EmailUnused(e, user)
       /\ Set(h, [op |-> "profile", email |-> e, user |-> user])
  /\ UNCHANGED <<rows, abandoned>>

\* A variant without the unique constraint.
CommitUnchecked(h) ==
  /\ request[h].op = "profile"
  /\ email' = [email EXCEPT ![request[h].user] = request[h].email]
  /\ Done(h)
  /\ UNCHANGED <<universes, planets, config, rate, abandoned>>

CommitProfile(h) ==
  /\ request[h].op = "profile"
  /\ EmailUnused(request[h].email, request[h].user)
  /\ email' = [email EXCEPT ![request[h].user] = request[h].email]
  /\ Done(h)
  /\ UNCHANGED <<universes, planets, config, rate, abandoned>>

-----------------------------------------------------------------------------
(* Stored rates, and the administrator.                                    *)

\* A transaction that recomputes one planet, of the planets of `todo`.
Recompute(h, p, new, todo) ==
  Set(h, [op |-> "recompute", universe |-> planets[p].universe,
          seen |-> universes[planets[p].universe],
          planet |-> p, old |-> config[p], new |-> new, todo |-> todo])

\* A finished building (finalizeQueueItem) or a new factor
\* (updateProductionFactor) recomputes its planet.
BeginChange(h) ==
  /\ request[h] = Idle
  /\ \E p \in Ids(planets), new \in Configs : Recompute(h, p, new, {})
  /\ UNCHANGED <<rows, abandoned>>

CreateUniverse ==
  /\ Len(universes) < MaxUniverses
  /\ \E universe \in Universe : universes' = Append(universes, universe)
  /\ UNCHANGED <<email, planets, config, rate, request, abandoned>>

\* An update that does not name speedProduction ends here.
UpdateUniverse(h) ==
  /\ request[h] = Idle
  /\ \E u \in Ids(universes), universe \in Universe, names \in BOOLEAN :
       /\ ~names => universe.speed = universes[u].speed
       /\ universes' = [universes EXCEPT ![u] = universe]
       /\ IF names THEN Set(h, [op |-> "updated", universe |-> u])
          ELSE UNCHANGED request
  /\ UNCHANGED <<email, planets, config, rate, abandoned>>

\* What remains to be recomputed.
GoOn(h, u, todo) ==
  IF todo = {} THEN Done(h)
  ELSE Set(h, [op |-> "update", universe |-> u, todo |-> todo])

\* A variant that forgets which universe was updated.
ListAllPlanets(h) ==
  /\ request[h].op = "updated"
  /\ GoOn(h, request[h].universe, Ids(planets))
  /\ UNCHANGED <<rows, abandoned>>

ListPlanets(h) ==
  /\ request[h].op = "updated"
  /\ GoOn(h, request[h].universe, PlanetsOf(request[h].universe))
  /\ UNCHANGED <<rows, abandoned>>

BeginRecompute(h) ==
  /\ request[h].op = "update"
  /\ \E p \in request[h].todo : Recompute(h, p, config[p], request[h].todo)
  /\ UNCHANGED <<rows, abandoned>>

CommitRecompute(h) ==
  LET r == request[h]
  IN  /\ r.op = "recompute"
      /\ Serializable(h)
      /\ config' = [config EXCEPT ![r.planet] = r.new]
      /\ rate' = [rate EXCEPT ![r.planet] = RecomputeProduction(r.new, r.seen)]
      /\ abandoned' = abandoned \ {r.planet}
      /\ GoOn(h, r.universe, r.todo \ {r.planet})
      /\ UNCHANGED <<universes, email, planets>>

-----------------------------------------------------------------------------

\* The planets a request still has to recompute.
Remaining(h) ==
  CASE request[h].op = "updated" -> PlanetsOf(request[h].universe)
    [] request[h].op \in {"update", "recompute"} -> request[h].todo
    [] OTHER -> {}

\* A transaction is refused, or the process dies: nothing takes the rest up.
Fail(h) ==
  /\ request[h] # Idle
  /\ abandoned' = abandoned \cup Remaining(h)
  /\ Done(h)
  /\ UNCHANGED rows

Next ==
  \/ CreateUniverse
  \/ \E h \in Handlers :
       \/ Register(h) \/ BeginRegister(h) \/ CommitRegister(h)
       \/ UpdateProfile(h) \/ CommitProfile(h)
       \/ BeginChange(h) \/ UpdateUniverse(h) \/ ListPlanets(h)
       \/ BeginRecompute(h) \/ CommitRecompute(h)
       \/ Fail(h)

Spec == Init /\ [][Next]_vars

-----------------------------------------------------------------------------

(* A stored rate is that of the planet's configuration at the speed its    *)
(* universe has now, unless an update that changed the speed is still to   *)
(* reach the planet or was interrupted before it did: no registration,     *)
(* finished building or other update stores a rate of a former speed.      *)
RatesFollowSpeed ==
  \A p \in Ids(planets) :
    \/ rate[p] = RecomputeProduction(config[p], universes[planets[p].universe])
    \/ p \in abandoned
    \/ \E h \in Handlers : p \in Remaining(h)

(* No two planets of a universe share a slot, also when the universe is    *)
(* full and findRandomSlot falls back to 1:1.                              *)
OnePlanetPerSlot ==
  \A p, q \in Ids(planets) : planets[p] = planets[q] => p = q

(* Two requests that both found an address unused, to register or to       *)
(* change a profile, do not both get it.                                   *)
OneUserPerEmail == \A i, j \in Ids(email) : email[i] = email[j] => i = j

(* The systems of a universe fill up one after the other, while the number *)
(* of positions in a system stays the same.                                *)
SystemsFillInOrder ==
  \A p \in Ids(planets) :
    LET u == planets[p].universe
    IN  \A system \in 1 .. planets[p].slot[1] - 1 :
          \A position \in 1 .. universes[u].size.positions :
            <<system, position>> \in Taken(u)
=============================================================================
