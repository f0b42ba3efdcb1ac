--------------------------- MODULE UniverseProofs ---------------------------
(***************************************************************************)
(* Theorems about UniverseService, for any number of handlers and rows,    *)
(* any speeds, sizes, addresses and building levels.                       *)
(***************************************************************************)
EXTENDS UniverseService, SequenceTheorems, WellFoundedInduction, TLAPS

-----------------------------------------------------------------------------
(* Types.                                                                  *)

Planet == [universe : Nat, slot : Slot]

\* The tables, and the foreign key of a planet.
Rows ==
  /\ universes \in Seq(Universe) /\ Len(universes) <= MaxUniverses
  /\ email \in Seq(Emails) /\ Len(email) <= MaxUsers
  /\ planets \in Seq(Planet) /\ Len(planets) = Len(email)
  /\ config \in Seq(Configs) /\ Len(config) = Len(planets)
  /\ rate \in Seq(Nat) /\ Len(rate) = Len(planets)
  /\ \A p \in Ids(planets) : planets[p].universe \in Ids(universes)
  /\ abandoned \subseteq Ids(planets)

Requests ==
  {Idle}
  \cup [op : {"checked"}, email : Emails, universe : Nat]
  \cup [op : {"register"}, email : Emails, universe : Nat, seen : Universe,
        slot : Slot, scanned : SUBSET Nat]
  \cup [op : {"profile"}, email : Emails, user : Nat]
  \cup [op : {"updated"}, universe : Nat]
  \cup [op : {"update"}, universe : Nat, todo : SUBSET Nat]
  \cup [op : {"recompute"}, universe : Nat, seen : Universe, planet : Nat,
        old : Configs, new : Configs, todo : SUBSET Nat]

\* A request names rows that exist.
Linked(r) ==
  /\ r.op \in {"checked", "register", "updated", "update", "recompute"} =>
       r.universe \in Ids(universes)
  /\ r.op = "profile" => r.user \in Ids(email)
  /\ r.op \in {"update", "recompute"} => r.todo \subseteq PlanetsOf(r.universe)
  /\ r.op = "recompute" =>
       r.planet \in PlanetsOf(r.universe) /\ (r.todo # {} => r.planet \in r.todo)

Inv ==
  /\ Rows
  /\ request \in [Handlers -> Requests]
  /\ \A h \in Handlers : Linked(request[h])

\* Rows are only added, and a planet stays where it is.
Grow ==
  /\ Ids(universes) \subseteq Ids(universes')
  /\ Ids(email) \subseteq Ids(email')
  /\ Ids(planets) \subseteq Ids(planets')
  /\ \A p \in Ids(planets) : planets'[p] = planets[p]

LEMMA Numbers ==
  ASSUME Rows
  PROVE  /\ Len(universes) \in Nat /\ Len(email) \in Nat
         /\ Ids(universes) = 1 .. Len(universes)
         /\ Ids(email) = 1 .. Len(email) /\ Ids(planets) = 1 .. Len(email)
         /\ Ids(config) = 1 .. Len(email) /\ Ids(rate) = 1 .. Len(email)
         /\ \A u \in Ids(universes) : universes[u] \in Universe
         /\ \A p \in Ids(planets) : /\ planets[p] \in Planet
                                    /\ planets[p].universe \in Ids(universes)
                                    /\ config[p] \in Configs /\ rate[p] \in Nat
         /\ \A i \in Ids(email) : email[i] \in Emails
BY DEF Rows, Ids

\* What a request names exists for good.
LEMMA LinksStay ==
  ASSUME Rows, Rows', Grow, NEW r \in Requests, Linked(r)
  PROVE  Linked(r)'
<1>1. \A u : PlanetsOf(u) \subseteq PlanetsOf(u)'
  BY DEF PlanetsOf, Grow, Ids
<1> QED
  BY <1>1 DEF Linked, Grow, Ids

\* A request that is replaced by one with its rows.
LEMMA Moves ==
  ASSUME Inv, Rows', Grow, NEW h \in Handlers, NEW r \in Requests, Set(h, r), Linked(r)
  PROVE  Inv'
<1>1. request' = [request EXCEPT ![h] = r] /\ request \in [Handlers -> Requests]
  BY DEF Set, Inv
<1>2. request' \in [Handlers -> Requests]
  BY <1>1
<1>3. ASSUME NEW g \in Handlers PROVE Linked(request[g])'
  <2>1. CASE g = h
    <3>1. request'[g] = r
      BY <1>1, <2>1
    <3>2. Linked(r)'
      BY LinksStay DEF Inv
    <3> QED
      BY <3>1, <3>2 DEF Linked, PlanetsOf, Ids
  <2>2. CASE g # h
    <3>1. request'[g] = request[g] /\ request[g] \in Requests
      BY <1>1, <2>2
    <3>2. PICK x \in Requests : x = request[g]
      BY <3>1
    <3>3. Linked(x)
      BY <3>2 DEF Inv
    <3>4. Linked(x)'
      BY <3>3, LinksStay DEF Inv
    <3> QED
      BY <3>1, <3>2, <3>4 DEF Linked, PlanetsOf, Ids
  <2> QED
    BY <2>1, <2>2
<1> QED
  BY <1>2, <1>3 DEF Inv

\* Of the tables, a step that only touches requests changes none.
LEMMA Unchanged ==
  ASSUME Inv, UNCHANGED <<rows, abandoned>>
  PROVE  Rows' /\ Grow
BY DEF Inv, Rows, Grow, rows, Ids

LEMMA RegisterType ==
  ASSUME Inv, NEW h \in Handlers, Register(h)
  PROVE  Inv' /\ Grow
<1>1. PICK e \in Emails, u \in Ids(universes) :
        Set(h, [op |-> "checked", email |-> e, universe |-> u])
  BY DEF Register
<1>2. u \in Nat
  BY Numbers DEF Inv
<1> QED
  BY <1>1, <1>2, Moves, Unchanged DEF Register, Requests, Linked

\* A set of numbers has a least element.
LEMMA Least ==
  ASSUME NEW S \in SUBSET Nat, S # {}
  PROVE  \E s \in S : \A t \in S : s <= t
<1> DEFINE Less == OpToRel(<, Nat)
<1>1. \A s, t \in Nat : t < s => <<t, s>> \in Less
  BY DEF OpToRel
<1>2. IsWellFoundedOn(Less, Nat)
  BY NatLessThanWellFounded
<1> HIDE DEF Less
<1>3. \E s \in S : \A t \in S : <<t, s>> \notin Less
  BY <1>2, WFMin
<1>4. \A s, t \in Nat : t < s \/ s <= t
  OBVIOUS
<1> QED
  BY <1>1, <1>3, <1>4

LEMMA SlotType ==
  ASSUME Inv, NEW u \in Ids(universes), NEW slot \in FindRandomSlot(u)
  PROVE  slot \in Slot
<1>1. universes[u] \in Universe
  BY Numbers DEF Inv
<1>2. /\ universes[u].size \in Sizes
      /\ universes[u].size.systems \in Nat \ {0} /\ universes[u].size.positions \in Nat \ {0}
  BY <1>1, RowsAssumption DEF Universe
<1> DEFINE slots == (1 .. universes[u].size.systems) \X (1 .. universes[u].size.positions)
<1>3. slots \subseteq Slot
  BY <1>2 DEF Slot
<1>4. CASE Open(u) = {}
  <2>1. slot = <<1, 1>>
    BY <1>4 DEF FindRandomSlot
  <2> QED
    BY <1>2, <1>3, <2>1
<1>5. CASE Open(u) # {}
  <2>1. Open(u) \in SUBSET Nat
    BY <1>2 DEF Open
  <2>2. \E s \in Open(u) : \A t \in Open(u) : s <= t
    BY <1>5, <2>1, Least
  <2>3. PICK system \in Open(u) : slot \in {<<system, position>> : position \in Free(u, system)}
    BY <1>5, <2>2 DEF FindRandomSlot
  <2> QED
    BY <1>3, <2>3 DEF Open, Free
<1> QED
  BY <1>4, <1>5

LEMMA BeginRegisterType ==
  ASSUME Inv, NEW h \in Handlers, BeginRegister(h)
  PROVE  Inv' /\ Grow
<1> DEFINE u == request[h].universe
<1>1. /\ request[h].email \in Emails /\ u \in Nat
      /\ u \in Ids(universes)
  BY DEF Inv, Requests, Linked, BeginRegister, Idle
<1>2. universes[u] \in Universe
  BY <1>1, Numbers DEF Inv
<1>3. PICK slot \in FindRandomSlot(u) :
        Set(h, [op |-> "register", email |-> request[h].email, universe |-> u,
                seen |-> universes[u], slot |-> slot,
                scanned |-> {p \in PlanetsOf(u) : planets[p].slot[1] <= slot[1]}])
  BY DEF BeginRegister
<1>4. slot \in Slot
  BY <1>1, <1>3, SlotType
<1> DEFINE scanned == {p \in PlanetsOf(u) : planets[p].slot[1] <= slot[1]}
           r == [op |-> "register", email |-> request[h].email, universe |-> u,
                 seen |-> universes[u], slot |-> slot, scanned |-> scanned]
<1>5. scanned \in SUBSET Nat
  BY Numbers DEF Inv, PlanetsOf
<1>6. Set(h, r)
  BY <1>3
<1> HIDE DEF scanned
<1>7. r \in Requests /\ Linked(r)
  BY <1>1, <1>2, <1>4, <1>5 DEF Requests, Linked
<1> HIDE DEF r
<1> QED
  BY <1>6, <1>7, Moves, Unchanged DEF BeginRegister

LEMMA RateType ==
  ASSUME NEW c \in Configs, NEW universe \in Universe
  PROVE  RecomputeProduction(c, universe) \in Nat
<1>1. BaseRate[c] \in Nat /\ universe.speed \in Nat
  BY RowsAssumption DEF Universe
<1> QED
  BY <1>1 DEF RecomputeProduction

\* A request that ends leaves nothing that names a row.
LEMMA Ends ==
  ASSUME Inv, Rows', Grow, NEW h \in Handlers, Done(h)
  PROVE  Inv'
<1>1. Idle \in Requests /\ Linked(Idle)
  BY DEF Requests, Linked, Idle
<1> QED
  BY <1>1, Moves DEF Done

LEMMA CommitRegisterType ==
  ASSUME Inv, NEW h \in Handlers, CommitRegister(h)
  PROVE  Inv' /\ Grow
<1> DEFINE r == request[h]
           planet == [universe |-> r.universe, slot |-> r.slot]
           first == RecomputeProduction(InitialConfig, r.seen)
<1>1. /\ r.email \in Emails /\ r.universe \in Nat /\ r.seen \in Universe
      /\ r.slot \in Slot /\ r.universe \in Ids(universes)
  BY DEF Inv, Requests, Linked, CommitRegister, Idle
<1>2. planet \in Planet /\ first \in Nat
  BY <1>1, RateType, RowsAssumption DEF Planet
<1>3. /\ email' = Append(email, r.email) /\ planets' = Append(planets, planet)
      /\ config' = Append(config, InitialConfig) /\ rate' = Append(rate, first)
      /\ UNCHANGED <<universes, abandoned>> /\ Len(email) < MaxUsers
  BY DEF CommitRegister
<1> HIDE DEF first
<1>4. /\ email' \in Seq(Emails) /\ Len(email') = Len(email) + 1
      /\ planets' \in Seq(Planet) /\ Len(planets') = Len(planets) + 1
      /\ config' \in Seq(Configs) /\ Len(config') = Len(config) + 1
      /\ rate' \in Seq(Nat) /\ Len(rate') = Len(rate) + 1
  <2>1. /\ email \in Seq(Emails) /\ planets \in Seq(Planet)
        /\ config \in Seq(Configs) /\ rate \in Seq(Nat)
    BY DEF Inv, Rows
  <2>2. email' \in Seq(Emails) /\ Len(email') = Len(email) + 1
    BY <1>1, <1>3, <2>1
  <2>3. planets' \in Seq(Planet) /\ Len(planets') = Len(planets) + 1
    BY <1>2, <1>3, <2>1
  <2>4. config' \in Seq(Configs) /\ Len(config') = Len(config) + 1
    BY <1>3, <2>1, RowsAssumption
  <2>5. rate' \in Seq(Nat) /\ Len(rate') = Len(rate) + 1
    BY <1>2, <1>3, <2>1
  <2> QED
    BY <2>2, <2>3, <2>4, <2>5
<1>5. /\ Ids(planets') = 1 .. Len(planets) + 1
      /\ \A p \in 1 .. Len(planets) : planets'[p] = planets[p]
      /\ planets'[Len(planets) + 1] = planet
      /\ Ids(email') = 1 .. Len(email) + 1
  BY <1>2, <1>3, <1>4 DEF Inv, Rows, Ids
<1>6. Len(email) + 1 <= MaxUsers
  BY <1>3, RowsAssumption DEF Inv, Rows
<1>7. Grow
  BY <1>3, <1>5, Numbers DEF Inv, Grow, Rows
<1>8. \A p \in Ids(planets') : planets'[p].universe \in Ids(universes')
  BY <1>1, <1>3, <1>5, Numbers DEF Inv, Rows
<1>9. abandoned' \subseteq Ids(planets')
  BY <1>3, <1>7 DEF Grow, Inv, Rows
<1>10. Rows'
  BY <1>3, <1>4, <1>6, <1>8, <1>9 DEF Rows, Inv, Ids
<1> QED
  BY <1>7, <1>10, Ends DEF CommitRegister

LEMMA UpdateProfileType ==
  ASSUME Inv, NEW h \in Handlers, UpdateProfile(h)
  PROVE  Inv' /\ Grow
<1>1. PICK e \in Emails, user \in Ids(email) :
        Set(h, [op |-> "profile", email |-> e, user |-> user])
  BY DEF UpdateProfile
<1>2. user \in Nat
  BY Numbers DEF Inv
<1> QED
  BY <1>1, <1>2, Moves, Unchanged DEF UpdateProfile, Requests, Linked

LEMMA CommitProfileType ==
  ASSUME Inv, NEW h \in Handlers, CommitProfile(h)
  PROVE  Inv' /\ Grow
<1>1. request[h].email \in Emails
  BY DEF Inv, Requests, CommitProfile, Idle
<1>2. email' \in Seq(Emails) /\ Len(email') = Len(email) /\ Ids(email') = Ids(email)
  <2>1. /\ email \in Seq(Emails)
        /\ email' = [email EXCEPT ![request[h].user] = request[h].email]
    BY DEF Inv, Rows, CommitProfile
  <2>2. request[h].user \in 1 .. Len(email)
    BY Numbers DEF Inv, CommitProfile, Linked
  <2> QED
    BY <1>1, <2>1, <2>2, ExceptSeq, LenProperties DEF Ids
<1>3. Rows' /\ Grow
  BY <1>2 DEF CommitProfile, Inv, Rows, Grow, Ids
<1> QED
  BY <1>3, Ends DEF CommitProfile

LEMMA RecomputeType ==
  ASSUME Inv, NEW h \in Handlers, NEW p \in Ids(planets), NEW new \in Configs,
         NEW todo \in SUBSET PlanetsOf(planets[p].universe), todo # {} => p \in todo,
         Recompute(h, p, new, todo), UNCHANGED <<rows, abandoned>>
  PROVE  Inv' /\ Grow
<1> DEFINE u == planets[p].universe
           r == [op |-> "recompute", universe |-> u, seen |-> universes[u],
                 planet |-> p, old |-> config[p], new |-> new, todo |-> todo]
<1>1. /\ p \in Nat /\ u \in Nat /\ u \in Ids(universes)
      /\ universes[u] \in Universe /\ config[p] \in Configs
  BY Numbers DEF Inv
<1>2. p \in PlanetsOf(u) /\ todo \in SUBSET Nat
  BY Numbers DEF PlanetsOf, Inv
<1>3. r \in Requests
  BY <1>1, <1>2 DEF Requests
<1>4. Linked(r)
  BY <1>1, <1>2 DEF Linked
<1>5. Set(h, r)
  BY DEF Recompute
<1> HIDE DEF r
<1> QED
  BY <1>3, <1>4, <1>5, Moves, Unchanged

LEMMA BeginChangeType ==
  ASSUME Inv, NEW h \in Handlers, BeginChange(h)
  PROVE  Inv' /\ Grow
BY RecomputeType DEF BeginChange

LEMMA BeginRecomputeType ==
  ASSUME Inv, NEW h \in Handlers, BeginRecompute(h)
  PROVE  Inv' /\ Grow
<1>1. PICK p \in request[h].todo : Recompute(h, p, config[p], request[h].todo)
  BY DEF BeginRecompute
<1>2. request[h].todo \subseteq PlanetsOf(request[h].universe)
  BY DEF Inv, Linked, BeginRecompute
<1>3. p \in Ids(planets) /\ planets[p].universe = request[h].universe
  BY <1>2 DEF PlanetsOf
<1>4. config[p] \in Configs
  BY <1>3, Numbers DEF Inv
<1> QED
  BY <1>1, <1>2, <1>3, <1>4, RecomputeType DEF BeginRecompute

LEMMA CreateUniverseType ==
  ASSUME Inv, CreateUniverse
  PROVE  Inv' /\ Grow
<1>1. PICK universe \in Universe : universes' = Append(universes, universe)
  BY DEF CreateUniverse
<1>2. universes \in Seq(Universe)
  BY DEF Inv, Rows
<1>3. /\ universes' \in Seq(Universe) /\ Len(universes') = Len(universes) + 1
      /\ Ids(universes') = 1 .. Len(universes) + 1
  BY <1>1, <1>2 DEF Ids
<1>4. Ids(universes) = 1 .. Len(universes) /\ Len(universes) \in Nat
  BY Numbers DEF Inv
<1>5. Rows' /\ Grow
  BY <1>3, <1>4, RowsAssumption DEF CreateUniverse, Inv, Rows, Grow, Ids
<1>6. ASSUME NEW h \in Handlers PROVE Linked(request[h])'
  <2>1. request[h] \in Requests /\ Linked(request[h]) /\ request' = request
    BY DEF Inv, CreateUniverse
  <2>2. PICK x \in Requests : x = request[h]
    BY <2>1
  <2>3. Linked(x)'
    BY <1>5, <2>1, <2>2, LinksStay DEF Inv
  <2> QED
    BY <2>1, <2>2, <2>3 DEF Linked, PlanetsOf, Ids
<1> QED
  BY <1>5, <1>6 DEF Inv, CreateUniverse

LEMMA UpdateUniverseType ==
  ASSUME Inv, NEW h \in Handlers, UpdateUniverse(h)
  PROVE  Inv' /\ Grow
<1>1. PICK u \in Ids(universes), universe \in Universe, names \in BOOLEAN :
        /\ universes' = [universes EXCEPT ![u] = universe]
        /\ IF names THEN Set(h, [op |-> "updated", universe |-> u]) ELSE UNCHANGED request
  BY DEF UpdateUniverse
<1>2. universes \in Seq(Universe) /\ u \in 1 .. Len(universes)
  BY Numbers DEF Inv, Rows
<1>3. /\ universes' \in Seq(Universe) /\ Len(universes') = Len(universes)
      /\ Ids(universes') = Ids(universes)
  BY <1>1, <1>2, ExceptSeq, LenProperties DEF Ids
<1>4. Rows' /\ Grow
  BY <1>3 DEF UpdateUniverse, Inv, Rows, Grow, Ids
<1>5. CASE names
  <2> DEFINE r == [op |-> "updated", universe |-> u]
  <2>1. r \in Requests /\ Linked(r)
    BY <1>2 DEF Requests, Linked
  <2>2. Set(h, r)
    BY <1>1, <1>5
  <2> HIDE DEF r
  <2> QED
    BY <1>4, <2>1, <2>2, Moves
<1>6. CASE ~names
  <2>1. request[h] = Idle /\ Set(h, Idle)
    BY <1>1, <1>6 DEF UpdateUniverse, Set, Inv
  <2> QED
    BY <1>4, <2>1, Ends DEF Done
<1> QED
  BY <1>5, <1>6

LEMMA GoOnType ==
  ASSUME Inv, Rows', Grow, NEW h \in Handlers, NEW u \in Ids(universes),
         NEW todo \in SUBSET PlanetsOf(u), GoOn(h, u, todo)
  PROVE  Inv'
<1>1. CASE todo = {}
  BY <1>1, Ends DEF GoOn
<1>2. CASE todo # {}
  <2> DEFINE r == [op |-> "update", universe |-> u, todo |-> todo]
  <2>1. r \in Requests /\ Linked(r)
    BY Numbers DEF Requests, Linked, Inv, PlanetsOf
  <2>2. Set(h, r)
    BY <1>2 DEF GoOn
  <2> HIDE DEF r
  <2> QED
    BY <2>1, <2>2, Moves
<1> QED
  BY <1>1, <1>2

LEMMA ListPlanetsType ==
  ASSUME Inv, NEW h \in Handlers, ListPlanets(h)
  PROVE  Inv' /\ Grow
<1>1. request[h].universe \in Ids(universes)
  BY DEF Inv, Linked, ListPlanets
<1>2. Rows' /\ Grow
  BY Unchanged DEF ListPlanets
<1> QED
  BY <1>1, <1>2, GoOnType DEF ListPlanets

LEMMA CommitRecomputeType ==
  ASSUME Inv, NEW h \in Handlers, CommitRecompute(h)
  PROVE  Inv' /\ Grow
<1> DEFINE r == request[h]
           next == RecomputeProduction(r.new, r.seen)
<1>1. r.op = "recompute" /\ r.new \in Configs /\ r.seen \in Universe
  BY DEF Inv, Requests, CommitRecompute, Idle
<1>2. /\ r.universe \in Ids(universes) /\ r.todo \subseteq PlanetsOf(r.universe)
      /\ r.planet \in 1 .. Len(email)
  BY <1>1, Numbers DEF Inv, Linked, PlanetsOf
<1>3. next \in Nat
  BY <1>1, RateType
<1> HIDE DEF next
<1>4. /\ config' = [config EXCEPT ![r.planet] = r.new]
      /\ rate' = [rate EXCEPT ![r.planet] = next]
      /\ config \in Seq(Configs) /\ rate \in Seq(Nat)
      /\ Len(config) = Len(email) /\ Len(rate) = Len(email)
  BY DEF CommitRecompute, next, Inv, Rows
<1>5. /\ config' \in Seq(Configs) /\ Len(config') = Len(config)
      /\ rate' \in Seq(Nat) /\ Len(rate') = Len(rate)
  BY <1>1, <1>2, <1>3, <1>4, ExceptSeq
<1>6. Rows' /\ Grow
  BY <1>5 DEF CommitRecompute, Inv, Rows, Grow, Ids
<1>7. GoOn(h, r.universe, r.todo \ {r.planet})
  BY DEF CommitRecompute
<1>8. r.todo \ {r.planet} \in SUBSET PlanetsOf(r.universe)
  BY <1>2
<1> QED
  BY <1>2, <1>6, <1>7, <1>8, GoOnType

LEMMA FailType ==
  ASSUME Inv, NEW h \in Handlers, Fail(h)
  PROVE  Inv' /\ Grow
<1>1. Remaining(h) \subseteq Ids(planets)
  <2>1. request[h].op \in {"update", "recompute"} =>
          request[h].todo \subseteq PlanetsOf(request[h].universe)
    BY DEF Inv, Linked
  <2> QED
    BY <2>1 DEF Remaining, PlanetsOf
<1>2. Rows' /\ Grow
  BY <1>1 DEF Fail, Inv, Rows, Grow, rows, Ids
<1> QED
  BY <1>2, Ends DEF Fail

LEMMA InitType ==
  ASSUME Init
  PROVE  Inv
<1>1. Rows
  BY EmptySeq, RowsAssumption DEF Init, Rows, Ids
<1>2. Idle \in Requests /\ Linked(Idle)
  BY DEF Requests, Linked, Idle
<1> QED
  BY <1>1, <1>2 DEF Init, Inv

LEMMA Stutters ==
  ASSUME Inv, UNCHANGED vars
  PROVE  Inv' /\ Grow
<1>1. Rows' /\ Grow /\ UNCHANGED request
  BY Unchanged DEF vars
<1> QED
  BY <1>1 DEF Inv, Linked, PlanetsOf, Ids, vars, rows

LEMMA StepType ==
  ASSUME Inv, [Next]_vars
  PROVE  Inv' /\ Grow
<1>1. CASE CreateUniverse
  BY <1>1, CreateUniverseType
<1>2. ASSUME NEW h \in Handlers,
             \/ Register(h) \/ BeginRegister(h) \/ CommitRegister(h)
             \/ UpdateProfile(h) \/ CommitProfile(h)
             \/ BeginChange(h) \/ UpdateUniverse(h) \/ ListPlanets(h)
             \/ BeginRecompute(h) \/ CommitRecompute(h)
             \/ Fail(h)
      PROVE  Inv' /\ Grow
  BY <1>2, RegisterType, BeginRegisterType, CommitRegisterType, UpdateProfileType,
     CommitProfileType, BeginChangeType, UpdateUniverseType, ListPlanetsType,
     BeginRecomputeType, CommitRecomputeType, FailType
<1>3. CASE UNCHANGED vars
  BY <1>3, Stutters
<1> QED
  BY <1>1, <1>2, <1>3 DEF Next

LEMMA TypeInvariant == Spec => []Inv
<1>1. Inv /\ [Next]_vars => Inv'
  BY StepType
<1> QED
  BY <1>1, InitType, PTL DEF Spec

LEMMA InvTypes ==
  ASSUME Inv
  PROVE  TypeOK
<1>1. planets \in Seq([universe : Ids(universes), slot : Slot])
  <2> DEFINE Located == [universe : Ids(universes), slot : Slot]
  <2>1. /\ Len(planets) \in Nat /\ planets \in [1 .. Len(planets) -> Planet]
    BY LenProperties DEF Inv, Rows
  <2>2. ASSUME NEW p \in 1 .. Len(planets) PROVE planets[p] \in Located
    <3>1. planets[p].universe \in Ids(universes) /\ planets[p] \in Planet
      BY <2>1, <2>2, Numbers DEF Inv, Rows
    <3> QED
      BY <3>1 DEF Planet
  <2>3. planets \in [1 .. Len(planets) -> Located]
    BY <2>1, <2>2
  <2> QED
    BY <2>1, <2>3, SeqDef
<1>2. config \in [Ids(planets) -> Configs] /\ rate \in [Ids(planets) -> Nat]
  <2>1. /\ config \in [1 .. Len(config) -> Configs] /\ rate \in [1 .. Len(rate) -> Nat]
        /\ Ids(planets) = 1 .. Len(planets)
    BY LenProperties DEF Inv, Rows, Ids
  <2> QED
    BY <2>1 DEF Inv, Rows
<1> QED
  BY <1>1, <1>2 DEF Inv, Rows, Linked, TypeOK

(* The tables keep their types and their foreign keys, whatever requests   *)
(* interleave, abort or die: also a request that goes on for long after it *)
(* has read names rows that exist.                                         *)
THEOREM TypeCorrect == Spec => []TypeOK
BY TypeInvariant, InvTypes, PTL

-----------------------------------------------------------------------------
(* Addresses and slots.                                                    *)

LEMMA EmailStep ==
  ASSUME Inv, OneUserPerEmail, [Next]_vars
  PROVE  OneUserPerEmail'
<1>1. CASE UNCHANGED email
  BY <1>1 DEF OneUserPerEmail, Ids
<1>2. ASSUME NEW h \in Handlers, CommitRegister(h)
      PROVE  OneUserPerEmail'
  <2>1. /\ email' = Append(email, request[h].email)
        /\ \A i \in Ids(email) : email[i] # request[h].email
    BY <1>2, Numbers DEF CommitRegister, EmailUnused, Inv
  <2>2. /\ Ids(email) = 1 .. Len(email) /\ Len(email) \in Nat
        /\ email \in Seq(Emails) /\ request[h].email \in Emails
    <3>1. request[h].email \in Emails
      BY <1>2 DEF Inv, CommitRegister, Requests, Idle
    <3> QED
      BY <3>1, Numbers DEF Inv, Rows
  <2>3. /\ Ids(email') = 1 .. Len(email) + 1
        /\ \A i \in 1 .. Len(email) : email'[i] = email[i]
        /\ email'[Len(email) + 1] = request[h].email
    BY <2>1, <2>2 DEF Ids
  <2>4. \A i \in 1 .. Len(email) + 1 : i \in 1 .. Len(email) \/ i = Len(email) + 1
    BY <2>2
  <2> QED
    BY <2>1, <2>2, <2>3, <2>4 DEF OneUserPerEmail
<1>3. ASSUME NEW h \in Handlers, CommitProfile(h)
      PROVE  OneUserPerEmail'
  <2>1. /\ email' = [email EXCEPT ![request[h].user] = request[h].email]
        /\ \A i \in Ids(email) \ {request[h].user} : email[i] # request[h].email
    BY <1>3 DEF CommitProfile, EmailUnused
  <2> QED
    BY <2>1 DEF OneUserPerEmail, Ids
<1> QED
  BY <1>1, <1>2, <1>3 DEF Next, vars, rows, CreateUniverse, Register, BeginRegister,
     UpdateProfile, BeginChange, UpdateUniverse, ListPlanets, BeginRecompute,
     CommitRecompute, Fail

(* An address has one user, whatever requests found it unused at the same  *)
(* time.                                                                   *)
THEOREM Addresses == Spec => []OneUserPerEmail
<1>1. Init => OneUserPerEmail
  BY DEF Init, OneUserPerEmail, Ids
<1>2. Inv /\ OneUserPerEmail /\ [Next]_vars => OneUserPerEmail'
  BY EmailStep
<1> QED
  BY <1>1, <1>2, TypeInvariant, PTL DEF Spec

\* A registration appends one planet, which it has read where.
LEMMA NewPlanet ==
  ASSUME Inv, NEW h \in Handlers, CommitRegister(h)
  PROVE  /\ Ids(planets) = 1 .. Len(planets) /\ Len(planets) \in Nat
         /\ Ids(planets') = 1 .. Len(planets) + 1
         /\ \A p \in Ids(planets) : planets'[p] = planets[p]
         /\ planets'[Len(planets) + 1] =
              [universe |-> request[h].universe, slot |-> request[h].slot]
         /\ \A p \in Ids(planets') : p \in Ids(planets) \/ p = Len(planets) + 1
<1>1. /\ planets' = Append(planets, [universe |-> request[h].universe,
                                     slot |-> request[h].slot])
      /\ planets \in Seq(Planet) /\ Ids(planets) = 1 .. Len(planets)
      /\ Len(planets) \in Nat
  BY Numbers DEF CommitRegister, Inv, Rows
<1>2. [universe |-> request[h].universe, slot |-> request[h].slot] \in Planet
  BY DEF CommitRegister, Inv, Requests, Planet, Idle
<1>3. /\ Len(planets') = Len(planets) + 1 /\ Ids(planets') = 1 .. Len(planets')
      /\ \A p \in 1 .. Len(planets) : planets'[p] = planets[p]
      /\ planets'[Len(planets) + 1] =
           [universe |-> request[h].universe, slot |-> request[h].slot]
  BY <1>1, <1>2, AppendProperties, LenProperties DEF Ids
<1> QED
  BY <1>1, <1>3

LEMMA SlotStep ==
  ASSUME Inv, OnePlanetPerSlot, [Next]_vars
  PROVE  OnePlanetPerSlot'
<1>1. CASE UNCHANGED planets
  BY <1>1 DEF OnePlanetPerSlot, Ids
<1>2. ASSUME NEW h \in Handlers, CommitRegister(h)
      PROVE  OnePlanetPerSlot'
  <2>1. \A p \in Ids(planets) :
          planets[p] # [universe |-> request[h].universe, slot |-> request[h].slot]
    <3> SUFFICES ASSUME NEW p \in Ids(planets),
                        planets[p].universe = request[h].universe,
                        planets[p].slot = request[h].slot
                 PROVE  FALSE
      OBVIOUS
    <3>1. request[h].slot \in Taken(request[h].universe)
      BY DEF Taken, PlanetsOf
    <3> QED
      BY <1>2, <3>1 DEF CommitRegister, SlotUnused
  <2> QED
    BY <1>2, <2>1, NewPlanet DEF OnePlanetPerSlot
<1> QED
  BY <1>1, <1>2 DEF Next, vars, rows, CreateUniverse, Register, BeginRegister,
     UpdateProfile, CommitProfile, BeginChange, UpdateUniverse, ListPlanets,
     BeginRecompute, CommitRecompute, Fail

(* No slot of a universe has two planets, whatever slots concurrent        *)
(* registrations have found free.                                          *)
THEOREM Slots == Spec => []OnePlanetPerSlot
<1>1. Init => OnePlanetPerSlot
  BY DEF Init, OnePlanetPerSlot, Ids
<1>2. Inv /\ OnePlanetPerSlot /\ [Next]_vars => OnePlanetPerSlot'
  BY SlotStep
<1> QED
  BY <1>1, <1>2, TypeInvariant, PTL DEF Spec

-----------------------------------------------------------------------------
(* The order in which systems fill up.                                     *)

\* Universes may differ in their systems, and be enlarged by some.
SamePositions == \A a, b \in Sizes : a.positions = b.positions

\* No slot is free in a system before that of `slot`.
Filled(u, slot) ==
  \A system \in 1 .. slot[1] - 1 :
    \A position \in 1 .. universes[u].size.positions : <<system, position>> \in Taken(u)

Searched ==
  \A h \in Handlers : request[h].op = "register" =>
    Filled(request[h].universe, request[h].slot)

LEMMA FilledStays ==
  ASSUME SamePositions, Inv, Inv', Grow, NEW u \in Ids(universes), NEW slot, Filled(u, slot)
  PROVE  Filled(u, slot)'
<1>1. u \in Ids(universes') /\ universes[u] \in Universe /\ universes'[u] \in Universe
  BY Numbers DEF Inv, Grow, Rows, Ids
<1>2. universes'[u].size.positions = universes[u].size.positions
  BY <1>1 DEF SamePositions, Universe
<1>3. \A s \in Taken(u) : s \in Taken(u)'
  BY DEF Taken, PlanetsOf, Grow, Ids
<1> QED
  BY <1>2, <1>3 DEF Filled

LEMMA SlotFilled ==
  ASSUME Inv, NEW u \in Ids(universes), NEW slot \in FindRandomSlot(u)
  PROVE  Filled(u, slot)
<1>1. universes[u] \in Universe
  BY Numbers DEF Inv
<1>2. universes[u].size.systems \in Nat
  BY <1>1, RowsAssumption DEF Universe
<1>3. CASE Open(u) = {}
  BY <1>3 DEF FindRandomSlot, Filled
<1>4. CASE Open(u) # {}
  <2>1. Open(u) \in SUBSET Nat
    BY <1>2 DEF Open
  <2>2. \E s \in Open(u) : \A t \in Open(u) : s <= t
    BY <1>4, <2>1, Least
  <2>3. PICK first \in Open(u) : /\ \A t \in Open(u) : first <= t
                                 /\ slot \in {<<first, position>> : position \in Free(u, first)}
    BY <1>4, <2>2 DEF FindRandomSlot
  <2>4. slot[1] = first /\ first \in 1 .. universes[u].size.systems
    BY <2>3 DEF Open
  <2>5. ASSUME NEW system \in 1 .. first - 1
        PROVE  Free(u, system) = {}
    <3>1. system \notin Open(u)
      BY <1>2, <2>3, <2>4, <2>5
    <3> QED
      BY <1>2, <2>4, <2>5, <3>1 DEF Open
  <2> QED
    BY <2>4, <2>5 DEF Filled, Free
<1> QED
  BY <1>3, <1>4

LEMMA FillStep ==
  ASSUME SamePositions, Inv, Searched, SystemsFillInOrder, [Next]_vars
  PROVE  Searched' /\ SystemsFillInOrder'
<1>1. Inv' /\ Grow
  BY StepType
<1>2. ASSUME NEW h \in Handlers, request'[h] = request[h], request[h].op = "register"
      PROVE  Filled(request[h].universe, request[h].slot)'
  <2>1. PICK u \in Ids(universes), slot \in Slot :
          u = request[h].universe /\ slot = request[h].slot
    BY <1>2 DEF Inv, Linked, Requests, Idle
  <2>2. Filled(u, slot)'
    BY <1>1, <1>2, <2>1, FilledStays DEF Searched
  <2> QED
    BY <1>2, <2>1, <2>2 DEF Filled, Taken, PlanetsOf, Ids
<1>3. ASSUME NEW p \in Ids(planets), planets'[p] = planets[p]
      PROVE  Filled(planets[p].universe, planets[p].slot)'
  <2>1. PICK u \in Ids(universes), slot \in Slot :
          u = planets[p].universe /\ slot = planets[p].slot
    BY Numbers DEF Inv, Planet
  <2>2. Filled(u, slot)'
    BY <1>1, <2>1, FilledStays DEF SystemsFillInOrder, Filled
  <2> QED
    BY <1>3, <2>1, <2>2 DEF Filled, Taken, PlanetsOf, Ids
<1>4. Searched'
  <2> SUFFICES ASSUME NEW h \in Handlers, request'[h].op = "register"
               PROVE  Filled(request[h].universe, request[h].slot)'
    BY DEF Searched
  <2>1. CASE request'[h] = request[h]
    BY <1>2, <2>1
  <2>2. CASE BeginRegister(h)
    <3>1. PICK u \in Ids(universes) : \E slot \in FindRandomSlot(u) :
            /\ request'[h].universe = u /\ request'[h].slot = slot
      <4>1. request[h].universe \in Ids(universes)
        BY <2>2 DEF BeginRegister, Inv, Linked
      <4> QED
        BY <2>2, <4>1 DEF BeginRegister, Set, Inv
    <3>2. PICK slot \in FindRandomSlot(u) :
            /\ request'[h].universe = u /\ request'[h].slot = slot
      BY <3>1
    <3>3. Filled(u, slot)'
      BY <1>1, SlotFilled, FilledStays
    <3> QED
      BY <3>2, <3>3 DEF Filled, Taken, PlanetsOf, Ids
  <2>3. request'[h] = request[h] \/ BeginRegister(h)
    <3>1. request \in [Handlers -> Requests]
      BY DEF Inv
    <3>2. ASSUME NEW g \in Handlers, NEW r, Set(g, r), r.op # "register"
          PROVE  request'[h] = request[h]
      BY <3>1, <3>2 DEF Set
    <3>3. Idle.op # "register"
      BY DEF Idle
    <3>4. ASSUME NEW g \in Handlers, NEW u, NEW todo, GoOn(g, u, todo)
          PROVE  request'[h] = request[h]
      BY <3>2, <3>3, <3>4 DEF GoOn, Done
    <3>5. ASSUME NEW g \in Handlers, NEW p, NEW new, NEW todo, Recompute(g, p, new, todo)
          PROVE  request'[h] = request[h]
      BY <3>2, <3>5 DEF Recompute
    <3>6. ASSUME NEW g \in Handlers, BeginRegister(g), g # h
          PROVE  request'[h] = request[h]
      BY <3>1, <3>6 DEF BeginRegister, Set
    <3>7. ASSUME NEW g \in Handlers,
                 \/ Register(g) \/ UpdateProfile(g) \/ UpdateUniverse(g)
          PROVE  request'[h] = request[h]
      BY <3>2, <3>7 DEF Register, UpdateProfile, UpdateUniverse
    <3>8. ASSUME NEW g \in Handlers, CommitRegister(g) \/ CommitProfile(g) \/ Fail(g)
          PROVE  request'[h] = request[h]
      BY <3>2, <3>3, <3>8 DEF CommitRegister, CommitProfile, Fail, Done
    <3>9. ASSUME NEW g \in Handlers,
                 BeginChange(g) \/ BeginRecompute(g) \/ ListPlanets(g) \/ CommitRecompute(g)
          PROVE  request'[h] = request[h]
      BY <3>4, <3>5, <3>9 DEF BeginChange, BeginRecompute, ListPlanets, CommitRecompute
    <3>10. CASE CreateUniverse \/ UNCHANGED vars
      BY <3>10 DEF CreateUniverse, vars
    <3> QED
      BY <3>6, <3>7, <3>8, <3>9, <3>10 DEF Next
  <2> QED
    BY <2>1, <2>2, <2>3
<1>5. SystemsFillInOrder'
  <2> SUFFICES ASSUME NEW p \in Ids(planets')
               PROVE  Filled(planets[p].universe, planets[p].slot)'
    BY DEF SystemsFillInOrder, Filled, Ids
  <2>1. CASE p \in Ids(planets)
    BY <1>1, <1>3, <2>1 DEF Grow
  <2>2. ASSUME NEW h \in Handlers, CommitRegister(h), p \notin Ids(planets)
        PROVE  Filled(planets[p].universe, planets[p].slot)'
    <3>1. /\ planets'[p].universe = request[h].universe
          /\ planets'[p].slot = request[h].slot
      <4>1. p = Len(planets) + 1
        BY <2>2, NewPlanet
      <4>2. planets'[p] = [universe |-> request[h].universe, slot |-> request[h].slot]
        BY <2>2, <4>1, NewPlanet
      <4> QED
        BY <4>2
    <3>2. PICK u \in Ids(universes), slot \in Slot :
            u = request[h].universe /\ slot = request[h].slot
      BY <2>2 DEF Inv, Linked, Requests, Idle, CommitRegister
    <3>3. Filled(u, slot)'
      BY <1>1, <2>2, <3>2, FilledStays DEF Searched, CommitRegister
    <3> QED
      BY <3>1, <3>2, <3>3 DEF Filled, Taken, PlanetsOf, Ids
  <2>3. UNCHANGED planets \/ \E h \in Handlers : CommitRegister(h)
    BY DEF Next, vars, rows, CreateUniverse, Register, BeginRegister, UpdateProfile,
       CommitProfile, BeginChange, UpdateUniverse, ListPlanets, BeginRecompute,
       CommitRecompute, Fail
  <2> QED
    BY <2>1, <2>2, <2>3
<1> QED
  BY <1>4, <1>5

(* If systems have the same number of positions, a universe fills up       *)
(* system by system, however registrations overlap and universes are       *)
(* resized.                                                                *)
THEOREM FillOrder ==
  ASSUME SamePositions
  PROVE  Spec => []SystemsFillInOrder
<1>1. Init => Searched /\ SystemsFillInOrder
  BY DEF Init, Searched, SystemsFillInOrder, Ids, Idle
<1>2. Inv /\ Searched /\ SystemsFillInOrder /\ [Next]_vars =>
        Searched' /\ SystemsFillInOrder'
  BY FillStep
<1> QED
  BY <1>1, <1>2, TypeInvariant, PTL DEF Spec

-----------------------------------------------------------------------------
(* Stored rates.                                                           *)

\* The disjuncts of RatesFollowSpeed.
Current(p) == rate[p] = RecomputeProduction(config[p], universes[planets[p].universe])
Awaited(p) == p \in abandoned \/ \E h \in Handlers : p \in Remaining(h)

LEMMA RateCases ==
  RatesFollowSpeed <=> \A p \in Ids(planets) : Current(p) \/ Awaited(p)
BY DEF RatesFollowSpeed, Current, Awaited

\* What remains to be done, by the step of the request.
LEMMA RemainingCases ==
  ASSUME NEW h \in Handlers
  PROVE  /\ request[h].op \in {"update", "recompute"} => Remaining(h) = request[h].todo
         /\ request[h].op = "updated" => Remaining(h) = PlanetsOf(request[h].universe)
         /\ request[h].op \in {"idle", "checked", "register", "profile"} => Remaining(h) = {}
<1>1. CASE request[h].op \in {"update", "recompute"}
  BY <1>1 DEF Remaining
<1>2. CASE request[h].op = "updated"
  BY <1>2 DEF Remaining
<1>3. CASE request[h].op \notin {"update", "recompute", "updated"}
  <2>1. Remaining(h) = {}
    BY <1>3 DEF Remaining
  <2> QED
    BY <1>3, <2>1
<1> QED
  BY <1>1, <1>2, <1>3

LEMMA RemainingStays ==
  ASSUME Inv, Grow, NEW h \in Handlers, request'[h] = request[h]
  PROVE  \A p \in Remaining(h) : p \in Remaining(h)'
<1>1. CASE request[h].op \in {"update", "recompute"}
  <2>1. Remaining(h) = request[h].todo
    BY <1>1, RemainingCases
  <2>2. Remaining(h)' = request'[h].todo
    BY <1>1 DEF Remaining
  <2> QED
    BY <2>1, <2>2
<1>2. CASE request[h].op = "updated"
  <2>1. Remaining(h) = PlanetsOf(request[h].universe)
    BY <1>2, RemainingCases
  <2>2. Remaining(h)' = PlanetsOf(request[h].universe)'
    BY <1>2 DEF Remaining
  <2> QED
    BY <2>1, <2>2 DEF PlanetsOf, Grow, Ids
<1>3. CASE request[h].op \notin {"update", "recompute", "updated"}
  <2>1. Remaining(h) = {}
    BY <1>3 DEF Remaining
  <2> QED
    BY <2>1
<1> QED
  BY <1>1, <1>2, <1>3

\* A planet whose row, rate and speed a step leaves alone.
LEMMA PlanetKept ==
  ASSUME Inv, Grow, RatesFollowSpeed, NEW p \in Ids(planets),
         config'[p] = config[p], rate'[p] = rate[p],
         universes'[planets[p].universe].speed = universes[planets[p].universe].speed,
         Awaited(p) => Awaited(p)'
  PROVE  (Current(p) \/ Awaited(p))'
<1>1. Current(p) \/ Awaited(p)
  BY RateCases
<1>2. Current(p) => Current(p)'
  BY DEF Current, RecomputeProduction, Grow, Ids
<1> QED
  BY <1>1, <1>2

\* A planet is still awaited if the request that moves goes on with it.
LEMMA AwaitedStays ==
  ASSUME Inv, Grow, NEW h \in Handlers, NEW p,
         \A g \in Handlers \ {h} : request'[g] = request[g],
         p \in abandoned => Awaited(p)',
         p \in Remaining(h) => Awaited(p)'
  PROVE  Awaited(p) => Awaited(p)'
<1>1. ASSUME NEW g \in Handlers, p \in Remaining(g)
      PROVE  Awaited(p)'
  <2>1. CASE g = h
    BY <1>1, <2>1
  <2>2. CASE g # h
    BY <1>1, <2>2, RemainingStays DEF Awaited
  <2> QED
    BY <2>1, <2>2
<1> QED
  BY <1>1 DEF Awaited

\* One request moves.
LEMMA OthersStay ==
  ASSUME Inv, NEW h \in Handlers, NEW r, Set(h, r)
  PROVE  /\ request'[h] = r
         /\ \A g \in Handlers \ {h} : request'[g] = request[g]
BY DEF Inv, Set

\* A request that has nothing left to recompute, and changes no rate.
LEMMA PlainStep ==
  ASSUME Inv, Inv', Grow, RatesFollowSpeed, NEW h \in Handlers, NEW r, Set(h, r),
         request[h].op \in {"idle", "checked", "register", "profile"},
         UNCHANGED <<universes, planets, config, rate, abandoned>>
  PROVE  RatesFollowSpeed'
<1>1. ASSUME NEW p \in Ids(planets)
      PROVE  (Current(p) \/ Awaited(p))'
  <2>1. Remaining(h) = {}
    BY RemainingCases
  <2>2. Awaited(p) => Awaited(p)'
    BY <2>1, OthersStay, AwaitedStays DEF Awaited
  <2> QED
    BY <2>2, PlanetKept
<1>2. \A p \in Ids(planets') : p \in Ids(planets)
  BY DEF Ids
<1> QED
  BY <1>1, <1>2 DEF RatesFollowSpeed, Current, Awaited, Ids

LEMMA RatesByPlanet ==
  ASSUME \A p \in Ids(planets') : (Current(p) \/ Awaited(p))'
  PROVE  RatesFollowSpeed'
BY DEF RatesFollowSpeed, Current, Awaited, Ids

LEMMA CommitRegisterRate ==
  ASSUME Inv, Inv', Grow, RatesFollowSpeed, NEW h \in Handlers, CommitRegister(h)
  PROVE  RatesFollowSpeed'
<1> DEFINE r == request[h]
<1>1. Set(h, Idle) /\ r.op = "register" /\ Remaining(h) = {}
  BY RemainingCases DEF CommitRegister, Done
<1>2. /\ config' = Append(config, InitialConfig) /\ config \in Seq(Configs)
      /\ rate' = Append(rate, RecomputeProduction(InitialConfig, r.seen)) /\ rate \in Seq(Nat)
      /\ Len(config) = Len(planets) /\ Len(rate) = Len(planets)
  BY DEF CommitRegister, Inv, Rows
<1>3. RecomputeProduction(InitialConfig, r.seen) \in Nat
  <2>1. r.seen \in Universe
    BY <1>1 DEF Inv, Requests, Idle
  <2> QED
    BY <2>1, RateType, RowsAssumption
<1>4. /\ \A p \in 1 .. Len(planets) : config'[p] = config[p]
      /\ config'[Len(planets) + 1] = InitialConfig
  BY <1>2, AppendProperties, RowsAssumption
<1>5. /\ \A p \in 1 .. Len(planets) : rate'[p] = rate[p]
      /\ rate'[Len(planets) + 1] = RecomputeProduction(InitialConfig, r.seen)
  BY <1>2, <1>3, AppendProperties
<1>6. ASSUME NEW p \in Ids(planets)
      PROVE  (Current(p) \/ Awaited(p))'
  <2>1. config'[p] = config[p] /\ rate'[p] = rate[p]
    BY <1>4, <1>5, NewPlanet
  <2>2. universes' = universes /\ abandoned' = abandoned
    BY DEF CommitRegister
  <2>3. Awaited(p) => Awaited(p)'
    BY <1>1, <2>2, OthersStay, AwaitedStays DEF Awaited
  <2> QED
    BY <2>1, <2>2, <2>3, PlanetKept
<1>7. ASSUME NEW p, p = Len(planets) + 1
      PROVE  Current(p)'
  <2>1. /\ planets'[p] = [universe |-> r.universe, slot |-> r.slot]
        /\ universes'[r.universe] = r.seen
    BY <1>7, NewPlanet DEF CommitRegister, Serializable
  <2>2. planets'[p].universe = r.universe
    BY <2>1
  <2> QED
    BY <1>4, <1>5, <1>7, <2>1, <2>2 DEF Current, RecomputeProduction
<1> QED
  BY <1>6, <1>7, NewPlanet, RatesByPlanet

LEMMA CreateUniverseRate ==
  ASSUME Inv, Inv', Grow, RatesFollowSpeed, CreateUniverse
  PROVE  RatesFollowSpeed'
<1>1. ASSUME NEW p \in Ids(planets)
      PROVE  (Current(p) \/ Awaited(p))'
  <2>1. PICK universe \in Universe : universes' = Append(universes, universe)
    BY DEF CreateUniverse
  <2>2. universes \in Seq(Universe) /\ planets[p].universe \in 1 .. Len(universes)
    BY Numbers DEF Inv, Rows
  <2>3. universes'[planets[p].universe] = universes[planets[p].universe]
    BY <2>1, <2>2, AppendProperties
  <2>4. Awaited(p) => Awaited(p)'
    BY RemainingStays DEF Awaited, CreateUniverse
  <2> QED
    BY <2>3, <2>4, PlanetKept DEF CreateUniverse
<1> QED
  BY <1>1, RatesByPlanet DEF CreateUniverse, Ids

LEMMA UpdateUniverseRate ==
  ASSUME Inv, Inv', Grow, RatesFollowSpeed, NEW h \in Handlers, UpdateUniverse(h)
  PROVE  RatesFollowSpeed'
<1>1. PICK u \in Ids(universes), universe \in Universe, names \in BOOLEAN :
        /\ ~names => universe.speed = universes[u].speed
        /\ universes' = [universes EXCEPT ![u] = universe]
        /\ IF names THEN Set(h, [op |-> "updated", universe |-> u]) ELSE UNCHANGED request
  BY DEF UpdateUniverse
<1>2. /\ UNCHANGED <<email, planets, config, rate, abandoned>>
      /\ request[h].op = "idle" /\ Remaining(h) = {}
  BY RemainingCases DEF UpdateUniverse, Idle
<1>3. ASSUME NEW p \in Ids(planets)
      PROVE  (Current(p) \/ Awaited(p))'
  <2>1. Awaited(p) => Awaited(p)'
    <3>1. CASE names
      BY <1>1, <1>2, <3>1, OthersStay, AwaitedStays DEF Awaited
    <3>2. CASE ~names
      BY <1>1, <1>2, <3>2, AwaitedStays DEF Awaited
    <3> QED
      BY <3>1, <3>2
  <2>2. CASE names /\ planets[p].universe = u
    <3>1. request'[h] = [op |-> "updated", universe |-> u]
      BY <1>1, <2>2, OthersStay
    <3>2. Remaining(h)' = {q \in Ids(planets') : planets'[q].universe = u}
      BY <3>1 DEF Remaining, PlanetsOf, Ids
    <3>3. p \in Remaining(h)'
      BY <1>2, <2>2, <3>2 DEF Ids
    <3> QED
      BY <3>3 DEF Awaited
  <2>3. CASE ~names \/ planets[p].universe # u
    <3>1. universes'[planets[p].universe].speed = universes[planets[p].universe].speed
      <4>1. /\ planets[p].universe \in 1 .. Len(universes) /\ u \in 1 .. Len(universes)
            /\ universes \in Seq(Universe)
        BY Numbers DEF Inv, Rows
      <4>2. \A j \in 1 .. Len(universes) :
              universes'[j] = IF j = u THEN universe ELSE universes[j]
        BY <1>1, <4>1, ExceptSeq
      <4> QED
        BY <1>1, <2>3, <4>1, <4>2
    <3> QED
      BY <1>2, <2>1, <3>1, PlanetKept
  <2> QED
    BY <2>2, <2>3
<1> QED
  BY <1>2, <1>3, RatesByPlanet DEF Ids

LEMMA FailRate ==
  ASSUME Inv, Inv', Grow, RatesFollowSpeed, NEW h \in Handlers, Fail(h)
  PROVE  RatesFollowSpeed'
<1>1. ASSUME NEW p \in Ids(planets)
      PROVE  (Current(p) \/ Awaited(p))'
  <2>1. p \in abandoned \cup Remaining(h) => Awaited(p)'
    BY DEF Fail, Awaited
  <2>2. \A g \in Handlers \ {h} : request'[g] = request[g]
    BY OthersStay DEF Fail, Done
  <2>3. Awaited(p) => Awaited(p)'
    BY <2>1, <2>2, AwaitedStays
  <2> QED
    BY <2>3, PlanetKept DEF Fail, rows
<1> QED
  BY <1>1, RatesByPlanet DEF Fail, rows, Ids

LEMMA ListPlanetsRate ==
  ASSUME Inv, Inv', Grow, RatesFollowSpeed, NEW h \in Handlers, ListPlanets(h)
  PROVE  RatesFollowSpeed'
<1> DEFINE todo == PlanetsOf(request[h].universe)
<1>1. Remaining(h) = todo /\ GoOn(h, request[h].universe, todo)
  BY RemainingCases DEF ListPlanets
<1>2. UNCHANGED <<rows, abandoned>>
  BY DEF ListPlanets
<1>3. ASSUME NEW p \in Ids(planets)
      PROVE  (Current(p) \/ Awaited(p))'
  <2>1. \A g \in Handlers \ {h} : request'[g] = request[g]
    BY <1>1, OthersStay DEF GoOn, Done
  <2>2. p \in todo => Awaited(p)'
    <3> SUFFICES ASSUME p \in todo PROVE Awaited(p)'
      OBVIOUS
    <3>1. request'[h] = [op |-> "update", universe |-> request[h].universe, todo |-> todo]
      BY <1>1, OthersStay DEF GoOn
    <3>2. request'[h].op = "update" /\ request'[h].todo = todo
      BY <3>1
    <3>3. Remaining(h)' = request'[h].todo
      BY <3>2 DEF Remaining
    <3> QED
      BY <3>2, <3>3 DEF Awaited
  <2>3. p \in abandoned => Awaited(p)'
    BY <1>2 DEF Awaited
  <2>4. Awaited(p) => Awaited(p)'
    BY <1>1, <2>1, <2>2, <2>3, AwaitedStays
  <2> QED
    BY <1>2, <2>4, PlanetKept DEF rows
<1> QED
  BY <1>2, <1>3, RatesByPlanet DEF rows, Ids

LEMMA BeginRecomputeRate ==
  ASSUME Inv, Inv', Grow, RatesFollowSpeed, NEW h \in Handlers, BeginRecompute(h)
  PROVE  RatesFollowSpeed'
<1>1. PICK q \in request[h].todo : Recompute(h, q, config[q], request[h].todo)
  BY DEF BeginRecompute
<1>2. UNCHANGED <<rows, abandoned>> /\ Remaining(h) = request[h].todo
  BY RemainingCases DEF BeginRecompute
<1>3. request'[h].op = "recompute" /\ request'[h].todo = request[h].todo
  BY <1>1, OthersStay DEF Recompute
<1>4. \A g \in Handlers \ {h} : request'[g] = request[g]
  BY <1>1, OthersStay DEF Recompute
<1>5. ASSUME NEW p \in Ids(planets)
      PROVE  (Current(p) \/ Awaited(p))'
  <2>1. p \in Remaining(h) => Awaited(p)'
    <3>1. Remaining(h)' = request'[h].todo
      BY <1>3 DEF Remaining
    <3> QED
      BY <1>2, <1>3, <3>1 DEF Awaited
  <2>2. p \in abandoned => Awaited(p)'
    BY <1>2 DEF Awaited
  <2>3. Awaited(p) => Awaited(p)'
    BY <1>4, <2>1, <2>2, AwaitedStays
  <2> QED
    BY <1>2, <2>3, PlanetKept DEF rows
<1> QED
  BY <1>2, <1>5, RatesByPlanet DEF rows, Ids

LEMMA CommitRecomputeRate ==
  ASSUME Inv, Inv', Grow, RatesFollowSpeed, NEW h \in Handlers, CommitRecompute(h)
  PROVE  RatesFollowSpeed'
<1> DEFINE r == request[h]
           rest == r.todo \ {r.planet}
<1>1. /\ r.op = "recompute" /\ r.universe \in Ids(universes)
      /\ r.planet \in PlanetsOf(r.universe)
  BY DEF CommitRecompute, Inv, Linked
<1>2. Remaining(h) = r.todo
  BY <1>1, RemainingCases
<1>3. /\ config' = [config EXCEPT ![r.planet] = r.new]
      /\ rate' = [rate EXCEPT ![r.planet] = RecomputeProduction(r.new, r.seen)]
      /\ abandoned' = abandoned \ {r.planet}
      /\ GoOn(h, r.universe, rest)
      /\ UNCHANGED <<universes, email, planets>>
      /\ universes[r.universe] = r.seen
  BY DEF CommitRecompute, Serializable
<1>4. \A g \in Handlers \ {h} : request'[g] = request[g]
  BY <1>3, OthersStay DEF GoOn, Done
<1>5. ASSUME NEW p \in Ids(planets), p = r.planet
      PROVE  Current(p)'
  <2>1. planets[p].universe = r.universe /\ p \in Ids(config) /\ p \in Ids(rate)
    BY <1>1, <1>5, Numbers DEF PlanetsOf, Inv
  <2>2. config'[p] = r.new /\ rate'[p] = RecomputeProduction(r.new, r.seen)
    BY <1>3, <1>5, <2>1 DEF Ids
  <2> QED
    BY <1>3, <2>1, <2>2 DEF Current, RecomputeProduction
<1>6. ASSUME NEW p \in Ids(planets), p # r.planet
      PROVE  (Current(p) \/ Awaited(p))'
  <2>1. config'[p] = config[p] /\ rate'[p] = rate[p]
    BY <1>3, <1>6, Numbers DEF Inv, Ids
  <2>2. p \in r.todo => Awaited(p)'
    <3> SUFFICES ASSUME p \in rest PROVE Awaited(p)'
      BY <1>6
    <3>1. request'[h] = [op |-> "update", universe |-> r.universe, todo |-> rest]
      BY <1>3, OthersStay DEF GoOn
    <3>2. request'[h].op = "update" /\ request'[h].todo = rest
      BY <3>1
    <3>3. Remaining(h)' = request'[h].todo
      BY <3>2 DEF Remaining
    <3> QED
      BY <3>2, <3>3 DEF Awaited
  <2>3. p \in abandoned => Awaited(p)'
    BY <1>3, <1>6 DEF Awaited
  <2>4. Awaited(p) => Awaited(p)'
    BY <1>2, <1>4, <2>2, <2>3, AwaitedStays
  <2> QED
    BY <1>3, <2>1, <2>4, PlanetKept
<1> QED
  BY <1>3, <1>5, <1>6, RatesByPlanet DEF Ids

LEMMA RateStep ==
  ASSUME Inv, RatesFollowSpeed, [Next]_vars
  PROVE  RatesFollowSpeed'
<1>1. Inv' /\ Grow
  BY StepType
<1>2. ASSUME NEW h \in Handlers,
             Register(h) \/ BeginRegister(h) \/ UpdateProfile(h) \/ BeginChange(h)
      PROVE  RatesFollowSpeed'
  <2>1. \E r : Set(h, r)
    BY <1>2 DEF Register, BeginRegister, UpdateProfile, BeginChange, Recompute
  <2>2. request[h].op \in {"idle", "checked"}
    BY <1>2 DEF Register, BeginRegister, UpdateProfile, BeginChange, Idle
  <2>3. UNCHANGED <<universes, planets, config, rate, abandoned>>
    BY <1>2 DEF Register, BeginRegister, UpdateProfile, BeginChange, rows
  <2> QED
    BY <1>1, <2>1, <2>2, <2>3, PlainStep
<1>3. ASSUME NEW h \in Handlers, CommitProfile(h)
      PROVE  RatesFollowSpeed'
  BY <1>1, <1>3, PlainStep DEF CommitProfile, Done
<1>4. CASE UNCHANGED vars
  BY <1>4 DEF RatesFollowSpeed, Remaining, PlanetsOf, Ids, vars, rows
<1> QED
  BY <1>1, <1>2, <1>3, <1>4, CreateUniverseRate, UpdateUniverseRate, CommitRegisterRate,
     ListPlanetsRate, BeginRecomputeRate, CommitRecomputeRate, FailRate DEF Next

(* A planet's rate follows the speed of its universe, but for planets an   *)
(* update has still to reach or was interrupted before it reached,         *)
(* whatever registrations, buildings and other updates it runs with.       *)
THEOREM Rates == Spec => []RatesFollowSpeed
<1>1. Init => RatesFollowSpeed
  BY DEF Init, RatesFollowSpeed, Ids
<1>2. Inv /\ RatesFollowSpeed /\ [Next]_vars => RatesFollowSpeed'
  BY RateStep
<1> QED
  BY <1>1, <1>2, TypeInvariant, PTL DEF Spec
=============================================================================
