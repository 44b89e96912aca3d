------------------------------- MODULE Cells -------------------------------
(***************************************************************************)
(* The life of the cells of a room: they are allocated, registered, put on *)
(* the grid, simulated, eaten, merged or expired, taken out of every       *)
(* registry, reported to the clients and deleted (src/src/Room.cpp,        *)
(* src/src/entity/*.cpp, src/src/NextId.cpp).                              *)
(*                                                                         *)
(* The registries hold raw Cell pointers, so the order of the steps is all *)
(* that keeps them valid: an event carries a pointer through the queue     *)
(* m_gameContext or m_deathContext, Room::update() drains both, the first  *)
(* one first, and Room::synchronize() deletes what update() buried.  The   *)
(* timers of the room run in one strand: their handlers do not overlap,    *)
(* but come in any order.  Room::update() is split into phases, during     *)
(* which no other handler runs.                                            *)
(*                                                                         *)
(* Mass and geometry are abstracted: any two cells of which one is         *)
(* simulated may touch, and any outcome the classes allow may follow.      *)
(* Room::init() makes the first cells as the generators do, but without a  *)
(* look at the limits; here a room starts empty.                           *)
(***************************************************************************)
EXTENDS Integers, Sequences, FiniteSets, SequencesExt

CONSTANTS
    Cell,           \* the memory a cell can be allocated at
    MaxQuantity,    \* config <kind>.maxQuantity
    Batch,          \* config generator.<kind>.quantity
    MotherFood,     \* the most food a mother makes at a time
    MaxAvatars,     \* bound on the avatars of all players together
    MaxEvents       \* bound on the queue of game events when a cell touches or moves

Counted == {"food", "virus", "phage", "mother"}
Mobs == {"virus", "phage", "mother"}
Kinds == Counted \cup {"avatar", "bullet"}

ASSUME CellsAssumption ==
    /\ IsFiniteSet(Cell)
    /\ MaxQuantity \in [Counted -> Nat]
    /\ Batch \in [Counted -> Nat]
    /\ MotherFood \in Nat
    /\ MaxAvatars \in Nat
    /\ MaxEvents \in Nat

VARIABLES
    kind,           \* the class of the cell at an address; "none" if it is free
    id,             \* Cell::id; 0 if the address is free
    zombie,         \* the cells with Cell::zombie set
    moving,         \* the cells with a velocity
    registry,       \* m_createdCells, m_activatedCells, ...: see Registries
    grid,           \* the cells in a sector of m_gridmap
    mobs,           \* m_viruses, m_phages and m_mothers together
    quantity,       \* m_foodQuantity, m_virusesQuantity, ...
    deadCells,      \* m_deadCells
    game,           \* m_gameContext: the events posted to it
    deaths,         \* m_deathContext: the cells whose death was posted to it
    unusedIds,      \* NextId::m_unusedIds, the top last
    nextId,         \* NextId::m_nextId
    phase           \* "idle", or where update() stands

vars == <<kind, id, zombie, moving, registry, grid, mobs, quantity, deadCells,
          game, deaths, unusedIds, nextId, phase>>

Registries ==
    {"created", "activated", "processing", "modified", "new", "spawnCheck"}

Event == [op : {"mass", "started", "stopped"}, cell : Cell]

Allocated == {c \in Cell : kind[c] # "none"}
OfKind(k) == {c \in Cell : kind[c] = k}

TypeOK ==
    /\ kind \in [Cell -> Kinds \cup {"none"}]
    /\ id \in [Cell -> Nat]
    /\ zombie \subseteq Cell
    /\ moving \subseteq Cell
    /\ registry \in [Registries -> SUBSET Cell]
    /\ grid \subseteq Cell
    /\ mobs \subseteq Cell
    /\ quantity \in [Counted -> Nat]
    /\ deadCells \in Seq(Cell)
    /\ game \in Seq(Event)
    /\ deaths \in Seq(Cell)
    /\ unusedIds \in Seq(Nat)
    /\ nextId \in Nat
    /\ phase \in {"idle", "requests", "interact", "game", "death"}

Init ==
    /\ kind = [c \in Cell |-> "none"]
    /\ id = [c \in Cell |-> 0]
    /\ zombie = {}
    /\ moving = {}
    /\ registry = [r \in Registries |-> {}]
    /\ grid = {}
    /\ mobs = {}
    /\ quantity = [k \in Counted |-> 0]
    /\ deadCells = <<>>
    /\ game = <<>>
    /\ deaths = <<>>
    /\ unusedIds = <<>>
    /\ nextId = 1
    /\ phase = "idle"

-----------------------------------------------------------------------------
\* Cells are made, emit events, and are killed.

\* The ways to list n different elements of S.
Lists(S, n) == {list \in [1..n -> S] : IsInjective(list)}

\* n calls of NextId::pop(): the unused ids from the top, then new ones.
Popped(n) ==
    [i \in 1..n |-> LET u == Len(unusedIds)
                    IN IF i <= u THEN unusedIds[u + 1 - i] ELSE nextId + i - u - 1]

Min2(a, b) == IF a <= b THEN a ELSE b

\* Mutant of PopIds: the unused ids are read and not removed.
PeekIds(n) ==
    /\ nextId' = nextId + n - Min2(n, Len(unusedIds))
    /\ UNCHANGED unusedIds

PopIds(n) ==
    /\ unusedIds' = SubSeq(unusedIds, 1, Len(unusedIds) - Min2(n, Len(unusedIds)))
    /\ nextId' = nextId + n - Min2(n, Len(unusedIds))

\* The registries updateNewCellRegistries puts a cell of kind k in.
Options(k) ==
    {"created", "new", "modified"}
        \cup (IF k = "food" THEN {} ELSE {"activated"})
        \cup (IF k \in {"food", "bullet"} THEN {} ELSE {"spawnCheck"})

\* createAvatar, createFood, ...: the cells of the list new, all of kind k, are
\* added to the registries reg.
CreateIn(reg, new, k) ==
    LET cells == Range(new)
        place(c) == CHOOSE i \in DOMAIN new : new[i] = c
    IN
    /\ kind' = [c \in Cell |-> IF c \in cells THEN k ELSE kind[c]]
    /\ id' = [c \in Cell |-> IF c \in cells THEN Popped(Len(new))[place(c)] ELSE id[c]]
    /\ PopIds(Len(new))
    /\ registry' = [r \in Registries |->
                        IF r \in Options(k) THEN reg[r] \cup cells ELSE reg[r]]
    /\ mobs' = IF k \in Mobs THEN mobs \cup cells ELSE mobs
    /\ quantity' = IF k \in Counted
                   THEN [quantity EXCEPT ![k] = @ + Len(new)] ELSE quantity

Create(new, k) == CreateIn(registry, new, k)

Unmade == UNCHANGED <<kind, id, registry, mobs, quantity, unusedIds, nextId>>

\* The kinds of cells whose event the room subscribes to.
Subscribed(op) ==
    CASE op = "mass" -> Kinds \ {"food", "bullet"}
      [] op = "started" -> {"avatar", "virus", "phage"}
      [] op = "stopped" -> Kinds

\* emit(): what the cell c of kind k posts to m_gameContext.
Emit(op, c, k) == IF k \in Subscribed(op) THEN <<[op |-> op, cell |-> c]>> ELSE <<>>

\* The events op of the cells of a list, all of kind k.
EmitAll(op, list, k) ==
    IF k \in Subscribed(op) THEN [i \in DOMAIN list |-> [op |-> op, cell |-> list[i]]] ELSE <<>>

\* kill(): the cells of the list are zombies, and their deaths are posted.
Kill(list) ==
    /\ zombie' = zombie \cup Range(list)
    /\ deaths' = deaths \o list

NoKill == UNCHANGED <<zombie, deaths>>
Free == Cell \ Allocated
Living(k) == OfKind(k) \ zombie

-----------------------------------------------------------------------------
\* Handlers of timers and of the strand, between two updates.

\* generateFood, generateViruses, ...
ToGenerate(k) == Min2(Batch[k], MaxQuantity[k] - quantity[k])

Generate(k) ==
    /\ phase = "idle"
    /\ quantity[k] <= MaxQuantity[k]
    /\ \E new \in Lists(Free, ToGenerate(k)) :
        /\ new # <<>>
        /\ Create(new, k)
        /\ game' = game \o EmitAll("mass", new, k)
    /\ NoKill
    /\ UNCHANGED <<moving, grid, deadCells, phase>>

\* generateFoodByMothers(): a mother is not asked once the limit is reached,
\* but one that is asked makes all its food.
FoodByMothers(n) ==
    /\ n \in 1..(MotherFood * Cardinality(OfKind("mother") \cap mobs))
    /\ quantity["food"] < MaxQuantity["food"]
    /\ n - MotherFood < MaxQuantity["food"] - quantity["food"]

GenerateFoodByMothers ==
    /\ phase = "idle"
    /\ \E n \in 1..Cardinality(Free) :
        /\ FoodByMothers(n)
        /\ \E new \in Lists(Free, n) :
            /\ Create(new, "food")
            /\ moving' = moving \cup Range(new)
    /\ NoKill
    /\ UNCHANGED <<grid, deadCells, game, phase>>

\* Player::respawn()
Respawn ==
    /\ phase = "idle"
    /\ Cardinality(OfKind("avatar")) < MaxAvatars
    /\ \E new \in Lists(Free, 1) :
        /\ Create(new, "avatar")
        /\ game' = game \o EmitAll("mass", new, "avatar")
    /\ NoKill
    /\ UNCHANGED <<moving, grid, deadCells, phase>>

\* Player::handleAnnihilation() of a player with the avatars of a list: each
\* becomes a virus.
Annihilate ==
    /\ phase = "idle"
    /\ \E n \in 1..Cardinality(Living("avatar")) :
        \E list \in Lists(Living("avatar"), n), new \in Lists(Free, n) :
            /\ Create(new, "virus")
            /\ game' = game \o EmitAll("mass", new, "virus")
            /\ Kill(list)
    /\ UNCHANGED <<moving, grid, deadCells, phase>>

\* killExpiredCells().  It does not look at zombie: that it kills no cell twice
\* is due to checkExpirableCellsInterval being longer than updateInterval.
KillExpiredCells ==
    /\ phase = "idle"
    /\ \E n \in 1..Cardinality(mobs \ zombie) : \E list \in Lists(mobs \ zombie, n) :
        Kill(list)
    /\ Unmade
    /\ UNCHANGED <<moving, grid, deadCells, game, phase>>

\* The timers of a player: Player::handleDeflation(), and Player::startMotion()
\* when a bot has found a target or update() reads that a client has sent Move.
EmitForAvatars(op) ==
    /\ \E n \in 1..Cardinality(Living("avatar")) :
        /\ Len(game) + n <= MaxEvents
        /\ \E list \in Lists(Living("avatar"), n) :
            game' = game \o EmitAll(op, list, "avatar")
    /\ NoKill /\ Unmade
    /\ UNCHANGED <<moving, grid, deadCells, phase>>

Deflate == phase = "idle" /\ EmitForAvatars("mass")
StartMotion == phase \in {"idle", "requests"} /\ EmitForAvatars("started")

\* synchronize(): what was buried is reported and deleted.
Delete(cells) ==
    /\ kind' = [c \in Cell |-> IF c \in cells THEN "none" ELSE kind[c]]
    /\ zombie' = zombie \ cells
    /\ moving' = moving \ cells
    /\ id' = [c \in Cell |-> IF c \in cells THEN 0 ELSE id[c]]
    /\ unusedIds' = unusedIds \o [i \in DOMAIN deadCells |-> id[deadCells[i]]]

Synchronize ==
    /\ phase = "idle"
    /\ Delete(Range(deadCells))
    /\ registry' = [registry EXCEPT !["modified"] = {}, !["new"] = {}]
    /\ deadCells' = <<>>
    /\ UNCHANGED <<grid, mobs, quantity, game, deaths, nextId, phase>>

-----------------------------------------------------------------------------
\* update(): the requests, the simulation, the collisions, the two queues.

BeginUpdate ==
    /\ phase = "idle"
    /\ phase' = "requests"
    /\ NoKill /\ Unmade
    /\ UNCHANGED <<moving, grid, deadCells, game>>

\* Avatar::eject(): the bullet moves as the avatar does, and is pushed unless
\* the point is the position of the avatar.
Eject(c) ==
    /\ phase = "requests"
    /\ Len(game) < MaxEvents
    /\ \E new \in Lists(Free, 1), pushed \in BOOLEAN :
        /\ Create(new, "bullet")
        /\ moving' = IF pushed \/ c \in moving THEN moving \cup Range(new) ELSE moving
    /\ game' = game \o Emit("mass", c, "avatar")
    /\ NoKill
    /\ UNCHANGED <<grid, deadCells, phase>>

\* Player::split(), one avatar of those it splits.
Split(c) ==
    /\ phase = "requests"
    /\ Cardinality(OfKind("avatar")) < MaxAvatars
    /\ \E new \in Lists(Free, 1), pushed \in BOOLEAN :
        /\ Create(new, "avatar")
        /\ moving' = IF pushed \/ c \in moving THEN moving \cup Range(new) ELSE moving
        /\ game' = game \o EmitAll("mass", new, "avatar") \o Emit("mass", c, "avatar")
                        \o (IF pushed THEN EmitAll("started", new, "avatar") ELSE <<>>)
    /\ NoKill
    /\ UNCHANGED <<grid, deadCells, phase>>

\* m_processingCells at the start of the simulation: a created cell is in it if
\* it was activated or moves.
ToProcess ==
    registry.processing \cup registry.activated \cup (registry.created \cap moving)

\* Mutant of ToGrid: only what is simulated is put on the grid.
ToGridIfProcessed == registry.created \cap ToProcess

\* The created cells are put on the grid before anything is simulated.
ToGrid == registry.created

\* An avatar may gather speed; a cell whose velocity turns back stops, and the
\* room hears that of cells of any kind.  Every simulated cell counts as
\* modified: that those at rest may not is left out.
Simulate ==
    /\ phase = "requests"
    /\ phase' = "interact"
    /\ grid' = grid \cup ToGrid
    /\ \E driven \in SUBSET (ToProcess \cap OfKind("avatar")), n \in 0..Cardinality(ToProcess \cap moving) :
        \E stopped \in Lists((ToProcess \cap moving) \ driven, n) :
            /\ moving' = (moving \cup driven) \ Range(stopped)
            /\ game' = game \o [i \in 1..n |-> [op |-> "stopped", cell |-> stopped[i]]]
    /\ registry' = [registry EXCEPT !["created"] = {}, !["activated"] = {},
                        !["processing"] = ToProcess, !["modified"] = @ \cup ToProcess]
    /\ NoKill
    /\ UNCHANGED <<kind, id, mobs, quantity, deadCells, unusedIds, nextId>>

\* Which cell of two kinds gains the mass of the other one, and kills it.
Eats(k, l) ==
    \/ k = "avatar" /\ l \in {"avatar", "food", "bullet"}
    \/ k = "mother" /\ l \in {"avatar", "bullet", "virus", "phage"}

Absorb(c, d) ==
    /\ Eats(kind[c], kind[d])
    /\ Kill(<<d>>)
    /\ game' = game \o Emit("mass", c, kind[c])
    /\ Unmade
    /\ UNCHANGED moving

\* Food on a mob is lost.
Crush(c, d) ==
    /\ kind[c] \in Mobs /\ kind[d] = "food"
    /\ Kill(<<d>>)
    /\ Unmade
    /\ UNCHANGED <<moving, game>>

\* Mutant of Push: startMotion() is forgotten.
PushSilently(c) == UNCHANGED game

\* A velocity set by a collision is announced by startMotion().
Push(c) == game' = game \o Emit("started", c, kind[c])

\* A bullet pushes a virus or a phage.
Bounce(c, d) ==
    /\ kind[c] \in {"virus", "phage"} /\ kind[d] = "bullet"
    /\ Kill(<<d>>)
    /\ moving' = moving \cup {c}
    /\ Push(c)
    /\ Unmade

\* A phage takes mass from an avatar.
Drain(c, d) ==
    /\ kind[c] = "phage" /\ kind[d] = "avatar"
    /\ Len(game) < MaxEvents
    /\ game' = game \o Emit("mass", d, "avatar")
    /\ NoKill /\ Unmade
    /\ UNCHANGED moving

\* An avatar on a virus or a mother explodes (Player::onAvatarExplode).
Burst(c, d) ==
    /\ kind[c] = "avatar" /\ kind[d] \in {"virus", "mother"}
    /\ Kill(<<d>>)
    /\ \E n \in 0..(MaxAvatars - Cardinality(OfKind("avatar"))) : \E new \in Lists(Free, n) :
        /\ Create(new, "avatar")
        /\ moving' = moving \cup Range(new)
        /\ game' = game \o [i \in 1..(2 * n) |-> [op |-> IF i % 2 = 1 THEN "mass" ELSE "started",
                                                   cell |-> new[(i + 1) \div 2]]]
                        \o (IF n > 0 THEN Emit("mass", c, "avatar") ELSE <<>>)

\* A virus and a phage make a mother, two of the same kind a larger one.
Merge(c, d) ==
    LET k == IF kind[c] = kind[d] THEN kind[c] ELSE "mother" IN
    /\ {kind[c], kind[d]} \subseteq {"virus", "phage"}
    /\ Kill(<<c, d>>)
    /\ \E new \in Lists(Free, 1) :
        /\ Create(new, k)
        /\ game' = game \o EmitAll("mass", new, k)
    /\ UNCHANGED moving

\* Mutant of Meet: a cell that was killed in this update may be met again.
MeetZombies(c, d) ==
    /\ c # d
    /\ {c, d} \subseteq grid
    /\ {c, d} \cap registry.processing # {}

\* Two cells meet in the loop over m_processingCells: one of them is simulated,
\* the other is found on the grid.
Meet(c, d) ==
    /\ c # d
    /\ {c, d} \subseteq grid \ zombie
    /\ {c, d} \cap registry.processing # {}

Interact(c, d) ==
    /\ phase = "interact"
    /\ Meet(c, d)
    /\ \/ Absorb(c, d) \/ Crush(c, d) \/ Bounce(c, d)
       \/ Drain(c, d) \/ Burst(c, d) \/ Merge(c, d)
    /\ UNCHANGED <<grid, deadCells, phase>>

\* m_gameContext.run()
RunGameEvents ==
    /\ phase = "interact"
    /\ phase' = "game"
    /\ NoKill /\ Unmade
    /\ UNCHANGED <<moving, grid, deadCells, game>>

\* The room has noticed an event of c.
Modified(c) == [registry EXCEPT !["modified"] = @ \cup {c}]

MotionStarted(c) ==
    /\ registry' = [Modified(c) EXCEPT !["processing"] = @ \cup {c}]
    /\ game' = Tail(game)
    /\ UNCHANGED <<kind, id, moving, mobs, quantity, unusedIds, nextId>>

MotionStopped(c) ==
    /\ registry' = [Modified(c) EXCEPT !["processing"] = @ \ {c}]
    /\ game' = Tail(game)
    /\ UNCHANGED <<kind, id, moving, mobs, quantity, unusedIds, nextId>>

\* onCellMassChange()
MassChanged(c) ==
    /\ registry' = Modified(c)
    /\ game' = Tail(game)
    /\ UNCHANGED <<kind, id, moving, mobs, quantity, unusedIds, nextId>>

\* onMotherMassChange when the mother has got too much: it explodes into n more.
MotherExplodes(c) ==
    /\ kind[c] = "mother"
    /\ \E n \in 1..Cardinality(Free) : \E new \in Lists(Free, n) :
        /\ CreateIn(Modified(c), new, "mother")
        /\ moving' = moving \cup Range(new)
        /\ game' = Tail(game) \o Emit("mass", c, "mother") \o EmitAll("mass", new, "mother")

GameEvent ==
    /\ phase = "game"
    /\ game # <<>>
    /\ LET e == Head(game) IN
        \/ e.op = "mass" /\ (MassChanged(e.cell) \/ MotherExplodes(e.cell))
        \/ e.op = "started" /\ MotionStarted(e.cell)
        \/ e.op = "stopped" /\ MotionStopped(e.cell)
    /\ NoKill
    /\ UNCHANGED <<grid, deadCells, phase>>

\* Mutant of GameEventsDone: the deaths do not wait for the game events.
GameEventsUnneeded == TRUE

\* m_gameContext.run() returns when nothing is left.
GameEventsDone == game = <<>>

\* m_deathContext.run()
RunDeaths ==
    /\ phase = "game"
    /\ GameEventsDone
    /\ phase' = "death"
    /\ NoKill /\ Unmade
    /\ UNCHANGED <<moving, grid, deadCells, game>>

\* Mutant of Forget: the cell stays among those to simulate.
ForgetButProcess(c) ==
    [r \in Registries |-> IF r = "processing" THEN registry[r] ELSE registry[r] \ {c}]

\* prepareCellForDestruction()
Forget(c) == [r \in Registries |-> registry[r] \ {c}]

\* Mutant of Uncount: the deaths of the food are not counted.
UncountMobs(k) ==
    quantity' = IF k \in Mobs THEN [quantity EXCEPT ![k] = @ - 1] ELSE quantity

\* Mutant of Uncount: a bullet was never counted as food.
UncountBullets(k) ==
    LET l == IF k = "bullet" THEN "food" ELSE k IN
    quantity' = IF l \in Counted THEN [quantity EXCEPT ![l] = @ - 1] ELSE quantity

\* onFoodDeath, onVirusDeath, ...
Uncount(k) ==
    quantity' = IF k \in Counted THEN [quantity EXCEPT ![k] = @ - 1] ELSE quantity

Bury ==
    /\ phase = "death"
    /\ deaths # <<>>
    /\ LET c == Head(deaths) IN
        /\ deadCells' = Append(deadCells, c)
        /\ registry' = Forget(c)
        /\ grid' = grid \ {c}
        /\ mobs' = mobs \ {c}
        /\ Uncount(kind[c])
    /\ deaths' = Tail(deaths)
    /\ UNCHANGED <<kind, id, zombie, moving, game, unusedIds, nextId, phase>>

\* Mutant of DeathsDone: not every death is waited for.
DeathsUnneeded == TRUE

\* m_deathContext.run() returns when nothing is left.
DeathsDone == deaths = <<>>

EndUpdate ==
    /\ phase = "death"
    /\ DeathsDone
    /\ phase' = "idle"
    /\ NoKill /\ Unmade
    /\ UNCHANGED <<moving, grid, deadCells, game>>

Requests == \E c \in Living("avatar") : Eject(c) \/ Split(c)
Collisions == \E c, d \in Cell : Interact(c, d)
RestOfUpdate == Simulate \/ RunGameEvents \/ GameEvent \/ RunDeaths \/ Bury \/ EndUpdate

Next ==
    \/ \E k \in Counted : Generate(k)
    \/ GenerateFoodByMothers
    \/ Respawn
    \/ Annihilate
    \/ KillExpiredCells
    \/ Deflate
    \/ StartMotion
    \/ Synchronize
    \/ BeginUpdate
    \/ Requests
    \/ Collisions
    \/ RestOfUpdate

Spec == Init /\ [][Next]_vars

\* An update runs to its end, and the timers of updates and synchronizations go
\* off again and again, whatever else the strand runs.
FairSpec ==
    /\ Spec
    /\ WF_vars(RestOfUpdate)
    /\ SF_vars(BeginUpdate)
    /\ SF_vars(Synchronize)

-----------------------------------------------------------------------------
\* Properties.

\* Every pointer the room keeps, in a registry or in a queued event, is to a
\* cell that was not deleted: otherwise update() or synchronize() reads freed
\* memory (Room.cpp:470).
NoDanglingPointers ==
    /\ \A r \in Registries : registry[r] \subseteq Allocated
    /\ grid \cup mobs \cup Range(deadCells) \cup Range(deaths) \subseteq Allocated
    /\ \A i \in DOMAIN game : game[i].cell \in Allocated

\* A buried cell is in no registry and no later event puts it back, so that a
\* synchronization never reports as changed what it reports as removed: this
\* is why m_gameContext runs before m_deathContext (Room.cpp:602).
DeadAreForgotten ==
    /\ \A r \in Registries : registry[r] \cap Range(deadCells) = {}
    /\ (grid \cup mobs) \cap Range(deadCells) = {}
    /\ \A i \in DOMAIN game : game[i].cell \notin Range(deadCells)

\* Every zombie has one death to come or behind it, never two, so that no cell
\* is deleted twice (Cell::kill, Cell.cpp:114, does not look at zombie).
ZombiesDieOnce ==
    /\ zombie = Range(deaths \o deadCells)
    /\ IsInjective(deaths \o deadCells)

\* Every id given out is the id of one cell, or is unused once: ids are neither
\* shared, which would make a client take one cell for another, nor lost
\* (NextId.cpp, Room.cpp:473).
IdsAreConserved ==
    /\ 1..(nextId - 1) = Range(unusedIds) \cup {id[c] : c \in Allocated}
    /\ nextId - 1 = Len(unusedIds) + Cardinality(Allocated)

\* The quantities the generators compare with the limits are those of the
\* cells that are not buried yet, however the cells came to be and to die.
QuantitiesAgree ==
    \A k \in Counted : quantity[k] = Cardinality(OfKind(k) \ Range(deadCells))

\* Everything that lives is on the grid, or will be before the next simulation,
\* which takes the first sector of a cell and assumes it has one (Gridmap.cpp:125).
LivingAreOnGrid ==
    /\ grid \cup registry.created = Allocated \ Range(deadCells)
    /\ grid \cap registry.created = {}
    /\ phase = "interact" => registry.processing \subseteq grid

\* Between updates, whatever moves is going to be simulated: no order of the
\* events of a cell that stops and is pushed leaves it with a speed and at rest.
MovingAreSimulated ==
    phase = "idle" =>
        moving \ Range(deadCells) \subseteq registry.processing \cup registry.created

\* A killed cell is deleted in the end: its death is handled in the next update
\* and its memory is freed in the next synchronization.
ZombiesAreDeleted == \A c \in Cell : c \in zombie ~> c \notin zombie

=============================================================================
