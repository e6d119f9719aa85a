# A verification project for the game server

The repository is a fork of The Forgotten Server: a C++ server for an online
role-playing game, with the game's content in Lua and XML. These modules model
`server/src`: the threads and queues that carry every game action, network
connections and sessions, the database, the start and end of the process, and
the rules of the game as the game thread runs them. TLC checks them on small
instances; TLAPS proves what matters most for every value of the constants.

## The system

### Threads

| Thread | Runs | Talks to the others by |
|---|---|---|
| main / network | `startServer`, then `io_service::run`: acceptors, connections, signals | `g_dispatcher.addTask` |
| game (dispatcher) | every game rule, one task at a time | `Connection::send/close`, `g_scheduler.addEvent`, `g_databaseTasks.addTask` |
| scheduler | timers in its own `io_context` | `g_dispatcher.addTask` |
| database worker | queued SQL statements | callbacks through `g_dispatcher.addTask` |

What runs on the game thread is sequential; its difficulty is of another kind:
long sequences of legal requests, handlers that run in the middle of others,
scripts that call back into the engine, and pointers kept on two sides.

### Inventory

| Component | State | Operations | What is hard | What makes it correct |
|---|---|---|---|---|
| Dispatcher (`tasks.*`) | `taskList`, `threadState` | `addTask`, `stop`, `shutdown`, `threadMain` | signal after unlock, batches, closing while others add | FIFO, no lost wakeup, no double free, the thread ends |
| Scheduler (`scheduler.*`) | `eventIdTimerMap`, `lastEventId` | `addEvent`, `stopEvent`, `shutdown` | expiry races with cancel, ids wrap | each task ends once; an event nobody stopped runs |
| DatabaseTasks (`databasetasks.*`) | `tasks`, `threadState` | `addTask`, `flush`, `shutdown`, worker | two consumers of one queue, shutdown | exactly once, bounded reordering, join returns |
| Database (`database.*`) | `databaseLock`, `retryQueries`, the session | `beginTransaction`, `commit`, `rollback`, `executeQuery` | loss of the connection anywhere | a save is whole or absent; threads do not mix |
| Connection (`connection.*`) | socket, queue, two timers, `closed` | `accept`, `send`, `close`, handlers | completions, timeouts and closes from two threads | one release, drained queue, silent peers dropped |
| Waiting list (`protocolgame.cpp`) | two lists of (timeout, guid) | `clientLogin` | retries and expiry | capacity, order, keeping one's place |
| Session (`protocolgame.cpp`, `outputmessage.cpp`) | `player`, `client`, `eventConnect`, reference counts | `login`, `connect`, `logout`, `release` | a delayed replacement meets everything else | one client per player, exact references |
| Client view, windows | known creatures, `openContainers`; the screen | moves, appearances, container messages | the server never asks the client | the screen agrees with the server |
| Life cycle (`otserv.cpp`, `signals.cpp`, `server.cpp`, `game.cpp`) | `gameState`, `running`, acceptors | load, `setGameState`, `saveGameState`, `shutdown` | four threads start and end | closed keeps players out, shutdown ends the process |
| Creatures, monsters, spawns, raids | check lists, targets, masters, reference counts | appear, think, remove, cleanup | removal in the middle of a walk of a list | nothing is freed in use, nothing waits for nothing |
| Combat, conditions, skulls | health, damage maps, timed effects | blow, death, renewal, end | a death is a task that can be overtaken | effects end, deaths come once |
| Walking, paths, map caches | `listWalkDir`, `walkTask`, node table | walk, stop, search | requests replace each other | no request is stranded, ways are right |
| Tiles, items, decay | stacks, buckets | add, move, transform, decay | indices sent before or after a change | stack positions agree, items are conserved |
| Parties, trades | pointers on both sides; the tree of items | invite … leave; request … exchange | objects that delete themselves | nothing dangles, nothing is offered twice, exchanges have known ends |
| Chat, guilds, houses, beds | users, invitations, owners, sleepers | join, leave, buy, expel | removal of players, guilds that delete themselves | pointers agree, but for the guild that keeps a player |
| Growth, equipment, spells, shops, money | levels, bonuses, costs, coins | train, lose, wear, cast, pay | scripts in the middle | what is earned and paid is exact |
| Persistence, storage, byte streams | rows, streams | save, load, mail | partial failure, widths | what is saved comes back |
| Scripts, hooks, registries | environments, Lua stack, handlers | call, give up, register, reload | scripts inside scripts, reload inside a script | stack and environments balance, pointers into registries live |
| Ports and connection limits (`server.cpp`, `ban.cpp`) | acceptor, `pendingStart`, `ipConnectMap` | `open`, `accept`, `onAccept`, `acceptConnection` | reopening by timer | not modelled |
| Lua bindings, game packets, NPC talk, loaders, login and status protocols, cryptography | – | – | – | not modelled: conversions without a protocol of their own |

`PROJECT.json` lists every component with its modules and what is left out of
it, and the hazards, each at its source line with the properties aimed at it.

### Plan

Done: the threads and queues; network and login; persistence; the life cycle;
the objects of the game thread; scripts and registries; proofs of the
dispatcher, of a connection, of the life cycle, of parties and trades, of the
engine's queues, of all of `Society` (sessions among it), and of how creatures
of `World` walk, hunt and keep their maps. Left: `ServicePort` and
`Ban::acceptConnection`; proofs of the reference counts, copies and ways of
`World`, and of `Clients`.

## The modules

A module without a prefix models a part of the source. `Queues`, `Clients`,
`Players`, `World` and `Society` put parts together; `MCx` gives `x` its small
instance where the values of a `.cfg` are not enough (that of `Society` is at the
end of the module itself); `xProofs` holds theorems about `x`.

In `Queues`, `Clients`, `World` and `Society` the parts share no state, and a
variable `focus` picks the one part a behaviour is about; the others stay in
their initial states. An invariant of each part's own behaviours is an
invariant of every interleaving of them, so nothing is lost by not exploring
the product; where parts do interact (`Party` with `Trade`, the monsters with
their targets, the waiting list with the players online) they are one module.

Definitions commented "Seeded fault" are used by no specification: each is a
plausible bug that some property must detect when it replaces the definition
after it (`mutants` in `PROJECT.json`).

### Threads and queues

* **TaskQueue** is what the dispatcher promises: tasks are handled in the order
  of acceptance, none twice, and up to the terminating task all of them.
* **Dispatcher** has the game thread's place in `threadMain` (`pc`), the two
  lists, and for each caller whether it is between the unlock and the signal of
  `addTask`. Critical sections are single steps; the wait may wake spuriously.
  `accepted`, `handled` and `deleted` are histories.
* **Scheduler** has the `io_context`'s queue of handlers (`ready`), the timers,
  and the owner of each task object. Ids are numbers modulo `IdMod`.
* **DatabaseTasks** has the worker's place, the game thread's place in
  `flush()`, and what each has popped.
* **Database** has the lock, the game thread in a transaction of `TxnLength`
  statements, the network thread in one statement, and the server's session.
  `Unchecked` statements are those whose result the caller ignores, as
  `IOMapSerialize::saveHouseInfo` does.
* **WaitingList** keeps the code's function names; time is in seconds.
  `cleanupList` describes the list that the loop leaves by the rank of each
  entry that is not expired.
* **Spawns** has the spawn checks with the monsters a spawn counts, and the
  chain of a raid's events with reloads in between. A raid may have no event.
* **Registries** has the registration and reloading of handlers with everyone
  who points at one, and the calls of the engine into scripts: each of the 80
  hooks is a row of what it takes, pushes, expects and answers, and a frame is
  its place in that protocol.
* **Queues** composes these with `focus`.

### Connections, sessions, screens

* **Connection** is one object with its outstanding operations. A completed
  operation is a separate state before its handler runs, so that everything can
  happen in between. A payload is only what it makes the handlers do.
* **Session** has several `ProtocolGame` objects for one character, the
  dispatcher's FIFO, the scheduled `connect`, and the `Player` objects with
  their reference counts. It is composed in **Society** below.
* **View** is the map, the creatures and the names a client has been told, and
  the server's cache of spectators. **Windows** is the container windows of a
  player on both sides. **Inventory** is where an item may go and the moves,
  splits, merges and exchanges, over a player, containers and tiles; and shops:
  their windows, what is bought and sold, and the coins it is paid with. What
  one offers in a trade meanwhile is an input (`offered`) of every search for a
  place; `astray` counts what is lost in it.
* **Growth** is skills, levels and what is worn; **Serialization** is the byte
  streams of items, conditions and house tiles, attribute by attribute.
* **Clients** composes these four: one character, its client, and what it has.
* **Lifecycle** has the main thread's place in `startServer`, the game thread's
  place inside the tasks whose intermediate states other threads can see, the
  dispatcher's queue and the players online.

### The game

* **Party** keeps the members of all `Party` objects and the players' pointers to
  them in one record; the methods of `Party` are operators from record to record
  and the requests of players are the actions. A deleted object has no leader
  and its address may be used again.
* **Trade** has the tree of items (`parent`) and the trade members of the
  players. `MoveItem` includes the notifications through which a move closes
  trades. An exchange is one task of two moves, tested before with other flags
  than they are made with, and the result of the second is ignored. So `Dropped`
  says when `Player::addThing` ends without a slot and the item is lost, and
  `Stays` when the second item remains where it was.
* **Players** composes the two where a player enters or leaves the game.
* **Creatures**: check buckets, target, friend and summon lists, masters,
  removal in the middle of a walk, and reference counts. **Tile**: the stack of
  one tile, the copy that one client keeps of it while others (`Watchers`) stand
  by who see more or less, and the decay of what lies on it; a unit of time is
  half an interval between checks, which the rounding of a rest of life needs.
  **Walk**: the list of steps, its event, and the request that walks first.
  **Combat**: blows, reflection, shields, damage maps and deaths, and the
  effects of one player's conditions. **Hunting**: choice of target and spells,
  and choice of steps. **Paths**: the search with its node table, lines of
  sight, and the map a monster carries. **World** composes these six.
* **Chat** (channels and guilds), **Houses** (owner, lists, rent, beds),
  **Skulls** (grudges, skulls, what each client was told), **Casting** (costs,
  cooldowns, delayed actions), **Persistence** (saves, mail, crashes, storage)
  and **Scripts** (environments and timers). **Society** composes them with
  **Session**.

Each module's header says what it abstracts and which settings it assumes.

### External parts

`boost::asio` (a cancelled wait whose handler is already queued keeps its
outcome; operations on a closed socket complete with an error and never throw),
the peer and its client, the Lua interpreter and the MySQL server (a lost
session loses its transaction) are modelled from their use and marked external
in the map.

## The runs

| Run | Question |
|---|---|
| `dispatcher` | Is a wakeup lost, an order changed or a task freed twice, does the thread end, and is this the abstract queue? |
| `queues` | Is everything accepted by a timer, a statement, a list or a registry handled once, and in the end? Are transactions and calls into scripts whole? |
| `connection` | One release, no packet for a released protocol, silent peers dropped, closed sockets closed if the peer receives? |
| `connection_stall` | **Violation**: with a stalled peer the socket of a closed connection stays open. |
| `waiting_list_retry` | **Violation**: a refused retry loses the place it should keep. |
| `clients` | Do screens agree with the server, and are items, money, levels and bytes conserved? |
| `session_leak` | **Violation**: a released protocol gets a player. |
| `lifecycle` | Does a closed server keep players out, does exit leave no task, does shutdown end the process? |
| `players` | Do party pointers agree from both sides, are offers apart, and is an exchange whole but for the ends that `FairSwap` names? |
| `world` | Is something freed in use, waiting for an event that is not there, or different in two places? Are ways right? |
| `society` | Has a player one client, are references exact, do pointers agree, is what is owned conserved, and what is saved whole? |
| `scripts_overflow` | **Violation**: after a refused nested call a script runs with an environment behind the array. |

The findings in `PROJECT.json` quote the comment or the assertion that each
violation contradicts.

### Bounds, and why they are enough

* `dispatcher`: two foreign callers, the game thread and three tasks (one that
  can expire) give every relation of `addTask` to swap, wait and shutdown.
* `queues`: three events and two ids, so that ids wrap and collide; three
  statements, one more than can be in flight; two transactions of three
  statements and three losses, so that the connection is lost in the save, in
  its rollback and in what follows; four players, one of them premium and one
  privileged, for two places, with a clock that runs past two timeouts; two
  blocks and four monsters, so that two can stray; three raids, one
  repeated and one without events, and two reloads; seventeen handlers, of every kind from XML and from Lua, of
  which two are being edited; two environments, so that the second call inside
  a call is refused, and two hooks whose scripts call others.
* `connection`: two messages, one being written and one behind it.
* `clients`: two containers that can hold each other, two stacks, a bow and a
  shield for four slots; a map of 4 × 4 on four floors with a screen of 3 × 3
  and one known name; two windows; skills, levels and coins to the third
  boundary; every attribute of items and every kind of condition in the byte
  streams, at most two at a time.
* `lifecycle`: an ordinary and a privileged character and four requests of any
  kind; the loader may fail at any of its stages.
* `players`: three players and three parties, so that everybody can lead one and
  a trade has a bystander; two containers that can hold each other and one
  stackable item.
* `world`: a player and two monsters in two places; two walkers of which one can
  hide, and three watchers of whom two see it all the same; items with lifetimes of
  three lengths over two buckets, so that a check keeps one, moves one to the
  next bucket and ends one early; two fights of two and of four
  with summons; a field of 4 × 4 for steps and searches with twelve nodes.
* `society`: three sessions (in, replacing, interfering), and two of everything
  else that can be shared or quarrelled about; seven tasks of the house.

Symmetry is used only where every property is a safety property (`players`,
`clients`, `society`). Deadlock checking is off where the system really stops: after the
end of the threads, after the last bounded request, and in the hangs named here.
A shutdown asked for by an `onStartup` script can reach `ServiceManager::stop`
before `run`, which forgets it: the process then hangs, and `ShutdownExits` is
stated for a running `io_service` only.

### Fairness

Threads that can run do run, queued handlers are executed, and timers expire:
weak fairness of each thread's step. No caller, peer or client is obliged to do
anything, and no condition variable owes a spurious wakeup. In `Queues` it is
asked of the part in focus. `connection` alone assumes that the peer keeps
receiving (`ReceivingPeerSpec`); `connection_stall` drops that. In `Database`,
strong fairness of the network thread says that a mutex is granted in the end to
a thread that keeps waiting for it, and the reconnect loop ends because the
server comes back.

## Proofs

All theorems hold for every value of the constants that satisfies the named
assumption of the module: any number of threads, tasks, players, items and
statements. The assumptions say no more than the code does: the game thread is
not a producer and the terminating task no ordinary one (`Dispatcher`), a queue
of messages has room for one (`Connection`), the privileged are players
(`Lifecycle`), containers are not stackable and there are finitely many items
(`Players`), and in `Queues`: the names of no event, no task, nobody and no raid
are not those of one, a wrapping id has at least one value, there are finitely
many monsters, handlers are of the eight kinds that have a registry, `HasDefault` names weapons and `Learners`
spells, and the bound `MaxChains` on the pending checks of the global events
leaves room for a chain and the one that a reload begins. In `World`: a
player's own attack is none of the other requests, a challenge lasts one thought
of a monster at least, tiles have coordinates, and a monster has a tile to stand
on and a map of at least one row and column. In `Society`: `None` is none of what
a pointer points to, bounds are numbers, a house has an occupant, somebody has
the goods at first, the table of the game's storage is none of an account, and
scripts are not nested deeper than there are environments (what happens beyond
is `scripts_overflow`).

Each proof is that of an inductive invariant, which TLC checked on the run's
instance before; one lemma per action or method shows that it is kept.

| Module | Theorems | Why the property is not inductive by itself |
|---|---|---|
| `DispatcherProofs` | `TypeCorrect`, `WakeupNotLost`, `FifoOrder`, `NeverUsedAfterDelete`, `RefinesTaskQueue` | A list that became non-empty while the thread waits still has the caller that made it so in front of its signal. The batch is empty except in the places "run" and "exec", without which the swap could drop tasks. The head of the batch has one position among the accepted tasks, so freeing it leaves no second pointer. |
| `ConnectionProofs` | `TypeCorrect`, `ReleaseQueuedOnce`, `ProtocolNotEntered`, `CloseIsOwed` | A release was counted exactly if the connection is closed and has a protocol; a write is outstanding exactly while the queue is not empty; only an open socket whose peer is there has operations pending; and `close()` leaves a socket open only with messages queued. The member functions call each other in states no other thread sees, so these are stated of an object and each function is proved to keep them. `CloseIsOwed` is what the liveness property rests on, and what `connection_stall` shows to be owed for ever. |
| `LifecycleProofs` | `TypeCorrect`, `ClosedServerKeepsOut`, `ExitIsClean` | What a task in progress has already checked, and that the loader is the first task, the shutdown task occurs once and nothing follows the terminating task. |
| `PlayersProofs` | `NothingPromisedTwice`, `ExchangeIsFair`, `PartiesNeverDangle` | For trades: no trade is with oneself, both partners name each other, and every item has one outermost holder, stated without assuming that containers form no cycle. For parties: between two methods of one request a `Party` can be dying, with one pointer still to be reset, so each method is proved for the states its callers leave, in terms of the players that stay on both sides of each pointer. |
| `QueuesProofs` | `SavesAndCallsAreWhole` | Who has the lock is where the code says it is; an open transaction holds the statements before `next` and none of the other thread, except that one whose failure is ignored may be missing; and what is permanent is whole at any time. Frames of hooks lie on each other without gaps, so that giving up removes what was pushed and nothing else. |
| | `StatementsNearlyInOrder`, `StatementsOnce` | The queue is a suffix of what was accepted, and what was taken from it is executed or in one of two hands. |
| | `NobodyOverfills`, `NobodyWaitsTwice` | Entries of the two lists name different players; the cleaned list lies within the old one in order, which is shown by ranks. |
| | `TasksHaveOneOwner` | The place of an event's object is told by its owner: one position of the queue of handlers, one timer, or one position of the dispatcher's list, and nowhere once it is freed, so that a wrapped id cannot be given to two of them. |
| | `RaidsNeverStop` | A raid that runs and has events has one that waits or is posted and is not past its last one; `started` says that a check is pending, of the chain itself or one that a reload could not stop. |
| | `SpawnsCountTheirMonsters` | A monster has one reference for its entry in `spawnedMap` and one for being in the game, and is freed at none; only filed monsters point to the `Spawn`, a block has one of them, and a check is pending while a filed one is removed. |
| | `ReloadsLoseNothing` | A key whose files load has its home: what its kind makes of registering its XML file and its scripts, in the order of the start. A spell that a monster lost is one of a script. In the middle of a reload, which is one step of the model, two event ids are free or will be, one for each chain that has to begin again. |
| | `TypesKept`, `HandledOnceAlways` | The conjunction of the parts' invariants with what the types still lack: the length of a transaction follows from where the game thread is in it, and the frames of hooks never outnumber the environments. |
| `WorldProofs` | `WalksServed` | An event that was posted has its task in the dispatcher's queue; steps that are left have an event and a request kept for the end of the walk has one or a path to come, but for the three exceptions; and a request is in one place at most: put off until after the walk, put off for a moment, in the queue, or done. |
| | `StepsKeepApart`, `ChallengeKept`, `HuntKept` | The eight directions of `getDistanceStep` are brought to one diagonal and two straight cases by their offsets. A challenged monster has its challenger for a target, and both of its terms, `focus` and `cooldown`, last as long as it must go on; in the middle of a thought they are one interval longer. |
| | `MapCacheRight` | Each offset of the cache but the monster's own is stale or says what its tile says, and an offset and a place determine each other: so a shift of the rows is a shift of the tiles. |
| `SocietyProofs` | `SessionsAlwaysExact` | The tasks of a session lie in the dispatcher's queue in an order: no login behind a login or a release of the same session, no `connect` behind another one. A session whose login is still to come has nothing of a `Player`, a waiting `connect` is the one that `eventConnect` names, and a released session was closed. |
| | `StrangersAlwaysLeave` | A bed has a sleeper if and only if `bedSleepersMap` has the bed, and only those about to be kicked sleep while in the game. |
| | `SavesAreWhole`, `NothingIsLost` | A depot that needs no save is as it was saved; as long as no save failed, each thing has one place among the ground, the memory of those in the game and the rows of the others. The k-th running handler has the k-th environment, and an item without a place is in one of them. What a rune or an arrow did is what is missing of it, and a cooldown and the time since the cast make up its length. |
| | `PointersAlwaysAgree` | Channels' users and guests are in the game, a private channel is there if and only if it has an owner and no owner has two, and the players online of a guild are those in the game who point to it, and those it was left with when `setGuild` met a guild without ranks. A skull on a screen is right except for the pairs that a step still has to send, so each method says which pairs and which grudges it leaves to its caller. |
| | `SocietyTypes` | The parts' invariants together; that the queue holds tasks only is part of their order. |

`RefinesTaskQueue` maps a push to `Accept`, the end of a task to `Handle` and
everything else to a stutter.

One property was corrected by its proof: `StepsApart` once said that a fleeing
monster comes nearer only where all eight steps would, which the run's field
does not refute. `getDistanceStep` tries no slanting step back towards the
target's side, so the theorem, like the property now, says it of the four
straight ones.

Every safety property and every action property of a passing run is proved,
except those named here, which stay with TLC:

* all liveness (and with it the fairness part of `ImplementsTaskQueue`):
  `JoinReturns`, `JoinUnlessMissed`, `EverythingRuns` (timers, statements, and
  the return of the network thread), `SilentPeerDropped`,
  `ClosedMeansSocketCloses`, `LoaderSignalArrives`, `ShutdownExits`;
* `Clients`: containers lie in containers and streams hold streams, which are
  recursive definitions, and the provers take none in a module with theorems;
* of `World`, `TypeOK`, `ReferencesExact`, `CopiesAgree` and `WaysRight`: the
  lists of creatures, the stack of a tile, the damage of a fight and the search
  are loops over a set or a list, written as folds or recursive functions. What
  such a loop leaves needs an induction for each loop: the library's induction
  theorems take the formula as an operator, which the provers here cannot
  instantiate, and the inductions have not been written out by hand.

## What the models say of the code besides the findings

Behaviour that contradicts no text of the repository, and that the models
therefore follow or step around, each where its module says so:

* An exchange can lose a stackable item, or one whose place was in the worn
  container that is given for it; and it can be one-sided: the second
  `internalMoveItem` (game.cpp:2894) fails when the room that was tested was
  inside the container that the first one took away. A player that was asked
  to trade can accept before it has offered anything; the exchange then runs with
  a null item, and `Trade` only takes the path on which the trade is closed.
* `playerMoveUpContainer` can give two windows of one container; using it then
  closes both on the client and the first one on the server (actions.cpp:342).
* `isKnownCreature` reads an id after erasing it (protocolgame.cpp:886, 897);
  `removeCreature` advances through the positions only for the players that see
  the creature (game.cpp:533), so that others are told a wrong position: the
  screen keeps a ghost or loses another thing, until the tile is sent again.
  `CopyAgrees` and `DisplayAgrees` say nothing of such a copy.
* What is dropped on the capacity window by somebody who has no room for it, and
  what is added while a worn container or the stack of the ammunition slot is
  offered in a trade, can end in `Player::addThing` without a slot and is lost; a
  container can be filled one over its capacity while something in it is offered
  (player.cpp:2544, 2606). `NothingLost` counts what is lost in these two ways as
  `astray`, and shows that there is no third: nothing is lost of what is given to
  somebody who offers nothing he wears.
* The rest of an addition that is itself split is forgotten (game.cpp:1360).
  `InternalAddItem` forgets it too; in the run that rest always finds a place,
  because the test of the whole amount came first.
* An item whose rest of life, once a round is taken off, is at most 874 ms decays
  at once; one with 875 to 999 ms goes to the next bucket (game.cpp:4705).
* Two worn items that suppress the same condition: taking one off ends it for both
  (movement.cpp:735).
* Who is set to a guild without a rank of level 1 loses his guild, which keeps
  him among its members (player.cpp:4407): a pointer that dangles once he has left,
  and a guild that is never deleted.
* A raid whose file has no event stays the running one for good.
* `House::transferToDepot` answers when the old owner cannot be loaded, and not when
  he cannot be saved (house.cpp:187-198); nobody asks it. What stood in the
  house stays in it, or is lost.
* A monster's map shifts the wrong rows for steps to the south-east and
  south-west (creature.cpp:572).
* A skill's percent after a loss is computed from the tries of another level
  (player.cpp:493).
* `ConditionLight` writes four bytes and reads one for colour and level
  (condition.cpp:1951), so that it and what follows it is lost; `wrapid`,
  `storeitem`, `reflect`, `boost` and `owner` are never written with an item.
* The account loop of the storage ends at an empty account (game.cpp:4622), and
  values of 64 bits are read as 32.
* `/reload globalevents` stops the think events of Lua and `/reload scripts` the
  timer of XML; the pointers of monsters to spells of Lua dangle after a reload.
* Raids that were reloaded leave events that use a deleted `Raid`.
* Opening a shop by the global function leaks its callbacks; `addMoney` of
  65536 or more of the dearest coin does not end (game.cpp:1605).
* A script at magic level 0 that takes more mana than was spent wraps it around
  (player.cpp:1520).
* Costs of spells are checked before the script and paid after it
  (spells.cpp:471, 698).

## Not modelled

`ServicePort` (opening and reopening the ports) and `Ban::acceptConnection`;
the components of `PROJECT.json` with status `not_modelled`, for the reasons
given there. Data races without a protocol around them (statistics, flags read
for messages) are not modelled, and `g_loaderSignal` is assumed not to wake
spuriously. Characters are logged in once (`ALLOW_CLONES` and the account
manager off), and the events of `Party` are disabled, as in
`data/events/events.xml`. Moves of part of a stack are in `Inventory` and not
in `Trade`. `Scheduler::addEvent` reads the id of a task after it has posted the
handler that may free it (scheduler.cpp:34); the minimal delay of an event keeps
the two apart, and the model takes the id to be right. The id that
`isKnownCreature` reads after erasing it is the old one or that of no known
creature, never that of another one. `playersSpectatorCache` is folded into the
flag of the cache of all spectators. No script of `data/` names a slot when it
adds an item, so no addition in `Inventory` does.

Some properties leave out the very case their hazard names, because the code
does what the hazard fears: `JoinUnlessMissed` and `LoaderSignalArrives` a
notification that comes before the wait, `StorageKept` what lies behind the
break of the loop of accounts, `AllPaid` mana that damage takes from a mana
shield before it is paid, `CacheRight` the rows shifted wrongly. What they say is that
there is no other way. `TransactionsWhole` follows a hook through its ways to
give up, not what its script does meanwhile, and `StrangersLeave` says nothing of
the lists of who may open a door.
