# A specification of KaizerMUD

KaizerMUD is a C++ library for text-based multi-user games.  A game built on it
registers its own object types, stats, commands and services; the library keeps
the objects, moves them about, stores them in SQLite, runs Lua tasks, and talks
over one WebSocket to *Thermite*, the server that players connect to.  This
directory holds TLA+ modules of the library, TLC configurations that check them
on small instances, and theorems checked by TLAPS for every instance.

## The system

| component | source | state | operations | speaks with |
|---|---|---|---|---|
| Object relations | `src/src/Object.cpp:346-401` | `relations`, `reverseRelations` of each object | `setRelation`, `clearRelation`, `getRelation`, `getReverseRelation` | movement, persistence, the game |
| Movement and deletion | `Object.cpp:75-86`, `250-340` | the C++ call stack, the relation `location` | `moveTo`, `atDelete` and the hooks they call | hooks of the game, which call back |
| Object registry | `Object.cpp:432-498`, `game.cpp:18-24` | `objects`, `objectRegistry`, `lastInsertID`, strings, session | `createObject`, `registerObject`, `getNextAvailableID`, `setString` | persistence |
| Stats, equipment, aspects | `Stats.cpp`, `Equip.cpp`, `Aspects.cpp` | per object: stats, slots with items, aspects by save key, a flag `loaded` | `load`, `set`, `equip`, `setAspect`, `loadFromDB`, `saveToDB` | registry, persistence |
| Persistence | `Database.cpp` | the database files | `saveDatabase`, `loadDatabase`, `createSchema` | objects and handlers |
| Thermite link | `thermite.cpp` | `linkChan`, the WebSocket, `is_stopped`, four coroutines | `LinkManager::run`, `Link::run`, `runReader`, `runWriter`, `createUpdateClient`, `stop` | Thermite; client connections; game loop |
| Client connections | `ClientConnection.cpp` | per client: capabilities and the channel `fromLink` | `sendText`, `onWelcome`, `deserialize` | link, game loop |
| Game loop | `game.cpp:26-86` | `connections`, `pending_connections`, `disconnected_connections` | `heartbeat`, `process_connections` | link's reader (shared state) |
| Lua tasks | `game.cpp:88-215` | `LuaCode::state`, `Task::state`, the Lua stack, the interrupt | `compile`, `load`, `run`, `interrupt_check` | Luau (external) |
| Commands | `Commands.cpp` | the registry; per object: sorted commands with their args, `loaded` | `registerCommand`, `load`, `execute` | registry, code of the game |
| Session | `Object.cpp:33-65`, `Session.h` | per object: `session`; the class Session is declared, not implemented | `setSession`, `removeSession` | hooks of the game, deletion |
| Startup, ktest | `startup.cpp`, `apps/` | the coroutines; the loop of ktest | `startup`, `main` | link, game loop; Lua tasks |
| CallParameters, Message, string interning | small files | values only | getters, setters, rendering | everything |

Everything runs on the one thread that runs the `io_context`
(`startup.cpp:11-31`).  There are therefore three kinds of interleaving:

* coroutines, at their `co_await`s: manager, reader, writer, heartbeat, services;
* hooks: `moveTo`, `atDelete`, `setSession`, `removeSession` and `execute` call
  virtual functions of the game, which may call them again before they return;
* scripts against the interrupt that cuts them off.

To these come failures: the WebSocket, an exception in the middle of a list or
of a save, the end of the process.  `PROJECT.json` lists every hazard at its line.

What makes each component correct:

* relations: forward and reverse maps agree, and no call reorders the others;
* movement: locations are a forest, so that the walk of `moveTo` ends; hooks are
  never called on a null pointer; containers hear of what enters and leaves;
* persistence: a save is all or nothing; a load restores what was saved,
  whatever the order of a hash table;
* handlers: an item that the game checks first is in one slot, and says in which;
* commands: the first match by priority runs, on its own input;
* sessions: what the hooks tell is what is linked;
* link: no message is lost between channel and writer, reordered or repeated; no
  client is forgotten; the manager gets the link established (again);
* tasks: what is resumed can be resumed; no script keeps the processor.

## Modules

| module | models |
|---|---|
| `Relations` | `setRelation`, `clearRelation`: one atomic action each |
| `Forests` | what a forest of locations is, without recursion: a set is closed if it holds the location of each of its members; `Enclosing(l, d)` is the least closed set with `d`; a forest has no object enclosed by its own location |
| `Containment` | abstract specification of movement: `Put` and `TakeOut`, and no cycles |
| `Movement` | extends `Relations`: `moveTo` and `atDelete` from hook to hook |
| `Notices` | extends `Movement`: a game that counts what its containers are told |
| `Sessions` | extends `Notices`: `setSession` and `removeSession` from hook to hook, and a game that listens |
| `Registries` | what the registries of commands, stats, slots and aspects have in common: one entry per key, and the merge by `getTypes` |
| `Commands` | extends `Relations` and `Registries`: `registerCommand`, `load`, `execute` |
| `LinkChannel`, `Clients`, `ThermiteLink` | each extends the one before: outgoing channel and writer; the clients the game knows; manager, reader, heartbeat, socket and Thermite |
| `LuaTask` | `LuaCode::compile`, `Task::load`, `Task::run`, the interrupt |
| `Ktest` | extends `LuaTask`: the program that drives a task, beside a game that does as it likes |
| `GameObjects` | extends `Relations` and `Registries`: `createObject`, ids, stats, equipment, aspects |
| `Store` | abstract specification of persistence: worlds that are saved, lost and brought back, each in one step |
| `Persistence` | extends `GameObjects`: `saveDatabase`, `loadDatabase`, restarts; implements `Store` |
| `Lemmas` | lemmas about sequences and forests |
| `RelationsProofs`, `ContainmentProofs`, `LuaTaskProofs`, `CommandsProofs` | the theorems about the module of that name |
| `MovementProofs` | the theorems about `Movement`, `Notices` and `Sessions` |
| `LinkProofs` | the theorems about `LinkChannel`, `Clients` and `ThermiteLink` |
| `PersistenceProofs` | the theorems about `GameObjects` and `Persistence` |
| `MC*` | instances for TLC |

How state and actions correspond to the code:

* **Relations.** A name missing from a map is `NoObject` or `<<>>`.
  `clearRelation` has no `return` on the path that clears (line 382), and
  `setRelation` tests its result (line 354): the model takes either outcome.  (A
  compiler may do worse with such a function; that is outside the model.)
* **Movement.** `stack` is the stack of calls of the two functions; a frame says
  in which hook its call is and holds its local variables.  A step runs the
  innermost call from the return of one hook to the next.  The pieces of code
  around `clearRelation` and `setRelation` are steps of their own (`clear`, `set`)
  and so is each turn of the walk.  `ReentrantHooks` says in which hooks the game
  moves or deletes.  `quiet` is whether the parameter is *given*, as line 293 tests.
  Hooks that call `setRelation("location", ...)` directly are not modelled.
* **Sessions.** `sessionCalls` is the stack of `setSession` and `removeSession`,
  as `stack` is of moves: each call waits in its "pre" hook, changes the session, and
  waits in its "post" hook.  A game may make further calls in either, but
  (`BeingChanged`) not about an object between its pre hook and its change.
  `setSession` may be given no session at all, and links the object to none.  Session
  calls and moves do not share state except in `atDelete`, which tells the
  session; so the two stacks are composed there, and moves inside session hooks
  are left out.
* **Commands.** `calls` is the stack of `execute`; a call is in `parse` or
  `canExecute` ("parse") or in `execute`.  Args are kept as the inputs they hold
  parts of.  Any of the three hooks may throw a `std::exception` (`Leave`), and
  `match` may throw too, which nothing catches.  `load` picks any order that
  is sorted by priority.  A game is taken not to call the public `load()` of a handler
  that has loaded, which would load everything again.
* **Registries.** An entry is a record with its type and name.  `Merged` is the map
  that `load()` of each handler builds: later types in `getTypes()` take precedence.
  The registries of stats, slots and aspects are constants, since a game fills
  them before it makes objects, and only that of commands grows.
* **Link.** A step runs a coroutine from the answer to one `co_await` to the next;
  `heartbeat` awaits nothing that suspends and is one step.  The channel hands a
  message straight to a waiting writer, as Asio's channels do.  When the
  connection drops, a suffix of the frames under way is lost.  What comes with a
  client that is known goes through `deserialize`, whose accessors throw on a
  value of the wrong type; the update ends there, as it does at an id that is no
  int64.  Thermite announces a client once.  Ids are JSON
  numbers: `as_int64` and `as_uint64` accept different ones, with `MaxInt64`
  for the width.  Whether the accessors' exception is one the reader catches
  depends on the version of Boost, which the build does not pin
  (`CMakeLists.txt:33`): `AccessorsThrowSystemError`.  The runs take the kinder
  answer, with which the reader goes on; with the other one it ends with the
  first such frame, fewer states are reached, and a reader that waits is not
  among them in `link`.
* **Lua.** A script may do at each step what Luau allows; time is counted in steps
  of a slice.  What `sscanf` finds in the output of a failed compilation is
  left open, and a wrong answer is found out by `luau_load`.  In `Ktest` the
  variable `driver` says whether a game or ktest drives the task; ktest's script
  is the one in the source, which neither yields nor returns.
* **Persistence.** A file holds a set of rows per table.  A save works on a copy
  (`job.rows`), one object at a time in any order; a row that SQLite refuses and
  a statement that is executed again without a reset throw, and the transaction is
  rolled back.  A load reads the table of objects in the order of ids, and then
  each object in any order.  `Restart` may happen between any two steps and the
  new build may register other types.  The flags `loaded` are never
  initialized: each handler of a new object may or may not have anything loaded.
  Of an object's strings only `equippedAt` is kept.  `equip` looks neither at the
  slot nor at the item, and `canEquip`, which nothing calls, looks at the slot only:
  `Equip` puts any item into any slot.  The rule that an item is not put into a
  second slot while it says it is worn is the game's; `MayWear` is that rule, and
  `Checked` the items it is applied to.  The library has no unequip; `Unequip` is
  what a game has to do.  A game loads into an empty registry.  A file that nothing
  was saved to cannot be loaded, and the load leaves as little as that of an empty
  world, which the model does not tell from it.

## Runs

| run | instance | shows |
|---|---|---|
| `commands` | 2 handlers of 2 types, 4 entries (3 of one name, 2 of one key), 2 inputs, calls nested 2 deep; 3 objects and 1 relation | `NoArgsLeftOver`, `FirstByPriority`, `LoadedStayRegistered`; `Mirror`; `OnlyOneMoves`: the lists keep the order of arrival |
| `movement` | 3 objects, calls nested 2 deep, hooks re-entrant outside the window | no hook on a null pointer, `Forest`, `ImplementsContainment`, `MovesReturn` |
| `notices` | the same, hooks re-entrant where nothing is stale; 2 sessions, their calls nested 2 deep | `Attendance`, `HooksKnowTheSession`, `ArrivesWhereSent` |
| `movement_anyhook` | hooks re-entrant anywhere | **violation** of `Forest` |
| `link` | ids 1, -1 and 7 with three bits; channels of 1; 2 frames under way; the reader catches the accessors' exception | `LinkTypeOK`, `InOrder`, `PendingAreConnected`, `HeldUpByAFullChannel` |
| `link_live` | ids 1, 2; the exception is caught | `NoClientForgotten`, `ArrivalsGetConnected`, `EstablishesLink`, `SendsAreHandled` |
| `link_reconnect` | one client | **violation** of `ReconnectsAfterDrop` |
| `link_lines` | one client | **violation** of `LinesReachTheirClient` |
| `lua_task` | slices of 3 steps, 5 of them in ktest | `TypeOK`, `Resumable`, `SliceEnds`, `KtestEnds` |
| `persistence` | 2 objects, 2 types, 1 relation, 2 aspects of one slot | `Mirror`, `AllOrNothing`, `ImplementsStore` |
| `persistence_handlers` | 2 objects that are characters with a slot for an item, a real stat and one that the sub-type makes virtual, or items; slots for aspects of main type and sub-type; object 1 is in `Checked`, object 0 is worn as the game likes | `WornWhereItSays`, `HandlersRestored` |
| `persistence_two_stats` | 2 stats | **violation** of `SavesAreCompleted` |

The bounds.  Three objects are the least with a cycle that is not a swap, and with
a list whose middle can be taken out; a call nested in a call meets every
stale variable there is, since a frame shares nothing with other frames but the
relations, and a deeper call is to its caller what a call is to the outermost (depth 3
has also been checked, 21 million states).  Channels of one place are full
as soon as there is anything in them, which is where the code differs.  Two
frames under way are enough for a frame to be lost, overtaken by a heartbeat or
stuck behind one that waits.  A number of three bits has values that are
int64 only, uint64 only, and negative.  Two objects can refer to each other and to
themselves and be loaded in both orders; the ids of the two are 0 and the largest
`int` there is in the instance.  A call of `execute` or `removeSession` within one
meets whatever the outer call has left.  Deadlock is not checked in `lua_task`, since
ktest ends.  The spaces are finite without state
constraints; `MaxDepth`, `MaxSessionDepth`, `MaxNesting`, `CommandEntry`, `Input`, `MaxInbox`, `MaxSends`, `WireId` and `Value` are guards or
sets that bound inputs, and are named as bounds where they are declared.

`Notices` restricts the re-entrant hooks further than `Movement` does: a hook that
moves the same object before it has left its origin makes the outer call
announce a departure from a place the object is not in.  This is the hazard at
`Object.cpp:296`.

`Store` says what persistence promises to someone who only sees objects and
relations: a save puts the whole world into a file or leaves it alone; a load
brings back what is left of the saved world without the types that are not
registered; a restart at any point loses the world in memory and nothing else.
`Persistence` implements it with the steps of a save mapped to stuttering, and with a
world that is empty until the last object has been loaded.

Fairness.
`Movement`: every call proceeds once its hook returns, and a hook that keeps getting
its nested calls answered returns in the end, so strong fairness of the step of
the innermost call at each depth.  `ThermiteLink`: weak fairness of each
coroutine that is ready, since an `io_context` serves its handlers in turn; a
connection attempt ends, and what the environment does (arrivals, drops,
messages, `stop`) is not forced; that an attempt to connect succeeds in the end
if it is made again and again is the assumption of `EstablishesLink`.  `LuaTask`: Luau goes on with a
script it has been given; nothing is assumed about the game; ktest is a thread that goes on.

### Disagreements with the documentation

`PROJECT.json` quotes the lines.

* `movement_anyhook`: `moveTo` refuses a circular reference before it calls
  three more hooks, and does not look again.
* `link_reconnect`: a broken connection is never established again, because both
  loops swallow its errors.
* `link_lines`: a client is registered by `as_int64` and addressed by `as_uint64`;
  no small id passes both.
* `persistence_two_stats`: an object with two real stats, or two items
  equipped, makes every save fail.

Further ones are listed as hazards with a note where no run is about them.  One is that
ids "should never be re-used" (`Object.h:34`): `lastInsertID` starts at 0 again
with the process, so that the id of an object that was not saved is given out once
more (hazard at `game.cpp:12`; `Store` allows it).

## Proofs

All are checked by `tlapm`, for every value of the constants.  Every safety
property of the passing runs, and each of the two refinements, is a theorem.
The inductive invariant of a module is called `IInv`, unless the property is
inductive by itself; TLC has checked each on the instances of the runs.

**Relations** (`RelationsProofs`).

* `MirrorInvariant`: `RelationsSpec => []Mirror`.  `Mirror` is inductive with the
  types; what is to be shown is that `RemoveFirst` on a list without duplicates
  removes the object and nothing else, and that `Append` of a new object keeps it
  so (`Lemmas`).
* `OrderOfArrival`: `RelationsSpec => OnlyOneMoves`.  The property is stated with
  `Precedes`: but for one object, who comes before whom in a list is the same after
  the step.  It needs `Mirror`, since erasing from a list with duplicates could
  move an object behind another.

**Movement** (`ContainmentProofs`, `MovementProofs`).

* `ForestInvariant`: `NowhereIsNoObject => (Spec => []Forest)` for `Containment`.
  Inductive with the types; the work is in `Lemmas`: if `o` is not enclosed by
  `dest`, then `Enclosing(l, dest)` of the old locations is still closed in the new
  ones, and separates `o` from what it is put into.
* `MovementTypes`, `MovementForest`, `MovementMirror`, `MovementRefines`: under
  `WindowIsQuiet`, for any set of objects and any depth of nesting,
  `[]MovementTypeOK`, `[]Forest`, `[]Mirror`, and `Movement` implements
  `Containment` with `location <- Where`.  None of the first three is inductive
  alone: that `setRelation` makes no cycle depends on what the walk saw
  several hooks ago.  The invariant adds, for each call on the stack, what
  the walk has established so far (the mover encloses nothing of what it has
  passed), that only the innermost call is between walk and `setRelation` (this is where
  `WindowIsQuiet` is needed: an outer call has no nested call above it there), and
  the agreement of the relations.
* `ContainersKnow`, `MoversArrive`: under `NothingStale`, `[]Attendance` and
  `ArrivesWhereSent`.  `Attendance` speaks of the moments when no call is in
  progress.  For the others the invariant says by how much the counts are off: by
  the departure that the innermost call has told of and not yet made.  This is true
  only if that call still knows where its object is, the second part (`Fresh`), and
  if no outer call owes a departure, for which `NothingStale` is needed.
* `HooksTellOfSessions`: `PlaySpec => []HooksKnowTheSession`, for calls nested to any
  depth.  The invariant keeps apart the calls that are still before their change,
  which are about different objects by `BeingChanged`.

**Commands** (`CommandsProofs`): `CommandsMirror`, `ArgsAreReset`, `FirstMatchRuns`,
`LoadedCommandsStay`, `CommandsKeepOrder`.  The invariant holds all four state properties
together, with: the list of a handler is sorted and stays as it was loaded but
for the args; all calls but the innermost are in `execute`.  The last is what makes
the reset of the args at the end of a call complete.  That the least priority runs
first rests on what any sort does, stable or not.

**Link** (`LinkProofs`): `LinkTypes`, `MessagesStayInOrder`, `NoStaleWelcome`,
`ReaderIsNotStuck`, `ClientsAreNotForgotten`.  Order is proved as "the numbers from
`handled + 1` on, without a gap" of the message the writer holds followed by the queue;
it needs that nothing is queued while the writer waits, since a message is then
handed past the queue.  That no client is forgotten needs
`IdsAreSigned` (every id is an int64; `createUpdateClient` throws on others, and
what follows in its list is lost: the hazard at `thermite.cpp:119`), that the cast
between the two kinds of 64-bit ids is injective on such ids, and that the heartbeat
drops only clients that have gone.

**Tasks** (`LuaTaskProofs`): `TaskTypes`, `TaskIsResumable`, `KtestUsesTask`,
`KtestTask`, for slices and loops of any length: `Spec => []TypeOK`,
`Spec => []Resumable` and `KtestSpec => Spec`, so that both hold of ktest's task as
well.  Each of the two is inductive as it stands: a load answers READY only together
with a new coroutine, and `run()` answers WAITING only when its coroutine has yielded.

**Persistence** (`PersistenceProofs`), for any ids, types, stats, slots and aspects, any
number of files, and saves, loads and crashes in any order.

* `PersistenceMirror`, `WornAfterAll`, `SavedWhole`: `[]Mirror`, `[]WornWhereItSays` and
  `AllOrNothing`.  None is inductive: a load may bring anything back that a file
  holds.  So `IInv` has three parts.  `MemoryInv`: relations and slots hold objects of the
  registry, no item in `Checked` is worn twice, each of them says where it is worn, and
  the stats that have a value are the real ones.  `FilesOK`: the same of the rows of
  each file, with the keys the schema declares; a checked item in a slot has its
  row in "strings".  `JobOK`: how far
  the save or load has come.  Halfway through a save, the rows that wait are those of the
  file and of the objects already saved; halfway through a load, an object not
  loaded yet has no relations and wears nothing, so that `setRelation` has nothing to
  clear, and one that is loaded wears only what the file says.
* `HandlersComeBack`, `StoreIsImplemented`: under `IdsFit`, `HandlersRestored`, and
  `Persistence` implements `Store`.  They need one invariant more (`ReadBack`): the
  objects there are during a load are those of the rows that have been read and whose
  types are registered, and each that has been loaded holds what its rows say.
  Every step of a save but the commit, and every step of a load but the last, is then a
  stutter of `Store`; the commit is its `Save`, the last step of a load its
  `FinishLoading`.

Assumptions.  Those named in the modules are what the code guarantees of its
parameters: `NullIsNoObject`, `MovementAssumption`, `LimitIsNatural`,
`QueueSizeIsPositive`, `GameObjectsAssumption` (among others, that aspects are unique
by their three keys, as in the map `aspectRegistry`, `Aspects.cpp:18-37`, and that
an absent value is none of the values) and `PersistenceAssumption`.  Five more are
about the game or its environment and not about the library: four hypotheses of
theorems, and a constant that `WornWhereItSays` mentions:

| hypothesis | says | without it |
|---|---|---|
| `WindowIsQuiet` | no hook between walk and `setRelation` moves anything | a cycle: run `movement_anyhook` |
| `NothingStale` | hooks move and delete only where no call holds a location | `Attendance` fails: hazard at `Object.cpp:296` |
| `IdsAreSigned` | ids of clients fit an int64 | the rest of a list is lost: hazard at `thermite.cpp:119` |
| `IdsFit` | ids of objects fit an `int` | an object comes back under another id: hazard at `Database.cpp:84` |
| `item \in Checked` | the game asks `MayWear(item)` before it equips the item | an item in two slots, one of them emptied: hazard at `Equip.cpp:14` |

The instances of the runs satisfy them (`MCNotices` and `MCPersistence` assume the
second and the fourth, so that TLC evaluates them).  `WornAfterAll` holds whatever
`Checked` is; it speaks only of the items in it, and not of an item that says it is worn
where no slot holds it (another has replaced it, or the wearer's slots were
not loaded).

Only model-checked: liveness (`MovesReturn`, `ArrivalsGetConnected`, `EstablishesLink`,
`SendsAreHandled`, `SliceEnds`, `KtestEnds`), which rests on fairness and so on
ENABLED, out of reach of the prover.

## Not modelled

`CallParameters` (a map, of which `Movement` keeps two entries); what a `Session` does
(no implementation); rendering, capabilities' values and interning (data without
control); argument parsing; `schema.sql` (unused).  Undefined behaviour beyond the
choices named above; ids that do not fit an `int` (modelled in `AsInt`, not
instantiated); what a message says (its `conn_id` is never
set: `ClientConnection.cpp:72`); memory exhaustion; the rate of heartbeats (the
timer is never re-armed, so that the loop spins: `game.cpp:79`); hooks of `atCreate`,
`match` and the constructors of commands that call back into the library.

## Plan

1. Done: relations, movement with its abstract specification, notices, sessions,
   commands, link, tasks with ktest, persistence with its abstract specification;
   the safety properties of all of them proved.
2. Proofs to come: an abstract specification of the outgoing channel (a sequence of
   messages each of which is handled once, or lost by a full queue) that
   `ThermiteLink` implements; which of a forest's properties survive when hooks
   move objects inside the window.
3. A model that could be added: the parameters a game reuses for several moves
   (`Object.cpp:254`).
