# A verification project for rcppsw

rcppsw is a C++ library: a state machine engine, thread and process utilities,
a metrics pipeline, data structures, algorithms, and supporting patterns. This
directory holds TLA+ models of the parts that keep state, the TLC
configurations that check them on small instances, and TLAPS proofs of what
matters most for every instance. Paths below are relative to the repository.

## Inventory

| Component | State | Operations | What is hard | What makes it correct |
|---|---|---|---|---|
| `base_fsm`, `hfsm` (`include/rcppsw/patterns/fsm`, `src/patterns/state_machine`) | current, next, initial, previous and last state, pending flag, event data and its hold flag, the parent of each state | `external_event`, `inject_event`, `internal_event`, `init`, copy, `change_parent`, `event_data_hold`, `event_data_release`, the two engine loops | callbacks that raise events, release or replace the data, re-enter the engine; assertions a build compiles out | runs to completion, drops data, entry and exit pair up, data are not lost on the way, state moves only by events |
| `mt_fsm` (`multithread`) | a `base_fsm` and a mutex | the same under the mutex | `inject_event` reads unlocked, re-entry, exceptions past `unlock()` | events of two calls do not mix, the mutex is released by every call that ends |
| `ipc_queue` (`multiprocess`), `mt_queue` (`multithread`) | deque, mutex, condition variable | push, pop (now, try, wait, timed), clear, is_empty | wake-ups lost or stolen, timeouts, two-step pop, processes killed | FIFO, nothing lost or duplicated, no stranded element |
| `lockable`, `mt_vector` (`multithread`) | a mutex, a condition of the user | maybe_lock/unlock for writing and reading | the condition changes inside a section | sections exclude each other, the mutex is not misused |
| `mt_` types (`al`) | an atomic | init, load, set, add | a compare-exchange that is not repeated | a lost call was raced, and undid nothing |
| `metrics`: managers, groups, collectors, sinks, registration | map of names to groups, collectors per group, clock and data per collector, stream and file per sink | register, unregister, initialize, collect, flush, interval_reset, timestep_inc, finalize | I/O failures, late registration, order of flush/reset/increment, different intervals | no sample lost or counted twice, a line holds its own interval |
| `threadable`, `forkable` (`multithread`, `multiprocess`) | run flag, handle or pid, argument | start, term, join, exit, terminated | starts that fail after the worker exists, a late read of the argument, an inverted `terminated()` | no worker runs unaccounted for, each gets its own argument, a worker told to stop stops |
| `config`: repository, metrics parsers | parsers by name, configurations, a map from types to names | register, unregister, config_get, parse_all, validate_all | raw pointers into a factory, the same name or type twice, exceptions half way, documents parsed in turn | a registered name leads to a live parser of its own, lookup is typed, a configuration is that of the last document with its section |
| `patterns`: factories, `caching_factory`, singleton | registered workers, cached objects | register, unregister, create | null results cached | a registered name has one object, whatever is asked and registered later |
| `ds`: grids, overlays, `stacked_grid2D` | cells, layers | access, subgrids, subcircles, layers | closed and half-open intervals, cropping | views hold what is in the grid |
| `ds`: `poisson_queue` | queue, counts and interval sums | enqueue, dequeue, their checks, reset | metadata over long sequences | metadata agree with the operations |
| `ds/graph` | a grid graph, a view made by a depth-first visit | subgraph, lookup, vertices, bounding box | order of the visit, vectors sized by the distance | the view is what is reachable, its corners are extremal |
| `algorithm` | none between calls | closest pair, hull, k-means, event horizons, max subarray | ties, points on one line, threads in any order | agree with reference definitions |
| `math`, `control` | a range's bounds and span, an angle, `pid_loop`'s sums | wrap, translate, shrink, normalize, compare | bounds changed one by one, tolerances | wrapped values differ by whole spans, keys are ordered |
| `er`, `mpl`, `common`, `types`, `utils`, other patterns | loggers | - | assertions that print or halt | - |

How they interact: a derived FSM's callbacks run synchronously inside the
engine and call back into it; `mt_fsm` wraps the engine in a mutex;
`network_output_manager` and `fs_output_manager` forward every call to their
groups, a group to its collectors in name order, a collector to its sink, a
sink to a stream; the registerers choose collectors from the configuration that
`metrics_parser` made; the repository and `caching_factory` keep pointers to
objects a `base_factory` owns; `er` decides in every component whether a failed
assertion stops the program. `PROJECT.json` lists each hazard at its line.

## Modules

| Module | Models | Read it as |
|---|---|---|
| `FsmEvents` | what a user of `base_fsm` is promised | `state`, `previous`, `home` are the states of that name, `pending` the event requested and not decided |
| `Fsm` | `base_fsm.cpp`, `hfsm.cpp` | one action per call and per point where the engine hands over to a callback |
| `MtFsm` | `mt_fsm.cpp` over `FsmEvents` | one action per step between lock, engine and unlock |
| `FifoQueue` | the promise of a shared queue | `q`, and `taken` in order |
| `SyncQueue` | `ipc_queue.hpp`, `mt_queue.hpp` | one action per access another process can observe |
| `Metrics` | `metrics/`, with csv sinks | one action per call of the user's loop, with every collector it reaches |
| `Workers` | `threadable`, `forkable` | one action per step of the owner between two calls of the system, and of each worker |
| `Vectors` | integer vectors and bounding boxes | operators |
| `GridView` | `hgrid3D::subgraph()` and `hgrid3D_view` | one action per edge the visit looks at |
| `Factory` | `base_factory` | operators on a map of workers, used by the next two |
| `Registry` | `xml_config_repository` | one action per call, `parse_all()` with the exception that may end it |
| `Prototype` | `caching_factory`, `rngm` | one action per call |
| `MetricsConfig` | `metrics_parser`, the sink parsers, the registerers | one action per document |
| `PoissonQueue` | `poisson_queue` | one action per operation, the two sides indexed |
| `KMeans` | `kmeans` with `kmeans_omp` | one action per iteration of a parallel loop, in any order |
| `EventHorizon` | `entropy_balch2000` with `entropy_eh_omp` | the same, and one per turn of the loop that removes duplicates |
| `ConvexHull`, `ClosestPair` | the two algorithms | one action per turn of the scan; per call of the recursion, per element that the sort puts in place and per pair that the loops look at |
| `Ranges`, `Angles` | `range`, `degrees` (and `radians`) | one action per call |
| `Grids` | `base_grid2D`, `base_grid3D`, overlays | one action per view |
| `Shared` | `mt_set`, `mt_add` | a load and an exchange |
| `Lockable` | `lockable` | entering a section, taking the mutex, leaving |
| `FsmProofs`, `MtFsmProofs`, `SyncQueueProofs`, `WorkersProofs`, `MetricsProofs`, `GridViewProofs`, `RegistryProofs`, `ComponentProofs` | the theorems | |
| `Components` | the thirteen smaller components side by side | `part` says which one a behaviour is of, `v1` to `v9` stand for its variables; its named assumptions are what the proofs need of the constants |
| `MCFsm`, `MCSyncQueue`, `MCMetrics`, `MCGridView`, `MCComponents` | constants of the instances | |

An operator `X_Word` (`X_Fault`, `X_Early`, `Unlock_Never`, `Backtracks_Clockwise`)
is not part of a model. It is `X` with a plausible bug, kept to show that a
property is able to fail.

### Fsm

`m` is the record of `base_fsm`'s members, `data` the object `m_event_data`
owns, `parent` each state's `m_parent`. The C++ call stack is `frame`, one entry
per running `external_event()`, with the place of its loop and the locals it
holds across callbacks. Every callback is a place `pc` where the environment
may call `InternalEvent`, `HoldData`, `ReleaseData`, `ChangeParent` and, if `Reentrant`,
`ExternalEvent`, any number of times, before it returns by an action of its
own: `GuardAccepts` or `GuardRejects`, `ExitReturns`, `EntryReturns`,
`ActionHandles` or `ActionEscalates`. `next_state` is read where the code reads
it, after callbacks that may have changed it. `style` says which of the two state maps
the class has and whether it is an `hfsm`. `external_event(ekIGNORED)` returns
at once and is a stutter. A missing callback is one that returns TRUE or does
nothing. Past undefined behaviour the model stops in mode `undefined`, past a
halting assertion in `aborted`; `ErLevel` says which assertions the build has.

Event data is an identity or `NoData`; signal, type and payload are left out, as
no property tells them apart. Three histories serve the properties. `inside`
holds the states whose entry callback ran and exit did not. `skipped` holds those that
`init()` or a constructor put the machine in or out of: neither runs a callback
(`base_fsm.cpp:36-72`), so there is nothing to pair until the state's own next entry or
exit, and `EntryExitPaired` exempts them until then. `bare` says that the event under way was raised
without data (`base_fsm.hpp:167-169`) or that the user released the data
(`event_data_release()`, 144-146): both are allowed, also in an `hfsm`, and both
reach the null pointer of `hfsm.cpp:54` by the user's own doing. `NoUndefined` says that the engine
never gets there otherwise. The bound `MaxDepth` limits nested engine loops. In the checked
instances parents are composites outside the state map. `operator=` is left
out: with it a machine comes into any state without an event, and what
`FsmEvents` promises would be empty.

### SyncQueue

`pc` is where each process is: waiting for the lock, holding it, asleep on the
condition, woken, between `front()` and `pop_front()`, about to notify or to
unlock. `Wake` stands for a timeout as well as for a spurious wake-up, so
`pop_wait()` is exercised by wake-ups nobody sent. `pop()` on an empty queue is
undefined behaviour: the process stops there. Elements are named by the process and the call that
pushed them, so they are distinct. `MaxCalls` bounds the calls of a process.

`Kill` ends a process of `Mortal` at any point of an operation. Mutex and
condition are in shared memory and not robust: who dies with the mutex keeps
it, and a dead waiter is still counted and may be chosen by one `notify_one()`.
`NoLostWakeup` then says that an element has somebody on the way to it or one who was
killed on the way; `NoStrandedElement` exempts what a killed process prevents.

### Metrics

The library has no loop of its own. `phase` is the loop its users write:
register, `initialize()`, then per timestep collect, flush every mode,
`interval_reset()`, `timestep_inc()`, and `finalize()` at the end. A collector's data is
the set of timesteps it has a sample of; a line is its timestep and the data it was built from. `Outcomes` says
what writing a line can come to: `written`, `lost` without an exception (an `ofstream` does not throw), or
`thrown` (only `resize_file()` throws, which `retry_io()` turns into a
failure). After `lost` a stream has its error bits set and stays as good as
closed. `open` is FALSE for both. `initialize()` empties files and resets the
data, as the code does, and may be called again when `LateCollect`. Files named after timesteps, `ekCREATE`, are lines keyed
by timestep. `UseNoGroup` is a call for a name that a derived manager put into the map without
`collector_preregister()`: its group is null, and the program is undefined from there.

### MtFsm

What the engine does is taken from `FsmEvents`, which `Fsm` is shown to
implement; here the question is what several threads make of it. `Call` is a
call up to the lock, and evaluates the argument of `inject_event()` where the
code does, before the lock. `Internal` is a callback that raises an event, any number of
times: nothing bounds such a chain, in the code or in the model. `Relock` is a callback that re-enters, `Throw` one
that throws: in both the mutex stays locked, as the code leaves it. `MutexReleased` therefore
names all three ways in which a thread keeps the mutex, and says that there is no fourth.

### Workers

`flag`, `arg` and `handle` are the members of the owner's object, `worker[i]`
the i-th thread or child: where it is, the argument its `start()` was called
with (`given`) and the one its main function received (`got`), and a child's copy
of the flag. `start()` is `Prepare` (the assignments), `Create` or `CreateFails`
(`pthread_create()` or `fork()`), and `Bind` for a thread; a new worker may run
between `Create` and `Bind`, and `Enter` reads `m_arg` when the thread gets there.
A child whose `chdir()` fails, or whose `proc_main()` returns, comes back from
`start()` and is `astray` in the parent's code. The user waits for a worker
before starting another, except one whose `start()` returned an error, which
may simply be repeated. `MaxStarts` bounds the starts of one object.

### GridView and Vectors

`stack`, `color`, `distances` are those of `boost::depth_first_visit()` and the
filter; `Discover` is `operator()` of the filter for one out-edge, with the update of
the four corners, and takes the edges of a vertex in any order. The descriptor
of a vertex indexes vectors of `Capacity` elements, sized by the distance that
was asked for: a write past their end is `pc = "undefined"`, a read past it
returns anything. The corners start at zero, as in the code, so that of the two that take
a maximum on one axis and a minimum on the other nothing is promised;
`CornersExtremal` is about the other two. Coordinates are small naturals.

### Registry, Factory, Prototype, MetricsConfig

The heap of the repository is a sequence of the parsers made, each with its class and
its configuration; a name leads to a place in it, a type to a name. A parser is live while a worker of the
factory keeps it, and `Dangling` otherwise. `ParseAll` visits the parsers in the order of the map, by
name, up to one that throws, halts or is gone. `latest` is what the documents since a name's last registration
had for each class, `Either` where the parse of the last one was broken off; a document without the section changes
nothing. `mixed` remembers that one name was used with two
classes, after which the types promise nothing: `TypedLookup` says so. A
document says per class whether its section is absent, incomplete, invalid or
valid. `Prototype` is `caching_factory` over the same `Factory`. `MetricsConfig` keeps what the two
sink parsers hold after each document, the declared type of `m_network_sinks` included; `CollectorsFollowDocument` compares the
collectors with the file section of the last document, when it has one.

### PoissonQueue, Ranges, Angles, Grids

`PoissonQueue` has one record per side with the members of `op_metadata`; random
draws are any of `Draws`, time is the client's and does not go back. `Ranges`
has the bounds and the span as members and ends in `halted` at an assertion, in
`hangs` where `wrap_value()` would loop. `Angles` keeps, beside the angle, `exact`,
the same computation without normalization; `radians` has the same operations with pi for 180, and rounding
is left out of both. `Grids` makes a view with the
arithmetic of each function, the half-open intervals of `boost::multi_array` included; an overlay of a 2D grid
asserts nothing of z, and `std::remainder()` takes a tie to the even multiple.

### KMeans, EventHorizon, ConvexHull, ClosestPair

The parallel loops of OpenMP run their iterations in any order, with a barrier
at the end. Centres are fractions, with a denominator of zero for the mean of an empty
cluster, which as a `double` is not a number. Points on a line are enough for both, since
the code uses nothing but distances.

The hull's vector is sorted around its lowest point into one of `Fans` (which the comparison allows), filtered, and scanned: `Push` and `Pop` are
the turns of the scan. `hull` is the list that is returned, with its front last. In `ClosestPair` `calls` is the stack of the recursion and `best` what its calls
returned, by segment. `strip` is a set of points until it is sorted, element by element, into `order`:
the sort takes equal heights in any order. `row` and `col` are the two loops that compare pairs, the
inner one of which stops at the first pair too far apart in height.

### Shared and Lockable

`Shared` has a history of the calls that had an effect (`effective`) and of those that were
overtaken between load and exchange (`raced`). `Lockable` reads the
condition anew at each end of a section; `crossed` remembers that it changed while a
section was under way. Locking a mutex that the thread holds, or unlocking one it
does not hold, is undefined.

## Runs

Every run finishes within five minutes on two workers: `fsm` and `queue` take about two
minutes at most, `metrics` and `components` half of one, the others less.

| Run | Shows | Bounds and why they are enough |
|---|---|---|
| `fsm` | `TypeOK`, `RunToCompletion`, `IdleDropsData`, `NoUndefined`, `EntryExitPaired`, `ImplementsEvents`, `PendingDecided` | 3 states (a transition, a self transition and a redirected one), a composite, 2 data objects (the current and a replacement) and none, all four styles, every assertion compiled in |
| `fsm_reentrant` | `NoUndefined` violated | 2 nested loops are enough for one to pull the data from under the other |
| `queue` | `TypeOK`, `MutexHeld`, `NoLostWakeup`, `ImplementsFifo`, `NoStrandedElement` | 2 producers, one of which also polls and clears, 2 consumers, one unlimited only and one of every kind; 2 calls each, so two waiters meet two elements, a thief and a timeout; a producer and the second consumer may be killed |
| `metrics` | `TypeOK`, `NoSampleLost`, `CountedOnce`, `AppendHasNoGaps`, `LinesHoldInterval` | 2 names in any groups, 3 timesteps, interval 1 for appended and truncated files and 2 for created ones, every combination of I/O failures |
| `metrics_flush` | `FlushReachesAll` violated | intervals 1 and 2 in one group |
| `mt_fsm` | `EventsNotMixed`, `MutexReleased` | 2 threads, 3 states, chains of internal events of any length |
| `mt_fsm_inject` | `InjectKeepsState` violated | 2 threads |
| `workers` | `LiveAccounted`, `ArgDelivered` | a thread and a child process, 2 arguments, 3 starts: a failed start, its repetition and a worker after that, with every step of the workers in between |
| `workers_told` | `StopsWhenTold` violated | one thread |
| `grid_view` | `TypeOK`, `ViewExact`, `CornersExtremal`, `Terminates` | two layers of 2 x 2 cells and a ninth beside them, complete and with walls; every start, distances 0 to 3, without a mask and with two: distance 0 has no room at all, distance 1 one element too few |
| `components` | one or more properties per part, below | below |
| `network_config` | `StreamsFromNetworkSection` violated | one collector |

Parts of `components`:

| Part | Property | Bounds |
|---|---|---|
| `registry` | `PointersOwned`, `TypedLookup`, `ConfigsCurrent` | 2 names, 2 classes of which one is required, 3 documents, 3 objects |
| `config` | `CollectorsFollowDocument` | one collector, every combination of subsections of the file section that matters |
| `prototype` | `FirstRequestDecides` | 2 names, 2 classes, 2 arguments, 3 objects |
| `poisson` | `RatesAccount` | 2 items, draws 0 to 2, 4 instants, 2 operations per side in all, resets anywhere between them |
| `kmeans` | `ConvergedIsFixpoint` | all choices of 4 points at 3 places and of 3 at 4, up to 2 clusters, 3 rounds |
| `horizon` | `ClustersDistinct` | all choices of 4 points at 4 places, horizons 0, 1, 3 |
| `hull` | `HullEncloses` | all sets of up to 5 of 12 points of a lattice, which has lines of 3 and 4 |
| `pair` | `ClosestFound` | all choices of 4 points, of 5 on two heights, and three of 8, for three nested merges |
| `range` | `RangesWrap` | arguments -2 to 2, bounds -4 to 4 |
| `angle` | `AngleTracks` | 8 angles at, just past and between the bounds, factors -1, 2, 3, numbers up to 1000 |
| `grid` | `ViewsCropped` | grids of 1 to 3 cells a side and overlays of them, radii past the edges |
| `atomics` | `AddsAccounted` | 3 threads, 4 calls in all |
| `lockable` | `SectionsExclude` | 3 threads: a holder, a waiter and one that comes in without the mutex |

No run checks deadlock: in each model the system may stop. Callers need not call, a halted
program stays halted, an algorithm ends, and a waiter may wait for ever if nobody pushes.

### Fairness

Only threads that are inside library code are assumed to go on. In `Fsm` the
engine loop is (`WF` of `Engine`): it is straight-line code, and callbacks
return. `SyncQueue` has weak fairness of each process's own steps, including
taking a mutex that stays free, and of timed waits ending; nobody is assumed to
call, an unlimited wait is not assumed to wake spuriously, and a killed process takes no step. `MtFsm`
has weak fairness of the thread inside the engine only. A mutex owes no thread
its turn, so nothing is claimed about that. `PendingDecided`
holds although callbacks may chain events without end: an event is decided, not answered. `MutexReleased` does not:
it has the endless chain as an alternative, `[]<><<...Internal...>>_vars`, beside re-entry and the exception.
`GridView` has weak fairness of its next step: one thread runs the visit, and nobody else takes part.
`Metrics` and the parts of `components` claim safety only. In `Workers` a worker enters its main function and leaves it
once `terminated()` says so; it is assumed to read the flag, a plain `bool`, in every round, which is more than the
code guarantees, so the counterexample of `workers_told` does not depend on a stale read.

### Disagreements between the code and its documentation

1. `fsm_reentrant`. `base_fsm.hpp:118-119` recommends `inject_event()` from within states. The nested
   `external_event()` resets the event data of the outer one (`base_fsm.cpp:103-105`), and an outer `hfsm`
   step that then escalates dereferences null (`hfsm.cpp:54`).
2. `metrics_flush`. `collector_group.hpp:228-229` flushes "all collectors in the group"; `std::all_of` (line 241) stops
   at the first that is not due, and the reset of the same timestep drops what later ones held.
3. `mt_fsm_inject`. `mt_fsm.hpp:47` is "threadsafe"; the state injected into is read outside the mutex (`base_fsm.cpp:231`).
4. `workers_told`. `threadable.hpp:85`: "Check if a thread object has been told to terminate"; it returns `m_thread_run`
   (line 88), the inverse of `forkable.hpp:95`. A loop over `!terminated()` ends at once before `term()` and never after.
5. `network_config`. `network_sink_config.hpp:42` describes the metrics "written to network sinks"; `metrics_parser.hpp:81` declares
   their parser with the type of the file sinks' parser, so that they are read from the file section.

Seen while modelling, without a run. The models contain what the code does in each
case that lies in a modelled part. A property that holds except there leaves the case open, says so in its comment, and
demands neither what is documented nor what the code does.

- `pop_timed_wait()` "waits if the queue is empty" (`ipc_queue.hpp:133-134`) and waits always (146).
- `write_status.hpp:53` promises that success means written; a closed stream is reported as success (`csv_sink.cpp:55-60`).
- `forkable::term()` (`forkable.hpp:58-60`) sets the flag of the caller's copy, not that of the child.
- `base_fsm.hpp:158-159`: data passes "without modification"; `hfsm.cpp:54-55` rewrites type and signal. The copy constructor starts in the
  current state of its source, `operator=` in its initial one (`base_fsm.cpp:44-62`). `external_event(new_state)` (`base_fsm.hpp:167-169`)
  sends no data and `event_data_release()` (144-146) takes them out; a state of an `hfsm` that then passes the event to its parent
  dereferences null (`hfsm.cpp:54`). `init()` and the constructors run neither exit nor entry callbacks (`base_fsm.cpp:36-72`).
- `mt_fsm.hpp:47` is "threadsafe": a callback that re-enters locks a mutex its thread holds, and one that throws leaves it locked (`mt_fsm.cpp:36-38`).
- `collector_preregister()` (`base_manager.hpp:79-81`) sets up the map, but `at()` (`fs_output_manager.hpp:65`) throws for a name not in it;
  `get()` of an unknown name inserts a null group (`base_manager.hpp:141`), and `collect()` of a name in the map whose group is null
  dereferences it (107).
- `fs_output_manager::flush(ekSTREAM)` flushes the created files. An output interval of 0 is a division by zero
  (`base_collector.cpp:64`). `ekTRUNCATE` empties a file before it writes the new content (`csv_sink.cpp:63`).
- `xml_config_repository`: `config_get<T>()` of an unknown type dereferences `end()` (89) where the comment says NULL; unregistering a name
  erases the types of another one; a name registered with a second class keeps the worker of the first. A required section that throws leaves an
  empty configuration behind. `parser_find()` promises NULL for a name that is not registered (111-117) and returns the pointer to a
  destroyed parser once a name was unregistered, since that leaves `m_parsers` alone (152-161).
- `docs/config/index.rst:139-140`: not defining the collectors disables them. A document without the file section leaves
  those of the one before (`file_sink_parser.cpp:36-38`).
- `caching_factory.hpp:47-52` makes an object if none "has been previously created" with the name. A request before the name is registered
  caches a null pointer (70-71), and every later one returns that.
- The view's bounding box may not cover it, since two corners start at zero (`hgrid3D_view_filter_data.hpp:62-66`, `hgrid3D_view.hpp:88-94`);
  colours and distances are sized by the distance and indexed by descriptors (`hgrid3D_view_filter.hpp:74-88`, `142-149`).
- `kmeans` ends at once when the first k points are all zero, and never converges with an empty cluster; with fewer points than clusters it reads
  past the end. `max_subarray_finder` counts the first element twice, and moves the start of a result it has already found.
- `closest_pair2D` subtracts unsigned coordinates (176); `convex_hull2D` orders equal points before each other (195), and returns its
  list clockwise, as the test has it (`tests/algorithm-utest.cpp:107-112`), where its comment says counter-clockwise (`convex_hull2D.hpp:49-51`).
- `base_grid2D`: the views of a mutable grid have a row and a column more than those of a constant one, and than the circle its
  comment describes (102-113); `subgrid()` excludes its upper right corner,
  which its comment includes. `base_grid3D::layer()` is empty (117-118), where its comment returns the layer (109-115). `stacked_grid2D` makes two layers
  at most and destroys one (191-242). `rtree::remove(value)` removes every element of that value, "0 or 1" by its comment.
- `range`: `shrink()` and `translate()` check nothing; conversions use the lower bound twice (288) or the name of the wrong type (306).
  `vector2::rotate()` uses the coordinate it has just changed (224-225). `color::green(x)` sets another channel, `ema` of an `ema` drops its average.
- `multifactory::create()` returns nothing (87-91).

## Proofs

Assumptions on constants are the named `ASSUME`s of the modules, or stand in the theorem.

**Fsm.** `TypeCorrect` holds for all constants, re-entrant callbacks and builds
without assertions included. `EngineSafety`, `RunsToCompletion`, `IdleHasNoData`, `NothingUndefined` and `EngineRefinesEvents` assume
`~Reentrant` and `ErLevel = "ALL"`, without which the run `fsm_reentrant` or
an entry callback that raises an event refutes them. The invariant `SafetyInv`
adds to the properties what makes them inductive: at most one loop runs, what
the frame fetched is still what the members say while a guard or an exit
callback runs, an event of an `hfsm` under way has data unless it is `bare`, and which of
`inside`, `skipped` and the frame account for the states during a transition.
`EntryExitPaired` fails to be inductive without the last part, since it says nothing while
exit or entry run. The refinement follows from it: engine steps between two
switches map to stutters or to `Request`.

**SyncQueue.** `QueueInv` is the types, mutual exclusion, "an operation has
begun" (which makes a pushed element one of `Elements`) and `FrontStable`: between
`front()` and `pop_front()` the copied element is still the head. `FrontStable`
makes `ImplementsFifo` a step simulation. `QueueNoLostWakeup` is by counting: a push adds one element
and puts the pusher in `OnTheWay`; the notification replaces it by a woken
waiter, or finds none asleep; a pop removes one element and one process; a killed process stays where it was. It needs finite
`Procs`, and cardinality lemmas of the library. All four theorems hold whoever is killed.

**MtFsm.** `MtInv` adds that the mutex belongs to whoever took it and did not
reach the unlock, including threads that threw or are stuck. `MtEventsNotMixed` follows.

**Workers.** `WInv` adds to the properties that workers are numbered in the order of their
starts (so a new worker takes a number no live one has), that a start under way has nothing left to join or
repeats a failed one, and `ArgWaits`: until a thread has read its argument nobody has replaced it. The last is what makes
`ArgDelivered` inductive.

**Metrics.** The inductive invariant is `TypeInv` (types, open streams have files, no collector ahead of the clock), `Phased` (what
each phase knows of the collectors' clocks and data), `Counted` (no sample is in two places) and `LinesInv` (what a
file's lines say of the samples before the interval under way). `LinesHoldTheirInterval` has `HeldInv` besides: what a collector that resets
holds and what its lines hold, both as the samples of its history that no due reset was to clear (`Kept`). It is proved call by call, because collectors and lines
go by the collector's clock and `interval_reset()`, and the samples by the user's. `MetricsTyped` needs no assumption, `LinesHoldTheirInterval` that nobody
registers late, whatever the intervals in a group are. `SamplesAreKept`, `SamplesCountOnce` and `AppendedWithoutGaps` also assume one interval per group: `flush()` stops at the
first collector that is not ready, so with two intervals they are false, which `metrics_flush` shows.

**GridView.** `ViewInv` says of the visit that grey vertices are those on the stack, black ones have no eligible neighbour
left, and everything found is reachable; at the end the found set is closed, hence the least closed one (`ViewIsExact`). `CornersInv` adds that
each corner is a cell that was found, and that no cell found is beyond it. They hold for every graph, with any coordinates.

**Registry.** `RegistryInv` relates the three maps and the heap: a name that leads to a live object leads to one its worker made, and a type, as long as names are
used with one class, leads to a name whose object has it. `PointersAreOwned` and `LookupIsTyped` follow. `ConfigsAreCurrent` follows `parse_all()` through the parsers it visits: `Current` is the
property with `RegistryInv`: since a live parser belongs to one name only, a document that is parsed to its end writes every parser of a registered name. `PrototypeInv` numbers the objects that `caching_factory` made: each is kept by one worker and was made for one name, so the
first request for a registered name decides (`FirstRequestsDecide`); `NullCached` says that the others have the null pointer still. `ConfigInv` says that after a document with a file section the sink parser holds
that section, as long as no parse threw (`CollectorsFollowDocuments`).

**ComponentProofs.** One theorem per remaining part of `components`.

| Theorem | Its inductive invariant adds |
|---|---|
| `AdditionsAccounted` | a call that nobody raced has read the present value |
| `RatesAreAccounted` | by cases on the operation and on whether its time has been drawn, the counts of the two sides balance with the queue |
| `LockedSectionsExclude` | a thread's hold on the mutex is of the kind of its section, and a waiter saw the condition |
| `AnglesTrack` | an angle is congruent to the exact one; scaling needs the number of turns as a witness |
| `RangesWrapValues` | the span is that of the bounds; `wrap_value()` adds a number of spans that the proof names, for every span |
| `ViewsAreCropped` | the sizes are natural numbers; each function's arithmetic by itself |
| `ClustersAreDistinct` | the clusters are those around points taken in order, the first points to have them, and the prefix that was gone through has no duplicate; clusters are not emptied between horizons, which is right because the balls grow |
| `ConvergedRunsAreFixpoints` | the centres are means of the clusters around the previous centres; equal fractions are equally near to every point, so equal centres have the same clusters |
| `HullsEnclose` | the kept points are a fan, with strictly increasing angles around the first, and cover the data ray by ray; the stack is a chain that turns left at every point and has all points scanned to the left of each edge |
| `ClosestIsFound` | every solved segment has its nearest pair; the strip is exactly what may be closer than the halves' result; no pair that the loops passed or skipped is closer than what they keep |

Two of them need geometry. For the hull, identities between the cross products of four points (`CrossesOfFour`) give the facts about half-planes, and that a
point pushed is to the left of all edges before goes down the chain from the last edge, as the choice of the least edge to which it would not apply.
For the pair, two points that the strip leaves out are further apart in x than the halves' result, and
two that the inner loop skips further apart in height. Where an argument wants an induction over
data (sums, chains), it takes the least counterexample instead, from the well-foundedness of the natural numbers (`LeastElement`).

What they assume of the constants are the named assumptions of `Components`: inputs are finite and of integers, the closest pair begins after its sort by x, `entropy_balch2000` gets horizons in increasing order, resolutions are not zero, `NoThread` is no thread. Each is a precondition of the
function, a type in C++ or a place where the model starts.

**Vectors** (in `GridViewProofs`). Integer vectors are totally ordered (`KeysAreOrdered`); with the
tolerance of floating-point vectors they are if their first two coordinates are equal or further apart than it (`SeparatedKeysAreOrdered`), and for every
tolerance there are three keys in a circle (`NearKeysFormACircle`), so no map of nearby keys is safe. The centre of a box
is one of its cells (`CenterIsInside`).

**Model-checked only.** Every safety property of the passing runs has a theorem. Liveness (`PendingDecided`, `NoStrandedElement`, `MutexReleased`, `Terminates`) is out of
the prover's reach and stays with TLC, and the violations are counterexamples TLC prints.

## Not modelled, and why

- Real arithmetic: lengths, rotations, spherical vectors, entropies, sigmoids, averages, waveforms, random numbers, conversions between
  degrees and radians, the averages in collectors' lines, `pid_loop`. What is modelled of `math` is exact.
- Wrappers without state of their own: `rtree` (a Boost tree), `type_map`, decorators, visitors, pimpl, named types and measures, `mpl`, macros.
- `stacked_grid2D` and `max_subarray_finder`: the list above says why nothing useful would hold of them.
- Data races with undefined outcome: the unlocked members of `mt_queue` and `mt_vector`.
- I/O and the system: logging, XML access, shared memory segments, GraphML, command lines, and network sinks, whose streams are the user's.
- In modelled parts: `base_fsm`'s `operator=` and protected setters, parents from another `hfsm`.

About a tenth of the implementation's lines are mapped; less than half of all lines are code, and of those
most are declarations, forwarding and the parts listed here.

## Plan

1. Done: the event engine, the shared queues with processes that are killed, the metrics pipeline, the locked FSM, the workers, grid views,
   the configuration repository, the parts of `components`, with a theorem for each of their safety properties.
2. `Metrics` composed with `MetricsConfig`, so that registration follows a document, and a crash between emptying and writing a truncated file.
3. Liveness of the algorithms: each call returns, also k-means with clusters that never converge.
