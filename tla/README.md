# TLA+ models of the Template Numerical Library (TNL)

TNL is a header-only C++ library for numerical simulation on CPUs, CUDA GPUs and
MPI clusters.  Most of it is data-parallel numerics.  Its *control* sits in a few
places: the ghost exchange of distributed containers and meshes (threads, futures,
MPI messages), the monitor thread of the solvers, the time loop with its failure
paths, the shared pointers that keep a host object and its device image in step, the
sorting of arrays by concurrent blocks of a GPU, and loops that move data through
buffers of limited size.  These are what this directory models, model-checks with TLC
and, in part, proves with TLAPS.  Paths below are relative to `src/TNL/` of the
repository.

## 1. Inventory

| Component | State | Operations | Interacts with | What is hard | What makes it correct | Here |
|---|---|---|---|---|---|---|
| Index partitioning: `Containers/Partitioner.h`, `Subrange.h` | none (pure) | `splitRange`, `getOwner`, `getOffset`, `getSizeForRank` | every distributed container | rounding at range boundaries, empty ranks, width of the product | ranges tile the array; the owner owns | modelled, proved |
| Ghost exchange: `Containers/ByteArraySynchronizer.h`, `Partitioner.h` (`ArraySynchronizer`) | future `async_op`, a pool of one thread, MPI requests | `synchronizeByteArrayAsync` with four policies, the worker, destructor | distributed arrays that share a synchronizer; the neighbours, by messages with one tag | a worker beside the main thread, ranks at different speeds, deferred work, storage that goes away | one exchange at a time; ghosts equal the neighbours' boundaries; everything finishes | modelled, proved |
| Distributed arrays and vectors: `Containers/DistributedArray*`, `DistributedVector*` | local data with ghosts, range, shared synchronizer | writes that start an exchange, waits, `reset`, assignment, destructor | the exchange | operations that forget to wait | no use of freed storage; ghosts repaired | partly |
| Distributed N-d arrays: `Containers/DistributedNDArraySynchronizer.h` | neighbours, tags, mask, buffers per direction | exchange of all dimensions, packing and unpacking | MPI, several arrays per synchronizer | deferred copies out of buffers, state cached by the first exchange | ghosts of the chosen sides, and only they, get the boundaries; requests match; everything ends | partly |
| Solver monitor: `Solvers/SolverMonitor.h` | atomics `started`, `stopped`, `timeout_milliseconds` | main loop in a thread, stop, refresh rate, join | the solver's main thread | a thread that starts late, stops during a sleep, reuse of one monitor | join returns, stops are prompt, sessions end only when stopped | modelled, proved |
| Iterative solver monitor: `Solvers/IterativeSolverMonitor.*` | plain attributes, the atomics `saved` and `attributes_changed` | setters in the solver's thread, `refresh` in the monitor's | both threads | setters and refreshes that interleave | the latest values are shown in the end; a log does not repeat itself | partly, proved |
| Smart pointers: `Pointers/SharedPointerCuda.h`, `SmartPointersRegister.h`, `UniquePointer.h`, `DevicePointer.h`, `SharedPointerHost.h` | reference count, host object, image of the last synchronization, device image, register per device | construction, copies, moves, `recreate`, access, `clear`, destruction, synchronization | kernels, `cudaSetDevice` | long sequences of calls over several pointers, stale images, register entries | counts match, images current when kernels start, no dangling entry | `SharedPointer` and register modelled, proved |
| Files: `File.hpp` | file position | chunked load and save, with conversion or to a device | transfer buffers of 1 MiB | chunk boundaries, two buffers of different size | every element at its place, within the buffers | chunk loops modelled, proved |
| Memory operations: `Algorithms/MultiDeviceMemoryOperations.h`, `MemoryOperations*` | buffers | copies between devices, comparison, fill | arrays | chunk boundaries | as above | copies modelled, proved |
| Sorting: `Algorithms/sort.h`, `Algorithms/Sorting/` | two buffers, three lists of tasks with atomic counters, a stack per block | quicksort in two phases, bitonic networks, bubble sort, `std::sort` | arrays, the CUDA runtime | blocks that share atomic counters, lists that fill up, sizes that are no power of two | the elements in order, none lost; every sort ends | GPU sorts modelled |
| Timer: `Timer.hpp` | start time, total, stop state | `reset`, `start`, `stop`, `getRealTime` | the time loop, profiling | order of calls | shows the time it has run | modelled |
| ODE and PDE solvers: `Solvers/IterativeSolver.hpp`, `Solvers/ODE/`, `Solvers/PDE/`, `SolverStarter.hpp` | time, step, iterations, residue, timers | adaptive steps, snapshots, failure returns | timers, the problem | floating point times, early returns, exceptions | snapshots on schedule, times reported right, every run ends | control modelled, time loop proved |
| Distributed meshes: `Meshes/DistributedMeshes/`, `Tools/tnl-decompose-mesh.cpp` | entities, owners, global indices, ghosts | decomposition, `distributeSubentities`, synchronizer | MPI | owners chosen by every rank on its own, indices that travel over other ranks | indices agree; ghosts have the owner's values; no rank waits for ever | faces modelled, the distribution proved |
| MPI wrappers: `MPI/` | initialization state | wrappers, `optimizeRanks` | MPI | external library | - | as far as the exchanges need it |
| Arrays, vectors, N-d arrays, static containers, indexed sets: `Containers/` | data | element access, resizing, expressions | allocators, memory operations | - (sequential data) | - | no |
| Parallel algorithms: `Algorithms/` (`ParallelFor`, `reduce`, `scan`, `distributedScan`) | partial results, `CudaReductionBuffer` | phases over blocks | devices, MPI | phase boundaries, block offsets | equals the sequential result | planned |
| Segments: `Algorithms/Segments/` | offsets | index maps of CSR, Ellpack, ... | matrices | slice arithmetic | maps are injective | planned |
| Matrices, linear solvers: `Matrices/`, `Solvers/Linear/` | values, column indexes | element access, products, iterations | segments, vectors | numerics | - | no |
| Meshes: `Meshes/` | entities and their relations | construction, readers | - | large data, little control | - | no |
| Functions, operators, problems, configuration, logging, strings, images, tools, benchmarks, examples, Python bindings, `3rdparty/` | - | - | - | - | - | no |

`PROJECT.json` lists the hazards of this code at their lines, with the properties
that cover them, or the reason why none does.

## 2. Modules

| Module | Models | Notes |
|---|---|---|
| `Partitioner` | `Partitioner.h` 29-72 | operators with exact integers: the Index type is assumed wide enough for `rank * globalSize` |
| `MCPartitioner` | - | enumerates size, number of ranks and index for TLC |
| `Partitioner_proofs` | - | lemmas on offsets, owners and sizes; the owner owns, the ranges tile |
| `DistributedProgram` | the program that all ranks execute, and what its arrays should contain | shared by the next two |
| `GhostExchange` | abstract specification of an exchange: no threads, futures or messages | |
| `ArraySynchronizer` | `ByteArraySynchronizer`, `Partitioner::ArraySynchronizer`, the operations of `DistributedArray(View)` that use them, MPI matching | refines `GhostExchange` |
| `MCArraySynchronizer` | - | instances for TLC |
| `ArraySynchronizer_proofs` | - | types, one active exchange, storage |
| `Exchange_proofs` | - | the message queues, the ghosts, the refinement of `GhostExchange`; extends the former |
| `NDArraySynchronizer`, `MCNDArraySynchronizer` | `DistributedNDArraySynchronizer` | |
| `SolverMonitor`, `SolverMonitor_proofs` | `SolverMonitor`, `SolverMonitorThread` | `refresh()` is one wait of any length |
| `IterativeSolverMonitor` | `IterativeSolverMonitor` | composed with `SolverMonitor`, which it implements; proved in `SolverMonitor_proofs`, too |
| `SharedPointer`, `SharedPointer_proofs`, `MCSharedPointer` | `SharedPointer< Object, Devices::Cuda >`, `SmartPointersRegister` | |
| `ChunkedTransfer`, `ChunkedTransfer_proofs` | `File::load_impl`/`save_impl`, `MultiDeviceMemoryOperations::copy` | |
| `Timer` | `Timer` | operators on a record |
| `IterativeSolver`, `ODESolver` | `IterativeSolver`, `Euler`, `Merson` | |
| `TimeDependentPDESolver`, `TimeDependentPDESolver_proofs`, `MCTimeDependentPDESolver` | `TimeDependentPDESolver::solve`, `ExplicitTimeStepper`, `SolverStarter` | composes the three modules above |
| `DistributedMesh` | `tnl-decompose-mesh` | the meshes of the ranks |
| `DistributeSubentities` | `distributeSubentities` | |
| `DistributedMeshSynchronizer`, `MCDistributedMesh` | `DistributedMeshSynchronizer` | runs after `DistributeSubentities`, on its result |
| `DistributedMesh_proofs` | - | owners, messages, passes, global indices and ghosts |
| `BitonicSort` | the bitonic networks | operators |
| `Quicksorter`, `MCQuicksorter` | `sort.h`, `Quicksorter` and its kernels | uses the networks as the base case |

Definitions whose comment begins with "Faulty:" are seeded faults: each is the
definition that follows it with one plausible bug, named by the suffix.  The
specifications do not use them; they show that the properties can be violated.

### 2.1 Ghost exchange

*State.*  `program` is the sequence of operations all ranks execute (SPMD): the first
rank to reach a position chooses the operation, the others follow.  `pos`, `pc` and
`waits` are the main thread of each rank; `mem` its local data including ghosts;
`alive` whether that is allocated; `async_op` the future, holding the operation it
belongs to; `stage` and `requests` the progress of each exchange.  `sends`, `recvs`,
`matched` are the MPI library's queues per ordered pair of ranks.

*Values.*  An element holds a triple of array, global index and position of the
operation that wrote it, so that a ghost that is stale, belongs to another array or
to the wrong neighbour is distinguishable.

*Actions.*  `BeginExchange` is the call of `setValue`, `copyFromGlobal` (the local
write first, as in the code) or `synchronizeByteArrayAsync`; `StartExchange` is
what follows the wait for the previous operation (`ByteArraySynchronizer.h` 73-77)
in each of the four policies; `Post` is one `Irecv` or `Isend`; `Waitall` the call of
that name; `FinishCall` the return; `WaitForSynchronization`/`FinishWait`, `Release`
and `FinishDestructor` the waits and the release of storage.  Posts of a worker
interleave with the main thread and with everything on other ranks.  `Match` delivers
the oldest unmatched message between two ranks to the oldest unmatched receive (MPI's
non-overtaking rule; the code uses one tag, one communicator and equal message
lengths); `Buffer` lets the library copy a payload early.  A send that is not
buffered reads the array when it is matched, so a program that writes during an
exchange sends what it wrote.

*Assumptions.*  Every rank has at least `Overlaps` elements
(`ConstantsAssumption`); sizes of the array and of its synchronizer agree, as the
assertion at `Partitioner.h` 110 demands.  `EagerWrites = FALSE` describes programs
that wait before they write.  The main thread is the only caller of a synchronizer
(documented at `ByteArraySynchronizer.h` 65).  `startSynchronization` of the library
always uses the policy `synchronous`; other policies enter through direct calls.

### 2.2 N-dimensional ghost exchange

The boundaries of an array in one direction are one value: who wrote them and by which
operation.  What remains is the control that differs from 2.1: `Allocate` (the first
exchange sets up neighbours, tags and buffers, later ones of other arrays keep what was
set), `WorkerInit` (packs the boundaries of the mask and posts all requests),
`WorkerFinish` (waits for all requests and unpacks), with the worker in a thread, in the
wait, or in the call.  Messages are matched by source, communicator rank and tag.
`EagerSends` says whether MPI buffers.  The arrays of the instances have different
shapes, so that a change of array changes the buffers.

### 2.3 Solver monitors

The main thread launches, stops and joins one session after another; the monitor
thread executes `runMainLoop` with one step per access of an atomic (`CheckOuter`,
`CheckInner`, `ReadRate`, ...).  In `SolverMonitor` `refresh()` takes any time
(`BeginRefresh`, `EndRefresh`).  `stops`, `lateRefreshes`, `lateSleeps` and `slept` are
history variables of the session, and `interrupted` of the whole program, for the
properties.

`IterativeSolverMonitor` adds the setters of the main thread (`BeginSetter`, `SetItem`,
`SaveStage`, `ResetStage`, `SetSaved`, `SetChanged`: the order of the code) and the steps
of `refresh()` between `BeginRefresh` and `EndRefresh` (`ReadSaved`, `ClearSaved`,
`TestChanged`, `PrintItem`, `ResetChanged`, `Return`).  Plain attributes are read and
written one by one; a torn read of a single one is not modelled.  Values are the
numbers of the updates that set them; the history variable `lines` counts the lines
printed since a setter has last returned.

### 2.4 Shared pointers

Pointers are handles that refer to an address or to null; `heap` maps an address to
`PointerData` together with its device image.  The helpers `free`, `allocate`, `refer`
transform the memory `[heap, pd]` in the order of the code, which matters for
`CopyAssign` of a pointer to itself.  An address can be reused after deletion.
`ReusedMemory = TRUE` lets the uninitialized `data_image` equal the new object (an
indeterminate value in the code).  `Calls` selects the operations of the program, so
that properties that fail with one operation can be checked with the rest:
`clearUnshared` is `clear()` of a pointer that does not share its object.

### 2.5 Transfers

One action is one iteration of a transfer loop; elements are told apart by their
position.  The buffer of 2^20 bytes is the constant `TransferBufferSize`.

### 2.6 Time stepping

Times are integers, counted in ticks; `Roundings` lets the quotient of times at
`TimeDependentPDESolver.hpp` 245 be one larger, as floating point division may make it.
The problem is the environment: for every evaluation of the right-hand side it chooses
the largest step that the Courant or error condition accepts (`StableSteps`) and the
residue (`RHSResidues`: below the convergence residue, above the divergence residue,
between, or not a number; none is below a convergence residue of zero, `Evaluations`).  The factors of the code that adapt a step (0.9, 1/0.95) are
kept, rounded to ticks.  `EulerReduceStep`, `EulerStep`, `MersonRejectStep`,
`MersonStep`, `MersonGiveUp` are the iterations of the two solvers; `Setup`,
`MakeSnapshot`, `BeginInterval`, `Compute`, `EndInterval`, `FinishSolve`, `WriteEpilog`
and their failing variants are the path through `SolverStarter` and `solve`; `Throw` is
an exception out of the problem; `Tick` advances the clock while any of it runs.
`spent` records what a stopwatch should show.

The sources are in the middle of a refactoring, and the model follows the control of
the `.hpp` files: `ExplicitTimeStepper.h` declares `timeStep` twice and uses the types
`MeshType` and `ProblemType` without a declaration, and its `.hpp` calls
`odeSolver->solve( dofVector )` with one argument.  Observed on the way and kept in the
model: `checkConvergence` returns false for a solver that has converged when the
iteration limit is reached; `checkNextIteration` is not virtual; a smaller `maxTau` that
was derived from the minimal number of iterations stays; the loop of Euler that reduces
a step does not count iterations; the rounded quotient can lead to an extra step of
length zero; `StaticEuler.hpp` reads its Courant number under another parameter name.

### 2.7 Distributed meshes

A cell or a face is the set of its vertices.  `Partition` is METIS: any assignment of
cells to ranks.  `Decomposed` adds the ghost cells, and vertices belong to the highest
rank that has a cell at them, as `tnl-decompose-mesh` decides.  One step of a rank is
what it does between two blocking communications; messages between two ranks keep
their order, MPI buffers sends.  `CountEntities`, `AssignIndices`, `ReceiveSeeds`,
`SetGhostIndices`, `Repeat` are the numbered steps in the comments of
`distributeSubentities`; `ExchangeOffsets`, `CountGhosts`, `SendGhosts`,
`FinishInitialize`, `Synchronize` and `FinishSynchronize` those of the synchronizer.  The
value of a face is the face, so a ghost that receives the value of another face is
visible.

### 2.8 Sorting

A call of a sort function is an element of `Calls`.  The host executes the loop of
`firstPhase` and starts kernels; all steps of a kernel that concern one task or block
are steps of that block, and those of different blocks interleave.
  - *First phase.*  `LaunchPartition` is `initTasks` and the launch; each block counts,
    reserves places by two atomic operations (`ReserveSmaller`, `ReserveBigger`) and
    copies.  The copy belongs to the second reservation: it reads what no block writes
    and writes what was reserved.  In `cudaWritePivot` each block fills its gap (`Fill`)
    and adds at most two tasks (`SkipEmptyPart`, `WriteNewTask`), one atomic operation
    at a time.
  - *Second phase.*  `SortPart` is one round of the loop of a block: take a part from
    its stack, and either sort it in shared memory or partition it and push two parts.
  - *Networks.*  The pairs of one layer of a bitonic network are disjoint and a barrier
    separates the layers, so a layer is one function of the array; `BitonicSort` gives
    the arrays after all layers.

Abstractions: `iteration` counts modulo 2, which is all that the code uses; entries of
a list beyond its counter are dropped; `elemPerBlock` is a parameter (the code derives
at least 256 from the device), and so are the lists' length (2^14) and the number of
blocks.  The path that sorts without shared memory is left out: with the configurations
that `Quicksorter::sort` computes it is reached for huge value types only, for which
`desiredElemPerBlock` can be zero.  A `Quicksorter` sorts once, as in `Quicksort::sort`:
a second sort would find the counters of the first.  Empty arrays are excluded
(`SortAssumption`): `init` sets element 0 of empty lists for them.

## 3. Runs

All passing runs check deadlock, with `Terminated` or `Finished` as the legitimate end,
except `Partitioner`, which enumerates inputs, and `Sorting`, where every behaviour ends
with the sorted array.

| Run | Instance | Shows |
|---|---|---|
| `Partitioner` | sizes to 14, up to 9 non-empty ranks | `OwnerOwns`, `RangesTile` |
| `GhostExchange` | 3 ranks, 7 elements (uneven ranges), 2 operations among `setValue` (exchanged in the calling thread) and exchanges by a worker | `TypeOK`, `GhostsMatchNeighbours`, `NeighboursReached`, `ImplementsGhostExchange` |
| `SharedSynchronizer` | 2 ranks, 2 arrays, 1 synchronizer, `copyFromGlobal`, deferred and async exchanges, destructors, fairness | `AtMostOneActive`, `StorageOutlivesExchange`, `NoMessageLeftOver`, `EveryExchangeFinishes` |
| `TwoSynchronizers` | 2 ranks, 2 arrays with a synchronizer each, 3 deferred exchanges | `NoCrossTalk` |
| `NDArrayExchange` | 2 processes, 2 dimensions, 2 arrays of different shape, 1 synchronizer, both sides or the left one, deferred and threadpool, fairness | `GhostsMatchMask`, `NoRequestLeftOver`, `ExchangesEnd` |
| `SolverMonitor` | iterative monitor, 2 sessions, 1 explicit stop in each, refresh rates of 500 (default) and 10 ms, 2 updates, verbose 1 and 2, fairness | `MonitorTypeOK`, `StopHonoured`, `EndsOnlyWhenStopped`, `RefreshesApart`, `LinesFollowUpdates`, `JoinReturns`, `LatestShown` |
| `SharedPointer` | 3 pointers, 3 addresses, 2 values, 2 devices, all operations (`clear()` of unshared pointers only) | `TypeOK`, `CounterMatches`, `RegisteredSynchronized`, `RegisteredAlive`, `RecreateIsolates` |
| `Transfers` | buffers of 12, 6 or 3 elements, up to 11 elements: up to 4 chunks, the last one shorter or whole, element sizes 1, 2, 4 | `TransferComplete`, `WithinSizedBuffers` |
| `TimeStepping` | Euler and Merson, adaptive or not, with a convergence residue or not, asked to stop at a steady state or not; four configurations of times; 2 to 3 iterations, clock to 3, fairness | `SnapshotsOnSchedule`, `SnapshotsOfTheirTime`, `StoppedTimeExact`, `TimesReported`, `SolveEnds` |
| `MeshDistribution` | 3 ranks, three triangular meshes of 4 and 5 cells, all partitions in which every rank owns a vertex and a face, fairness | `IndicesAgree`, `GhostsUpdated`, `EveryRankFinishes` |
| `Sorting` | all arrays of zeros and ones up to 7 elements through the networks, all arrays of up to 4 elements with 3 values and some up to 15 elements through the quicksort; lists of 3 tasks, 5 blocks, 2 threads, fairness | `SortedInTheEnd`, `TasksTile`, `StackFits`, `SortEnds` |

One more configuration passes and is kept for occasional use: `EagerWrites`
(`GhostsMatchAtEnd`, writes during a threadpool exchange).  `NDArrayExchange` also passes
with `EagerSends = FALSE`, where MPI does not buffer.  Every
module that keeps state has a type invariant; it is part of a run only where it costs
little.

Some properties carry a condition because the code fails them without it (section 4):
`EndsOnlyWhenStopped` holds as long as only destructors have stopped the loop,
`RegisteredAlive` as long as pointers were registered for one device,
`RegisteredSynchronized` for objects with an owner in the register,
`TransferComplete` for host conversions that fit in one buffer,
`WithinSizedBuffers` where the chunk is sized by the larger element,
`TimesReported` for successful runs, and `LatestShown` for verbose = 2.
`SnapshotsOfTheirTime` has two: a snapshot holds no later state, but for the adaptive
Euler, and no earlier one, if a convergence residue is given only where stops at a steady
state are asked for (`SteadyStopsAsked`); `SnapshotsReached` is the second part without
its condition.  With two ranks the messages of one side are received at the same side
(`GhostTwoRanks`), which is what `NoCrossTalk` expects of them there; `Taker` is the
facing side for three ranks and more.

*Why the bounds suffice.*  Three ranks are the fewest for which left and right
neighbour differ and a rank lags behind one neighbour while it is level with another;
more ranks add no new pair of neighbours.  Two exchanges are needed, and enough, for a
message or an answer to be taken for that of another exchange on a pair; two ranks
(every message between one pair) make the queues longest where content is not
compared.  Sessions influence each other through two booleans, so two show all
carry-over.  Three pointers give an object a sharer besides the two of a binary
operation.  Two dimensions are the fewest for which the tags of directions can collide.
Three ranks are the fewest for which the index of a face reaches a rank through one that
does not own it, which takes the second pass; a mesh of dimension 2 allows no third one.
Zeros and ones decide whether a comparison network sorts; with three places in the lists
of tasks small tasks find their list full and go to the other one, and the second phase
has to make room.  Two branches of the sorting are out of reach of these bounds: the rule
of three quarters (`Quicksorter.hpp` 179-188), and a full list of new tasks that falls
back to the list of the second phase.  These arguments are informal; what is certain beyond them
is in section 5.

*Fairness.*  `FairSpec` of `ArraySynchronizer` and `NDArraySynchronizer`: runnable
threads run, MPI matches what can be matched (MPI's progress guarantee), ranks follow the
common program, and each rank waits for what it started - at the latest in the destructor
of its arrays.  The early copy of a payload (`Buffer`) is not assumed to happen.
`FairSpec` of `SolverMonitor`: the monitor thread is scheduled, `refresh()` returns,
`join` returns after the thread has exited; nothing is assumed of the solver, except that
a setter that was called returns.  `TimeDependentPDESolver`: the main thread goes on and
the problem's functions return; neither `Throw` nor `Tick` is assumed.
`DistributedMeshSynchronizer`: every process runs.  `Quicksorter`: the host goes on, and
kernels that were started make progress.

## 4. Disagreements between code and documentation

One regular run expects a violation; the quotations are in `PROJECT.json` under
`findings`.

| Run | Shows |
|---|---|
| `HostConversion` | host loads and saves with conversion skip every second buffer beyond the first: `readElements` is advanced twice (`File.hpp` 106, 187) |

Further configurations show counterexamples of the same kind.  They are not part of the
regular runs; `tlc -workers 1 -continue -config <name>.cfg <module>` reproduces them
(stop it once it has reported each property: the counterexamples are many).

| Configuration | Module | Violated | Shows |
|---|---|---|---|
| `GhostTwoRanks` | `MCArraySynchronizer` | `GhostsMatchNeighbours` | with two ranks the ghosts of the left and right side are swapped; the unit test (`DistributedArrayTest.h` 16) claims any number of processes, the build runs it with four |
| `DescendingSort` | `MCQuicksorter` | `DescendingSortDescends` | `descendingSort` (`sort.h` 76) passes the comparison of `ascendingSort`; `sort.h` 49 says "in descending order" |
| `PartitionerEmptyRanks` | `MCPartitioner` | `OwnerOwns` | `getOwner` fails its own assertion (`Partitioner.h` 52) when ranks are empty: 1 element, 3 ranks, index 0 |
| `ResetDuringExchange` | `MCArraySynchronizer` | `StorageOutlivesExchange` | `reset()` (`DistributedArray.hpp` 209) frees storage under a pending exchange; the destructor waits for exactly this reason |
| `NDArrayTwoCommunicators` | `MCNDArraySynchronizer` | deadlock | neighbours cached in one communicator are used in another (`DistributedNDArraySynchronizer.h` 422) |
| `NDArraySkippedBoundary` | `MCNDArraySynchronizer` | `SkippedGhostsKept` | sides without a tag are unpacked all the same: uninitialized buffers reach the ghosts (`DistributedNDArraySynchronizer.h` 361) |
| `MonitorFindings` | `IterativeSolverMonitor` | `InitialStateRestored`, `IsStoppedReports`, `IntervalIsRefreshRate`, `UpdatesKept`, `NoLineRepeated`, `SavedStageShown` | an explicit stop can outlive its session and silence the next one; `isStopped()`, "true if the main loop was stopped", is false once the loop has ended; rates that are no multiple of 100 ms are not honoured, a tutorial sets 10 ms; an update between the reading of the attributes and the reset of `attributes_changed` is not shown later (`IterativeSolverMonitor.hpp` 195); a line whose attribute was read after a setter wrote it and before the setter raised the flag (46-76) is printed again by the next refresh, which should return when "attributes were not updated since the last refresh" (135); `saved` is set also when the previous stage saved nothing (42) |
| `PointerFindings` | `MCSharedPointer` | `AllSynchronized`, `NoDestructorThrows`, `AssignmentShares` | copies are not registered, so the device image goes stale when the original is destroyed; the destructor of a null pointer throws if nothing is registered for the device (`SmartPointersRegister.h` 52); self-assignment of an only owner deletes the object (`SharedPointerCuda.h` 372) |
| `PointerClear` | `MCSharedPointer` | `NoDangling` | `clear()`, "Reset the pointer to empty state", leaves a shared pointer at an object it is no longer counted for |
| `TransferMixedSizes` | `ChunkedTransfer` | `WithinBuffers` | device loads and saves with conversion overrun the smaller buffer |
| `TimeSteppingFindings` | `MCTimeDependentPDESolver` | `StopsAtStopTime`, `SnapshotsReached`, `FailureTimesReported`, `SetupChecksTimes` | Euler enlarges the step again that it has just shortened to hit the stop time (`Euler.hpp` 100-114; `ExplicitSolver.h` 88); with a convergence residue Euler (107-109) and Merson (`Merson.hpp` 176-178) stop in a steady state and report success whether or not `stop-on-steady-state` is set, which is off by default (`ExplicitSolver.hpp` 20-21), so the next snapshot holds the state of an earlier time; after a failed snapshot the timer of input and output keeps running; the final time is checked before the initial time is set (`TimeDependentPDESolver.hpp` 96-97, 179) |
| `MeshEmptyRank` | `MCDistributedMesh` | `NoRankThrows` | a rank that owns no vertex takes local index 0 for "not found" (`distributeSubentities.h` 315); one that owns no face breaks the offsets of the synchronizer (`DistributedMeshSynchronizer.h` 67, 96) |

## 5. Proofs

`tlapm` checks eight proof modules; nothing in them is left unproved, and nothing is
assumed but the named assumptions on constants and the hypotheses given below.

*Partitioner.*  `OwnerCorrect`: with at least as many elements as ranks, the rank that
`getOwner` returns exists and owns the index.  `DivBounds`, `DivLower`, `DivUpper`
turn integer division into inequalities; the guess `i * P \div G` is then at most one
below the owner.
  - `OwnerAlwaysOwns`: `Spec => []OwnerOwns` if no rank is empty, for every bound.
  - `RangesAlwaysTile`: `Spec => []RangesTile`, with or without empty ranks.  An offset is
    at or before index `k` exactly for the ranks up to `((k + 1) * P - 1) \div G`, so that
    rank and no other has `k` in its range; `SizeBounds` bounds the lengths.

*Ghost exchange* (every number of ranks, size, overlap, program length; assumption:
`ConstantsAssumption`).  The invariant
`IndInv == TypeOK /\ PositionsOK /\ FuturesOK` is inductive.  `TypeOK` alone is not:
an exchange indexes `program`, so `PositionsOK` says that ranks are within the program
and only begun operations have a stage; it does not yield `AtMostOneActive` either, for
which `FuturesOK` says where each active exchange is accounted for: in the calling
thread, or in the future of its synchronizer, and the two exclude each other.
  - `TypeCorrect`: `Spec => []TypeOK`; since `mem` is a function on `Cells(r)`, no
    message is received outside an array.
  - `OneActiveExchange`: `Spec => []AtMostOneActive`.
  - `StorageOutlives`: if arrays are released by destructors only,
    `Spec => []StorageOutlivesExchange`.  The hypothesis is needed: see
    `ResetDuringExchange`.

*Messages* (`Exchange_proofs`; the same parameters).  Hypothesis `InOrder`: all arrays
share a synchronizer, or exchanges run in the calling thread, immediately or deferred -
the library itself starts all of them that way.  Otherwise two workers of a rank race for
the order of their messages, and one tag cannot tell those apart.  The invariant is
`MessagesInv == IndInv /\ OrderOK /\ QueuesOK /\ RequestsOK /\ NeighboursOK`.
`OrderOK`: an exchange posts after the earlier ones of its rank.  `QueuesOK`: the queue of
a pair of ranks holds exactly the calls that were issued, increasing in `Key` (operation
and, with one or two ranks, side), so that the n-th send and the n-th receive of a pair
agree although they are posted by threads of different ranks at different times.
`RequestsOK` relates queues to open requests, `NeighboursOK` complete receives to the
position of the neighbour.
  - `CrossTalk`: `Spec => []NoCrossTalk`.  A message and its receive agree in their keys;
    with more than two ranks the pair of ranks determines the side of both
    (`MatchedSides`), with fewer the keys contain it.
  - `Synchronizes`: `Spec => []NeighboursReached`.
  - `NothingLeftOver`: `Spec => []NoMessageLeftOver`.

*Ghosts and refinement* (`Exchange_proofs`).  Hypotheses: `InOrder`, at least three
ranks (with two, left and right are swapped: `GhostTwoRanks`), and `~EagerWrites`, programs
that wait before they write.  `GhostsInv` adds to `MessagesInv`: `QuietOK`, no write to an
array with an active exchange; `LocalOK`, local cells hold the values of the last write
before the rank's position; `BuffersOK`, copied payloads hold what the sender's boundary
held when it began the exchange; `GhostsOK`, the window of a complete receive holds what
was sent.  The last write is the largest element of a set of positions (`Largest`, by
well-founded induction).
  - `GhostsMatch`: `Spec => []GhostsMatchNeighbours`.
  - `Refinement`: `Spec => ImplementsGhostExchange`, step by step: `BeginExchange`
    and `Release` are `Abstract!Begin` and `Abstract!Release`; `Waitall` of the last
    exchange of an array is `Abstract!Finish`, for which the two invariants before it are
    needed; all other steps, deliveries among them, are stutters.

*Solver monitor* (every set of refresh rates and every number of sessions and stops).
  - `PromptStop`: `Spec => []StopHonoured`.  `StopKept` is the heart of the invariant:
    once a session is stopped the flag stays set until the loop has left; `LateOK`
    bounds what may begin late by the position of the thread.
  - `SessionsRunUntilStopped`: `Spec => []EndsOnlyWhenStopped`.  The condition of the
    property, that so far only destructors have stopped the loop, is needed: see
    `MonitorFindings`.  `OnlyDestructorStops` strengthens `IndInv` for it.
  - `NeverSpins`: `Spec => []RefreshesApart`, also for rates of zero and below.  `SleptOK`
    says at every step of the loop how much of the interval has been slept; that the
    inner loop sleeps at least once is what it rests on.

*Iterative solver monitor* (the same, and every number of updates).
  - `NoLineWithoutUpdate`: `MonitorSpec => []LinesFollowUpdates`.  A line is printed only
    under `attributes_changed`; once one has been printed, the flag is down or about to be
    reset, until a setter returns (`Counted`).  It does not follow that the lines differ:
    that is `NoLineRepeated`, which the code violates (`MonitorFindings`).
  - `ImplementsSolverMonitor`: `MonitorSpec => Spec`, where `Spec` is that of
    `SolverMonitor`; every step of a setter or of `refresh()` is a stutter there, or
    its begin or end.  `MonitorStops` and `MonitorNeverSpins` carry the theorems on
    `SolverMonitor` over.
  - `MonitorTypes`: `MonitorSpec => []MonitorTypeOK`.

*Shared pointers* (`SharedPointer_proofs`; any numbers of pointers, objects, values and
devices).  Hypothesis of all: `ClearsUnshared`, the program does not call `clear()` on a
pointer that shares its object (`PointerClear`).  The helpers `free`, `allocate` and
`refer` work on memory in the middle of an operation, so `Consistent` takes the set of
pointers that are counted as a parameter: it is `built` before and after an operation and
differs from it by one pointer in between, which is how self-assignment and swaps are
covered.  `ImageOK` relates `maybe_modified`, `data_image` and the device image;
`RegisterInv` the register to the pointers that exist.
  - `TypeCorrect`, `CountersMatch`, `NeverDangling`: `Spec => []TypeOK`,
    `[]CounterMatches`, `[]NoDangling`.
  - `SynchronizedImages`: with `~ReusedMemory`, `Spec => []RegisteredSynchronized`.
    Without it `smartSynchronize` can take the garbage of a new `data_image` for the object.
  - `RegisterAlive`: `Spec => []RegisteredAlive`.
  - `RecreatedApart`: `Spec => RecreateIsolates`, an action property.

*Time stepping* (`TimeDependentPDESolver_proofs`; every method, all times, step sizes,
residues and clocks; no hypotheses but the assumptions on constants).  `TimersOK` says of
every timer that what it has accumulated, and what has passed since its start, is the time
it should measure, and which timers run in which phase.  The `mainTimer` is reset after
the first snapshot; the invariant has to say that nothing had been computed then.
  - `StoppedTimesExact`: `Spec => []StoppedTimeExact`.
  - `SuccessReportsTimes`: `Spec => []TimesReported`.

`ScheduleInv` is for the snapshots: `t` is the time of step `step`, the rounded number of
steps suffices to reach the final time (`StepsSuffice`), and an ODE solver that does not
overshoot keeps `time + currentTau <= stopTime` (`ODEStepOK`, `SolveOK`).
  - `SnapshotsScheduled`: `Spec => []SnapshotsOnSchedule`.
  - `SnapshotsTimely`: `Spec => []SnapshotsOfTheirTime`.  `ScheduleInv` gives that only a
    steady state stops a solver early, `SteadyOK` that there is none without a convergence
    residue.

*Transfers* (every length, element size and buffer, as long as an element fits in a
buffer; assumption: `ConstantsAssumption`).  `TransferComplete` says nothing of a loop
that has not finished; `MovedSoFar` says that after every iteration the elements before
the offset are in place and the file position is at the offset, and
`ConvertedSoFar` that a conversion in host memory which fits in one buffer has either
not begun or is complete.
  - `TransfersComplete`: `Spec => []TransferComplete`.
  - `ChunksFit`: `Spec => []WithinSizedBuffers`, from `BufferSizes`: every chunk holds
    an element, and a buffer of larger elements holds no more of them.

*Meshes* (`DistributedMesh_proofs`; every set of finite simplicial meshes, dimension,
number of ranks and of ghost levels).  Assumption: `MeshAssumption`, among others that a
face has two cells at most, which `distributeSubentities.h` 180 states, and that a mesh
has at least two dimensions (131).  A rank knows all neighbours of its own cells, so
the rank that owns a face by its own reckoning has a cell of it and sees both: no second
rank reckons the same (`OneOwner`), and the exclusive scan of the counts gives owners
disjoint ranges of indices.  `IndInv` says further:
  - `MailOK`: what the n-th message from one rank to another says - a count, the ghosts it
    asks for, valid answers, a verdict - and that a channel holds what was sent and not
    yet received;
  - `LocalOK`: an index is a padding or the one that the owner has given to this face.  An
    answer keeps this although the rank that gives it need not be the owner: among faces
    of one dimension only the face itself has all vertices of a seed;
  - `RoundsOK`: a rank is at most one message ahead of another, and all come to the same
    verdict on the last pass.  Without it the n-th message could be one of another pass.

`IndicesAlwaysAgree`: `Spec => []IndicesAgree`, also when ranks own no face.  It says
nothing of ranks that throw, for which the others then wait (`MeshEmptyRank`).  The other
theorems assume `EveryRankOwns`, that every rank owns a vertex and a face, which
`ToleratedEmpty = FALSE` implies.  `SyncInv` adds to `IndInv`:
  - `GoneOK`, `LaterMailOK`: ranks leave after the same pass, so that the messages of
    `initialize()` and `synchronize()` follow all others in each channel, with complete
    indices on the side of the sender;
  - `AttributesOK`: the owner that the offsets give for a global index is the owner of the
    face; global indices sorted, the ghosts of one owner are a slice, as many as the
    counts say; an index less the offset of the owner is its local index.

`PassInv` adds what the rounds achieve.  `Near`: after the first pass a rank has the index
of every ghost whose reckoned owner is the real one, thus of all faces of its own cells.
It asks for the others a rank that has such a cell (`AskedHasCell`), and that one has the
answer in the second pass.
  - `GhostsAlwaysUpdated`: `Spec /\ EveryRankOwns => []GhostsUpdated`, where
    `EveryRankOwns` is about the initial state, as in the next two;
  - `NoRankEverThrows`: the same for `NoRankThrows`, which `MeshEmptyRank` shows violated
    where a rank owns nothing; `~ToleratedEmpty` gives it for all of `Spec`;
  - `TwoPassesSuffice`: no rank begins a third pass, as the comment at
    `distributeSubentities.h` 282 supposes.

*Only model-checked.*  Liveness is out of the prover's reach, which has no rules for
fairness and ENABLED, and so is what a recursive definition or a fold computes for every
input: the sorting networks are checked by TLC only.  That every rank finishes the
distribution (`EveryRankFinishes`) is such a property; the theorems say that no rank throws
and how many passes there are, not that a rank goes on.  `GhostsMatchMask` and
`NoRequestLeftOver` of the N-d exchange, and the properties of sorting (`StackFits`, `TasksTile`,
`SortedInTheEnd`) have no proofs yet.  Without the hypotheses of the theorems - workers with two
synchronizers, eager writes, `clear()` of shared pointers - there is only what the
configurations of sections 3 and 4 show.

## 6. What is left out

CUDA streams and the choice of a GPU in workers; threads of one block between barriers;
numerics; formatting and I/O errors, except that a snapshot may fail; profiling counters;
failures of MPI (the library aborts on them).  In the ghost exchange: communicators that
exclude a rank (the operations return at once), and other groups of ranks; ranks with
fewer elements than overlaps (`Partitioner.h` 131 sends ghosts then; the class documents
no behaviour).  In the N-d exchange: the unbuffered mode, shifts, and explicit neighbours.
In the pointers: references kept beyond a synchronization and copies of a null pointer
(undefined behaviour).  In the meshes: entities between faces and vertices, sparse
synchronization, grids.  In the solvers: linear solvers and semi-implicit steps.  Integer
overflow of `rank * globalSize` (`Partitioner.h` 61) is assumed away.

## 7. Plan

Next modules, in this order:
1. `DistributedArray` assignment and `setLike` as operations of `ArraySynchronizer`; a
   run with overlaps wider than the local range.
2. `ChunkedTransfer`: `copyFromIterator`, comparison; `CudaReductionBuffer`.
3. Pure algorithms against reference definitions: distributed scan, segment index maps;
   `UniquePointer` and `DevicePointer`; a width-aware `getOffset`.
4. Vertices and cells as instances of `DistributedMeshSynchronizer`, and grids.

Next proofs: `GhostsMatchMask` and `NoRequestLeftOver` of the N-d exchange, which need an
invariant on messages per source and tag; `StackFits`, and `TasksTile` from the fact that
the blocks of a partition reserve disjoint places.
