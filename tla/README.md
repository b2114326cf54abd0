# A verification project for libpressio

libpressio is a C++17 library that puts lossy and lossless compressors behind one
interface.  A program hands it buffers (`pressio_data`), options, and a tree of
plugins: compressors that call other compressors, metrics that watch them, domains
that own memory on a device, and launchers that run external programs.  This
directory models that machinery in TLA+.  The numeric kernels of the compressors
are not modelled; what surrounds them (ownership, ordering, work distribution,
options, calls of libraries and children, hooks, failure) is.

Paths below are relative to the repository root.

## Inventory

| Component | State it keeps | Operations | Interacts with | What is hard |
|---|---|---|---|---|
| `pressio_memory` and domains (`src/pressio_memory.cc`, `src/plugins/domains`) | pointer, capacity, shared domain | construct, copy, move, assign, release, reset, destroy; alloc, free, memcpy, clone | every part that holds a buffer | ownership across moves and exceptions, stale capacities, domains that differ |
| `pressio_data` (`data.h`, `src/pressio_data.cc`) | dtype, dims, a `pressio_memory` | factory functions, set_dimensions, reshape, select, cast, transpose | `pressio_memory`, all plugins | shape and capacity drifting apart |
| domain manager and senders (`domain_manager.h`, `src/pressio_domain*.cc`, `src/plugins/domains/cuda_*`) | the registry of senders, its metrics plugins | is_accessible, view, send, copy_to, make_readable, make_writeable | data, domains, metrics callbacks | arguments moved before callbacks use them, no sender, wrong direction of copy |
| compressor base (`src/plugins/compressors/compressor_base.cc`, `compressor.h`) | metrics, error code and message, options | compress, decompress, the `_many` forms, set/get/check_options, clone | metrics, child plugins | which error wins, callbacks paired on every path |
| `many_independent` | a queue of groups, a status | compress_many, decompress_many | MPI ranks through the distributed manager | a status overwritten, a broadcast some ranks skip |
| `many_dependent` | outstanding requests, metrics by task | compress_many, decompress_many | MPI ranks, a child compressor | results out of order, a failed child |
| `many_independent_threaded` | a vector of compressors, preserved metrics | compress_many, decompress_many | OpenMP threads, child compressors | shared vectors, restored metrics, cancellation |
| distributed manager (`pressio_distributed_manager.cc`) | n_worker_groups, n_masters, root, communicator | build_groups, set_options, work_queue, bcast | MPI | group sizes that do not divide |
| launchers (`src/plugins/launch`) | argument vector, working directory | launch | child processes, pipes, remote servers | a full pipe, a child killed by a signal, leaked descriptors |
| process-wide singletons (`sz_common.cc`, `magick.cc`, `arc.cc`, `petsc.cc`, `external_python.cc`, `external_remotelaunch.cc`) | a weak pointer under a mutex, a C library's global state | init, finalize | every plugin instance | the last reference dropped while another thread asks for one |
| options, names, configurable (`pressio_options.cc`, `pressio_option.cc`, `configurable.h`, `pressio_names.cc`) | a map from names to typed values | set, get, cast, merge, hierarchical search | every plugin | status of a failed cast, a name found at the wrong level |
| metrics (`src/plugins/metrics`) | the measurement, snapshots of the input | begin/end callbacks, results | compressors, `composite`, `historian` | begin and end that do not pair, shared histories |
| `chunking`, `pipeline`, `switch`, `resize` and other meta-compressors | child plugins and their options | compress, decompress | child compressors | children left in another configuration |
| `fzgpumodules` (`src/plugins/compressors/fzgpumodules`) | a configuration, the library's pipeline kept between calls, pointers to its stages | set_options, compress, decompress, clone | the FZGPUModules library | a pipeline kept although an option changed, pointers into a pipeline that is gone |
| registry (`registry.h`, `src/pressio.cc`) | factories by name | register, build, list | static initialisers | static destruction order |
| io plugins (`src/plugins/io`) | a path, a handle | read, write | the file system | partial reads |
| serialization, hashing, json (`serializable.cc`, `pressio_hash.cc`, `pressio_options_json.cc`) | none | pure conversions | options | round trips |
| bindings of compressors (sz, zfp, mgard, blosc, ...) | options, a handle of a C library | set_options, compress, decompress | external libraries, the process's own settings | handles on early returns, results nobody looks at, memory of the wrong domain |
| numeric kernels, metrics' formulae, swig, the HDF5 filter | a C library's own | - | external libraries | out of scope |

The properties that make each part correct are listed with the modules below, or in
the plan for the parts that have none yet.  `PROJECT.json` lists the same
components with their status, and the hazards, each at its line.

## What is modelled

### PressioMemory and PressioData

`PressioMemory` has no variables: it defines stores (a heap, the objects that point
into it, the blocks the calling program answers for, the faults of a step) and the
effect of every `pressio_memory` operation on a store.  A domain is a record: the id
it states, its prefix, its allocator, its deallocator (`"none"` when it has none),
and what `alloc` does without memory (null or an exception).  A buffer's contents
are one tag.  `free` returns a block to a normal form, so freed blocks differ only
in being freed.

`PressioData` makes a program of them: each action is one public operation of
`pressio_data` (constructor, factory, assignment, `release`, `reset`,
`set_dimensions`, `reshape`, `set_dtype`, destruction) or something the calling
program does with its own buffers (`CallerAlloc`, `CallerFree`, `Write`).  A shape is a
number of elements and the size of one.  A call that breaks the contract a domain
documents is recorded in `faults`, which holds the breaches of the last step only.

`Liberties` names what a program may do that a careful one would not: run out of
memory, copy between domains, use an object after `release`, move over an object that
owns a buffer, and so on.  The guards read it with `May`.  With `Liberties` empty the
program is careful.

Bounds: two objects and three blocks.  Every property relates at most two
objects and the blocks they exchange; the third block is the one a copy or a growth
allocates while both are alive.  Blocks are never reused (`"freed"` is final), so
a use after free is seen as one.  Sizes are 0 and 1, or 1 and 2 where growth matters
(objects without data have none there as well): smaller, equal and larger is all the
code compares.

`DomainManager` adds what a program may ask `pressio_domain_manager` for: data
readable in a domain (`Readable`) or in a destination of its own (`ReadableInto`), a copy
(`CopyTo`), a buffer of the same shape (`Writeable`), or the buffer itself handed on
(`Handed`).  Where `is_accessible` says the domain can reach the data the answer
is a view or the object; elsewhere a buffer is made and the registered sender copies into
it.  A sender's `cudaMemcpy` may fail, and one that names the wrong direction may leave
anything in its destination, which is what the runtime documents and what `Arrives` grants
it.  The program hands the manager objects that have a domain and whose data are there.

| Run | Asks |
|---|---|
| `ownership` | a program that may do anything but copy between domains or run out of memory, over `malloc` and a user domain: one owner per block, what is owned is live and of the right kind, no double or mismatched free |
| `careful` | a careful program and the domain manager, over device and pinned host memory and two sizes: no leak (`NoLeak`), `free` told the right size, copies within the domain and in range, shapes within capacity (`CapacityTrue`); what is assigned, made readable or copied has the source's shape and contents and lies where it was asked for (`Arrives`) |

Deadlock is checked in every run and there is none: objects can always be destroyed.

#### What is proved about it

The first part of `DomainManagerProofs` proves with TLAPS, for any sets of blocks, objects, domains, tags,
any shapes and any liberties but failing allocators (`Disciplined`): `TypeOK`,
`OwnedOnce` (`OneOwner` and `OwnedIsLive`) and `FreedRightly` (`FreedOnce` and
`FreedByItsKind`).  `Disciplined` also
asks that every domain be sound: it frees what it allocates, and one that frees buffers
it cannot allocate returns null.  A domain made from a `new[]` deleter is not sound,
and an allocator that throws makes an assignment free a block twice (see
"Disagreements" below).  The theorem says these two are the only ways to lose
ownership.

The invariant `IInv` adds to the checked properties that the blocks the caller answers
for are live, that no object owns one of them, and that every domain an object holds is
sound; without these a destructor or the caller's own `free` could break ownership in one step.
The proof is organised around `Good(s, X)`, a store in which the objects of `X` own
their blocks: `FreeGood` takes an object out of `X`, `PutGood` and `PointGood` put it
back, and every `pressio_memory` operation is a sequence of these, so that each action's lemma
is short.

Its second part proves for the same range of constants what a careful program gets, with
the domain manager's operations or without them (`ManagedSpec`): `NoLeak`, `CapacityTrue`,
`OwnedOnce` and `Arrives`.  `Careful` is the discipline of the run `careful`: no liberties, and domains
that are `Complete`, that is, allocate what they free, and copy.  That leaves out the user domains made
from a deleter: they cannot allocate, so a copy of their object states a capacity it does not have.
The invariant `CInv` says of every object that its buffer is as large as its capacity if
the object frees it, and at least as large if it is a live view (`Fitting`); that its
shape fits its capacity (`Shaped`); and of every live block that an object or the caller
answers for it (`Neat`).  Neither of the first two is inductive alone: a free is told the
right size only if the capacity of what is owned is exact, and a block freed through an object is
the only one lost only if no other object owns it.  As above the operations are sequences of taking an object out
of the account (`FreeNeat`) and putting it back (`PutNeat`, `AllocNeat`), so that a send that
throws after its buffer was allocated is a free like any other.  `ContentsArrive` proves the action
property `Arrives` of every step from a state with `CInv` (`Delivers`): the state after a copy assignment,
`make_readable` or `copy_to` is described by `Alike` and `Returns`, which say of a store what shape and contents
its objects have.  It needs the invariant because the source of a copy that grows the left side must survive the
free of the left side's old block: the block that is freed is as large as its object's capacity, and the source's is larger
(`AssignTag`).  Contents that were sent by a sender of the wrong direction are left out, as the
property says.

### BuildGroups and DistributedManager

`BuildGroups` is `distributed_build_groups` as operators: which ranks of a
communicator are masters (group 0) and which worker group each other rank is in.
`unsigned int` sums wrap at `Word`.  `DistributedManager` is one
`pressio_distributed_manager`: its communicator (a number of ranks), root, numbers
of worker groups and masters, and groups.  Its only action is `set_options`, one
disjunct per way the code goes (a list of groups; both numbers; one; neither).
The options of a call range over every combination of set and unset keys.
`Liberties` is as above: a caller outside `Careful` changes the root or the
communicator alone, asks for more than fits, and so on.

| Run | Asks |
|---|---|
| `groups` | careful callers, communicators of 1 to 7 ranks, numbers from 0 to 4, any sequence of calls: a group for each rank, a root that is a master, somebody to do the work, the groups asked for, sizes within one of each other |

Seven ranks divide by none of 2, 3, 4 and four and five divide by some; `Word` = 16 is
above every sum that a careful caller can reach.

`DistributedManagerProofs` proves for any communicators, numbers, lists and word
size, with `Liberties = {}`: type correctness (`ManagerTyped`), `CanServe` (`RootServed`)
and `AsAsked` (`NumbersServed`).  `CanServe` says that every rank has a group, the root is
a master and there is a worker; the first two need each other.  The argument is
`AssignedGroups` (the ranks after the masters fill the groups 1 .. w because
(k - 1) % w is k - 1) followed by `SwapRoot`, which permutes two entries and so keeps
which groups exist.  `EvenlyDealt` proves `Balanced` along the same path: each rank of a worker
group but the group's first has, less than a round of the deal before it, a rank of any other
given group, so no group is ahead of another by two (`AssignedEven`); exchanging two entries leaves every
group its size (`SwapSizes`).

### WorkQueue, ManyIndependent, ManyDependent

`WorkQueue` is the abstract promise of `distributed::queue::work_queue` (libdistributed,
which is external): a task is taken by one worker, its answer is handled once, and
the handler may push more tasks.  It has two parts, `Safe` and `Fair`.

`ManyIndependent` is `common_many_impl` on every rank of the communicator: validation
of the groups, the queue's master function (which places an answer's buffers among
the outputs by group, and notes failures) and worker function (every rank of a
worker group runs each of the group's tasks, at its own pace), and the broadcasts of
outputs and status that follow, one collective per buffer.  A buffer is what was
made of it (`caller`'s own, `moved` out, `made` or `failed`).  A `job` is one call: topology, root, groups of inputs and
outputs, `bcast_outputs`, and the groups on which the child fails.

`ManyDependent` is `compress_many` and `decompress_many`: a request carries the metrics
of an earlier answer, and the master's function pushes further requests while it
counts those outstanding.  A worker hands on the metrics of `from_names` up to the first one its child
lacks, and the master sets that part of the options on the requests it pushes, once it has recorded error 3.
`to_names` has as many names as `from_names`: where it has more, the code reads past the end.  A worker group is one process here, as its ranks do the same.
A child that refuses the options of a request is compressed with nothing to
send back, and the master crashes on the empty answer, as the code does.

Both refine `WorkQueue`: `EachTaskOnce` is the abstract specification under the mapping
`todo` to the requests not handed out and `running` to what `given` holds.  A run of
`ManyDependent` that crashes keeps its safety part only.

| Run | Asks |
|---|---|
| `many_independent` | one to four ranks, matching and mismatched groups, a root other than 0, a failing child, no buffers at all, with and without broadcast: the root has every output, every rank has with `bcast_outputs`, the root's error code says whether a group failed, every call returns, each task once |
| `many_dependent` | one rank to three workers, four buffers, failures anywhere: up to three names, of which a task lacks the first or a later one: the counter of outstanding requests is right, options are the metrics of one earlier success, and less than all of them only once the error tells so, failures are remembered, each task once |

Bounds: one call per behaviour, because no state outlives it but the outputs and the
error code.  Three tasks over two worker groups make some group wait and some group
take two; one worker group has two ranks that drift apart.

Fairness: every rank runs (its child returns, which is the contract of a
compressor) and MPI delivers.  The `\A` over ranks in `Fairness` is over the constant 0 .. 7,
since the communicator is part of the initial state.

`ManyIndependentProofs` proves, for any call on any number of ranks that run any number of
groups, that it works its queue as `WorkQueue` says (`QueueWorked : Spec => Queue!Safe`) and that
the root's error code is other than 0, once it returns, exactly if some group failed (`ErrorTold`).  `OutcomesTrue` proves
the whole of `Outcomes` under `Broadcastable`: a call that broadcasts has root 0 and as many inputs
as outputs.  The code asks neither, and without them a rank is sent emptied buffers or reads past
its outputs (lines 220 and 221 below), so this is the most that holds.  The invariant `IInv` has
these parts: a task waits, is with one group or is answered (`Apart`); an answer is that of a task its
group still has (`Honest`); only ranks of groups have tasks, the first of a group has at most the group's and
nothing follows the last word (`Asked`); every rank stays behind the root, which leaves
the queue when all is answered (`Phased`); what is answered is stored, and told
(`Stored`, `Telling`); and what rank 0 has sent is what is right (`Passed`).  `Outcomes`
speaks of the end alone, so each part is about how it comes to that.  An answer is stored by
the places of its group's outputs (`AnswerOutput`), of which two are never the same.

`ManyDependentProofs` proves for any call (any number of workers, groups, failures,
refusals and missing metrics) that the queue with the tasks pushed later is `WorkQueue`'s
(`QueueWorked : Spec => Queue!Safe`), that the options of a request are those of an answered success, and not all of them only when the error has told
so (`Guided`), and that the plugin's error tells of a failed task (`ErrorTold`).  The
invariant `IInv` says that a task is in one place and has one request (`Apart`), that
every task pushed so far is below `nextTask` (`Numbered`), and that an answer is that of a
task its worker still has (`Honest`).  The step that needs them is the master's: what
it pushes is disjoint from everything issued because the counter goes on by exactly the
number of requests pushed (`PushedNext`, a cardinality argument).  
`OutcomeTrue` proves the whole of `Outcome`, under `WellGrouped`: each buffer's group is one of
the tasks the call pushes, and a decompression, which takes no groups, gives each buffer its own.
(The code does not check this; a group beyond the number of outputs is never worked on.)  `OInv`
adds to `IInv` that the outstanding requests are those waiting or given (`Count`), that
every number below the next task has been issued and, while some are left, an answer is
awaited that pushes the next (`AllIssued`), and that each buffer of an answered task holds what the child made
for it (`Stored`).  The master leaves its loop with nothing outstanding, so every task is
answered, so every output is stored.  `PlaceIs` carries the last step: buffers
of one group have different places in it, so no answer's output is stored in two.  The
fair half of `EachTaskOnce` is only model-checked.

### Singleton

One lazily made, shared handle to a C library and the plugins of several threads that
hold it: the mutex, the weak pointer, the handle under construction, the handles
whose destructors have begun, and how often the library has been initialised.  Five plugins have
the same code with differences that matter, and `use` says which it is: whether the
destructor asks the library first (`petsc`), whether initialisations are counted
(`curl`), whether they may throw (`python`), and how far the plugin states to be
thread safe.  `late` is history, which the code does not keep: the handles that were made
while a former one was being cleaned up.  `MayCall` is the caller's half of that statement.  `use.before` says
that the program initialised the library itself.  Plugin calls that read (`compress`) and write
(`set_options`) SZ's global configuration go through `sz_init_lock`.

| Run | Asks |
|---|---|
| `singleton` | three threads, four handles, every library: at most one handle is alive, readers exclude writers, the library is ready for every call unless the handle was made while another thread cleaned up after the former one, which serialized calls never do; it ends as the program left it |

Three threads: one drops the last handle, one makes the next, one clones from it.
Four handles so that one is free in every state (a handle is freed with its last reference).
No fairness is assumed: every property is a safety property, and a mutex that was never
unlocked would show as a deadlock.

`SingletonProofs` proves for any number of threads and handles that at most one
handle is alive (`HandleUnique`) and that readers exclude writers (`OptionsGuarded`).
The invariant adds to types: whoever is in the section holds the mutex; a handle that is
held is the one the weak pointer names; nobody holds a handle while one is being
initialised; whoever calls the library holds one.  The step that needs them is
`Make`: the weak pointer has expired, so nobody holds a handle, so the new one is the
only one.

`LibraryGivenBack` proves `LibraryKept`, under `LeftToPlugins`: a program that uses one of
the libraries that neither count nor ask (`sz`, `arc`, ImageMagick) leaves their initialisation to
the plugins.  Without it the last handle's cleanup ends what the program began, which is
what their code does.  `KInv` adds the books: a library that counts is up
as often as the program did it and once for each handle that is held or being destroyed (a
cardinality); one that does not is up if a handle that must undo it lives
(`Book`), a handle that is made is in nobody's hands (`Fresh`), one
that is being destroyed is in those of its destructor (`DyingAlone`), and, where calls are
serialized, one call is under way (`OneCall`).  The destructor runs without the mutex, so a
handle made meanwhile may lose its library to the cleanup that comes late: `sz_threadsafe` and
`magick.cc`, which state to be safe for several threads, can meet it (see "Disagreements").
`LibraryKept` says that this is the only way: a handle of any library that was made while
nobody cleaned up finds the library up, and nobody starting or ending it, for each of its calls,
with any number of threads calling at once.  The argument is `Untouched`: as long as such a
handle is held nobody can begin a cleanup, for the next to do so is who drops it last.

### ForkExec

Concurrent `external_forkexec` launches of one program.  For each launch: two pipes of
bounded capacity, the processes that hold an end open (a `fork` by another thread
copies the parent's ends: `Inherited`), the child's life and exit code, the parent's
place in the loop of `select` and `read`.  A program is what it writes, in which
order, its code, whether a signal kills it, and which call fails.

| Run | Asks |
|---|---|
| `forkexec` | two launches, pipes of one chunk, programs that fill either pipe or fail in any way: all that was written is read, in order, the code is that of the launch's own child, nothing stays open after a launch that succeeds, every launch returns |

One chunk per pipe makes every second write block.  Two launches are what an
inherited descriptor takes.  Fairness: processes are scheduled and programs end once
what they write is read; without the second, `launch` waits for as long as the program.

`ForkExecProofs` proves `AllRead`, `OwnChild` and `NoneOpen` for any number of launches,
any programs and any capacity (`OutputWhole`, `ChildIsOwn`, `PipesShut`).  What was read
followed by what the pipe holds is what was written, in every state; a launch that
succeeded closed both streams.  So what matters is that nothing comes after a
stream is closed, and the invariant says why: a child has the write ends of its own pipes
until it ends (`ChildHolds`), so no end of file is seen before; and the pipe of a closed
stream has no writer (`AtEnds`), so no later `fork` of another launch can inherit one.
`Terminates` is only model-checked.

### ManyThreaded

`many_independent_threaded`: a loop of OpenMP with a dynamic schedule.  The shared state is the next iteration,
the kept metrics, the status and error code, the collected results; each thread
has its place in the body.  Each critical section and each unprotected access is a
step of its own.  `made` and `packed` remember what a test would compare with: the
setup with which the last compression ran and the metrics it archived.  A call may
be followed by `set_options` and another call.

| Run | Asks |
|---|---|
| `many_threaded` | two threads, two calls, two or three groups, one to three children, kept and collected metrics, cancellation: each group done once, a failure never lost, metrics restored to the group they came from, every result collected under its own child's name, the call returns or crashes |

More children than groups are refused; fewer, but more than one, index past the
children, and the model crashes there (`Crashed`), as does a decompression that
restores metrics never archived.

`ManyThreadedProofs` proves for any threads, setups and number of calls that a group is
worked on once (`WorkedOnce`) and that the status tells of a failure (`FailureTold`).
An iteration that was handed out is done, or a thread is about to do it (`InHand`); a
failure on a group that was done is told, or its thread is about to tell it (`Kept`); a
thread at the barrier left no iteration behind unless it was cancelled (`Left`).  When
all have left the loop no thread is about to do anything, and the properties remain.
Its second part builds on that invariant for what spans calls (`MInv`): a compression's
metrics are in place or on their way there (`Filled`), and the decompression that
follows finds them where it has not taken them yet (`Restoring`), which gives `MetricsOwn`
(`OwnMetrics`).  Between the two calls options may change; what was
kept stays.  `Returns` is only model-checked.

### PluginOptions, PluginSettings and the tables of options

`PluginOptions` says what `set_options_impl` and `get_options_impl` do in general: a table of
entries in the order the keys are read, an entry being the setting a key writes, the values it
accepts, what a refused value does (an early return, an exception, a recorded error, nothing),
the other settings it fixes, and what `get_options_impl` shows.  `CompressorOptions`,
`IOOptions` and `MetricsOptions` are the tables of the 52 compressors, 16 io plugins and 15
metrics plugins that have options, and `PluginNames`, with the `_names` of the two others, what
their configuration and documentation name.  `get_meta` is `Meta`: a known name replaces the
child, an unknown one is passed over.  Types are abstracted to three values, one of which
(0) is what a check refuses where the code has one.

`PluginSettings` is one object and the calls a program makes on it.

| Run | Asks |
|---|---|
| `options` | for all 83 tables: an option a plugin offers takes effect or is refused (`Heard`), the options an object gives are accepted by it and change nothing (`RoundTrip`), and another object given them shows the same (`Portable`) |

Bounds: two calls, the first with one key, the second with one or two keys about the same
settings (`About`).  Keys that share no setting, no branch and no condition cannot matter to each
other, and a key of a branch is about what opens the branch; so two calls bring every
setting to every value beside every value of those it is read with.  What the plugins are known
to do otherwise is not left out but named, plugin by plugin and key by key: `Unread`,
`PassedOver`, `Drifting`, `Left`, `Refusers` in `MCPluginSettings`.

### CallSteps, CompressorCalls, IOCalls and PluginCalls

`CallSteps` is a vocabulary: data made readable on the host or the device, a handle taken, given
back or owned, an argument refused and how, a library call that may fail and what becomes of its
result, an exception and its handler, settings of the process written and read, a lock.
`CompressorCalls` gives `compress_impl` and `decompress_impl` of 46 compressors, and
`IOCalls` `read_impl` and `write_impl` of 16 io plugins, as sets of paths in it: every early
return of the code is a step that may leave the path.  `PluginCalls` runs them, on two threads
when the call touches state of the process and on one otherwise.

| Run | Asks |
|---|---|
| `calls` | every path, every outcome of every library call, data of the host and of the device: nothing a return should give back is kept (`Released`), a failure reaches the caller (`FailureTold`), nothing but the output is changed and no library is given memory it cannot reach (`Undisturbed`) |

A failure is told by a positive code, an exception, or a recorded error beside a 0; a
negative code is not, as callers take it for a warning.  The exceptions are again named:
`Keeps`, `Quiet` and `Disturbs` in `MCPluginCalls`, each with what of it is kept or changed.
`read` and `write` of `posix.cc` are called in a loop that adds a failure's -1 to the total
(`Again`, `Retry`): the loop may go on for ever, end with another total, which is told, or make
up for the failure, which is not.  Among the settings a call leaves changed are zfp's rate,
`linear_quantizer`'s step, the norm MGARD finds, and the bound `pw_rel` gives its child.  Two threads suffice because settings of the
process are one register: whoever wrote last is either the reader or somebody else.

### FzStages and FzPipeline

`FzStages` has the 26 kinds of stages of the FZGPUModules compressor, each as the parameters it
reads, compares, shows and builds with.  `FzPipeline` is one object: the configuration, the
library's pipeline it keeps from one call to the next and the pointers into it.

| Run | Asks |
|---|---|
| `fz` | every kind of stage beside another that shares names with it or has other ports, five calls: an archive is encoded by the pipeline of the present configuration and size (`Fresh`), pointers to stages and ports are into the pipeline there is (`RefsLive`), a clone encodes as its original (`CloneAlike`) |

Five calls: two to set a stage and a parameter, one to compress, one to change, one to compress or
clone.  An option has its default and one other value, a pipeline one stage.

`FzPipelineProofs` proves `Fresh` and `RefsLive` for any stages, sizes and number of
calls (`AlwaysFresh`, `NoDanglingStage`), from the one assumption `NoticedAssumption`: a
stage compares every parameter it builds with, which TLC evaluates on the registry's 26.  The invariant
says that while `dirty` is unset the pipeline is that of the configuration, up to the size, and that
whatever points into a pipeline names the present one.  `ClonesAlike` proves `CloneAlike` from
`ShownAssumption`, of which TLC again evaluates the instance: a stage is given and shows every parameter that it
builds with, and none has the name of an option of the compressor.  The lemma `ReadBack` is the argument: what a default
object makes of `get_options` builds the same pipeline.  A parameter that is stored but does
not build may differ, as the parameters of other stages than the present one are not shown.

### MetricsHooks and MetricsCallbacks

`MetricsHooks` has 23 metrics plugins and the four that lie around others (`composite`, `time`,
`historian`, `mask`): which hooks each implements, what it keeps of the input, when each result is
computed and from what, on which data it is passed over or refused, and which
results its configuration says need a decompression.  `MetricsCallbacks` is a compressor with
such a plugin: every public operation is the hook that begins it, the implementation, which
succeeds or fails, and the hook that ends it.

| Run | Asks |
|---|---|
| `around` | every plugin alone and some within others, any number of operations: measurements begin before they end (`Paired`), results need a decompression where the configuration says so (`Described`), and after a compression and its decompression are of one data set (`OneData`), no failure is hidden by an ok (`ErrorTold`) |

The state space is finite without a bound on calls: a plugin remembers the last input and what each
result was computed of.  The data are five buffers that the plugins treat differently.  When a
plugin is replaced it is by one of two, as each plugin is fresh in an initial state already.
`compress_impl` leaving by an exception is not modelled: the hooks are then skipped on purpose.
The exceptions are `Early`, `Late`, `Lost` and `Passes` in `MCMetricsCallbacks`.

## Disagreements met while modelling

The models do what the code does.  Where that is other than what the code's own words say, the
property is asked of the callers, libraries or plugins that are not concerned, and the rest named
in a constant of the instance; nothing is asked twice.

| Where | The code | What is said of it |
|---|---|---|
| `src/pressio_memory.cc:22` | a move assignment drops the buffer of its left side (`move_over`; `log_transform.cc:98` does it to the caller's output) | `include/libpressio_ext/cpp/memory.h:32` |
| `src/plugins/compressors/many_independent.cc:221` | with another root than 0 the broadcast from rank 0 sends a worker's emptied outputs | line 42 of that file |
| `src/plugins/compressors/many_independent.cc:163` | the status of a failed group is overwritten by that of the queue | `include/pressio_compressor.h:103` |
| `src/plugins/compressors/magick.cc:33`, `sz_common.cc:37` for `sz_threadsafe` | the last reference's cleanup may end the library another thread has just initialised | lines 25-28 and 70 of `magick.cc`, and `sz_threadsafe.cc`'s `pressio:thread_safe`: thread safe |
| `src/plugins/domains/cuda_cudamallochost_to_cudamalloc.cc:4`, `cuda_cudamalloc_to_cudamallochost.cc:3` | the senders are registered in each other's place | the names they are registered under |
| `include/libpressio_ext/cpp/domain_manager.h:285` | a destination is sent as many bytes as it holds, whatever the source's size (`misfit`) | - |
| `include/libpressio_ext/cpp/domain_manager.h:200` | `copy_to` into data passes an lvalue on and cannot be instantiated | its comment |
| `include/libpressio_ext/cpp/domain_manager.h:380,392` | the hooks that end get arguments that were moved from | - |
| `src/plugins/compressors/pipeline.cc:87` | the second stage writes into what was a view of the caller's input | compress takes a const input |
| `src/plugins/compressors/zfp.cc:253`, `szp.cc:120`, `src/plugins/metrics/out_of_bounds.cc:89` and the other plugins of `Unread`, `Drifting`, `Left` | options that are not read, not shown, or change when they are given back | `get_options`: what `set_options` takes |
| `src/plugins/io/posix.cc:43,80` | a failed `read` or `write` is kept in a `size_t`, taken for progress and tried again one byte before the place: one that stays is tried for ever; one that passes ends as a success with shifted data when the file is longer, and whenever writing | `include/libpressio_ext/io/posix.h:74`: "returns the number of bytes written" |
| `src/plugins/compressors/zfp.cc:285,325,374`, `linear_quantizer.cc:104`, `mgard.cc:435`, `mgard_1_0.cc:195`, `pw_rel.cc:61`, `lambda_fn.cc:404`, `external.cc:135`, `manifest.cc:167`, `sz3.cc:251`, `qoz.cc:262` | a call leaves other settings than it found, of its object or of its child, as `get_options` shows | - |
| the other calls of `Keeps`, `Quiet`, `Disturbs` in `MCPluginCalls` | handles kept on an early return, failures passed over, settings and objects of others changed | `pressio_compressor.h:103` |
| `src/plugins/compressors/compressor_base.cc:57,185` | `check_options` returns without the hook that ends it; `set_options` ends on another plugin what it began on one | - |
| `src/plugins/compressors/compressor_base.cc:219` | `decompress` passes over what hooks return | `metrics:errors_fatal` |
| `src/plugins/metrics/error_stat.cc:137` and the plugins of `Early`, `Late` | results that are had sooner or later than stated | `predictors:requires_decompress` |
| `src/plugins/metrics/mask1d.cc:45` | hands on half of the hooks | - |
| `src/plugins/metrics/historian.cc:188` | a clone copies the history without the lock that guards it (not modelled) | - |
| `src/plugins/compressors/chunking.cc:244` | a failed decompression is recorded, and the chunks joined all the same | - |
| `src/pressio_memory.cc:100` | `reset` keeps the old capacity, with which the new buffer is freed later | `domain.h:220`: the size given to `free` is that of the allocation |
| `src/pressio_data.cc:206` | a null pointer can keep a capacity, and a copy reads through it | `domain.h:232` |
| `src/pressio_memory.cc:16` | an assignment uses the left domain's `memcpy` on another domain's pointer | `memory.h:22-24` |
| `src/pressio_memory.cc:10` | an assignment frees first; when the allocation throws, the destructor frees again | `domain.h:221` |
| `src/plugins/domains/user.h:40` | `malloc`ed memory goes to a `delete[]` deleter | - |
| `src/plugins/domains/user.h:108` | the id of a user domain cannot be built | `domain.h:255` |
| `include/libpressio_ext/cpp/data.h:588` | the constructor's capacity check reads the moved-from argument | the check itself |
| `include/libpressio_ext/cpp/distributed_manager.h:178,180` | a new root or communicator alone leaves the old groups | the root is a master |
| `include/libpressio_ext/cpp/distributed_manager.h:199,213` | two numbers that do not fit are stored; more masters than ranks wrap | the groups are those asked for |
| `src/plugins/compressors/many_independent.cc:220` | the broadcast loops over the number of inputs, not outputs | line 42 of that file |
| `src/plugins/compressors/many_dependent.cc:129,185` | a child that refuses its options answers with no outputs, and the master reads them | - |
| `src/plugins/compressors/many_dependent.cc:113` | the status of a failed task is overwritten | `pressio_compressor.h:103` |
| `src/plugins/compressors/many_dependent.cc:154,194` | a task whose metrics lack a later name is in error, and guides the next requests with the earlier names | line 61 of that file: "results of previously successful compressions" |
| `src/plugins/compressors/many_dependent.cc:154,191` | `to_names` longer than `from_names` is read past its end | - |
| `src/plugins/compressors/many_dependent.cc:229` | a worker answers a decompression with the plugin's error, not the child's | - |
| `src/plugins/compressors/many_dependent.cc:204` | the number of outputs bounds the tasks, so some have no group | - |
| `src/plugins/launch/external_forkexec.cc:166` | `WEXITSTATUS` of a killed child is 0 | `src/plugins/metrics/external.cc:119`: "the return code from the external process" |
| `src/plugins/launch/external_forkexec.cc:34` | a failed second pipe or fork leaks descriptors | - |
| `src/plugins/compressors/many_independent_threaded.cc:236` | a second decompression restores the null the first left; a first one throws out of the parallel region | - |
| `src/plugins/compressors/many_independent_threaded.cc:232` | more than one child but fewer than groups: an index past the end | the check at line 216 |

## What is not modelled

The numeric kernels, the arithmetic of the metrics, the layout of files and headers, and the
bindings for other languages: computations of one call from its arguments, without state.  For
the same reason `pressio_data`'s `select`, `transpose` and `cast`, the iterators, the search for
hierarchical names, and the sorting of buffers into subgroups.  The registry is filled before
`main` and only read.  The launchers other than `forkexec` hand the request to MPI, an
interpreter or a server in one call; what they share in the process is in `Singleton`.  The
historian's records and the hooks of the domain manager only write down what
they are given.  libdistributed, MPI, OpenMP, CUDA, FZGPUModules and the C libraries are external,
modelled as the code under `src/` uses them.

Only model-checked: liveness and the fairness of refinements, as TLAPS does not reason about
`ENABLED`; and the runs `options`,
`calls` and `around`, whose content is the tables of the plugins: over a finite table TLC's answer
is the proof.
