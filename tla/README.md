# TLA+ models of the sampled HPX sources

This directory holds TLA+ models of the part of HPX that is in `src/`.
Each model is checked with TLC. `src/` is a 13-file excerpt of HPX, the
asynchronous many-task runtime. `spec.md` describes the runtime's core:
global id registry (AGAS), futures and dataflow, the work-stealing
scheduler, the remote action dispatcher and the distributed container view.
Most of that core is **not** in `src/`. What is there is a set of clients of
the core (an example, two benchmarks, unit tests), together with a few
library pieces:

| file (under `src/`) | what it is |
|---|---|
| `libs/core/resiliency/tests/performance/replay/dataflow_replay.cpp` | 1D heat stencil built from `dataflow_replay` tasks, with error injection and a `sliding_semaphore` bounding the depth of the dependency tree |
| `components/containers/partitioned_vector/include/hpx/components/containers/coarray/coarray.hpp` | `hpx::coarray`: an SPMD co-array over a `partitioned_vector` (layout, name rendezvous, automatic subscripts) |
| `libs/full/performance_counters/src/server/arithmetics_counter.cpp` | aggregating performance counters (`/arithmetics/add`, `subtract`, `multiply`, `divide`) |
| `libs/core/hashing/include/hpx/hashing/jenkins_hash.hpp` | Bob Jenkins' 32-bit string hash with seed |
| `examples/jacobi/jacobi_component/row_range.hpp` | intrusively reference-counted row storage and its split serialization |
| `libs/core/serialization/tests/unit/polymorphic/polymorphic_pointer.cpp` | test of polymorphic raw-pointer serialization |
| `tests/performance/local/nonconcurrent_fifo_overhead.cpp` | push/pop benchmark of `std::vector` against `hpx::lockfree::queue` |
| `tests/performance/local/wait_all_timings.cpp` | `wait_all` benchmark that splits futures into chunks |
| `libs/core/algorithms/tests/unit/algorithms/*` | unit tests of `find_if`, `is_sorted_until`, `make_heap`, `for_loop` with inductions |
| `libs/core/assertion/include/hpx/assertion/current_function.hpp` | compiler-dependent choice of the `HPX_ASSERT_CURRENT_FUNCTION` macro |

## 1. Inventory

### 1.1 Stencil pipeline with replay (`dataflow_replay.cpp`)
* **State.** `U[2][subdomains]`, a double buffer of `shared_future<partition_data>`.
  `do_work` has a loop counter `t`. A continuation attached every `nd`
  steps signals the `sliding_semaphore` shared through `std::shared_ptr`.
  There is a global `std::atomic<int> counter` of injected errors. There is
  a global `std::mt19937 gen`, shared by every `heat_part` call.
* **Operations.**
  * `do_work`, iteration `t`: create `next[i] = dataflow_replay(n, Op, ...)`
    for every `i`. When `t % nd == 0`, attach `next[0].then(... sem->signal(t))`.
    Then call `sem->wait(t)`.
  * `heat_part`: runs as a task once the three input futures are complete.
    It draws from `gen`, may inject an error (`++counter`, throw) and computes
    the new partition.
  * `dataflow_replay` (resiliency library, not in `src/`): re-runs a
    throwing attempt, up to `n` attempts in all.
  * `hpx_main`: `result.get()` on `when_all` of the last step, then `finalize`.
* **Interactions.** Dataflow triggering (a task runs when all its inputs are
  complete). A continuation on `next[0]`. Suspension of the HPX thread in
  `sem->wait` and its wake-up by `sem->signal`. Concurrent `heat_part`
  tasks on the worker threads.
* **Hard behaviour.** Tasks and continuations complete in any order, so
  signals can reach the semaphore out of order. The main thread's
  suspension depends on a continuation that must fire even when its future
  holds an exception. Replays can be exhausted, and exceptions propagate
  through the graph. `gen` is mutated concurrently (a data race).
* **Correctness.** The dependency tree stays within a bounded depth. The
  suspended thread is always eventually woken. An exception reaches every
  dependent future. The program terminates. Every `heat_part` draw uses its
  own generator state.

### 1.2 Sliding semaphore (`hpx::sliding_semaphore`, spec §4.3, not in `src/`)
* **State.** `lower_limit`; `max_difference` is fixed at construction.
* **Operations.** `wait(upper)` suspends while `upper - max_difference > lower_limit`.
  `signal(lower)` advances `lower_limit` monotonically.
* **Correctness.** The floor never decreases, and no waiter is lost.

### 1.3 Co-array (`coarray.hpp`)
* **State.** Each image has its own `coarray` object: the `partitioned_vector`
  client `vector_`, `this_image_`, and the view's sizes.
* **Operations.**
  * constructor: image 0 computes `num_segments`, builds the layout with
    `get_unrolled_localities`, creates the vector and `register_as` under
    `name + "_hpx_coarray"`. Every other image calls `connect_to` on that name.
  * `update_view`: substitutes `num_images` for the automatic size.
  * `operator()`: substitutes `this_image_` for an automatic subscript.
* **Interactions.** A name rendezvous through the AGAS symbol namespace:
  the images run concurrently, and only image 0 publishes.
* **Hard behaviour.** A `connect_to` that runs before the `register_as`.
  The integer division `num_segments / localities.size()` in the layout
  (a zero `unroll` makes the fill loop never advance). Automatic subscripts
  in positions whose extent is not the number of images.
* **Correctness.** Every image connects to the vector that image 0 created.
  The layout loop terminates, and it places every segment on a locality
  round-robin in blocks. `a(j, _)` addresses a segment stored on the calling
  image's own locality. Every index an automatic subscript produces is in range.

### 1.4 Arithmetic performance counters (`arithmetics_counter.cpp`)
* **State.** `counters_`, the base counters, plus the counter info.
* **Operations.** The constructor validates the type and, for
  `divide`, needs at least two base counters. `get_counter_value` folds
  the base values with `Operation` from `init_value` and then scales. It
  ignores its `reset` argument.
  `start`, `stop` and `reset_counter_value` forward to the base counters.
  `arithmetics_counter_creator` validates the parameter list.
* **Hard behaviour.** The fold's initial value (0 for `minus`, 1 for
  `divides`). Scaling by a zero `scaling_`. `base_values[0]` on an empty list.
* **Correctness.** `subtract` yields `v0 - v1 - ...` and `divide` yields
  `v0 / v1 / ...`, as the counter names and the "has to expand to more than
  one counter name" error say.

### 1.5 Jenkins hash (`jenkins_hash.hpp`)
* A pure function. `mix` operates on three `uint32` words. `hash` consumes
  12 bytes at a time, then a tail of up to 11 bytes. `random_seed(size)`
  draws from `[0, size - 1]`.
* **Hard behaviour.** 32-bit wrap-around. Bytes are read through `char`,
  whose signedness is implementation-defined, so bytes `>= 0x80` are
  sign-extended on some platforms and not on others. `random_seed(0)`,
  and `random_seed` of any size above `2^31`, builds a distribution range
  with a negative upper bound.
* **Correctness.** The hash agrees with the published algorithm and is
  the same on every platform. `mix` is reversible.

### 1.6 Intrusive reference count and row ranges (`row_range.hpp`)
* **State.** `value_holder` carries an `atomic_count`. Releasing the last
  reference deletes it. A `row_range` is `[begin_, end_)` over a shared
  holder. `save` writes only that slice; `load` creates a fresh holder.
* **Hard behaviour.** Concurrent `add_ref` and `release` on several
  threads: exactly one `delete`, and never after a later `add_ref`.
  The round trip re-bases the range to `[0, size)`.

### 1.7 Polymorphic pointer serialization (test)
* `D::serialize` writes `b = 4711` into the object while saving. Raw
  pointers are untracked, so two loads of the same pointer give two
  objects.

### 1.8 Benchmarks
* `nonconcurrent_fifo_overhead.cpp` repeats blocks of `blocksize` pushes
  then pops. The control measurement runs `blocksize` operations, yet it
  is normalised by `threads * iterations`. The printed columns do not
  follow the header's order. `iterations % blocksize` divides by zero
  when `blocksize = 0`. Line 97 lacks a comma, so the file does not
  compile. It is not modelled: no build of it exists to be faithful to.
* `wait_all_timings.cpp` splits `num_tasks` futures into `num_chunks`
  chunks, and each chunk is waited on by its own task.

### 1.9 Not modelled
* The algorithm unit tests of `find_if`, `make_heap` and `for_loop`.
  The implementations of these algorithms are not in `src/` and not
  described by `spec.md`. `is_sorted_until.cpp` is modelled (section 3).
* `current_function.hpp`. It defines no state and no operation. It only
  chooses, at preprocessing time, which compiler-predefined identifier
  (`__PRETTY_FUNCTION__`, `__FUNCSIG__`, `__FUNCTION__`, `__FUNC__`,
  `__func__` or the string `"(unknown)"`) `HPX_ASSERT_CURRENT_FUNCTION`
  names. The choice depends on macros the compiler predefines, which no
  source here states, and the result is text in assertion messages. A
  model checker has nothing to explore in it.
* Hazards still without a property. Each of these would need a run that
  shows a violation, and every run slot of the project is in use:
  * the data race on `gen` in `heat_part` (`dataflow_replay.cpp:175`);
  * `t % nd` with `nd = 0` (`:276`);
  * `set_checksum` discarding its sum (`:107`): every `heat_part` result
    keeps the `checksum_ = 0.0` of `partition_data(3 * size + 1)`;
  * the `0.0 / 0.0` average of `wait_tasks` with `--samples 0`
    (`wait_all_timings.cpp:83`).
  * a `divide` counter whose base counter reads 0 divides by zero and
    casts the infinity to `int64` (`arithmetics_counter.cpp:118`): only
    `add` and `multiply` are compared in the passing run;
  * `base_values[0]` of an empty base value list
    (`arithmetics_counter.cpp:121`): the creator rejects an empty
    parameter list, and an empty list could come only from the base
    counter set's expansion of a wildcard, which is not in `src/`.

  A passing property about any of them could only restate the code
  line, so none is stated.
* `jenkins_hash::serialize` is compiled only under
  `JENKINS_HASH_HAS_SERIALIZATION_SUPPORT`, which nothing defines.
* The AGAS registry, address cache, work-stealing scheduler and action
  dispatcher of `spec.md`. No code of theirs is in `src/`. The name
  rendezvous the co-array needs is modelled from spec §4.1 inside the
  co-array model.

## 2. Plan

Most important behaviour first:

1. `SlidingSemaphore` and `StencilReplay` (**done**). This is the only
   concurrent protocol in `src/`: dataflow, replay, continuations and
   semaphore suspension.
2. `Coarray` and `UnrolledLocalities` (**done**). The layout algorithm
   against a reference; construction as concurrent images around a name
   registry (spec §4.1); the locality and range of automatic subscripts.
3. `ArithmeticsCounter` (**done**): the fold of `get_counter_value`
   against the meaning of the counter names.
4. `RowRange` and `SharedOwnership` (**done**): threads sharing
   `value_holder` through `intrusive_ptr`, with exactly one delete, shown
   to refine explicit shared ownership.
5. `HeatPartRng` (planned): concurrent `heat_part` draws on the shared `gen`
   (a data race, so a violation run). Also `partition_data::set_checksum`.
6. `JenkinsHash` (**done**): `mix` and `hash` with 32-bit words as pairs
   of 16-bit limbs (TLC integers are 32-bit signed), checked against a
   reference, with `char` signedness as a parameter.
7. `WaitAllChunks` (**done**). `FifoBench` is not modelled because the
   file does not compile. Row-range serialization is part of `RowRange`
   (**done**). `PolymorphicPointer` is planned.
9. `JenkinsHashObject` (**done**): the object's seed under its
   constructors, `reset`, `set_seed` and `swap`.
8. `IsSortedUntil` (**done**): the unit test's cases run through the
   parallel algorithm, whose partitions race on a cancellation token.
   The tests of `find_if`, `make_heap` and `for_loop` are planned in the
   same way.

## 3. Modules and runs

### `SlidingSemaphore` (spec-modelled)
`lower_limit` is the only variable. `CanProceed(upper)` is the condition
under which `wait(upper)` returns. `Signal(lower)` takes the maximum. The
module is instantiated by `StencilReplay` with `MaxDifference <- ND`.

### `StencilReplay`
Maps `stepper::do_work` and `hpx_main`. The variables:

* `t` is the loop counter.
* `mpc` is the main HPX thread's position: `issue`, `wait`, `get` or `done`.
* `status[<<s, i>>]` is the state of future `U[s][i]`: `none`, `pending`,
  `ready` or `failed`. Each step has its own cells, because `dataflow`
  copies the `shared_future`s it is given, so reusing the double buffer
  cannot affect tasks already created.
* `attempts` is the replay helper's count for a pending task.
* `cont[k]` is the semaphore continuation of iteration `k`.
* `lower_limit` is the semaphore's floor.

The actions:

* `Issue` is one loop iteration up to the wait: it creates the tasks of
  step `t+1` and attaches the continuation when `t % nd == 0`.
* `SemWait` is the return from `sem->wait(t)` plus `++t`.
* `Attempt(c)` is one `heat_part` run under `dataflow_replay`.
* `RunContinuation(k)` runs the `.then` lambda.
* `GetResult` is `result.get()`. The `hpx::wait_all(solution)` that
  follows it (line 325) is left out: once `result.get()` has returned,
  every partition of the last step is ready, so the wait returns at once
  and changes nothing the model tracks.
* `Finished` is the end of the program.

Partition values and the error `counter` (only printed) are abstracted
away. Error injection is a nondeterministic choice per attempt.

| run | cfg | checks | result |
|---|---|---|---|
| `stencil` | `StencilReplay.cfg` (4 partitions, 6 steps, nd = 2, 2 attempts, `FairSpec`) | `TypeOK`, `TreeDepthBounded`, `NoLostWakeup`, `FailureCone`, `Termination` | pass, 232,597 states, about 1.5 minutes |

* `TreeDepthBounded`: the newest issued step is at most
  `nd + subdomains / 2` steps ahead of the oldest pending task. No run
  checks that this bound is tight. The `subdomains / 2` term arises because a signal for step `k`
  only proves that `next[0]` of step `k+1` and its dependency cone are
  complete.
* `NoLostWakeup`: while the main thread is suspended, an attached
  continuation exists whose signal would release it. It relies on
  `signal` taking the maximum, because continuations complete out of order.
* `FailureCone`: once a future holds an exception, no future of its
  forward dependency cone ever holds a value.
* `Termination`: the loop, `result.get()` and every continuation
  complete, including when `next[0]` holds an exception.

**Bounds.** Four partitions make the cone of `next[0]` smaller than a
whole step. Six steps exceed the depth bound (4) by enough for the
semaphore to block repeatedly. `nd = 2` makes signals sparse. Two
attempts give retries, successes after a retry, and exhausted replays.

**Fairness.** HPX threads are cooperative, and the scheduler runs every
runnable task, so each task, each continuation and each main-thread step
is weakly fair. `sem->wait` re-enables only when the floor rises, and the
floor never falls, so weak fairness suffices. The run turns off
the deadlock check, because the program really does stop. A stuck
`sem->wait` then shows up as a violation of `Termination`.

### `UnrolledLocalities` (checked in `MCPureFunctions`)
`Fill` is the `for` loop of `coarray::get_unrolled_localities`, written as a
recursive operator.

* It fills `[o, min(o + unroll, o_end))` with the cursor's locality,
  advances `o` by `unroll` and wraps the cursor at `i_end`.
* A fuel bound, `LoopBound`, turns a loop that does not terminate into
  the value `Diverged`.
* `GetUnrolledLocalities` is the whole call, and `BlockCyclic` is the
  reference.

`MCPureFunctions` checks the pure functions of the code against their
references. Each initial state is one call, with its arguments as
variables; `fn` says which function it calls (`"layout"`, `"hash"`,
`"counter"` or `"heat"`). Every call of `get_unrolled_localities` with up to
3 localities, 9 segments and `unroll <= 4` is one of them (150 calls). The
run `pure_functions` (`PureFunctions.cfg`) checks
`UnrolledLayoutIsBlockCyclic` together with the `JenkinsHash` and
`ArithmeticsCounter` and `HeatPart` invariants below: it passes on 7,941 calls. The
constant `OpsChecked` names the counter kinds whose result is compared.

The loop equals the block-cyclic reference, including a partial last
block. It diverges exactly when `unroll = 0` and there are segments.
The constructor passes `num_segments / localities.size()`. Since
`num_images = localities * images_per_locality` and every automatic size
counts `num_images`, `num_segments` is `0` or at least the number of
localities. So the diverging case is not reachable from the constructor.

### `Coarray` (`MCCoarray`)
The constructor runs concurrently on every image. Images
`0 .. NumLocalities * ImagesPerLocality - 1` are placed locality by
locality.

The variables:

* `shape` is the `cosizes` argument. It is chosen in `Init` from a set of
  shapes whose last entry is `_`, as `coarray_sizes` asserts statically.
* `pc[i]` and `round[i]` give where image `i` is.
* `vec[i]` is the gid its `vector_` refers to.
* `registry` is the symbolic name table.
* `credit[d]` is the number of clients holding gid `d`.
* `layout[d]` is the segment placement image 0 built for vector `d`.

The actions:

* `CreateVector` (image 0) computes `num_segments` and the unrolled layout
  and takes the first credit.
* `RegisterAs` (image 0) binds `name + "_hpx_coarray"`, or meets
  `NameConflict`. On a conflict the exception leaves the constructor and
  `vector_` is released.
* `ConnectTo(i)` (every other image) waits for the name and takes a credit.
* `SyncAll(i)` is the barrier that spec §6 puts between construction and
  access.
* `Destroy(i)` is the end of the co-array's scope. Afterwards the image
  constructs its next co-array, `Rounds` in all, the `r`-th under
  `NameOf[r]`.

The operators:

* `ViewSizes` models `update_view`.
* `Subscript` models both `operator()` overloads.
* `Calls` is every subscript list the overloads accept.

Modelled from `spec.md`, because the code is not in `src/`:

* The registry (§4.1). Registering the same gid is idempotent and a
  different one is a `NameConflict`. A resolve waits for a pending
  registration. A name is dropped when its gid's credits reach zero.
* The client's credit.
* The barrier.
* `LocalityOf`, the placement of images on localities.
* `FlatIndex`, the view's column-major basis. This basis is consistent
  with the example in spec §8.

| run | cfg | checks | result |
|---|---|---|---|
| `coarray_safety` | `Coarray.cfg` (2 localities x 2 images, 2 co-arrays under one name, 4 shapes) | `TypeOK`, `AutoAccessIsLocal` | pass, 1,668 states |
| `coarray_construction` | `CoarrayDistinct.cfg` (3 localities x 1 image, 2 co-arrays under distinct names) | `Termination` under `FairSpec` | pass, 332 states |
| `coarray_name_reuse` | `CoarrayNameReuse.cfg` (2 images, 2 co-arrays under one name) | `ConnectedToOwnVector` | **violation** |
| `coarray_auto_subscript` | `CoarrayAutoSubscript.cfg` (4 images, one co-array of each shape) | `AutoSubscriptInRange` | **violation** |

* `AutoAccessIsLocal`: every `a(j..., _)` reaches a segment that image 0's
  layout put on the caller's own locality. It holds because the unroll is
  `num_segments / localities` and the automatic size is last. With an
  unroll of 1 (round robin) it fails.
* `ConnectedToOwnVector`: every image that has constructed its `r`-th
  co-array refers to the vector image 0 created for round `r`. It is
  checked only where names are reused: with distinct names it holds by
  construction of the names.
* `Termination`: with a distinct name per co-array, every image returns
  from every constructor, whatever the order of `register_as`,
  `connect_to` and the barriers.
* **Finding (name reuse).** Nothing orders an image's `connect_to` after
  image 0's `register_as` of the *same* co-array. Consider an image that
  has passed the barrier and destroyed its co-array while image 0 still
  holds the previous vector. That image resolves the previous vector,
  keeps it alive with its own credit, and so works on a different
  container. The trace has seven states.
* **Finding (automatic subscript).** Both overloads replace `_` by
  `this_image_` in *every* position. With `cosizes {2, _}` on 4 images,
  `a(_, 0)` on image 2 indexes row 2 of 2, although the caller wrote
  only the in-range index 0. The run draws shapes from `NonEmptyShapes`
  (`{_}`, `{2, _}`, `{_, _}`), whose every extent is non-zero, so the
  out-of-range index can only come from the substitution.
* `spec.md` §8 builds a co-array with sizes `{auto, 4}`. The code
  rejects that at compile time (`coarray.hpp:76`: the last size must be
  `_`). The model only builds shapes the code accepts.

**Bounds.** Two localities of two images make image placement matter:
the layout puts two images' slices on each locality. Two rounds are the
least that can show name reuse. The shape `{0, _}` exercises the empty
layout. `{_, _}` has an automatic size in a non-last position.

**Fairness.** Weak fairness of each image's steps. Every image runs its
own HPX thread, and a step that stays enabled (a bound name, a complete
barrier) is eventually taken. `coarray_construction` does not check for
deadlock. The program ends when every image returns, and a hang shows up
as a violation of `Termination`. `coarray_safety` does not check for
deadlock either. There, image 0 can stop with `NameConflict`, leaving the
other images in `sync_all`.

### `HeatPart` (checked in `MCPureFunctions`)
`HeatPart` is the index arithmetic of `stepper::heat_part`: the set of
`<<vector, index>>` pairs every statement reads or writes, for inputs of
width `w` (`partition_data(w)` holds `w + 1` values, the workspace
`3 size + 1`). Values are left out. Each loop is its own operator
(`LeftLoop`, `LeftSeam`, `CenterLoop`, `RightSeam`, `RightLoop`, `Fluxes`,
`TimeLoop`). Indices are `std::size_t`: a difference below zero stands for
the wrapped value near `2^64`, kept as a negative number, and a
`for (i = 0; i != n; ++i)` whose `n` wrapped runs `Unbounded(size)`
iterations, enough to leave every vector. Each width `0..5` is one initial
state with `fn = "heat"`.

`HeatPartInBoundsExactlyWhenWide` says every access stays inside its
vector exactly when `w >= 2`: with `--subdomain-width 0` or `1` the first loop's bound
`size - 2` wraps and it runs off `left_input`, and every larger width is
safe, including the seams at `size - 2` and `size - 1`. The mutant runs the
right loop to `size` instead of `size - 1` (`RightLoopLong`), one element
past `right_input`.

### `ArithmeticsCounter` (checked in `MCPureFunctions`)
A `double` is modelled as the exact rational it holds, because the
inputs are small integers. A division by zero gives `Inf`.

* `Creator` is `arithmetics_counter_creator` with the constructor's divide
  check (`ConstructorAccepts`). It returns `invalid_gid` (error through
  `ec`), `exception` (the constructor throws) or `counter`.
* `GetValue` is `counter_value::get_value<double>()`, which the fold calls
  on each base value: `value_` divided by `scaling_` when
  `scale_inverse_` is set, multiplied by it otherwise, unchanged for a
  scaling of 1, and the `uninitialized_value` exception (`Throws`) when
  `scaling_` is 0. The counter_value code is not in `src/`; its behaviour
  is that of HPX's `counter_value`.
* `GetCounterValue` folds `Apply(op, acc, GetValue(b))` from
  `InitValue(op)`. It then applies `Scale` with base counter 0's scaling
  (multiplying when `scale_inverse_` is set and the scaling is not 1,
  dividing otherwise) and `Trunc`, the `int64` cast.
* `Meaning` is the reference `v0 op v1 op ...` over the values `GetValue`
  gives.
* Every request is an initial state of `MCPureFunctions` with
  `fn = "counter"`: type, counter kind, split parameter list (each name
  valid or malformed, up to 3), and, for a created counter, one
  `counter_value` per base counter from `Readings`: value `0..2`,
  scaling `0..2`, and `scale_inverse_` (only at scaling 2, where it
  makes a difference).

| run | cfg | checks | result |
|---|---|---|---|
| `pure_functions` | `PureFunctions.cfg` (`OpsChecked = {add, multiply}`) | `AggregateMeaning` for add and multiply (with the layout, hash and heat invariants) | pass, 7,941 calls |
| `arithmetics_subtract_divide` | `ArithmeticsCounterMinus.cfg` (`OpsChecked = {subtract, divide}`) | `AggregateMeaning` for subtract and divide | **violation** |

**Finding.** The fold starts at `0.0` for `std::minus` and at `1.0` for
`std::divides`. So `/arithmetics/subtract@a` reports `-a`, and `subtract`
over `a,b` reports `-a-b`. `divide` over `a,b` reports `1/(a*b)`. The
constructor's requirement of at least two divide operands shows that
`a/b` is meant. The `names.empty()` branch of the creator cannot be
taken: a non-empty parameter string splits into at least one name.

`AggregateMeaning` says that a created counter whose base counters can
all be read reports base value 0 op base value 1 op ..., each read
through its own scaling, the result stored in base counter 0's scaling.
A base counter with `scaling_` 0 makes the read throw. Its mutant swaps
the fold's initial values (`InitValueSwapped`).

Not checked: a `divide` counter whose base counter reads 0 divides by
zero, and the infinity reaches the `int64` cast (undefined behaviour);
only the violation run compares `divide`.

`start`, `stop`, `reset_counter_value` and `finalize` only forward to the
base counter set, whose code is not in `src/`, so they are not modelled.

### `RowRange`, refining `SharedOwnership` (`MCRowRange`)
Each of three threads holds one `row_range`.

The variables:

* `ptr[t]` is its `values_`, and `begin[t]` and `end[t]` are its
  `begin_` and `end_`. A default-constructed `row_range` has them `Unset`,
  because `row_range() {}` initialises neither.
* `size[h]` is `h->v_.size()`. The values themselves are not modelled.
* `saved` holds the lengths of the vectors `save()` has written.
* `count[h]` is `h->count_`.
* `deletes[h]` counts the `delete`s of `h`.
* `pc`, `rel` and `fetched` hold the state of a release in progress.

`intrusive_ptr_release` is two steps, because other threads run between
them:

* `Decrement` is the atomic `--count_`, which returns the new value.
* `DeleteIfLast` is `if (0 == result) delete p`.

The actions:

* `Copy(t, u)` is a `row_range` copy. It copies `begin_` and `end_`, and
  `values_` through `intrusive_ptr_add_ref`.
* `Make(t)` is `row_range(new value_holder(n), b, e)`, and `Slice(t, u)` is
  `row_range(values, b, e)` over the holder of another thread's range.
  The client passes a slice inside `v_`: the constructor checks only
  `end_ > begin_` and leaves the rest to the caller.
* `Destroy(t)` is the destructor.
* `Save(t)` is `row_range::save`, which writes the `end_ - begin_` values
  of the slice.
* `Load(t)` is `row_range::load` of a vector some `save()` wrote: a new
  holder taken with `add_ref`, the old one released, `begin_ = 0` and
  `end_ = v_.size()`.
* `begin()`, `end()`, `range_begin` and `range_end` only read, and are
  the subject of `SliceInBounds`.

`SharedOwnership` is the abstract promise that spec §9 asks for: a buffer
is alive exactly while some thread owns it, and dies in the step its last
owner lets go. The refinement mapping is:

* `owner <- ptr`
* `live <- {h : count[h] > 0}`
* `freed <- {h allocated : count[h] = 0}`

The delete step is a stutter of the abstract spec.

| run | cfg | checks | result |
|---|---|---|---|
| `rowrange` | `RowRange.cfg` (3 threads, 2 holders, vectors of up to 2 values, `FairSpec`) | `TypeOK`, `DeletedOnce`, `NoUseAfterFree`, `SliceInBounds`, `RefinesSharedOwnership`, `NoLeak` | pass, 152,107 states |

`Elements(t)` is the index set `[begin_, end_)` that `begin()`, `end()`
and `save()` cover; `Save` records its size.
`SliceInBounds` says that every range with a holder has a non-empty slice
inside `v_`. So `begin()`, `end()` and `save()` stay inside the vector, and
`load()`'s `HPX_ASSERT(end_ > begin_)` holds. That is, an `Unset` bound is
never paired with a holder.

**Mutants.** Each is a plausible slip in the same lines:

* re-reading `count_` in the test (double delete);
* `if (1 >= result)` in the test (use after free);
* `count_--` instead of `--count_` (leak);
* a copy without `add_ref` (breaks the refinement);
* a copy that takes two references (count out of range);
* a `load()` that forgets `begin_ = 0`, which keeps the indeterminate
  `begin_` of a default-constructed range (breaks `SliceInBounds`).

**Bounds and fairness.** Three threads are the fewest with which two
threads release a holder while a third copies it. Two holders let `load()`
replace a shared holder. Vectors of two values allow slices that start
after `0` and slices that end before `v_.size()`. No symmetry is used,
because the liveness and refinement checks need the whole state graph.
`DeleteIfLast` is weakly fair: it is the rest of the
same `noexcept` function as the decrement.

### `JenkinsHash` (checked in `MCPureFunctions`)
TLC integers are 32-bit signed, so a `size_type` (`std::uint32_t`) is a
pair of 16-bit limbs. `AddU`, `SubU`, `XorU`, `ShlU` and `ShrU` wrap
modulo `2^32` as the C++ operators do.

* `Mix` folds `MixLine` over `MixSchedule`, the nine lines of
  `detail::mix`. Each line is `x -= y; x -= z; x ^= (z shift k)`.
* `CharU` is a key byte read through `char` and converted to `size_type`.
  The parameter `signed` says whether the platform's `char` is signed
  (implementation-defined). Where it is, a byte `>= 0x80` becomes
  `0xFFFFFFxx`.
* `Blocks` is the `while (len >= 12)` loop and `Tail11` the fall-through
  `switch` over the last `len < 12` bytes.
* `Hash` is the whole of `jenkins_hash::hash`.
* `HashString` is `operator()(std::string const&)`, which hashes
  `key.size()` bytes. `HashCString` is `operator()(char const*)`, which
  hashes `std::strlen(key)` bytes (`StrLen`: the bytes before the first NUL).
* The reference is `ReferenceHash`, the
  published lookup2, written differently: the key is zero-padded to whole
  12-byte blocks and read as little-endian words, and the last `c` word is
  shifted up one byte for the length.

The model was cross-checked on four keys against a direct 32-bit
transcription of the C++.

| run | cfg | checks | result |
|---|---|---|---|
| `pure_functions` | `PureFunctions.cfg` (keys of 0 to 25 bytes from 3 bases, 2 seeds; and the 150 layout calls) | `MatchesReference` (unsigned `char`), `UnrolledLayoutIsBlockCyclic` | pass, 7,941 calls
| `jenkins_signed_char` | `JenkinsHashSigned.cfg` | `PlatformIndependent` | **violation** |

**Finding.** Where `char` is signed (x86), the one-byte key `0xC8` hashes
differently from where it is unsigned (ARM). The class comment says it
computes the function Bob Jenkins published, and lookup2 reads the key
as unsigned bytes. A key hashed on one locality and looked up on another
platform lands in a different bucket.

`HashString` and `HashCString` model the two `operator()` overloads; no
property compares them.

**Bounds.** Key lengths 0 to 25 cover an empty key, every tail length,
keys of exactly one and two blocks, and two blocks with a tail. The
bytes are `(base + 37 i) % 256`, so neighbouring bytes differ and cross
`0x80`. Base 0 puts a NUL first, base 71 puts one at the sixth byte, and
base 200 puts none. The seeds are zero and all ones, which exercise the carries.

### `JenkinsHashObject` (`MCJenkinsHashObject`)
The seed of `jenkins_hash` objects. `seed_[o]` is the object's seed and
`alive` the objects constructed. `bound[o]` is a ghost: the size the seed
was drawn for, or `NoBound`. It moves with the seed in `swap`.

* `DefaultCtor`, `SizedCtor(o, size)` and `SeededCtor(o, v)` are the three
  constructors. `Reset(o, size)`, `SetSeed(o, v)` and `Swap(o, p)` are the
  three members that change `seed_`. `operator()` only reads `seed_` and
  is not an action.
* `RandomSeed(size, samples)` (in `JenkinsHash`) is `random_seed`. It
  computes `b = static_cast<int>(size - 1)`. If `b >= 0`, the draw gives a
  value in `0 .. b`. If `b < 0`, the distribution's precondition `a <= b`
  fails. That is undefined behaviour, and libstdc++ then returns whatever
  its rejection loop produces: any `int`, so any `unsigned int`. The draw
  is taken from a sample of `uint32` values that lie on both sides of
  every size checked.
* `serialize` is compiled only under `JENKINS_HASH_HAS_SERIALIZATION_SUPPORT`,
  which nothing defines, so it is not modelled.

| run | cfg | checks | result |
|---|---|---|---|
| `jenkins_seed_range` | `JenkinsHashSeed.cfg` (2 objects; sizes 1, 3, 2^31, 2^31 + 1) | `SeedWithinSize` | **violation** |

**Finding.** For every size above `2^31`, `static_cast<int>(size - 1)`
is negative, and `random_seed` passes it as the upper bound of
`uniform_int_distribution<>`. TLC's trace constructs
`jenkins_hash(2^31 + 1)`, whose bound is `INT_MIN`, and draws the seed
`2^32 - 1`, which is not below `size`. The call `(0, size - 1)` means a
seed below `size`. Sizes 1, 3 and `2^31` give seeds in range. Size 0
(bound `-1`) is left out of the run: with size 0 no seed can be below
size, so that case would fail whatever the code did.

### `WaitAllChunks` (`MCWaitAllChunks`)
This module models `wait_all_timings.cpp`. `hpx_main` calls
`wait_tasks` once with one chunk and, when `--chunks` is not 1, once more
with `num_chunks` chunks.

* **State.** The options are fixed variables. `call` is the running call
  and `k` its sample counter. `mpc` is the main thread. `fut` maps each
  created future to `pending` or `ready`, and `task` holds the chunk
  tasks.
* **Actions.**
  * `Create` is one sample's `create_tasks` for every chunk, plus, with
    more than one chunk, one `hpx::async` task per chunk.
  * `Timer` is the timer of `make_ready_future_after` firing.
  * `ChunkWait` is a chunk task's `wait_all` returning.
  * `WaitReturns` is the main thread's wait returning. The chunks are
    then destroyed, but a chunk task that has not finished goes on
    running (`Detached`).
  * `EndCall` ends a call's sample loop.
* **Checks.** The run `wait_all` (`WaitAllChunks.cfg`) has up to 3
  futures, 4 chunks and 2 samples, both delay settings, and `FairSpec`.
  It passes on 1,755 states.
  * `ChunksOutliveTasks`: no chunk task, which holds its chunk by
    reference, is still running once the main thread has left the wait.
  * `Termination`: both calls end.
* **Fairness.** HPX runs every runnable thread and fires every timer, so
  each action is weakly fair. The program ends, so a hang shows up as a
  `Termination` violation and deadlock is not checked separately.
* **Mutants.**
  * The sample loop test `k <= num_samples` breaks `TypeOK`.
  * Waiting on the first chunk task only breaks `ChunksOutliveTasks`.
  * Spawning one task too few breaks `Termination`.
* **Observations not checked.**
  * `--samples 0` divides `0.0` by `0`, so the printed time is NaN.
  * `--no-header` has a default value, so its count is always 1 and the
    header is never printed.

### `IsSortedUntil` (`MCIsSortedUntil`)
This module models `is_sorted_until.cpp` and the parallel
`hpx::is_sorted_until` it calls. The algorithm's library code is not in
this excerpt. `Splits`, `Last`, `Compare`, `Cancel`, `Join` and
`Finished` are therefore marked spec_modelled, and they follow HPX's
documented algorithm:

* **Partitioning.** The `N - 1` comparisons `pred(c[i], c[i - 1])` are
  split into contiguous partitions, one task each. Every split into at
  most `MaxChunks` parts is allowed, and a single part is the `seq`
  policy.
* **The token.** The tasks share a `cancellation_token`.
  * Before comparison `i`, a task stops if `was_cancelled(i)`, that is,
    if the token is below `i`.
  * On a true `pred`, a task runs `cancel(i)`: a load, then a
    `compare_exchange_strong` loop that only lowers the token. `Cancel`
    is one round of that loop, so another task's store can fall between
    the load and the exchange.
* **Joining.** The partitioner joins every task. With no errors, the
  result is `first + tok`. A `bad_alloc` is rethrown as it is, and any
  other exception reaches the caller in an `exception_list`.

The test cases are translated from the file:

* iota;
* iota with the ignored middle value and test 2's predicate;
* `c1` (unsorted at both ends) and `c2` (zeros at `size / 3` and
  `2 * size / 3`);
* iterators that throw `runtime_error` or `bad_alloc`, the latter with
  both ends of `dis(gen)` as values.

Each case carries the iterator or exception the test expects.

The run `is_sorted_until` (`IsSortedUntil.cfg`) uses `N = 7`, so that
`N / 2`, `N / 3` and `2N / 3` are distinct inner positions as they are
for 10007. It allows up to 3 partitions, so that the two unsorted pairs
of `c2` can fall in different tasks and race on the token. It passes on
5,267 states under `FairSpec`, with each task weakly fair because the
executor runs every task it is given. Its properties:

* `TypeOK`.
* `ReturnsTestIndex`: every split and interleaving gives the test's
  expected outcome.
* `Termination`: no compare-exchange loop spins forever.

The mutants:

* A plain store in `cancel` breaks `ReturnsTestIndex`.
* Cancelling at `i - 1` breaks `TypeOK`.
* A failed exchange that does not reload breaks `Termination`.

The number of exceptions the test expects (`test_num_exceptions`) is in
`test_utils.hpp`, which is not in this excerpt. It is not modelled.
