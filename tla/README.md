# Verification of openstar-linux-worker

TLA+ modules of the OpenStar Linux worker (`src/` in paths below is the
repository's own `src/` directory), the TLC runs that check them on small
instances, and TLAPS proofs of the most important results for every value of
the constants. The worker registers with a coordinator, claims work units in
batches, downloads their datasets, computes, and submits the results until it is
told to stop.

`PROJECT.json` is the machine-readable index: runs, the mutant that shows each
property can fail, the source lines each definition stands for, findings,
hazards and theorems.

## Components

| Component | State it keeps | Operations | Talks to | Correct when |
|---|---|---|---|---|
| **Claim loop** `worker.rs` `Worker::run` | position in the loop, semaphore permits, backoff | register, check stop, `select!` on permit and stop, claim, spawn, sleep, drain | coordinator (HTTP), signal task (watch channel), batch tasks (permits) | no permit lost or duplicated; a stop ends the claims and then the process; the exit is drained |
| **Signal task** `main.rs` | whether handlers are installed, whether the stop was sent | install handlers, await a signal, send | claim loop | a stop reaches every await of the loop; a panic before sending does not go unnoticed |
| **Batch tasks** `worker.rs` `process_batch` ... `submit_with_retry` | the batch, the unit at hand, its dataset, the serialised result, attempts | shared fetch, individual fetch with retries, compute, submit with retries | coordinator, backends (`spawn_blocking`) | every claimed unit gets one result, about itself, from its own data, the same bytes on every retry |
| **Coordinator client** `client.rs` | none | `register`, `claim`, `claim_batch`, `dataset`, `submit_bytes` | coordinator | each way an exchange can end is retried or given up on as it should be |
| **Node identity** `config.rs` `node_identity` | the file `node-id` | read, draw, `create_new`, write, sync, reread | other start-ups on the state directory, the file system | one directory, one identity |
| **Retry delays** `worker.rs` | backoff, fetch delay, submit delay | double, cap, jitter, reset | the three loops | bounded above and below |
| **Vulkan backend** `vulkan.rs` | Vulkan objects, buffers kept between units, a mutex | `new`, `execute`, growth, error paths, `Drop` | device, Rayon pool | no leak, no use after the end, results of the right unit |
| **Lomb-Scargle kernel** `kernel.rs` | none | `validate`, `power`, winner selection, refinement window | backends | deterministic winner: greatest power, lowest index among equals |
| **Box period search** `box_period_search.rs` | per-frequency bins | binning, circular window, `select_better` | batch tasks | each window counted once and completely; deterministic winner |
| **Wire protocol** `protocol.rs` | none | `Dataset::series`, payload decoding, `WorkResult` constructors | everything | the result says what happened |
| **Backend selection** `backend.rs` | none | `initialize` | Vulkan backend | `vulkan` never falls back, `auto` may |
| **Configuration** `config.rs` | none | flags and environment, `validate` | everything | the bounds the rest relies on |

What is hard here: the stop signal races the claim loop's awaits; permits travel
from the loop into tasks nobody joins; batches share a download that may fail
and fall back; submissions are delivered late and more than once; processes and
hosts die between any two steps, in particular while `node-id` is written; the
GPU runs on its own, and any Vulkan call in the middle of an execution may fail.
The full list of hazards, each at its line with the properties that cover it, is
in `PROJECT.json`.

## Modules

```
CoordinatorClient      client.rs, as tables from the end of an exchange to a Result
  BatchTask            the spawned tasks and the coordinator's inbox
    Worker             claim loop, signal task, permits, crash, restart
      implements WorkLedger        (refinement, property KeepsLedger)
RetryDelays            the delays of all three retry loops, with u64 arithmetic
NodeIdentity           Config::node_identity over a file system that loses power
BackendSelection       choice of backend, device and queue family
  VulkanResources      the Vulkan objects and the device
Series                 Dataset::series, finiteness, the frequency grid
  LombKernel           one Lomb-Scargle execution, on the CPU or from the device's powers
  BoxPeriodSearch      one box period search
```

`BatchTask` sees a computation as one step with an outcome. `LombKernel` and
`BoxPeriodSearch` are what happens inside that step, and `VulkanResources` is
how `LombKernel`'s action `Device` comes by its powers: `Read` there is the
success of `Device` here, every failed Vulkan call its `Execution` error.

`MCBatchTask`, `MCWorker`, `MCNodeIdentity`, `MCVulkanResources`, `MCLombKernel`
and `MCBoxPeriodSearch` supply constants; `RetryDelays` is checked directly. `BatchTaskProofs`,
`WorkerProofs`, `WorkerLedgerProofs`, `RetryDelaysProofs`, `NodeIdentityProofs`,
`VulkanResourcesProofs`, `LombKernelProofs` and `BoxPeriodSearchProofs` hold the
theorems.

### CoordinatorClient

How an exchange can end is one of eight `Answers`; `DatasetReply` and
`SubmitReply` translate `Coordinator::dataset` and `submit_bytes` status by
status, `Transient` is `RequestError::transient`. Two details of the code show
up in properties elsewhere: a timeout inside a dataset's body becomes
`InvalidResponse` (never retried, reported as invalid input), and a status that
is neither 2xx, 4xx nor 5xx makes `submit_bytes` panic.

### BatchTask

`task[t]` is the state of a spawned task between two awaits: its batch, the
position in it, the stage (`shared`, `fetch`, `compute`, `submit`, `posted`),
the attempt, the dataset it holds, the time charged so far and the serialised
result. Each action is the code from one await to the next: `SharedFetch` and
`Fetch` are one attempt of `fetch_with_retry` with what `process_batch` or
`process_with_dataset` does next, `Compute` is `spawn_blocking` with its four
outcomes, `Post`, `SubmitRetry`, `SubmitSettled` and `SubmitPanics` are
`submit_with_retry`. `sent` is the network: bodies stay in it and may be
processed (`Receive`) any number of steps later, after the task is gone, and a
retry puts the same body in again; `received` is what the coordinator has
processed. `fate` is a history variable: what became of each unit.

A unit's payload is valid, unusable, missing, or `legacy`: absent with the grid
among the unit's own fields, which `lomb_payload` accepts and
`box_period_payload` does not (`PayloadOk`). `Completed` and `Failed` are the
constructors of `WorkResult`; of the payload they keep what depends on more than
the kernel's result, which is whether `cpuDurationSeconds` is there. `Backend` is
the backend the process computes on: only Vulkan executions can fail in the
device, and the box period search reports CPU time under either.

A duration is modelled by *what it contains*: the set of awaited activities
that elapsed since `started`. That is what the claim in `process_batch` about
charging the shared transfer is about; seconds would add nothing.

A unit is handed out at most once (`Spawn` takes units of fate `none`): what a
coordinator does with units it reassigns to this node later is its own affair.
`Strand` and `Abandon` are units whose claim answer never arrived. That a claim
returns distinct units, and no more than were asked for, is assumed of the
coordinator (`Batches`): the client does not check it.

### Worker

`loop` is where `Worker::run` is, `sender` where the signal task is, `permits`
the semaphore. `AcquirePermit` and `StopWhileAcquiring` are both enabled when a
permit is free and the stop was sent: `select!` is not `biased`. A spawned task
owns its permit; `RunTask` gives it back when the task ends *or unwinds*.
`Crash` ends the process at any point, `SenderLost` and `RegisterFails` are the
two ways `run` returns an error, `Restart` is systemd's `Restart=on-failure`.
`sleep_or_stop` returns early when the channel changes or closes; either way the
loop goes to its top, so `Wake` has one form. A spurious error of `ctrl_c()`
counts as a signal in the code and in `Signal`.

With a batch size above one, a permit stands for a batch: up to concurrency
times batch size units are held at a time, though the repository's README calls
`OPENSTAR_WORK_CONCURRENCY` "Simultaneously claimed units". The model keeps the
code's meaning.

### WorkLedger

What the worker promises the coordinator, without loops, permits or tasks: units
are taken while the door is open, at most one more claim is answered after a
stop, settled and lost units stay so, and the worker leaves empty-handed. The
refinement mapping in `Worker` derives the books from `fate` and the door from
`loop` and `sender`.

### RetryDelays

`ClaimFailed`, `ClaimEmpty` and `ClaimGotWork` update the claim loop's backoff;
an empty claim keeps it, as the code does. `Wrap` and `Saturate` are u64
addition, which a release build lets wrap, and `saturating_mul`. `DelayAssumption`
asks for what `Config::validate` does, which is no upper bound, and that 250 and 500
are small numbers. So the model contains the intervals for which a sum wraps, and
the properties say which sum, and when:

- a fetch's delay never overflows, since a call makes five attempts;
- `backoff + jitter` overflows only if five quarters of the larger of polling
  interval and maximum exceed 64 bits (`RoomForJitter`): the wait of a failed claim
  may then be next to nothing, over and over if it is the maximum that is so large;
- `delay * 2` in `submit_with_retry` overflows only if twice the maximum does
  (`RoomForDoubling`): after enough doublings the delay is 0 and stays there. With
  real numbers that takes longer than any process lives;
- the backoff itself saturates and never falls below its start or the maximum.

A debug build panics where `SumsFit` fails, in place of wrapping.

After a failed claim the wait is up to five quarters of the backoff,
so with the default of 30000 ms a retry may wait 37.5 s, and the first delays of
250 and 500 ms are not capped by a smaller maximum: `OPENSTAR_MAX_BACKOFF_MS` is
not quite the "Retry delay ceiling" the repository's README calls it.
`RetriesBounded` states the bounds that hold, a wrap included: it only shortens a wait.

### NodeIdentity

Start-ups go through `node_identity` one call at a time; any call may fail, any
start-up may end, and the host may lose power, which leaves in the file what was
synced, what was written or something in between. `OPENSTAR_NODE_ID` bypasses
all of this. A directory entry is taken to be durable once its file is: the code
syncs the file, not the directory.

### BackendSelection

`choose_queue`, `device_rank`, the stable sort and `initialize` as operators over
the devices of a host. `VulkanResources` uses them in `Initialise`, where
`VulkanBackend::new` may fail at any of its calls, and must fail after the first
when no device is usable.

### VulkanResources

`execute` under the mutex, one step per group of Vulkan calls that can fail, and
the device as an actor of its own (`Dispatch`) that runs a submission some time
after `Submit`. Objects are named after their slot and size, so the set `live`
shows a leak, and a descriptor that still refers to a buffer before its growth
differs from one that was updated. `buffer` and `create_resources` fail after
any prefix of their calls and destroy on their error paths what the code does, the
memory of a half-made buffer apart from the buffer. `data` says whose
coordinates, values and powers the buffers hold. `WaitErrors` are the two kinds
of errors `queue_wait_idle` can return: after a lost device nothing runs any
more and nothing can be submitted, short of memory the device goes on. In the second
case the buffers are put back for the next work unit while the device may still
use them. Nothing in the code prevents that, so no property covers this hazard:
`forgotten` records it, and `FreshResult` and `PendingIsLive` promise nothing afterwards.

### Series, LombKernel

A Float32 is an integer of at most `MaxFinite`, or `NonFinite`; sums and products
overflow to it. That is what `validate` is about, and it makes every early
return happen. What `power` and the shader return is drawn, independently of each
other: any function of the index, errors included. What remains is all of the
control: the collection on any number of threads in any order (`Evaluate`), the
scans of `select_winner` and `select_indexed_winner` one element a step (`Scan`),
the window (`RefinementRange`), and what becomes of the device's winner
(`Select`). `refine_winner` evaluates frequencies without the check that
`kernel::execute` makes; `GridUsable` says why it may.

### BoxPeriodSearch

Where a sample falls for a frequency is drawn as its phase, rounded up to 1.0
included, so every distribution of samples over bins occurs. `Open` and `Slide`
are the loops of `score_frequency`, `Reduce` the final reduction; frequencies are
scored in any order. Scores are compared exactly, by the square of
`contrast * sqrt(inside * outside / total)` with its sign, and are not there
when one of their factors overflows. The two unchecked `usize` additions wrap in
a release build and panic in a debug build (`Add`).

The properties count and add up the samples of a window directly, with exact sums
(`Inside`, `Windows`). Whether a Float32 sum overflows depends on the order of its
terms, so `WindowExact` says what `sum` is while it is finite, and `FrequencyBest`
is about samples of which no selection overflows (`NoOverflow`).

## Runs

| Run | Question | Bounds |
|---|---|---|
| `batch_mixed` | Are units dropped, done twice, computed from another unit's dataset, or their results changed between retries? | 2 tasks, 3 units (two share a download, one of them from before payloads, the other with an unusable one; the third has the same dataset id in another project), batches up to 3, all eight answers |
| `worker_safety` | Permits, the late claim, the drain, the ledger | 3 units, 3 task names, 2 permits, batches up to 2, crash and restart at will |
| `worker_live` | Does the individual path tell the truth; is every claimed unit settled; does a stop end the process with downloads, kernels and retries under way? | 2 box units that share a download, one with a payload this workload cannot use, 2 task names, 1 permit |
| `delays` | Bounds of the waits, and where a long outage ends | 24 configurations: poll below and above the maximum, the maximum below, between and above the first delays, intervals of half and four fifths of the word and of all of it |
| `identity` | Do overlapping, crashing, power-losing start-ups agree? | 3 start-ups, 4 ids |
| `vulkan_objects` | Leaks, stale descriptors, stale output, too small buffers; the right device and backend | 3 jobs: more output, more input, more of both; 4 hosts, 3 choices |
| `kernel` | Is the winner the right one, on both backends and in every order; does the refinement window reach as far as it should? | chunks of 1 to 6 frequencies, 3 powers, radius 1, 40 calls |
| `box` | Is every window counted completely; is the winner independent of the order? | 3 and 4 samples in 3 and 4 bins, 2 durations, 2 frequencies |
| `redirect_panic`, `identity_broken`, `identity_unsynced`, `software_device` | Each shows a statement of a doc or comment that the code does not keep; see below | as the passing run of their module |

Why these bounds are enough for the cases to happen:

- Three units and batches of up to three give shared batches whose first and
  later units differ, batches that only nearly share a dataset, and a single
  unit beside a batch. Tasks do not touch each other except through units and
  permits, so two running ones show every pair.
- `FetchAttempts` is 2 (1 in `worker_safety`, whose units need no dataset) in
  place of 5: the loop's first, repeated and last attempt occur. The proofs hold
  for every number.
- Two permits with three task names: a full house, one free, all free. There
  must be more names than permits, or the names would limit the tasks
  (`WorkerAssumption`).
- `lateClaims` is counted up to `MaxLate` = 2, one more than any property
  allows. It starts anew with every process.
- Delays are scaled: 2 and 4 in place of 250 and 500 ms, `Word` 64 in place of
  2^64. 51 is the largest interval with room for the jitter, 31 the largest that can
  be doubled, and 63 has room for neither. The proofs hold for the real numbers.
- Ids bound how many files may be created; an id is never drawn twice, as
  UUIDs are not.
- A chunk of five frequencies with `Radius` 1 in place of 128 has windows cut off
  at either end of the chunk, at none, and winners on the window's edge; chunks of
  one are cut off at both. Three powers give ties and strict orders. `MaxIndex`,
  `DeviceMax` and `MaxFinite` are small enough to be exceeded.
- In the box run, windows cross the end of the bins, the two durations give
  windows that differ in one call and coincide in another, so that equal keys but
  for the duration tie; one call's sums overflow, another's in one order of its samples only, and a third
  one's index does.
- The hosts have a better device that is compute-only, a worse one listed first, a
  device whose second family is the usable one, only a software device, and none.
- Symmetry is used for tasks, for units that are all alike, and for start-ups
  and ids, never in a run with a liveness property.

## Fairness

Safety runs use no fairness. The liveness runs assume weak fairness of each
task's internal steps, of the claim loop and of the installation of signal
handlers: Tokio polls every future that was woken, `reqwest` ends a request by
`OPENSTAR_REQUEST_TIMEOUT_SECS` at the latest, `sleep` ends, a kernel is a loop
over a finite grid. `submit_with_retry` has no bound on its attempts, so
`HeldSettles` and `StopExits` also need that the coordinator does not answer
every retry of one submission with a transient failure: strong fairness of the
definitive answer. This is an assumption about the coordinator, not a property
of the worker, and while it fails the worker hangs in its drain, as coded.
Signals, crashes, power losses and deliveries have no fairness. The fetch
retries need no such assumption: they end after `FetchAttempts`.

`OutageReachesCeiling` names its own conditions (claims keep failing, none
brings work) in place of fairness.

## What the passing runs show

- `UnitOwnership`: a held unit is the unfinished business of exactly one task.
- `StableBody`: all copies of a unit's result that exist are identical, as the
  comment on `submit_bytes` asks.
- `FaithfulResult`: a completed result comes from the unit's own dataset and a
  payload of its workload; units of a workload
  the worker registered are never refused, all others are (no unit of a run that checks it is
  of an unsupported workload: that clause rests on the proof);
  `cpuDurationSeconds` is there for CPU results only, as the repository's README says.
- `SharedTransferChargedOnce`: only the first result of a shared batch contains
  the shared transfer, and no result contains another unit's time.
- `HeldSettles`, `StopExits`: nothing keeps a unit or the process for ever.
- `PermitConservation`, `AtMostOneLateClaim`, `DrainedBeforeExit`,
  `KeepsLedger`: see Worker and WorkLedger.
- `RetriesBounded`, `SumsFit`, `NeverHot`, `OutageReachesCeiling`: waits are bounded
  above in every configuration, and below wherever no sum wraps, which is everywhere
  but in the configurations named under RetryDelays; no pattern of failures and empty
  claims keeps the backoff low.
- `Agreement`, `ReturnedIsStored`, `DurableForever`: until a power loss undoes a
  write all start-ups get one id and the file has it; an id that reached the
  disk is never replaced.
- `CpuExact`, `RefinedExact`: the winner is the lowest index of the greatest
  power, of the chunk on the CPU and of the window around the device's winner on
  Vulkan, and an execution fails exactly when it should.
- `AgreesWithCpu`: hence a result does not depend on the backend as long as the
  device's winner is within the radius. `EdgeReported`: when the diagnostic is
  silent, no neighbour of the refined winner is better.
- `GridUsable`: no frequency inside a validated grid is unusable.
- `WindowExact`, `FrequencyBest`, `ResultBest`: the window slid around the circle
  holds what a direct count finds; the best admissible window of all wins, the
  first of equal ones, and the index reported is that of its frequency. All three
  are statements in exact arithmetic (see Not modelled).
- `BackendAsPromised`: never a compute-only queue, never a device while a better
  kind is usable, and only `auto` falls back, only when Vulkan failed.
- `LiveIsOwned`, `BindingsFit`, `PendingIsLive`, `FreshResult`: Vulkan objects
  neither leak nor are used after their end whichever call fails; the device uses
  the current, large enough buffers, and none is destroyed while a submission
  refers to it; powers belong to the job that asked for them. The last two do not
  hold once a wait was given up while the device went on.

## Findings

- `redirect_panic`: a redirection that `reqwest` hands back (no `Location`, or
  304) makes `submit_bytes` panic; the task unwinds with the rest of its batch,
  and those units are never submitted although the process exits normally.
- `identity_broken`: an end between `create_new` and `write_all` leaves an empty
  `node-id`; every later start fails on it until somebody removes it.
- `identity_unsynced`: an id read from a file whose writer died before
  `sync_all` can vanish in a power loss after the worker registered with it.
- `software_device`: with `auto`, a software implementation or a virtual GPU is used
  when it is the only Vulkan device, where the repository's README promises the CPU.

Two more facts, without a run of their own. A claim may begin after the stop was
sent, as `select!` picks among ready branches at random; it is one at most
(`AtMostOneLateClaim`). And when `queue_wait_idle` fails for want of memory, the
buffers are put back while the device still uses them, though a comment says access
is serialized (see VulkanResources).

## Proofs

TLAPS checks the following for every value of the constants that satisfies the
named ASSUMEs (`BatchAssumption`, `WorkerAssumption`, `DelayAssumption`,
`IdentityAssumption`, `MachineAssumption`, `VulkanAssumption`, `FloatAssumption`,
`KernelAssumption`, `BoxAssumption`); nothing else is assumed. Each invariant that a
run checks is proved. Few are inductive as they stand, so each proof module defines a
strengthening at its head (checked by TLC before it was proved), shows with one lemma
per action that every step keeps it, and reads the properties off it.

- `BatchTypeCorrect`, `UnitsOwnedOnce`. Neither `TypeOK` nor `UnitOwnership` is
  inductive by itself: that a batch's units are distinct and that an idle task
  has no batch must be known as well. `IndInv` adds both; it rests on lemmas about
  `ProcessBatch`, `NextUnit` and `Submitting`, which say how a task's unfinished
  units change.
- `BodiesStable`, `ResultsFaithful`, `SharedChargedOnce`, from `ResultInv`. The three
  properties speak of the results POSTed so far; `ResultInv` adds what a task holds
  for those still to come. At each stage its dataset, body and span belong to the
  unit it is at, and the span has the shared transfer exactly at the batch's first
  unit. A result POSTed about a unit the task still has to settle is the body of its
  submission under way. No unit is in the batches of two tasks, and no result is about
  a unit that was not handed out.
- `WorkerImplementsBatch`: each step of the worker is a step of `BatchTask` or a
  stutter of its variables, which carries the results above over (`WorkerResults`).
- `WorkerTypeCorrect`, `PermitsConserved`, `OneLateClaim`, `ExitsDrained`, from
  `LoopInv`. It adds to the properties where the loop can be once a late claim
  was made (not before its `select!` again without the check), and that all
  permits are back, hence no task runs, once the drain is over. Cardinality of
  the active tasks is followed with FiniteSetTheorems.
- `WorkerKeepsLedger`: `Worker` implements `WorkLedger`; initial states map to
  the initial state, and each action to a ledger action or a stutter. The
  invariants above are what makes `Leave` and `Take` legal.
- `DelaysFit`, `DelaysBounded`, `DelaysNeverHot`, from `DelayInv`, which bounds the
  delays about to be slept as the properties bound the one slept last, that of a
  fetch by its attempts too (`Grown`). They hold for every configuration that
  `validate` accepts. The type invariant is a conjunct of `DelayInv` and no theorem of
  its own: with sums that wrap, a delay fits its 64 bits whatever the code does.
- `IdentityTypeCorrect`, `IdentityDurable`, `IdentityAgreement`, `IdentityStored`,
  from `FileInv` (a file without an id has at most one writer, who alone writes to
  it; a durable id is the file's) and `ReturnInv` (what was returned is what the
  file says).
- `ResourcesTypeCorrect`, `NoLeak`, `DeviceUsesCurrentBuffers`, `NoUseAfterFree`,
  `ResultsAreFresh`, `BackendChoiceKept`, from `ResourcesInv`. It adds that at most
  one set of resources is kept or under construction (`HoldersInv`), what the
  buffers hold and which submission may be under way at each stage (`FreshInv`),
  and that nothing is chosen before `VulkanBackend::new` (`ChoiceInv`). That the
  sorted device list begins with the best kind is a least-number argument.
- `KernelTypeCorrect`, `CpuResultExact`, `DeviceResultRefined`, `BackendsAgree`,
  `CutOffReported`, `GridAlwaysUsable`, from `KernelInv`: what was collected is what
  `power` returns, and the scan's best leads everything scanned. The rest follows
  from three lemmas: the window is the part of the chunk within the radius
  (`WindowExtent`), a grid's frequencies lie between its ends (`GridBetweenEnds`),
  and there is one winner (`WinnerUnique`).
- `BoxTypeCorrect`, `WindowsExact`, `FrequencyBestKept`, `BestResult`, from `BoxInv`:
  the best candidate so far is the best of the windows the loops are through with,
  and likewise for the frequencies reduced. Three groups of lemmas carry it. Sums
  are folds over sets: `ExactRecursion` and `SumRecursion` show them to be the
  recursion they stand for, `ExactUnion` and `SumExact` what this means for unions
  and overflow. `CircleStep` says which bin leaves a window that moves and which
  enters, around the end of the bins too. `AboveOrder`, `KeyOrder` and `KeepBest`
  say that `select_better` picks the first of a strict order, and `ScoreExists`
  that a window has a score when no sum overflows.

An induction over data is written as the choice of a least number or of a smallest
set among the counterexamples, by `WFMin`, since the induction theorems themselves
cannot be instantiated.

Only model-checked: the liveness properties (`HeldSettles`, `StopExits`,
`OutageReachesCeiling`), which are out of the prover's reach.

## Not modelled

- Float32 rounding: the value of `power`, the GLSL shader and how far its powers are
  from the CPU's, the rounding of phases and scores, and the error that
  `inside_sum` accumulates as it slides. Outcomes are drawn, or exact.
- The device's limits on buffer sizes and workgroup counts, which the code does not
  ask for.
- JSON layout, logging, command-line parsing, the build.
- The description of the host sent on registration, and an explicit node id.
- Panics under the Vulkan mutex: no code under it panics, so poisoning, which
  `execute` handles, does not occur.
- Within `VulkanBackend::new`, the calls between the objects it creates; `k` says how
  far it got.

## Plan

All components with state are modelled, and every invariant and action property that
a run checks is proved. What is left is to say more:

1. What `StopExits` and `HeldSettles` rest on can be proved as safety, though they
   cannot: that each internal step of a task lessens a measure of what it has left to
   do, submissions' retries aside.
2. The hazards without a property in `PROJECT.json` are places where the code has no
   behaviour to hold it to (a lost device, an empty claim during an outage); they are
   listed for whoever changes that code.
