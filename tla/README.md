# Formal models of the hybrid VMM + LRU serving stack

The repository is an overlay over vLLM that serves a large mixture-of-experts
model on four small GPUs. Three things keep the weights within reach: a device
cache of hot experts above host-mapped expert rows, an n-gram ("PLE") table that
lives on disk and is served by a CPU process, and prefetch of offloaded layers.
Around them the overlay changes the scheduler, the model runner and the choice
of CUDA graphs. All of it is concurrent or stateful, and most of it is silent
when it goes wrong: a wrong row or a stale buffer gives plausible text from
wrong weights. These modules model it, TLC checks small instances, and TLAPS
proves what matters most for every size.

## 1. The system

Paths are relative to `src/`.

| Part | State | Operations | Hard behaviour | What makes it correct | Here |
|---|---|---|---|---|---|
| Hot-expert layout (`compressed_tensors_moe_wna16.py` 1258-1366, 1201-1231) | permutation of expert rows, duplicated host region | boot of a layer | order of fill is a contract with every map | the permutation is a bijection, each map names a row with the right bytes | `HotLayout`, proved |
| Expert cache (same file, 139-273, 1022-1046, 1580-1794, 2251-2370) | `hot_map`, `rot_map`, `cold_map`, slots, ages, clock, miss buffers, rows | prefill batch, decode batch = update kernel + gathers + compute | evictions inside a batch, repeated ids, buffers reused, int32 clock | every expert computed from its own bytes; host copies survive; LRU | `HybridLru`, proved |
| PLE handshake (`v1/ple_offload/connector.py`, `worker.py`, `ple_offload_layer.py`) | ready/consumed flags, host buffers, a queue of one, CUDA events, streams | launch, claim, stage, compute, fan out, publish, copy | four kinds of actors without locks; dummy and captured forwards | a forward gets its own output; nothing hangs | `PleHandshake`, proved |
| PLE worker lifecycle (`worker.py` 169-322, 469-585, `connector.py` 491-517, `gpu_worker.py` 269-310) | process, pipes, registrations | spawn, register, READY, shutdown | death of either side, timeouts, signals | READY means all are registered; buffers outlive their users; no orphan | `PleLifecycle`, proved |
| PLE disk table (`ple-ext/nvfp4/worker.py` 532-608, 632-819; `scripts/ple-bf16-*.py`) | `.bin`, `.done.json`, page cache | attach, load, flush, mark, reuse; publish | kills, power failures, two writers, two tiers | what is marked done is whole | `PleDiskTable`, proved |
| PLE layer (`ple-ext/nvfp4/ple_layer.py` 360-490, 917-1364; `model_state.py` 68-100) | packed batch, contexts, rows of `conv_state` | n-grams of a ragged batch, short convolution in three ways | chunks, padding, rejected drafts, rows reused by others | each token's n-gram and window are the history of its request | `NgramIds`, `ShortConv`, `PleForward`, proved |
| CUDA graph dispatch (`cudagraph_utils.py`) | captured shapes, graphs, hidden-state buffer | choose shapes, capture, dispatch, replay | padding of decodes, metadata read where they were captured | a graph runs only batches it was captured for | `GraphDispatch`, `PleForward`, proved |
| Prefetch offloader (`model_executor/offloader/prefetch.py`, `cudagraph_utils.py` 357-425) | ring of buffers, two streams, events, flags | wait, run, start copy, capture, join, replay | asynchronous overwrites, events across captures | a layer reads its own weights | `PrefetchOffloader`, proved |
| Scheduler (`v1/core/sched/scheduler.py`) | queues, statuses, budgets, KV blocks, loads and stores | schedule, update, preempt, abort, reset, pause | outputs of steps scheduled earlier, deferred frees, failing loads | every request is served once and in order; no block leaks | `PrefillSplit`, `Scheduler` |
| Model runner (`model_runner.py`), engine loop | request slots, tokens computed | add, finish, execute, sample, dummy run | asynchronous batches | scheduler and GPU agree | `Engine`, `PleForward` |
| Mixed VMM allocation (`compressed_tensors_moe_wna16.py` 1048-1257) | one tensor's mappings | reserve, create, map, fill | - | - | not modelled, section 7 |
| Custom all-reduce, attention, QSA, quantisation kernels, model definition, weight files, scripts | - | - | numerical or in compiled code | - | not modelled, section 7 |

How they interact. The engine loop asks the scheduler for a step and dispatches
it to every rank; each rank's runner orders and pads the batch, chooses a CUDA
graph, prepares inputs, calls the PLE connector, and enqueues the forward (eager
or as a replay). Rank 0 of a group hands the step to the PLE worker, which gives
each token its n-gram and gathers rows from the table the boot has attached; the
layer's stream waits on a flag in host memory the worker raises. The forward
runs each MoE layer through the expert cache, whose kernels are enqueued on the
same stream. The outputs go back through the scheduler, one or two steps later.

## 2. Modules

| Module | Role |
|---|---|
| `HotLayout` | pure operators: ranking to permutation, row space, maps |
| `HybridLru` | one layer's cache on one rank; `IInv` is its inductive invariant |
| `ExpertService` | abstract: a batch is accepted, then answered from own bytes |
| `HybridLruRecency` | `HybridLru` with the history of uses, to state LRU |
| `PleHandshake` | model threads, request threads, CPU worker and streams |
| `PleService` | abstract: a group asks, its layers are answered in order, ranks are given them |
| `PleLifecycle` | the CPU worker as a process, from spawn to shutdown |
| `PleDiskTable` | boots, the assembly script, kills and power failures over one file and its marker |
| `PrefetchOffloader` | host, compute stream, copy stream, and the two streams of a graph |
| `PrefillSplit` | pure operators: where a chunk of a prefill ends |
| `Scheduler` | the scheduler's state and each of its entry points |
| `Engine` | `Scheduler` composed with the loop, the runner, a KV connector and clients |
| `NgramIds`, `ShortConv`, `GraphDispatch` | pure operators: n-grams of a packed batch, the convolution's cache, shapes and their choice |
| `PleForward` | the three composed: the runner's forwards as a PLE layer sees them |
| `HybridLruProofs`, `PleHandshakeProofs`, `PleLifecycleProofs`, `PleDiskTableProofs`, `PrefetchOffloaderProofs` | theorems about the module of the same name (the first also about `HotLayout`) |
| `EngineProofs` | theorems about `Engine` with its `Scheduler`, and about `PrefillSplit` |
| `EngineRunnerProofs` | theorems about what the runner holds and the scheduler counts of a request |
| `PleForwardProofs` | theorems about `NgramIds`, `ShortConv`, `GraphDispatch` and their composition in `PleForward` |
| `MC*` | small instances |

`PrefetchOffloader` and `PleLifecycle` are instantiated by their configurations
without an MC module. `PROJECT.json` gives the source lines of each definition.

### HybridLru

State has the tensors' names. The rows of a tensor are named by the local id
whose bytes they hold, so "wrong weights" is visible as a wrong id. The update
kernel is one Triton program with an unrolled loop: one action per iteration
(`RequestNothing`, `RequestHit`, `RequestMiss`) and `UpdateDone` for the final
stores. Its registers `slot_global_ids` and `slot_ages` are modelled in place,
since nothing reads the tensors before they are stored. The load of
`cache_map` is not ordered after other lanes' stores to it, so a load returns
the value at launch or the current one (`CacheSlot`). A gather is one action per
tensor; two misses that name one slot leave either row (`Gathered`). `apply()`
is `RoutePlain`/`ApplyPlain` for prefill and `RouteDecode` ... `ApplyDecode` for
decode. `torch.empty` leaves the miss buffers undefined; they start with 0,
which would name a real slot, the harmful case.

Bounds: up to `MaxBatch` tokens in a batch (`TopK` = 1 id each) and a clock that
stops at `ClockLimit`. All ids of a batch are chosen freely among global ids
and -1. `CacheSize` is 3, but the two rankings name two local experts and one, so
the layers have two slots or one (`N`) for four local experts: a batch can hit,
miss and evict at once, and two batches force an eviction; more tokens than
`MaxTokens` take the plain path. The clock stays below the wrap.

Not modelled: the static, staging and non-hybrid arms of `apply()`, the tensors'
quantisation, EPLB (rejected by the code with this cache).

### PleHandshake

Per rank a model thread (`BeginReal`, `ClaimSeen`, `ClaimTimeout`, `LaunchReal`,
`BeginDummy`, `SignalDummy`, `LaunchDummy`) and a stream that executes, in
order, what the thread enqueued; per group a request thread; one worker. Each
store to a flag is a step. Buffers that are filled over time (staging copy,
output) are `Torn` between their first and last step, so a reader in between is
seen. A group runs a *plan*, a sequence of `capture`, `dummy` and `real` steps.

Taken from how the code in `src/` uses vLLM: the engine waits for a real step's
output before it dispatches the next (`MaxConcurrentBatches = 1`; 2 under
asynchronous scheduling), nobody waits for a dummy run, all ranks leave their
captures before real steps, capture synchronises the device, and a forward ends
with a collective that every rank of the group reaches. `clamp_min_` is taken as
applied, as it is under speculative decoding, which the shipped configuration
uses. Registration and shutdown are in `PleLifecycle`; the CPU-input path of the
older runner is not modelled. With two batches under way (`ASYNC_SCHED=1` in
`scripts/serve-container.sh`) the queue of one entry does not suffice; the runs
have one, the script's default. Two dummy runs in a row with no
device synchronisation between them, as the warm-up of several sizes at
`gpu_worker.py:852` makes them, may leave the second waiting for ever (section 3);
the plans of the runs have a capture, which synchronises, behind each dummy run.

`PleService` is what the model sees of it: no threads, flags or buffers, one
service per group that is asked for a real step when all before it was given,
answers its layers in order, and gives each rank each layer of each forward once,
in order. `ServesForwards` maps the handshake to it: a group has asked for what
its event recorded, a layer is answered when it is not *owed* (`Owed`: the
request is in front of the worker, in its batch, or being computed), and a rank
was given what its stream copied last.

Bounds: the plans. `BootThenServe` has two warm-up and capture pairs and three
real steps: three is the first length at which a step can disturb the one
before and meet the leftovers of the one before that. Three ranks exercise the
fan-out loop, two layers the layer-first order, two groups the worker's batches.
The two groups have one rank each: a worker that waits for one group while ranks of
another meet in a collective is in no run (two groups of two ranks with two layers
have more than a million states).

### PleLifecycle

Rank 0's GPU worker spawns the child and holds two pipes to it; each rank's
connector registers, then pins its buffers; rank 0 waits for READY. Each call
that may block is a place of its own where the process can be killed, time out
or take a signal. Stopping (`close()`, handle, runner) is a sequence of steps in
the code's order. The handshake is reduced to one layer and a flag per rank.

Bounds: two GPU workers, since one that registers and one that does not is the
case; two forwards, so that `close()` may meet the request thread with a request
still in the queue, in its hands or on its way to the child, and with one behind
it. One data-parallel group. The branch that would
accept something else than a registration is left out: `OnlyRegistrations` shows
that it is never reached. `NoUseAfterRelease` is about the two users `close()`
answers for, the rank's request thread and its stream. The child is not among
them: the memory is shared, it may go on reading and writing it after the rank has
unregistered its buffers, and `close()` waits for the device, not for the child.

What the model shows and nothing promises: a child blocked in
`accept_registrations` when rank 0 is killed before the last registration stays
behind (`worker.py:480`); under `fork` the child inherits the write end of the
death pipe, so its monitor never fires; shutdown stops the child before it waits
for the device, so a forward still waiting for its output never ends
(`gpu_worker.py:1511`) and the executor has to kill the process.

### PleDiskTable

The page cache (`dir`, `data`) is what processes see, the stable image (`sdir`,
`sdata`) what a power failure leaves. Names reach the disk in order, pages in any
order, text of the marker later than its name. A *tier* stands for shape, dtype
and size together, since the two shipped tiers differ in all of them. The
assembly script's test for the target and its rename are two steps, and so are a
boot's test of the size (`Proceed`) and its removal of a stale marker (`Unlink`).
`owed` is a history variable: what was published without a flush is not promised
to survive a power failure. `Offers` are the sets of shards a checkpoint directory
may hold: all of them in the runs, since with fewer a boot finishes a table with
rows missing (section 3). Boots with the dummy loader are not modelled.

### PrefetchOffloader

`program[s]` is all that was enqueued on stream `s`, `ran[s]` how much of it has
finished; an event is a position. Capture writes to the two graph programs, and
a replay runs them as one operation of the compute stream. Reads and copies have
a beginning and an end; a buffer being copied holds no layer. One graph is kept
(the last captured), one parameter stands for a layer's parameters of one name
and shape, and full graphs only: piecewise graphs are not modelled.

Bounds: a pool of two buffers and one, two or four layers, the numbers that are
not above the pool or a multiple of it. With three the ring turns over a layer
that has not run (section 3). The code rejects no such number; the shipped script
does not use this offloader at all (`--offload-backend uva`).

### PrefillSplit, Scheduler, Engine

`PrefillSplit` holds the arithmetic of `_mamba_block_aligned_split` and of the
lookahead reserve. `Scheduler` has the state of the class and, as actions, its
entry points: a pass of `schedule()` in steps (`StartSchedule`, one `SchedulePass`
per request looked at, `FinishSchedule`), `UpdateFromOutput`, `AddRequest`,
`FinishRequests`, `ResetPrefixCache`, `SetPauseState`, the session updates and
the compiled grammar. A block is a number, a token a position; what is sampled
is nondeterministic. `Engine` adds the loop (`Schedule`, `Pass`, `Emit`,
`Process`) with one or two batches in flight, the runner's slots, the connector
(`LoadDone`, `StoreDone`), clients and the operator. A request's blocks are its
own: hits of the prefix cache, which share them, are not modelled.

Bounds (`MC*`, cfg): two requests, five or six blocks, `MaxModelLen` 7, a budget
of 3 or 4 tokens, one draft (two in `engine_session`), one update per session and
`Trouble` interferences. Two requests whose texts do not fit together make each
preempt the other; a budget below the longer prompt makes it chunk; blocks of two
tokens make chunks end at, before and after a boundary.

Seen while modelling, and left as notes. A session between two inputs keeps its
blocks and nothing preempts it, so another request may wait for ever: `Served`
excepts this (`SessionPins`). The growth of a session over `max_model_len` is not
checked by the scheduler. Asynchronous scheduling together with resumable sessions
keeps neither `RunnerAgrees` nor `OneQueue`: a session that is preempted while its
last output is in flight is put back by `_handle_stopped_request` and then taken
out again with the late stops (`scheduler.py:2063`), which `UpdateFromOutput` does
too (section 3); in the runs sessions have one batch in flight.
The subclass `AsyncScheduler` is not part of the repository and is modelled from
the hooks and fields of its base class. With two
batches the clause of `MustWait` on stale output is not reachable. A block of 16,
a budget of 16 and a lookahead of 3 leave nothing of the second chunk of a
33-token prompt (`SplitProgress` states what is enough). The reservation of a
retried load counts the request itself (`scheduler.py:1056`, 2748), which delays
it and no more. `_update_requests_with_invalid_blocks` assumes one KV group. A
session that goes on holds a slot above `max_num_seqs` until it is scheduled
(`SlotsSuffice` names the exception).

### NgramIds, ShortConv, GraphDispatch, PleForward

The pure modules translate the tensor code index by index: `NgramIds` the
`searchsorted`, clamp and scatter of the packed batch and the shifts behind an
end-of-sequence token; `ShortConv` the three paths of the convolution, whose
output for a token is the window its taps may read; `GraphDispatch` the tables of
`CudaGraphManager` and the choice. `PleForward` has the state between forwards
(texts, computed and accepted tokens, rows of `conv_state`, captured graphs, the
metadata a full graph reads) and the actions `CaptureGraph`, `CaptureDone`,
`Add`, `Finish`, `Step` and `DummyRun`. The input of the convolution at a
position stands for itself as the request and its text so far, so that a window
of another request, of a rejected draft or of padding is seen.

External, from how the code uses them: the scheduler's choice of work and the
metadata builder of the short convolution. The builder is taken to treat, in a
batch with drafts, every request past its prompt as one that verifies drafts, and
the leading one-token rows of the others as decodes. A batch without drafts is
scheduled only after a step that accepted none, as `_short_conv_dilated_decode_batched`
reads its state at offset 0 (`ple_layer.py:951`): an assumption about the builder
outside the repository. The lowest free identifier and row are taken, since
others look alike, and the row of a finished request holds inputs of nobody.

Two things are left out. `Add` starts every request at 0 computed tokens, whereas
`add_requests` (`model_runner.py:1013`) takes the scheduler's
`num_computed_tokens`, which is larger for a session that goes on or a hit in the
prefix cache; what its row of the cache holds then depends on the allocation of
rows, which is outside the repository. And `Step` has no `preprocess_state`
(`model_runner.py:1541`), which in the "align" mode of the state's cache moves a
request's recurrent state over block boundaries; its body is outside the
repository too, and a request here keeps one row for its life. The properties of
`PleForward` therefore say nothing of such requests and of that mode.

Bounds: two requests, prompts of up to three tokens, texts of up to seven (six
together for two), two drafts, n-grams of three tokens, a state of two inputs. A
text so passes through two chunks and two verifications, each of which may
reject none, some or all drafts. The three settings give a batch a decode graph,
a piecewise one, none, a size that must be rounded up, and padding by whole
requests and by tokens. A batch has at most `MaxWidth` = 7 tokens, one more than
the largest graph holds.

`Consistent` is what the code takes from vLLM's configuration: the largest capture
size is a capture size and no larger than a batch, and separate decode graphs are
full ones with piecewise graphs or none beside them (`FULL_DECODE_ONLY`,
`FULL_AND_PIECEWISE`).

Where sizes are not multiples of the decode length, a token count may have only
decode shapes as candidates, and a mixed batch of that size runs without a graph
(`BatchesFindAGraph` says when not). Numbers of adapters above the largest
captured one fall back to it. `sort_batch_req_ids` puts a chunk of exactly the
decode length before one-token rows, and relies on the builder for it.

## 3. What the runs check

| Run | Instance | Question |
|---|---|---|
| `hybrid_lru` | layers of 2 slots and of 1, 4 local experts and a remote one, 2 tensors, up to 3 requests | `IInv`, `BatchResident`; `ServesOwnBytes`: the cache implements `ExpertService`, and each batch is answered; `EvictsLeastRecent` against a true history |
| `ple_tp` | 1 group of 3 ranks, 2 layers, boot and 3 steps, timeouts | `ServesForwards`: the handshake implements `PleService`; `InputsStable`, `NothingSkipped`, `QueueNeverFull`, `ConsumedBeforeLaunch`, `EveryForwardEnds` |
| `ple_dp` | 2 groups of 1 rank, 2 layers | `OwnResult`, `EveryForwardEnds` with the worker's batches: order, duplicates, waiting on each other |
| `lifecycle` | 2 GPU workers, spawn and fork, 2 forwards, kills, timeouts, signals | `NoUseAfterRelease`, `OnlyRegistrations`, `DeathEndsWait`, `ChildEnds` |
| `disk_table` | 2 tiers, 2 shards, everything may fail | `IInv`, `DoneMeansWhole`, `FinishedIsFinal` |
| `disk_torn_marker` | kills only | violation: an empty marker stops every later boot |
| `disk_clobber` | one tier, the script | violation: an assembled table is overwritten |
| `prefetch` | 1, 2 or 4 layers over 2 buffers, 6 forwards | `ReadsOwnWeights`, `WaitsWithinCapture`, `CaptureJoined` |
| `engine` | 2 requests, 5 blocks, drafts, sessions, grammar; 1 or 2 in flight | `OneQueue`, `RunnerAgrees`, `StepFits`, `SlotsSuffice`, `InOrder`, `Served` |
| `engine_kv` | 2 requests, 6 blocks, a KV connector that fails or delays | `BlocksPartitioned`, `LoadsUndisturbed`, `BlocksReturn` |
| `engine_session` | a session with two drafts | violation: the scheduler's assertion fails |
| `ple_forward` | 2 requests, 3 settings of graphs and offload | `WindowsAreHistory`, `GramsAreHistory`, `NothingFails` |

Deadlock checking is off where the system may stop: plans and forwards are
finite, a boot may end, requests may be over. In `hybrid_lru` and `ple_forward`
it is on.

Definitions whose name ends in a suffix and whose comment says *mutant*, or that
stand just before the definition they vary, are plausible mistakes; put in place
of that definition they make the property listed in `PROJECT.json` fail. They
show that the properties can.

Where model and code part from a document. The three violation runs are real
disagreements, quoted in `PROJECT.json`. The torn marker and the overwritten
table need a process to stop in a short window; the session needs an input
shorter than the accepted drafts behind its stop token.

Five more assumptions of the runs can be dropped by changing constants, and TLC
then finds a property violated by what the code does. They have no run of their
own:

| Configuration, changed | Property that fails | Why |
|---|---|---|
| `HybridLru.cfg`, `MaxTokens = 1`, `MaxBatch = 1`, `HalfInt = 6`, `ClockLimit = 8` | `EvictsLeastRecent` | the clock wraps, ages turn negative and the slot used last looks oldest (`compressed_tensors_moe_wna16.py:199`); the code's clock does so after 2^31 requests of a layer |
| `PleHandshakeTp.cfg`, `TpSize = 2`, `MayTimeout = FALSE`, `Plans <- WarmUpSizes` | `EveryForwardEnds` | the stream's reset of the first dummy run takes away the flag the host raised for the second (`connector.py:486`) |
| `PleDiskTable.cfg`, `Offers <- AnyShards` | `DoneMeansWhole` | one shard counts as the whole parameter (`ple_layer.py:602`), and the boot marks a table with rows of zeros |
| `PrefetchOffloader.cfg`, `Counts = {3}` | `ReadsOwnWeights` | the copy for the next forward takes the buffer of a layer that has not run (`prefetch.py:228`) |
| `Engine.cfg`, `NumSpec = 0`, `Confs <- AsyncConfs` | `OneQueue` | a session stopped by a late output is put back into a queue and taken out again (`scheduler.py:2063`) |

## 4. Fairness

* `HybridLru`: weak fairness of every step but the arrival of a batch. A stream
  runs what is launched; nobody owes the layer a batch.
* `PleHandshake`: weak fairness per model thread, stream, request thread and for
  the worker: each is a loop of its own that the operating system or the device
  keeps running. No fairness for a timeout: a hang is not excused by one.
* `PleLifecycle`: weak fairness of each rank's main thread and stream copy, of
  the request thread, the child and its monitor. Kills, signals, timeouts and
  failures are never owed.
* `Engine`: the loop keeps stepping while it has requests (`LoopIsFair`: weak
  fairness of `Loop`, with its ENABLED written out); a pause is lifted, grammars
  compile, transfers end, a session gets its next input or its end. Aborts,
  resets, pauses and new requests are never owed.
* `PleDiskTable`, `PrefetchOffloader` and `PleForward` state safety only.

## 5. What is proved

### The expert cache

With `HotLayout`'s and `HybridLru`'s assumptions (sizes are naturals, the expert
map is injective on local experts) and no bound on anything but the clock:

* `LayoutIsBijection`: hot experts in ranking order, then the others by id, is
  a bijection. The heart is that the number of kept positions before a kept
  position identifies it.
* `TypeCorrect`: `Spec => []TypeOK`, however far the clock wraps.
* `CacheIsCoherent`: `Spec => []IInv` when `ClockLimit <= Sentinel`.
* `BatchStaysResident`: from it, `BatchResident`.
* `ImplementsService`: initial states and steps of the cache are those of
  `ExpertService` under the mapping at the end of `HybridLru`.
* `EvictionIsLeastRecent`: `RecencySpec => EvictsLeastRecent` when
  `ClockLimit <= Sentinel`, over histories of any length. Its invariant
  (`AgesFollowUses`) says that a slot whose age is no higher was used no later:
  a request makes its slot the newest and the latest used at once (`NewestAge`),
  and a repeated id whose stale load renews nothing was used by this batch already.
  A miss takes the lowest age among unprotected slots (`OldestIsVictim`).

`IInv == TypeOK /\ CacheInv /\ KernelInv`. `CacheInv` is what one wants
(`HostCopies`, `SlotsMirrorMap`, `OneLocation`, `BatchResident`, `SlotBytes`).
It is not inductive alone: a miss must find a slot it may reuse. `KernelInv` adds
that a batch in the kernel fits the slots, that a stale load concerns only a
repeated id, and that ages lag the clock. Then a pigeonhole argument gives an
unprotected slot (`UnprotectedSlot`: fewer protected slots than requests), whose
age is below the sentinel, so that argmin returns an unprotected one
(`VictimUnprotected`). The assumption on the clock is needed: at age 0x7FFFFFFF
an unprotected slot ties with the protected ones and argmin takes the first.

### The disk table

For any set of shards and of tiers, with publication, kills, failed flushes and
power failures allowed or not, and assuming `WholeCheckpoints` (each checkpoint
directory holds every shard):

* `DiskTypeCorrect`: `Spec => []TypeOK`, without that assumption.
* `MarkerIsCoherent`: `Spec => []IInv`.
* `MarkedIsWhole`, `FinishedStays`: `DoneMeansWhole` and `FinishedIsFinal`.

The code does not check what `WholeCheckpoints` says. Without it `DoneMeansWhole`,
and `IInv` of which it is a part, are false: one shard is enough for a boot to mark
its table (section 3).

`DoneMeansWhole` says what a marker promises; it is kept only because of who may
be at work. `BootInv` follows a boot: what is missing from the table it maps is
what it has left to read, and a boot whose file was replaced maps an orphan
while the name has a whole table. `ScriptInv` closes the window between unlink
and truncate, in which the script may rename its table in: either that table has
the size this boot wants, and keeps its rows, or no marker can name this boot's
tier. `StableInv` relates the page cache to the disk as long as everything marked
was flushed: the journal can carry a marker to the disk only after the rows.

### The handshake

For any number of groups, ranks and PLE layers:

* `TypeCorrect`: `Spec => []TypeOK`, for any plans and any number of batches under
  way.
* `OwnResultCorrect`, `InputsStableCorrect`, `NothingSkippedCorrect`,
  `QueueNeverFullCorrect` and `ConsumedBeforeLaunchCorrect`: the five safety
  properties of `ple_tp` and `ple_dp`, assuming `Setting`: a dummy run is last or followed by
  a capture, and one batch is under way at a time. Warm-up is such a dummy run
  and the shipped configuration has no asynchronous scheduling. Plans of any
  length, any progress of threads, worker and streams, and ranks that give up
  waiting are included. Without `Setting` the model shows what goes wrong
  (sections 2 and 3).
* `ImplementsService`: `Spec => ServesForwards` under the same assumption; every
  step is a step of `PleService` or a stutter.

`InvariantHolds`: `Spec => []Inv` under the same assumption. No two of the actors
share a lock, so `Inv` has to say where everything is while all of them move.

* `Orders`: a stream holds, in the order of their execution, what is left of the
  forwards that were enqueued, so that what has run and what is to come is known
  from what is on it. Rank 0 records a real step when it begins it; while that
  step is served every rank is at it or just past it, and a forward that is over
  on one rank has only its end left on the others.
* `FrontInv`: a group is *served* from the moment rank 0 records a real step until
  the forward of that step ends on its stream. Only while it is may its request
  be in front of the worker (queue, request thread, socket), in one of these
  places, and each says what the event and the input buffers hold.
* `WorkerInv`: of each request in the batch that has a layer left, its group is
  served, nothing of the group is in front, and the inputs are staged and clamped;
  nothing is skipped.
* `SlotInv`: the slot of a rank and layer, its two flags and its host buffer, is
  *free* (consumed, not launched), *taken* by the worker (both flags down), or
  *given* with the right output in it. Which of the three follows from how far
  the worker is in its batch; how far a given slot is used follows from what is
  left on that rank's stream.
* `DummyInv`: the buffers a dummy forward is going to copy hold zeros.

`OwnResult` follows with a lemma of its own: when a copy is the first operation of
a stream, its slot has been given (`CopyTakesOwn`). A free slot may still be ready
from the time before, so the worker must lower `ready` before `consumed`: the
rank launches as soon as it sees the latter, and its stream waits for the former.
Between the two stores the slot is free and not ready, which `Free` says.

The refinement needs a second invariant, on top of `Inv`, that relates what a rank
was given last to what is left on its stream. `CopyInv`: the copies of a layer
still on the stream are those of the forwards behind the last one given
(`CopiedOf`), and a forward is whole as long as something is in front of it
(`WholeOf`). From it, a copy at the head of a stream is of the next forward and of
the layer behind the last one given (`CopyIsNext`); when rank 0 begins a real
step no rank has a copy of an earlier one left, because a real one is over and a
warm-up was synchronised by its capture (`BeginIsNext`). Three kinds of steps are
visible: rank 0 begins a real step (`BeginAsks`), the worker ends a computation
(`ComputeAnswers`), a stream copies (`CopyGives`). All others, the drains of the
worker and its moves from group to group and layer to layer among them, leave
every layer owed as it was.

### The worker's life

For any number of ranks and of forwards, whatever dies, times out or is signalled:

* `NothingUsesReleasedBuffers`: `Spec => []NoUseAfterRelease`, about the request
  thread and the stream of a rank, not about the child (section 2). A rank on its
  way to its registration has no buffers and no request thread, what is released
  is released after the thread's end (`ReleasedForGood`), and it is only with the
  device idle, after which the rank launches nothing, that `close()` goes on to
  release (`StreamsDrain`).
* `RegistrationsComeFirst`: `Spec => []OnlyRegistrations`. As long as the child
  is not ready nobody serves, so nothing but stop messages is queued
  (`ServesWhenReady`).

### The prefetch ring

For any pool, any number of forwards, captures and replays, and any progress of
the streams:

* `TypeCorrect`, `WaitsStayWithinTheCapture`, `CapturesAreJoined`: `TypeOK`,
  `WaitsWithinCapture` and `CaptureJoined`, for any numbers of layers.
* `LayersReadTheirOwnWeights`: `Spec => (Rotates => []ReadsOwnWeights)`, where
  `Rotates` says that a number of layers is not above the pool or is a multiple of
  it. The code does not check that, and with other numbers the property is false
  (section 3): the theorem says for which settings the ring is right.

The argument has a host's and a device's part. `HostInv` says of the programs,
as sequences, that they are right however the streams progress (`Sound`): of two
operations on one slot, a use and a copy, one waits for the other (`Ordered`),
and the last copy into the slot before a use is of the layer that is used
(`Own`). To append to a program the host must know which copy is the latest in
each slot of the `Window` of layers ahead, and that the flags and events of those
layers lead a wait to it (`EagerSlots`, `GraphSlots`, `AboutToRead`); the ring
lemmas say that the window moves without a collision, which is where `Rotates` is
needed. `DeviceInv` says that every wait that was passed holds (`Passed`), and
that a slot holds what its last finished copy put there unless another has
started (`Loaded`). A graph leaves in each slot the layer it found, so that a
replay hands the eager streams what a forward would.

### The queues of the scheduler

`OneQueueCorrect`: `Spec => []OneQueue`, for every finite set of requests
(`ReqsAssumption`), any limits and any interference, assuming `SessionsAlone`: where
there are sessions, one batch is in flight and there is no KV connector. Requests
that are no sessions may have two batches and a connector. The assumption is where
the code needs it: a session that was preempted before a late output stopped it
ends in no queue (section 3), so without it the theorem would be false
of `update_from_output()`. The proof uses it there only: a request taken out with
the late stops is no session, hence over. `OneQueue` counts occurrences in the concatenated queues; its inductive form,
`QueueInv`, says of each queue that it lists a set (`Lists`: those members, each
once) and of the sets that they split the requests by status (`Places`). It needs
more than the queues:

* a session that waits for input has no update left (`RequestInv`): otherwise the
  late output of a step could take it out of `skipped` a second time;
* the items of the step being built are running requests, each once, and during
  the running pass none that is still to come (`PassInv`): `PreemptLast` takes the
  last one, which therefore is not in the step;
* a result in flight names a request that was scheduled once, so neither a new one
  nor one that waits for its grammar, and no request twice; a store that ended
  belongs to a request that is over; both stay true whatever happens to the request
  before the output is applied (`FlightInv`, kept by every step that only moves
  requests on, `Onward`);
* a request recorded as a failed compilation still is one or is over
  (`GrammarInv`), so the loop that fails these requests touches none that the same
  output stopped.

`QueuesKept` has one lemma per action (`...Keeps`). The longest is `UpdateKeeps`,
for `update_from_output()`: the requests it stops, those it fails and those it
releases are told apart first, then each queue is shown to lose and gain exactly
its own. `WithinIs` says that filtering a queue keeps the order's set and
repetition-freedom; it rests on the numbering of a finite set of positions.

### The slots of the runner

`SlotsSufficeCorrect`: `Spec => []SlotsSuffice`, for every finite set of requests
and any limits, assuming `SessionsAlone`. The `engine` run keeps to this, and it is
needed here too: with two batches in flight a session that went on can be stopped again by
output that was on its way, and then counts as a paused one without having passed
the guard of the admission loop. That a session with a slot is never
taken for a load, which only a request without computed tokens is, would need the
arithmetic of the counters; `SessionsAlone` leaves the two apart instead.

The invariant is `SlotInv`, next to `QueueInv`. `CapInv` counts requests that run
or pause: the guard of the admission loop reads `len(running)` and a counter, which
`ActiveAre` shows to be that number. `HoldInv` is about the slots: one that the next
step does not release is that of a request that runs or pauses, or of a session
that goes on; and a request that runs has its slot or is new in the step being put
together. `SyncInv` says that with one batch in flight nothing preempts a request
between its step and the output. Every step but an admission and the emission of
the step is then shown to be one that starts no request and loses no release
(`Moved`), which is all that `MovedKeepsSlots` needs.

### The KV blocks

`BlocksPartitionedCorrect` and `LoadsUndisturbedCorrect`: `Spec =>
[]BlocksPartitioned` and `Spec => []LoadsUndisturbed`, for every finite set of
requests, any limits (`LimitsAssumption`: they are numbers, a block holds a token,
and a prompt fits `max_model_len`, which the frontend checks), any settings
(`ConfsAssumption`: one or two batches in flight) and `SessionsAlone`.

The deferred free is the hard part. With a connector and two batches in flight a
request can lose its blocks while a step that writes them is still in flight; the
blocks then wait in `deferred_frees` until the output of that step is applied,
because whoever gets them next may have them filled by a background load that is
not ordered after the step. `FullInv` says why that is enough:

* `WriteInv`: a block that a step in flight writes is one of a running or finished
  request that is not loading, or waits in a deferred free whose fence lies at or
  behind that step. With one batch in flight, where nothing is deferred, it is of
  no request that loads.
* `FenceInv`: the counter of steps ahead is the number of steps in flight that have
  results, and the last step of a request (`lastSeq`) is not before any of those in
  flight it is in. Fences are relative in the model, so that the output of a step
  lowers them together with the counter.
* `TransferInv`: where the load and the store of a request are - in the step being
  put together, with the connector, or on the way back in an output - and that they
  are in one place only. A load keeps its request in "remote" or, aborted, in
  "finished"; a request that loads does not store.
* `ShareInv`: the tokens in flight of a request are those of the results, and while
  it does not run all of them are stale, dropped if it loads. Hence a late output
  neither ends nor delivers to a request that loads, which would release blocks
  under the load.
* `Apart` with `PoolInv` and `NumInv`: a block is in the free list, in one deferred
  free or of one request, each once.

From `Apart`, `BlocksPartitioned` follows; with `WriteInv`, `LoadsUndisturbed`: the
written block is another's or deferred, so not the loading request's. Most steps
are `Calm`: they move blocks of one request (`Placed`), send out no step and end no
transfer, and `CalmKeeps` does these at once. The step that goes out (`EmitBlocks`)
and the output that is applied (`ProcessBlocks`) stand alone; for the latter,
`UpdateIs` says once what `update_from_output()` makes of requests and pool
(`Outcome`), so that the parts of the invariant need not look at it again. All parts
but `PoolInv`, which quantifies over all sequences, were evaluated by TLC on the
states of `engine` and `engine_kv` before they were proved.

### The runner and the scheduler

`RunnerAgreesCorrect` and `InOrderCorrect`: `Spec => []RunnerAgrees` and `Spec =>
InOrder`, for every finite set of requests, any limits and number of drafts, and
`SessionsAlone`. The scheduler counts the tokens of a batch as computed when it sends
the batch out, and takes back what its output rejects; the runner advances its slot
as it runs the batch. The two therefore agree only once the outputs in flight are
counted, and preemption, reset and failed loads may make any of these stale.

`RunInv` says this of one request at a time (`RunFor`), with the at most two results
in flight written out:

* `RunsRight`, of a running request: its computed tokens, length and placeholders are
  those of its slot plus the rejections and tokens of the results (`Agrees`), the
  first left out while it is stale (`Valid`); the slot is before the end of its
  prefill, where nothing is sampled, or one token ahead of what it computed
  (`SlotIs`); no drafts are pending before that (`DraftsAre`); each result was sampled
  where the tokens will then end (`Follows`). A request that is new in the step being
  put together has no such slot yet, so no result in flight may count for it.
* `IdlesRight`, of a request that waits: no placeholders, no drafts, and a result in
  flight either follows its tokens or is dropped; with one batch in flight there is
  none.
* `ItemsFit`: an item of the step is a chunk of a prefill, or the last token with its
  drafts (`Fitting`); so what the runner samples is what the scheduler expects.

`RunKept` has one lemma per action again. An emission moves tokens from the item to
the slot and the result at once (`Emit`); the output of a step takes the first result
off the sum (`Process`); a preemption marks both as stale; admission with a load makes
the request lose its results. `RunAgrees` folds the two results back into the sums of
`RunnerAgrees` (`FlyingSum`, `FreshSum`). `InOrder` is `Follows` read at the step that
applies an output: the request that gains a token was running and not stale, or
waiting, and in both cases the result's position is its length (`StepsInOrder`).
`RunInv` was evaluated by TLC on the states of `engine` and `engine_kv`.

### The room for a step

`StepFitsCorrect`: `Spec /\ []SessionsFit => []StepFits`, and
`StepFitsWithoutSessions`: `Spec => []StepFits` when no request is a streaming
session, for any requests, budget, lengths, drafts and blocks. `SessionsFit` says that
a session that goes on has no more than `max_model_len` tokens.
`_update_request_as_session` appends the next input without a look at that limit, so
it is up to whoever sends the input; without it the invariant fails (TLC finds it on
the `engine` instance with `UpdateTokens = 6`), since an admission takes all the
tokens a waiting request lacks.

`FitInv` says where the room comes from. The item of a request that joins has blocks
behind its positions and positions within the model (`Room`), because the pass
allocates for them in the same step (`JoinFits`), and no later step of the pass takes
them back: a preemption takes requests the pass has not come to (`NotYet`). The tokens
taken and the budget left never exceed the budget (`BudgetFits`); the sum is a fold
over a sequence of any length, so `TotalOf` shows once that a function with the same
recurrence has the same values, by the least index where they would differ. When the
step goes out, the slot from which the runner writes is at or behind what the scheduler
counts as computed (`WritesBehind`, from `RunInv`: it lags by what results in flight may
reject), so the positions written lie in that room, and since a request's blocks differ
(`Apart`) they are as many as the positions are spread over (`WrittenCount`). `Short`
carries the limit on a request's tokens from its prompt through every output
(`TurnedShort`: what `check_stop` does not stop has room for one more). `FitInv` and
`SessionsFit` were evaluated by TLC on the states of `engine` and `engine_kv`.

### Chunks of a prefill

For every block size, hash size, budget, lookahead and request: a split never
lengthens a chunk (`SplitBounds`), no chunk runs past a position where the
recurrent state must be saved (`NoStopCrossed`), a chunk that is not empty ends
at such a position or with the prefill (`ChunkEndsWhereStateIsSaved`), it is not
cut to nothing (`SplitProgress`), and the draft model keeps its lookahead
(`LookaheadIsKept`). The argument is arithmetic: the split is the least of the
stops inside the chunk, and each stop is a multiple of a block, the partial tail
or the end.

### The PLE layer

The operators first:

* `ChunksLoseNothing`, `BatchKeepsTexts`: for every size, text, cut, ragged batch,
  padding and both ways of packing, the n-gram of a real token is the one of its
  request's whole text. The heart is `OwnPlace`: no other token, padding included,
  is scattered where a real one is.
* `RejectedDraftsLeaveNoTrace`, `ChunksContinue`, `DecodeIsAChunk`: for every
  length of the state, number of drafts and chunk, a forward that finds the
  history at its offset (`Recent`) gives windows of the history, and leaves the
  history at the offset of whichever draft is kept.

Then the composition, after any number of forwards. For every finite set of
requests, bounds on texts and batches, n-gram size, length of the state and set of
consistent configurations:

* `GramsAreHistoryCorrect`, `WindowsAreHistoryCorrect`: `Spec => []GramsAreHistory`
  and `Spec => []WindowsAreHistory`.
* `ForwardTypeCorrect`: `Spec => []TypeOK`.

What they need beside the operators is that the batches the runner builds satisfy
the operators' hypotheses. `RequestInv` follows the requests: while a prompt is
computed its text is the prompt and no draft is pending; afterwards all but the last
token is computed; live requests have different rows, never the null one. A batch
in order lies one request after the other (`Lies`, `BatchLies`: the order is a
bijection, the starts are sums), and the shape that runs it holds it (`Holds`,
`ShapeHolds`). So each token's n-gram is that of the text the request is fed
(`GramIs`), whatever the padding.

`ConvInv` is for the cache: the row of a live request that has computed anything
shows, from the entry of its accepted drafts on, the end of its inputs
(`Remembers`). A forward reads what its metadata say, a replayed graph too because
they were staged for it (`ReadIs`); each row gives the windows of its request and a
cache that serves however many drafts are kept (`RowGood`, by the three operator
theorems); it is written to that request's row and no other (`ForwardWrites`); and
what is kept of the request finds its inputs there (`StillRemembers`). Padding and
dummies leave the cache as it was (`PaddingLeavesNoTrace`), and a request that takes
over a row has computed nothing, so its first forward does not read it. The
hypothesis on decodes without drafts (section 2) is in `Schedulable`: without it a
decode would read at offset 0 what lies at another.

### The choice of graphs

For every configuration and batch: a decode graph of one length runs only batches
of that length, padded by whole requests (`DecodeGraphsPadWholeRequests`), shapes
fit the largest size (`CapturedShapesFit`), and with mixed graphs over sizes that
hold whole decodes every batch up to the largest size finds a graph
(`BatchesFindAGraph`).

`NothingFailsCorrect`: `Spec => []NothingFails`, for every consistent configuration
and any steps. `CaptureInv` says which shapes are captured and that the buffer of
hidden states, allocated by the first capture, holds every shape: piecewise shapes
are captured first and then one of them is of the largest size, otherwise the order
is by size (`LargestFirst`).

## 6. What is only model-checked

Liveness (`ServesOwnBytes`' fairness part, `EveryForwardEnds`, `DeathEndsWait`,
`ChildEnds`, `Served`, `BlocksReturn`): fairness and ENABLED are beyond TLAPS.
The engine's `TypeOK`: it bounds the counters by the sizes of the instances that
are run (at most two running requests, and prompts shorter than `MaxModelLen`), so
it is not a statement about every value of the constants. The
proofs use `QueueInv`, `SlotInv`, `FullInv`, `RunInv` and `FitInv`, which carry
the types they need.

The inductive invariants of the handshake, the ring, the forwards and the queues
are proved but not run: they quantify over all operations of a stream or all
sequences, and the runs check the properties they are for.

## 7. Not modelled

* Mixed VMM allocation: one sequence of driver calls when a layer is loaded; the
  code has no branch on their failure and releases nothing, so there is no state
  to follow.
* The hybrid cache's other tiers: the static, staging and non-hybrid arms of
  `apply()`, and the host-first order of the golden tier.
* Scheduler: LoRA, encoder inputs and the EC connector, the priority policy,
  pipeline parallelism, prefix-cache hits and shared blocks, synchronous loads,
  the connector's "unknown" answers, reservation of the full input length,
  `update_draft_token_ids_in_output`, balancing of prefills between
  data-parallel ranks, input budgets and draft slots, routed experts.
* The PLE table's int8 and nvfp4 rows, the mixing of n-grams into rows, norms:
  numerical.
* Attention, QSA and linear-attention kernels, quantisation methods, the model
  definition: numerical, without state of their own between calls.
* Custom all-reduce: its barriers are in compiled kernels outside the repository.
* Weight loading, device setup and memory accounting, scripts other than the two
  that publish a table: I/O and measurements.

Next: the static and staging arms of `apply()`.
