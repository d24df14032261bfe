# A TLA+ verification of the tiered KV cache

The repository is a study of prefix-cache infrastructure for LLM serving. Its code grows from
single components to one system: an LRU cache (project 1), a lock-free queue (project 2),
asynchronous I/O backends (project 3), a two-tier cache (project 4), and, built from all of
them, a disk tier for vLLM's offloading framework (project 5): a Python ledger on the scheduler
thread that drives a C++ engine, which moves KV blocks between primary memory and a file. Around the
tier stands what measures it: the end-to-end benchmark with its traces and their audit (project 5), and the
experiments that decide whether a machine is quiet enough to compare tiers on (`uring_slab_tier`).

This directory holds TLA+ modules of that system, TLC configurations that check them on small
instances, and TLAPS proofs of what matters most for every instance.

    tlc -workers 2 -config TierManager.cfg MCTierManager      # a run of PROJECT.json
    tlapm TierManager_proofs.tla                              # a proof module

`PROJECT.json` lists components, runs, the source lines of every definition (`map`), one mutation
of the code for every property, the hazards the properties are for, findings and theorems.

## 1. The system

All paths are below `src/projects/`.

| Component | State it keeps | Operations | What makes it correct |
|---|---|---|---|
| `project5_vllm_disk_tier/python/kv_uring_tier/manager.py`, `UringSecondaryTierManager` | landed keys with their slots in LRU order, keys being stored, reference counts of loads, free slots, keys of each job, answers given on the spot, counters | `lookup`, `touch`, `submit_store`, `submit_load`, `get_finished_jobs`, `has_pending_work`, `drain_jobs`, `shutdown` | no slot is lost or used twice, a load reads its own block, every job is answered once, the counters add up, rows are appended before answers go out |
| `csrc/kv_tier_engine.cpp`, `KvTierEngine` | two SPSC queues, the worker's job table, issue order and completions, rows, `pending_jobs_` | `submit`, `poll`, `drain`, `drain_records`, destructor; one worker thread | a result only after all blocks moved, failure of a block fails its job, `drain` means idle, no job is lost |
| `csrc/pool_tier_engine.cpp`, `PoolTierEngine` | one mutex over task queue, job table, results, rows | the same; a pool of worker threads | the same |
| `project2_spsc/include/spsc_queue.hpp`, `SpscQueue` | ring of slots, two atomic indices, a cached copy of the other side's index on each side | `push`, `pop`, `size_approx` | first in first out, no data race on a slot, full and empty never confused |
| `project3_async_IO/src/uring_backend.cpp`, `UringBackend` | io_uring, `in_flight_` | `submit`, `reap` | an entry reaches the kernel once |
| `project3_async_IO/src/cached_backend.cpp`, `CachedBackend` | slot pool, LRU list, offset index, misses in the air, completions ready | `submit`, `reap`, `in_flight` | slots never lost or shared, each request answered once with its own, current data |
| `project3_async_IO/src/sync_backend.cpp`, `SyncBackend` | two locked queues | `submit`, `reap` | as `IoBackend` |
| `project1_lru/include/*.hpp` | array pool with a used and a free list, key index | `push`, `get`, `erase` | the lists partition the pool and the order is that of use |
| `project4_two-tier-cache` | block stores in memory and on a file, an LRU ledger for each | `get`, `put` of `Cache`, `LockedCache`, `TieredCache` | ledger and store agree, a block is in one tier and is what was last put |
| `bench/long_context_ttft.py`, `run_e2e_overnight.sh` | phase at hand, background flows, samples | phases, waves, join of the flows, report; stop of the server | a group's samples are complete and tagged, a group ends |
| `sched_ledger.py`, `request_trace.py`, `trace_join_audit.py` | jobs stashed, rows of the request map and of the ledger | wrappers of the tier's methods and of `assign_request_id`; the audit | every sample, map row, ledger row and engine row join |
| `uring_slab_tier/.../instrumentation.py`, `InstrumentedTier` | jobs pending and completed, events dropped | `submit`, `get_finished_jobs`, `drain_jobs`, `shutdown` | every job is answered once, no tier is shut down over a pending one |
| `paired_fs_aa.py`, `paired_stats.py` | schedule, arms prepared and measured, evidence files, verdict | prepare, measure, close an arm; judge | a DONE pair is sound, the verdict rests on all pairs and refuses a bias |
| `native_fs_noise.py`, `fio_device_noise.py`, `noise_gate.py` | runs, results, failures, verdict | a run of either harness; judge | a DONE run is sound, a raise is not passed over, the gate tells quiet from noisy |
| `remote_3090.py`, other benchmarks, plots, docs | measurements | | not state machines |

How they interact. The framework calls the manager on one scheduler thread. The manager calls
`submit` on an engine and learns of completions only through `poll`, inside
`get_finished_jobs`; rows travel from the engine's ledger through `drain_records` to a file. In
`KvTierEngine` the scheduler thread and the worker share two SPSC queues, `pending_jobs_`,
`stop_` and a condition variable with a timeout; the worker talks to the kernel through
`UringBackend`. In `PoolTierEngine` everything shared is under `mu_`, and two condition
variables connect caller and workers. `CachedBackend` wraps any `IoBackend`; one thread
calls it, the device completes on its own. `sched_ledger.py` replaces three methods of a tier object by
wrappers, so that even the manager's own harvest at shutdown passes through them; client, server and audit
share nothing but request IDs and files. The experiments' harnesses are one thread each, calling a tier
(vLLM's file system tier) through `InstrumentedTier`; that tier has threads of its own.

What is hard in it: slots handed from an evicted key to a new one while transfers are in
flight; failures in the middle of a job; a job refused after the ledger was already changed;
completions in any order against a cursor that is rolled back; a bounded result queue whose
only consumer may be waiting for the producer; condition variables notified without their lock;
old values of the other thread's index; shutdown at any of these moments. Around the tier: samples
that arrive while they are being copied, requests nobody waits for any more, a result that raises in
the middle of a batch, an exception between the opening of a tier and the `try` that closes it, verdicts that
depend on random draws.

## 2. The modules

| Module | Models | Uses |
|---|---|---|
| `BlockEngine` | what either engine promises: the abstract engine | |
| `TierManager` | `manager.py`, composed with the abstract engine | EXTENDS `BlockEngine` |
| `KvTierEngine` | `kv_tier_engine.cpp` over `uring_backend.cpp` | instantiates `BlockEngine` as its contract |
| `PoolTierEngine` | `pool_tier_engine.cpp` | the same |
| `SpscQueue` | `spsc_queue.hpp` | instantiates `BoundedFifo` |
| `BoundedFifo` | what the queue promises | |
| `CachedBackend` | `cached_backend.cpp` over any `IoBackend` | |
| `TieredCache` | project 4: stores, ledgers, the three caches | |
| `InstrumentedTier` | `instrumentation.py`, a tier as a value | |
| `JobWave` | one wave of jobs through it, as both harnesses run it | EXTENDS `InstrumentedTier` |
| `NoiseGate`, `PairedStats` | the statistics, over integers | `PairedStats` EXTENDS `NoiseGate` |
| `Campaign` | what the campaigns' `main` have in common: units, their files, verdict, exit code | EXTENDS `JobWave` |
| `PairedCampaign` | `paired_fs_aa.py` | EXTENDS `Campaign`, `PairedStats` |
| `NoiseCampaign` | `native_fs_noise.py`, `fio_device_noise.py` | EXTENDS `Campaign`, `NoiseGate` |
| `TracedBench` | one group of the end-to-end benchmark: client, probes, stop, audit | |
| `MC...` | values for TLC | the module of that name; `MCManagerAndRing` EXTENDS `TierManager` and `SpscQueue`, `MCCampaigns` both campaigns |
| `..._proofs` | theorems | the module of that name; those of `SpscQueue` are in `KvTierEngine_proofs`, those of both campaigns in `Campaigns_proofs` |
| `ListLemmas` | lemmas about lists and numbers | |

The layers fit together. `SpscQueue` implements `BoundedFifo`, and `KvTierEngine` uses its
queues as bounded fifos. `KvTierEngine` and `PoolTierEngine` implement `BlockEngine`, and
`TierManager` is checked and proved over `BlockEngine`, whichever engine is underneath.

### TierManager and BlockEngine

Every manager method runs to completion on the scheduler thread, so it is one action, with the
exceptions the code makes: `drain` blocks while the engine works (`DrainCall`, `DrainReturn`), and
`get_finished_jobs` is `BeginHarvest` (poll), `HarvestOne` for each polled job, and
`EndHarvest` (append the rows, return the answers), between which the engine goes on. A submission is split by
outcome: nothing to store, not enough room, ring full, accepted; for a load: some key missing,
ring full, accepted. The dictionaries are total functions; the order of the `OrderedDict`
`_present` is the relation `older`; `_free` is a set, as nothing depends on which free slot
a block gets. A block's content is the key it belongs to, so a load of a foreign block is visible
in `misread`. `shutdown` is a drain followed by a last harvest whose answers are thrown away.

The abstract engine moves the blocks of a job in any order, any of them may fail (a failed write
leaves the old content, the new one or neither), and a row precedes its result.

### KvTierEngine

The worker's loop is cut where other threads can observe it: each pop of `in_q_` (`TakeJob`),
one batch submitted to the ring (`Issue`), the blocking reap (`Reap`), each completion
(`HandleCompletion`), the row, the push of the result and the rest of `finish_job` (`LogRow`, `PushResult`,
`Retire`), the end of a round, the sleep. `Submit` ends with its own step `Notify`. The kernel
completes any transfer in flight at any time, well or not. The gather window
(`submit_threshold`) is there in full, as it decides whether the worker waits. `ShortSubmits`
lets `io_uring_submit` take fewer entries than were prepared; what it left stays in the ring, as it does there.

### PoolTierEngine

A critical section on `mu_` is one step when it changes only the engine's own books, two steps holding `mu`
when it writes both a row and a result. A worker that finds the wait's predicate false keeps `mu`
until it blocks, which is one step with releasing it; `notify_all` wakes the workers that
are waiting at that moment, and a waiting worker may wake for no reason. The destructor's
store of `stop_` and its notification take no lock, and so do not wait for `mu`.

### SpscQueue

Each access to shared memory is a step of its own: the producer's index, the refresh of its
cached copy of the other index, the write of the slot, the publication. An acquire load may
return any value between the last one seen and the current one; what the thread thereby knows to have
happened before is kept in `seenPopped` and `seenPushed`, and `NoSlotRace` says that a
thread touches a slot only when the other's last access is among it.

### CachedBackend

One action for each way `submit` treats a request, one for a transfer that ends in the inner backend,
and `Reap` followed by one step per completion handed out. `inner_pending_` is a variable, so
that `in_flight()` can be compared with the requests really outstanding. The caller's
side is project 3's benchmark: tags count up from `TagBase`, which is 0 there (`bench.cpp:181`), at most `max_in_flight` requests are
out. Transfers and completions carry the number of their request (`id`), which no step looks at: it tells whose they are where tags do not.
History variables record the wrong answers: to nobody (`strays`), too soon (`early`), with a content that was
never there meanwhile (`stale`); and the three moments after which the code promises less: a tag of the caller's met a live internal
id in the inner backend (`clashed`), a slot was filled while a write of its block was in the air, or the block written past the
cache since (`doubtful`, until it is read anew), a block was written while a miss of it was in the air (`overwritten`).

### TieredCache

One state machine for the three caches, told apart by `design`: `Cache` over the file, `LockedCache` over memory,
`TieredCache` with memory over the file. A store is a record of its index, its stack of free slots and its bytes; a ledger is a
sequence of ids, hottest first; either fails (`ok`) when an assert of the code would, which ends the behaviour. `get` and `put` are
one step, as their callers hold a lock or are alone, except `LockedCache::get`: the look-up and the copy are
two steps between which other readers come. A write to the file may fail after tearing its slot.

### InstrumentedTier, JobWave and the campaigns

A wave submits its jobs, polls until each is answered or the time is up, drains, and looks for
results nobody asked for (`SubmitWave`, `PollWave`, `DrainWave`, `CheckWave`, `LastPoll`); the tier's threads finish jobs at
any time, with success or not, and may leave a file half-written or bytes wrong. `pc` and `raised` follow the
harness through its `finally` blocks (`CloseTier`). `PairedCampaign` has one action per step of `_run_pair`, `_prepare_arm` and
`_measure_arm`; `NoiseCampaign` one per step of `_run_one` in either harness. `MaxFaults` bounds what may go wrong in a
campaign; `harm` and `left` remember it for the properties.

Measured effects are small integers (`Effects`, `Values`), the logarithm of a ratio in the paired case, medians are kept
doubled, limits are intervals or quotients. The code draws at random (bootstrap, sign flips, power);
the modules compute every outcome those draws may have, and the verdict is any of them. A property of
the verdict therefore holds whatever the seed.

### TracedBench

The client's main thread is `main`, its background flows are threads of their own; a request goes
through `status` from unsent to an answer with text, a blank one or a failure. `TagFlow` and `ExtendFlow` are the two
loops over a flow's list of samples, which the flow may append to in between. The server is seen as the probes see it: a request
arrives (a row in the map), causes tier jobs (`SubmitJob` stashes them), the tier's harvest writes the engine's
rows (`Poll`), the wrapper then one ledger row each (`Record`). The group ends with `StopServe`,
`ShutDown` or `Kill`, and `Audit`. Faults are a lost header, a repeated request, a blank answer, a failed request, engine
rows not written, a client that is timed out, a server that has to be killed.

## 3. The runs

| Run | Instance | What it shows |
|---|---|---|
| `tier_manager` | 3 keys, 2 slots, 3 jobs of up to 2 blocks | slots partition into free, landed and in flight; the ledger's dictionaries agree with each other and with the engine; no two conflicting transfers; every load reads its own block; `has_pending_work` is true exactly while an answer is outstanding; eviction takes the oldest unpinned keys and none without need |
| `manager_and_ring`, the manager | 3 keys, 1 slot, 2 jobs, appends may fail | every job is answered, shutdown ends, rows precede answers, the counter funnel closes, at shutdown and when a store evicts and is still refused |
| `manager_and_ring`, the ring | ring of 4, 6 pushes, 2 values | the ring's books agree, no data race on a slot, implements `BoundedFifo`; what is pushed is popped |
| `kv_engine` | 2 jobs of 0 to 3 blocks, queues of 1, ring of 4 | the worker's counts agree with the ring, `pending_jobs_ = 0` means idle, the gather window never waits with less than two transfers in the air (not half of the depth, see the disagreements), nothing is left at exit |
| `kv_engine_refines` | 2 jobs of 0 to 2 blocks, queues of 1, ring of 2 | implements `BlockEngine`; every job is answered, before and after a drain, and `drain` and the destructor return, unless the caller waits with more results to come than `out_q_` can hold, and then it hangs for ever |
| `kv_short_submit` | violation | entries that `io_uring_submit` left behind stay in the ring and are also rolled back, so the kernel gets them twice |
| `pool_engine` | 2 workers, 2 jobs of 0 to 2 blocks | each block is counted once, implements `BlockEngine`, every job is answered, the destructor ends unless its notification missed a worker |
| `cached_backend` | 3 blocks, 2 slots, 4 requests numbered from 0, 2 in flight | slots are never lost or shared, the pool is never exhausted, each request is answered once and `in_flight()` is exact; until a tag meets a live internal id, no answer is early, reads are fresh and the cache agrees with the disk on every block that is not doubtful |
| `cached_tags` | violation; reads and writes of whole blocks, as the benchmark sends them | a tag meets the id of a miss, and a request is answered while its transfer is under way |
| `cached_old_block` | violation; the same | a block read while it was being written stays in the cache with its old content |
| `tiered_cache` | 5 blocks, 2 values, 2 + 2 slots, 2 readers, 2 failed transfers | no slot lost or shared, no block in two tiers, a hit is what was last put; a ledger is ahead of its store by at most one block for each failed write, and only such a block ends the program |
| `campaigns`, paired | 2 windows of 2 pairs, 2 jobs a wave, 2 warmup passes, 1 fault | a DONE pair is sound; no arm is measured over a tier left open; a verdict rests on all pairs in balanced orders; a bias is refused whatever the draws; the campaign comes to its verdict |
| `campaigns`, native and fio | 2 windows of 2 runs, 2 jobs a wave, 2 faults, both harnesses | a DONE run is sound; runs that raised are not passed over; quiet campaigns pass, a factor between windows does not |
| `traced_bench` | a prime and a mixed phase, 2 sessions, a flow of up to 2 requests, 1 tier job, 1 fault | the audit accepts exactly the groups whose requests and jobs all join; an undisturbed group is written and accepted; every group ends |

Two runs put machines side by side that share no variable that matters: `part` in `MCManagerAndRing` and `harness` in `MCCampaigns` are
chosen in the initial state and never change, so that a behaviour is one of one machine, the other's variables standing still. Each state space is the
union of those of the parts, not their product, and each property speaks of its own part. They are the parts whose runs ask one question: whether
what the scheduler's thread does ends, and what a campaign's files vouch for.

Why the bounds are enough. Two slots and three keys make every store of two blocks evict, and
three jobs are a store, a load that pins and a store that competes, or two loads of one key and a
failure. With a single slot a store of two blocks evicts and is still refused, which is why the
counters are checked on that instance. For the engines, queues of one item and a ring smaller than
the job make every queue fill and every job be issued in parts; a depth of four is the
smallest at which the gather window differs from waiting for one completion. Six pushes go round a ring of
four and fill it. Three blocks over two slots evict; four requests are two reads, a third that evicts and one
more of the block evicted or being read, each overlapping the next. Jobs and requests are bounded in number (`JobIds`, `MaxRequests`, `MaxPushes`): each id is used
once, as in the framework. Tags count from 0, as in the benchmark, so that among four requests some meet internal ids; what no
longer holds from then on is `early = {}` and freshness, which two runs and the disagreements below are about, while slots, number of answers and
`in_flight()` are checked, and proved for every `TagBase`, beyond that moment. Five blocks fill both tiers and leave one to be inserted, so that one insertion spills and
drops at once, and a block can come back to the first tier after each of its fates; two failed transfers let a second failure meet the first one's
phantom. In the campaigns two windows of two are the least the schedule can balance; one fault anywhere meets every stage (`PairedFaults`),
and two let a failure hide behind another in the gates of the other harnesses (`MaxFaults`). A phase before the mixed one has requests that can be missing from the ratio; two sessions
are in flight at once, and a flow of two requests has one sample to be tagged while the next is running; one job is enough, as jobs meet only in the harvest,
whose batches are those of `TierManager`.

Symmetry is used only in runs without liveness properties.

Deadlock is checked for the manager and the ring, where a state without successors would be
a fault. The engines' runs switch it off because the program really may stop there: after
the destructor, in the drain that does not return, or with all jobs of the bound submitted. The bounded number of
requests does the same to `CachedBackend`. The same goes for `TieredCache`, which ends at a failed assert, and for `TracedBench`, which ends
with its group. What must not stop is then stated as liveness or, for `CachedBackend`, by the count
of requests outstanding in `AnsweredOnce`. The campaigns end in a step that repeats itself, so there deadlock is checked.

Fairness. The framework polls while `has_pending_work` (what `has_pending_work` exists for, manager.py:366-367), so the harvest
is strongly fair while it holds: other calls may come between but not for ever. Threads are
scheduled and devices complete, so worker and kernel steps are weakly fair. In `PoolTierEngine` a
thread that competes for `mu_` gets it in the end, which is strong fairness for workers
and caller: the mutex is held for a few instructions only. Nothing is assumed of the caller of `submit`,
`drain` or the destructor, nor of a load or store succeeding, nor of a spurious wake-up. `JoinEndsIfHeard` says when the pool's
destructor does end. A campaign takes some step while it can, its tier's threads included: `drain_jobs` has no
time limit. In `TracedBench` the client's threads run, the server answers the main thread's requests and finishes
its jobs; nothing is asked of it for the requests of the flows, which is why the join has its time limit.

### Disagreements seen

Where comments say more than the code does. The first three have a run each that finds the violation, and are the findings of `PROJECT.json`; the others are
behaviours the models have: the properties state what holds beside them, and none of them hides that they happen.

* `kv_tier_engine.cpp:299`, entries the kernel refused are rolled back: after a short or failed `io_uring_submit` they are also still in the
  ring (`kv_short_submit`).
* `cached_backend.cpp:233` looks up completions in `misses_` by tag, and forwards requests under the caller's tags beside its own internal ids, which
  count up from 1 (`cached_backend.hpp:115`). `io_backend.hpp:16` has a tag come back as it was given; the benchmark's count up
  from 0 (`bench.cpp:181`), so with `--cache` the second of two reads of one block goes out with the id of the first one's miss, and its
  completion, failed or not, answers the first (`cached_tags`). That slots and numbers of answers stay right even so is proved.
* `cached_backend.cpp:158` reads a block into the cache while a write of it may be in the air: the write left the cache when it was submitted, not when it
  ended, and the content from before it stays cached, although `cached_backend.hpp:39-40` has the next read fetch the block anew (`cached_old_block`).
* `kv_tier_engine.cpp:187-188` claims that while the gather window blocks, half of the queue depth is in the air at any moment. The window opens
  with depth - threshold + 1 transfers in flight at least and waits for threshold of them; just before the last, depth - 2 * threshold + 2 are left. That
  is two at every even depth up to 64: two of 32 at the default, where the comment claims 16. `GatherKeepsDeviceBusy` states these two, and
  depth - 62 above 64, and is proved for every depth: the lockstep the comment is about (lines 184-186) is avoided, the half is not kept.
* `kv_tier_engine.cpp:228` spins for room in the result queue; `drain` waits for the worker and nobody polls: with more
  results to come than the queue holds both wait, and so does the destructor. `kv_tier_engine.hpp:139` gives no limit, and the comment at line 226 says that the
  capacity of 1023 is not reached, as the caller polls. `EveryJobFinishes` has this state (`Stuck`) as the only one in which a job is not answered or a
  wait does not end, and shows that nothing leads out of it.
* `pool_tier_engine.cpp:75` stores `stop_` and notifies without the mutex: the notification can fall between a worker's predicate and its
  wait, and `join` waits for that worker for ever, although lines 77-78 say that the workers end by themselves. `JoinEndsIfHeard` shows that there is no other way for it to hang.
* `cached_backend.cpp:188` erases the index entry of a block also while a miss is reading it; the slot becomes valid without an entry,
  where `cached_backend.hpp:99-100` has every valid slot in the index. `PoolConsistent` admits it for such blocks only (`overwritten`).
* `manager.py:354` says that after a failed load the whole batch is evicted; line 357 keeps keys that another load pins.
* `paired_fs_aa.py:607` looks at no result of a warmup wave; the experiment's decision record counts any failed completion as a hard failure.
  A configuration with `warmup_passes = 0` is accepted and can never pass, as the checksum after the warmup is always compared.
* `long_context_ttft.py:358` declares a phase void when a flow died, in a line of output; the audit does not read it.
* `long_context_ttft.py:366` copies a list that a late flow may still extend: the untagged sample makes line 384 raise before the file is written, although
  line 169 says each sample keeps its round and line 356 takes the join for the wait that ensures it. `UndisturbedPasses` excuses the groups with such a
  flow (`Late`), and no others.
* `tiered_cache.cpp:62` enters a victim in the second ledger although its write failed, so that `block_store.hpp`'s precondition of
  `evict` breaks later; line 23 reports a failed read as the hit that
  `tiered_cache.hpp:33` says was copied (the answer `unread`, which `BlocksAreFresh` keeps apart).

## 4. The proofs

| Theorem | Module | Statement |
|---|---|---|
| `LedgerInvariant` | `TierManager_proofs` | `Spec => []LedgerInv`, the inductive invariant |
| `TypeCorrect`, `SlotsNeverLeak`, `NoForeignBlocks`, `SlotsNeverConflict` | `TierManager_proofs` | `TypeOK`, `SlotsPartitioned`, `LoadsReadOwnBlocks`, `NoSlotConflict` always hold |
| `OrderInvariant`, `RecencyStaysTotal` | `TierManager_proofs` | `older` stays a strict total order of exactly the landed keys |
| `LedgerStaysConsistent`, `OldestGoFirst` | `TierManager_proofs` | `LedgerConsistent` always holds, every step obeys `EvictsOldestFirst` |
| `AnsweredOnceAndAskedFor`, `RowsPrecedeAnswers` | `TierManager_proofs` | `AnswersComplete`, `RowsFollowAnswers` always hold |
| `FunnelCloses`, `ShutdownClosesBooks` | `TierManager_proofs` | the counters of a store close in every state; `CountersClose`, if `ResultCap <= PollMax` |
| `RingInvariant`, `RingTypeCorrect`, `RingAlwaysConsistent`, `SlotsNeverRace` | `KvTierEngine_proofs` | the ring's invariant and the absence of data races |
| `FirstInFirstOut`, `QueueRefinesFifo` | `KvTierEngine_proofs` | what is popped is a prefix of what is pushed; `RingSpec => ImplementsFifo`, the refinement of `BoundedFifo` |
| `PoolInvariant`, `BlocksAreCountedOnce` | `PoolTierEngine_proofs` | the pool's inductive invariant; `BlocksCountedOnce` |
| `PoolEngineKeepsContract` | `PoolTierEngine_proofs` | `Spec => ImplementsEngine`, the refinement of `BlockEngine`, if `DistinctTransfers` |
| `EngineInvariant`, `BlocksAreIssuedOnce` | `KvTierEngine_proofs` | the io_uring engine's inductive invariant; no transfer is given to the kernel twice, both if `~ShortSubmits` |
| `BooksAgreeWithRing`, `NothingIsLeftBehind`, `DeviceStaysBusy` | `KvTierEngine_proofs` | `WorkerLedger`, `NothingLeftBehind`, and at every depth `GatherKeepsDeviceBusy`, if `~ShortSubmits` |
| `KvEngineKeepsContract` | `KvTierEngine_proofs` | `Spec => ImplementsEngine`, the refinement of `BlockEngine`, if `DistinctTransfers` and `~ShortSubmits` |
| `SlotInvariant`, `PoolStaysConsistent`, `PoolNeverExhausted`, `EachIsAnswered` | `CachedBackend_proofs` | slots and the number of answers, whatever tags the caller uses |
| `CacheInvariant`, `RequestsAnsweredOnce`, `ReadsStayFresh` | `CachedBackend_proofs` | `AnsweredOnce`, `ReadsAreFresh`, whatever tags the caller uses: whose answer and which content, until a tag meets the id of a miss |
| `CacheInvariant`, `BlocksStayFresh`, `OnlyFailuresMakePhantoms` | `TieredCache_proofs` | the two tiers' inductive invariant; `BlocksAreFresh`, `PhantomsAreFailures` |
| `CampaignInvariant`, `LedgerMatchesTier` | `Campaigns_proofs` | the paired campaign's inductive invariant; `TiersAccountedFor` |
| `DoneFilesAreEarned`, `VerdictsAreEarned` | `Campaigns_proofs` | `DonePairIsSound`, `VerdictRestsOnEvidence` always hold |
| `NoiseInvariant`, `DoneRunsAreEarned`, `NoRunPassedOver` | `Campaigns_proofs` | the noise campaigns' inductive invariant; `DoneRunIsSound`, `RunsAccountedFor` |
| `BenchInvariant`, `AuditTellsTheJoins`, `UndisturbedGroupPasses` | `TracedBench_proofs` | the bench's inductive invariant; `AuditTellsJoins`, `UndisturbedPasses` |

They hold for all finite sets of keys, blocks, slots, jobs and workers, any number of blocks in a
job, of requests, pushes and failures, any capacity of a queue that the constructors let through. The modules' named assumptions
are that these sets are finite, that the sentinels are not among the real values, that the bounds are
naturals, that what a job may be (`Workload`) is a finite set, not empty, that the paired campaign's configuration is one
`_load_config` accepts (`ConfigAccepted`), that a noise campaign has windows and runs and its gate asks for as many
valid runs as there are runs, as in every configuration file of the project (`CampaignAssumption`, `NoiseAssumption`), and that a bench has at least one phase, as every list the runner passes has (`BenchAssumption`). Some theorems have a hypothesis of their own:

* `ResultCap <= PollMax` (`ShutdownClosesBooks`): the last harvest of `shutdown` polls once. The io_uring engine keeps at most
  1023 results in a ring of `kRingCap = 1024` (`kv_tier_engine.cpp:26`) and a poll takes `max_n = 1024` (`pybind.cpp:156`), so
  there it holds. The thread pool's `results_` has no bound: with more finished jobs than one poll takes, the rest would
  be missing from the counters.
* `DistinctTransfers` (the two refinements of `BlockEngine`): a job names a transfer once. The manager sees to it: a store has one key per slot,
  and the keys of a load are the distinct keys of a lookup. `BlocksAreCountedOnce` and the invariants of
  `KvTierEngine` need no such thing.
* `~ShortSubmits` (everything about `KvTierEngine`): `io_uring_submit` takes all the entries prepared, as it does unless the kernel
  runs out of memory or is interrupted. Where it does not, the ledger is wrong and a block is issued twice: run `kv_short_submit`, a disagreement
  of section 3, shows it, so there is no such theorem without the hypothesis.

*The manager's slots.* None of the three properties is inductive. That no load reads a foreign block rests on the
pins (a key being loaded is present, hence not evicted), these on the reference counts being
exactly the loads in flight; that a landed block is its key's own rests on its store having moved
every block to the slot the ledger names, which rests on the slots being partitioned and on engine and ledger
agreeing on who is live. `LedgerInv` is the conjunction of these parts, each a named
formula of `TierManager`. `TierManager_proofs` has the types, one lemma per action; then it restates the partition slot by
slot (`Owned`), as a statement about single slots is what the provers can use, and has again one lemma per action, and
under it one step per conjunct the action can disturb.

*The manager's order.* `OrderInv` says that `older` is a strict total order of the landed keys and that a job's keys are
among those it listed, in whose order the harvest moves them to the end. `MoveToEndOrder` and `WithoutOrder` show that moving and evicting keep an order.
In a finite order the first `need` elements are `need` many (`OldestCount`), so the victims, the first unpinned keys of the order, are
exactly as many as the free slots fall short; `OldestGoFirst` follows for every step.

*The manager's answers.* `OnePlace` has every job in one place: not submitted, with the engine or in the batch polled from it, a
result waiting, or answered once. `RowsKept` follows a row from the log to the file. `Funnel` is a set of
equations between counters and the sizes of `_present` and `_storing`; an action changes a size by as much as the counters once the keys it moves are
known to be absent where they arrive, which `LedgerInv` has. Shutdown closes the books because the drain leaves only results,
at most `ResultCap` of them (`EngineEmptied`), and one poll takes them all.

*The queue.* `RingConsistent` relates the indices modulo the capacity with the numbers of pushes and pops, each
slot with the item due there, and each cached index with the history its thread may have seen. `WrapInj` and `WrapDistance` carry the
modular arithmetic: indices less than a round apart are different. The refinement maps the ring to the sequence
of items pushed and not popped; storing `head_` puts, storing `tail_` takes, all other steps stutter.

*The thread pool.* `PoolInv` says where in its code each holder of `mu_` may be, that a job's count of blocks outstanding is the number of
its tasks queued and in the hands of workers, and where each job is. A job is being finished exactly while its finisher holds the
mutex, so only one worker finds the count at zero. The refinement needs besides that each transfer is queued or held once
(`OncePerBlock`): then the block a worker moves leaves what the abstract job has still to move. The end of a block's I/O moves it,
the row and the result finish the job; taking the mutex, waiting, waking, counting off and the destructor stutter.

*The io_uring engine.* `EngineInv` has each accepted job in one place (in `in_q_`, in the table, being finished, answered), a job's `inflight` as the
number of its transfers with the kernel, in the completion queue or reaped, all of them below its cursor, and `issue_order` as exactly the live jobs with
transfers left, once each. The entries left to issue are sorted by job and in each job by number (`ToIssueSorted`), so a batch, however it is cut, gives every job
the next few of its transfers (`GivenInOrder`), and the jobs it exhausts are at the front of `issue_order` (`FrontRunsOut`): that is why the code may advance a
cursor by a count and pop from the front. What is issued lies above the cursor, and what is in the air below it, so nothing is issued twice, and no batch
is longer than the ring has room for. `drain` reads a count which is that of the jobs in these places, and a job in none of
them has nothing in the air. The refinement needs besides that the results waiting name each job once and tell whether a transfer of it failed
(`Answers`). A completion of the kernel moves its block; the row, the push and poll are `Log`, `Publish` and `Poll`, a job found in `in_q_` after `stop_` is `GiveUp`; taking a
job, issuing, reaping, handling a completion, retiring and the loop itself stutter.

*The cache.* `SlotInv` has each slot free, in the list or lent to one miss, and as many completions on their way as requests wait.
Each completion has the tag of a request, and two have the same one only if it is the tag of two requests, one the caller's and one a
miss (`OwnedBy`). This is enough for the slots, for the number of answers and for
`in_flight()`, whatever tags the caller uses. As long as none of them has met a live internal id (`~clashed`, which the invariant has as a premise, not
the theorem as a hypothesis), `CacheInv` has one completion for each request (`IdsDiffer`), which bears the request's tag or the id of its miss
(`NamesMatch`); so the one whose turn it is answers its own request. What slots and buffers hold follows (`Fresh`): the slot of an indexed block that is not
doubtful holds it as it is on disk, and no write of it is in the air; a miss whose content has come likewise; and what a read will hand
over is among the contents its block had since it was asked. A write drops the entry of its block, so that only a read into the cache while it is in the air
makes a block doubtful, and reading it again after that ends it.

*The two tiers.* A store is right by itself (`StoreOK`: every slot free or in the index, never both or twice), so that a store that is not full has
a free slot (`StoreSizes`); `Written` and `Evicted` say what an operation makes of one, whether its transfer and its precondition hold or not.
A ledger is right by itself too. Both together: the ledger knows what the store holds and at most as many blocks more as transfers
failed (`Agree`), because a failed write enters its block in vain, and an assert fails only over such a block. The first of two tiers is memory and never
fails, so its ledger is exact and the block it spills is there. Readers under the shared lock keep their block in place, since a put waits for them.
What the proofs need about lists (without repetition: pushed, popped, some taken from the front, one element removed; lists of lists put one after the other)
and about the least and the greatest of some numbers, which stand in for induction, is in `ListLemmas`; so is a fold over a list, unrolled step
by step (`FoldsUp`): a wave submits its jobs and a poll handles its results by one.

*A wave.* All campaigns run the same waves of jobs, so what a step of a wave does is proved once, for both (`WaveStepSafe`). It keeps
`WaveSafe`: the observer's ledger and the tier agree on every job (`LedgerAgrees`), through a poll that raises midway too, and a
result that waits is of a job the ledger knows or has the id no job has, and of none still worked on (`LedgerKnows`). And its
harm shows (`WaveEffect`): as an exception, as dropped events, or in the checks of the wave, which are going to fail (`WaveFails`).

*The paired campaign.* `CampaignInv` has these and what is between the waves. A tier exists exactly while an arm
is in hand and works only for the wave in hand (`WaveInv`). Each loop comes to an arm once, and an arm whose tier was left open in the preparation
did not pass, so the second loop skips it (`ArmsInv`): nothing measures over a directory still in use. That a DONE file is earned
rests on `HarmInv`: what went wrong is written down already (a failure, an arm with FAIL), or the arm in hand is raising or has failed a check, or the
checks of its wave are going to fail, for a job that failed stays among the results and a lost block stays lost until they are made (`WaveFails`).
Only a warmup wave's failed job has none of these, which is why the property leaves it out. `EvidenceInv` says which
result and failure files there are. The verdict counts complete pairs; as many as there are pairs means all of them (`AllComplete`), each
complete pair is DONE and its data gone (`PairsInv`), and the results have the windows and orders of the schedule, which is balanced.

*The noise campaigns.* `NoiseInv` is simpler, for a run has no warmup and every wave is checked: what went wrong is already written down, or the run is raising,
or a check has failed or is going to (`RunHarmInv`), up to the clean-up, which alone comes after the result is written and before the DONE file. A run either
returned a result or raised, and as long as none raised the k-th result is that of run k (`RunsInv`). The gate asks for as many valid
runs as there are runs and for no others, so a verdict that is not FAIL has a PASS in every place of the list (`AllOf`), each of them DONE, and each
window its share of the places (`WindowSize`). The proofs about one campaign cite no assumption of the other.

*The bench.* `BenchInv` goes along the path of a request. The server's map has more than one row for it, none, or an empty answer only after a fault
(`RequestInv`); a flow has kept its requests in order and sent at most one more (`FlowInv`); the samples are of requests that came back, each at
most once, and a flow's is tagged exactly if the tagging loop saw it (`OutInv`). That no sample comes twice is not inductive by itself: it rests on
what the main thread has collected and copied so far (`CollectInv`), none of which a later batch or flow names again. A job is stashed or in the
ledger once, and the engine's row for it is there only when the ledger's is or is about to be (`JobInv`). The verdict was computed from these files, and nothing
writes them once the server is gone (`EndInv`). Of the two theorems, one reads the verdict off the joins (`JoinFacts`, as a request is one sample or none,
`SampledFacts`); the other shows that without a fault or a late flow every request the map knows is among the samples (`NothingLost`): the main
thread's because its phase is over, a flow's because it was kept and copied with its tag.

*Model-checked only.* Liveness (`EveryJobAnswered`, `ShutdownEnds`, `EveryJobFinishes`, `Delivered` and the others) rests on fairness and
ENABLED, which the prover does not handle. `BiasRefused` and `GateTellsNoise` rest on medians, percentiles and resampling, which TLC computes for every
input within bounds and a proof would have to do by induction over sorted lists. Every other invariant of a run is proved. No module has a recursive operator.

## 5. What is left out

* Data that no property is about: time stamps, byte counts and the device's statistics, the
  job-level and lookup counters, the text of the stats dump, file creation and prewarming.
* Argument checks of constructors: the constants' assumptions say what they let through.
* An inner backend of `CachedBackend` that refuses part of a batch (submit throws and the benchmark ends),
  and short reads, which it would cache as whole blocks.
* In the campaigns: failures while an evidence file is written in a `finally` block, metrics that only describe. Measured values
  are positive, so the gate's treatment of a median of zero is not met.
* In `TracedBench`: vLLM itself, sleeping between waves, a group given up because the GPU's memory stays taken.
* `SyncBackend` and project 1's LRU pool: a thread pool behind two mutexes with the protocol modelled in `PoolTierEngine`, and a
  sequential list over an array whose order `TieredCache` and `TierManager` have as a sequence and a relation.
* `wait_cqe_nr` failing, and `UringBackend` outside `KvTierEngine`. Transfers with the kernel are a set, so two copies of one that a single short submission
  lets through count as one there; `issuedTwice` records what is handed over again while it is in the air.
* Percentiles of resampled values are taken from among them (`NoiseFloors` beyond the exact branch, `CiHalfwidths`), where the code interpolates between two
  neighbours: a warning from a value in between is not among the outcomes. No property depends on it.
* The components marked `not_modelled` in PROJECT.json, each with its reason.

## 6. Plan

1. *Core (done):* `BlockEngine`, `TierManager`, `SpscQueue`, `KvTierEngine`, `PoolTierEngine`, `CachedBackend`;
   the manager's slot invariants and the queue proved.
2. *Around the tier (done):* `TieredCache`; `InstrumentedTier`, `JobWave` and the two campaigns with their statistics; `TracedBench`.
3. *Proofs (done):* the manager's order, answers and counters over `LedgerInv`; the thread pool and its refinement of `BlockEngine`;
   `KvTierEngine` and its refinement; `CachedBackend`; `TieredCache`; ledger, DONE files and verdicts of the paired and the noise
   campaigns; the audit of `TracedBench`.
4. *Left to TLC:* liveness, and the two statements about statistics, `BiasRefused` and `GateTellsNoise` (section 4).
