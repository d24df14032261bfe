---------------------------- MODULE TierManager ----------------------------
(***************************************************************************)
(* UringSecondaryTierManager (manager.py): the ledger a vLLM scheduler     *)
(* thread keeps over the disk tier, together with the engine it drives.    *)
(*                                                                         *)
(* Every manager method runs to completion on one thread, so each is one   *)
(* action, except where the engine can run in between: drain blocks, and   *)
(* get_finished_jobs handles one polled job after another.                 *)
(*                                                                         *)
(* Dictionaries are total functions: NoSlot stands for a missing entry of  *)
(* _present and _storing, 0 for a missing entry of _load_refs, NoKeys for  *)
(* a missing entry of _job_keys.  The order of the OrderedDict _present    *)
(* is the relation older.  _free is a set: which free slot a block gets    *)
(* is left open.                                                           *)
(***************************************************************************)
EXTENDS BlockEngine, Sequences, Functions

CONSTANTS
  NoSlot,     \* no entry in _present or _storing
  MaxBlocks,  \* blocks in one job at most
  AppendFails \* whether appending rows to the records file may fail

ASSUME NoSlotAssumption == NoSlot \notin Slots
ASSUME MaxBlocksAssumption == MaxBlocks \in Nat /\ AppendFails \in BOOLEAN

VARIABLES
  present,       \* _present: key -> slot, landed on disk
  older,         \* <<a, b>>: a comes before b in _present
  storing,       \* _storing: key -> slot, store in flight
  loadRefs,      \* _load_refs: key -> loads in flight
  free,          \* _free
  jobKeys,       \* _job_keys: job -> its direction and keys
  localResults,  \* _local_results: results that never saw the engine
  everStored,    \* _ever_stored
  counters,      \* _counters, the block counts of the store funnel
  pc,            \* where the scheduler thread is
  closing,       \* shutdown has been called
  batch,         \* polled jobs get_finished_jobs has not handled yet
  results,       \* the list get_finished_jobs is building
  onFile,        \* rows appended to the .records.jsonl file
  lostRows,      \* rows dropped by a failed append (history)
  route,         \* who answers the job: nobody yet, the ledger or the engine (history)
  answers        \* results returned to the framework, per job (history)

ledger == <<present, older, storing, loadRefs, free, jobKeys, everStored>>
history == <<onFile, lostRows, route, answers>>
control == <<pc, closing, batch, results>>
vars == <<engineVars, ledger, localResults, counters, control, history>>

Counts == {"offered", "filtered", "rejectedCapacity", "rejectedRing",
           "first", "rewrite", "ioFailed", "evicted", "evictedSuspect"}

\* The keys of one job, in order and without repetition.
KeyLists == {ks \in UNION {[1..n -> Keys] : n \in 0..MaxBlocks} :
               \A a, b \in DOMAIN ks : ks[a] = ks[b] => a = b}

KeySet(ks) == {ks[i] : i \in DOMAIN ks}

NoKeys == [op |-> "load", list |-> << >>, keys |-> {}, live |-> FALSE]

Result == [job : JobIds, ok : BOOLEAN]

TypeOK ==
  /\ EngineTypeOK
  /\ present \in [Keys -> Slots \cup {NoSlot}]
  /\ older \in SUBSET (Keys \X Keys)
  /\ storing \in [Keys -> Slots \cup {NoSlot}]
  /\ loadRefs \in [Keys -> Nat]
  /\ free \in SUBSET Slots
  /\ jobKeys \in [JobIds -> [op : Ops, list : KeyLists, keys : SUBSET Keys, live : BOOLEAN]]
  /\ localResults \in SUBSET Result
  /\ everStored \in SUBSET Keys
  /\ counters \in [Counts -> Nat]
  /\ pc \in {"ready", "drain", "harvest", "down"}
  /\ closing \in BOOLEAN
  /\ batch \in [JobIds -> {"none", "ok", "fail"}]
  /\ results \in SUBSET Result
  /\ onFile \in SUBSET JobIds
  /\ lostRows \in SUBSET JobIds
  /\ route \in [JobIds -> {"new", "local", "engine"}]
  /\ answers \in [JobIds -> Nat]

Init ==
  /\ EngineInit
  /\ present = [k \in Keys |-> NoSlot]
  /\ older = {}
  /\ storing = [k \in Keys |-> NoSlot]
  /\ loadRefs = [k \in Keys |-> 0]
  /\ free = Slots
  /\ jobKeys = [j \in JobIds |-> NoKeys]
  /\ localResults = {}
  /\ everStored = {}
  /\ counters = [c \in Counts |-> 0]
  /\ pc = "ready"
  /\ closing = FALSE
  /\ batch = [j \in JobIds |-> "none"]
  /\ results = {}
  /\ onFile = {}
  /\ lostRows = {}
  /\ route = [j \in JobIds |-> "new"]
  /\ answers = [j \in JobIds |-> 0]

Present == {k \in Keys : present[k] # NoSlot}
Storing == {k \in Keys : storing[k] # NoSlot}
Pinned == {k \in Keys : loadRefs[k] > 0}

Lookup(k) ==
  IF k \in Present THEN "hit" ELSE IF k \in Storing THEN "retry" ELSE "miss"

-----------------------------------------------------------------------------
(* Recency order *)

\* Order of the keys of dom once the listed ones, S, have been moved to the
\* end one after the other.
MoveToEnd(dom, ks, S) ==
  {p \in older : p[1] \in dom \ S /\ p[2] \in dom \ S}
    \cup (dom \ S) \X S
    \cup {p \in S \X S : \E a, b \in DOMAIN ks :
                           a < b /\ p = <<ks[a], ks[b]>>}

Without(S) == {p \in older : p[1] \notin S /\ p[2] \notin S}

-----------------------------------------------------------------------------
(* _take_slots(n) *)

\* Mutation: pinned keys are not skipped.
EvictablePinned == Present

Evictable == Present \ Pinned

\* Mutation: evicts from the wrong end of the order.
VictimsNewest(n) ==
  {k \in Evictable :
     Cardinality({v \in Evictable : <<k, v>> \in older}) < n - Cardinality(free)}

\* The keys _take_slots pops: the first in LRU order, as many as the free
\* slots fall short, all evictable ones when even those do not suffice.
Victims(n) ==
  {k \in Evictable :
     Cardinality({v \in Evictable : <<v, k>> \in older}) < n - Cardinality(free)}

SlotsOf(S) == {present[k] : k \in S}

Obtainable(n) == Cardinality(free) + Cardinality(Evictable) >= n

\* The slots taken: free ones first, then those of the victims.
TakenSets(n) ==
  IF n <= Cardinality(free)
  THEN {T \in SUBSET free : Cardinality(T) = n}
  ELSE {free \cup SlotsOf(Victims(n))}

Evict(V) ==
  /\ present' = [k \in Keys |-> IF k \in V THEN NoSlot ELSE present[k]]
  /\ older' = Without(V)

-----------------------------------------------------------------------------
(* Calls of the tiering framework *)

Callable == pc = "ready" /\ ~closing

\* touch(keys): the listed keys that are present become the newest, in order.
Touch(ks) ==
  /\ Callable
  /\ older' = MoveToEnd(Present, ks, KeySet(ks) \cap Present)
  /\ UNCHANGED <<engineVars, present, storing, loadRefs, free, jobKeys, everStored,
                 localResults, counters, control, history>>

\* What holds of every submit, of a job answered on the spot and of one the
\* engine takes.
Submitted(j) ==
  /\ Callable /\ route[j] = "new"
  /\ UNCHANGED <<everStored, control, onFile, lostRows, answers>>

AnswerLocally(j, ok) ==
  /\ localResults' = localResults \cup {[job |-> j, ok |-> ok]}
  /\ route' = [route EXCEPT ![j] = "local"]
  /\ UNCHANGED <<engineVars, jobKeys>>

HandOver(j, op, ks, xs) ==
  /\ Accept(j, op, xs)
  /\ jobKeys' = [jobKeys EXCEPT
       ![j] = [op |-> op, list |-> ks, keys |-> {x[1] : x \in xs}, live |-> TRUE]]
  /\ route' = [route EXCEPT ![j] = "engine"]
  /\ UNCHANGED localResults

ToStore(ks) == KeySet(ks) \ (Present \cup Storing)

StoreCounts(ks) ==
  [counters EXCEPT !["offered"] = @ + Len(ks),
                   !["filtered"] = @ + Len(ks) - Cardinality(ToStore(ks))]

\* Every block is present or on its way: success without the engine.
StoreNothing(j, ks) ==
  /\ ToStore(ks) = {}
  /\ counters' = StoreCounts(ks)
  /\ AnswerLocally(j, TRUE)
  /\ UNCHANGED <<present, older, storing, free>>

\* Mutation: evictions of a job rejected in the end are not counted.
StoreNoRoomUncounted(j, ks) ==
  LET n == Cardinality(ToStore(ks)) IN
  /\ n > 0 /\ ~Obtainable(n)
  /\ Evict(Victims(n))
  /\ free' = free \cup SlotsOf(Victims(n))
  /\ counters' = [StoreCounts(ks) EXCEPT !["rejectedCapacity"] = @ + n]
  /\ AnswerLocally(j, FALSE)
  /\ UNCHANGED storing

\* Not enough slots even after evicting: the evicted keys stay evicted.
StoreNoRoom(j, ks) ==
  LET n == Cardinality(ToStore(ks)) IN
  /\ n > 0 /\ ~Obtainable(n)
  /\ Evict(Victims(n))
  /\ free' = free \cup SlotsOf(Victims(n))
  /\ counters' = [StoreCounts(ks) EXCEPT
                    !["rejectedCapacity"] = @ + n,
                    !["evicted"] = @ + Cardinality(Victims(n))]
  /\ AnswerLocally(j, FALSE)
  /\ UNCHANGED storing

\* Mutation: the rollback forgets the slots.
StoreRingFullLeaks(j, ks) ==
  LET n == Cardinality(ToStore(ks)) IN
  /\ n > 0 /\ Obtainable(n)
  /\ Evict(Victims(n))
  /\ counters' = [StoreCounts(ks) EXCEPT
                    !["rejectedRing"] = @ + n,
                    !["evicted"] = @ + Cardinality(Victims(n))]
  /\ AnswerLocally(j, FALSE)
  /\ UNCHANGED <<storing, free>>

\* The engine's entry ring is full: the slots go back, the evicted do not.
StoreRingFull(j, ks) ==
  LET n == Cardinality(ToStore(ks)) IN
  /\ n > 0 /\ Obtainable(n)
  /\ Evict(Victims(n))
  /\ free' = free \cup SlotsOf(Victims(n))
  /\ counters' = [StoreCounts(ks) EXCEPT
                    !["rejectedRing"] = @ + n,
                    !["evicted"] = @ + Cardinality(Victims(n))]
  /\ AnswerLocally(j, FALSE)
  /\ UNCHANGED storing

StoreAccepted(j, ks) ==
  LET new == ToStore(ks)
      n == Cardinality(new)
  IN
  /\ n > 0 /\ Obtainable(n)
  /\ Evict(Victims(n))
  /\ counters' = [StoreCounts(ks) EXCEPT !["evicted"] = @ + Cardinality(Victims(n))]
  /\ \E T \in TakenSets(n) : \E slot \in Bijection(new, T) :
       /\ free' = free \ T
       /\ storing' = [k \in Keys |-> IF k \in new THEN slot[k] ELSE storing[k]]
       /\ HandOver(j, "store", ks, {<<k, slot[k]>> : k \in new})

SubmitStore(j, ks) ==
  /\ Submitted(j)
  /\ UNCHANGED loadRefs
  /\ \/ StoreNothing(j, ks)
     \/ StoreNoRoom(j, ks)
     \/ StoreRingFull(j, ks)
     \/ StoreAccepted(j, ks)

\* Some key is not on disk (any more): failure without the engine.
LoadMissing(j, ks) ==
  /\ ~(KeySet(ks) \subseteq Present)
  /\ AnswerLocally(j, FALSE)
  /\ UNCHANGED <<older, loadRefs>>

\* Mutation: the rollback forgets the answer.
LoadRingFullSilent(j, ks) ==
  /\ KeySet(ks) \subseteq Present
  /\ older' = MoveToEnd(Present, ks, KeySet(ks))
  /\ route' = [route EXCEPT ![j] = "local"]
  /\ UNCHANGED <<loadRefs, engineVars, jobKeys, localResults>>

\* Refused by the entry ring: pinned and unpinned again, but still touched.
LoadRingFull(j, ks) ==
  /\ KeySet(ks) \subseteq Present
  /\ older' = MoveToEnd(Present, ks, KeySet(ks))
  /\ AnswerLocally(j, FALSE)
  /\ UNCHANGED loadRefs

LoadAccepted(j, ks) ==
  /\ KeySet(ks) \subseteq Present
  /\ older' = MoveToEnd(Present, ks, KeySet(ks))
  /\ loadRefs' = [k \in Keys |-> IF k \in KeySet(ks) THEN loadRefs[k] + 1 ELSE loadRefs[k]]
  /\ HandOver(j, "load", ks, {<<k, present[k]>> : k \in KeySet(ks)})

SubmitLoad(j, ks) ==
  /\ Submitted(j)
  /\ UNCHANGED <<present, storing, free, counters>>
  /\ \/ LoadMissing(j, ks)
     \/ LoadRingFull(j, ks)
     \/ LoadAccepted(j, ks)

-----------------------------------------------------------------------------
(* drain_jobs, shutdown *)

DrainCall ==
  /\ Callable
  /\ pc' = "drain"
  /\ closing' \in BOOLEAN   \* shutdown starts with the same drain
  /\ UNCHANGED <<engineVars, ledger, localResults, counters, batch, results, history>>

\* drain waits until every accepted job's result is out.
DrainReturn ==
  /\ pc = "drain" /\ ~closing
  /\ Pending = {}
  /\ pc' = "ready"
  /\ UNCHANGED <<engineVars, ledger, localResults, counters, closing, batch, results, history>>

-----------------------------------------------------------------------------
(* get_finished_jobs *)

BeginHarvest(B) ==
  /\ \/ Callable
     \/ pc = "drain" /\ closing /\ Pending = {}
  /\ Poll(B)
  /\ batch' = [j \in JobIds |->
                 IF j \notin B THEN "none" ELSE IF Verdict(j) THEN "ok" ELSE "fail"]
  /\ results' = localResults
  /\ localResults' = {}
  /\ pc' = "harvest"
  /\ UNCHANGED <<records, disk, misread, ledger, counters, closing, history>>

\* What handling any polled job adds to its own bookkeeping.
Handled(j, verdict) ==
  /\ pc = "harvest"
  /\ batch[j] = verdict
  /\ batch' = [batch EXCEPT ![j] = "none"]
  /\ jobKeys' = [jobKeys EXCEPT ![j] = NoKeys]
  /\ results' = results \cup {[job |-> j, ok |-> verdict = "ok"]}
  /\ UNCHANGED <<engineVars, localResults, pc, closing, history>>

StoreLanded(j) ==
  LET ks == jobKeys[j].keys IN
  /\ jobKeys[j].op = "store"
  /\ Handled(j, "ok")
  /\ storing' = [k \in Keys |-> IF k \in ks THEN NoSlot ELSE storing[k]]
  /\ present' = [k \in Keys |-> IF k \in ks THEN storing[k] ELSE present[k]]
  /\ older' = MoveToEnd(Present \cup ks, jobKeys[j].list, ks)
  /\ everStored' = everStored \cup ks
  /\ counters' = [counters EXCEPT
                    !["first"] = @ + Cardinality(ks \ everStored),
                    !["rewrite"] = @ + Cardinality(ks \cap everStored)]
  /\ UNCHANGED <<loadRefs, free>>

StoreFailed(j) ==
  LET ks == jobKeys[j].keys IN
  /\ jobKeys[j].op = "store"
  /\ Handled(j, "fail")
  /\ storing' = [k \in Keys |-> IF k \in ks THEN NoSlot ELSE storing[k]]
  /\ free' = free \cup {storing[k] : k \in ks}
  /\ counters' = [counters EXCEPT !["ioFailed"] = @ + Cardinality(ks)]
  /\ UNCHANGED <<present, older, loadRefs, everStored>>

\* _unpin of every key of the job.
Unpinned(ks) ==
  [k \in Keys |-> IF k \in ks /\ loadRefs[k] > 0 THEN loadRefs[k] - 1 ELSE loadRefs[k]]

LoadLanded(j) ==
  /\ jobKeys[j].op = "load"
  /\ Handled(j, "ok")
  /\ loadRefs' = Unpinned(jobKeys[j].keys)
  /\ UNCHANGED <<present, older, storing, free, everStored, counters>>

\* Mutation: evicts keys another load still reads.
LoadFailedEvictsPinned(j) ==
  LET ks == jobKeys[j].keys
      suspect == ks \cap Present
  IN
  /\ jobKeys[j].op = "load"
  /\ Handled(j, "fail")
  /\ loadRefs' = Unpinned(ks)
  /\ Evict(suspect)
  /\ free' = free \cup SlotsOf(suspect)
  /\ counters' = [counters EXCEPT !["evictedSuspect"] = @ + Cardinality(suspect)]
  /\ UNCHANGED <<storing, everStored>>

\* What is on disk is suspect: evict every key no other load still pins.
LoadFailed(j) ==
  LET ks == jobKeys[j].keys
      suspect == {k \in ks \cap Present : Unpinned(ks)[k] = 0}
  IN
  /\ jobKeys[j].op = "load"
  /\ Handled(j, "fail")
  /\ loadRefs' = Unpinned(ks)
  /\ Evict(suspect)
  /\ free' = free \cup SlotsOf(suspect)
  /\ counters' = [counters EXCEPT !["evictedSuspect"] = @ + Cardinality(suspect)]
  /\ UNCHANGED <<storing, everStored>>

\* Mutation: rows are left to the periodic dump.
EndHarvestWithoutFlush ==
  /\ pc = "harvest"
  /\ batch = [j \in JobIds |-> "none"]
  /\ answers' = [j \in JobIds |->
       IF closing THEN answers[j]
       ELSE answers[j] + Cardinality({r \in results : r.job = j})]
  /\ results' = {}
  /\ pc' = IF closing THEN "down" ELSE "ready"
  /\ UNCHANGED <<engineVars, ledger, localResults, counters, closing, batch,
                 onFile, lostRows, route>>

\* The batch is handled: append the engine's rows to the file (all of them
\* or, on an OSError, none) and return the results.  shutdown throws the
\* results away and ends here.
EndHarvest ==
  /\ pc = "harvest"
  /\ batch = [j \in JobIds |-> "none"]
  /\ TakeRecords
  /\ \/ onFile' = onFile \cup records /\ lostRows' = lostRows
     \/ AppendFails /\ lostRows' = lostRows \cup records /\ onFile' = onFile
  /\ answers' = [j \in JobIds |->
       IF closing THEN answers[j]
       ELSE answers[j] + Cardinality({r \in results : r.job = j})]
  /\ results' = {}
  /\ pc' = IF closing THEN "down" ELSE "ready"
  /\ UNCHANGED <<job, disk, misread, ledger, localResults, counters, closing, batch, route>>

\* Mutation: forgets the answers that never saw the engine.
HasPendingWorkEngineOnly == \E j \in JobIds : jobKeys[j].live

HasPendingWork == (\E j \in JobIds : jobKeys[j].live) \/ localResults # {}

-----------------------------------------------------------------------------
EngineRuns(j) ==
  /\ EngineStep(j)
  /\ UNCHANGED <<ledger, localResults, counters, control, history>>

HarvestOne(j) ==
  StoreLanded(j) \/ StoreFailed(j) \/ LoadLanded(j) \/ LoadFailed(j)

\* After shutdown nothing is called any more.
Down == pc = "down" /\ UNCHANGED vars

Next ==
  \/ \E ks \in KeyLists : Touch(ks)
  \/ \E j \in JobIds, ks \in KeyLists : SubmitStore(j, ks) \/ SubmitLoad(j, ks)
  \/ DrainCall \/ DrainReturn
  \/ \E B \in SUBSET JobIds : BeginHarvest(B)
  \/ \E j \in JobIds : HarvestOne(j)
  \/ EndHarvest
  \/ \E j \in JobIds : EngineRuns(j)
  \/ Down

Spec == Init /\ [][Next]_vars

\* The framework keeps polling while has_pending_work, whatever else it
\* calls; a drain that can return does, shutdown goes on after it, and the
\* engine's worker and the device never stall.
Fairness ==
  /\ SF_vars(HasPendingWork /\ \E B \in SUBSET JobIds : BeginHarvest(B))
  /\ WF_vars(DrainReturn)
  /\ WF_vars(closing /\ \E B \in SUBSET JobIds : BeginHarvest(B))
  /\ WF_vars(EndHarvest)
  /\ \A j \in JobIds : WF_vars(HarvestOne(j)) /\ WF_vars(EngineRuns(j))

LiveSpec == Spec /\ Fairness

-----------------------------------------------------------------------------
(* Safety *)

Live(op) == {j \in JobIds : jobKeys[j].live /\ jobKeys[j].op = op}

\* The slots a key occupies, landed or on its way.
SlotsHeldBy(k) == {present[k], storing[k]} \ {NoSlot}

\* Every slot is in exactly one place: free, under a landed key or under a
\* key being stored, whatever mixture of evictions, rejections, rollbacks and
\* failures came before (_take_slots, submit_store, get_finished_jobs).
SlotsPartitioned ==
  /\ Slots = free \cup UNION {SlotsHeldBy(k) : k \in Keys}
  /\ \A k \in Keys : SlotsHeldBy(k) \cap free = {}
  /\ \A k1, k2 \in Keys : k1 # k2 => SlotsHeldBy(k1) \cap SlotsHeldBy(k2) = {}
  /\ Present \cap Storing = {}

LoadsOf(k) == {j \in Live("load") : k \in jobKeys[j].keys}

\* A key's reference count is the number of its loads in flight.
RefsCountLoads == \A k \in Keys : loadRefs[k] = Cardinality(LoadsOf(k))

\* A key some load in flight reads is present: neither evicted nor rewritten.
LoadsArePinned == \A j \in Live("load") : jobKeys[j].keys \subseteq Present

\* The keys being stored are those of the store jobs in flight, each of one
\* job only: _storing.pop(k) never misses.
StoringMatchesStores ==
  /\ Storing = UNION {jobKeys[j].keys : j \in Live("store")}
  /\ \A i, j \in Live("store") : i # j => jobKeys[i].keys \cap jobKeys[j].keys = {}

\* _job_keys has exactly the jobs the engine still owes or that are being
\* harvested: _job_keys.pop(job_id) never misses.
LedgerMatchesEngine ==
  \A j \in JobIds :
    /\ jobKeys[j].live <=> job[j].stage # "none" \/ batch[j] # "none"
    /\ job[j].stage # "none" => job[j].op = jobKeys[j].op
    /\ batch[j] # "none" => job[j].stage = "none" /\ pc = "harvest"

\* The slot the ledger gives a job's key.
SlotFor(j, k) == IF jobKeys[j].op = "store" THEN storing[k] ELSE present[k]

\* What the engine has left to move is what the ledger says, slot for slot.
TransfersFollowLedger ==
  \A j \in JobIds : \A x \in job[j].left :
    /\ job[j].stage = "running"
    /\ x[1] \in jobKeys[j].keys
    /\ x[2] = SlotFor(j, x[1])

\* Until a store has failed, each of its blocks is on disk or still to move.
StoresReachDisk ==
  \A j \in Live("store") : \A k \in jobKeys[j].keys :
    batch[j] = "ok" \/ (job[j].stage # "none" /\ ~job[j].failed) =>
      <<k, storing[k]>> \in job[j].left \/ disk[storing[k]] = k

\* The order of _present is a strict total order of the landed keys.
RecencyIsOrder ==
  /\ older \subseteq Present \X Present
  /\ \A a, b \in Present : a # b => (<<a, b>> \in older <=> <<b, a>> \notin older)
  /\ \A a \in Present : <<a, a>> \notin older
  /\ \A p, q \in older : p[2] = q[1] => <<p[1], q[2]>> \in older

\* _take_slots(n) returns n slots or nothing.
TakesExactly ==
  \A n \in 1..MaxBlocks : Obtainable(n) => \A T \in TakenSets(n) : Cardinality(T) = n

\* The ledger's dictionaries agree with each other and with the engine.
LedgerConsistent ==
  /\ TakesExactly
  /\ RefsCountLoads
  /\ LoadsArePinned
  /\ StoringMatchesStores
  /\ LedgerMatchesEngine
  /\ TransfersFollowLedger
  /\ StoresReachDisk
  /\ RecencyIsOrder

\* Two transfers the engine may perform at the same time touch one slot only
\* when both read it: an eviction never hands out a slot still being read,
\* nor a rollback one still being written.
NoSlotConflict ==
  \A i, j \in Pending : \A x \in job[i].left, y \in job[j].left :
    x[2] = y[2] => \/ i = j /\ x = y
                   \/ job[i].op = "load" /\ job[j].op = "load"

\* A key lookup answers True for has its own block in its slot, and no load
\* has ever copied another key's block into primary memory.
LoadsReadOwnBlocks ==
  /\ \A k \in Present : disk[present[k]] = k
  /\ misread = {}

\* The inductive invariant behind the three above: the ledger's parts that
\* say who owns a slot and what the engine is doing to it.
LedgerInv ==
  /\ TypeOK
  /\ SlotsPartitioned
  /\ RefsCountLoads
  /\ LoadsArePinned
  /\ StoringMatchesStores
  /\ LedgerMatchesEngine
  /\ TransfersFollowLedger
  /\ StoresReachDisk
  /\ LoadsReadOwnBlocks

\* shutdown leaves no store, pin, job or transfer behind: the last batch is
\* harvested and accounted for (test_stats_dump_on_shutdown).
ShutdownHarvestsAll ==
  pc = "down" => /\ Storing = {} /\ Pinned = {} /\ Pending = {}
                 /\ \A j \in JobIds : ~jobKeys[j].live

\* The funnel of test_counter_funnel closes at every moment: each offered
\* block is filtered, rejected, landed (first time or again), failed or in
\* flight; each landed one is present or was counted when it was evicted; and
\* shutdown leaves nothing in flight, so its last numbers are final.
CountersClose ==
  /\ ShutdownHarvestsAll
  /\ counters["offered"] =
       counters["filtered"] + counters["rejectedCapacity"] + counters["rejectedRing"]
       + counters["first"] + counters["rewrite"] + counters["ioFailed"]
       + Cardinality(Storing)
  /\ counters["first"] + counters["rewrite"] =
       Cardinality(Present) + counters["evicted"] + counters["evictedSuspect"]
  /\ counters["first"] = Cardinality(everStored)

\* No job is answered twice, and while the framework may ask,
\* has_pending_work is true exactly as long as some submitted job has no
\* answer: it never stops polling with an answer outstanding.
AnswersComplete ==
  /\ \A j \in JobIds : answers[j] <= 1 /\ (route[j] = "new" => answers[j] = 0)
  /\ Callable => (HasPendingWork <=> \E j \in JobIds : route[j] # "new" /\ answers[j] = 0)

\* The row of every job answered through the engine has been appended (or
\* dropped by a failed append): no answer overtakes its row, so killing the
\* process after an answer loses nothing (_flush_records).
RowsFollowAnswers ==
  \A j \in JobIds :
    route[j] = "engine" /\ (answers[j] > 0 \/ pc = "down") => j \in onFile \cup lostRows

-----------------------------------------------------------------------------
(* Action properties *)

\* A store never evicts a key while it keeps an unpinned one that is older,
\* nor evicts anything while free slots suffice for what it must write.
EvictsOldestFirst ==
  [][\A j \in JobIds, ks \in KeyLists :
       SubmitStore(j, ks) =>
         \A v \in Present : present'[v] = NoSlot =>
           /\ Cardinality(ToStore(ks)) > Cardinality(free)
           /\ \A u \in Evictable : <<u, v>> \in older => present'[u] = NoSlot]_vars

-----------------------------------------------------------------------------
(* Liveness *)

\* Every submitted job is answered unless the tier is shut down.
EveryJobAnswered ==
  \A j \in JobIds : route[j] # "new" ~> answers[j] = 1 \/ closing

\* shutdown comes to an end.
ShutdownEnds == closing ~> pc = "down"
=============================================================================
