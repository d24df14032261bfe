------------------------ MODULE TierManager_proofs -------------------------
(***************************************************************************)
(* Theorems about TierManager, for all sets of keys, slots and jobs.       *)
(*                                                                         *)
(* First the ledger: every action keeps the types, LedgerInv is inductive, *)
(* and what follows.  Then the recency order and what _take_slots does     *)
(* with it: the order stays total, an eviction takes the oldest unpinned   *)
(* keys, exactly as many as the free slots fall short.  Last what the      *)
(* manager owes its callers: every job is answered once and asked for as   *)
(* long as it is not, its row is appended before that, shutdown leaves     *)
(* nothing behind and the store funnel closes.                             *)
(***************************************************************************)
EXTENDS TierManager, FiniteSetTheorems, FunctionTheorems, TLAPS

-----------------------------------------------------------------------------
(* Operators *)

\* The keys of a job are a sequence of keys.
LEMMA KeyListFacts ==
  ASSUME NEW ks \in KeyLists
  PROVE  /\ ks \in Seq(Keys)
         /\ KeySet(ks) \subseteq Keys
         /\ Len(ks) \in Nat
         /\ DOMAIN ks = 1..Len(ks)
<1>1. PICK n \in 0..MaxBlocks : ks \in [1..n -> Keys]
  BY DEF KeyLists
<1>2. ks \in Seq(Keys)
  BY <1>1, MaxBlocksAssumption
<1> QED
  BY <1>1, <1>2 DEF KeySet

\* A set of keys is finite, so its cardinality is a natural number.
LEMMA KeySubsets ==
  ASSUME NEW S \in SUBSET Keys
  PROVE  IsFiniteSet(S) /\ Cardinality(S) \in Nat
BY FiniteAssumption, FS_Subset, FS_CardinalityType

\* A set of jobs is finite, so its cardinality is a natural number.
LEMMA JobSubsets ==
  ASSUME NEW S \in SUBSET JobIds
  PROVE  IsFiniteSet(S) /\ Cardinality(S) \in Nat
BY FiniteAssumption, FS_Subset, FS_CardinalityType

\* A job names at least as many blocks as it has keys left to store.
LEMMA ToStoreBound ==
  ASSUME NEW ks \in KeyLists
  PROVE  /\ ToStore(ks) \in SUBSET Keys
         /\ Cardinality(ToStore(ks)) \in 0..Len(ks)
<1>1. ks \in [1..Len(ks) -> Keys] /\ Len(ks) \in Nat /\ KeySet(ks) \subseteq Keys
  BY KeyListFacts
<1>2. ks \in Surjection(1..Len(ks), KeySet(ks))
  BY <1>1 DEF Surjection, KeySet
<1>3. IsFiniteSet(1..Len(ks)) /\ Cardinality(1..Len(ks)) = Len(ks)
  <2>1. Len(ks) \in Int /\ 1 \in Int
    BY <1>1
  <2>2. /\ IsFiniteSet(1..Len(ks))
        /\ Cardinality(1..Len(ks)) = IF 1 > Len(ks) THEN 0 ELSE Len(ks) - 1 + 1
    BY <2>1, FS_Interval, Zenon
  <2> QED
    BY <1>1, <2>2
<1>4. IsFiniteSet(KeySet(ks)) /\ Cardinality(KeySet(ks)) <= Len(ks)
  BY <1>2, <1>3, FS_Surjection
<1>5. ToStore(ks) \in SUBSET KeySet(ks)
  BY DEF ToStore
<1>6. Cardinality(ToStore(ks)) <= Cardinality(KeySet(ks))
  BY <1>4, <1>5, FS_Subset
<1>7. ToStore(ks) \in SUBSET Keys
  BY <1>1, <1>5
<1>8. Cardinality(ToStore(ks)) \in Nat /\ Cardinality(KeySet(ks)) \in Nat
  BY <1>1, <1>7, KeySubsets
<1> QED
  BY <1>1, <1>4, <1>6, <1>7, <1>8

-----------------------------------------------------------------------------
(* Types *)

\* The engine's part of the type invariant survives the scheduler's calls.
LEMMA AcceptType ==
  ASSUME TypeOK, NEW j \in JobIds, NEW op \in Ops, NEW xs \in SUBSET Xfers,
         Accept(j, op, xs)
  PROVE  EngineTypeOK'
BY DEF TypeOK, EngineTypeOK, Accept, JobState, Stages

\* The engine's part of the type invariant survives the engine's own steps.
LEMMA EngineStepType ==
  ASSUME TypeOK, NEW j \in JobIds, EngineStep(j)
  PROVE  EngineTypeOK'
<1>0. /\ job \in [JobIds -> JobState] /\ disk \in [Slots -> Keys \cup {Blank}]
      /\ records \in SUBSET JobIds /\ misread \in SUBSET Keys
  BY DEF TypeOK, EngineTypeOK
<1>1. ASSUME NEW x \in job[j].left, NEW bad \in BOOLEAN, Moved(j, x, bad)
      PROVE  job' \in [JobIds -> JobState] /\ x \in Keys \X Slots
  BY <1>0, <1>1 DEF Moved, JobState, Xfers
<1>2. ASSUME NEW x \in job[j].left, WriteBlock(j, x) PROVE EngineTypeOK'
  BY <1>0, <1>1, <1>2 DEF WriteBlock, EngineTypeOK
<1>3. ASSUME NEW x \in job[j].left, ReadBlock(j, x) PROVE EngineTypeOK'
  BY <1>0, <1>1, <1>3 DEF ReadBlock, EngineTypeOK
<1>4. ASSUME NEW x \in job[j].left, FailBlock(j, x) PROVE EngineTypeOK'
  BY <1>0, <1>1, <1>4 DEF FailBlock, EngineTypeOK
<1>5. ASSUME Log(j) \/ Publish(j) PROVE EngineTypeOK'
  BY <1>0, <1>5 DEF Log, Publish, EngineTypeOK, JobState, Stages
<1> QED
  BY <1>2, <1>3, <1>4, <1>5 DEF EngineStep

\* move_to_end of any keys leaves an order on keys.
LEMMA MoveToEndType ==
  ASSUME TypeOK, NEW dom \in SUBSET Keys, NEW ks, NEW S \in SUBSET Keys
  PROVE  MoveToEnd(dom, ks, S) \in SUBSET (Keys \X Keys)
BY DEF TypeOK, MoveToEnd

\* The helpers of _take_slots pick landed keys, and slots for them.
LEMMA SlotTypes ==
  ASSUME TypeOK
  PROVE  /\ Present \in SUBSET Keys /\ Storing \in SUBSET Keys /\ Evictable \in SUBSET Keys
         /\ \A V \in SUBSET Present : SlotsOf(V) \subseteq Slots
         /\ \A n : Victims(n) \in SUBSET Evictable
         /\ Evictable \in SUBSET Present
BY DEF TypeOK, Present, Storing, Evictable, Pinned, SlotsOf, Victims

\* An eviction leaves _present a map from keys to slots.
LEMMA EvictType ==
  ASSUME TypeOK, NEW V, Evict(V)
  PROVE  /\ present' \in [Keys -> Slots \cup {NoSlot}]
         /\ older' \in SUBSET (Keys \X Keys)
BY DEF TypeOK, Evict, Without

\* The number of keys _take_slots evicts is a natural number.
LEMMA VictimCount ==
  ASSUME TypeOK, NEW n
  PROVE  Cardinality(Victims(n)) \in Nat
BY SlotTypes, KeySubsets

\* Handing a job to the engine keeps the types of what it changes.
LEMMA HandOverType ==
  ASSUME TypeOK, NEW j \in JobIds, NEW op \in Ops, NEW ks \in KeyLists,
         NEW xs \in SUBSET Xfers, HandOver(j, op, ks, xs)
  PROVE  /\ EngineTypeOK'
         /\ jobKeys' \in [JobIds -> [op : Ops, list : KeyLists, keys : SUBSET Keys, live : BOOLEAN]]
         /\ route' \in [JobIds -> {"new", "local", "engine"}]
         /\ localResults' \in SUBSET Result
<1>1. {x[1] : x \in xs} \in SUBSET Keys
  BY DEF Xfers
<1> QED
  BY <1>1, AcceptType DEF TypeOK, HandOver

\* Answering a job without the engine keeps the types of what it changes.
LEMMA AnswerType ==
  ASSUME TypeOK, NEW j \in JobIds, NEW ok \in BOOLEAN, AnswerLocally(j, ok)
  PROVE  /\ EngineTypeOK'
         /\ jobKeys' \in [JobIds -> [op : Ops, list : KeyLists, keys : SUBSET Keys, live : BOOLEAN]]
         /\ route' \in [JobIds -> {"new", "local", "engine"}]
         /\ localResults' \in SUBSET Result
BY DEF TypeOK, AnswerLocally, Result, engineVars, EngineTypeOK

\* Setting one counter or two to natural numbers leaves counters.
LEMMA CounterUpdates ==
  ASSUME NEW f \in [Counts -> Nat], NEW a \in Counts, NEW b \in Counts,
         NEW u \in Nat, NEW v \in Nat
  PROVE  /\ [f EXCEPT ![a] = u] \in [Counts -> Nat]
         /\ [f EXCEPT ![a] = u, ![b] = v] \in [Counts -> Nat]
OBVIOUS

\* The names of the counters.
LEMMA CounterNames ==
  /\ "offered" \in Counts /\ "filtered" \in Counts /\ "rejectedCapacity" \in Counts
  /\ "rejectedRing" \in Counts /\ "first" \in Counts /\ "rewrite" \in Counts
  /\ "ioFailed" \in Counts /\ "evicted" \in Counts /\ "evictedSuspect" \in Counts
BY DEF Counts

\* submit_store keeps the type invariant, whichever way it returns.
LEMMA SubmitStoreType ==
  ASSUME TypeOK, NEW j \in JobIds, NEW ks \in KeyLists, SubmitStore(j, ks)
  PROVE  TypeOK'
<1> DEFINE n == Cardinality(ToStore(ks))
<1>1. /\ Len(ks) \in Nat /\ n \in 0..Len(ks) /\ ToStore(ks) \in SUBSET Keys
  BY KeyListFacts, ToStoreBound
<1>2. StoreCounts(ks) \in [Counts -> Nat]
  <2>1. Len(ks) - n \in Nat /\ counters \in [Counts -> Nat]
    BY <1>1 DEF TypeOK
  <2>2. counters["offered"] \in Nat /\ counters["filtered"] \in Nat
    BY <2>1, CounterNames
  <2>3. /\ counters["offered"] + Len(ks) \in Nat
        /\ counters["filtered"] + Len(ks) - n \in Nat
    BY <1>1, <2>1, <2>2
  <2> QED
    BY <2>1, <2>3, CounterNames, CounterUpdates DEF StoreCounts
<1>3. Cardinality(Victims(n)) \in Nat /\ Victims(n) \in SUBSET Present
  BY VictimCount, SlotTypes
<1>4. SlotsOf(Victims(n)) \subseteq Slots
  BY <1>3, SlotTypes
<1>5. /\ loadRefs' \in [Keys -> Nat] /\ everStored' \in SUBSET Keys
      /\ onFile' \in SUBSET JobIds /\ lostRows' \in SUBSET JobIds
      /\ answers' \in [JobIds -> Nat]
      /\ pc' \in {"ready", "drain", "harvest", "down"} /\ closing' \in BOOLEAN
      /\ batch' \in [JobIds -> {"none", "ok", "fail"}] /\ results' \in SUBSET Result
  BY DEF SubmitStore, Submitted, control, TypeOK
<1>6. CASE StoreNothing(j, ks)
  BY <1>2, <1>5, <1>6, AnswerType DEF StoreNothing, TypeOK
<1>7. CASE StoreNoRoom(j, ks)
  <2>1. counters' \in [Counts -> Nat]
    <3>1. /\ StoreCounts(ks)["rejectedCapacity"] + n \in Nat
          /\ StoreCounts(ks)["evicted"] + Cardinality(Victims(n)) \in Nat
      BY <1>1, <1>2, <1>3, CounterNames
    <3> QED
      BY <1>2, <1>7, <3>1, CounterNames, CounterUpdates DEF StoreNoRoom
  <2>2. AnswerLocally(j, FALSE) /\ Evict(Victims(n)) /\ storing' = storing
        /\ free' = free \cup SlotsOf(Victims(n))
    BY <1>7 DEF StoreNoRoom
  <2> QED
    BY <1>4, <1>5, <2>1, <2>2, AnswerType, EvictType DEF TypeOK
<1>8. CASE StoreRingFull(j, ks)
  <2>1. counters' \in [Counts -> Nat]
    <3>1. /\ StoreCounts(ks)["rejectedRing"] + n \in Nat
          /\ StoreCounts(ks)["evicted"] + Cardinality(Victims(n)) \in Nat
      BY <1>1, <1>2, <1>3, CounterNames
    <3> QED
      BY <1>2, <1>8, <3>1, CounterNames, CounterUpdates DEF StoreRingFull
  <2>2. AnswerLocally(j, FALSE) /\ Evict(Victims(n)) /\ storing' = storing
        /\ free' = free \cup SlotsOf(Victims(n))
    BY <1>8 DEF StoreRingFull
  <2> QED
    BY <1>4, <1>5, <2>1, <2>2, AnswerType, EvictType DEF TypeOK
<1>9. CASE StoreAccepted(j, ks)
  <2>1. counters' \in [Counts -> Nat]
    <3>1. StoreCounts(ks)["evicted"] + Cardinality(Victims(n)) \in Nat
      BY <1>2, <1>3, CounterNames
    <3> QED
      BY <1>2, <1>9, <3>1, CounterNames, CounterUpdates DEF StoreAccepted
  <2>a. PICK T \in TakenSets(n) : \E slot \in Bijection(ToStore(ks), T) :
          /\ free' = free \ T
          /\ storing' = [k \in Keys |-> IF k \in ToStore(ks) THEN slot[k] ELSE storing[k]]
          /\ HandOver(j, "store", ks, {<<k, slot[k]>> : k \in ToStore(ks)})
    BY <1>9 DEF StoreAccepted
  <2>2. PICK slot \in Bijection(ToStore(ks), T) :
          /\ free' = free \ T
          /\ storing' = [k \in Keys |-> IF k \in ToStore(ks) THEN slot[k] ELSE storing[k]]
          /\ HandOver(j, "store", ks, {<<k, slot[k]>> : k \in ToStore(ks)})
    BY <2>a
  <2>b. Evict(Victims(n))
    BY <1>9 DEF StoreAccepted
  <2>3. T \subseteq Slots
    BY <1>4 DEF TakenSets, TypeOK
  <2>4. slot \in [ToStore(ks) -> Slots]
    BY <2>2, <2>3 DEF Bijection, Surjection, Injection
  <2>5. {<<k, slot[k]>> : k \in ToStore(ks)} \in SUBSET Xfers
    BY <1>1, <2>4 DEF Xfers
  <2>6. "store" \in Ops
    BY DEF Ops
  <2>7. storing' \in [Keys -> Slots \cup {NoSlot}] /\ free' \in SUBSET Slots
    BY <2>2, <2>4 DEF TypeOK
  <2> QED
    BY <1>5, <2>1, <2>b, <2>2, <2>5, <2>6, <2>7, HandOverType, EvictType DEF TypeOK
<1> QED
  BY <1>6, <1>7, <1>8, <1>9 DEF SubmitStore

\* submit_load keeps the type invariant, whichever way it returns.
LEMMA SubmitLoadType ==
  ASSUME TypeOK, NEW j \in JobIds, NEW ks \in KeyLists, SubmitLoad(j, ks)
  PROVE  TypeOK'
<1>1. KeySet(ks) \in SUBSET Keys /\ Present \in SUBSET Keys
  BY KeyListFacts, SlotTypes
<1>2. MoveToEnd(Present, ks, KeySet(ks)) \in SUBSET (Keys \X Keys)
  BY <1>1, MoveToEndType
<1>3. /\ everStored' \in SUBSET Keys /\ onFile' \in SUBSET JobIds /\ lostRows' \in SUBSET JobIds
      /\ answers' \in [JobIds -> Nat]
      /\ pc' \in {"ready", "drain", "harvest", "down"} /\ closing' \in BOOLEAN
      /\ batch' \in [JobIds -> {"none", "ok", "fail"}] /\ results' \in SUBSET Result
  BY DEF SubmitLoad, Submitted, control, TypeOK
<1>4. /\ present' \in [Keys -> Slots \cup {NoSlot}] /\ storing' \in [Keys -> Slots \cup {NoSlot}]
      /\ free' \in SUBSET Slots /\ counters' \in [Counts -> Nat]
  BY DEF SubmitLoad, TypeOK
<1>5. CASE LoadMissing(j, ks)
  BY <1>3, <1>4, <1>5, AnswerType DEF LoadMissing, TypeOK
<1>6. CASE LoadRingFull(j, ks)
  BY <1>2, <1>3, <1>4, <1>6, AnswerType DEF LoadRingFull, TypeOK
<1>7. CASE LoadAccepted(j, ks)
  <2>1. loadRefs' \in [Keys -> Nat]
    BY <1>7 DEF LoadAccepted, TypeOK
  <2>2. {<<k, present[k]>> : k \in KeySet(ks)} \in SUBSET Xfers
    BY <1>1, <1>7 DEF LoadAccepted, Present, Xfers, TypeOK
  <2>3. "load" \in Ops
    BY DEF Ops
  <2>4. HandOver(j, "load", ks, {<<k, present[k]>> : k \in KeySet(ks)})
        /\ older' = MoveToEnd(Present, ks, KeySet(ks))
    BY <1>7 DEF LoadAccepted
  <2> QED
    BY <1>2, <1>3, <1>4, <2>1, <2>2, <2>3, <2>4, HandOverType DEF TypeOK
<1> QED
  BY <1>5, <1>6, <1>7 DEF SubmitLoad

\* Taking a polled job off the batch keeps the types of what it changes.
LEMMA HandledType ==
  ASSUME TypeOK, NEW j \in JobIds, NEW verdict \in {"ok", "fail"}, Handled(j, verdict)
  PROVE  /\ EngineTypeOK' /\ localResults' \in SUBSET Result
         /\ jobKeys' \in [JobIds -> [op : Ops, list : KeyLists, keys : SUBSET Keys, live : BOOLEAN]]
         /\ pc' \in {"ready", "drain", "harvest", "down"} /\ closing' \in BOOLEAN
         /\ batch' \in [JobIds -> {"none", "ok", "fail"}] /\ results' \in SUBSET Result
         /\ onFile' \in SUBSET JobIds /\ lostRows' \in SUBSET JobIds
         /\ route' \in [JobIds -> {"new", "local", "engine"}] /\ answers' \in [JobIds -> Nat]
<1>1. NoKeys \in [op : Ops, list : KeyLists, keys : SUBSET Keys, live : BOOLEAN]
  <2>1. << >> \in KeyLists
    <3>1. << >> \in [1..0 -> Keys] /\ 0 \in 0..MaxBlocks
      BY MaxBlocksAssumption
    <3> QED
      BY <3>1 DEF KeyLists
  <2> QED
    BY <2>1 DEF NoKeys, Ops
<1>2. [job |-> j, ok |-> verdict = "ok"] \in Result
  BY DEF Result
<1> QED
  BY <1>1, <1>2 DEF Handled, TypeOK, engineVars, history, EngineTypeOK

\* Handling one polled job keeps the type invariant.  A failed store returns
\* slots it finds in _storing, so its keys must be there.
LEMMA HarvestOneType ==
  ASSUME TypeOK, NEW j \in JobIds, HarvestOne(j),
         jobKeys[j].op = "store" => jobKeys[j].keys \subseteq Storing
  PROVE  TypeOK'
<1> DEFINE ks == jobKeys[j].keys
<1>1. ks \in SUBSET Keys
  BY DEF TypeOK
<1>2. \A S \in SUBSET Keys : Cardinality(S) \in Nat
  BY KeySubsets
<1>3. counters \in [Counts -> Nat] /\ everStored \in SUBSET Keys
  BY DEF TypeOK
<1>4. Unpinned(ks) \in [Keys -> Nat]
  BY DEF Unpinned, TypeOK
<1>5. CASE StoreLanded(j)
  <2>1. /\ storing' \in [Keys -> Slots \cup {NoSlot}] /\ present' \in [Keys -> Slots \cup {NoSlot}]
        /\ everStored' \in SUBSET Keys /\ loadRefs' \in [Keys -> Nat] /\ free' \in SUBSET Slots
    BY <1>1, <1>5 DEF StoreLanded, TypeOK
  <2>2. older' \in SUBSET (Keys \X Keys)
    BY <1>1, <1>5, MoveToEndType, SlotTypes DEF StoreLanded
  <2>3. counters' \in [Counts -> Nat]
    <3>1. /\ counters["first"] + Cardinality(ks \ everStored) \in Nat
          /\ counters["rewrite"] + Cardinality(ks \cap everStored) \in Nat
      BY <1>1, <1>2, <1>3, CounterNames
    <3> QED
      BY <1>3, <1>5, <3>1, CounterNames, CounterUpdates DEF StoreLanded
  <2> QED
    BY <1>5, <2>1, <2>2, <2>3, HandledType DEF StoreLanded, TypeOK
<1>6. CASE StoreFailed(j)
  <2>1. Handled(j, "fail") /\ older' = older
    BY <1>6 DEF StoreFailed
  <2>2. /\ storing' \in [Keys -> Slots \cup {NoSlot}] /\ present' \in [Keys -> Slots \cup {NoSlot}]
        /\ everStored' \in SUBSET Keys /\ loadRefs' \in [Keys -> Nat]
    BY <1>1, <1>6 DEF StoreFailed, TypeOK
  <2>3. free' \in SUBSET Slots
    BY <1>1, <1>6 DEF StoreFailed, TypeOK, Storing
  <2>4. counters' \in [Counts -> Nat]
    BY <1>1, <1>2, <1>3, <1>6, CounterNames, CounterUpdates DEF StoreFailed
  <2> QED
    BY <2>1, <2>2, <2>3, <2>4, HandledType DEF TypeOK
<1>7. CASE LoadLanded(j)
  BY <1>4, <1>7, HandledType DEF LoadLanded, TypeOK
<1>8. CASE LoadFailed(j)
  <2> DEFINE suspect == {k \in ks \cap Present : Unpinned(ks)[k] = 0}
  <2>1. suspect \in SUBSET Present /\ suspect \in SUBSET Keys
    BY <1>1
  <2>2. /\ Handled(j, "fail") /\ storing' = storing /\ everStored' = everStored
        /\ loadRefs' = Unpinned(ks) /\ Evict(suspect) /\ free' = free \cup SlotsOf(suspect)
    BY <1>8 DEF LoadFailed
  <2>3. free' \in SUBSET Slots
    BY <2>1, <2>2, SlotTypes DEF TypeOK
  <2>4. counters' \in [Counts -> Nat]
    <3>1. counters["evictedSuspect"] + Cardinality(suspect) \in Nat
      BY <1>2, <1>3, <2>1, CounterNames
    <3> QED
      BY <1>3, <1>8, <3>1, CounterNames, CounterUpdates DEF LoadFailed
  <2> HIDE DEF suspect
  <2> QED
    BY <1>4, <2>2, <2>3, <2>4, HandledType, EvictType DEF TypeOK
<1> QED
  BY <1>5, <1>6, <1>7, <1>8 DEF HarvestOne

-----------------------------------------------------------------------------
(* Who owns a slot, slot by slot *)

\* SlotsPartitioned, said of single slots.
Owned ==
  /\ \A s \in Slots : s \in free \/ \E k \in Keys : present[k] = s \/ storing[k] = s
  /\ \A k \in Keys : present[k] \notin free /\ storing[k] \notin free
  /\ \A k \in Keys : present[k] = NoSlot \/ storing[k] = NoSlot
  /\ \A a, b \in Keys : a # b => /\ present[a] = present[b] => present[a] = NoSlot
                                 /\ storing[a] = storing[b] => storing[a] = NoSlot
                                 /\ present[a] = storing[b] => present[a] = NoSlot

\* A partition of the slots gives each slot one owner.
LEMMA PartitionOwned ==
  ASSUME TypeOK, SlotsPartitioned
  PROVE  Owned
<1>1. \A s \in Slots : s \in free \/ \E k \in Keys : present[k] = s \/ storing[k] = s
  BY DEF TypeOK, SlotsPartitioned, SlotsHeldBy
<1>2. \A k \in Keys : present[k] \notin free /\ storing[k] \notin free
  BY NoSlotAssumption DEF TypeOK, SlotsPartitioned, SlotsHeldBy
<1>3. \A k \in Keys : present[k] = NoSlot \/ storing[k] = NoSlot
  BY DEF SlotsPartitioned, Present, Storing
<1>4. ASSUME NEW a \in Keys, NEW b \in Keys, a # b
      PROVE  /\ present[a] = present[b] => present[a] = NoSlot
             /\ storing[a] = storing[b] => storing[a] = NoSlot
             /\ present[a] = storing[b] => present[a] = NoSlot
  BY <1>4 DEF SlotsPartitioned, SlotsHeldBy
<1> QED
  BY <1>1, <1>2, <1>3, <1>4 DEF Owned

\* And conversely, in the next state.
LEMMA OwnedPartition ==
  ASSUME TypeOK', Owned'
  PROVE  SlotsPartitioned'
<1>1. Slots = free' \cup UNION {SlotsHeldBy(k)' : k \in Keys}
  <2>1. ASSUME NEW s \in Slots
        PROVE  s \in free' \/ \E k \in Keys : s \in SlotsHeldBy(k)'
    BY NoSlotAssumption DEF Owned, SlotsHeldBy
  <2>2. free' \subseteq Slots /\ \A k \in Keys : SlotsHeldBy(k)' \subseteq Slots
    BY DEF TypeOK, SlotsHeldBy
  <2> QED
    BY <2>1, <2>2
<1>2. \A k \in Keys : SlotsHeldBy(k)' \cap free' = {}
  BY DEF Owned, SlotsHeldBy
<1>3. \A a, b \in Keys : a # b => SlotsHeldBy(a)' \cap SlotsHeldBy(b)' = {}
  BY DEF Owned, SlotsHeldBy
<1>4. Present' \cap Storing' = {}
  BY DEF Owned, Present, Storing
<1> QED
  BY <1>1, <1>2, <1>3, <1>4 DEF SlotsPartitioned

\* Evicting landed keys and freeing their slots keeps every slot owned once.
LEMMA EvictOwned ==
  ASSUME TypeOK, Owned, NEW V \in SUBSET Present, Evict(V),
         free' = free \cup SlotsOf(V), storing' = storing
  PROVE  Owned'
<1>1. \A k \in Keys : present'[k] = IF k \in V THEN NoSlot ELSE present[k]
  BY DEF Evict
<1>2. \A k \in V : k \in Keys /\ present[k] \in Slots /\ present[k] # NoSlot
  BY DEF Present, TypeOK
<1>3. \A s \in Slots : s \in free' \/ \E k \in Keys : present'[k] = s \/ storing'[k] = s
  BY <1>1, NoSlotAssumption DEF Owned, SlotsOf
<1>4. \A k \in Keys : present'[k] \notin free' /\ storing'[k] \notin free'
  BY <1>1, <1>2, NoSlotAssumption DEF Owned, SlotsOf, TypeOK
<1>5. \A k \in Keys : present'[k] = NoSlot \/ storing'[k] = NoSlot
  BY <1>1 DEF Owned
<1>6. ASSUME NEW a \in Keys, NEW b \in Keys, a # b
      PROVE  /\ present'[a] = present'[b] => present'[a] = NoSlot
             /\ storing'[a] = storing'[b] => storing'[a] = NoSlot
             /\ present'[a] = storing'[b] => present'[a] = NoSlot
  BY <1>1, <1>6 DEF Owned
<1> QED
  BY <1>3, <1>4, <1>5, <1>6 DEF Owned

\* A key is pinned exactly when some load in flight reads it.
LEMMA PinnedLoads ==
  ASSUME TypeOK, RefsCountLoads, NEW k \in Keys
  PROVE  /\ IsFiniteSet(LoadsOf(k)) /\ LoadsOf(k) \in SUBSET JobIds
         /\ loadRefs[k] = Cardinality(LoadsOf(k))
         /\ loadRefs[k] = 0 <=> LoadsOf(k) = {}
<1>1. LoadsOf(k) \in SUBSET JobIds
  BY DEF LoadsOf, Live
<1>2. IsFiniteSet(LoadsOf(k))
  BY <1>1, JobSubsets
<1>3. loadRefs[k] = Cardinality(LoadsOf(k))
  BY DEF RefsCountLoads
<1> QED
  BY <1>1, <1>2, <1>3, FS_EmptySet

-----------------------------------------------------------------------------
(* Steps that leave the slots, the jobs and the disk alone *)

\* What LedgerInv reads of the state, apart from its types.
Stable ==
  /\ UNCHANGED <<present, storing, loadRefs, free, jobKeys, job, disk, misread, batch>>
  /\ pc' = pc \/ \A j \in JobIds : batch[j] = "none"

\* Outside get_finished_jobs no polled job waits.
LEMMA NoBatch ==
  ASSUME LedgerMatchesEngine, pc # "harvest"
  PROVE  \A j \in JobIds : batch[j] = "none"
BY DEF LedgerMatchesEngine

\* Such a step keeps the invariant.
LEMMA StableStep ==
  ASSUME LedgerInv, TypeOK', Stable
  PROVE  LedgerInv'
<1>1. SlotsPartitioned'
  BY DEF LedgerInv, Stable, SlotsPartitioned, SlotsHeldBy, Present, Storing
<1>2. RefsCountLoads'
  BY DEF LedgerInv, Stable, RefsCountLoads, LoadsOf, Live
<1>3. LoadsArePinned' /\ StoringMatchesStores'
  BY DEF LedgerInv, Stable, LoadsArePinned, StoringMatchesStores, Live, Present, Storing
<1>4. LedgerMatchesEngine'
  BY DEF LedgerInv, Stable, LedgerMatchesEngine
<1>5. TransfersFollowLedger' /\ StoresReachDisk'
  BY DEF LedgerInv, Stable, TransfersFollowLedger, SlotFor, StoresReachDisk, Live
<1>6. LoadsReadOwnBlocks'
  BY DEF LedgerInv, Stable, LoadsReadOwnBlocks, Present
<1> QED
  BY <1>1, <1>2, <1>3, <1>4, <1>5, <1>6 DEF LedgerInv

\* touch keeps the invariant.
LEMMA TouchStep ==
  ASSUME LedgerInv, NEW ks \in KeyLists, Touch(ks)
  PROVE  LedgerInv'
<1>1. TypeOK
  BY DEF LedgerInv
<1>2. KeySet(ks) \cap Present \in SUBSET Keys /\ Present \in SUBSET Keys
  BY <1>1, KeyListFacts, SlotTypes
<1>3. older' \in SUBSET (Keys \X Keys)
  BY <1>1, <1>2, MoveToEndType DEF Touch
<1>4. TypeOK'
  BY <1>1, <1>3 DEF Touch, TypeOK, EngineTypeOK, engineVars, control, history
<1>5. Stable
  BY DEF Touch, Stable, engineVars, control
<1> QED
  BY <1>4, <1>5, StableStep

\* drain keeps the invariant, when it is called and when it returns.
LEMMA DrainStep ==
  ASSUME LedgerInv, DrainCall \/ DrainReturn
  PROVE  LedgerInv'
<1>1. TypeOK /\ LedgerMatchesEngine
  BY DEF LedgerInv
<1>2. pc # "harvest"
  BY DEF DrainCall, DrainReturn, Callable
<1>3. TypeOK'
  <2>1. pc' \in {"ready", "drain", "harvest", "down"} /\ closing' \in BOOLEAN
    BY <1>1 DEF TypeOK, DrainCall, DrainReturn
  <2>2. UNCHANGED <<engineVars, ledger, localResults, counters, batch, results, history>>
    BY DEF DrainCall, DrainReturn
  <2> QED
    BY <1>1, <2>1, <2>2 DEF TypeOK, EngineTypeOK, engineVars, ledger, history
<1>4. Stable
  BY <1>1, <1>2, NoBatch DEF Stable, DrainCall, DrainReturn, engineVars, ledger
<1> QED
  BY <1>3, <1>4, StableStep

\* A set of two is finite.
LEMMA PairFinite ==
  ASSUME NEW a, NEW b
  PROVE  IsFiniteSet({a, b})
<1>1. IsFiniteSet({a}) /\ IsFiniteSet({b})
  BY FS_Singleton
<1>2. IsFiniteSet({a} \cup {b})
  BY <1>1, FS_Union
<1>3. {a, b} = {a} \cup {b}
  OBVIOUS
<1> QED
  BY <1>2, <1>3

\* The end of get_finished_jobs keeps the invariant.
LEMMA EndHarvestStep ==
  ASSUME LedgerInv, EndHarvest
  PROVE  LedgerInv'
<1>1. TypeOK
  BY DEF LedgerInv
<1>2. TypeOK'
  <2>1. /\ UNCHANGED <<job, disk, misread, ledger, localResults, counters, closing, batch, route>>
        /\ records' = {} /\ results' = {}
        /\ pc' \in {"ready", "down"}
        /\ onFile' \in {onFile, onFile \cup records}
        /\ lostRows' \in {lostRows, lostRows \cup records}
    BY DEF EndHarvest, TakeRecords
  <2>2. answers' \in [JobIds -> Nat]
    <3>1. \A j \in JobIds : Cardinality({r \in results : r.job = j}) \in Nat
      <4>1. ASSUME NEW j \in JobIds PROVE Cardinality({r \in results : r.job = j}) \in Nat
        <5>1. {r \in results : r.job = j} \in SUBSET
                {[job |-> j, ok |-> TRUE], [job |-> j, ok |-> FALSE]}
          BY <1>1 DEF TypeOK, Result
        <5>2. IsFiniteSet({[job |-> j, ok |-> TRUE], [job |-> j, ok |-> FALSE]})
          BY PairFinite
        <5> QED
          BY <5>1, <5>2, FS_Subset, FS_CardinalityType
      <4> QED
        BY <4>1
    <3> QED
      BY <1>1, <3>1 DEF EndHarvest, TypeOK
  <2> QED
    BY <1>1, <2>1, <2>2 DEF TypeOK, EngineTypeOK, ledger
<1>3. Stable
  BY DEF Stable, EndHarvest, ledger
<1> QED
  BY <1>2, <1>3, StableStep

\* A submit answered on the spot, without eviction, keeps the invariant.
LEMMA AnsweredStep ==
  ASSUME LedgerInv, TypeOK', NEW j \in JobIds, NEW ok \in BOOLEAN, AnswerLocally(j, ok),
         UNCHANGED <<present, storing, loadRefs, free, control>>
  PROVE  LedgerInv'
<1>1. Stable
  BY DEF Stable, AnswerLocally, engineVars, control
<1> QED
  BY <1>1, StableStep

-----------------------------------------------------------------------------
(* Evictions and submits *)

\* Evicting keys that no load reads and freeing their slots keeps every part
\* of the invariant that does not speak of the jobs' own bookkeeping.
LEMMA EvictKeeps ==
  ASSUME LedgerInv, TypeOK', NEW V \in SUBSET Present, Evict(V),
         free' = free \cup SlotsOf(V),
         UNCHANGED <<storing, jobKeys, job, disk, misread, batch, pc, loadRefs>>,
         \A j \in Live("load") : jobKeys[j].keys \cap V = {}
  PROVE  LedgerInv'
<1>1. TypeOK /\ Owned
  BY PartitionOwned DEF LedgerInv
<1>2. SlotsPartitioned'
  BY <1>1, EvictOwned, OwnedPartition
<1>3. \A k \in Keys : present'[k] = IF k \in V THEN NoSlot ELSE present[k]
  BY DEF Evict
<1>4. Present' = Present \ V
  BY <1>3 DEF Present
<1>5. \A op \in Ops : Live(op)' = Live(op)
  BY DEF Live
<1>6. "load" \in Ops /\ "store" \in Ops
  BY DEF Ops
<1>7. RefsCountLoads'
  BY DEF LedgerInv, RefsCountLoads, LoadsOf, Live
<1>8. LoadsArePinned'
  BY <1>4, <1>5, <1>6 DEF LedgerInv, LoadsArePinned
<1>9. StoringMatchesStores'
  BY DEF LedgerInv, StoringMatchesStores, Storing, Live
<1>10. LedgerMatchesEngine'
  BY DEF LedgerInv, LedgerMatchesEngine
<1>11. TransfersFollowLedger'
  <2> SUFFICES ASSUME NEW j \in JobIds, NEW x \in job[j].left
               PROVE  /\ job[j].stage = "running"
                      /\ x[1] \in jobKeys[j].keys
                      /\ x[2] = SlotFor(j, x[1])'
    BY DEF TransfersFollowLedger
  <2>1. /\ job[j].stage = "running" /\ x[1] \in jobKeys[j].keys /\ x[2] = SlotFor(j, x[1])
    BY DEF LedgerInv, TransfersFollowLedger
  <2>2. jobKeys[j].live /\ jobKeys[j].op \in Ops /\ x[1] \in Keys
    BY <1>1, <2>1 DEF LedgerInv, LedgerMatchesEngine, TypeOK
  <2>3. CASE jobKeys[j].op = "store"
    BY <2>1, <2>3 DEF SlotFor
  <2>4. CASE jobKeys[j].op = "load"
    <3>1. x[1] \notin V
      BY <2>1, <2>2, <2>4 DEF Live
    <3> QED
      BY <1>3, <2>1, <2>2, <2>4, <3>1 DEF SlotFor
  <2> QED
    BY <2>2, <2>3, <2>4 DEF Ops
<1>12. StoresReachDisk'
  BY DEF LedgerInv, StoresReachDisk, Live
<1>13. LoadsReadOwnBlocks'
  BY <1>3, <1>4 DEF LedgerInv, LoadsReadOwnBlocks, Present
<1> QED
  BY <1>2, <1>7, <1>8, <1>9, <1>10, <1>11, <1>12, <1>13 DEF LedgerInv

\* No load in flight reads a key _take_slots may evict.
LEMMA EvictableUnread ==
  ASSUME LedgerInv, NEW j \in Live("load")
  PROVE  jobKeys[j].keys \cap Evictable = {}
<1> SUFFICES ASSUME NEW k \in Evictable, k \in jobKeys[j].keys
             PROVE  FALSE
  OBVIOUS
<1>1. k \in Keys /\ loadRefs[k] = 0
  BY DEF LedgerInv, TypeOK, Evictable, Pinned, Present
<1>2. j \in LoadsOf(k)
  BY DEF LoadsOf
<1> QED
  BY <1>1, <1>2, PinnedLoads DEF LedgerInv

\* submit_store without slots or without room in the ring: the victims stay
\* evicted, the new keys get nothing.
LEMMA StoreRejectedStep ==
  ASSUME LedgerInv, TypeOK', NEW j \in JobIds, NEW ks \in KeyLists,
         UNCHANGED <<loadRefs, control>>,
         StoreNoRoom(j, ks) \/ StoreRingFull(j, ks)
  PROVE  LedgerInv'
<1> DEFINE V == Victims(Cardinality(ToStore(ks)))
<1>1. /\ Evict(V) /\ free' = free \cup SlotsOf(V) /\ storing' = storing
      /\ AnswerLocally(j, FALSE)
  BY DEF StoreNoRoom, StoreRingFull
<1>2. V \in SUBSET Evictable /\ V \in SUBSET Present
  BY SlotTypes DEF LedgerInv
<1>3. \A i \in Live("load") : jobKeys[i].keys \cap V = {}
  BY <1>2, EvictableUnread
<1> HIDE DEF V
<1> QED
  BY <1>1, <1>2, <1>3, EvictKeeps DEF AnswerLocally, engineVars, control

\* The slots submit_store takes come from the free ones and the victims'.
LEMMA TakenFrom ==
  ASSUME TypeOK, NEW n \in Nat, NEW T \in TakenSets(n)
  PROVE  /\ T \subseteq free \cup SlotsOf(Victims(n))
         /\ free \ T = (free \cup SlotsOf(Victims(n))) \ T
<1>1. CASE n <= Cardinality(free)
  <2>1. IsFiniteSet(free) /\ Cardinality(free) \in Nat
    BY FiniteAssumption, FS_Subset, FS_CardinalityType DEF TypeOK
  <2>2. Victims(n) = {}
    <3>1. \A k : Cardinality({v \in Evictable : <<v, k>> \in older}) \in Nat
      <4>1. \A k : {v \in Evictable : <<v, k>> \in older} \in SUBSET Keys
        BY SlotTypes
      <4> QED
        BY <4>1, KeySubsets
    <3>2. n - Cardinality(free) <= 0
      BY <1>1, <2>1
    <3>3. \A c \in Nat : ~(c < n - Cardinality(free))
      BY <2>1, <3>2
    <3> QED
      BY <3>1, <3>3 DEF Victims
  <2>3. SlotsOf(Victims(n)) = {}
    BY <2>2 DEF SlotsOf
  <2> QED
    BY <1>1, <2>3 DEF TakenSets
<1>2. CASE ~(n <= Cardinality(free))
  BY <1>2 DEF TakenSets
<1> QED
  BY <1>1, <1>2

\* A job handed over with one slot per key of S is recorded with the keys S.
LEMMA HandOverKeys ==
  ASSUME NEW j \in JobIds, NEW op, NEW ks, NEW S, NEW f, NEW xs,
         \A x : x \in xs <=> \E k \in S : x = <<k, f[k]>>,
         HandOver(j, op, ks, xs)
  PROVE  /\ job[j].stage = "none"
         /\ job' = [job EXCEPT
              ![j] = [stage |-> "running", op |-> op, left |-> xs, failed |-> FALSE]]
         /\ jobKeys' = [jobKeys EXCEPT ![j] = [op |-> op, list |-> ks, keys |-> S, live |-> TRUE]]
         /\ UNCHANGED <<disk, misread>>
<1>1. {x[1] : x \in xs} = S
  <2>1. ASSUME NEW k \in S PROVE k \in {x[1] : x \in xs}
    <3>1. <<k, f[k]>> \in xs /\ <<k, f[k]>>[1] = k
      OBVIOUS
    <3> QED
      BY <3>1
  <2>2. ASSUME NEW x \in xs PROVE x[1] \in S
    OBVIOUS
  <2> QED
    BY <2>1, <2>2
<1> QED
  BY <1>1 DEF HandOver, Accept

\* submit_store of a job the engine takes.
LEMMA StoreAcceptedStep ==
  ASSUME LedgerInv, TypeOK', NEW j \in JobIds, NEW ks \in KeyLists,
         Callable, UNCHANGED <<loadRefs, control>>, StoreAccepted(j, ks)
  PROVE  LedgerInv'
<1> DEFINE new == ToStore(ks)
           n == Cardinality(new)
           V == Victims(n)
<1>a. TypeOK /\ Owned /\ LedgerMatchesEngine
  BY PartitionOwned DEF LedgerInv
<1>b. /\ new \in SUBSET Keys /\ n \in Nat
      /\ \A k \in new : present[k] = NoSlot /\ storing[k] = NoSlot
  <2>1. Len(ks) \in Nat /\ new \in SUBSET Keys /\ n \in 0..Len(ks)
    BY KeyListFacts, ToStoreBound
  <2> QED
    BY <2>1 DEF ToStore, Present, Storing
<1>c. PICK T \in TakenSets(n) : \E slot \in Bijection(new, T) :
        /\ free' = free \ T
        /\ storing' = [k \in Keys |-> IF k \in new THEN slot[k] ELSE storing[k]]
        /\ HandOver(j, "store", ks, {<<k, slot[k]>> : k \in new})
  BY DEF StoreAccepted
<1>d. PICK slot \in Bijection(new, T) :
        /\ free' = free \ T
        /\ storing' = [k \in Keys |-> IF k \in new THEN slot[k] ELSE storing[k]]
        /\ HandOver(j, "store", ks, {<<k, slot[k]>> : k \in new})
  BY <1>c
<1>e. Evict(V)
  BY DEF StoreAccepted
<1>f. /\ V \in SUBSET Evictable /\ V \in SUBSET Present /\ SlotsOf(V) \subseteq Slots
      /\ \A i \in Live("load") : jobKeys[i].keys \cap V = {}
  <2>1. V \in SUBSET Evictable /\ V \in SUBSET Present
    BY <1>a, SlotTypes
  <2> QED
    BY <1>a, <2>1, SlotTypes, EvictableUnread
<1>g. T \subseteq free \cup SlotsOf(V) /\ free' = (free \cup SlotsOf(V)) \ T
  BY <1>a, <1>b, <1>d, TakenFrom
<1>h. /\ slot \in [new -> T] /\ T \subseteq Slots
      /\ \A a, b \in new : slot[a] = slot[b] => a = b
      /\ \A s \in T : \E k \in new : slot[k] = s
  BY <1>a, <1>f, <1>g DEF Bijection, Injection, Surjection, IsInjective, TypeOK
<1>i. /\ \A k \in Keys : present'[k] = IF k \in V THEN NoSlot ELSE present[k]
      /\ \A k \in Keys : storing'[k] = IF k \in new THEN slot[k] ELSE storing[k]
  BY <1>d, <1>e DEF Evict
<1>j. /\ job[j].stage = "none"
      /\ job' = [job EXCEPT ![j] = [stage |-> "running", op |-> "store",
                                    left |-> {<<k, slot[k]>> : k \in new}, failed |-> FALSE]]
      /\ jobKeys' = [jobKeys EXCEPT ![j] = [op |-> "store", list |-> ks, keys |-> new, live |-> TRUE]]
      /\ UNCHANGED <<disk, misread>>
  <2> DEFINE xs == {<<k, slot[k]>> : k \in new}
  <2>1. \A x : x \in xs <=> \E k \in new : x = <<k, slot[k]>>
    OBVIOUS
  <2>2. HandOver(j, "store", ks, xs)
    BY <1>d
  <2> HIDE DEF xs
  <2>3. /\ job[j].stage = "none"
        /\ job' = [job EXCEPT
             ![j] = [stage |-> "running", op |-> "store", left |-> xs, failed |-> FALSE]]
        /\ jobKeys' = [jobKeys EXCEPT
             ![j] = [op |-> "store", list |-> ks, keys |-> new, live |-> TRUE]]
        /\ UNCHANGED <<disk, misread>>
    BY <2>1, <2>2, HandOverKeys
  <2> QED
    BY <2>3 DEF xs
<1>k. pc # "harvest" /\ pc' = pc /\ batch' = batch /\ loadRefs' = loadRefs
      /\ \A i \in JobIds : batch[i] = "none"
  BY <1>a, NoBatch DEF Callable, control
<1>l. /\ ~jobKeys[j].live
      /\ \A i \in JobIds \ {j} : job'[i] = job[i] /\ jobKeys'[i] = jobKeys[i]
      /\ job'[j].stage = "running" /\ job'[j].op = "store" /\ job'[j].failed = FALSE
      /\ job'[j].left = {<<k, slot[k]>> : k \in new}
      /\ jobKeys'[j].op = "store" /\ jobKeys'[j].keys = new /\ jobKeys'[j].live = TRUE
  BY <1>a, <1>j, <1>k DEF LedgerMatchesEngine, TypeOK, EngineTypeOK
<1>m. /\ Live("load")' = Live("load")
      /\ Live("store")' = Live("store") \cup {j}
      /\ j \notin Live("load") /\ j \notin Live("store")
  BY <1>l DEF Live
<1>n. /\ Present' = Present \ V
      /\ Storing' = Storing \cup new
  BY <1>b, <1>h, <1>i, NoSlotAssumption DEF Present, Storing
<1>o. \A k \in V : k \in Keys /\ present[k] \in Slots /\ k \notin new
  BY <1>a, <1>b, <1>f DEF Present, TypeOK
<1> HIDE DEF new, n, V
<1>1. SlotsPartitioned'
  <2>1. ASSUME NEW s \in Slots
        PROVE  s \in free' \/ \E k \in Keys : present'[k] = s \/ storing'[k] = s
    <3>1. CASE s \in T
      BY <1>b, <1>h, <1>i, <3>1
    <3>2. CASE s \notin T /\ s \in free \cup SlotsOf(V)
      BY <1>g, <3>2
    <3>3. CASE s \notin free \cup SlotsOf(V)
      <4>1. PICK k \in Keys : present[k] = s \/ storing[k] = s
        BY <1>a, <3>3 DEF Owned
      <4>2. k \notin new
        BY <1>b, <4>1, NoSlotAssumption
      <4>3. present[k] = s => k \notin V
        BY <3>3, <4>1 DEF SlotsOf
      <4> QED
        BY <1>i, <4>1, <4>2, <4>3
    <3> QED
      BY <3>1, <3>2, <3>3
  <2>2. ASSUME NEW k \in Keys, k \notin V
        PROVE  present[k] \notin free \cup SlotsOf(V)
    BY <1>a, <1>o, <2>2, NoSlotAssumption DEF Owned, SlotsOf, TypeOK
  <2>3. ASSUME NEW k \in Keys
        PROVE  storing[k] \notin free \cup SlotsOf(V)
    BY <1>a, <1>o, NoSlotAssumption DEF Owned, SlotsOf, TypeOK
  <2>4. \A k \in Keys : present'[k] \notin free' /\ storing'[k] \notin free'
    <3>1. NoSlot \notin free'
      BY NoSlotAssumption DEF TypeOK
    <3> QED
      BY <1>g, <1>h, <1>i, <2>2, <2>3, <3>1
  <2>5. \A k \in Keys : present'[k] = NoSlot \/ storing'[k] = NoSlot
    BY <1>a, <1>b, <1>i DEF Owned
  <2>6. ASSUME NEW a \in Keys, NEW b \in Keys, a # b
        PROVE  /\ present'[a] = present'[b] => present'[a] = NoSlot
               /\ storing'[a] = storing'[b] => storing'[a] = NoSlot
               /\ present'[a] = storing'[b] => present'[a] = NoSlot
    <3>1. present'[a] = present'[b] => present'[a] = NoSlot
      BY <1>a, <1>i, <2>6 DEF Owned
    <3>2. storing'[a] = storing'[b] => storing'[a] = NoSlot
      BY <1>a, <1>g, <1>h, <1>i, <2>3, <2>6 DEF Owned
    <3>3. present'[a] = storing'[b] => present'[a] = NoSlot
      BY <1>a, <1>g, <1>h, <1>i, <2>2, <2>6 DEF Owned
    <3> QED
      BY <3>1, <3>2, <3>3
  <2> QED
    BY <2>1, <2>4, <2>5, <2>6, OwnedPartition DEF Owned
<1>2. RefsCountLoads'
  <2>1. \A i \in Live("load") : jobKeys'[i] = jobKeys[i]
    BY <1>l, <1>m DEF Live
  <2>2. \A k \in Keys : LoadsOf(k)' = LoadsOf(k)
    BY <1>m, <2>1 DEF LoadsOf
  <2> QED
    BY <1>k, <2>2 DEF LedgerInv, RefsCountLoads
<1>3. LoadsArePinned'
  BY <1>f, <1>l, <1>m, <1>n DEF LedgerInv, LoadsArePinned, Live
<1>4. StoringMatchesStores'
  <2>1. /\ Storing = UNION {jobKeys[i].keys : i \in Live("store")}
        /\ \A a, b \in Live("store") : a # b => jobKeys[a].keys \cap jobKeys[b].keys = {}
        /\ \A i \in Live("store") : jobKeys'[i].keys = jobKeys[i].keys /\ i \in JobIds
    BY <1>l, <1>m DEF LedgerInv, StoringMatchesStores, Live
  <2>2. new \cap Storing = {}
    BY <1>b DEF Storing
  <2>3. Storing' = UNION {jobKeys'[i].keys : i \in Live("store")'}
    BY <1>l, <1>m, <1>n, <2>1
  <2>4. \A a, b \in Live("store")' : a # b => jobKeys'[a].keys \cap jobKeys'[b].keys = {}
    BY <1>l, <1>m, <2>1, <2>2
  <2> QED
    BY <2>3, <2>4 DEF StoringMatchesStores
<1>5. LedgerMatchesEngine'
  BY <1>k, <1>l, <1>a DEF LedgerMatchesEngine
<1>6. TransfersFollowLedger'
  <2> SUFFICES ASSUME NEW i \in JobIds, NEW x \in job'[i].left
               PROVE  /\ job'[i].stage = "running"
                      /\ x[1] \in jobKeys'[i].keys
                      /\ x[2] = SlotFor(i, x[1])'
    BY DEF TransfersFollowLedger
  <2>1. CASE i = j
    <3>1. PICK k \in new : x = <<k, slot[k]>>
      BY <1>l, <2>1
    <3> QED
      BY <1>b, <1>i, <1>l, <2>1, <3>1 DEF SlotFor
  <2>2. CASE i # j
    <3>1. /\ job[i].stage = "running" /\ x[1] \in jobKeys[i].keys /\ x[2] = SlotFor(i, x[1])
          /\ jobKeys[i].live /\ jobKeys[i].op \in Ops /\ x[1] \in Keys
      BY <1>a, <1>l, <2>2 DEF LedgerInv, TransfersFollowLedger, LedgerMatchesEngine, TypeOK
    <3>2. CASE jobKeys[i].op = "store"
      <4>1. x[1] \in Storing
        BY <3>1, <3>2 DEF LedgerInv, StoringMatchesStores, Live
      <4> QED
        BY <1>b, <1>i, <1>l, <2>2, <3>1, <3>2, <4>1 DEF SlotFor, Storing
    <3>3. CASE jobKeys[i].op = "load"
      <4>1. x[1] \notin V
        BY <1>f, <3>1, <3>3 DEF Live
      <4> QED
        BY <1>i, <1>l, <2>2, <3>1, <3>3, <4>1 DEF SlotFor
    <3> QED
      BY <3>1, <3>2, <3>3 DEF Ops
  <2> QED
    BY <2>1, <2>2
<1>7. StoresReachDisk'
  <2> SUFFICES ASSUME NEW i \in Live("store")', NEW k \in jobKeys'[i].keys,
                      batch'[i] = "ok" \/ (job'[i].stage # "none" /\ ~job'[i].failed)
               PROVE  <<k, storing'[k]>> \in job'[i].left \/ disk'[storing'[k]] = k
    BY DEF StoresReachDisk
  <2>1. CASE i = j
    BY <1>b, <1>i, <1>l, <2>1
  <2>2. CASE i # j
    <3>1. i \in Live("store") /\ i \in JobIds /\ k \in jobKeys[i].keys
      BY <1>l, <1>m, <2>2 DEF Live
    <3>2. k \in Storing
      BY <3>1 DEF LedgerInv, StoringMatchesStores
    <3>3. storing'[k] = storing[k]
      BY <1>b, <1>i, <3>2 DEF Storing
    <3> QED
      BY <1>j, <1>k, <1>l, <2>2, <3>1, <3>3 DEF LedgerInv, StoresReachDisk
  <2> QED
    BY <2>1, <2>2
<1>8. LoadsReadOwnBlocks'
  BY <1>i, <1>j, <1>n DEF LedgerInv, LoadsReadOwnBlocks, Present
<1> QED
  BY <1>1, <1>2, <1>3, <1>4, <1>5, <1>6, <1>7, <1>8 DEF LedgerInv

\* submit_load of a job the engine takes.
LEMMA LoadAcceptedStep ==
  ASSUME LedgerInv, TypeOK', NEW j \in JobIds, NEW ks \in KeyLists, Callable,
         UNCHANGED <<present, storing, free, control>>, LoadAccepted(j, ks)
  PROVE  LedgerInv'
<1> DEFINE S == KeySet(ks)
           xs == {<<k, present[k]>> : k \in S}
<1>a. TypeOK /\ LedgerMatchesEngine
  BY DEF LedgerInv
<1>b. /\ S \subseteq Present /\ S \subseteq Keys
      /\ loadRefs' = [k \in Keys |-> IF k \in S THEN loadRefs[k] + 1 ELSE loadRefs[k]]
      /\ HandOver(j, "load", ks, xs)
  BY KeyListFacts DEF LoadAccepted
<1>c. \A x : x \in xs <=> \E k \in S : x = <<k, present[k]>>
  OBVIOUS
<1> HIDE DEF S, xs
<1>d. /\ job[j].stage = "none"
      /\ job' = [job EXCEPT
           ![j] = [stage |-> "running", op |-> "load", left |-> xs, failed |-> FALSE]]
      /\ jobKeys' = [jobKeys EXCEPT ![j] = [op |-> "load", list |-> ks, keys |-> S, live |-> TRUE]]
      /\ UNCHANGED <<disk, misread>>
  BY <1>b, <1>c, HandOverKeys
<1>e. pc # "harvest" /\ pc' = pc /\ batch' = batch /\ \A i \in JobIds : batch[i] = "none"
  BY <1>a, NoBatch DEF Callable, control
<1>f. /\ ~jobKeys[j].live
      /\ \A i \in JobIds \ {j} : job'[i] = job[i] /\ jobKeys'[i] = jobKeys[i]
      /\ job'[j].stage = "running" /\ job'[j].op = "load" /\ job'[j].left = xs
      /\ jobKeys'[j].op = "load" /\ jobKeys'[j].keys = S /\ jobKeys'[j].live = TRUE
  BY <1>a, <1>d, <1>e DEF LedgerMatchesEngine, TypeOK, EngineTypeOK
<1>g. /\ Live("store")' = Live("store")
      /\ Live("load")' = Live("load") \cup {j}
      /\ j \notin Live("load") /\ j \notin Live("store")
      /\ Live("load") \subseteq JobIds /\ Live("store") \subseteq JobIds
  BY <1>f DEF Live
<1>h. /\ \A i \in Live("load") : jobKeys'[i] = jobKeys[i]
      /\ \A i \in Live("store") : jobKeys'[i] = jobKeys[i]
  BY <1>f, <1>g
<1>1. SlotsPartitioned'
  BY DEF LedgerInv, SlotsPartitioned, SlotsHeldBy, Present, Storing
<1>2. RefsCountLoads'
  <2> SUFFICES ASSUME NEW k \in Keys
               PROVE  loadRefs'[k] = Cardinality(LoadsOf(k)')
    BY DEF RefsCountLoads
  <2>1. /\ IsFiniteSet(LoadsOf(k)) /\ loadRefs[k] = Cardinality(LoadsOf(k))
        /\ j \notin LoadsOf(k)
    BY <1>a, <1>g, PinnedLoads DEF LedgerInv, LoadsOf
  <2>2. CASE k \in S
    <3>1. LoadsOf(k)' = LoadsOf(k) \cup {j}
      BY <1>f, <1>g, <1>h, <2>2 DEF LoadsOf
    <3>2. Cardinality(LoadsOf(k) \cup {j}) = Cardinality(LoadsOf(k)) + 1
      BY <2>1, FS_AddElement
    <3> QED
      BY <1>b, <2>1, <2>2, <3>1, <3>2
  <2>3. CASE k \notin S
    <3>1. LoadsOf(k)' = LoadsOf(k)
      BY <1>f, <1>g, <1>h, <2>3 DEF LoadsOf
    <3> QED
      BY <1>b, <2>1, <2>3, <3>1
  <2> QED
    BY <2>2, <2>3
<1>3. LoadsArePinned'
  <2>1. Present' = Present
    BY DEF Present
  <2>2. \A i \in Live("load") : jobKeys[i].keys \subseteq Present
    BY DEF LedgerInv, LoadsArePinned
  <2>3. \A i \in Live("load") \cup {j} : jobKeys'[i].keys \subseteq Present
    BY <1>b, <1>f, <1>h, <2>2
  <2> QED
    BY <1>g, <2>1, <2>3 DEF LoadsArePinned
<1>4. StoringMatchesStores'
  <2>1. Storing' = Storing
    BY DEF Storing
  <2>2. /\ Storing = UNION {jobKeys[i].keys : i \in Live("store")}
        /\ \A a, b \in Live("store") : a # b => jobKeys[a].keys \cap jobKeys[b].keys = {}
    BY DEF LedgerInv, StoringMatchesStores
  <2>3. Storing' = UNION {jobKeys'[i].keys : i \in Live("store")'}
    BY <1>g, <1>h, <2>1, <2>2
  <2>4. \A a, b \in Live("store")' : a # b => jobKeys'[a].keys \cap jobKeys'[b].keys = {}
    BY <1>g, <1>h, <2>2
  <2> QED
    BY <2>3, <2>4 DEF StoringMatchesStores
<1>5. LedgerMatchesEngine'
  BY <1>a, <1>e, <1>f DEF LedgerMatchesEngine
<1>6. TransfersFollowLedger'
  <2> SUFFICES ASSUME NEW i \in JobIds, NEW x \in job'[i].left
               PROVE  /\ job'[i].stage = "running"
                      /\ x[1] \in jobKeys'[i].keys
                      /\ x[2] = SlotFor(i, x[1])'
    BY DEF TransfersFollowLedger
  <2>1. CASE i = j
    BY <1>c, <1>f, <2>1 DEF SlotFor
  <2>2. CASE i # j
    BY <1>f, <2>2 DEF LedgerInv, TransfersFollowLedger, SlotFor
  <2> QED
    BY <2>1, <2>2
<1>7. StoresReachDisk'
  <2> SUFFICES ASSUME NEW i \in Live("store"), NEW k \in jobKeys[i].keys,
                      batch[i] = "ok" \/ (job[i].stage # "none" /\ ~job[i].failed)
               PROVE  <<k, storing[k]>> \in job[i].left \/ disk[storing[k]] = k
    BY <1>d, <1>e, <1>f, <1>g, <1>h DEF StoresReachDisk
  <2> QED
    BY DEF LedgerInv, StoresReachDisk
<1>8. LoadsReadOwnBlocks'
  BY <1>d DEF LedgerInv, LoadsReadOwnBlocks, Present
<1> QED
  BY <1>1, <1>2, <1>3, <1>4, <1>5, <1>6, <1>7, <1>8 DEF LedgerInv

\* submit_store keeps the invariant.
LEMMA SubmitStoreStep ==
  ASSUME LedgerInv, NEW j \in JobIds, NEW ks \in KeyLists, SubmitStore(j, ks)
  PROVE  LedgerInv'
<1>1. TypeOK'
  BY SubmitStoreType DEF LedgerInv
<1>2. Callable /\ UNCHANGED <<loadRefs, control>>
  BY DEF SubmitStore, Submitted
<1>3. CASE StoreNothing(j, ks)
  BY <1>1, <1>2, <1>3, AnsweredStep DEF StoreNothing
<1>4. CASE StoreNoRoom(j, ks) \/ StoreRingFull(j, ks)
  BY <1>1, <1>2, <1>4, StoreRejectedStep
<1>5. CASE StoreAccepted(j, ks)
  BY <1>1, <1>2, <1>5, StoreAcceptedStep
<1> QED
  BY <1>3, <1>4, <1>5 DEF SubmitStore

\* submit_load keeps the invariant.
LEMMA SubmitLoadStep ==
  ASSUME LedgerInv, NEW j \in JobIds, NEW ks \in KeyLists, SubmitLoad(j, ks)
  PROVE  LedgerInv'
<1>1. TypeOK'
  BY SubmitLoadType DEF LedgerInv
<1>2. Callable /\ UNCHANGED <<present, storing, free, control>>
  BY DEF SubmitLoad, Submitted
<1>3. CASE LoadMissing(j, ks) \/ LoadRingFull(j, ks)
  BY <1>1, <1>2, <1>3, AnsweredStep DEF LoadMissing, LoadRingFull
<1>4. CASE LoadAccepted(j, ks)
  BY <1>1, <1>2, <1>4, LoadAcceptedStep
<1> QED
  BY <1>3, <1>4 DEF SubmitLoad

-----------------------------------------------------------------------------
(* get_finished_jobs *)

\* Polling moves finished jobs from the engine into the batch.
LEMMA BeginHarvestStep ==
  ASSUME LedgerInv, NEW B \in SUBSET JobIds, BeginHarvest(B)
  PROVE  LedgerInv'
<1>a. TypeOK /\ LedgerMatchesEngine /\ TransfersFollowLedger
  BY DEF LedgerInv
<1>b. /\ pc # "harvest" /\ pc' = "harvest"
      /\ UNCHANGED <<records, disk, misread, ledger, counters, closing, history>>
      /\ localResults' = {} /\ results' = localResults
  BY DEF BeginHarvest, Callable
<1>c. /\ B \subseteq Done
      /\ \A j \in JobIds : job'[j] = IF j \in B THEN NoJob ELSE job[j]
      /\ \A j \in JobIds :
           batch'[j] = IF j \notin B THEN "none" ELSE IF Verdict(j) THEN "ok" ELSE "fail"
  BY DEF BeginHarvest, Poll, Pollable
<1>d. \A j \in JobIds : batch[j] = "none"
  BY <1>a, <1>b, NoBatch
<1>e. \A j \in B : job[j].stage = "done" /\ job[j].left = {}
  BY <1>a, <1>c DEF Done, TransfersFollowLedger
<1>0. TypeOK'
  <2>1. NoJob \in JobState
    BY DEF NoJob, JobState, Stages, Ops
  <2>2. job' \in [JobIds -> JobState]
    BY <1>a, <2>1 DEF BeginHarvest, Poll, TypeOK, EngineTypeOK
  <2>3. batch' \in [JobIds -> {"none", "ok", "fail"}]
    BY DEF BeginHarvest
  <2> QED
    BY <1>a, <1>b, <2>2, <2>3 DEF TypeOK, EngineTypeOK, ledger, history
<1>1. SlotsPartitioned'
  BY <1>b DEF LedgerInv, SlotsPartitioned, SlotsHeldBy, Present, Storing, ledger
<1>2. RefsCountLoads'
  BY <1>b DEF LedgerInv, RefsCountLoads, LoadsOf, Live, ledger
<1>3. LoadsArePinned' /\ StoringMatchesStores'
  BY <1>b DEF LedgerInv, LoadsArePinned, StoringMatchesStores, Live, Present, Storing, ledger
<1>4. LedgerMatchesEngine'
  <2> SUFFICES ASSUME NEW j \in JobIds
               PROVE  /\ jobKeys'[j].live <=> job'[j].stage # "none" \/ batch'[j] # "none"
                      /\ job'[j].stage # "none" => job'[j].op = jobKeys'[j].op
                      /\ batch'[j] # "none" => job'[j].stage = "none" /\ pc' = "harvest"
    BY DEF LedgerMatchesEngine
  <2>1. CASE j \in B
    BY <1>a, <1>b, <1>c, <1>e, <2>1 DEF LedgerMatchesEngine, NoJob, ledger
  <2>2. CASE j \notin B
    BY <1>a, <1>b, <1>c, <1>d, <2>2 DEF LedgerMatchesEngine, ledger
  <2> QED
    BY <2>1, <2>2
<1>5. TransfersFollowLedger'
  BY <1>a, <1>b, <1>c DEF TransfersFollowLedger, SlotFor, NoJob, ledger
<1>6. StoresReachDisk'
  <2> SUFFICES ASSUME NEW j \in Live("store"), NEW k \in jobKeys[j].keys,
                      batch'[j] = "ok" \/ (job'[j].stage # "none" /\ ~job'[j].failed)
               PROVE  <<k, storing[k]>> \in job'[j].left \/ disk[storing[k]] = k
    BY <1>b DEF StoresReachDisk, Live, ledger
  <2>0. j \in JobIds
    BY DEF Live
  <2>1. CASE j \in B
    BY <1>c, <1>e, <2>0, <2>1 DEF LedgerInv, StoresReachDisk, Verdict, NoJob
  <2>2. CASE j \notin B
    BY <1>c, <2>0, <2>2 DEF LedgerInv, StoresReachDisk
  <2> QED
    BY <2>1, <2>2
<1>7. LoadsReadOwnBlocks'
  BY <1>b DEF LedgerInv, LoadsReadOwnBlocks, Present, ledger
<1> QED
  BY <1>0, <1>1, <1>2, <1>3, <1>4, <1>5, <1>6, <1>7 DEF LedgerInv

\* What handling a polled job does to the jobs: j leaves the ledger, the
\* others and the engine are as they were.
LEMMA HandledFacts ==
  ASSUME LedgerInv, NEW j \in JobIds, NEW verdict \in {"ok", "fail"}, Handled(j, verdict)
  PROVE  /\ jobKeys[j].live /\ job[j].stage = "none" /\ job[j].left = {} /\ pc = "harvest"
         /\ \A i \in JobIds \ {j} : jobKeys'[i] = jobKeys[i] /\ batch'[i] = batch[i]
         /\ jobKeys'[j] = NoKeys /\ batch'[j] = "none"
         /\ UNCHANGED <<job, disk, misread, pc>>
         /\ \A op \in Ops : Live(op)' = Live(op) \ {j} /\ Live(op) \subseteq JobIds
         /\ LedgerMatchesEngine'
<1>1. TypeOK /\ LedgerMatchesEngine /\ TransfersFollowLedger
  BY DEF LedgerInv
<1>2. /\ jobKeys[j].live /\ job[j].stage = "none" /\ job[j].left = {} /\ pc = "harvest"
      /\ UNCHANGED <<job, disk, misread, pc>>
  BY <1>1 DEF Handled, LedgerMatchesEngine, TransfersFollowLedger, engineVars
<1>3. /\ \A i \in JobIds \ {j} : jobKeys'[i] = jobKeys[i] /\ batch'[i] = batch[i]
      /\ jobKeys'[j] = NoKeys /\ batch'[j] = "none"
  BY <1>1 DEF Handled, TypeOK
<1>4. \A op \in Ops : Live(op)' = Live(op) \ {j} /\ Live(op) \subseteq JobIds
  BY <1>3 DEF Live, NoKeys
<1>5. LedgerMatchesEngine'
  BY <1>1, <1>2, <1>3 DEF LedgerMatchesEngine, NoKeys
<1> QED
  BY <1>2, <1>3, <1>4, <1>5

\* The blocks of a polled store, all moved: its keys were being stored, for
\* no other job, and after a success they are on disk.
LEMMA PolledStore ==
  ASSUME LedgerInv, NEW j \in JobIds, NEW verdict \in {"ok", "fail"}, Handled(j, verdict),
         jobKeys[j].op = "store"
  PROVE  /\ jobKeys[j].keys \subseteq Storing /\ jobKeys[j].keys \subseteq Keys
         /\ \A i \in Live("store") : i # j => jobKeys[i].keys \cap jobKeys[j].keys = {}
         /\ verdict = "ok" => \A k \in jobKeys[j].keys : disk[storing[k]] = k
<1>1. jobKeys[j].live /\ job[j].left = {} /\ j \in Live("store") /\ batch[j] = verdict
  BY HandledFacts DEF Live, Handled
<1>2. jobKeys[j].keys \subseteq Keys
  BY DEF LedgerInv, TypeOK
<1>3. /\ jobKeys[j].keys \subseteq Storing
      /\ \A i \in Live("store") : i # j => jobKeys[i].keys \cap jobKeys[j].keys = {}
  BY <1>1 DEF LedgerInv, StoringMatchesStores
<1>4. verdict = "ok" => \A k \in jobKeys[j].keys : disk[storing[k]] = k
  BY <1>1 DEF LedgerInv, StoresReachDisk
<1> QED
  BY <1>2, <1>3, <1>4

\* A store polled: its keys leave _storing, for _present or for nowhere.
LEMMA StoreHandledStep ==
  ASSUME LedgerInv, NEW j \in JobIds, StoreLanded(j) \/ StoreFailed(j)
  PROVE  LedgerInv'
<1> DEFINE ks == jobKeys[j].keys
<1>a. TypeOK /\ Owned
  BY PartitionOwned DEF LedgerInv
<1>b. jobKeys[j].op = "store" /\ loadRefs' = loadRefs /\ (Handled(j, "ok") \/ Handled(j, "fail"))
  BY DEF StoreLanded, StoreFailed
<1>c. /\ \A i \in JobIds \ {j} : jobKeys'[i] = jobKeys[i] /\ batch'[i] = batch[i]
      /\ UNCHANGED <<job, disk, misread, pc>> /\ job[j].left = {}
      /\ Live("store")' = Live("store") \ {j} /\ Live("load")' = Live("load") \ {j}
      /\ Live("store") \subseteq JobIds /\ Live("load") \subseteq JobIds
      /\ LedgerMatchesEngine'
  BY <1>b, HandledFacts DEF Ops
<1>d. j \notin Live("load")
  BY <1>b DEF Live
<1>e. /\ ks \subseteq Storing /\ ks \subseteq Keys
      /\ \A i \in Live("store") : i # j => jobKeys[i].keys \cap ks = {}
  BY <1>b, PolledStore
<1>f. \A k \in ks : storing[k] \in Slots /\ storing[k] # NoSlot /\ present[k] = NoSlot
  BY <1>a, <1>e DEF Storing, TypeOK, Owned
<1>g. \A k \in Keys : storing'[k] = IF k \in ks THEN NoSlot ELSE storing[k]
  BY DEF StoreLanded, StoreFailed
<1>h. /\ \A k \in Keys \ ks : present'[k] = present[k]
      /\ \/ /\ \A k \in ks : present'[k] = storing[k] /\ disk[storing[k]] = k
            /\ free' = free
         \/ /\ \A k \in ks : present'[k] = present[k]
            /\ free' = free \cup {storing[k] : k \in ks}
  <2>1. CASE StoreLanded(j)
    <3>1. Handled(j, "ok")
      BY <2>1 DEF StoreLanded
    <3>2. \A k \in ks : disk[storing[k]] = k
      BY <1>b, <3>1, PolledStore
    <3> QED
      BY <1>e, <2>1, <3>2 DEF StoreLanded
  <2>2. CASE StoreFailed(j)
    BY <1>e, <2>2 DEF StoreFailed
  <2> QED
    BY <2>1, <2>2
<1>i. /\ Storing' = Storing \ ks
      /\ \A k \in Present : k \notin ks /\ k \in Present' /\ present'[k] = present[k]
  BY <1>e, <1>f, <1>g, <1>h DEF Storing, Present
<1>0. TypeOK'
  <2>1. jobKeys[j].op = "store" => jobKeys[j].keys \subseteq Storing
    BY <1>e
  <2> QED
    BY <1>a, <2>1, HarvestOneType DEF HarvestOne
<1> HIDE DEF ks
<1>1. SlotsPartitioned'
  <2>1. \A s \in Slots : s \in free' \/ \E k \in Keys : present'[k] = s \/ storing'[k] = s
    <3> SUFFICES ASSUME NEW s \in Slots, s \notin free
                 PROVE  s \in free' \/ \E k \in Keys : present'[k] = s \/ storing'[k] = s
      BY <1>h
    <3>1. PICK k \in Keys : present[k] = s \/ storing[k] = s
      BY <1>a DEF Owned
    <3>2. CASE k \in ks
      <4>1. storing[k] = s
        BY <1>f, <3>1, <3>2, NoSlotAssumption
      <4> QED
        BY <1>h, <3>2, <4>1
    <3>3. CASE k \notin ks
      BY <1>g, <1>h, <3>1, <3>3
    <3> QED
      BY <3>2, <3>3
  <2>2. \A k \in Keys : present'[k] \notin free' /\ storing'[k] \notin free'
    <3>1. ASSUME NEW k \in Keys PROVE present'[k] \notin free'
      BY <1>a, <1>e, <1>f, <1>h, NoSlotAssumption DEF Owned, TypeOK
    <3>2. ASSUME NEW k \in Keys PROVE storing'[k] \notin free'
      BY <1>a, <1>e, <1>f, <1>g, <1>h, NoSlotAssumption DEF Owned, TypeOK
    <3> QED
      BY <3>1, <3>2
  <2>3. \A k \in Keys : present'[k] = NoSlot \/ storing'[k] = NoSlot
    BY <1>a, <1>g, <1>h DEF Owned
  <2>4. ASSUME NEW a \in Keys, NEW b \in Keys, a # b
        PROVE  /\ present'[a] = present'[b] => present'[a] = NoSlot
               /\ storing'[a] = storing'[b] => storing'[a] = NoSlot
               /\ present'[a] = storing'[b] => present'[a] = NoSlot
    BY <1>a, <1>f, <1>g, <1>h, <2>4 DEF Owned
  <2> QED
    BY <1>0, <2>1, <2>2, <2>3, <2>4, OwnedPartition DEF Owned
<1>2. RefsCountLoads'
  <2>1. \A i \in Live("load") : jobKeys'[i] = jobKeys[i]
    BY <1>c, <1>d
  <2>2. \A k \in Keys : LoadsOf(k)' = LoadsOf(k)
    BY <1>c, <1>d, <2>1 DEF LoadsOf
  <2> QED
    BY <1>b, <2>2 DEF LedgerInv, RefsCountLoads
<1>3. LoadsArePinned'
  <2>1. \A i \in Live("load") : jobKeys[i].keys \subseteq Present /\ jobKeys'[i] = jobKeys[i]
    BY <1>c, <1>d DEF LedgerInv, LoadsArePinned
  <2> QED
    BY <1>c, <1>d, <1>i, <2>1 DEF LoadsArePinned
<1>4. StoringMatchesStores'
  <2>1. /\ Storing = UNION {jobKeys[i].keys : i \in Live("store")}
        /\ \A a, b \in Live("store") : a # b => jobKeys[a].keys \cap jobKeys[b].keys = {}
    BY DEF LedgerInv, StoringMatchesStores
  <2>2. \A i \in Live("store") \ {j} : jobKeys'[i] = jobKeys[i] /\ jobKeys[i].keys \cap ks = {}
    BY <1>c, <1>e
  <2>3. Storing' = UNION {jobKeys'[i].keys : i \in Live("store")'}
    <3>1. ASSUME NEW k \in Storing \ ks
          PROVE  \E i \in Live("store") \ {j} : k \in jobKeys'[i].keys
      BY <2>1, <2>2 DEF ks
    <3>2. ASSUME NEW i \in Live("store") \ {j}, NEW k \in jobKeys'[i].keys
          PROVE  k \in Storing \ ks
      BY <2>1, <2>2
    <3> QED
      BY <1>c, <1>i, <3>1, <3>2
  <2>4. \A a, b \in Live("store")' : a # b => jobKeys'[a].keys \cap jobKeys'[b].keys = {}
    BY <1>c, <2>1, <2>2
  <2> QED
    BY <2>3, <2>4 DEF StoringMatchesStores
<1>5. TransfersFollowLedger'
  <2> SUFFICES ASSUME NEW i \in JobIds, NEW x \in job[i].left
               PROVE  /\ job[i].stage = "running"
                      /\ x[1] \in jobKeys'[i].keys
                      /\ x[2] = SlotFor(i, x[1])'
    BY <1>c DEF TransfersFollowLedger
  <2>1. i # j
    BY <1>c
  <2>2. /\ job[i].stage = "running" /\ x[1] \in jobKeys[i].keys /\ x[2] = SlotFor(i, x[1])
        /\ jobKeys[i].live /\ jobKeys[i].op \in Ops /\ x[1] \in Keys
        /\ jobKeys'[i] = jobKeys[i]
    BY <1>a, <1>c, <2>1 DEF LedgerInv, TransfersFollowLedger, LedgerMatchesEngine, TypeOK
  <2>3. CASE jobKeys[i].op = "store"
    <3>1. x[1] \notin ks
      BY <1>e, <2>1, <2>2, <2>3 DEF Live
    <3> QED
      BY <1>g, <2>2, <2>3, <3>1 DEF SlotFor
  <2>4. CASE jobKeys[i].op = "load"
    <3>1. x[1] \in Present
      BY <2>2, <2>4 DEF LedgerInv, LoadsArePinned, Live
    <3> QED
      BY <1>i, <2>2, <2>4, <3>1 DEF SlotFor
  <2> QED
    BY <2>2, <2>3, <2>4 DEF Ops
<1>6. StoresReachDisk'
  <2> SUFFICES ASSUME NEW i \in Live("store") \ {j}, NEW k \in jobKeys[i].keys,
                      batch[i] = "ok" \/ (job[i].stage # "none" /\ ~job[i].failed)
               PROVE  <<k, storing'[k]>> \in job[i].left \/ disk[storing'[k]] = k
    BY <1>c DEF StoresReachDisk
  <2>1. k \notin ks /\ k \in Keys
    BY <1>a, <1>c, <1>e DEF TypeOK
  <2> QED
    BY <1>g, <2>1 DEF LedgerInv, StoresReachDisk
<1>7. LoadsReadOwnBlocks'
  <2>1. ASSUME NEW k \in Present' PROVE disk[present'[k]] = k
    <3>1. k \in Keys /\ present'[k] # NoSlot
      BY DEF Present
    <3>2. CASE k \in ks
      BY <1>f, <1>h, <3>1, <3>2
    <3>3. CASE k \notin ks
      BY <1>h, <3>1, <3>3 DEF LedgerInv, LoadsReadOwnBlocks, Present
    <3> QED
      BY <3>2, <3>3
  <2> QED
    BY <1>c, <2>1 DEF LedgerInv, LoadsReadOwnBlocks
<1> QED
  BY <1>0, <1>1, <1>2, <1>3, <1>4, <1>5, <1>6, <1>7, <1>c DEF LedgerInv

\* Unpinning the keys of a polled load leaves each key's count at the number
\* of its loads still in flight.
LEMMA UnpinnedCount ==
  ASSUME LedgerInv, NEW j \in JobIds, NEW verdict \in {"ok", "fail"}, Handled(j, verdict),
         jobKeys[j].op = "load", loadRefs' = Unpinned(jobKeys[j].keys)
  PROVE  RefsCountLoads'
<1> DEFINE ks == jobKeys[j].keys
<1>1. /\ TypeOK /\ RefsCountLoads
      /\ jobKeys[j].live /\ j \in Live("load")
      /\ Live("load")' = Live("load") \ {j}
      /\ \A i \in Live("load") \ {j} : jobKeys'[i] = jobKeys[i]
  BY HandledFacts DEF LedgerInv, Live, Ops
<1> SUFFICES ASSUME NEW k \in Keys
             PROVE  loadRefs'[k] = Cardinality(LoadsOf(k)')
  BY DEF RefsCountLoads
<1>2. /\ IsFiniteSet(LoadsOf(k)) /\ loadRefs[k] = Cardinality(LoadsOf(k)) /\ loadRefs[k] \in Nat
      /\ loadRefs[k] = 0 <=> LoadsOf(k) = {}
  BY <1>1, PinnedLoads DEF TypeOK
<1>3. loadRefs'[k] = IF k \in ks /\ loadRefs[k] > 0 THEN loadRefs[k] - 1 ELSE loadRefs[k]
  BY DEF Unpinned
<1>4. LoadsOf(k)' = LoadsOf(k) \ {j}
  BY <1>1 DEF LoadsOf
<1>5. CASE k \in ks
  <2>1. j \in LoadsOf(k)
    BY <1>1, <1>5 DEF LoadsOf
  <2>2. Cardinality(LoadsOf(k) \ {j}) = Cardinality(LoadsOf(k)) - 1
    BY <1>2, <2>1, FS_RemoveElement
  <2>3. loadRefs[k] > 0
    BY <1>2, <2>1
  <2> QED
    BY <1>2, <1>3, <1>4, <1>5, <2>2, <2>3
<1>6. CASE k \notin ks
  <2>1. LoadsOf(k) \ {j} = LoadsOf(k)
    BY <1>6 DEF LoadsOf
  <2> QED
    BY <1>2, <1>3, <1>4, <1>6, <2>1
<1> QED
  BY <1>5, <1>6

\* A load polled: its keys are unpinned and, after a failure, those nobody
\* else reads are evicted.
LEMMA LoadHandledStep ==
  ASSUME LedgerInv, NEW j \in JobIds, LoadLanded(j) \/ LoadFailed(j)
  PROVE  LedgerInv'
<1> DEFINE ks == jobKeys[j].keys
<1>a. TypeOK /\ Owned
  BY PartitionOwned DEF LedgerInv
<1>b. /\ jobKeys[j].op = "load" /\ storing' = storing /\ loadRefs' = Unpinned(ks)
      /\ Handled(j, "ok") \/ Handled(j, "fail")
  BY DEF LoadLanded, LoadFailed
<1>c. /\ \A i \in JobIds \ {j} : jobKeys'[i] = jobKeys[i] /\ batch'[i] = batch[i]
      /\ UNCHANGED <<job, disk, misread, pc>> /\ job[j].left = {}
      /\ Live("store")' = Live("store") \ {j} /\ Live("load")' = Live("load") \ {j}
      /\ Live("store") \subseteq JobIds /\ Live("load") \subseteq JobIds
      /\ LedgerMatchesEngine'
  BY <1>b, HandledFacts DEF Ops
<1>d. j \notin Live("store")
  BY <1>b DEF Live
<1>e. RefsCountLoads'
  BY <1>b, UnpinnedCount
<1>f. PICK V \in SUBSET Present :
        /\ \A k \in Keys : present'[k] = IF k \in V THEN NoSlot ELSE present[k]
        /\ \A k \in V : loadRefs'[k] = 0
        /\ Owned'
  <2>1. CASE LoadLanded(j)
    <3>1. /\ \A k \in Keys : present'[k] = IF k \in {} THEN NoSlot ELSE present[k]
          /\ \A k \in {} : loadRefs'[k] = 0
          /\ {} \in SUBSET Present
      BY <2>1 DEF LoadLanded
    <3>2. Owned'
      BY <1>a, <2>1 DEF LoadLanded, Owned
    <3> QED
      BY <3>1, <3>2
  <2>2. CASE LoadFailed(j)
    <3> DEFINE V == {k \in ks \cap Present : Unpinned(ks)[k] = 0}
    <3>1. V \in SUBSET Present /\ Evict(V) /\ free' = free \cup SlotsOf(V)
      BY <2>2 DEF LoadFailed
    <3>2. \A k \in V : loadRefs'[k] = 0
      BY <1>b
    <3> HIDE DEF V
    <3>3. Owned'
      BY <1>a, <1>b, <3>1, EvictOwned
    <3> QED
      BY <3>1, <3>2, <3>3 DEF Evict
  <2> QED
    BY <2>1, <2>2
<1>g. Present' = Present \ V /\ V \subseteq Keys
  BY <1>f DEF Present
<1>0. TypeOK'
  BY <1>a, <1>b, HarvestOneType DEF HarvestOne
<1>h. \A i \in Live("load") \ {j} : jobKeys[i].keys \cap V = {}
  <2> SUFFICES ASSUME NEW i \in Live("load") \ {j}, NEW k \in V, k \in jobKeys[i].keys
               PROVE  FALSE
    OBVIOUS
  <2>1. i \in LoadsOf(k)'
    BY <1>c DEF LoadsOf
  <2>2. /\ LoadsOf(k)' \in SUBSET JobIds
        /\ loadRefs'[k] = Cardinality(LoadsOf(k)')
    BY <1>c, <1>e, <1>g DEF LoadsOf, RefsCountLoads
  <2>3. IsFiniteSet(LoadsOf(k)')
    BY <2>2, FiniteAssumption, FS_Subset
  <2> QED
    BY <1>f, <2>1, <2>2, <2>3, FS_EmptySet
<1> HIDE DEF ks
<1>1. SlotsPartitioned'
  BY <1>0, <1>f, OwnedPartition
<1>3. LoadsArePinned'
  BY <1>c, <1>g, <1>h DEF LedgerInv, LoadsArePinned
<1>4. StoringMatchesStores'
  <2>1. Storing' = Storing /\ Live("store")' = Live("store")
    BY <1>b, <1>c, <1>d DEF Storing
  <2>2. \A i \in Live("store") : jobKeys'[i] = jobKeys[i]
    BY <1>c, <1>d
  <2> QED
    BY <2>1, <2>2 DEF LedgerInv, StoringMatchesStores
<1>5. TransfersFollowLedger'
  <2> SUFFICES ASSUME NEW i \in JobIds, NEW x \in job[i].left
               PROVE  /\ job[i].stage = "running"
                      /\ x[1] \in jobKeys'[i].keys
                      /\ x[2] = SlotFor(i, x[1])'
    BY <1>c DEF TransfersFollowLedger
  <2>1. i # j
    BY <1>c
  <2>2. /\ job[i].stage = "running" /\ x[1] \in jobKeys[i].keys /\ x[2] = SlotFor(i, x[1])
        /\ jobKeys[i].live /\ jobKeys[i].op \in Ops /\ x[1] \in Keys
        /\ jobKeys'[i] = jobKeys[i]
    BY <1>a, <1>c, <2>1 DEF LedgerInv, TransfersFollowLedger, LedgerMatchesEngine, TypeOK
  <2>3. CASE jobKeys[i].op = "store"
    BY <1>b, <2>2, <2>3 DEF SlotFor
  <2>4. CASE jobKeys[i].op = "load"
    <3>1. x[1] \notin V
      BY <1>h, <2>1, <2>2, <2>4 DEF Live
    <3> QED
      BY <1>f, <2>2, <2>4, <3>1 DEF SlotFor
  <2> QED
    BY <2>2, <2>3, <2>4 DEF Ops
<1>6. StoresReachDisk'
  <2> SUFFICES ASSUME NEW i \in Live("store"), NEW k \in jobKeys[i].keys,
                      batch[i] = "ok" \/ (job[i].stage # "none" /\ ~job[i].failed)
               PROVE  <<k, storing[k]>> \in job[i].left \/ disk[storing[k]] = k
    BY <1>b, <1>c, <1>d DEF StoresReachDisk
  <2> QED
    BY DEF LedgerInv, StoresReachDisk
<1>7. LoadsReadOwnBlocks'
  <2>1. \A k \in Present' : k \in Present /\ present'[k] = present[k]
    BY <1>f, <1>g DEF Present
  <2> QED
    BY <1>c, <2>1 DEF LedgerInv, LoadsReadOwnBlocks
<1> QED
  BY <1>0, <1>1, <1>e, <1>3, <1>4, <1>5, <1>6, <1>7, <1>c DEF LedgerInv

\* Handling one polled job keeps the invariant.
LEMMA HarvestOneStep ==
  ASSUME LedgerInv, NEW j \in JobIds, HarvestOne(j)
  PROVE  LedgerInv'
BY StoreHandledStep, LoadHandledStep DEF HarvestOne

-----------------------------------------------------------------------------
(* The engine's steps *)

\* A block the engine has left to move belongs to a live job of its
\* direction, and its slot to its key alone.
LEMMA XferFacts ==
  ASSUME LedgerInv, NEW j \in JobIds, NEW x \in job[j].left
  PROVE  /\ job[j].stage = "running" /\ job[j].op = jobKeys[j].op
         /\ jobKeys[j].live /\ batch[j] = "none"
         /\ x = <<x[1], x[2]>> /\ x[1] \in Keys /\ x[2] \in Slots /\ x[1] \in jobKeys[j].keys
         /\ job[j].op = "store" => j \in Live("store") /\ x[2] = storing[x[1]]
         /\ job[j].op = "load" => x[1] \in Present /\ x[2] = present[x[1]]
<1>1. /\ TypeOK /\ TransfersFollowLedger /\ LedgerMatchesEngine /\ LoadsArePinned
  BY DEF LedgerInv
<1>2. x \in Keys \X Slots
  BY <1>1 DEF TypeOK, EngineTypeOK, JobState, Xfers
<1>3. /\ job[j].stage = "running" /\ x[1] \in jobKeys[j].keys /\ x[2] = SlotFor(j, x[1])
  BY <1>1 DEF TransfersFollowLedger
<1>4. job[j].op = jobKeys[j].op /\ jobKeys[j].live /\ batch[j] = "none"
  BY <1>1, <1>3 DEF LedgerMatchesEngine
<1>5. job[j].op = "store" => j \in Live("store") /\ x[2] = storing[x[1]]
  BY <1>3, <1>4 DEF SlotFor, Live
<1>6. job[j].op = "load" => x[1] \in Present /\ x[2] = present[x[1]]
  BY <1>1, <1>3, <1>4 DEF SlotFor, Live, LoadsArePinned
<1> QED
  BY <1>2, <1>3, <1>4, <1>5, <1>6

\* Writing a slot that is being stored to touches no landed block, and no
\* block of another key being stored.
LEMMA StoreSlotApart ==
  ASSUME LedgerInv, NEW k \in Keys, storing[k] # NoSlot
  PROVE  /\ \A i \in Present : present[i] # storing[k]
         /\ \A i \in Keys : i # k => storing[i] # storing[k]
<1>1. Owned
  BY PartitionOwned DEF LedgerInv
<1>2. \A i \in Keys : i # k => present[i] # storing[k] \/ present[i] = NoSlot
  BY <1>1 DEF Owned
<1>3. present[k] = NoSlot
  BY <1>1 DEF Owned
<1> QED
  BY <1>1, <1>2, <1>3 DEF Owned, Present

\* The engine moving or failing a block: the parts of the invariant about the
\* ledger alone are as they were, the job keeps what is left of its transfers.
LEMMA MovedStep ==
  ASSUME LedgerInv, TypeOK', NEW j \in JobIds, NEW x \in job[j].left, NEW bad \in BOOLEAN,
         Moved(j, x, bad), UNCHANGED <<ledger, control>>,
         StoresReachDisk', LoadsReadOwnBlocks'
  PROVE  LedgerInv'
<1>1. TypeOK /\ LedgerMatchesEngine /\ TransfersFollowLedger
  BY DEF LedgerInv
<1>2. \A i \in JobIds : /\ job'[i].stage = job[i].stage /\ job'[i].op = job[i].op
                        /\ job'[i].left \subseteq job[i].left
  BY <1>1 DEF Moved, TypeOK, EngineTypeOK, JobState
<1>3. SlotsPartitioned'
  BY DEF LedgerInv, SlotsPartitioned, SlotsHeldBy, Present, Storing, ledger
<1>4. RefsCountLoads' /\ LoadsArePinned' /\ StoringMatchesStores'
  BY DEF LedgerInv, RefsCountLoads, LoadsOf, LoadsArePinned, StoringMatchesStores, Live,
         Present, Storing, ledger
<1>5. LedgerMatchesEngine'
  BY <1>1, <1>2 DEF LedgerMatchesEngine, ledger, control
<1>6. TransfersFollowLedger'
  BY <1>1, <1>2 DEF TransfersFollowLedger, SlotFor, ledger
<1> QED
  BY <1>3, <1>4, <1>5, <1>6 DEF LedgerInv

\* A block written: its slot now holds its key's content.
LEMMA WriteStep ==
  ASSUME LedgerInv, TypeOK', NEW j \in JobIds, NEW x \in job[j].left, WriteBlock(j, x),
         UNCHANGED <<ledger, control>>
  PROVE  LedgerInv'
<1>0. TypeOK
  BY DEF LedgerInv
<1>1. /\ job[j].op = "store" /\ Moved(j, x, FALSE) /\ misread' = misread
      /\ disk' = [disk EXCEPT ![x[2]] = x[1]]
  BY DEF WriteBlock
<1>2. /\ x = <<x[1], x[2]>> /\ x[1] \in Keys /\ x[2] \in Slots /\ j \in Live("store")
      /\ x[2] = storing[x[1]] /\ storing[x[1]] # NoSlot
  BY <1>1, XferFacts, NoSlotAssumption
<1>3. \A s \in Slots : disk'[s] = IF s = x[2] THEN x[1] ELSE disk[s]
  BY <1>0, <1>1, <1>2 DEF TypeOK, EngineTypeOK
<1>4. LoadsReadOwnBlocks'
  <2>1. \A k \in Present : present[k] \in Slots /\ present[k] # x[2]
    BY <1>0, <1>2, StoreSlotApart DEF Present, TypeOK
  <2> QED
    BY <1>1, <1>3, <2>1 DEF LedgerInv, LoadsReadOwnBlocks, Present, ledger
<1>5. StoresReachDisk'
  <2> SUFFICES ASSUME NEW i \in Live("store"), NEW k \in jobKeys[i].keys,
                      batch[i] = "ok" \/ (job'[i].stage # "none" /\ ~job'[i].failed)
               PROVE  <<k, storing[k]>> \in job'[i].left \/ disk'[storing[k]] = k
    BY DEF StoresReachDisk, Live, ledger, control
  <2>1. i \in JobIds /\ k \in Keys /\ k \in Storing
    BY <1>0 DEF LedgerInv, StoringMatchesStores, Live, TypeOK
  <2>2. storing[k] \in Slots
    BY <1>0, <2>1 DEF Storing, TypeOK
  <2>3. /\ job'[i].stage = job[i].stage /\ (~job'[i].failed => ~job[i].failed)
        /\ job'[i].left = IF i = j THEN job[i].left \ {x} ELSE job[i].left
    BY <1>0, <1>1, <2>1 DEF Moved, TypeOK, EngineTypeOK, JobState
  <2>4. <<k, storing[k]>> \in job[i].left \/ disk[storing[k]] = k
    BY <2>3 DEF LedgerInv, StoresReachDisk
  <2>5. CASE k = x[1]
    BY <1>2, <1>3, <2>2, <2>5
  <2>6. CASE k # x[1]
    <3>1. storing[k] # x[2] /\ <<k, storing[k]>> # x
      BY <1>2, <2>1, <2>6, StoreSlotApart
    <3> QED
      BY <1>3, <2>2, <2>3, <2>4, <3>1
  <2> QED
    BY <2>5, <2>6
<1> QED
  BY <1>1, <1>4, <1>5, MovedStep

\* A block read: its key is landed, so what is copied is its own block.
LEMMA ReadStep ==
  ASSUME LedgerInv, TypeOK', NEW j \in JobIds, NEW x \in job[j].left, ReadBlock(j, x),
         UNCHANGED <<ledger, control>>
  PROVE  LedgerInv'
<1>0. TypeOK
  BY DEF LedgerInv
<1>1. /\ job[j].op = "load" /\ Moved(j, x, FALSE) /\ disk' = disk
      /\ misread' = IF disk[x[2]] = x[1] THEN misread ELSE misread \cup {x[1]}
  BY DEF ReadBlock
<1>2. x[1] \in Present /\ x[2] = present[x[1]]
  BY <1>1, XferFacts
<1>3. LoadsReadOwnBlocks'
  BY <1>1, <1>2 DEF LedgerInv, LoadsReadOwnBlocks, Present, ledger
<1>4. StoresReachDisk'
  <2> SUFFICES ASSUME NEW i \in Live("store"), NEW k \in jobKeys[i].keys,
                      batch[i] = "ok" \/ (job'[i].stage # "none" /\ ~job'[i].failed)
               PROVE  <<k, storing[k]>> \in job'[i].left \/ disk[storing[k]] = k
    BY <1>1 DEF StoresReachDisk, Live, ledger, control
  <2>1. i \in JobIds /\ i # j
    BY <1>1, XferFacts DEF Live
  <2>2. job'[i] = job[i]
    BY <1>0, <1>1, <2>1 DEF Moved, TypeOK, EngineTypeOK
  <2> QED
    BY <2>2 DEF LedgerInv, StoresReachDisk
<1> QED
  BY <1>1, <1>3, <1>4, MovedStep

\* A block failed: whatever a short write left in its slot, no other key's
\* block is touched, and the job will not report success.
LEMMA FailStep ==
  ASSUME LedgerInv, TypeOK', NEW j \in JobIds, NEW x \in job[j].left, FailBlock(j, x),
         UNCHANGED <<ledger, control>>
  PROVE  LedgerInv'
<1>0. TypeOK
  BY DEF LedgerInv
<1>1. /\ Moved(j, x, TRUE) /\ misread' = misread
      /\ \/ disk' = disk
         \/ job[j].op = "store" /\ \E c : disk' = [disk EXCEPT ![x[2]] = c]
  BY DEF FailBlock
<1>2. /\ x[1] \in Keys /\ x[2] \in Slots /\ batch[j] = "none" /\ x[1] \in jobKeys[j].keys
      /\ job[j].op = "store" => /\ j \in Live("store") /\ x[2] = storing[x[1]]
                                /\ storing[x[1]] # NoSlot
  BY XferFacts, NoSlotAssumption
<1>3. \A s \in Slots : s # x[2] \/ job[j].op # "store" => disk'[s] = disk[s]
  BY <1>0, <1>1 DEF TypeOK, EngineTypeOK
<1>4. LoadsReadOwnBlocks'
  <2>1. \A k \in Present : /\ present[k] \in Slots
                           /\ present[k] # x[2] \/ job[j].op # "store"
    BY <1>0, <1>2, StoreSlotApart DEF Present, TypeOK
  <2> QED
    BY <1>1, <1>3, <2>1 DEF LedgerInv, LoadsReadOwnBlocks, Present, ledger
<1>5. StoresReachDisk'
  <2> SUFFICES ASSUME NEW i \in Live("store"), NEW k \in jobKeys[i].keys,
                      batch[i] = "ok" \/ (job'[i].stage # "none" /\ ~job'[i].failed)
               PROVE  <<k, storing[k]>> \in job'[i].left \/ disk'[storing[k]] = k
    BY DEF StoresReachDisk, Live, ledger, control
  <2>1. i \in JobIds /\ k \in Keys /\ k \in Storing
    BY <1>0 DEF LedgerInv, StoringMatchesStores, Live, TypeOK
  <2>2. storing[k] \in Slots
    BY <1>0, <2>1 DEF Storing, TypeOK
  <2>3. i # j
    BY <1>0, <1>1, <1>2, <2>1 DEF Moved, TypeOK, EngineTypeOK, JobState
  <2>4. job'[i] = job[i]
    BY <1>0, <1>1, <2>1, <2>3 DEF Moved, TypeOK, EngineTypeOK
  <2>5. <<k, storing[k]>> \in job[i].left \/ disk[storing[k]] = k
    BY <2>4 DEF LedgerInv, StoresReachDisk
  <2>6. job[j].op = "store" => storing[k] # x[2]
    <3>1. job[j].op = "store" => k # x[1]
      BY <1>2, <2>3 DEF LedgerInv, StoringMatchesStores
    <3> QED
      BY <1>2, <2>1, <3>1, StoreSlotApart
  <2> QED
    BY <1>3, <2>2, <2>4, <2>5, <2>6
<1> QED
  BY <1>1, <1>4, <1>5, MovedStep

\* A row logged or a result published: the job's transfers are all over.
LEMMA LogPublishStep ==
  ASSUME LedgerInv, TypeOK', NEW j \in JobIds, Log(j) \/ Publish(j),
         UNCHANGED <<ledger, control>>
  PROVE  LedgerInv'
<1>1. TypeOK /\ LedgerMatchesEngine /\ TransfersFollowLedger
  BY DEF LedgerInv
<1>2. /\ UNCHANGED <<disk, misread>>
      /\ job[j].left = {} /\ job[j].stage # "none" /\ job'[j].stage # "none"
      /\ \A i \in JobIds : /\ job'[i].op = job[i].op /\ job'[i].left = job[i].left
                           /\ job'[i].failed = job[i].failed
                           /\ i # j => job'[i].stage = job[i].stage
  BY <1>1 DEF Log, Publish, TypeOK, EngineTypeOK, JobState, TransfersFollowLedger
<1>3. SlotsPartitioned'
  BY DEF LedgerInv, SlotsPartitioned, SlotsHeldBy, Present, Storing, ledger
<1>4. RefsCountLoads' /\ LoadsArePinned' /\ StoringMatchesStores'
  BY DEF LedgerInv, RefsCountLoads, LoadsOf, LoadsArePinned, StoringMatchesStores, Live,
         Present, Storing, ledger
<1>5. LedgerMatchesEngine'
  BY <1>1, <1>2 DEF LedgerMatchesEngine, ledger, control
<1>6. TransfersFollowLedger'
  BY <1>1, <1>2 DEF TransfersFollowLedger, SlotFor, ledger
<1>7. StoresReachDisk'
  <2> SUFFICES ASSUME NEW i \in Live("store"), NEW k \in jobKeys[i].keys,
                      batch[i] = "ok" \/ (job'[i].stage # "none" /\ ~job'[i].failed)
               PROVE  <<k, storing[k]>> \in job'[i].left \/ disk[storing[k]] = k
    BY <1>2 DEF StoresReachDisk, Live, ledger, control
  <2>1. /\ i \in JobIds /\ job'[i].left = job[i].left
        /\ batch[i] = "ok" \/ (job[i].stage # "none" /\ ~job[i].failed)
    BY <1>2 DEF Live
  <2> QED
    BY <2>1 DEF LedgerInv, StoresReachDisk
<1>8. LoadsReadOwnBlocks'
  BY <1>2 DEF LedgerInv, LoadsReadOwnBlocks, Present, ledger
<1> QED
  BY <1>3, <1>4, <1>5, <1>6, <1>7, <1>8 DEF LedgerInv

\* The engine's steps keep the invariant.
LEMMA EngineRunsStep ==
  ASSUME LedgerInv, NEW j \in JobIds, EngineRuns(j)
  PROVE  LedgerInv'
<1>1. TypeOK /\ EngineStep(j) /\ UNCHANGED <<ledger, localResults, counters, control, history>>
  BY DEF LedgerInv, EngineRuns
<1>2. TypeOK'
  BY <1>1, EngineStepType DEF TypeOK, ledger, control, history
<1>3. UNCHANGED <<ledger, control>>
  BY <1>1
<1>4. CASE \E x \in job[j].left : WriteBlock(j, x) \/ ReadBlock(j, x) \/ FailBlock(j, x)
  BY <1>2, <1>3, <1>4, WriteStep, ReadStep, FailStep
<1>5. CASE Log(j) \/ Publish(j)
  BY <1>2, <1>3, <1>5, LogPublishStep
<1> QED
  BY <1>1, <1>4, <1>5 DEF EngineStep

-----------------------------------------------------------------------------
(* Theorems *)

\* The tier starts in the invariant: every slot free, no job anywhere.
LEMMA InitInv == Init => LedgerInv
<1> SUFFICES ASSUME Init PROVE LedgerInv
  OBVIOUS
<1>1. TypeOK
  <2>1. NoJob \in JobState /\ NoKeys.op \in Ops
    BY DEF NoJob, NoKeys, JobState, Stages, Ops
  <2>2. << >> \in KeyLists
    <3>1. << >> \in [1..0 -> Keys] /\ 0 \in 0..MaxBlocks
      BY MaxBlocksAssumption
    <3> QED
      BY <3>1 DEF KeyLists
  <2>3. NoKeys \in [op : Ops, list : KeyLists, keys : SUBSET Keys, live : BOOLEAN]
    BY <2>1, <2>2 DEF NoKeys
  <2> QED
    BY <2>1, <2>3 DEF Init, EngineInit, TypeOK, EngineTypeOK
<1>2. Present = {} /\ Storing = {} /\ \A op \in Ops : Live(op) = {}
  BY DEF Init, Present, Storing, Live, NoKeys
<1>3. SlotsPartitioned
  BY <1>2 DEF Init, SlotsPartitioned, SlotsHeldBy
<1>4. RefsCountLoads
  <2>1. \A k \in Keys : LoadsOf(k) = {}
    BY <1>2 DEF LoadsOf, Ops
  <2> QED
    BY <2>1, FS_EmptySet DEF Init, RefsCountLoads
<1>5. LoadsArePinned /\ StoringMatchesStores /\ StoresReachDisk
  BY <1>2 DEF LoadsArePinned, StoringMatchesStores, StoresReachDisk, Ops
<1>6. LedgerMatchesEngine /\ TransfersFollowLedger
  BY DEF Init, EngineInit, LedgerMatchesEngine, TransfersFollowLedger, NoJob, NoKeys
<1>7. LoadsReadOwnBlocks
  BY <1>2 DEF Init, EngineInit, LoadsReadOwnBlocks
<1> QED
  BY <1>1, <1>3, <1>4, <1>5, <1>6, <1>7 DEF LedgerInv

\* No step of the manager or the engine leaves the invariant.
LEMMA NextInv == LedgerInv /\ [Next]_vars => LedgerInv'
<1> SUFFICES ASSUME LedgerInv, [Next]_vars PROVE LedgerInv'
  OBVIOUS
<1>1. CASE Next
  <2>1. CASE \E ks \in KeyLists : Touch(ks)
    BY <2>1, TouchStep
  <2>2. CASE \E j \in JobIds, ks \in KeyLists : SubmitStore(j, ks) \/ SubmitLoad(j, ks)
    BY <2>2, SubmitStoreStep, SubmitLoadStep
  <2>3. CASE DrainCall \/ DrainReturn
    BY <2>3, DrainStep
  <2>4. CASE \E B \in SUBSET JobIds : BeginHarvest(B)
    BY <2>4, BeginHarvestStep
  <2>5. CASE \E j \in JobIds : HarvestOne(j)
    BY <2>5, HarvestOneStep
  <2>6. CASE EndHarvest
    BY <2>6, EndHarvestStep
  <2>7. CASE \E j \in JobIds : EngineRuns(j)
    BY <2>7, EngineRunsStep
  <2>8. CASE Down
    <3>1. UNCHANGED vars
      BY <2>8 DEF Down
    <3>2. Stable /\ TypeOK'
      BY <3>1 DEF LedgerInv, Stable, TypeOK, EngineTypeOK, vars, engineVars, ledger, control, history
    <3> QED
      BY <3>2, StableStep
  <2> QED
    BY <1>1, <2>1, <2>2, <2>3, <2>4, <2>5, <2>6, <2>7, <2>8 DEF Next
<1>2. CASE UNCHANGED vars
  <2>1. Stable /\ TypeOK'
    BY <1>2 DEF LedgerInv, Stable, TypeOK, EngineTypeOK, vars, engineVars, ledger, control, history
  <2> QED
    BY <2>1, StableStep
<1> QED
  BY <1>1, <1>2

\* The ledger and the engine agree in every reachable state: who owns a slot,
\* which jobs are where, what is left to move and what is on disk.
THEOREM LedgerInvariant == Spec => []LedgerInv
BY InitInv, NextInv, PTL DEF Spec

\* Every variable keeps its type: the ledger's maps, the engine's jobs.
THEOREM TypeCorrect == Spec => []TypeOK
<1>1. LedgerInv => TypeOK
  BY DEF LedgerInv
<1> QED
  BY <1>1, LedgerInvariant, PTL

\* No slot is ever lost or owned twice, whatever is evicted, rejected, rolled
\* back or failed (_take_slots, submit_store, get_finished_jobs).
THEOREM SlotsNeverLeak == Spec => []SlotsPartitioned
<1>1. LedgerInv => SlotsPartitioned
  BY DEF LedgerInv
<1> QED
  BY <1>1, LedgerInvariant, PTL

\* A key lookup answers True for has its own block on disk, and no load ever
\* copies another key's block into primary memory.
THEOREM NoForeignBlocks == Spec => []LoadsReadOwnBlocks
<1>1. LedgerInv => LoadsReadOwnBlocks
  BY DEF LedgerInv
<1> QED
  BY <1>1, LedgerInvariant, PTL

\* Two transfers in the engine at once share a slot only when both read it:
\* eviction skips what a load reads, a store gets slots nobody uses.
THEOREM SlotsNeverConflict == Spec => []NoSlotConflict
<1>1. LedgerInv => NoSlotConflict
  <2> SUFFICES ASSUME LedgerInv PROVE NoSlotConflict
    OBVIOUS
  <2>0. \A m \in JobIds : job[m].op \in {"store", "load"}
    BY DEF LedgerInv, TypeOK, EngineTypeOK, JobState, Ops
  <2> SUFFICES ASSUME NEW i \in Pending, NEW j \in Pending,
                      NEW x \in job[i].left, NEW y \in job[j].left, x[2] = y[2],
                      job[i].op = "store" \/ job[j].op = "store"
               PROVE  i = j /\ x = y
    BY <2>0 DEF NoSlotConflict, Pending
  <2>1. i \in JobIds /\ j \in JobIds
    BY DEF Pending
  <2>2. /\ x = <<x[1], x[2]>> /\ x[1] \in Keys /\ x[2] \in Slots /\ x[1] \in jobKeys[i].keys
        /\ job[i].op = "store" => i \in Live("store") /\ x[2] = storing[x[1]]
        /\ job[i].op = "load" => x[1] \in Present /\ x[2] = present[x[1]]
    BY <2>1, XferFacts
  <2>3. /\ y = <<y[1], y[2]>> /\ y[1] \in Keys /\ y[2] \in Slots /\ y[1] \in jobKeys[j].keys
        /\ job[j].op = "store" => j \in Live("store") /\ y[2] = storing[y[1]]
        /\ job[j].op = "load" => y[1] \in Present /\ y[2] = present[y[1]]
    BY <2>1, XferFacts
  <2>4. job[i].op \in {"store", "load"} /\ job[j].op \in {"store", "load"}
    BY <2>0, <2>1
  <2>5. job[i].op = "store" /\ job[j].op = "store"
    BY <2>2, <2>3, <2>4, StoreSlotApart, NoSlotAssumption
  <2>6. x[1] = y[1]
    BY <2>2, <2>3, <2>5, StoreSlotApart, NoSlotAssumption
  <2>7. i = j
    BY <2>2, <2>3, <2>5, <2>6 DEF LedgerInv, StoringMatchesStores
  <2> QED
    BY <2>2, <2>3, <2>6, <2>7
<1> QED
  BY <1>1, LedgerInvariant, PTL

-----------------------------------------------------------------------------
(* Orders *)

\* R is a strict total order of D.
IsOrder(R, D) ==
  /\ R \subseteq D \X D
  /\ \A a, b \in D : a # b => (<<a, b>> \in R <=> <<b, a>> \notin R)
  /\ \A a \in D : <<a, a>> \notin R
  /\ \A a, b, c \in D : <<a, b>> \in R /\ <<b, c>> \in R => <<a, c>> \in R

\* RecencyIsOrder says this of the landed keys.
LEMMA RecencyOrder == RecencyIsOrder <=> IsOrder(older, Present)
<1>1. ASSUME RecencyIsOrder PROVE IsOrder(older, Present)
  <2>1. ASSUME NEW a \in Present, NEW b \in Present, NEW c \in Present,
               <<a, b>> \in older, <<b, c>> \in older
        PROVE  <<a, c>> \in older
    <3>1. <<a, b>>[2] = <<b, c>>[1] => <<<<a, b>>[1], <<b, c>>[2]>> \in older
      BY <1>1, <2>1 DEF RecencyIsOrder
    <3> QED
      BY <3>1
  <2> QED
    BY <1>1, <2>1 DEF RecencyIsOrder, IsOrder
<1>2. ASSUME IsOrder(older, Present) PROVE RecencyIsOrder
  <2>1. ASSUME NEW p \in older, NEW q \in older, p[2] = q[1]
        PROVE  <<p[1], q[2]>> \in older
    <3>1. /\ p = <<p[1], p[2]>> /\ q = <<q[1], q[2]>>
          /\ p[1] \in Present /\ p[2] \in Present /\ q[2] \in Present
      BY <1>2, <2>1 DEF IsOrder
    <3> QED
      BY <1>2, <2>1, <3>1 DEF IsOrder
  <2> QED
    BY <1>2, <2>1 DEF RecencyIsOrder, IsOrder
<1> QED
  BY <1>1, <1>2

\* Which pairs move_to_end of the listed keys leaves in order.
LEMMA MoveToEndPairs ==
  ASSUME NEW dom, NEW ks, NEW S, NEW a, NEW b
  PROVE  <<a, b>> \in MoveToEnd(dom, ks, S) <=>
           \/ a \in dom \ S /\ b \in dom \ S /\ <<a, b>> \in older
           \/ a \in dom \ S /\ b \in S
           \/ a \in S /\ b \in S /\ \E i, j \in DOMAIN ks : i < j /\ a = ks[i] /\ b = ks[j]
BY DEF MoveToEnd

\* Moving listed keys to the end, some of them perhaps new, leaves an order.
LEMMA MoveToEndOrder ==
  ASSUME NEW D, IsOrder(older, D), NEW dom, NEW ks \in KeyLists,
         NEW S \in SUBSET dom, S \subseteq KeySet(ks), dom \ S \subseteq D
  PROVE  IsOrder(MoveToEnd(dom, ks, S), dom)
<1> DEFINE R == MoveToEnd(dom, ks, S)
           Before(a, b) == \E i, j \in DOMAIN ks : i < j /\ a = ks[i] /\ b = ks[j]
<1>1. /\ DOMAIN ks \subseteq Int
      /\ \A i, j \in DOMAIN ks : ks[i] = ks[j] => i = j
      /\ \A a \in S : \E i \in DOMAIN ks : ks[i] = a
  <2>1. DOMAIN ks = 1..Len(ks) /\ Len(ks) \in Nat
    BY KeyListFacts
  <2> QED
    BY <2>1 DEF KeyLists, KeySet
<1>2. \A a, b : <<a, b>> \in R <=>
           \/ a \in dom \ S /\ b \in dom \ S /\ <<a, b>> \in older
           \/ a \in dom \ S /\ b \in S
           \/ a \in S /\ b \in S /\ Before(a, b)
  BY MoveToEndPairs
<1>3. R \subseteq dom \X dom
  <2>1. {p \in older : p[1] \in dom \ S /\ p[2] \in dom \ S} \subseteq dom \X dom
    BY DEF IsOrder
  <2> QED
    BY <2>1 DEF MoveToEnd
<1>4. /\ \A a, b \in S : a # b => (Before(a, b) <=> ~Before(b, a))
      /\ \A a \in S : ~Before(a, a)
      /\ \A a, b, c \in S : Before(a, b) /\ Before(b, c) => Before(a, c)
  <2>1. ASSUME NEW a \in S, NEW b \in S, NEW i \in DOMAIN ks, NEW j \in DOMAIN ks,
               ks[i] = a, ks[j] = b
        PROVE  Before(a, b) <=> i < j
    BY <1>1, <2>1
  <2>2. ASSUME NEW a \in S, NEW b \in S
        PROVE  /\ a # b => (Before(a, b) <=> ~Before(b, a))
               /\ a = b => ~Before(a, b)
    <3>1. PICK i \in DOMAIN ks, j \in DOMAIN ks : ks[i] = a /\ ks[j] = b
      BY <1>1
    <3>2. (Before(a, b) <=> i < j) /\ (Before(b, a) <=> j < i) /\ i \in Int /\ j \in Int
      BY <1>1, <2>1, <3>1
    <3>3. a # b <=> i # j
      BY <1>1, <3>1
    <3> HIDE DEF Before
    <3> QED
      BY <3>2, <3>3
  <2>3. ASSUME NEW a \in S, NEW b \in S, NEW c \in S, Before(a, b), Before(b, c)
        PROVE  Before(a, c)
    <3>1. PICK i \in DOMAIN ks, j \in DOMAIN ks, k \in DOMAIN ks :
            ks[i] = a /\ ks[j] = b /\ ks[k] = c
      BY <1>1
    <3>2. /\ Before(a, b) <=> i < j
          /\ Before(b, c) <=> j < k
          /\ Before(a, c) <=> i < k
          /\ i \in Int /\ j \in Int /\ k \in Int
      BY <1>1, <2>1, <3>1
    <3> HIDE DEF Before
    <3> QED
      BY <2>3, <3>2
  <2> QED
    BY <2>2, <2>3
<1> HIDE DEF R, Before
<1>5. \A a, b \in dom : a # b => (<<a, b>> \in R <=> <<b, a>> \notin R)
  BY <1>2, <1>4 DEF IsOrder
<1>6. \A a \in dom : <<a, a>> \notin R
  BY <1>2, <1>4 DEF IsOrder
<1>7. ASSUME NEW a \in dom, NEW b \in dom, NEW c \in dom, <<a, b>> \in R, <<b, c>> \in R
      PROVE  <<a, c>> \in R
  <2>1. CASE c \in S
    BY <1>2, <1>4, <1>7, <2>1
  <2>2. CASE c \notin S
    <3>1. /\ a \in D /\ b \in D /\ c \in D /\ a \notin S
          /\ <<a, b>> \in older /\ <<b, c>> \in older
      BY <1>2, <1>7, <2>2
    <3> QED
      BY <1>2, <2>2, <3>1 DEF IsOrder
  <2> QED
    BY <2>1, <2>2
<1> QED
  BY <1>3, <1>5, <1>6, <1>7 DEF IsOrder, R

\* Evicting keys leaves an order of the others.
LEMMA WithoutOrder ==
  ASSUME NEW D, IsOrder(older, D), NEW V
  PROVE  IsOrder(Without(V), D \ V)
<1>1. \A a, b : <<a, b>> \in Without(V) <=> <<a, b>> \in older /\ a \notin V /\ b \notin V
  BY DEF Without
<1>2. Without(V) \subseteq (D \ V) \X (D \ V)
  BY DEF Without, IsOrder
<1> QED
  BY <1>1, <1>2 DEF IsOrder

\* A job's keys are among those its submit listed, in the order it listed them.
ListsCoverKeys == \A j \in JobIds : jobKeys[j].keys \subseteq KeySet(jobKeys[j].list)

\* What is inductive, on top of LedgerInv.
OrderInv == IsOrder(older, Present) /\ ListsCoverKeys

\* The order after a step, given what the step makes of it.
LEMMA NextIsOrder ==
  ASSUME NEW R, NEW D, IsOrder(R, D), older' = R, Present' = D
  PROVE  IsOrder(older, Present)'
BY DEF IsOrder

\* An eviction takes the evicted keys out of the order.
LEMMA EvictOrder ==
  ASSUME IsOrder(older, Present), NEW V \in SUBSET Present, Evict(V)
  PROVE  IsOrder(older, Present)'
<1>1. Present' = Present \ V
  BY DEF Present, Evict
<1>2. IsOrder(Without(V), Present \ V)
  BY WithoutOrder
<1> QED
  BY <1>1, <1>2 DEF Evict, IsOrder

\* A step that leaves _present and the jobs' keys alone keeps OrderInv.
LEMMA SameOrder ==
  ASSUME OrderInv, UNCHANGED <<present, older, jobKeys>>
  PROVE  OrderInv'
<1>1. Present' = Present
  BY DEF Present
<1> QED
  BY <1>1 DEF OrderInv, IsOrder, ListsCoverKeys

\* Listed keys that are present move to the end: the order stays one.
LEMMA TouchedOrder ==
  ASSUME TypeOK, OrderInv, NEW ks \in KeyLists, NEW S \in SUBSET Present, S \subseteq KeySet(ks),
         older' = MoveToEnd(Present, ks, S), UNCHANGED present
  PROVE  IsOrder(older, Present)'
<1>1. Present' = Present
  BY DEF Present
<1>2. IsOrder(MoveToEnd(Present, ks, S), Present)
  BY MoveToEndOrder DEF OrderInv
<1> QED
  BY <1>1, <1>2 DEF IsOrder

\* Handing over a job whose transfers are of listed keys lists its keys.
LEMMA HandOverLists ==
  ASSUME TypeOK, OrderInv, NEW j \in JobIds, NEW op, NEW ks, NEW xs, HandOver(j, op, ks, xs),
         \A x \in xs : x[1] \in KeySet(ks)
  PROVE  ListsCoverKeys'
<1>1. ASSUME NEW i \in JobIds PROVE jobKeys'[i].keys \subseteq KeySet(jobKeys'[i].list)
  <2>1. CASE i = j
    <3>1. jobKeys'[i] = [op |-> op, list |-> ks, keys |-> {x[1] : x \in xs}, live |-> TRUE]
      BY <2>1 DEF HandOver, TypeOK
    <3> QED
      BY <3>1
  <2>2. CASE i # j
    BY <2>2 DEF HandOver, OrderInv, ListsCoverKeys, TypeOK
  <2> QED
    BY <2>1, <2>2
<1> QED
  BY <1>1 DEF ListsCoverKeys

\* submit_store keeps OrderInv.
LEMMA SubmitStoreOrder ==
  ASSUME LedgerInv, OrderInv, NEW j \in JobIds, NEW ks \in KeyLists, SubmitStore(j, ks)
  PROVE  OrderInv'
<1> DEFINE V == Victims(Cardinality(ToStore(ks)))
<1>1. TypeOK /\ IsOrder(older, Present) /\ ListsCoverKeys /\ V \in SUBSET Present
  BY SlotTypes DEF LedgerInv, OrderInv
<1>2. CASE StoreNothing(j, ks)
  BY <1>2, SameOrder DEF StoreNothing, AnswerLocally
<1>3. CASE StoreNoRoom(j, ks) \/ StoreRingFull(j, ks)
  <2>1. Evict(V) /\ jobKeys' = jobKeys
    BY <1>3 DEF StoreNoRoom, StoreRingFull, AnswerLocally
  <2>2. IsOrder(older, Present)'
    BY <1>1, <2>1, EvictOrder
  <2> QED
    BY <1>1, <2>1, <2>2 DEF OrderInv, ListsCoverKeys
<1>4. CASE StoreAccepted(j, ks)
  <2>1. Evict(V)
    BY <1>4 DEF StoreAccepted
  <2>2. PICK slot : HandOver(j, "store", ks, {<<k, slot[k]>> : k \in ToStore(ks)})
    BY <1>4 DEF StoreAccepted
  <2>3. \A x \in {<<k, slot[k]>> : k \in ToStore(ks)} : x[1] \in KeySet(ks)
    BY DEF ToStore
  <2>4. ListsCoverKeys'
    BY <1>1, <2>2, <2>3, HandOverLists
  <2>5. IsOrder(older, Present)'
    BY <1>1, <2>1, EvictOrder
  <2> QED
    BY <2>4, <2>5 DEF OrderInv
<1> QED
  BY <1>2, <1>3, <1>4 DEF SubmitStore

\* submit_load keeps OrderInv.
LEMMA SubmitLoadOrder ==
  ASSUME LedgerInv, OrderInv, NEW j \in JobIds, NEW ks \in KeyLists, SubmitLoad(j, ks)
  PROVE  OrderInv'
<1>1. TypeOK /\ ListsCoverKeys /\ present' = present
  BY DEF LedgerInv, OrderInv, SubmitLoad
<1>2. CASE LoadMissing(j, ks)
  BY <1>1, <1>2, SameOrder DEF LoadMissing, AnswerLocally
<1>3. CASE LoadRingFull(j, ks)
  <2>1. /\ KeySet(ks) \in SUBSET Present /\ older' = MoveToEnd(Present, ks, KeySet(ks))
        /\ jobKeys' = jobKeys
    BY <1>3 DEF LoadRingFull, AnswerLocally
  <2>2. IsOrder(older, Present)'
    BY <1>1, <2>1, TouchedOrder
  <2> QED
    BY <1>1, <2>1, <2>2 DEF OrderInv, ListsCoverKeys
<1>4. CASE LoadAccepted(j, ks)
  <2>1. /\ KeySet(ks) \in SUBSET Present /\ older' = MoveToEnd(Present, ks, KeySet(ks))
        /\ HandOver(j, "load", ks, {<<k, present[k]>> : k \in KeySet(ks)})
    BY <1>4 DEF LoadAccepted
  <2>2. IsOrder(older, Present)'
    BY <1>1, <2>1, TouchedOrder
  <2>3. \A x \in {<<k, present[k]>> : k \in KeySet(ks)} : x[1] \in KeySet(ks)
    OBVIOUS
  <2>4. ListsCoverKeys'
    BY <1>1, <2>1, <2>3, HandOverLists
  <2> QED
    BY <2>2, <2>4 DEF OrderInv
<1> QED
  BY <1>2, <1>3, <1>4 DEF SubmitLoad

\* Handling one polled job keeps OrderInv: landed keys come last, in the order
\* their submit listed them; suspect ones leave.
LEMMA HarvestOneOrder ==
  ASSUME LedgerInv, OrderInv, NEW j \in JobIds, HarvestOne(j)
  PROVE  OrderInv'
<1> DEFINE ks == jobKeys[j].keys
<1>1. TypeOK /\ IsOrder(older, Present) /\ ListsCoverKeys
  BY DEF LedgerInv, OrderInv
<1>2. ASSUME NEW verdict, Handled(j, verdict) PROVE ListsCoverKeys'
  BY <1>1, <1>2 DEF Handled, ListsCoverKeys, NoKeys, TypeOK
<1>3. CASE StoreLanded(j)
  <2>1. /\ Handled(j, "ok") /\ jobKeys[j].op = "store"
        /\ present' = [k \in Keys |-> IF k \in ks THEN storing[k] ELSE present[k]]
        /\ older' = MoveToEnd(Present \cup ks, jobKeys[j].list, ks)
    BY <1>3 DEF StoreLanded
  <2>2. ks \subseteq Storing /\ ks \subseteq Keys
    BY <2>1, PolledStore
  <2>3. Present' = Present \cup ks
    BY <2>1, <2>2 DEF Present, Storing
  <2>4. jobKeys[j].list \in KeyLists /\ ks \subseteq KeySet(jobKeys[j].list)
    BY <1>1 DEF TypeOK, ListsCoverKeys
  <2>5. IsOrder(MoveToEnd(Present \cup ks, jobKeys[j].list, ks), Present \cup ks)
    BY <1>1, <2>4, MoveToEndOrder
  <2>6. IsOrder(older, Present)'
    BY <2>1, <2>3, <2>5, NextIsOrder
  <2> QED
    BY <1>2, <2>1, <2>6 DEF OrderInv
<1>4. CASE StoreFailed(j) \/ LoadLanded(j)
  <2>1. ListsCoverKeys' /\ UNCHANGED <<present, older>>
    BY <1>2, <1>4 DEF StoreFailed, LoadLanded
  <2>2. Present' = Present
    BY <2>1 DEF Present
  <2> QED
    BY <1>1, <2>1, <2>2 DEF OrderInv, IsOrder
<1>5. CASE LoadFailed(j)
  <2> DEFINE suspect == {k \in ks \cap Present : Unpinned(ks)[k] = 0}
  <2>1. Handled(j, "fail") /\ Evict(suspect)
    BY <1>5 DEF LoadFailed
  <2>2. suspect \in SUBSET Present
    OBVIOUS
  <2> HIDE DEF suspect
  <2>3. IsOrder(older, Present)'
    BY <1>1, <2>1, <2>2, EvictOrder
  <2> QED
    BY <1>2, <2>1, <2>3 DEF OrderInv
<1> QED
  BY <1>3, <1>4, <1>5 DEF HarvestOne

\* No step of the manager or the engine leaves OrderInv.
LEMMA NextOrder == LedgerInv /\ OrderInv /\ [Next]_vars => OrderInv'
<1> SUFFICES ASSUME LedgerInv, OrderInv, [Next]_vars PROVE OrderInv'
  OBVIOUS
<1>1. CASE \E ks \in KeyLists : Touch(ks)
  <2>1. PICK ks \in KeyLists : Touch(ks)
    BY <1>1
  <2>2. /\ older' = MoveToEnd(Present, ks, KeySet(ks) \cap Present)
        /\ UNCHANGED <<present, jobKeys>>
    BY <2>1 DEF Touch
  <2>3. IsOrder(older, Present)'
    BY <2>2, TouchedOrder DEF LedgerInv
  <2> QED
    BY <2>2, <2>3 DEF OrderInv, ListsCoverKeys
<1>2. CASE \E j \in JobIds, ks \in KeyLists : SubmitStore(j, ks) \/ SubmitLoad(j, ks)
  BY <1>2, SubmitStoreOrder, SubmitLoadOrder
<1>3. CASE \E j \in JobIds : HarvestOne(j)
  BY <1>3, HarvestOneOrder
<1>4. CASE \/ DrainCall \/ DrainReturn \/ EndHarvest \/ Down \/ UNCHANGED vars
           \/ \E B \in SUBSET JobIds : BeginHarvest(B)
           \/ \E j \in JobIds : EngineRuns(j)
  <2>1. UNCHANGED <<present, older, jobKeys>>
    BY <1>4 DEF DrainCall, DrainReturn, EndHarvest, Down, BeginHarvest, EngineRuns, ledger, vars
  <2> QED
    BY <2>1, SameOrder
<1> QED
  BY <1>1, <1>2, <1>3, <1>4 DEF Next

\* The order of _present is a strict total order of the landed keys, whatever
\* is touched, evicted, landed or given up (touch, submit_load, _take_slots,
\* get_finished_jobs).
THEOREM OrderInvariant == Spec => [](LedgerInv /\ OrderInv)
<1>1. Init => OrderInv
  <2> SUFFICES ASSUME Init PROVE OrderInv
    OBVIOUS
  <2>1. Present = {} /\ older = {}
    BY DEF Init, Present
  <2>2. ListsCoverKeys
    BY DEF Init, ListsCoverKeys, NoKeys
  <2> QED
    BY <2>1, <2>2 DEF OrderInv, IsOrder
<1> QED
  BY <1>1, InitInv, NextInv, NextOrder, PTL DEF Spec

\* In particular: the order stays total (OrderedDict never loses a key's place).
THEOREM RecencyStaysTotal == Spec => []RecencyIsOrder
<1>1. OrderInv => RecencyIsOrder
  BY RecencyOrder DEF OrderInv
<1> QED
  BY <1>1, OrderInvariant, PTL

-----------------------------------------------------------------------------
(* _take_slots *)

\* The keys of E before k.
Below(R, E, k) == {v \in E : <<v, k>> \in R}

\* What comes earlier in a finite order has fewer elements before it.
LEMMA BelowCounts ==
  ASSUME NEW E, IsFiniteSet(E), NEW R, NEW D, IsOrder(R, D), E \subseteq D
  PROVE  /\ \A k \in E : Cardinality(Below(R, E, k)) \in 0..(Cardinality(E) - 1)
         /\ \A a, b \in E : <<a, b>> \in R =>
              Cardinality(Below(R, E, a)) < Cardinality(Below(R, E, b))
<1>1. ASSUME NEW k \in E
      PROVE  /\ IsFiniteSet(Below(R, E, k)) /\ Cardinality(Below(R, E, k)) \in Nat
             /\ k \notin Below(R, E, k) /\ Below(R, E, k) \in SUBSET E
  <2>1. Below(R, E, k) \in SUBSET E /\ k \notin Below(R, E, k)
    BY DEF Below, IsOrder
  <2> QED
    BY <2>1, FS_Subset, FS_CardinalityType
<1>2. ASSUME NEW A, NEW B, IsFiniteSet(B), A \in SUBSET B, NEW x \in B, x \notin A
      PROVE  Cardinality(A) < Cardinality(B)
  <2>1. IsFiniteSet(A) /\ Cardinality(A) <= Cardinality(B) /\ Cardinality(A) # Cardinality(B)
    BY <1>2, FS_Subset
  <2>2. Cardinality(A) \in Nat /\ Cardinality(B) \in Nat
    BY <1>2, <2>1, FS_CardinalityType
  <2> QED
    BY <2>1, <2>2
<1>3. ASSUME NEW k \in E PROVE Cardinality(Below(R, E, k)) \in 0..(Cardinality(E) - 1)
  <2>1. Cardinality(Below(R, E, k)) < Cardinality(E)
    BY <1>1, <1>2
  <2>2. Cardinality(E) \in Nat /\ Cardinality(Below(R, E, k)) \in Nat
    BY <1>1, FS_CardinalityType
  <2> QED
    BY <2>1, <2>2
<1>4. ASSUME NEW a \in E, NEW b \in E, <<a, b>> \in R
      PROVE  Cardinality(Below(R, E, a)) < Cardinality(Below(R, E, b))
  <2>1. Below(R, E, a) \in SUBSET Below(R, E, b)
    <3> SUFFICES ASSUME NEW v \in E, <<v, a>> \in R PROVE <<v, b>> \in R
      BY DEF Below
    <3> QED
      BY <1>4 DEF IsOrder
  <2>2. a \in Below(R, E, b) /\ a \notin Below(R, E, a) /\ IsFiniteSet(Below(R, E, b))
    BY <1>1, <1>4 DEF Below
  <2> QED
    BY <1>2, <2>1, <2>2
<1> QED
  BY <1>3, <1>4

\* In a finite order, m elements have fewer than m before them.
LEMMA OldestCount ==
  ASSUME NEW E, IsFiniteSet(E), NEW R, NEW D, IsOrder(R, D), E \subseteq D,
         NEW m \in Nat, m <= Cardinality(E)
  PROVE  Cardinality({k \in E : Cardinality(Below(R, E, k)) < m}) = m
<1> DEFINE n == Cardinality(E)
           rank == [k \in E |-> Cardinality(Below(R, E, k))]
           V == {k \in E : rank[k] < m}
<1>1. n \in Nat /\ n - 1 \in Int /\ m - 1 \in Int
  BY FS_CardinalityType
<1>2. rank \in [E -> 0..(n - 1)]
  BY BelowCounts
<1>3. ASSUME NEW a \in E, NEW b \in E, a # b PROVE rank[a] # rank[b]
  <2>1. <<a, b>> \in R \/ <<b, a>> \in R
    BY <1>3 DEF IsOrder
  <2>2. rank[a] < rank[b] \/ rank[b] < rank[a]
    BY <2>1, BelowCounts
  <2>3. rank[a] \in Int /\ rank[b] \in Int
    BY <1>1, <1>2
  <2> HIDE DEF rank
  <2> QED
    BY <2>2, <2>3
<1> HIDE DEF rank
<1>4. rank \in Injection(E, 0..(n - 1))
  BY <1>2, <1>3 DEF Injection, IsInjective
<1>5. IsFiniteSet(0..(n - 1)) /\ Cardinality(0..(n - 1)) = n
  <2>1. 0 \in Int
    OBVIOUS
  <2>2. /\ IsFiniteSet(0..(n - 1))
        /\ Cardinality(0..(n - 1)) = IF 0 > n - 1 THEN 0 ELSE (n - 1) - 0 + 1
    BY <1>1, <2>1, FS_Interval, Zenon
  <2> QED
    BY <1>1, <2>2
<1>6. rank \in Surjection(E, 0..(n - 1))
  BY <1>4, <1>5, FS_Injection
<1>7. IsFiniteSet(0..(m - 1)) /\ Cardinality(0..(m - 1)) = m
  <2>1. 0 \in Int
    OBVIOUS
  <2>2. /\ IsFiniteSet(0..(m - 1))
        /\ Cardinality(0..(m - 1)) = IF 0 > m - 1 THEN 0 ELSE (m - 1) - 0 + 1
    BY <1>1, <2>1, FS_Interval, Zenon
  <2> QED
    BY <2>2
<1> DEFINE f == [i \in 0..(m - 1) |-> CHOOSE k \in E : rank[k] = i]
<1>8. ASSUME NEW i \in 0..(m - 1) PROVE f[i] \in V /\ rank[f[i]] = i
  <2>1. i \in 0..(n - 1) /\ i < m
    BY <1>1
  <2>2. \E k \in E : rank[k] = i
    BY <1>6, <2>1 DEF Surjection
  <2> QED
    BY <2>1, <2>2
<1>9. ASSUME NEW k \in V PROVE rank[k] \in 0..(m - 1) /\ f[rank[k]] = k
  <2>1. k \in E /\ rank[k] \in 0..(n - 1) /\ rank[k] < m
    BY <1>2
  <2>2. rank[k] \in 0..(m - 1)
    BY <1>1, <2>1
  <2>3. f[rank[k]] \in E /\ rank[f[rank[k]]] = rank[k]
    BY <1>8, <2>2
  <2> QED
    BY <1>3, <2>1, <2>2, <2>3
<1> HIDE DEF f, V
<1>10. f \in [0..(m - 1) -> V]
  <2>1. f = [i \in 0..(m - 1) |-> f[i]]
    BY DEF f
  <2> QED
    BY <1>8, <2>1
<1>11. f \in Bijection(0..(m - 1), V)
  BY <1>8, <1>9, <1>10 DEF Bijection, Injection, IsInjective, Surjection
<1>12. Cardinality(V) = m
  BY <1>7, <1>11, FS_Bijection DEF ExistsBijection
<1>13. V = {k \in E : Cardinality(Below(R, E, k)) < m}
  BY DEF V, rank
<1> QED
  BY <1>12, <1>13

\* The landed keys' slots are as many as the keys, and none of them is free.
LEMMA SlotsOfCount ==
  ASSUME TypeOK, SlotsPartitioned, NEW V \in SUBSET Present
  PROVE  /\ IsFiniteSet(SlotsOf(V)) /\ Cardinality(SlotsOf(V)) = Cardinality(V)
         /\ SlotsOf(V) \cap free = {}
<1>1. V \in SUBSET Keys /\ IsFiniteSet(V)
  BY SlotTypes, KeySubsets
<1>2. Owned
  BY PartitionOwned
<1> DEFINE f == [k \in V |-> present[k]]
<1>3. f \in Bijection(V, SlotsOf(V))
  <2>1. f \in [V -> SlotsOf(V)]
    BY DEF SlotsOf
  <2>2. \A a, b \in V : f[a] = f[b] => a = b
    BY <1>1, <1>2 DEF Owned, Present
  <2>3. \A s \in SlotsOf(V) : \E k \in V : f[k] = s
    BY DEF SlotsOf
  <2> QED
    BY <2>1, <2>2, <2>3 DEF Bijection, Injection, IsInjective, Surjection
<1>4. SlotsOf(V) \cap free = {}
  BY <1>1, <1>2 DEF SlotsOf, Owned
<1> QED
  BY <1>1, <1>3, <1>4, FS_Bijection DEF ExistsBijection

\* _take_slots(n) evicts as many keys as the free slots fall short, and takes
\* n slots, when n can be had at all.
LEMMA VictimsSuffice ==
  ASSUME LedgerInv, OrderInv, NEW n \in Nat, Obtainable(n)
  PROVE  /\ n > Cardinality(free) => Cardinality(Victims(n)) = n - Cardinality(free)
         /\ \A T \in TakenSets(n) : Cardinality(T) = n
<1>1. TypeOK /\ SlotsPartitioned /\ IsOrder(older, Present)
  BY DEF LedgerInv, OrderInv
<1>2. /\ Evictable \in SUBSET Keys /\ IsFiniteSet(Evictable) /\ Evictable \subseteq Present
      /\ Cardinality(Evictable) \in Nat
  BY <1>1, SlotTypes, KeySubsets
<1>3. IsFiniteSet(free) /\ Cardinality(free) \in Nat
  BY <1>1, FiniteAssumption, FS_Subset, FS_CardinalityType DEF TypeOK
<1>4. CASE n <= Cardinality(free)
  BY <1>3, <1>4 DEF TakenSets
<1>5. CASE n > Cardinality(free)
  <2> DEFINE m == n - Cardinality(free)
  <2>1. m \in Nat /\ m <= Cardinality(Evictable)
    BY <1>2, <1>3, <1>5 DEF Obtainable
  <2>2. Victims(n) = {k \in Evictable : Cardinality(Below(older, Evictable, k)) < m}
    BY DEF Victims, Below
  <2>3. Cardinality({k \in Evictable : Cardinality(Below(older, Evictable, k)) < m}) = m
    <3> HIDE DEF m
    <3> QED
      BY <1>1, <1>2, <2>1, OldestCount
  <2>4. Cardinality(Victims(n)) = m
    BY <2>2, <2>3
  <2>5. Victims(n) \in SUBSET Present
    BY <1>1, SlotTypes
  <2>6. /\ IsFiniteSet(SlotsOf(Victims(n))) /\ Cardinality(SlotsOf(Victims(n))) = m
        /\ SlotsOf(Victims(n)) \cap free = {}
    BY <1>1, <2>4, <2>5, SlotsOfCount
  <2>7. Cardinality(free \cup SlotsOf(Victims(n))) = Cardinality(free) + m - Cardinality({})
    <3>1. free \cap SlotsOf(Victims(n)) = {}
      BY <2>6
    <3> QED
      BY <1>3, <2>6, <3>1, FS_Union
  <2>8. Cardinality(free \cup SlotsOf(Victims(n))) = n
    BY <1>3, <2>7, FS_EmptySet
  <2>9. TakenSets(n) = {free \cup SlotsOf(Victims(n))}
    BY <1>3, <1>5 DEF TakenSets
  <2> QED
    BY <2>4, <2>8, <2>9
<1> QED
  BY <1>3, <1>4, <1>5

\* The ledger's dictionaries agree with each other and with the engine, the
\* recency order is total and _take_slots takes exactly what it was asked for.
THEOREM LedgerStaysConsistent == Spec => []LedgerConsistent
<1>1. LedgerInv /\ OrderInv => LedgerConsistent
  <2> SUFFICES ASSUME LedgerInv, OrderInv PROVE LedgerConsistent
    OBVIOUS
  <2>1. TakesExactly
    <3>1. \A n \in 1..MaxBlocks : n \in Nat
      OBVIOUS
    <3> QED
      BY <3>1, VictimsSuffice DEF TakesExactly
  <2>2. RecencyIsOrder
    BY RecencyOrder DEF OrderInv
  <2> QED
    BY <2>1, <2>2 DEF LedgerInv, LedgerConsistent
<1> QED
  BY <1>1, OrderInvariant, PTL

\* submit_store evicts from the old end of the order: a key only when the free
\* slots do not suffice, and then with every older unpinned one (_take_slots).
THEOREM OldestGoFirst == Spec => EvictsOldestFirst
<1>1. ASSUME LedgerInv, OrderInv, NEW j \in JobIds, NEW ks \in KeyLists, SubmitStore(j, ks),
             NEW v \in Present, present'[v] = NoSlot
      PROVE  /\ Cardinality(ToStore(ks)) > Cardinality(free)
             /\ \A u \in Evictable : <<u, v>> \in older => present'[u] = NoSlot
  <2> DEFINE n == Cardinality(ToStore(ks))
  <2>1. /\ TypeOK /\ IsOrder(older, Present) /\ v \in Keys
        /\ Evictable \in SUBSET Keys /\ Evictable \in SUBSET Present /\ IsFiniteSet(Evictable)
    BY <1>1, SlotTypes, KeySubsets DEF LedgerInv, OrderInv
  <2>2. Evict(Victims(n)) /\ v \in Victims(n)
    BY <1>1, <2>1 DEF SubmitStore, StoreNothing, StoreNoRoom, StoreRingFull, StoreAccepted,
                      Evict, Present
  <2>3. v \in Evictable /\ Cardinality(Below(older, Evictable, v)) < n - Cardinality(free)
    BY <2>2 DEF Victims, Below
  <2>4. Cardinality(free) \in Nat /\ n \in Nat
    BY <2>1, ToStoreBound, KeySubsets, FiniteAssumption, FS_Subset, FS_CardinalityType DEF TypeOK
  <2>5. \A k \in Evictable : Cardinality(Below(older, Evictable, k)) \in Nat
    <3>1. \A k \in Evictable : Below(older, Evictable, k) \in SUBSET Evictable
      BY DEF Below
    <3> QED
      BY <2>1, <3>1, FS_Subset, FS_CardinalityType
  <2>6. n > Cardinality(free)
    BY <2>3, <2>4, <2>5
  <2>7. ASSUME NEW u \in Evictable, <<u, v>> \in older PROVE present'[u] = NoSlot
    <3>1. Cardinality(Below(older, Evictable, u)) < Cardinality(Below(older, Evictable, v))
      BY <2>1, <2>3, <2>7, BelowCounts
    <3>2. Cardinality(Below(older, Evictable, u)) < n - Cardinality(free)
      BY <2>3, <2>4, <2>5, <3>1
    <3>3. u \in Victims(n)
      BY <3>2 DEF Victims, Below
    <3> QED
      BY <2>1, <2>2, <3>3 DEF Evict
  <2> QED
    BY <2>6, <2>7
<1>2. LedgerInv /\ OrderInv /\ [Next]_vars =>
        [\A j \in JobIds, ks \in KeyLists :
           SubmitStore(j, ks) =>
             \A v \in Present : present'[v] = NoSlot =>
               /\ Cardinality(ToStore(ks)) > Cardinality(free)
               /\ \A u \in Evictable : <<u, v>> \in older => present'[u] = NoSlot]_vars
  BY <1>1
<1> QED
  BY <1>2, OrderInvariant, PTL DEF Spec, EvictsOldestFirst

-----------------------------------------------------------------------------
(* Answers *)

\* A result of the job waits in _local_results or in the list being returned.
HasResult(j) == \E r \in localResults \cup results : r.job = j

\* A submitted job is with the engine (or in the batch polled from it), or has
\* a result waiting, or has been answered: one of them, and until shutdown
\* at least one.
AtOnePlace(j) ==
  /\ answers[j] \in {0, 1}
  /\ route[j] = "new" => ~HasResult(j) /\ answers[j] = 0
  /\ jobKeys[j].live => route[j] = "engine" /\ ~HasResult(j) /\ answers[j] = 0
  /\ HasResult(j) => answers[j] = 0
  /\ route[j] # "new" /\ answers[j] = 0 /\ ~closing => jobKeys[j].live \/ HasResult(j)

OnePlace ==
  /\ pc # "harvest" => results = {}
  /\ pc = "harvest" => localResults = {}
  /\ \A q, r \in localResults \cup results : q.job = r.job => q = r
  /\ \A j \in JobIds : AtOnePlace(j)

\* A step that leaves the jobs' places alone keeps OnePlace.
LEMMA SamePlace ==
  ASSUME OnePlace, UNCHANGED <<jobKeys, localResults, results, route, answers, closing>>,
         (pc = "harvest") <=> (pc' = "harvest")
  PROVE  OnePlace'
<1>1. \A j \in JobIds : HasResult(j)' <=> HasResult(j)
  BY DEF HasResult
<1>2. \A j \in JobIds : AtOnePlace(j) => AtOnePlace(j)'
  BY <1>1 DEF AtOnePlace
<1> QED
  BY <1>2 DEF OnePlace

\* Answering a job without the engine puts its result with the waiting ones.
LEMMA AnswerPlace ==
  ASSUME TypeOK, OnePlace, NEW j \in JobIds, NEW ok \in BOOLEAN, Submitted(j), AnswerLocally(j, ok)
  PROVE  OnePlace'
<1> DEFINE new == [job |-> j, ok |-> ok]
<1>1. /\ pc = "ready" /\ ~closing /\ results = {} /\ route[j] = "new"
      /\ UNCHANGED <<jobKeys, answers, pc, closing, results>>
      /\ localResults' = localResults \cup {new}
      /\ route' = [route EXCEPT ![j] = "local"]
  BY DEF Submitted, Callable, AnswerLocally, OnePlace, control
<1>2. ~HasResult(j) /\ answers[j] = 0 /\ ~jobKeys[j].live
  BY <1>1 DEF OnePlace, AtOnePlace
<1>a. new.job = j
  OBVIOUS
<1> HIDE DEF new
<1>3. \A i \in JobIds : HasResult(i)' <=> HasResult(i) \/ i = j
  BY <1>1, <1>a DEF HasResult
<1>4. \A q, r \in (localResults \cup results)' : q.job = r.job => q = r
  <2>1. \A q \in localResults : q.job # j
    BY <1>2 DEF HasResult
  <2> QED
    BY <1>1, <1>a, <2>1 DEF OnePlace
<1>5. ASSUME NEW i \in JobIds PROVE AtOnePlace(i)'
  <2>1. AtOnePlace(i) /\ route'[i] = IF i = j THEN "local" ELSE route[i]
    BY <1>1 DEF OnePlace, TypeOK
  <2> QED
    BY <1>1, <1>2, <1>3, <2>1 DEF AtOnePlace
<1> QED
  BY <1>1, <1>4, <1>5 DEF OnePlace

\* Handing a job over puts it with the engine.
LEMMA HandOverPlace ==
  ASSUME TypeOK, OnePlace, NEW j \in JobIds, NEW op, NEW ks, NEW xs,
         Submitted(j), HandOver(j, op, ks, xs)
  PROVE  OnePlace'
<1>1. /\ pc = "ready" /\ ~closing /\ route[j] = "new"
      /\ UNCHANGED <<localResults, answers, pc, closing, results>>
      /\ route' = [route EXCEPT ![j] = "engine"]
  BY DEF Submitted, Callable, HandOver, OnePlace, control
<1>2. ~HasResult(j) /\ answers[j] = 0
  BY <1>1 DEF OnePlace, AtOnePlace
<1>3. \A i \in JobIds : HasResult(i)' <=> HasResult(i)
  BY <1>1 DEF HasResult
<1>4. \A i \in JobIds : jobKeys'[i].live <=> i = j \/ jobKeys[i].live
  BY DEF HandOver, TypeOK
<1>5. ASSUME NEW i \in JobIds PROVE AtOnePlace(i)'
  <2>1. AtOnePlace(i) /\ route'[i] = IF i = j THEN "engine" ELSE route[i]
    BY <1>1 DEF OnePlace, TypeOK
  <2> QED
    BY <1>1, <1>2, <1>3, <1>4, <2>1 DEF AtOnePlace
<1> QED
  BY <1>1, <1>5 DEF OnePlace

\* Every submit does one or the other.
LEMMA SubmitPlace ==
  ASSUME TypeOK, OnePlace, NEW j \in JobIds, NEW ks, SubmitStore(j, ks) \/ SubmitLoad(j, ks)
  PROVE  OnePlace'
<1>1. Submitted(j)
  BY DEF SubmitStore, SubmitLoad
<1>2. \/ \E ok \in BOOLEAN : AnswerLocally(j, ok)
      \/ \E op, xs : HandOver(j, op, ks, xs)
  BY DEF SubmitStore, StoreNothing, StoreNoRoom, StoreRingFull, StoreAccepted,
         SubmitLoad, LoadMissing, LoadRingFull, LoadAccepted
<1> QED
  BY <1>1, <1>2, AnswerPlace, HandOverPlace

\* Taking a polled job off the batch puts its result with the waiting ones.
LEMMA HandledPlace ==
  ASSUME LedgerInv, OnePlace, NEW j \in JobIds, NEW verdict \in {"ok", "fail"}, Handled(j, verdict)
  PROVE  OnePlace'
<1> DEFINE new == [job |-> j, ok |-> verdict = "ok"]
<1>1. /\ pc = "harvest" /\ localResults = {} /\ jobKeys[j].live /\ jobKeys'[j] = NoKeys
      /\ \A i \in JobIds \ {j} : jobKeys'[i] = jobKeys[i]
      /\ results' = results \cup {new}
      /\ UNCHANGED <<localResults, route, answers, pc, closing>>
  BY HandledFacts DEF Handled, history, OnePlace
<1>2. ~HasResult(j) /\ answers[j] = 0 /\ route[j] = "engine"
  BY <1>1 DEF OnePlace, AtOnePlace
<1>a. new.job = j
  OBVIOUS
<1> HIDE DEF new
<1>3. \A i \in JobIds : HasResult(i)' <=> HasResult(i) \/ i = j
  BY <1>1, <1>a DEF HasResult
<1>4. \A q, r \in (localResults \cup results)' : q.job = r.job => q = r
  <2>1. \A q \in results : q.job # j
    BY <1>2 DEF HasResult
  <2> QED
    BY <1>1, <1>a, <2>1 DEF OnePlace
<1>5. ASSUME NEW i \in JobIds PROVE AtOnePlace(i)'
  <2>1. AtOnePlace(i) /\ (jobKeys'[i].live <=> i # j /\ jobKeys[i].live)
    BY <1>1 DEF OnePlace, NoKeys
  <2> QED
    BY <1>1, <1>2, <1>3, <2>1 DEF AtOnePlace
<1> QED
  BY <1>1, <1>4, <1>5 DEF OnePlace

\* Polling moves the results that never saw the engine to the list to return.
LEMMA BeginHarvestPlace ==
  ASSUME OnePlace, NEW B, BeginHarvest(B)
  PROVE  OnePlace'
<1>1. /\ pc # "harvest" /\ results = {} /\ pc' = "harvest"
      /\ results' = localResults /\ localResults' = {}
      /\ UNCHANGED <<jobKeys, route, answers, closing>>
  BY DEF BeginHarvest, Callable, OnePlace, ledger, history
<1>2. (localResults \cup results)' = localResults \cup results
  BY <1>1
<1>3. \A i \in JobIds : HasResult(i)' <=> HasResult(i)
  BY <1>2 DEF HasResult
<1>4. \A i \in JobIds : AtOnePlace(i) => AtOnePlace(i)'
  BY <1>1, <1>3 DEF AtOnePlace
<1> QED
  BY <1>1, <1>2, <1>4 DEF OnePlace

\* Returning the list answers each job with a result in it once.
LEMMA ReturnedOnce ==
  ASSUME OnePlace, pc = "harvest", NEW j \in JobIds
  PROVE  Cardinality({r \in results : r.job = j}) = IF HasResult(j) THEN 1 ELSE 0
<1> DEFINE Q == {r \in results : r.job = j}
<1>1. localResults = {}
  BY DEF OnePlace
<1>2. CASE HasResult(j)
  <2>1. PICK q \in results : q.job = j
    BY <1>1, <1>2 DEF HasResult
  <2>2. Q = {q}
    BY <2>1 DEF OnePlace
  <2> QED
    BY <1>2, <2>2, FS_Singleton
<1>3. CASE ~HasResult(j)
  <2>1. Q = {}
    BY <1>3 DEF HasResult
  <2> QED
    BY <1>3, <2>1, FS_EmptySet
<1> QED
  BY <1>2, <1>3

\* EndHarvest keeps OnePlace.
LEMMA EndHarvestPlace ==
  ASSUME LedgerInv, OnePlace, EndHarvest
  PROVE  OnePlace'
<1>1. /\ pc = "harvest" /\ localResults = {} /\ results' = {} /\ pc' # "harvest"
      /\ UNCHANGED <<jobKeys, localResults, closing, route>>
      /\ \A j \in JobIds : answers'[j] =
           IF closing THEN answers[j]
           ELSE answers[j] + Cardinality({r \in results : r.job = j})
  BY DEF EndHarvest, ledger, OnePlace
<1>2. \A j \in JobIds : ~HasResult(j)'
  BY <1>1 DEF HasResult
<1>3. ASSUME NEW j \in JobIds PROVE AtOnePlace(j)'
  <2>1. AtOnePlace(j)
    BY DEF OnePlace
  <2>2. answers'[j] = IF ~closing /\ HasResult(j) THEN answers[j] + 1 ELSE answers[j]
    <3>1. Cardinality({r \in results : r.job = j}) = IF HasResult(j) THEN 1 ELSE 0
      BY <1>1, ReturnedOnce
    <3>2. answers[j] \in {0, 1}
      BY <2>1 DEF AtOnePlace
    <3> QED
      BY <1>1, <3>1, <3>2
  <2> QED
    BY <1>1, <1>2, <2>1, <2>2 DEF AtOnePlace
<1> QED
  BY <1>1, <1>3 DEF OnePlace

\* No step of the manager or the engine leaves OnePlace.
LEMMA NextPlace == LedgerInv /\ OnePlace /\ [Next]_vars => OnePlace'
<1> SUFFICES ASSUME LedgerInv, OnePlace, [Next]_vars PROVE OnePlace'
  OBVIOUS
<1>1. TypeOK
  BY DEF LedgerInv
<1>2. CASE \E j \in JobIds, ks \in KeyLists : SubmitStore(j, ks) \/ SubmitLoad(j, ks)
  BY <1>1, <1>2, SubmitPlace
<1>3. CASE DrainCall
  <2>1. /\ UNCHANGED <<jobKeys, localResults, results, route, answers>>
        /\ pc # "harvest" /\ pc' # "harvest" /\ ~closing /\ results = {}
    BY <1>3 DEF DrainCall, Callable, ledger, history, OnePlace
  <2>2. \A j \in JobIds : HasResult(j)' <=> HasResult(j)
    BY <2>1 DEF HasResult
  <2>3. \A j \in JobIds : AtOnePlace(j) => AtOnePlace(j)'
    BY <2>1, <2>2 DEF AtOnePlace
  <2> QED
    BY <2>1, <2>3 DEF OnePlace
<1>4. CASE \E B \in SUBSET JobIds : BeginHarvest(B)
  BY <1>4, BeginHarvestPlace
<1>5. CASE \E j \in JobIds : HarvestOne(j)
  <2>1. \E j \in JobIds : \E verdict \in {"ok", "fail"} : Handled(j, verdict)
    BY <1>5 DEF HarvestOne, StoreLanded, StoreFailed, LoadLanded, LoadFailed
  <2> QED
    BY <2>1, HandledPlace
<1>6. CASE EndHarvest
  BY <1>6, EndHarvestPlace
<1>7. CASE \/ DrainReturn \/ Down \/ UNCHANGED vars
           \/ \E ks \in KeyLists : Touch(ks)
           \/ \E j \in JobIds : EngineRuns(j)
  <2>1. /\ UNCHANGED <<jobKeys, localResults, results, route, answers, closing>>
        /\ (pc = "harvest") <=> (pc' = "harvest")
    BY <1>7 DEF DrainReturn, Down, Touch, EngineRuns, ledger, control, history, vars
  <2> QED
    BY <2>1, SamePlace
<1> QED
  BY <1>2, <1>3, <1>4, <1>5, <1>6, <1>7 DEF Next

\* Every submitted job is at one place.
LEMMA PlaceInvariant == Spec => [](LedgerInv /\ OnePlace)
<1>1. Init => OnePlace
  BY DEF Init, OnePlace, AtOnePlace, HasResult, NoKeys
<1> QED
  BY <1>1, InitInv, NextInv, NextPlace, PTL DEF Spec

\* No job is answered twice, and has_pending_work is true exactly as long as
\* some submitted job has no answer (has_pending_work, get_finished_jobs).
THEOREM AnsweredOnceAndAskedFor == Spec => []AnswersComplete
<1>1. LedgerInv /\ OnePlace => AnswersComplete
  <2> SUFFICES ASSUME LedgerInv, OnePlace PROVE AnswersComplete
    OBVIOUS
  <2>1. \A j \in JobIds : answers[j] <= 1 /\ (route[j] = "new" => answers[j] = 0)
    BY DEF OnePlace, AtOnePlace
  <2>2. ASSUME Callable
        PROVE  HasPendingWork <=> \E j \in JobIds : route[j] # "new" /\ answers[j] = 0
    <3>1. results = {} /\ ~closing
      BY <2>2 DEF Callable, OnePlace
    <3>2. localResults # {} => \E j \in JobIds : HasResult(j)
      BY DEF HasResult, LedgerInv, TypeOK, Result
    <3>3. \A j \in JobIds : HasResult(j) => localResults # {}
      BY <3>1 DEF HasResult
    <3> QED
      BY <3>1, <3>2, <3>3 DEF OnePlace, AtOnePlace, HasPendingWork
  <2> QED
    BY <2>1, <2>2 DEF AnswersComplete
<1> QED
  BY <1>1, PlaceInvariant, PTL

-----------------------------------------------------------------------------
(* Rows *)

\* A job the engine has settled has its row, in the engine's ledger until the
\* manager takes it; an answered one has it in the file (or lost).
RowsKept ==
  /\ closing /\ pc \in {"harvest", "down"} => Pending = {}
  /\ \A j \in JobIds : route[j] = "engine" /\ job[j].stage # "running" =>
       j \in records \cup onFile \cup lostRows
  /\ RowsFollowAnswers

\* A step that moves no job and no row keeps RowsKept.
LEMMA SameRows ==
  ASSUME RowsKept, UNCHANGED <<job, records, onFile, lostRows, route, answers>>,
         closing' /\ pc' \in {"harvest", "down"} => closing /\ pc \in {"harvest", "down"},
         pc' = "down" => pc = "down"
  PROVE  RowsKept'
<1>1. Pending' = Pending
  BY DEF Pending
<1> QED
  BY <1>1 DEF RowsKept, RowsFollowAnswers

\* A submit adds no row: a job the engine takes has blocks to move first.
LEMMA SubmitRows ==
  ASSUME TypeOK, OnePlace, RowsKept, NEW j \in JobIds, NEW ks, SubmitStore(j, ks) \/ SubmitLoad(j, ks)
  PROVE  RowsKept'
<1>1. /\ pc = "ready" /\ pc' = "ready" /\ route[j] = "new"
      /\ UNCHANGED <<onFile, lostRows, answers>>
  BY DEF SubmitStore, SubmitLoad, Submitted, Callable, control
<1>2. answers[j] = 0
  BY <1>1 DEF OnePlace, AtOnePlace
<1>3. ASSUME NEW ok, AnswerLocally(j, ok) PROVE RowsKept'
  <2>1. UNCHANGED <<job, records>> /\ \A i \in JobIds : route'[i] = IF i = j THEN "local" ELSE route[i]
    BY <1>3 DEF AnswerLocally, engineVars, TypeOK
  <2> QED
    BY <1>1, <2>1 DEF RowsKept, RowsFollowAnswers
<1>4. ASSUME NEW op, NEW ks2, NEW xs, HandOver(j, op, ks2, xs) PROVE RowsKept'
  <2>1. records' = records /\ \A i \in JobIds : route'[i] = IF i = j THEN "engine" ELSE route[i]
    BY <1>4 DEF HandOver, Accept, TypeOK
  <2>2. \A i \in JobIds : job'[i].stage = IF i = j THEN "running" ELSE job[i].stage
    BY <1>4 DEF HandOver, Accept, TypeOK, EngineTypeOK
  <2> QED
    BY <1>1, <1>2, <2>1, <2>2 DEF RowsKept, RowsFollowAnswers
<1>5. \/ \E ok \in BOOLEAN : AnswerLocally(j, ok)
      \/ \E op, xs : HandOver(j, op, ks, xs)
  BY DEF SubmitStore, StoreNothing, StoreNoRoom, StoreRingFull, StoreAccepted,
         SubmitLoad, LoadMissing, LoadRingFull, LoadAccepted
<1> QED
  BY <1>3, <1>4, <1>5

\* Polling takes jobs that are done, so their rows are written.
LEMMA BeginHarvestRows ==
  ASSUME TypeOK, RowsKept, NEW B, BeginHarvest(B)
  PROVE  RowsKept'
<1>1. /\ closing => Pending = {}
      /\ pc' = "harvest" /\ pc # "down"
      /\ UNCHANGED <<records, onFile, lostRows, route, answers, closing>>
  BY DEF BeginHarvest, Callable, history
<1>2. \A i \in JobIds : job'[i] = job[i] \/ (job[i].stage = "done" /\ job'[i].stage = "none")
  BY DEF BeginHarvest, Poll, Pollable, Done, NoJob
<1>3. closing => Pending' = {}
  BY <1>1, <1>2 DEF Pending
<1>4. \A i \in JobIds : job'[i].stage # "running" => job[i].stage # "running"
  BY <1>2
<1> QED
  BY <1>1, <1>3, <1>4 DEF RowsKept, RowsFollowAnswers

\* The engine writes a job's row when it settles its last block.
LEMMA EngineRunsRows ==
  ASSUME TypeOK, RowsKept, NEW j \in JobIds, EngineRuns(j)
  PROVE  RowsKept'
<1>1. EngineStep(j) /\ UNCHANGED <<onFile, lostRows, route, answers, closing, pc>>
  BY DEF EngineRuns, control, history
<1>2. /\ job[j].stage \in {"running", "logged"} /\ j \in Pending
      /\ \A i \in JobIds : i # j => job'[i] = job[i]
      /\ records \subseteq records'
      /\ job'[j].stage # "running" => job[j].stage = "logged" \/ j \in records'
  <2>1. job \in [JobIds -> JobState]
    BY DEF TypeOK, EngineTypeOK
  <2>2. CASE \E x \in job[j].left : WriteBlock(j, x) \/ ReadBlock(j, x) \/ FailBlock(j, x)
    BY <2>1, <2>2 DEF WriteBlock, ReadBlock, FailBlock, Moved, Pending, JobState
  <2>3. CASE Log(j)
    BY <2>1, <2>3 DEF Log, Pending, JobState
  <2>4. CASE Publish(j)
    BY <2>1, <2>4 DEF Publish, Pending, JobState
  <2> QED
    BY <1>1, <2>2, <2>3, <2>4 DEF EngineStep
<1>3. ~(closing /\ pc \in {"harvest", "down"})
  BY <1>2 DEF RowsKept
<1> QED
  BY <1>1, <1>2, <1>3 DEF RowsKept, RowsFollowAnswers

\* Rows are appended before the answers go out.
LEMMA EndHarvestRows ==
  ASSUME LedgerInv, OnePlace, RowsKept, EndHarvest
  PROVE  RowsKept'
<1>1. /\ pc = "harvest" /\ pc' = IF closing THEN "down" ELSE "ready"
      /\ onFile' \cup lostRows' = records \cup onFile \cup lostRows
      /\ UNCHANGED <<job, closing, route>>
  BY DEF EndHarvest
<1>2. Pending' = Pending
  BY <1>1 DEF Pending
<1>3. ASSUME NEW j \in JobIds, route[j] = "engine", answers'[j] > 0 \/ pc' = "down"
      PROVE  j \in onFile' \cup lostRows'
  <2>1. CASE closing
    <3>1. job[j].stage # "running"
      BY <1>1, <2>1 DEF RowsKept, Pending
    <3> QED
      BY <1>1, <1>3, <3>1 DEF RowsKept
  <2>2. CASE ~closing
    <3>1. answers'[j] = answers[j] + Cardinality({r \in results : r.job = j}) /\ answers'[j] > 0
      BY <1>1, <1>3, <2>2 DEF EndHarvest
    <3>2. CASE HasResult(j)
      <4>1. ~jobKeys[j].live
        BY <3>2 DEF OnePlace, AtOnePlace
      <4>2. job[j].stage = "none"
        BY <4>1 DEF LedgerInv, LedgerMatchesEngine
      <4> QED
        BY <1>1, <1>3, <4>2 DEF RowsKept
    <3>3. CASE ~HasResult(j)
      <4>1. answers[j] > 0
        <5>1. Cardinality({r \in results : r.job = j}) = 0
          BY <1>1, <3>3, ReturnedOnce
        <5>2. answers[j] \in Nat
          BY DEF LedgerInv, TypeOK
        <5> QED
          BY <3>1, <5>1, <5>2
      <4> QED
        BY <1>1, <1>3, <4>1 DEF RowsKept, RowsFollowAnswers
    <3> QED
      BY <3>2, <3>3
  <2> QED
    BY <2>1, <2>2
<1> QED
  BY <1>1, <1>2, <1>3 DEF RowsKept, RowsFollowAnswers

\* No step of the manager or the engine leaves RowsKept.
LEMMA NextRows == LedgerInv /\ OnePlace /\ RowsKept /\ [Next]_vars => RowsKept'
<1> SUFFICES ASSUME LedgerInv, OnePlace, RowsKept, [Next]_vars PROVE RowsKept'
  OBVIOUS
<1>1. TypeOK
  BY DEF LedgerInv
<1>2. CASE \E j \in JobIds, ks \in KeyLists : SubmitStore(j, ks) \/ SubmitLoad(j, ks)
  BY <1>1, <1>2, SubmitRows
<1>3. CASE \E B \in SUBSET JobIds : BeginHarvest(B)
  BY <1>1, <1>3, BeginHarvestRows
<1>4. CASE EndHarvest
  BY <1>4, EndHarvestRows
<1>5. CASE \E j \in JobIds : EngineRuns(j)
  BY <1>1, <1>5, EngineRunsRows
<1>6. CASE \/ DrainCall \/ DrainReturn \/ Down \/ UNCHANGED vars
           \/ \E ks \in KeyLists : Touch(ks)
           \/ \E j \in JobIds : HarvestOne(j)
  <2> DEFINE Kept == /\ UNCHANGED <<job, records, onFile, lostRows, route, answers>>
                     /\ closing' /\ pc' \in {"harvest", "down"} =>
                          closing /\ pc \in {"harvest", "down"}
                     /\ pc' = "down" => pc = "down"
  <2>1. ASSUME DrainCall \/ DrainReturn PROVE Kept
    BY <2>1 DEF DrainCall, DrainReturn, engineVars, history
  <2>2. ASSUME Down \/ UNCHANGED vars PROVE Kept
    BY <2>2 DEF Down, vars, engineVars, control, history
  <2>3. ASSUME NEW ks, Touch(ks) PROVE Kept
    BY <2>3 DEF Touch, engineVars, control, history
  <2>4. ASSUME NEW j, HarvestOne(j) PROVE Kept
    <3>1. \E verdict : Handled(j, verdict)
      BY <2>4 DEF HarvestOne, StoreLanded, StoreFailed, LoadLanded, LoadFailed
    <3> QED
      BY <3>1 DEF Handled, engineVars, history
  <2> QED
    BY <1>6, <2>1, <2>2, <2>3, <2>4, SameRows
<1> QED
  BY <1>2, <1>3, <1>4, <1>5, <1>6 DEF Next

\* No answer overtakes its job's row, and shutdown leaves no row behind
\* (_flush_records before get_finished_jobs returns).
THEOREM RowsPrecedeAnswers == Spec => []RowsFollowAnswers
<1>1. Init => RowsKept
  BY DEF Init, RowsKept, RowsFollowAnswers
<1>2. RowsKept => RowsFollowAnswers
  BY DEF RowsKept
<1>3. Spec => []RowsKept
  BY <1>1, NextRows, PlaceInvariant, PTL DEF Spec
<1> QED
  BY <1>2, <1>3, PTL

-----------------------------------------------------------------------------
(* The store funnel *)

\* The three equations of CountersClose.
Funnel ==
  /\ counters["offered"] =
       counters["filtered"] + counters["rejectedCapacity"] + counters["rejectedRing"]
       + counters["first"] + counters["rewrite"] + counters["ioFailed"]
       + Cardinality(Storing)
  /\ counters["first"] + counters["rewrite"] =
       Cardinality(Present) + counters["evicted"] + counters["evictedSuspect"]
  /\ counters["first"] = Cardinality(everStored)

\* Every count is a natural number, and so are the sizes the funnel adds up.
LEMMA CountTypes ==
  ASSUME TypeOK
  PROVE  /\ counters["offered"] \in Nat /\ counters["filtered"] \in Nat
         /\ counters["rejectedCapacity"] \in Nat /\ counters["rejectedRing"] \in Nat
         /\ counters["first"] \in Nat /\ counters["rewrite"] \in Nat
         /\ counters["ioFailed"] \in Nat /\ counters["evicted"] \in Nat
         /\ counters["evictedSuspect"] \in Nat
         /\ Cardinality(Present) \in Nat /\ Cardinality(Storing) \in Nat
         /\ Cardinality(everStored) \in Nat
<1>1. \A c \in Counts : counters[c] \in Nat
  BY DEF TypeOK
<1>2. /\ Cardinality(Present) \in Nat /\ Cardinality(Storing) \in Nat
      /\ Cardinality(everStored) \in Nat
  BY SlotTypes, KeySubsets DEF TypeOK
<1> QED
  BY <1>1, <1>2, CounterNames

\* A step that counts nothing keeps the funnel.
LEMMA SameFunnel ==
  ASSUME Funnel, UNCHANGED <<present, storing, everStored, counters>>
  PROVE  Funnel'
<1>1. Present' = Present /\ Storing' = Storing
  BY DEF Present, Storing
<1> QED
  BY <1>1 DEF Funnel

\* Disjoint sets of keys: their sizes add up.
LEMMA DisjointSizes ==
  ASSUME NEW A \in SUBSET Keys, NEW B \in SUBSET Keys, A \cap B = {}
  PROVE  Cardinality(A \cup B) = Cardinality(A) + Cardinality(B)
<1>1. IsFiniteSet(A) /\ IsFiniteSet(B) /\ Cardinality(A) \in Nat /\ Cardinality(B) \in Nat
  BY KeySubsets
<1>2. Cardinality(A \cup B) = Cardinality(A) + Cardinality(B) - Cardinality({})
  BY <1>1, FS_Union
<1> QED
  BY <1>1, <1>2, FS_EmptySet

\* A part and the rest: their sizes add up too.
LEMMA PartSizes ==
  ASSUME NEW A \in SUBSET Keys, NEW B \in SUBSET A
  PROVE  Cardinality(A) = Cardinality(A \ B) + Cardinality(B)
<1>1. A = (A \ B) \cup B /\ (A \ B) \cap B = {}
  OBVIOUS
<1>2. A \ B \in SUBSET Keys /\ B \in SUBSET Keys
  OBVIOUS
<1>3. Cardinality((A \ B) \cup B) = Cardinality(A \ B) + Cardinality(B)
  BY <1>1, <1>2, DisjointSizes
<1> QED
  BY <1>1, <1>3

\* What submit_store counts on its way in.
LEMMA StoreCountsFacts ==
  ASSUME TypeOK, NEW ks \in KeyLists
  PROVE  /\ StoreCounts(ks) \in [Counts -> Int]
         /\ StoreCounts(ks)["offered"] = counters["offered"] + Len(ks)
         /\ StoreCounts(ks)["filtered"] =
              counters["filtered"] + Len(ks) - Cardinality(ToStore(ks))
         /\ \A c \in Counts \ {"offered", "filtered"} : StoreCounts(ks)[c] = counters[c]
<1>1. Len(ks) \in Int /\ Cardinality(ToStore(ks)) \in Int
  BY KeyListFacts, ToStoreBound
<1> QED
  BY <1>1, CounterNames DEF StoreCounts, TypeOK

\* The counters after a step that changes the counts in C only.
Changed(C) == \A c \in Counts \ C : counters'[c] = counters[c]

\* What a submit_store of len blocks does to the two ends of the funnel: c and
\* r blocks are rejected, s are being stored, the rest is filtered, and e keys
\* are evicted.
StoreMoves(len, c, r, s, e) ==
  /\ counters'["offered"] = counters["offered"] + len
  /\ counters'["filtered"] = counters["filtered"] + len - (c + r + s)
  /\ counters'["rejectedCapacity"] = counters["rejectedCapacity"] + c
  /\ counters'["rejectedRing"] = counters["rejectedRing"] + r
  /\ counters'["evicted"] = counters["evicted"] + e
  /\ Changed({"offered", "filtered", "rejectedCapacity", "rejectedRing", "evicted"})
  /\ Cardinality(Storing)' = Cardinality(Storing) + s
  /\ Cardinality(Present) = Cardinality(Present)' + e /\ Cardinality(Present)' \in Nat

\* Moves of this form keep the funnel closed.
LEMMA StoreMovesFunnel ==
  ASSUME TypeOK, Funnel, everStored' = everStored,
         NEW len \in Nat, NEW c \in Nat, NEW r \in Nat, NEW s \in Nat, NEW e \in Nat,
         StoreMoves(len, c, r, s, e)
  PROVE  Funnel'
<1>1. /\ counters["offered"] \in Int /\ counters["filtered"] \in Int
      /\ counters["rejectedCapacity"] \in Int /\ counters["rejectedRing"] \in Int
      /\ counters["first"] \in Int /\ counters["rewrite"] \in Int
      /\ counters["ioFailed"] \in Int /\ counters["evicted"] \in Int
      /\ counters["evictedSuspect"] \in Int
      /\ Cardinality(Present) \in Int /\ Cardinality(Storing) \in Int
  BY CountTypes
<1>2. /\ counters'["first"] = counters["first"]
      /\ counters'["rewrite"] = counters["rewrite"]
      /\ counters'["ioFailed"] = counters["ioFailed"]
      /\ counters'["evictedSuspect"] = counters["evictedSuspect"]
  BY CounterNames DEF StoreMoves, Changed
<1>3. /\ counters'["offered"] = counters["offered"] + len
      /\ counters'["filtered"] = counters["filtered"] + len - (c + r + s)
      /\ counters'["rejectedCapacity"] = counters["rejectedCapacity"] + c
      /\ counters'["rejectedRing"] = counters["rejectedRing"] + r
      /\ Cardinality(Storing)' = Cardinality(Storing) + s
  BY DEF StoreMoves
<1>4. /\ counters'["evicted"] = counters["evicted"] + e
      /\ Cardinality(Present) = Cardinality(Present)' + e /\ Cardinality(Present)' \in Int
  BY DEF StoreMoves
<1>5. counters["offered"] =
        counters["filtered"] + counters["rejectedCapacity"] + counters["rejectedRing"]
        + counters["first"] + counters["rewrite"] + counters["ioFailed"]
        + Cardinality(Storing)
  BY DEF Funnel
<1>6. counters["first"] + counters["rewrite"] =
        Cardinality(Present) + counters["evicted"] + counters["evictedSuspect"]
  BY DEF Funnel
<1>7. counters'["offered"] =
        counters'["filtered"] + counters'["rejectedCapacity"] + counters'["rejectedRing"]
        + counters'["first"] + counters'["rewrite"] + counters'["ioFailed"]
        + Cardinality(Storing)'
  BY <1>1, <1>2, <1>3, <1>5
<1>8. counters'["first"] + counters'["rewrite"] =
        Cardinality(Present)' + counters'["evicted"] + counters'["evictedSuspect"]
  BY <1>1, <1>2, <1>4, <1>6
<1>9. counters'["first"] = Cardinality(everStored)'
  BY <1>2 DEF Funnel
<1> QED
  BY <1>7, <1>8, <1>9 DEF Funnel

\* submit_store: what it does not write it filters or rejects, what it evicts
\* it counts.
LEMMA SubmitStoreFunnel ==
  ASSUME LedgerInv, Funnel, NEW j \in JobIds, NEW ks \in KeyLists, SubmitStore(j, ks)
  PROVE  Funnel'
<1> DEFINE n == Cardinality(ToStore(ks))
           V == Victims(n)
           e == Cardinality(V)
<1>1. /\ TypeOK /\ ToStore(ks) \in SUBSET Keys /\ V \in SUBSET Present
      /\ Present \in SUBSET Keys /\ Storing \in SUBSET Keys
  BY ToStoreBound, SlotTypes DEF LedgerInv
<1>2. n \in Nat /\ Len(ks) \in Nat /\ e \in Nat
  BY <1>1, KeySubsets, KeyListFacts, VictimCount
<1>a. /\ counters["offered"] \in Int /\ counters["filtered"] \in Int
      /\ counters["rejectedCapacity"] \in Int /\ counters["rejectedRing"] \in Int
      /\ counters["evicted"] \in Int
      /\ Cardinality(Present) \in Nat /\ Cardinality(Storing) \in Nat
  BY <1>1, CountTypes
<1>3. /\ StoreCounts(ks) \in [Counts -> Int]
      /\ StoreCounts(ks)["offered"] = counters["offered"] + Len(ks)
      /\ StoreCounts(ks)["filtered"] = counters["filtered"] + Len(ks) - n
      /\ \A c \in Counts \ {"offered", "filtered"} : StoreCounts(ks)[c] = counters[c]
  BY <1>1, StoreCountsFacts
<1>4. ASSUME Evict(V)
      PROVE  Cardinality(Present) = Cardinality(Present)' + e /\ Cardinality(Present)' \in Nat
  <2>1. Present' = Present \ V
    BY <1>4 DEF Evict, Present
  <2> QED
    BY <1>1, <2>1, PartSizes, KeySubsets
<1>5. CASE StoreNothing(j, ks)
  <2>1. n = 0 /\ counters' = StoreCounts(ks) /\ present' = present /\ storing' = storing
    BY <1>5, FS_EmptySet DEF StoreNothing
  <2>2. Present' = Present /\ Storing' = Storing
    BY <2>1 DEF Present, Storing
  <2> HIDE DEF n, e
  <2>3. Changed({"offered", "filtered", "rejectedCapacity", "rejectedRing", "evicted"})
    BY <1>3, <2>1 DEF Changed
  <2>e. /\ counters'["offered"] = counters["offered"] + Len(ks)
        /\ counters'["filtered"] = counters["filtered"] + Len(ks) - n
        /\ counters'["rejectedCapacity"] = counters["rejectedCapacity"]
        /\ counters'["rejectedRing"] = counters["rejectedRing"]
        /\ counters'["evicted"] = counters["evicted"]
    BY <1>3, <2>1, CounterNames
  <2>4. StoreMoves(Len(ks), 0, 0, 0, 0)
    BY <1>2, <1>a, <2>1, <2>2, <2>3, <2>e DEF StoreMoves
  <2> QED
    BY <1>1, <1>2, <2>4, StoreMovesFunnel DEF SubmitStore, Submitted
<1>6. CASE StoreNoRoom(j, ks)
  <2>1. /\ Evict(V) /\ storing' = storing
        /\ counters' = [StoreCounts(ks) EXCEPT !["rejectedCapacity"] = @ + n, !["evicted"] = @ + e]
    BY <1>6 DEF StoreNoRoom
  <2>a. Storing' = Storing
    BY <2>1 DEF Storing
  <2>2. /\ Cardinality(Storing)' = Cardinality(Storing) + 0
        /\ Cardinality(Present) = Cardinality(Present)' + e /\ Cardinality(Present)' \in Nat
    BY <1>4, <1>a, <2>1, <2>a
  <2> HIDE DEF n, e
  <2>3. Changed({"offered", "filtered", "rejectedCapacity", "rejectedRing", "evicted"})
    BY <1>3, <2>1, CounterNames DEF Changed
  <2>e. /\ counters'["offered"] = counters["offered"] + Len(ks)
        /\ counters'["filtered"] = counters["filtered"] + Len(ks) - n
        /\ counters'["rejectedCapacity"] = counters["rejectedCapacity"] + n
        /\ counters'["rejectedRing"] = counters["rejectedRing"]
        /\ counters'["evicted"] = counters["evicted"] + e
    BY <1>3, <2>1, CounterNames
  <2>f. /\ n = n + 0 + 0
        /\ counters["rejectedCapacity"] + 0 = counters["rejectedCapacity"]
        /\ counters["rejectedRing"] + 0 = counters["rejectedRing"]
    BY <1>2, <1>a
  <2>4. StoreMoves(Len(ks), n, 0, 0, e)
    BY <2>2, <2>3, <2>e, <2>f DEF StoreMoves
  <2> QED
    BY <1>1, <1>2, <2>4, StoreMovesFunnel DEF SubmitStore, Submitted
<1>7. CASE StoreRingFull(j, ks)
  <2>1. /\ Evict(V) /\ storing' = storing
        /\ counters' = [StoreCounts(ks) EXCEPT !["rejectedRing"] = @ + n, !["evicted"] = @ + e]
    BY <1>7 DEF StoreRingFull
  <2>a. Storing' = Storing
    BY <2>1 DEF Storing
  <2>2. /\ Cardinality(Storing)' = Cardinality(Storing) + 0
        /\ Cardinality(Present) = Cardinality(Present)' + e /\ Cardinality(Present)' \in Nat
    BY <1>4, <1>a, <2>1, <2>a
  <2> HIDE DEF n, e
  <2>3. Changed({"offered", "filtered", "rejectedCapacity", "rejectedRing", "evicted"})
    BY <1>3, <2>1, CounterNames DEF Changed
  <2>e. /\ counters'["offered"] = counters["offered"] + Len(ks)
        /\ counters'["filtered"] = counters["filtered"] + Len(ks) - n
        /\ counters'["rejectedCapacity"] = counters["rejectedCapacity"]
        /\ counters'["rejectedRing"] = counters["rejectedRing"] + n
        /\ counters'["evicted"] = counters["evicted"] + e
    BY <1>3, <2>1, CounterNames
  <2>f. /\ n = 0 + n + 0
        /\ counters["rejectedCapacity"] + 0 = counters["rejectedCapacity"]
        /\ counters["rejectedRing"] + 0 = counters["rejectedRing"]
    BY <1>2, <1>a
  <2>4. StoreMoves(Len(ks), 0, n, 0, e)
    BY <2>2, <2>3, <2>e, <2>f DEF StoreMoves
  <2> QED
    BY <1>1, <1>2, <2>4, StoreMovesFunnel DEF SubmitStore, Submitted
<1>8. CASE StoreAccepted(j, ks)
  <2>1. /\ Evict(V)
        /\ counters' = [StoreCounts(ks) EXCEPT !["evicted"] = @ + e]
    BY <1>8 DEF StoreAccepted
  <2>2. PICK T \in TakenSets(n) : \E slot \in Bijection(ToStore(ks), T) :
          storing' = [k \in Keys |-> IF k \in ToStore(ks) THEN slot[k] ELSE storing[k]]
    BY <1>8 DEF StoreAccepted
  <2>3. PICK slot \in Bijection(ToStore(ks), T) :
          storing' = [k \in Keys |-> IF k \in ToStore(ks) THEN slot[k] ELSE storing[k]]
    BY <2>2
  <2>4. T \subseteq Slots
    <3>1. SlotsOf(V) \subseteq Slots
      BY <1>1 DEF SlotsOf, Present, TypeOK
    <3> QED
      BY <1>1, <2>2, <3>1 DEF TakenSets, TypeOK
  <2>5. \A k \in ToStore(ks) : slot[k] # NoSlot
    BY <2>3, <2>4, NoSlotAssumption DEF Bijection, Surjection, Injection
  <2>6. Storing' = Storing \cup ToStore(ks) /\ Storing \cap ToStore(ks) = {}
    BY <1>1, <2>3, <2>5 DEF Storing, ToStore
  <2>7. /\ Cardinality(Storing)' = Cardinality(Storing) + n
        /\ Cardinality(Present) = Cardinality(Present)' + e /\ Cardinality(Present)' \in Nat
    BY <1>1, <1>4, <2>1, <2>6, DisjointSizes
  <2> HIDE DEF n, e
  <2>8. Changed({"offered", "filtered", "rejectedCapacity", "rejectedRing", "evicted"})
    BY <1>3, <2>1, CounterNames DEF Changed
  <2>e. /\ counters'["offered"] = counters["offered"] + Len(ks)
        /\ counters'["filtered"] = counters["filtered"] + Len(ks) - n
        /\ counters'["rejectedCapacity"] = counters["rejectedCapacity"]
        /\ counters'["rejectedRing"] = counters["rejectedRing"]
        /\ counters'["evicted"] = counters["evicted"] + e
    BY <1>3, <2>1, CounterNames
  <2>9. StoreMoves(Len(ks), 0, 0, n, e)
    BY <1>2, <1>a, <2>7, <2>8, <2>e DEF StoreMoves
  <2> QED
    BY <1>1, <1>2, <2>9, StoreMovesFunnel DEF SubmitStore, Submitted
<1> QED
  BY <1>5, <1>6, <1>7, <1>8 DEF SubmitStore

\* Handling one polled job counts each of its blocks once.
LEMMA HarvestOneFunnel ==
  ASSUME LedgerInv, Funnel, NEW j \in JobIds, HarvestOne(j)
  PROVE  Funnel'
<1> DEFINE ks == jobKeys[j].keys
<1>1. TypeOK /\ ks \in SUBSET Keys /\ Present \in SUBSET Keys /\ Storing \in SUBSET Keys
  BY SlotTypes DEF LedgerInv, TypeOK
<1>2. /\ counters["offered"] \in Nat /\ counters["filtered"] \in Nat
      /\ counters["rejectedCapacity"] \in Nat /\ counters["rejectedRing"] \in Nat
      /\ counters["first"] \in Nat /\ counters["rewrite"] \in Nat
      /\ counters["ioFailed"] \in Nat /\ counters["evicted"] \in Nat
      /\ counters["evictedSuspect"] \in Nat
      /\ Cardinality(Present) \in Nat /\ Cardinality(Storing) \in Nat
      /\ Cardinality(everStored) \in Nat
  BY <1>1, CountTypes
<1>a. counters \in [Counts -> Nat]
  BY <1>1 DEF TypeOK
<1>3. \A S \in SUBSET Keys : Cardinality(S) \in Nat
  BY KeySubsets
<1>4. ASSUME NEW verdict \in {"ok", "fail"}, Handled(j, verdict), jobKeys[j].op = "store",
             storing' = [k \in Keys |-> IF k \in ks THEN NoSlot ELSE storing[k]]
      PROVE  /\ ks \subseteq Storing
             /\ Cardinality(Storing) = Cardinality(Storing)' + Cardinality(ks)
             /\ Cardinality(Storing)' \in Nat
  <2>1. ks \subseteq Storing
    BY <1>4, PolledStore
  <2>2. Storing' = Storing \ ks
    BY <1>4 DEF Storing
  <2> QED
    BY <1>1, <1>3, <2>1, <2>2, PartSizes
<1>5. CASE StoreLanded(j)
  <2> DEFINE a == Cardinality(ks \ everStored)
             b == Cardinality(ks \cap everStored)
  <2>1. /\ Handled(j, "ok") /\ jobKeys[j].op = "store"
        /\ storing' = [k \in Keys |-> IF k \in ks THEN NoSlot ELSE storing[k]]
        /\ present' = [k \in Keys |-> IF k \in ks THEN storing[k] ELSE present[k]]
        /\ everStored' = everStored \cup ks
        /\ counters' = [counters EXCEPT !["first"] = @ + a, !["rewrite"] = @ + b]
    BY <1>5 DEF StoreLanded
  <2>c. ks \subseteq Storing
    BY <1>4, <2>1
  <2>2. /\ Cardinality(Storing) = Cardinality(Storing)' + Cardinality(ks)
        /\ Cardinality(Storing)' \in Nat
    BY <1>4, <2>1
  <2>3. Present' = Present \cup ks /\ Present \cap ks = {}
    BY <1>1, <2>1, <2>c DEF Present, Storing, LedgerInv, SlotsPartitioned
  <2>4. Cardinality(Present)' = Cardinality(Present) + Cardinality(ks)
    BY <1>1, <2>3, DisjointSizes
  <2>5. Cardinality(ks) = a + b
    <3>1. ks = (ks \ everStored) \cup (ks \cap everStored)
          /\ (ks \ everStored) \cap (ks \cap everStored) = {}
          /\ ks \ everStored \in SUBSET Keys /\ ks \cap everStored \in SUBSET Keys
      BY <1>1
    <3>2. Cardinality((ks \ everStored) \cup (ks \cap everStored)) = a + b
      BY <3>1, DisjointSizes
    <3> QED
      BY <3>1, <3>2
  <2>6. Cardinality(everStored)' = Cardinality(everStored) + a
    <3>1. everStored' = everStored \cup (ks \ everStored) /\ everStored \cap (ks \ everStored) = {}
          /\ everStored \in SUBSET Keys /\ ks \ everStored \in SUBSET Keys
      BY <1>1, <2>1 DEF TypeOK
    <3> QED
      BY <3>1, DisjointSizes
  <2>7. a \in Nat /\ b \in Nat /\ Cardinality(ks) \in Nat
    <3>1. ks \ everStored \in SUBSET Keys /\ ks \cap everStored \in SUBSET Keys
      BY <1>1
    <3> QED
      BY <1>1, <1>3, <3>1
  <2> HIDE DEF a, b
  <2>8. /\ counters'["first"] = counters["first"] + a /\ counters'["rewrite"] = counters["rewrite"] + b
    BY <1>a, <2>1, CounterNames
  <2>b. Changed({"first", "rewrite"})
    BY <1>a, <2>1, CounterNames DEF Changed
  <2>9. /\ counters'["offered"] = counters["offered"]
        /\ counters'["filtered"] = counters["filtered"]
        /\ counters'["rejectedCapacity"] = counters["rejectedCapacity"]
        /\ counters'["rejectedRing"] = counters["rejectedRing"]
        /\ counters'["ioFailed"] = counters["ioFailed"]
        /\ counters'["evicted"] = counters["evicted"]
        /\ counters'["evictedSuspect"] = counters["evictedSuspect"]
    BY <2>b, CounterNames DEF Changed
  <2> HIDE DEF ks
  <2>10. counters'["first"] = Cardinality(everStored)'
    BY <1>2, <2>6, <2>7, <2>8 DEF Funnel
  <2>11. counters'["first"] + counters'["rewrite"] =
           Cardinality(Present)' + counters'["evicted"] + counters'["evictedSuspect"]
    <3>1. /\ counters["first"] \in Int /\ counters["rewrite"] \in Int /\ a \in Int /\ b \in Int
          /\ counters["evicted"] \in Int /\ counters["evictedSuspect"] \in Int
          /\ Cardinality(Present) \in Int
      BY <1>2, <2>7
    <3>2. counters'["first"] + counters'["rewrite"] =
            (counters["first"] + counters["rewrite"]) + (a + b)
      BY <3>1, <2>8
    <3>3. counters["first"] + counters["rewrite"] =
            Cardinality(Present) + counters["evicted"] + counters["evictedSuspect"]
      BY DEF Funnel
    <3>4. /\ counters'["evicted"] = counters["evicted"]
          /\ counters'["evictedSuspect"] = counters["evictedSuspect"]
      BY <2>9
    <3> QED
      BY <3>1, <3>2, <3>3, <3>4, <2>4, <2>5
  <2>12. counters'["offered"] =
           counters'["filtered"] + counters'["rejectedCapacity"] + counters'["rejectedRing"]
           + counters'["first"] + counters'["rewrite"] + counters'["ioFailed"]
           + Cardinality(Storing)'
    BY <1>2, <2>2, <2>5, <2>7, <2>8, <2>9 DEF Funnel
  <2> QED
    BY <2>10, <2>11, <2>12 DEF Funnel
<1>6. CASE StoreFailed(j)
  <2> DEFINE d == Cardinality(ks)
  <2>1. /\ Handled(j, "fail") /\ jobKeys[j].op = "store"
        /\ storing' = [k \in Keys |-> IF k \in ks THEN NoSlot ELSE storing[k]]
        /\ counters' = [counters EXCEPT !["ioFailed"] = @ + d]
        /\ UNCHANGED <<present, everStored>>
    BY <1>6 DEF StoreFailed
  <2>2. Cardinality(Storing) = Cardinality(Storing)' + d /\ Cardinality(Storing)' \in Nat
    BY <1>4, <2>1
  <2>3. /\ Cardinality(Present)' = Cardinality(Present)
        /\ Cardinality(everStored)' = Cardinality(everStored)
    BY <2>1 DEF Present
  <2>4. d \in Nat
    BY <1>1, <1>3
  <2> HIDE DEF d
  <2>5. /\ counters'["ioFailed"] = counters["ioFailed"] + d
    BY <1>a, <2>1, CounterNames
  <2>b. Changed({"ioFailed"})
    BY <1>a, <2>1, CounterNames DEF Changed
  <2>6. /\ counters'["offered"] = counters["offered"]
        /\ counters'["filtered"] = counters["filtered"]
        /\ counters'["rejectedCapacity"] = counters["rejectedCapacity"]
        /\ counters'["rejectedRing"] = counters["rejectedRing"]
        /\ counters'["first"] = counters["first"]
        /\ counters'["rewrite"] = counters["rewrite"]
        /\ counters'["evicted"] = counters["evicted"]
        /\ counters'["evictedSuspect"] = counters["evictedSuspect"]
    BY <2>b, CounterNames DEF Changed
  <2> QED
    BY <1>2, <2>2, <2>3, <2>4, <2>5, <2>6 DEF Funnel
<1>7. CASE LoadLanded(j)
  BY <1>7, SameFunnel DEF LoadLanded
<1>8. CASE LoadFailed(j)
  <2> DEFINE suspect == {k \in ks \cap Present : Unpinned(ks)[k] = 0}
             d == Cardinality(suspect)
  <2>1. /\ Evict(suspect) /\ UNCHANGED <<storing, everStored>>
        /\ counters' = [counters EXCEPT !["evictedSuspect"] = @ + d]
    BY <1>8 DEF LoadFailed
  <2>2. suspect \in SUBSET Present /\ suspect \in SUBSET Keys
    BY <1>1
  <2> HIDE DEF suspect
  <2>3. Present' = Present \ suspect /\ Storing' = Storing
    BY <2>1 DEF Evict, Present, Storing
  <2>4. Cardinality(Present) = Cardinality(Present)' + d /\ d \in Nat /\ Cardinality(Present)' \in Nat
    BY <1>1, <1>3, <2>2, <2>3, PartSizes
  <2>a. /\ Cardinality(Storing)' = Cardinality(Storing)
        /\ Cardinality(everStored)' = Cardinality(everStored)
    BY <2>1, <2>3
  <2> HIDE DEF d
  <2>5. /\ counters'["evictedSuspect"] = counters["evictedSuspect"] + d
    BY <1>a, <2>1, CounterNames
  <2>b. Changed({"evictedSuspect"})
    BY <1>a, <2>1, CounterNames DEF Changed
  <2>6. /\ counters'["offered"] = counters["offered"]
        /\ counters'["filtered"] = counters["filtered"]
        /\ counters'["rejectedCapacity"] = counters["rejectedCapacity"]
        /\ counters'["rejectedRing"] = counters["rejectedRing"]
        /\ counters'["first"] = counters["first"]
        /\ counters'["rewrite"] = counters["rewrite"]
        /\ counters'["ioFailed"] = counters["ioFailed"]
        /\ counters'["evicted"] = counters["evicted"]
    BY <2>b, CounterNames DEF Changed
  <2> QED
    BY <1>2, <2>a, <2>4, <2>5, <2>6 DEF Funnel
<1> QED
  BY <1>5, <1>6, <1>7, <1>8 DEF HarvestOne

\* No step of the manager or the engine opens the funnel.
LEMMA NextFunnel == LedgerInv /\ Funnel /\ [Next]_vars => Funnel'
<1> SUFFICES ASSUME LedgerInv, Funnel, [Next]_vars PROVE Funnel'
  OBVIOUS
<1>1. ASSUME NEW j \in JobIds, NEW ks \in KeyLists, SubmitStore(j, ks) \/ SubmitLoad(j, ks)
      PROVE  Funnel'
  <2>1. CASE SubmitLoad(j, ks)
    BY <2>1, SameFunnel DEF SubmitLoad, Submitted
  <2> QED
    BY <1>1, <2>1, SubmitStoreFunnel
<1>2. CASE \E j \in JobIds : HarvestOne(j)
  BY <1>2, HarvestOneFunnel
<1>3. CASE \/ DrainCall \/ DrainReturn \/ EndHarvest \/ Down \/ UNCHANGED vars
           \/ \E B \in SUBSET JobIds : BeginHarvest(B)
           \/ \E j \in JobIds : EngineRuns(j)
           \/ \E ks \in KeyLists : Touch(ks)
  <2>1. UNCHANGED <<present, storing, everStored, counters>>
    BY <1>3 DEF DrainCall, DrainReturn, EndHarvest, Down, BeginHarvest, EngineRuns, Touch, ledger, vars
  <2> QED
    BY <2>1, SameFunnel
<1> QED
  BY <1>1, <1>2, <1>3 DEF Next

\* Each block offered is filtered, rejected, landed, failed or in flight, and
\* each landed one is present or counted as evicted, at every moment
\* (the counters of submit_store, get_finished_jobs and _take_slots).
THEOREM FunnelCloses == Spec => []Funnel
<1>1. Init => Funnel
  <2> SUFFICES ASSUME Init PROVE Funnel
    OBVIOUS
  <2>1. Present = {} /\ Storing = {}
    BY DEF Init, Present, Storing
  <2>2. \A c \in Counts : counters[c] = 0
    BY DEF Init
  <2> QED
    BY <2>1, <2>2, FS_EmptySet, CounterNames DEF Funnel, Init
<1> QED
  BY <1>1, NextFunnel, LedgerInvariant, PTL DEF Spec

-----------------------------------------------------------------------------
(* Shutdown *)

\* From shutdown's harvest on the engine is empty.  One poll empties it because
\* the engine holds no more results than a poll takes.
EngineEmptied ==
  /\ Cardinality(Done) <= ResultCap
  /\ closing /\ pc \in {"harvest", "down"} => \A j \in JobIds : job[j].stage = "none"
  /\ pc = "down" => closing /\ \A j \in JobIds : batch[j] = "none"

\* A step of the engine publishes one result at most, and only if there is room.
LEMMA EngineRunsEmptied ==
  ASSUME TypeOK, EngineEmptied, NEW j \in JobIds, EngineRuns(j)
  PROVE  EngineEmptied'
<1>1. EngineStep(j) /\ UNCHANGED <<closing, pc, batch>>
  BY DEF EngineRuns, control
<1>2. /\ job \in [JobIds -> JobState] /\ Done \in SUBSET JobIds
      /\ IsFiniteSet(Done) /\ Cardinality(Done) \in Nat /\ ResultCap \in Nat
  BY JobSubsets, CapAssumption DEF TypeOK, EngineTypeOK, Done
<1>3. job[j].stage # "none" /\ Cardinality(Done') <= ResultCap
  <2>1. CASE \E x \in job[j].left : WriteBlock(j, x) \/ ReadBlock(j, x) \/ FailBlock(j, x)
    <3>1. job[j].stage = "running" /\ \A i \in JobIds : job'[i].stage = job[i].stage
      BY <1>2, <2>1 DEF WriteBlock, ReadBlock, FailBlock, Moved, JobState
    <3>2. Done' = Done
      BY <3>1 DEF Done
    <3> QED
      BY <3>1, <3>2 DEF EngineEmptied
  <2>2. CASE Log(j)
    <3>1. /\ job[j].stage = "running" /\ job'[j].stage = "logged"
          /\ \A i \in JobIds : i # j => job'[i] = job[i]
      BY <1>2, <2>2 DEF Log, JobState
    <3>2. Done' = Done
      BY <3>1 DEF Done
    <3> QED
      BY <3>1, <3>2 DEF EngineEmptied
  <2>3. CASE Publish(j)
    <3>1. /\ job[j].stage = "logged" /\ job'[j].stage = "done"
          /\ \A i \in JobIds : i # j => job'[i] = job[i]
      BY <1>2, <2>3 DEF Publish, JobState
    <3>2. Done' = Done \cup {j} /\ j \notin Done /\ Cardinality(Done) < ResultCap
      BY <2>3, <3>1 DEF Done, Publish
    <3>3. Cardinality(Done') = Cardinality(Done) + 1
      BY <1>2, <3>2, FS_AddElement
    <3> QED
      BY <1>2, <3>1, <3>2, <3>3
  <2> QED
    BY <1>1, <2>1, <2>2, <2>3 DEF EngineStep
<1> QED
  BY <1>1, <1>3 DEF EngineEmptied

\* Polling takes every finished job.
LEMMA BeginHarvestEmptied ==
  ASSUME ResultCap <= PollMax, TypeOK, EngineEmptied, NEW B \in SUBSET JobIds, BeginHarvest(B)
  PROVE  EngineEmptied'
<1>1. /\ pc' = "harvest" /\ closing' = closing
      /\ Pollable(B) /\ job' = [j \in JobIds |-> IF j \in B THEN NoJob ELSE job[j]]
  BY DEF BeginHarvest, Callable, Poll
<1>a. ASSUME closing PROVE Pending = {}
  BY <1>a DEF BeginHarvest, Callable
<1>2. /\ Done \in SUBSET JobIds /\ B \in SUBSET Done
      /\ IsFiniteSet(Done) /\ Cardinality(Done) \in Nat /\ IsFiniteSet(B) /\ Cardinality(B) \in Nat
  BY <1>1, JobSubsets DEF Done, Pollable
<1>3. B = Done
  <2>1. Cardinality(B) <= Cardinality(Done) /\ (Cardinality(B) = Cardinality(Done) => B = Done)
    BY <1>2, FS_Subset
  <2>2. ASSUME Cardinality(B) = PollMax PROVE B = Done
    <3>1. Cardinality(Done) <= Cardinality(B)
      BY <1>2, <2>2, CapAssumption DEF EngineEmptied
    <3> QED
      BY <1>2, <2>1, <3>1
  <2> QED
    BY <1>1, <2>2 DEF Pollable
<1>4. Done' = {}
  BY <1>1, <1>3 DEF Done, NoJob
<1>5. Cardinality(Done') <= ResultCap
  BY <1>4, FS_EmptySet, CapAssumption
<1>6. closing => \A j \in JobIds : job'[j].stage = "none"
  <2> SUFFICES ASSUME closing, NEW j \in JobIds PROVE job'[j].stage = "none"
    OBVIOUS
  <2>1. job \in [JobIds -> JobState]
    BY DEF TypeOK, EngineTypeOK
  <2>2. job[j].stage \in Stages
    BY <2>1 DEF JobState
  <2>a. j \notin Pending
    BY <1>a
  <2>3. job[j].stage \in {"none", "done"}
    BY <2>2, <2>a DEF Pending, Stages
  <2> QED
    BY <1>1, <1>3, <2>3 DEF Done, NoJob
<1> QED
  BY <1>1, <1>5, <1>6 DEF EngineEmptied

\* No step of the manager or the engine leaves EngineEmptied.
LEMMA NextEmptied ==
  ASSUME ResultCap <= PollMax
  PROVE  LedgerInv /\ EngineEmptied /\ [Next]_vars => EngineEmptied'
<1> SUFFICES ASSUME LedgerInv, EngineEmptied, [Next]_vars PROVE EngineEmptied'
  OBVIOUS
<1>1. TypeOK
  BY DEF LedgerInv
<1>2. ASSUME NEW j \in JobIds, NEW ks, SubmitStore(j, ks) \/ SubmitLoad(j, ks)
      PROVE  EngineEmptied'
  <2>1. pc = "ready" /\ UNCHANGED <<pc, closing, batch>>
    BY <1>2 DEF SubmitStore, SubmitLoad, Submitted, Callable, control
  <2>2. \/ \E ok \in BOOLEAN : AnswerLocally(j, ok)
        \/ \E op, xs : HandOver(j, op, ks, xs)
    BY <1>2 DEF SubmitStore, StoreNothing, StoreNoRoom, StoreRingFull, StoreAccepted,
                SubmitLoad, LoadMissing, LoadRingFull, LoadAccepted
  <2>3. Done' = Done
    <3>1. CASE \E ok \in BOOLEAN : AnswerLocally(j, ok)
      BY <3>1 DEF AnswerLocally, engineVars, Done
    <3>2. CASE \E op, xs : HandOver(j, op, ks, xs)
      <4>1. /\ job[j].stage = "none" /\ job'[j].stage = "running"
            /\ \A i \in JobIds : i # j => job'[i] = job[i]
        BY <1>1, <3>2 DEF HandOver, Accept, TypeOK, EngineTypeOK
      <4> QED
        BY <4>1 DEF Done
    <3> QED
      BY <2>2, <3>1, <3>2
  <2> QED
    BY <2>1, <2>3 DEF EngineEmptied
<1>3. CASE \E B \in SUBSET JobIds : BeginHarvest(B)
  BY <1>1, <1>3, BeginHarvestEmptied
<1>4. CASE \E j \in JobIds : EngineRuns(j)
  BY <1>1, <1>4, EngineRunsEmptied
<1>5. CASE \/ DrainCall \/ DrainReturn \/ Down \/ UNCHANGED vars \/ EndHarvest
           \/ \E ks \in KeyLists : Touch(ks)
           \/ \E j \in JobIds : HarvestOne(j)
  <2> DEFINE Kept == /\ job' = job
                     /\ pc' = "harvest" => pc = "harvest" /\ closing' = closing
                     /\ pc' = "down" =>
                          \/ pc = "harvest" /\ closing /\ closing'
                             /\ \A j \in JobIds : batch'[j] = "none"
                          \/ pc = "down" /\ closing' = closing /\ batch' = batch
  <2>1. ASSUME DrainCall \/ DrainReturn PROVE Kept
    BY <2>1 DEF DrainCall, DrainReturn, engineVars
  <2>2. ASSUME Down \/ UNCHANGED vars PROVE Kept
    BY <2>2 DEF Down, vars, engineVars, control
  <2>3. ASSUME NEW ks, Touch(ks) PROVE Kept
    BY <2>3 DEF Touch, engineVars, control
  <2>4. ASSUME NEW j, HarvestOne(j) PROVE Kept
    <3>1. \E verdict : Handled(j, verdict)
      BY <2>4 DEF HarvestOne, StoreLanded, StoreFailed, LoadLanded, LoadFailed
    <3> QED
      BY <3>1 DEF Handled, engineVars
  <2>5. ASSUME EndHarvest PROVE Kept
    BY <2>5 DEF EndHarvest
  <2>6. Kept
    BY <1>5, <2>1, <2>2, <2>3, <2>4, <2>5
  <2>7. Done' = Done
    BY <2>6 DEF Done
  <2> QED
    BY <2>6, <2>7 DEF EngineEmptied
<1> QED
  BY <1>2, <1>3, <1>4, <1>5 DEF Next

\* Shutdown leaves no store, pin, job or transfer behind and the store funnel
\* closes, provided one poll can take every result the engine holds: the ring
\* of the io_uring engine has 1024 places and poll_finished asks for 1024
\* (shutdown, drain, poll_finished).
THEOREM ShutdownClosesBooks ==
  ASSUME ResultCap <= PollMax
  PROVE  Spec => []CountersClose
<1>1. Init => EngineEmptied
  <2> SUFFICES ASSUME Init PROVE EngineEmptied
    OBVIOUS
  <2>1. Done = {}
    BY DEF Init, EngineInit, Done, NoJob
  <2> QED
    BY <2>1, FS_EmptySet, CapAssumption DEF Init, EngineEmptied
<1>2. LedgerInv /\ EngineEmptied => ShutdownHarvestsAll
  <2> SUFFICES ASSUME LedgerInv, EngineEmptied, pc = "down"
               PROVE  /\ Storing = {} /\ Pinned = {} /\ Pending = {}
                      /\ \A j \in JobIds : ~jobKeys[j].live
    BY DEF ShutdownHarvestsAll
  <2>1. \A j \in JobIds : job[j].stage = "none" /\ batch[j] = "none"
    BY DEF EngineEmptied
  <2>2. \A j \in JobIds : ~jobKeys[j].live
    BY <2>1 DEF LedgerInv, LedgerMatchesEngine
  <2>3. Storing = {}
    BY <2>2 DEF LedgerInv, StoringMatchesStores, Live
  <2>4. \A k \in Keys : loadRefs[k] = 0
    <3>1. \A k \in Keys : LoadsOf(k) = {}
      BY <2>2 DEF LoadsOf, Live
    <3> QED
      BY <3>1, PinnedLoads DEF LedgerInv
  <2> QED
    BY <2>1, <2>2, <2>3, <2>4 DEF Pinned, Pending
<1>3. ShutdownHarvestsAll /\ Funnel => CountersClose
  BY DEF Funnel, CountersClose
<1>4. Spec => []EngineEmptied
  BY <1>1, NextEmptied, LedgerInvariant, PTL DEF Spec
<1> QED
  BY <1>2, <1>3, <1>4, LedgerInvariant, FunnelCloses, PTL

=============================================================================
