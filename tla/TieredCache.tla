------------------------------ MODULE TieredCache ------------------------------
(* The caches of projects/project4_two-tier-cache: block stores in memory and  *)
(* on a file whose I/O can fail, the LRU ledger, and the three ways they are   *)
(* put together (cache.cpp, locked_cache.cpp, tiered_cache.cpp).  The asserts  *)
(* are compiled in: a failed one stops the program.                            *)
EXTENDS Integers, Sequences, FiniteSetsExt, SequencesExt, Functions

CONSTANTS
  Ids,        \* block ids
  Values,     \* what a block may hold
  Capacity1,  \* slots of the first store
  Capacity2,  \* slots of the second
  Readers,    \* threads calling LockedCache::get
  NoBlock,    \* not a block
  MaxFaults   \* bound: failed reads and writes of the file

ASSUME CacheAssumption ==
  /\ Capacity1 \in Nat \ {0} /\ Capacity2 \in Nat \ {0} /\ MaxFaults \in Nat
  /\ NoBlock \notin Ids \X Values

VARIABLES
  design,          \* "cache": Cache over the file; "locked": LockedCache over
                   \* memory; "tiered": memory over the file
  store1, lru1,    \* the first store and its ledger
  store2, lru2,    \* the second, of the tiered cache
  reading,         \* reader -> [id, slot] it copies under the shared lock, or NoBlock
  answer,          \* last get: "none", "miss", "hit", "unread"
  latest,          \* id -> the value last put, or NoBlock
  faults

vars == <<design, store1, lru1, store2, lru2, reading, answer, latest, faults>>

--------------------------------------------------------------------------------
(* DramBlockStore and SsdBlockStore: the same index and stack of free slots.   *)

NewStore(capacity) ==
  [index |-> <<>>, free |-> [i \in 1..capacity |-> capacity - i],
   bytes |-> [i \in 0..capacity - 1 |-> NoBlock], ok |-> TRUE]

Holds(s, id) == id \in DOMAIN s.index
Size(s) == Cardinality(DOMAIN s.index)
Full(s) == Size(s) >= Cardinality(DOMAIN s.bytes)
Block(s, id) == s.bytes[s.index[id]]

\* An index with one entry more.
Entered(index, id, slot) ==
  [i \in DOMAIN index \cup {id} |-> IF i = id THEN slot ELSE index[i]]

\* Mutation: index and free list change before the bytes are written.
SlotBeforeBytes(s, id, block, done) ==
  IF ~s.ok \/ Full(s) \/ Holds(s, id) THEN [s EXCEPT !.ok = FALSE]
  ELSE LET slot == Last(s.free)
       IN [s EXCEPT !.free = Front(@), !.index = Entered(@, id, slot),
                    !.bytes[slot] = IF done THEN block ELSE NoBlock]

\* A write takes a slot only if the bytes got there; else they may be torn.
Write(s, id, block, done) ==
  IF ~s.ok \/ Full(s) \/ Holds(s, id) THEN [s EXCEPT !.ok = FALSE]
  ELSE LET slot == Last(s.free)
       IN IF ~done THEN [s EXCEPT !.bytes[slot] = NoBlock]
          ELSE [s EXCEPT !.free = Front(@), !.index = Entered(@, id, slot), !.bytes[slot] = block]

EvictBlock(s, id) ==
  IF ~s.ok \/ ~Holds(s, id) THEN [s EXCEPT !.ok = FALSE]
  ELSE [s EXCEPT !.free = Append(@, s.index[id]),
                 !.index = Restrict(@, DOMAIN @ \ {id})]

--------------------------------------------------------------------------------
(* LruPolicy: hottest first.                                                   *)

NewLru == [list |-> <<>>, ok |-> TRUE]
InLru(p, id) == id \in Range(p.list)
Without(p, id) == [p EXCEPT !.list = RemoveFirst(@, id)]
Expect(p, holds, then) == IF p.ok /\ holds THEN then ELSE [p EXCEPT !.ok = FALSE]

OnInsert(p, id) == Expect(p, ~InLru(p, id), [p EXCEPT !.list = <<id>> \o @])
OnAccess(p, id) == Expect(p, InLru(p, id), [p EXCEPT !.list = <<id>> \o Without(p, id).list])
OnErase(p, id)  == Expect(p, InLru(p, id), Without(p, id))
Coldest(p) == Last(p.list)
DropColdest(p) == [p EXCEPT !.list = Front(@)]

--------------------------------------------------------------------------------
Init ==
  /\ design \in {"cache", "locked", "tiered"}
  /\ store1 = NewStore(Capacity1) /\ lru1 = NewLru
  /\ store2 = NewStore(Capacity2) /\ lru2 = NewLru
  /\ reading = [t \in Readers |-> NoBlock]
  /\ answer = "none"
  /\ latest = [id \in Ids |-> NoBlock]
  /\ faults = 0

Running == store1.ok /\ lru1.ok /\ store2.ok /\ lru2.ok

\* How one transfer ends; those to and from memory always succeed.
Transfer(done, onFile) ==
  IF done THEN faults' = faults
  ELSE onFile /\ faults < MaxFaults /\ faults' = faults + 1

\* What a get that reports a hit has handed over.
Handed(block, id) == IF block = <<id, latest[id]>> THEN "hit" ELSE "unread"

--------------------------------------------------------------------------------
(* Cache: one store, one ledger.                                               *)

CacheGet(id) ==
  /\ design = "cache"
  /\ \E done \in BOOLEAN :
       /\ Transfer(done, Holds(store1, id))
       /\ LET hit == Holds(store1, id) /\ done
          IN /\ answer' = IF hit THEN Handed(Block(store1, id), id) ELSE "miss"
             /\ lru1' = IF hit THEN OnAccess(lru1, id) ELSE lru1
  /\ UNCHANGED <<store1, store2, lru2, reading, latest>>

\* Cache::put and, under the exclusive lock, LockedCache::put; what a failed
\* write leaves behind is not looked at.
CachePut(id, v, done) ==
  LET room == Full(store1) /\ ~Holds(store1, id)
      s == IF Holds(store1, id) THEN EvictBlock(store1, id)
           ELSE IF room THEN EvictBlock(store1, Coldest(lru1)) ELSE store1
  IN /\ store1' = Write(s, id, <<id, v>>, done)
     /\ lru1' = IF Holds(store1, id) THEN OnAccess(lru1, id)
                ELSE OnInsert(IF room THEN DropColdest(lru1) ELSE lru1, id)

SinglePut(id, v) ==
  /\ design \in {"cache", "locked"}
  /\ \A t \in Readers : reading[t] = NoBlock
  /\ \E done \in BOOLEAN : Transfer(done, design = "cache") /\ CachePut(id, v, done)
  /\ latest' = [latest EXCEPT ![id] = v]
  /\ UNCHANGED <<store2, lru2, reading, answer>>

(* LockedCache::get: readers share the lock, look the slot up, copy, let go;   *)
(* they leave the ledger alone.                                                *)
LockedGet(t, id) ==
  /\ design = "locked" /\ reading[t] = NoBlock
  /\ Holds(store1, id)
  /\ reading' = [reading EXCEPT ![t] = [id |-> id, slot |-> store1.index[id]]]
  /\ UNCHANGED <<store1, lru1, store2, lru2, answer, latest, faults>>

LockedGot(t) ==
  /\ reading[t] # NoBlock
  /\ answer' = Handed(store1.bytes[reading[t].slot], reading[t].id)
  /\ reading' = [reading EXCEPT ![t] = NoBlock]
  /\ UNCHANGED <<store1, lru1, store2, lru2, latest, faults>>

--------------------------------------------------------------------------------
(* TieredCache: put fills the first tier, whose coldest block spills to the    *)
(* second; a hit in the second stays there.                                    *)

TieredGet(id) ==
  /\ design = "tiered"
  /\ \/ /\ Holds(store1, id)
        /\ lru1' = OnAccess(lru1, id) /\ answer' = Handed(Block(store1, id), id)
        /\ UNCHANGED <<lru2, faults>>
     \/ /\ ~Holds(store1, id) /\ Holds(store2, id)
        /\ lru2' = OnAccess(lru2, id) /\ lru1' = lru1
        /\ \E done \in BOOLEAN :  \* what the read returned is not looked at
             /\ Transfer(done, TRUE)
             /\ answer' = IF done THEN Handed(Block(store2, id), id) ELSE "unread"
     \/ /\ ~Holds(store1, id) /\ ~Holds(store2, id)
        /\ answer' = "miss" /\ UNCHANGED <<lru1, lru2, faults>>
  /\ UNCHANGED <<store1, store2, reading, latest>>

Overwrite(id, v) ==
  /\ design = "tiered" /\ Holds(store1, id)
  /\ store1' = Write(EvictBlock(store1, id), id, <<id, v>>, TRUE)
  /\ lru1' = OnAccess(lru1, id)
  /\ latest' = [latest EXCEPT ![id] = v]
  /\ UNCHANGED <<store2, lru2, reading, answer, faults>>

\* Mutation: the id stays in the second ledger.
WithdrawnFromStore(id) ==
  [s |-> IF Holds(store2, id) THEN EvictBlock(store2, id) ELSE store2, p |-> lru2]

\* The second tier after the id that is put was withdrawn from it.
Withdrawn(id) ==
  IF Holds(store2, id) THEN [s |-> EvictBlock(store2, id), p |-> OnErase(lru2, id)]
  ELSE [s |-> store2, p |-> lru2]

\* The second tier after it took a victim, its own coldest block gone if full.
Spilled(t, victim, block, done) ==
  LET s == IF Full(t.s) THEN EvictBlock(t.s, Coldest(t.p)) ELSE t.s
      p == IF Full(t.s) THEN DropColdest(t.p) ELSE t.p
  IN [s |-> Write(s, victim, block, done), p |-> OnInsert(p, victim)]

Insert(id, v) ==
  /\ design = "tiered" /\ ~Holds(store1, id)
  /\ latest' = [latest EXCEPT ![id] = v]
  /\ LET victim == Coldest(lru1)
         room(s) == IF Full(store1) THEN EvictBlock(s, victim) ELSE s
     IN /\ \E done \in BOOLEAN :
             /\ Transfer(done, Full(store1))
             /\ LET t == IF Full(store1)
                         THEN Spilled(Withdrawn(id), victim, Block(store1, victim), done)
                         ELSE Withdrawn(id)
                IN store2' = t.s /\ lru2' = t.p
        /\ store1' = Write(room(store1), id, <<id, v>>, TRUE)
        /\ lru1' = OnInsert(IF Full(store1) THEN DropColdest(lru1) ELSE lru1, id)
  /\ UNCHANGED <<reading, answer>>

Next ==
  /\ Running /\ UNCHANGED design
  /\ \/ \E id \in Ids :
          \/ CacheGet(id) \/ TieredGet(id)
          \/ \E v \in Values : SinglePut(id, v) \/ Overwrite(id, v) \/ Insert(id, v)
          \/ \E t \in Readers : LockedGet(t, id)
     \/ \E t \in Readers : LockedGot(t)

Spec == Init /\ [][Next]_vars

--------------------------------------------------------------------------------
(* Properties.                                                                 *)

StoreOK(s, capacity) ==
  /\ IsInjective(s.index) /\ IsInjective(s.free)
  /\ Range(s.index) \cap Range(s.free) = {}
  /\ Range(s.index) \cup Range(s.free) = 0..capacity - 1

TypeOK ==
  /\ DOMAIN store1.index \cup DOMAIN store2.index \subseteq Ids
  /\ Range(lru1.list) \cup Range(lru2.list) \subseteq Ids
  /\ StoreOK(store1, Capacity1) /\ StoreOK(store2, Capacity2)
  /\ latest \in [Ids -> Values \cup {NoBlock}] /\ faults \in 0..MaxFaults

\* Whatever transfers failed: no slot is lost or used twice, no block is in two
\* tiers, a block in a tier holds what was last put under its id, a spill and
\* its journey through the buffer included, and that is what a hit hands over,
\* to readers that share the lock too; only a failed read of the second tier is
\* taken for a hit.
BlocksAreFresh ==
  /\ TypeOK
  /\ DOMAIN store1.index \cap DOMAIN store2.index = {}
  /\ \A s \in {store1, store2} : \A id \in DOMAIN s.index : Block(s, id) = <<id, latest[id]>>
  /\ answer = "unread" => design = "tiered" /\ faults > 0

\* A ledger knows every block of its store and, for each transfer that failed,
\* at most one block that is not there; only such a block makes the program
\* fail an assert.
PhantomsAreFailures ==
  /\ \A pair \in {<<store1, lru1>>, <<store2, lru2>>} :
       LET held == DOMAIN pair[1].index  known == Range(pair[2].list)
       IN Running => /\ held \subseteq known /\ IsInjective(pair[2].list)
                     /\ Cardinality(known \ held) <= faults
  /\ ~Running => faults > 0

================================================================================
