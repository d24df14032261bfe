--------------------------- MODULE CachedBackend ---------------------------
(***************************************************************************)
(* CachedBackend (cached_backend.cpp): an IoBackend that keeps the blocks  *)
(* it has read in a pool of slots with LRU eviction, answers reads of them *)
(* from memory, and forwards everything else to an inner backend.  Writes  *)
(* go through and drop the block from the cache.                           *)
(*                                                                         *)
(* One thread calls submit and reap; the inner backend moves blocks on its *)
(* own between those calls and completes them in any order.  A batch of    *)
(* submit is a sequence of requests, a reap hands out its completions one  *)
(* by one.  Block contents are <<offset, write>>: the last write of it.    *)
(* The id of a transfer and of a completion is the number of its request,  *)
(* which no step of the program looks at: it tells what is whose.          *)
(***************************************************************************)
EXTENDS Integers, FiniteSets, SequencesExt

CONSTANTS
  Offsets,      \* block offsets of the file
  Slots,        \* slots_
  None,         \* no slot, no request, no write yet
  Junk,         \* what a buffer holds before anything is read into it
  Kinds,        \* requests: [op, whole], whole when of one aligned block
  MaxInFlight,  \* max_in_flight, kept by the caller
  ReapMax,      \* max_n of reap
  TagBase,      \* the caller's user_data are TagBase, TagBase + 1, ...
  MaxRequests   \* bound: requests submitted in all

ASSUME PoolAssumption == IsFiniteSet(Slots) /\ Cardinality(Slots) >= MaxInFlight
ASSUME NumbersAssumption ==
  MaxInFlight \in Nat \ {0} /\ ReapMax \in Nat \ {0} /\ TagBase \in Nat /\ MaxRequests \in Nat
ASSUME KindsAssumption == Kinds \subseteq [op : {"read", "write"}, whole : BOOLEAN]

VARIABLES
  slots,    \* slots_
  lru,      \* the list from lru_head_ to lru_tail_
  index,    \* offset_index_
  free,     \* free_slots_
  misses,   \* misses_
  nextIid,  \* next_internal_id_
  pending,  \* pending_completions_
  inner,    \* requests handed to the inner backend and not reaped from it
  innerPending,  \* inner_pending_
  out,      \* completions the current reap still has to hand out
  disk,     \* content of each offset
  next,     \* number of requests submitted
  req,      \* requests not answered: their buffer, and what a read may see
  overwritten,  \* blocks written while a miss of theirs was in the air (history)
  doubtful, \* blocks whose slot may miss a write: read into it while one was in the
            \* air, or written past the cache since (history)
  clashed,  \* whether a caller's tag has met a miss's id in the inner backend (history)
  strays,   \* tags answered that were not outstanding (history)
  early,    \* requests answered before their transfer was done (history)
  stale     \* reads answered with a content they may not see (history)

pool == <<slots, lru, index, free, misses, nextIid>>
caller == <<next, req, overwritten, doubtful, clashed, strays, early, stale>>
vars == <<pool, pending, inner, innerPending, out, disk, caller>>

Ids == 0..(MaxRequests - 1)
Contents == (Offsets \X (Ids \cup {None})) \cup {Junk}
Slot == [offset : Offsets \cup {None}, valid : BOOLEAN, pinned : BOOLEAN, data : Contents]
Miss == [iid : Nat, slot : Slots, id : Ids]
Completion == [tag : Nat, id : Ids, ok : BOOLEAN, hit : BOOLEAN]
Transfer ==
  [tag : Nat, id : Ids, op : {"read", "write"}, off : Offsets, slot : Slots \cup {None},
   done : BOOLEAN, ok : BOOLEAN]
Request ==
  [op : {"read", "write"}, off : Offsets, buf : Contents, seen : SUBSET Contents]

ASSUME NoneAssumption ==
  /\ None \notin Slots \cup Offsets /\ None \notin Request
  /\ Junk \notin Offsets \X (Ids \cup {None})

TypeOK ==
  /\ slots \in [Slots -> Slot]
  /\ lru \in Seq(Slots)
  /\ index \in [Offsets -> Slots \cup {None}]
  /\ free \subseteq Slots
  /\ misses \subseteq Miss /\ nextIid \in Nat \ {0}
  /\ pending \in Seq(Completion) /\ out \in Seq(Completion)
  /\ inner \subseteq Transfer /\ innerPending \in Nat
  /\ disk \in [Offsets -> Contents \ {Junk}]
  /\ next \in 0..MaxRequests
  /\ req \in [Ids -> Request \cup {None}]
  /\ overwritten \subseteq Offsets /\ doubtful \subseteq Offsets /\ clashed \in BOOLEAN
  /\ strays \subseteq Nat /\ early \subseteq Ids /\ stale \subseteq Ids

Init ==
  /\ slots = [s \in Slots |-> [offset |-> None, valid |-> FALSE, pinned |-> FALSE, data |-> Junk]]
  /\ lru = << >> /\ index = [o \in Offsets |-> None] /\ free = Slots
  /\ misses = {} /\ nextIid = 1
  /\ pending = << >> /\ inner = {} /\ innerPending = 0 /\ out = << >>
  /\ disk = [o \in Offsets |-> <<o, None>>]
  /\ next = 0 /\ req = [i \in Ids |-> None]
  /\ overwritten = {} /\ doubtful = {} /\ clashed = FALSE
  /\ strays = {} /\ early = {} /\ stale = {}

Outstanding == {i \in Ids : req[i] # None}

-----------------------------------------------------------------------------
(* submit *)

\* The caller's side of a request: its buffer, and what a read may be answered
\* with, which every write of the block adds to.
Ask(k, o, buffer, known) ==
  /\ out = << >> /\ next < MaxRequests /\ Cardinality(Outstanding) < MaxInFlight
  /\ next' = next + 1
  /\ req' = [req EXCEPT ![next] = [op |-> k.op, off |-> o, buf |-> buffer, seen |-> known]]
  /\ UNCHANGED <<out, disk, strays, early, stale>>

\* The inner backend takes every request; were it to refuse one, submit throws.
\* Its tag may be the one of a request in the air, if one is a miss and one not.
Forward(tag, k, o, s) ==
  /\ inner' = inner \cup {[tag |-> tag, id |-> next, op |-> k.op, off |-> o, slot |-> s,
                           done |-> FALSE, ok |-> FALSE]}
  /\ innerPending' = innerPending + 1
  /\ clashed' = (clashed \/ \E c \in inner : c.tag = tag /\ (c.slot = None) # (s = None))

Cached(o) == index[o] # None /\ slots[index[o]].valid

\* Not one aligned block: past the cache.
PassThrough(k, o) ==
  /\ ~k.whole
  /\ Ask(k, o, Junk, {disk[o]}) /\ Forward(TagBase + next, k, o, None)
  /\ doubtful' = IF k.op = "write" THEN doubtful \cup {o} ELSE doubtful
  /\ UNCHANGED <<pool, pending, overwritten>>

Hit(k, o) ==
  LET s == index[o] IN
  /\ k.whole /\ k.op = "read" /\ Cached(o)
  /\ Ask(k, o, slots[s].data, {disk[o]} \cup IF o \in doubtful THEN {slots[s].data} ELSE {})
  /\ lru' = <<s>> \o RemoveFirst(lru, s)
  /\ pending' = Append(pending, [tag |-> TagBase + next, id |-> next, ok |-> TRUE, hit |-> TRUE])
  /\ UNCHANGED <<slots, index, free, misses, nextIid, inner, innerPending,
                 overwritten, doubtful, clashed>>

\* A miss of the same block is in the air: read it once more, past the cache.
ReadAgain(k, o) ==
  /\ k.whole /\ k.op = "read" /\ index[o] # None /\ ~Cached(o)
  /\ Ask(k, o, Junk, {disk[o]}) /\ Forward(TagBase + next, k, o, None)
  /\ UNCHANGED <<pool, pending, overwritten, doubtful>>

\* Mutation: the evicted block keeps its entry in the index.
AcquireKeepsEntry(s, o) ==
  /\ \/ /\ s \in free
        /\ free' = free \ {s}
        /\ index' = [index EXCEPT ![o] = s]
        /\ UNCHANGED lru
     \/ /\ free = {} /\ lru # << >> /\ s = Last(lru)
        /\ lru' = Front(lru)
        /\ index' = [index EXCEPT ![o] = s]
        /\ UNCHANGED free
  /\ slots' = [slots EXCEPT ![s].offset = o, ![s].pinned = TRUE, ![s].valid = FALSE]

\* acquire_slot_for: a free slot (any, they do not differ), or the least
\* recently used one, whose block leaves the index.
Acquire(s, o) ==
  /\ \/ /\ s \in free
        /\ free' = free \ {s}
        /\ index' = [index EXCEPT ![o] = s]
        /\ UNCHANGED lru
     \/ /\ free = {} /\ lru # << >> /\ s = Last(lru)
        /\ lru' = Front(lru)
        /\ index' = [p \in Offsets |->
             IF p = o THEN s ELSE IF p = slots[s].offset THEN None ELSE index[p]]
        /\ UNCHANGED free
  /\ slots' = [slots EXCEPT ![s].offset = o, ![s].pinned = TRUE, ![s].valid = FALSE]

\* Mutation: internal ids are used again.
NextIidStuck == nextIid

NextIid == nextIid + 1

WriteInAir(o) == \E c \in inner : c.off = o /\ c.op = "write" /\ ~c.done

ReadMiss(k, o, s) ==
  /\ k.whole /\ k.op = "read" /\ index[o] = None
  /\ Ask(k, o, Junk, {disk[o]}) /\ Forward(nextIid, k, o, s)
  /\ Acquire(s, o)
  /\ doubtful' = IF WriteInAir(o) THEN doubtful \cup {o} ELSE doubtful \ {o}
  /\ misses' = misses \cup {[iid |-> nextIid, slot |-> s, id |-> next]}
  /\ nextIid' = NextIid
  /\ UNCHANGED <<pending, overwritten>>

\* Mutation: the cached block survives the write.
DropNothing(o) == UNCHANGED <<lru, slots, free, index>>

\* The block written leaves the index; its slot becomes free, unless a miss
\* is still reading into it, which will make it valid all the same.
Drop(o) ==
  /\ index' = [index EXCEPT ![o] = None]
  /\ IF index[o] # None /\ ~slots[index[o]].pinned
     THEN /\ lru' = RemoveFirst(lru, index[o])
          /\ slots' = [slots EXCEPT ![index[o]].valid = FALSE]
          /\ free' = free \cup {index[o]}
     ELSE UNCHANGED <<lru, slots, free>>

Write(k, o) ==
  /\ k.whole /\ k.op = "write"
  /\ Ask(k, o, <<o, next>>, {disk[o]}) /\ Forward(TagBase + next, k, o, None)
  /\ Drop(o)
  /\ overwritten' = IF index[o] # None /\ slots[index[o]].pinned
                    THEN overwritten \cup {o} ELSE overwritten
  /\ UNCHANGED <<misses, nextIid, pending, doubtful>>

Submit(k, o) ==
  PassThrough(k, o) \/ Hit(k, o) \/ ReadAgain(k, o) \/ Write(k, o)
  \/ \E s \in Slots : ReadMiss(k, o, s)

-----------------------------------------------------------------------------
(* The inner backend *)

\* A transfer ends, well or with an errno: a read copies the block into the
\* slot or the caller's buffer, a write changes it (a failed one may have).
Complete(c) ==
  LET written == <<c.off, c.id>> IN
  /\ c \in inner /\ ~c.done
  /\ \E ok \in BOOLEAN :
       /\ inner' = (inner \ {c}) \cup {[c EXCEPT !.done = TRUE, !.ok = ok]}
       /\ \/ /\ c.op = "write"
             /\ \E v \in IF ok THEN {written} ELSE {written, disk[c.off]} :
                  /\ disk' = [disk EXCEPT ![c.off] = v]
                  /\ req' = [i \in Ids |->
                       IF req[i] # None /\ req[i].off = c.off
                       THEN [req[i] EXCEPT !.seen = @ \cup {v}] ELSE req[i]]
             /\ UNCHANGED slots
          \/ /\ c.op = "read" /\ ok /\ c.slot # None
             /\ slots' = [slots EXCEPT ![c.slot].data = disk[c.off]]
             /\ UNCHANGED <<disk, req>>
          \/ /\ c.op = "read" /\ ok /\ c.slot = None
             /\ req' = [req EXCEPT ![c.id].buf = disk[c.off]]
             /\ UNCHANGED <<disk, slots>>
          \/ /\ c.op = "read" /\ ~ok
             /\ UNCHANGED <<disk, slots, req>>
  /\ UNCHANGED <<lru, index, free, misses, nextIid, pending, innerPending, out, next,
                 overwritten, doubtful, clashed, strays, early, stale>>

-----------------------------------------------------------------------------
(* reap *)

Orders(S, n) == {q \in [1..n -> S] : IsInjective(q)}

StillInside(hits, n) == innerPending - n

\* Hits first, then what the inner backend has ready, in its order, as far as
\* there is room; reap waits for at least one.
Reap ==
  LET done == {c \in inner : c.done}
      hits == IF Len(pending) < ReapMax THEN Len(pending) ELSE ReapMax
      room == ReapMax - hits
      n == IF Cardinality(done) < room THEN Cardinality(done) ELSE room
  IN
  /\ out = << >> /\ hits + n > 0
  /\ pending' = SubSeq(pending, hits + 1, Len(pending))
  /\ \E q \in Orders(done, n) :
       /\ out' = SubSeq(pending, 1, hits)
                 \o [i \in 1..n |-> [tag |-> q[i].tag, id |-> q[i].id, ok |-> q[i].ok,
                                     hit |-> FALSE]]
       /\ inner' = inner \ {q[i] : i \in 1..n}
  /\ innerPending' = StillInside(hits, n)
  /\ UNCHANGED <<pool, disk, caller>>

\* The completion the caller sees: content is what its buffer then holds.
Answer(tag, ok, content) ==
  LET i == tag - TagBase IN
  IF i \in Outstanding
  THEN /\ early' = IF \E c \in inner : c.id = i THEN early \cup {i} ELSE early
       /\ stale' = IF req[i].op = "read" /\ ok /\ content \notin req[i].seen
                   THEN stale \cup {i} ELSE stale
       /\ req' = [req EXCEPT ![i] = None]
       /\ UNCHANGED strays
  ELSE strays' = strays \cup {tag} /\ UNCHANGED <<early, stale, req>>

MissOf(tag) == {m \in misses : m.iid = tag}

\* Not a miss (or a hit): as the inner backend reported it.
HandOut ==
  LET c == Head(out)
      i == c.tag - TagBase
  IN
  /\ out # << >> /\ (c.hit \/ MissOf(c.tag) = {})
  /\ Answer(c.tag, c.ok, IF i \in Outstanding THEN req[i].buf ELSE Junk)
  /\ out' = Tail(out)
  /\ UNCHANGED <<pool, pending, inner, innerPending, disk, next,
                 overwritten, doubtful, clashed>>

\* Mutation: a failed read leaves its slot where it is.
GiveBackNothing(s) == UNCHANGED <<slots, index, free>>

\* The slot of a failed read returns to the pool, its block leaves the index.
GiveBack(s) ==
  /\ slots' = [slots EXCEPT ![s].valid = FALSE, ![s].pinned = FALSE]
  /\ index' = [index EXCEPT ![slots[s].offset] = None]
  /\ free' = free \cup {s}

\* A miss: copy the slot to the caller, and keep it as the newest one.
HandOutMiss ==
  LET c == Head(out) IN
  /\ out # << >> /\ ~c.hit
  /\ \E m \in MissOf(c.tag) :
       /\ misses' = misses \ {m}
       /\ Answer(TagBase + m.id, c.ok, slots[m.slot].data)
       /\ \/ /\ c.ok
             /\ slots' = [slots EXCEPT ![m.slot].valid = TRUE, ![m.slot].pinned = FALSE]
             /\ lru' = <<m.slot>> \o lru
             /\ UNCHANGED <<index, free>>
          \/ /\ ~c.ok
             /\ GiveBack(m.slot)
             /\ UNCHANGED lru
  /\ out' = Tail(out)
  /\ UNCHANGED <<nextIid, pending, inner, innerPending, disk, next,
                 overwritten, doubtful, clashed>>

-----------------------------------------------------------------------------
Next ==
  \/ \E k \in Kinds, o \in Offsets : Submit(k, o)
  \/ \E c \in inner : Complete(c)
  \/ Reap \/ HandOut \/ HandOutMiss

Spec == Init /\ [][Next]_vars

-----------------------------------------------------------------------------
(* Properties *)

Pinned == {m.slot : m \in misses}

\* Every slot is free, in the LRU list, or lent to one miss, exactly one of
\* them; the list holds the valid ones; an indexed block's slot is not free
\* and is the block's.  A valid slot missing from the index (hpp:99) can only
\* be of a block written while a miss of it was in the air.
PoolConsistent ==
  /\ TypeOK
  /\ IsInjective(lru)
  /\ free \cap ToSet(lru) = {} /\ free \cap Pinned = {} /\ Pinned \cap ToSet(lru) = {}
  /\ free \cup ToSet(lru) \cup Pinned = Slots
  /\ Cardinality(Pinned) = Cardinality(misses)
  /\ \A s \in Slots :
       /\ slots[s].valid = (s \in ToSet(lru))
       /\ slots[s].pinned = (s \in Pinned)
       /\ s \notin free /\ slots[s].offset \notin overwritten => index[slots[s].offset] = s
  /\ \A o \in Offsets : index[o] # None => index[o] \notin free /\ slots[index[o]].offset = o

\* A caller that keeps to max_in_flight never meets an exhausted pool: there
\* is a slot for its miss (cached_backend.cpp:89-97 leaves this open).
NeverExhausted ==
  free = {} /\ lru = << >> => Cardinality(Outstanding) >= MaxInFlight

\* in_flight() is the number of requests not answered, so the caller's closing
\* loop, which reaps while it is positive, leaves no transfer behind and always
\* finds one to wait for.
InFlightIsExact ==
  out = << >> => Len(pending) + innerPending = Cardinality(Outstanding)

\* Each request is answered exactly once, under its own tag, and in_flight()
\* tells how many are still to come; and as long as no caller's tag has met the
\* id of a miss, an answer comes only when its transfer is done and the buffer
\* no longer in use.
AnsweredOnce == strays = {} /\ InFlightIsExact /\ (~clashed => early = {})

\* As long as no caller's tag has met the id of a miss, a read is answered with
\* a content its block had between submission and answer, or, when its block
\* was read into the cache while a write of it was in the air (doubtful; see
\* CacheFollowsDisk), with the one in the slot; and when no transfer is in the
\* air, what is cached of any other block is what is on disk, failed writes
\* and failed reads notwithstanding (cached_backend.hpp:39-40).
ReadsAreFresh ==
  ~clashed =>
    /\ stale = {}
    /\ inner = {} => \A o \in Offsets \ doubtful : Cached(o) => slots[index[o]].data = disk[o]

\* What io_backend.hpp:16 says of tags, and cached_backend.hpp:114 of internal
\* ids: a completion brings back the tag of its own request, so no request is
\* answered while its transfer is under way.
NoEarlyAnswer == early = {}

\* What cached_backend.hpp:39-40 says of writes: they take the block out of the
\* cache, and the next read fetches it anew; so a block that is cached when all
\* transfers have ended is the block on disk.
CacheFollowsDisk ==
  ~clashed /\ inner = {} => \A o \in Offsets : Cached(o) => slots[index[o]].data = disk[o]
=============================================================================
