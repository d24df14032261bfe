------------------------- MODULE TieredCache_proofs -------------------------
(***************************************************************************)
(* Proofs about TieredCache for any number of blocks, slots, readers and   *)
(* failed transfers: no slot is lost, no block is in two tiers or stale,   *)
(* and a ledger is ahead of its store by failed writes only.               *)
(***************************************************************************)
EXTENDS TieredCache, ListLemmas, FiniteSetTheorems, FunctionTheorems

-----------------------------------------------------------------------------
(* A store *)

Held(s) == DOMAIN s.index

\* The parts of a store fit together.
IsStore(s, cap) ==
  /\ s = [index |-> s.index, free |-> s.free, bytes |-> s.bytes, ok |-> s.ok]
  /\ s.index = [id \in Held(s) |-> s.index[id]] /\ Held(s) \subseteq Ids
  /\ s.free \in Seq(0..cap - 1)
  /\ s.bytes = [i \in 0..cap - 1 |-> s.bytes[i]]
  /\ s.ok \in BOOLEAN
  /\ StoreOK(s, cap)

\* A store holds at most as many blocks as it has slots, and has a free slot
\* unless it is full.
LEMMA StoreSizes ==
  ASSUME NEW cap \in Nat \ {0}, NEW s, IsStore(s, cap)
  PROVE  /\ IsFiniteSet(Held(s)) /\ Size(s) \in Nat /\ Size(s) <= cap
         /\ Full(s) <=> Size(s) = cap
         /\ Size(s) < cap => s.free # << >>
<1> DEFINE U == Range(s.index)
           V == 0..cap - 1
<1>1. IsFiniteSet(V) /\ Cardinality(V) = cap
  <2>1. 0 \in Int /\ cap - 1 \in Int
    OBVIOUS
  <2>2. IsFiniteSet(V) /\ Cardinality(V) = IF 0 > cap - 1 THEN 0 ELSE cap - 1 - 0 + 1
    BY <2>1, FS_Interval
  <2> QED
    BY <2>2
<1>2. U \in SUBSET V
  BY DEF IsStore, StoreOK
<1>3. IsFiniteSet(U) /\ Cardinality(U) \in Nat /\ Cardinality(U) <= cap
      /\ (Cardinality(U) = cap => U = V)
  BY <1>1, <1>2, FS_Subset, FS_CardinalityType
<1>4. s.index \in Bijection(Held(s), U)
  <2>1. s.index \in [Held(s) -> U] /\ IsInjective(s.index)
    BY DEF IsStore, StoreOK, Held, Range
  <2>2. \A u \in U : \E id \in Held(s) : s.index[id] = u
    BY DEF Held, Range
  <2> QED
    BY <2>1, <2>2 DEF Bijection, Injection, Surjection
<1>5. IsFiniteSet(Held(s)) /\ Cardinality(Held(s)) = Cardinality(U)
  <2>1. ExistsBijection(U, Held(s))
    BY <1>4, Fun_ExistsBijSymmetric DEF ExistsBijection
  <2> QED
    BY <1>3, <2>1, FS_Bijection
<1>6. Cardinality(DOMAIN s.bytes) = cap
  BY <1>1 DEF IsStore
<1>7. Cardinality(U) < cap => s.free # << >>
  <2> SUFFICES ASSUME s.free = << >> PROVE U = V
    BY <1>1, <1>3
  <2>1. DOMAIN s.free = {}
    BY EmptySeq, LenProperties
  <2>2. Range(s.free) = {}
    BY <2>1 DEF Range
  <2> QED
    BY <2>2 DEF IsStore, StoreOK
<1> QED
  BY <1>3, <1>5, <1>6, <1>7 DEF Size, Held, Full

\* Blocks of both stores, the same in r as in s.
SameBlocks(r, s, D) == \A x \in D : Block(r, x) = Block(s, x)

\* What a write asserts.
Takes(s, id) == s.ok /\ ~Full(s) /\ ~Holds(s, id)

\* What a write makes of a store: it adds its block; one that fails adds none,
\* one whose precondition does not hold stops the program; no other block is
\* harmed.
WriteMakes(r, cap, s, id, b, done) ==
  /\ IsStore(r, cap) /\ SameBlocks(r, s, Held(s))
  /\ r.ok = Takes(s, id)
  /\ Held(r) = IF Takes(s, id) /\ done THEN Held(s) \cup {id} ELSE Held(s)
  /\ Takes(s, id) /\ done => Block(r, id) = b

LEMMA Written ==
  ASSUME NEW cap \in Nat \ {0}, NEW s, IsStore(s, cap), NEW id \in Ids, NEW b,
         NEW done \in BOOLEAN, NEW r, r = Write(s, id, b, done)
  PROVE  WriteMakes(r, cap, s, id, b, done)
<1> DEFINE slot == Last(s.free)
           V == 0..cap - 1
<1>1. CASE ~Takes(s, id)
  <2>1. r = [s EXCEPT !.ok = FALSE]
    BY <1>1 DEF Takes, Write
  <2>2. /\ r.index = s.index /\ r.free = s.free /\ r.bytes = s.bytes /\ r.ok = FALSE
        /\ r = [index |-> s.index, free |-> s.free, bytes |-> s.bytes, ok |-> FALSE]
    BY <2>1 DEF IsStore
  <2>3. Held(r) = Held(s) /\ r.ok = Takes(s, id)
    BY <1>1, <2>2 DEF Held, Takes
  <2>4. IsStore(r, cap)
    BY <2>2, <2>3 DEF IsStore, StoreOK
  <2>5. SameBlocks(r, s, Held(s))
    BY <2>2 DEF SameBlocks, Block
  <2> QED
    BY <1>1, <2>3, <2>4, <2>5 DEF WriteMakes
<1>2. CASE Takes(s, id)
  <2>0. Size(s) < cap
    BY <1>2, StoreSizes DEF Takes
  <2>1. /\ s.free \in Seq(V) /\ s.free # << >> /\ IsInjective(s.free)
        /\ id \notin Held(s) /\ s.ok = TRUE
    BY <1>2, <2>0, StoreSizes DEF Takes, IsStore, StoreOK, Holds, Held
  <2>2. /\ Front(s.free) \in Seq(V) /\ IsInjective(Front(s.free))
        /\ slot \in Range(s.free) /\ slot \in V
        /\ Range(Front(s.free)) = Range(s.free) \ {slot}
    BY <2>1, LastRemoved DEF ToSet, Range
  <2>3. \A x \in Held(s) : s.index[x] # slot
    BY <2>2 DEF IsStore, StoreOK, Range, Held
  <2>4. ASSUME ~done PROVE /\ r = [s EXCEPT !.bytes[slot] = NoBlock]
    BY <1>2, <2>4 DEF Takes, Write
  <2>5. ASSUME done
        PROVE  r = [s EXCEPT !.free = Front(@), !.index = Entered(@, id, slot), !.bytes[slot] = b]
    BY <1>2, <2>5 DEF Takes, Write
  <2>6. CASE ~done
    <3>1. /\ r = [index |-> s.index, free |-> s.free, bytes |-> [s.bytes EXCEPT ![slot] = NoBlock],
                  ok |-> s.ok]
          /\ r.index = s.index /\ r.free = s.free /\ r.ok = s.ok
          /\ r.bytes = [s.bytes EXCEPT ![slot] = NoBlock]
      BY <2>4, <2>6 DEF IsStore
    <3>2. r.bytes = [i \in V |-> r.bytes[i]] /\ \A i \in V \ {slot} : r.bytes[i] = s.bytes[i]
      BY <3>1 DEF IsStore
    <3>3. IsStore(r, cap)
      BY <3>1, <3>2 DEF IsStore, StoreOK, Held
    <3>4. SameBlocks(r, s, Held(s))
      BY <2>3, <3>1, <3>2 DEF SameBlocks, Block, Held, IsStore, StoreOK, Range
    <3> QED
      BY <1>2, <2>1, <2>6, <3>1, <3>3, <3>4 DEF Held, WriteMakes
  <2>7. CASE done
    <3> DEFINE ix == Entered(s.index, id, slot)
    <3>1. /\ r = [index |-> ix, free |-> Front(s.free), bytes |-> [s.bytes EXCEPT ![slot] = b],
                  ok |-> s.ok]
          /\ r.index = ix /\ r.free = Front(s.free) /\ r.ok = s.ok
          /\ r.bytes = [s.bytes EXCEPT ![slot] = b]
      BY <2>5, <2>7 DEF IsStore
    <3>2. r.bytes = [i \in V |-> r.bytes[i]] /\ r.bytes[slot] = b
          /\ \A i \in V \ {slot} : r.bytes[i] = s.bytes[i]
      BY <2>2, <3>1 DEF IsStore
    <3>3. /\ Held(r) = Held(s) \cup {id} /\ r.index[id] = slot
          /\ \A x \in Held(s) : r.index[x] = s.index[x]
          /\ r.index = [x \in Held(r) |-> r.index[x]]
      BY <2>1, <3>1 DEF Entered, Held
    <3>4. Range(r.index) = Range(s.index) \cup {slot} /\ IsInjective(r.index)
      BY <2>3, <3>3 DEF Range, IsInjective, IsStore, StoreOK, Held
    <3>5. StoreOK(r, cap)
      <4>1. IsInjective(r.free) /\ Range(r.free) = Range(s.free) \ {slot} /\ slot \in Range(s.free)
        BY <2>2, <3>1
      <4>2. Range(s.index) \cap Range(s.free) = {} /\ Range(s.index) \cup Range(s.free) = V
        BY DEF IsStore, StoreOK
      <4> HIDE DEF slot, V
      <4>3. Range(r.index) \cap Range(r.free) = {} /\ Range(r.index) \cup Range(r.free) = V
        BY <3>4, <4>1, <4>2
      <4> QED
        BY <3>4, <4>1, <4>3 DEF StoreOK, V
    <3>6. IsStore(r, cap)
      BY <2>2, <3>1, <3>2, <3>3, <3>5 DEF IsStore
    <3>7. SameBlocks(r, s, Held(s)) /\ Block(r, id) = b
      BY <2>3, <3>2, <3>3 DEF SameBlocks, Block, Held, IsStore, StoreOK, Range
    <3> QED
      BY <1>2, <2>1, <2>7, <3>1, <3>3, <3>6, <3>7 DEF WriteMakes
  <2> QED
    BY <2>6, <2>7
<1> QED
  BY <1>1, <1>2

\* An eviction takes one block, or stops the program if the block is not there.
LEMMA Evicted ==
  ASSUME NEW cap \in Nat \ {0}, NEW s, IsStore(s, cap), NEW id, NEW r, r = EvictBlock(s, id)
  PROVE  /\ IsStore(r, cap)
         /\ r.ok = (s.ok /\ id \in Held(s))
         /\ Held(r) = IF s.ok THEN Held(s) \ {id} ELSE Held(s)
         /\ SameBlocks(r, s, Held(r))
         /\ r.ok => Size(r) < cap
<1> DEFINE V == 0..cap - 1
<1>1. CASE ~s.ok \/ id \notin Held(s)
  <2>1. r = [s EXCEPT !.ok = FALSE]
    BY <1>1 DEF EvictBlock, Holds, Held
  <2>2. /\ r.index = s.index /\ r.free = s.free /\ r.bytes = s.bytes /\ r.ok = FALSE
        /\ r = [index |-> s.index, free |-> s.free, bytes |-> s.bytes, ok |-> FALSE]
    BY <2>1 DEF IsStore
  <2>3. Held(r) = Held(s)
    BY <2>2 DEF Held
  <2> QED
    BY <1>1, <2>2, <2>3 DEF IsStore, StoreOK, SameBlocks, Block
<1>2. CASE s.ok /\ id \in Held(s)
  <2> DEFINE slot == s.index[id]
             ix == Restrict(s.index, DOMAIN s.index \ {id})
  <2>1. r = [s EXCEPT !.free = Append(@, s.index[id]), !.index = Restrict(@, DOMAIN @ \ {id})]
    BY <1>2 DEF EvictBlock, Holds, Held
  <2>2. /\ r = [index |-> ix, free |-> Append(s.free, slot), bytes |-> s.bytes, ok |-> s.ok]
        /\ r.index = ix /\ r.free = Append(s.free, slot) /\ r.bytes = s.bytes /\ r.ok = s.ok
    BY <2>1 DEF IsStore
  <2>3. slot \in V /\ slot \notin Range(s.free) /\ s.free \in Seq(V) /\ IsInjective(s.free)
    BY <1>2 DEF IsStore, StoreOK, Range, Held
  <2>4. /\ r.free \in Seq(V) /\ IsInjective(r.free) /\ r.free # << >>
        /\ Range(r.free) = Range(s.free) \cup {slot}
    <3>1. ToSet(s.free) = Range(s.free) /\ ToSet(r.free) = Range(r.free)
      BY DEF ToSet, Range
    <3> HIDE DEF slot, V
    <3> QED
      BY <2>2, <2>3, <3>1, BackPushed
  <2>5. /\ Held(r) = Held(s) \ {id}
        /\ \A x \in Held(r) : r.index[x] = s.index[x]
        /\ r.index = [x \in Held(r) |-> r.index[x]]
    BY <2>2 DEF Restrict, Held
  <2>6. Range(r.index) = Range(s.index) \ {slot} /\ IsInjective(r.index)
    BY <1>2, <2>5 DEF Range, IsInjective, IsStore, StoreOK, Held
  <2>7. StoreOK(r, cap)
    BY <2>3, <2>4, <2>6 DEF StoreOK, IsStore
  <2>8. IsStore(r, cap)
    BY <2>2, <2>4, <2>5, <2>7 DEF IsStore
  <2>9. SameBlocks(r, s, Held(r))
    BY <2>2, <2>5 DEF SameBlocks, Block
  <2>10. Size(r) < cap
    <3>1. IsFiniteSet(Held(s)) /\ Cardinality(Held(s)) \in Nat /\ Cardinality(Held(s)) <= cap
      BY StoreSizes DEF Size, Held
    <3>2. Cardinality(Held(s) \ {id}) = Cardinality(Held(s)) - 1
      BY <1>2, <3>1, FS_RemoveElement
    <3> QED
      BY <2>5, <3>1, <3>2 DEF Size, Held
  <2> QED
    BY <1>2, <2>2, <2>5, <2>8, <2>9, <2>10 DEF IsStore
<1> QED
  BY <1>1, <1>2

-----------------------------------------------------------------------------
(* A ledger *)

Known(p) == Range(p.list)

LEMMA RangeIsToSet == ASSUME NEW f PROVE Range(f) = ToSet(f)
BY DEF Range, ToSet

\* The parts of a ledger fit together.
IsLru(p) ==
  /\ p = [list |-> p.list, ok |-> p.ok]
  /\ p.list \in Seq(Ids) /\ IsInjective(p.list)
  /\ p.ok \in BOOLEAN

\* A ledger with another list.
LEMMA LruListed ==
  ASSUME NEW p, IsLru(p), NEW l \in Seq(Ids), IsInjective(l), NEW q, q = [p EXCEPT !.list = l]
  PROVE  IsLru(q) /\ Known(q) = Range(l) /\ q.ok = p.ok
<1>1. q.list = l /\ q.ok = p.ok /\ q = [list |-> l, ok |-> p.ok]
  BY DEF IsLru
<1> QED
  BY <1>1 DEF IsLru, Known

\* A ledger that an assert stopped.
LEMMA LruStopped ==
  ASSUME NEW p, IsLru(p), NEW q, q = [p EXCEPT !.ok = FALSE]
  PROVE  IsLru(q) /\ Known(q) = Known(p) /\ q.ok = FALSE
<1>1. q.list = p.list /\ q.ok = FALSE /\ q = [list |-> p.list, ok |-> FALSE]
  BY DEF IsLru
<1> QED
  BY <1>1 DEF IsLru, Known

\* on_insert adds an id that is not there.
LEMMA Inserted ==
  ASSUME NEW p, IsLru(p), NEW id \in Ids, NEW q, q = OnInsert(p, id)
  PROVE  /\ IsLru(q) /\ q.ok = (p.ok /\ id \notin Known(p))
         /\ Known(q) = IF q.ok THEN Known(p) \cup {id} ELSE Known(p)
<1>1. CASE p.ok /\ id \notin Known(p)
  <2> DEFINE l == <<id>> \o p.list
  <2>1. q = [p EXCEPT !.list = l]
    BY <1>1 DEF OnInsert, Expect, InLru, Known, IsLru
  <2>2. l \in Seq(Ids) /\ IsInjective(l) /\ Range(l) = Known(p) \cup {id}
    BY <1>1, FrontPushed, RangeIsToSet DEF IsLru, Known
  <2> HIDE DEF l
  <2>3. IsLru(q) /\ Known(q) = Range(l) /\ q.ok = p.ok
    BY <2>1, <2>2, LruListed
  <2> QED
    BY <1>1, <2>2, <2>3
<1>2. CASE ~(p.ok /\ id \notin Known(p))
  <2>1. q = [p EXCEPT !.ok = FALSE]
    BY <1>2 DEF OnInsert, Expect, InLru, Known
  <2> QED
    BY <1>2, <2>1, LruStopped DEF IsLru
<1> QED
  BY <1>1, <1>2

\* on_erase takes an id that is there.
LEMMA Erased ==
  ASSUME NEW p, IsLru(p), NEW id, NEW q, q = OnErase(p, id)
  PROVE  /\ IsLru(q) /\ q.ok = (p.ok /\ id \in Known(p))
         /\ Known(q) = IF q.ok THEN Known(p) \ {id} ELSE Known(p)
<1>1. CASE p.ok /\ id \in Known(p)
  <2> DEFINE l == RemoveFirst(p.list, id)
  <2>1. q = [p EXCEPT !.list = l]
    BY <1>1 DEF OnErase, Expect, InLru, Known, Without
  <2>2. l \in Seq(Ids) /\ IsInjective(l) /\ Range(l) = Known(p) \ {id}
    BY FirstRemoved, RangeIsToSet DEF IsLru, Known
  <2> HIDE DEF l
  <2>3. IsLru(q) /\ Known(q) = Range(l) /\ q.ok = p.ok
    BY <2>1, <2>2, LruListed
  <2> QED
    BY <1>1, <2>2, <2>3
<1>2. CASE ~(p.ok /\ id \in Known(p))
  <2>1. q = [p EXCEPT !.ok = FALSE]
    BY <1>2 DEF OnErase, Expect, InLru, Known
  <2> QED
    BY <1>2, <2>1, LruStopped DEF IsLru
<1> QED
  BY <1>1, <1>2

\* on_access moves an id that is there.
LEMMA Accessed ==
  ASSUME NEW p, IsLru(p), NEW id \in Ids, NEW q, q = OnAccess(p, id)
  PROVE  IsLru(q) /\ q.ok = (p.ok /\ id \in Known(p)) /\ Known(q) = Known(p)
<1>1. CASE p.ok /\ id \in Known(p)
  <2> DEFINE w == RemoveFirst(p.list, id)
             l == <<id>> \o w
  <2>1. Without(p, id).list = w
    BY DEF Without, IsLru
  <2>2. q = [p EXCEPT !.list = l]
    BY <1>1, <2>1 DEF OnAccess, Expect, InLru, Known
  <2>3. w \in Seq(Ids) /\ IsInjective(w) /\ ToSet(w) = Known(p) \ {id}
    BY FirstRemoved, RangeIsToSet DEF IsLru, Known
  <2> HIDE DEF w
  <2>4. l \in Seq(Ids) /\ IsInjective(l) /\ ToSet(l) = ToSet(w) \cup {id}
    BY <1>1, <2>3, FrontPushed
  <2>5. Range(l) = Known(p)
    BY <1>1, <2>3, <2>4, RangeIsToSet
  <2> HIDE DEF l
  <2>6. IsLru(q) /\ Known(q) = Range(l) /\ q.ok = p.ok
    BY <2>2, <2>4, LruListed
  <2> QED
    BY <1>1, <2>5, <2>6
<1>2. CASE ~(p.ok /\ id \in Known(p))
  <2>1. q = [p EXCEPT !.ok = FALSE]
    BY <1>2 DEF OnAccess, Expect, InLru, Known
  <2> QED
    BY <1>2, <2>1, LruStopped DEF IsLru
<1> QED
  BY <1>1, <1>2

\* evict takes the last id, if there is one.
LEMMA ColdestDropped ==
  ASSUME NEW p, IsLru(p), NEW q, q = DropColdest(p)
  PROVE  /\ IsLru(q) /\ q.ok = p.ok /\ Known(q) \subseteq Known(p)
         /\ Known(p) # {} => Coldest(p) \in Known(p) /\ Known(q) = Known(p) \ {Coldest(p)}
<1>1. q = [p EXCEPT !.list = Front(p.list)]
  BY DEF DropColdest
<1>2. CASE p.list # << >>
  <2> DEFINE l == Front(p.list)
  <2>1. /\ l \in Seq(Ids) /\ IsInjective(l)
        /\ Coldest(p) \in Known(p) /\ Range(l) = Known(p) \ {Coldest(p)}
    BY <1>2, LastRemoved, RangeIsToSet DEF IsLru, Known, Coldest
  <2> HIDE DEF l
  <2>2. IsLru(q) /\ Known(q) = Range(l) /\ q.ok = p.ok
    BY <1>1, <2>1, LruListed DEF l
  <2> QED
    BY <2>1, <2>2
<1>3. CASE p.list = << >>
  <2>1. Front(p.list) = << >>
    BY <1>3 DEF Front
  <2>2. << >> \in Seq(Ids) /\ DOMAIN << >> = {} /\ IsInjective(<< >>) /\ Range(<< >>) = {}
    BY EmptySeq, LenProperties DEF IsInjective, Range
  <2>3. IsLru(q) /\ Known(q) = Range(<< >>) /\ q.ok = p.ok
    BY <1>1, <2>1, <2>2, LruListed
  <2> QED
    BY <1>3, <2>2, <2>3 DEF Known
<1> QED
  BY <1>2, <1>3

-----------------------------------------------------------------------------
(* A ledger and its store *)

\* The ledger knows what the store holds, and n blocks besides at most.
Agree(s, p, n) == Held(s) \subseteq Known(p) /\ Cardinality(Known(p) \ Held(s)) <= n

\* What a ledger knows is finite.
LEMMA KnownFinite ==
  ASSUME NEW p, IsLru(p)
  PROVE  \A S \in SUBSET Known(p) : IsFiniteSet(S) /\ Cardinality(S) \in Nat
<1> DEFINE D == 1..Len(p.list)
<1>1. p.list \in Seq(Ids) /\ Len(p.list) \in Nat /\ DOMAIN p.list = D /\ IsInjective(p.list)
  BY LenProperties DEF IsLru
<1>2. p.list = [i \in D |-> p.list[i]]
  BY <1>1, SeqDef
<1>3. IsFiniteSet(D)
  BY <1>1, FS_Interval
<1> HIDE DEF D
<1>4. p.list \in Bijection(D, Known(p))
  <2>1. p.list \in [D -> Known(p)] /\ \A e \in Known(p) : \E i \in D : p.list[i] = e
    BY <1>1, <1>2 DEF Known, Range
  <2> QED
    BY <1>1, <2>1 DEF Bijection, Injection, Surjection
<1>5. IsFiniteSet(Known(p))
  <2>1. ExistsBijection(D, Known(p))
    BY <1>4 DEF ExistsBijection
  <2> QED
    BY <1>3, <2>1, FS_Bijection
<1> QED
  BY <1>5, FS_Subset, FS_CardinalityType

\* Blocks a ledger knows in vain: fewer of them, or one more, or one at least.
LEMMA InVain ==
  ASSUME NEW P, IsFiniteSet(P), NEW n \in Nat, Cardinality(P) <= n
  PROVE  /\ \A Q \in SUBSET P : Cardinality(Q) <= n
         /\ \A x : Cardinality(P \cup {x}) <= n + 1
         /\ \A x \in P : n > 0
<1>1. Cardinality(P) \in Nat
  BY FS_CardinalityType
<1>2. ASSUME NEW Q \in SUBSET P PROVE Cardinality(Q) <= n
  <2>1. Cardinality(Q) <= Cardinality(P) /\ IsFiniteSet(Q)
    BY FS_Subset
  <2>2. Cardinality(Q) \in Nat
    BY <2>1, FS_CardinalityType
  <2> QED
    BY <1>1, <2>1, <2>2
<1>3. ASSUME NEW x PROVE Cardinality(P \cup {x}) <= n + 1
  BY <1>1, FS_AddElement
<1>4. ASSUME NEW x \in P PROVE n > 0
  <2>1. Cardinality(P \ {x}) = Cardinality(P) - 1 /\ IsFiniteSet(P \ {x})
    BY FS_RemoveElement
  <2>2. Cardinality(P \ {x}) \in Nat
    BY <2>1, FS_CardinalityType
  <2> QED
    BY <1>1, <2>1, <2>2
<1> QED
  BY <1>2, <1>3, <1>4

\* The coldest block makes room in a full store; if it is known in vain the
\* program stops.
LEMMA RoomMade ==
  ASSUME NEW cap \in Nat \ {0}, NEW s, IsStore(s, cap), NEW p, IsLru(p), s.ok, p.ok,
         NEW n \in Nat, Agree(s, p, n), Full(s),
         NEW r, r = EvictBlock(s, Coldest(p)), NEW q, q = DropColdest(p)
  PROVE  /\ IsStore(r, cap) /\ IsLru(q) /\ q.ok /\ Coldest(p) \in Known(p)
         /\ Held(r) = Held(s) \ {Coldest(p)} /\ Known(q) = Known(p) \ {Coldest(p)}
         /\ SameBlocks(r, s, Held(r))
         /\ r.ok = (Coldest(p) \in Held(s))
         /\ r.ok => ~Full(r) /\ Agree(r, q, n)
         /\ ~r.ok => n > 0
<1> DEFINE c == Coldest(p)
<1>1. Known(p) # {}
  <2>1. Cardinality(Held(s)) = cap
    BY StoreSizes DEF Size, Held
  <2>2. Held(s) # {}
    BY <2>1, FS_EmptySet
  <2> QED
    BY <2>2 DEF Agree
<1>2. /\ IsLru(q) /\ q.ok = p.ok /\ c \in Known(p) /\ Known(q) = Known(p) \ {c}
  BY <1>1, ColdestDropped
<1>3. /\ IsStore(r, cap) /\ r.ok = (s.ok /\ c \in Held(s))
      /\ Held(r) = IF s.ok THEN Held(s) \ {c} ELSE Held(s)
      /\ SameBlocks(r, s, Held(r)) /\ (r.ok => Size(r) < cap)
  BY Evicted
<1>4. IsFiniteSet(Known(p) \ Held(s))
  BY KnownFinite
<1>5. r.ok => ~Full(r)
  BY <1>3, StoreSizes
<1>6. r.ok => Agree(r, q, n)
  <2> SUFFICES ASSUME r.ok PROVE Agree(r, q, n)
    OBVIOUS
  <2>1. Known(q) \ Held(r) = Known(p) \ Held(s)
    BY <1>2, <1>3
  <2> QED
    BY <1>2, <1>3, <2>1 DEF Agree
<1>7. ~r.ok => n > 0
  <2> SUFFICES ASSUME c \in Known(p) \ Held(s) PROVE n > 0
    BY <1>2, <1>3
  <2> QED
    BY <1>4, InVain DEF Agree
<1> QED
  BY <1>2, <1>3, <1>5, <1>6, <1>7

\* A block new to a store with room: if its write fails it is known in vain,
\* if it was known in vain the program stops.
AddMakes(r, q, cap, s, p, n, m, id, b, done) ==
  /\ IsStore(r, cap) /\ IsLru(q) /\ r.ok /\ SameBlocks(r, s, Held(s))
  /\ Held(r) = IF done THEN Held(s) \cup {id} ELSE Held(s)
  /\ done => Block(r, id) = b
  /\ q.ok = (id \notin Known(p)) /\ (q.ok => Known(q) = Known(p) \cup {id})
  /\ q.ok => Agree(r, q, m)
  /\ ~q.ok => n > 0

LEMMA BlockAdded ==
  ASSUME NEW cap \in Nat \ {0}, NEW s, IsStore(s, cap), NEW p, IsLru(p), s.ok, p.ok,
         NEW n \in Nat, Agree(s, p, n), ~Full(s), NEW id \in Ids, id \notin Held(s), NEW b,
         NEW done \in BOOLEAN, NEW r, r = Write(s, id, b, done), NEW q, q = OnInsert(p, id),
         NEW m \in Nat, m = IF done THEN n ELSE n + 1
  PROVE  AddMakes(r, q, cap, s, p, n, m, id, b, done)
<1>1. Takes(s, id)
  BY DEF Takes, Holds, Held
<1>2. /\ IsStore(r, cap) /\ SameBlocks(r, s, Held(s)) /\ r.ok
      /\ Held(r) = (IF done THEN Held(s) \cup {id} ELSE Held(s))
      /\ (done => Block(r, id) = b)
  BY <1>1, Written DEF WriteMakes
<1>3. /\ IsLru(q) /\ q.ok = (id \notin Known(p))
      /\ Known(q) = IF q.ok THEN Known(p) \cup {id} ELSE Known(p)
  BY Inserted
<1>4. IsFiniteSet(Known(p) \ Held(s))
  BY KnownFinite
<1>5. q.ok => Agree(r, q, m)
  <2> SUFFICES ASSUME q.ok PROVE Agree(r, q, m)
    OBVIOUS
  <2>1. CASE done
    <3>1. Known(q) \ Held(r) = Known(p) \ Held(s)
      BY <1>2, <1>3, <2>1
    <3> QED
      BY <1>2, <1>3, <2>1, <3>1 DEF Agree
  <2>2. CASE ~done
    <3>1. Known(q) \ Held(r) = (Known(p) \ Held(s)) \cup {id}
      BY <1>2, <1>3, <2>2
    <3>2. Cardinality(Known(q) \ Held(r)) <= m
      BY <1>4, <2>2, <3>1, InVain DEF Agree
    <3> QED
      BY <1>2, <1>3, <2>2, <3>2 DEF Agree
  <2> QED
    BY <2>1, <2>2
<1>6. ~q.ok => n > 0
  <2> SUFFICES ASSUME id \in Known(p) \ Held(s) PROVE n > 0
    BY <1>3
  <2> QED
    BY <1>4, InVain DEF Agree
<1> QED
  BY <1>2, <1>3, <1>5, <1>6 DEF AddMakes

\* A block written anew: if that fails it is known in vain.
ReplaceMakes(r, q, cap, s, p, m, id, b, done) ==
  /\ IsStore(r, cap) /\ IsLru(q) /\ r.ok /\ q.ok /\ SameBlocks(r, s, Held(s) \ {id})
  /\ Held(r) = IF done THEN Held(s) ELSE Held(s) \ {id}
  /\ done => Block(r, id) = b
  /\ Known(q) = Known(p)
  /\ Agree(r, q, m)

LEMMA BlockReplaced ==
  ASSUME NEW cap \in Nat \ {0}, NEW s, IsStore(s, cap), NEW p, IsLru(p), s.ok, p.ok,
         NEW n \in Nat, Agree(s, p, n), NEW id \in Ids, id \in Held(s), NEW b,
         NEW done \in BOOLEAN, NEW r, r = Write(EvictBlock(s, id), id, b, done),
         NEW q, q = OnAccess(p, id), NEW m \in Nat, m = IF done THEN n ELSE n + 1
  PROVE  ReplaceMakes(r, q, cap, s, p, m, id, b, done)
<1> DEFINE t == EvictBlock(s, id)
<1>1. /\ IsStore(t, cap) /\ t.ok /\ Held(t) = Held(s) \ {id}
      /\ SameBlocks(t, s, Held(t)) /\ Size(t) < cap
  BY Evicted
<1>2. r = Write(t, id, b, done)
  OBVIOUS
<1> HIDE DEF t
<1>3. Takes(t, id)
  BY <1>1, StoreSizes DEF Takes, Holds, Held
<1>4. /\ IsStore(r, cap) /\ SameBlocks(r, t, Held(t)) /\ r.ok
      /\ Held(r) = (IF done THEN Held(t) \cup {id} ELSE Held(t))
      /\ (done => Block(r, id) = b)
  <2>1. WriteMakes(r, cap, t, id, b, done)
    BY <1>1, <1>2, Written
  <2> QED
    BY <1>3, <2>1 DEF WriteMakes
<1>5. IsLru(q) /\ q.ok /\ Known(q) = Known(p)
  BY Accessed DEF Agree
<1>6. IsFiniteSet(Known(p) \ Held(s))
  BY KnownFinite
<1>7. Agree(r, q, m)
  <2>1. CASE done
    BY <1>1, <1>4, <1>5, <2>1 DEF Agree
  <2>2. CASE ~done
    <3>1. Known(q) \ Held(r) = (Known(p) \ Held(s)) \cup {id}
      BY <1>1, <1>4, <1>5, <2>2 DEF Agree
    <3>2. Cardinality(Known(q) \ Held(r)) <= m
      BY <1>6, <2>2, <3>1, InVain DEF Agree
    <3> QED
      BY <1>1, <1>4, <1>5, <2>2, <3>2 DEF Agree
  <2> QED
    BY <2>1, <2>2
<1> QED
  BY <1>1, <1>4, <1>5, <1>7 DEF SameBlocks, ReplaceMakes

\* What the put of a block, id, makes of a store that lacks it, c being the
\* coldest block: what is known in vain already may stop the program.
PutMakes(r, q, cap, s, p, n, m, id, b) ==
  /\ IsStore(r, cap) /\ IsLru(q)
  /\ Held(r) \subseteq Held(s) \cup {id} /\ SameBlocks(r, s, Held(r) \ {id})
  /\ id \in Held(r) => Block(r, id) = b
  /\ r.ok /\ q.ok => Agree(r, q, m)
  /\ ~(r.ok /\ q.ok) => n > 0

\* If the ledger was exact and the write is done, the program goes on and the
\* ledger is exact again.
PutExact(r, q, s, c) ==
  /\ r.ok /\ q.ok /\ Known(q) = Held(r)
  /\ Full(s) => c \in Held(s) /\ c \notin Held(r)

\* The coldest block of a full store having gone.
LEMMA PutIntoRoom ==
  ASSUME NEW cap \in Nat \ {0}, NEW s, NEW p, NEW c, NEW n \in Nat, NEW e, NEW d,
         IsStore(e, cap), IsLru(d), d.ok, c \in Known(p),
         Held(e) = Held(s) \ {c}, Known(d) = Known(p) \ {c}, SameBlocks(e, s, Held(e)),
         e.ok = (c \in Held(s)), e.ok => ~Full(e) /\ Agree(e, d, n), ~e.ok => n > 0,
         NEW id \in Ids, id \notin Held(s), NEW b, NEW done \in BOOLEAN,
         NEW m \in Nat, m = IF done THEN n ELSE n + 1,
         NEW r, r = Write(e, id, b, done), NEW q, q = OnInsert(d, id)
  PROVE  /\ PutMakes(r, q, cap, s, p, n, m, id, b)
         /\ Known(p) = Held(s) /\ done => PutExact(r, q, s, c)
<1>1. CASE ~e.ok
  <2>1. WriteMakes(r, cap, e, id, b, done)
    BY Written
  <2>2. ~Takes(e, id)
    BY <1>1 DEF Takes
  <2>3. IsLru(q)
    BY Inserted
  <2>4. ~r.ok /\ Held(r) = Held(e)
    BY <2>1, <2>2 DEF WriteMakes
  <2>5. SameBlocks(r, s, Held(r) \ {id}) /\ IsStore(r, cap)
    BY <2>1, <2>4 DEF SameBlocks, WriteMakes
  <2> QED
    BY <1>1, <2>3, <2>4, <2>5 DEF PutMakes
<1>2. CASE e.ok
  <2>1. id \notin Held(e) /\ Agree(e, d, n) /\ ~Full(e)
    BY <1>2
  <2>2. AddMakes(r, q, cap, e, d, n, m, id, b, done)
    BY <1>2, <2>1, BlockAdded
  <2>3. SameBlocks(r, s, Held(r) \ {id})
    BY <2>2 DEF SameBlocks, AddMakes
  <2>4. c # id /\ c \in Held(s)
    BY <1>2
  <2> QED
    BY <1>2, <2>2, <2>3, <2>4 DEF AddMakes, PutMakes, PutExact
<1> QED
  BY <1>1, <1>2 DEF IsStore

\* Into a free slot, or one whose block goes.
LEMMA NewBlockPut ==
  ASSUME NEW cap \in Nat \ {0}, NEW s, IsStore(s, cap), NEW p, IsLru(p), s.ok, p.ok,
         NEW n \in Nat, Agree(s, p, n), NEW id \in Ids, id \notin Held(s), NEW b,
         NEW done \in BOOLEAN, NEW m \in Nat, m = IF done THEN n ELSE n + 1,
         NEW e, e = IF Full(s) THEN EvictBlock(s, Coldest(p)) ELSE s,
         NEW d, d = IF Full(s) THEN DropColdest(p) ELSE p,
         NEW r, r = Write(e, id, b, done), NEW q, q = OnInsert(d, id)
  PROVE  /\ PutMakes(r, q, cap, s, p, n, m, id, b)
         /\ Known(p) = Held(s) /\ done => PutExact(r, q, s, Coldest(p))
<1> DEFINE c == Coldest(p)
<1>1. CASE ~Full(s)
  <2>1. e = s /\ d = p
    BY <1>1
  <2>2. AddMakes(r, q, cap, s, p, n, m, id, b, done)
    BY <1>1, <2>1, BlockAdded
  <2>3. SameBlocks(r, s, Held(r) \ {id})
    BY <2>2 DEF SameBlocks, AddMakes
  <2> QED
    BY <1>1, <2>2, <2>3 DEF AddMakes, PutMakes, PutExact
<1>2. CASE Full(s)
  <2>1. /\ IsStore(e, cap) /\ IsLru(d) /\ d.ok /\ c \in Known(p)
        /\ Held(e) = Held(s) \ {c} /\ Known(d) = Known(p) \ {c}
        /\ SameBlocks(e, s, Held(e))
        /\ e.ok = (c \in Held(s))
        /\ (e.ok => ~Full(e) /\ Agree(e, d, n))
        /\ (~e.ok => n > 0)
    BY <1>2, RoomMade
  <2> QED
    BY <1>2, <2>1, PutIntoRoom
<1> QED
  BY <1>1, <1>2

\* Failed transfers only add to what may be known in vain.
LEMMA AgreeKept ==
  ASSUME NEW s, NEW p, IsLru(p), NEW q, Known(q) = Known(p), NEW n \in Nat, NEW m \in Nat, n <= m,
         Agree(s, p, n)
  PROVE  Agree(s, q, m)
<1>1. Cardinality(Known(p) \ Held(s)) \in Nat
  BY KnownFinite
<1> QED
  BY <1>1 DEF Agree

-----------------------------------------------------------------------------
(* The invariant *)

Current(s) == \A id \in Held(s) : Block(s, id) = <<id, latest[id]>>

Parts ==
  /\ IsStore(store1, Capacity1) /\ IsStore(store2, Capacity2)
  /\ IsLru(lru1) /\ IsLru(lru2)
  /\ latest \in [Ids -> Values \cup {NoBlock}] /\ faults \in 0..MaxFaults
  /\ design \in {"cache", "locked", "tiered"}

\* A block is in one tier, as it was last put.
BlocksRight ==
  /\ Held(store1) \cap Held(store2) = {}
  /\ Current(store1) /\ Current(store2)
  /\ answer = "unread" => design = "tiered" /\ faults > 0

LedgersMatch ==
  /\ Running => Agree(store1, lru1, faults) /\ Agree(store2, lru2, faults)
  /\ ~Running => faults > 0

\* A reader's block stays where it was looked up.
ReadersHold ==
  /\ DOMAIN reading = Readers
  /\ \A t \in Readers : reading[t] # NoBlock =>
       /\ design = "locked" /\ reading[t].id \in Held(store1)
       /\ reading[t].slot = store1.index[reading[t].id]

\* The first of two tiers is memory and its ledger exact, so that its coldest
\* block is there to spill; a single store leaves the second tier empty.
TiersMatch ==
  /\ design = "tiered" => store1.ok /\ lru1.ok /\ Known(lru1) = Held(store1)
  /\ design # "tiered" => store2.ok /\ lru2.ok /\ Held(store2) = {} /\ Known(lru2) = {}

\* The inductive invariant.
CacheInv == Parts /\ BlocksRight /\ LedgersMatch /\ ReadersHold /\ TiersMatch

\* It says what the properties say.
LEMMA InvMeans == CacheInv => BlocksAreFresh /\ PhantomsAreFailures
<1> SUFFICES ASSUME CacheInv PROVE BlocksAreFresh /\ PhantomsAreFailures
  OBVIOUS
<1>1. BlocksAreFresh
  BY DEF CacheInv, Parts, BlocksRight, Current, BlocksAreFresh, TypeOK, IsStore, IsLru, Held, Range
<1>2. PhantomsAreFailures
  BY DEF CacheInv, Parts, LedgersMatch, Agree, PhantomsAreFailures, IsLru, Held, Known
<1> QED
  BY <1>1, <1>2

\* An empty store and an empty ledger.
LEMMA NewOnes ==
  ASSUME NEW cap \in Nat \ {0}
  PROVE  /\ IsStore(NewStore(cap), cap) /\ NewStore(cap).ok /\ Held(NewStore(cap)) = {}
         /\ IsLru(NewLru) /\ NewLru.ok /\ Known(NewLru) = {}
<1> DEFINE s == NewStore(cap)
           V == 0..cap - 1
<1>1. /\ s.index = << >> /\ s.free = [i \in 1..cap |-> cap - i]
      /\ s.bytes = [i \in V |-> NoBlock] /\ s.ok = TRUE
      /\ s = [index |-> s.index, free |-> s.free, bytes |-> s.bytes, ok |-> s.ok]
  BY DEF NewStore
<1> HIDE DEF s
<1>2. DOMAIN s.index = {} /\ Range(s.index) = {} /\ IsInjective(s.index)
      /\ s.index = [id \in DOMAIN s.index |-> s.index[id]]
  BY <1>1, EmptySeq, LenProperties DEF Range, IsInjective
<1>3. /\ DOMAIN s.free = 1..cap /\ \A i \in 1..cap : s.free[i] = cap - i /\ cap - i \in V
  BY <1>1
<1>4. s.free \in Seq(V)
  <2>1. s.free \in [1..cap -> V]
    BY <1>1, <1>3
  <2> QED
    BY <2>1, SeqDef
<1>5. IsInjective(s.free)
  BY <1>3 DEF IsInjective
<1>6. Range(s.free) = V
  <2>1. \A i \in V : cap - i \in 1..cap /\ cap - (cap - i) = i
    OBVIOUS
  <2> HIDE DEF V
  <2> QED
    BY <1>3, <2>1 DEF Range
<1>7. StoreOK(s, cap)
  BY <1>2, <1>5, <1>6 DEF StoreOK
<1>8. IsStore(s, cap) /\ s.ok /\ Held(s) = {}
  BY <1>1, <1>2, <1>4, <1>7 DEF IsStore, Held
<1>9. IsLru(NewLru) /\ NewLru.ok /\ Known(NewLru) = {}
  BY EmptySeq, LenProperties DEF NewLru, IsLru, Known, IsInjective, Range
<1> QED
  BY <1>8, <1>9 DEF s

-----------------------------------------------------------------------------
(* The steps *)

\* A transfer done leaves the count of failures, one that fails adds to it.
LEMMA Transferred ==
  ASSUME Parts, NEW done \in BOOLEAN, NEW onFile, Transfer(done, onFile)
  PROVE  /\ faults \in Nat /\ faults' \in Nat /\ faults' \in 0..MaxFaults /\ faults <= faults'
         /\ faults' = IF done THEN faults ELSE faults + 1
         /\ done \/ onFile
BY CacheAssumption DEF Parts, Transfer

\* What stops the program, or not, after a step.
LEMMA RunningNext ==
  Running' <=> store1'.ok /\ lru1'.ok /\ store2'.ok /\ lru2'.ok
BY DEF Running

LEMMA CacheGetKeeps ==
  ASSUME CacheInv, Running, UNCHANGED design, NEW id \in Ids, CacheGet(id)
  PROVE  CacheInv'
<1>1. PICK done \in BOOLEAN :
        /\ Transfer(done, Holds(store1, id))
        /\ LET hit == Holds(store1, id) /\ done
           IN /\ answer' = IF hit THEN Handed(Block(store1, id), id) ELSE "miss"
              /\ lru1' = IF hit THEN OnAccess(lru1, id) ELSE lru1
  BY DEF CacheGet
<1>2. design = "cache" /\ UNCHANGED <<store1, store2, lru2, reading, latest>>
  BY DEF CacheGet
<1>3. /\ faults \in Nat /\ faults' \in Nat /\ faults' \in 0..MaxFaults /\ faults <= faults'
  BY <1>1, Transferred DEF CacheInv
<1>4. Agree(store1, lru1, faults) /\ Agree(store2, lru2, faults)
  BY DEF CacheInv, LedgersMatch
<1>5. IsLru(lru1') /\ lru1'.ok /\ Known(lru1') = Known(lru1)
  <2>1. IsLru(lru1) /\ lru1.ok
    BY DEF CacheInv, Parts, Running
  <2>2. CASE Holds(store1, id) /\ done
    <3>1. id \in Known(lru1) /\ lru1' = OnAccess(lru1, id)
      BY <1>1, <1>4, <2>2 DEF Agree, Holds, Held
    <3> QED
      BY <2>1, <3>1, Accessed
  <2>3. CASE ~(Holds(store1, id) /\ done)
    BY <1>1, <2>1, <2>3
  <2> QED
    BY <2>2, <2>3
<1>6. answer' # "unread"
  BY <1>1 DEF Handed, CacheInv, BlocksRight, Current, Holds, Held
<1>7. Agree(store1', lru1', faults') /\ Agree(store2', lru2', faults')
  BY <1>2, <1>3, <1>4, <1>5, AgreeKept DEF CacheInv, Parts
<1>8. Running'
  BY <1>2, <1>5, RunningNext DEF Running
<1> QED
  BY <1>2, <1>3, <1>5, <1>6, <1>7, <1>8 DEF CacheInv, Parts, BlocksRight, Current, Block,
     LedgersMatch, ReadersHold, TiersMatch

LEMMA LockedGetKeeps ==
  ASSUME CacheInv, Running, UNCHANGED design, NEW t \in Readers, NEW id \in Ids, LockedGet(t, id)
  PROVE  CacheInv'
<1>1. /\ design = "locked" /\ id \in Held(store1)
      /\ reading' = [reading EXCEPT ![t] = [id |-> id, slot |-> store1.index[id]]]
      /\ UNCHANGED <<store1, lru1, store2, lru2, answer, latest, faults>>
  BY DEF LockedGet, Holds, Held
<1>2. ReadersHold'
  BY <1>1 DEF CacheInv, ReadersHold
<1> QED
  BY <1>1, <1>2 DEF CacheInv, Parts, BlocksRight, Current, Block, LedgersMatch, Running, TiersMatch

LEMMA LockedGotKeeps ==
  ASSUME CacheInv, Running, UNCHANGED design, NEW t \in Readers, LockedGot(t)
  PROVE  CacheInv'
<1>1. /\ reading[t] # NoBlock
      /\ answer' = Handed(store1.bytes[reading[t].slot], reading[t].id)
      /\ reading' = [reading EXCEPT ![t] = NoBlock]
      /\ UNCHANGED <<store1, lru1, store2, lru2, latest, faults>>
  BY DEF LockedGot
<1>2. answer' # "unread"
  BY <1>1 DEF Handed, CacheInv, ReadersHold, BlocksRight, Current, Block
<1>3. ReadersHold'
  BY <1>1 DEF CacheInv, ReadersHold
<1> QED
  BY <1>1, <1>2, <1>3 DEF CacheInv, Parts, BlocksRight, Current, Block, LedgersMatch, Running,
     TiersMatch

LEMMA TieredGetKeeps ==
  ASSUME CacheInv, Running, UNCHANGED design, NEW id \in Ids, TieredGet(id)
  PROVE  CacheInv'
<1>1. design = "tiered" /\ UNCHANGED <<store1, store2, reading, latest>>
  BY DEF TieredGet
<1>2. Agree(store1, lru1, faults) /\ Agree(store2, lru2, faults)
  BY DEF CacheInv, LedgersMatch
<1>3. /\ IsLru(lru1) /\ lru1.ok /\ IsLru(lru2) /\ lru2.ok /\ faults \in 0..MaxFaults
      /\ faults \in Nat
  BY CacheAssumption DEF CacheInv, Parts, Running
<1>4. ASSUME IsLru(lru1'), lru1'.ok, Known(lru1') = Known(lru1),
             IsLru(lru2'), lru2'.ok, Known(lru2') = Known(lru2),
             faults' \in 0..MaxFaults, faults' \in Nat, faults <= faults',
             answer' = "unread" => faults' > 0
      PROVE  CacheInv'
  <2>1. Agree(store1', lru1', faults') /\ Agree(store2', lru2', faults')
    BY <1>1, <1>2, <1>3, <1>4, AgreeKept
  <2>2. Running'
    BY <1>1, <1>4, RunningNext DEF Running
  <2> QED
    BY <1>1, <1>4, <2>1, <2>2 DEF CacheInv, Parts, BlocksRight, Current, Block, LedgersMatch,
       ReadersHold, TiersMatch
<1>5. CASE /\ id \in Held(store1)
           /\ lru1' = OnAccess(lru1, id) /\ answer' = Handed(Block(store1, id), id)
           /\ UNCHANGED <<lru2, faults>>
  <2>1. id \in Known(lru1)
    BY <1>2, <1>5 DEF Agree
  <2>2. IsLru(lru1') /\ lru1'.ok /\ Known(lru1') = Known(lru1)
    BY <1>3, <1>5, <2>1, Accessed
  <2>3. answer' # "unread"
    BY <1>5 DEF Handed, CacheInv, BlocksRight, Current
  <2> QED
    BY <1>3, <1>4, <1>5, <2>2, <2>3
<1>6. CASE /\ id \in Held(store2)
           /\ lru2' = OnAccess(lru2, id) /\ lru1' = lru1
           /\ \E done \in BOOLEAN :
                /\ Transfer(done, TRUE)
                /\ answer' = IF done THEN Handed(Block(store2, id), id) ELSE "unread"
  <2>1. PICK done \in BOOLEAN :
          Transfer(done, TRUE) /\ answer' = IF done THEN Handed(Block(store2, id), id) ELSE "unread"
    BY <1>6
  <2>2. /\ faults' \in Nat /\ faults' \in 0..MaxFaults /\ faults <= faults'
        /\ faults' = IF done THEN faults ELSE faults + 1
    BY <2>1, Transferred DEF CacheInv
  <2>3. id \in Known(lru2)
    BY <1>2, <1>6 DEF Agree
  <2>4. IsLru(lru2') /\ lru2'.ok /\ Known(lru2') = Known(lru2)
    BY <1>3, <1>6, <2>3, Accessed
  <2>5. answer' = "unread" => faults' > 0
    <3>1. CASE done
      BY <1>6, <2>1, <3>1 DEF Handed, CacheInv, BlocksRight, Current
    <3>2. CASE ~done
      BY <1>3, <2>2, <3>2
    <3> QED
      BY <3>1, <3>2
  <2> QED
    BY <1>3, <1>4, <1>6, <2>2, <2>4, <2>5
<1>7. CASE answer' = "miss" /\ UNCHANGED <<lru1, lru2, faults>>
  BY <1>3, <1>4, <1>7
<1> QED
  BY <1>5, <1>6, <1>7 DEF TieredGet, Holds, Held

\* A put into the only store.
LEMMA SinglePutKeeps ==
  ASSUME CacheInv, Running, UNCHANGED design, NEW id \in Ids, NEW v \in Values, SinglePut(id, v)
  PROVE  CacheInv'
<1>1. PICK done \in BOOLEAN : Transfer(done, design = "cache") /\ CachePut(id, v, done)
  BY DEF SinglePut
<1>2. /\ design # "tiered" /\ \A t \in Readers : reading[t] = NoBlock
      /\ latest' = [latest EXCEPT ![id] = v]
      /\ UNCHANGED <<store2, lru2, reading, answer>>
  BY DEF SinglePut
<1>3. /\ faults \in Nat /\ faults' \in Nat /\ faults' \in 0..MaxFaults /\ faults <= faults'
      /\ faults' = IF done THEN faults ELSE faults + 1
  BY <1>1, Transferred DEF CacheInv
<1>4. /\ IsStore(store1, Capacity1) /\ IsLru(lru1) /\ store1.ok /\ lru1.ok
      /\ Agree(store1, lru1, faults) /\ Capacity1 \in Nat \ {0}
  BY CacheAssumption DEF CacheInv, Parts, LedgersMatch, Running
<1>5. /\ IsStore(store1', Capacity1) /\ IsLru(lru1')
      /\ Held(store1') \subseteq Held(store1) \cup {id}
      /\ SameBlocks(store1', store1, Held(store1') \ {id})
      /\ id \in Held(store1') => Block(store1', id) = <<id, v>>
      /\ store1'.ok /\ lru1'.ok => Agree(store1', lru1', faults')
      /\ ~(store1'.ok /\ lru1'.ok) => faults > 0
  <2>1. CASE id \in Held(store1)
    <3>1. /\ store1' = Write(EvictBlock(store1, id), id, <<id, v>>, done)
          /\ lru1' = OnAccess(lru1, id)
      BY <1>1, <2>1 DEF CachePut, Holds, Held
    <3>2. ReplaceMakes(store1', lru1', Capacity1, store1, lru1, faults', id, <<id, v>>, done)
      BY <1>3, <1>4, <2>1, <3>1, BlockReplaced
    <3> QED
      BY <2>1, <3>2 DEF SameBlocks, ReplaceMakes
  <2>2. CASE id \notin Held(store1)
    <3> DEFINE e == IF Full(store1) THEN EvictBlock(store1, Coldest(lru1)) ELSE store1
               d == IF Full(store1) THEN DropColdest(lru1) ELSE lru1
    <3>1. store1' = Write(e, id, <<id, v>>, done) /\ lru1' = OnInsert(d, id)
      BY <1>1, <2>2 DEF CachePut, Holds, Held
    <3>2. PutMakes(store1', lru1', Capacity1, store1, lru1, faults, faults', id, <<id, v>>)
      BY <1>3, <1>4, <2>2, <3>1, NewBlockPut
    <3> QED
      BY <3>2 DEF PutMakes
  <2> QED
    BY <2>1, <2>2
<1>6. Parts'
  BY <1>2, <1>3, <1>5 DEF CacheInv, Parts
<1>7. Held(store2) = {} /\ UNCHANGED <<store2, lru2>> /\ store2.ok /\ lru2.ok
  BY <1>2 DEF CacheInv, TiersMatch
<1>8. BlocksRight'
  <2>1. latest'[id] = v /\ \A x \in Ids \ {id} : latest'[x] = latest[x]
    BY <1>2 DEF CacheInv, Parts
  <2>2. Held(store1') \subseteq Ids
    BY <1>5 DEF IsStore
  <2>3. \A x \in Held(store1') : Block(store1', x) = <<x, latest'[x]>>
    BY <1>5, <2>1, <2>2 DEF SameBlocks, CacheInv, BlocksRight, Current
  <2>4. Held(store2') = {} /\ Held(store1') \cap Held(store2') = {}
    BY <1>7
  <2>5. answer' # "unread"
    BY <1>2 DEF CacheInv, BlocksRight
  <2> QED
    BY <2>3, <2>4, <2>5 DEF BlocksRight, Current
<1>9. LedgersMatch'
  <2>1. Agree(store2', lru2', faults')
    BY <1>2, <1>3, AgreeKept DEF CacheInv, Parts, LedgersMatch
  <2>2. Running' => Agree(store1', lru1', faults')
    BY <1>5, RunningNext
  <2>3. ~Running' => faults' > 0
    BY <1>3, <1>5, <1>7, RunningNext
  <2> QED
    BY <2>1, <2>2, <2>3 DEF LedgersMatch
<1>10. ReadersHold' /\ TiersMatch'
  BY <1>2 DEF CacheInv, ReadersHold, TiersMatch
<1> QED
  BY <1>6, <1>8, <1>9, <1>10 DEF CacheInv

\* A block of the first of two tiers, put again.
LEMMA OverwriteKeeps ==
  ASSUME CacheInv, Running, UNCHANGED design, NEW id \in Ids, NEW v \in Values, Overwrite(id, v)
  PROVE  CacheInv'
<1>1. /\ design = "tiered" /\ id \in Held(store1)
      /\ store1' = Write(EvictBlock(store1, id), id, <<id, v>>, TRUE)
      /\ lru1' = OnAccess(lru1, id)
      /\ latest' = [latest EXCEPT ![id] = v]
      /\ UNCHANGED <<store2, lru2, reading, answer, faults>>
  BY DEF Overwrite, Holds, Held
<1>2. /\ IsStore(store1, Capacity1) /\ IsLru(lru1) /\ store1.ok /\ lru1.ok
      /\ Agree(store1, lru1, faults) /\ Capacity1 \in Nat \ {0} /\ faults \in Nat
  BY CacheAssumption DEF CacheInv, Parts, LedgersMatch, Running
<1>3. /\ IsStore(store1', Capacity1) /\ IsLru(lru1') /\ store1'.ok /\ lru1'.ok
      /\ SameBlocks(store1', store1, Held(store1) \ {id})
      /\ Held(store1') = Held(store1) /\ Block(store1', id) = <<id, v>>
      /\ Known(lru1') = Known(lru1) /\ Agree(store1', lru1', faults)
  <2>1. ReplaceMakes(store1', lru1', Capacity1, store1, lru1, faults, id, <<id, v>>, TRUE)
    BY <1>1, <1>2, BlockReplaced
  <2> QED
    BY <2>1 DEF ReplaceMakes
<1>4. latest'[id] = v /\ \A x \in Ids \ {id} : latest'[x] = latest[x]
  BY <1>1 DEF CacheInv, Parts
<1>5. BlocksRight'
  <2>1. Held(store1) \subseteq Ids /\ Held(store2) \subseteq Ids /\ id \notin Held(store2)
    BY <1>1 DEF CacheInv, Parts, BlocksRight, IsStore
  <2>2. \A x \in Held(store1') : Block(store1', x) = <<x, latest'[x]>>
    BY <1>3, <1>4, <2>1 DEF SameBlocks, CacheInv, BlocksRight, Current
  <2>3. \A x \in Held(store2') : Block(store2', x) = <<x, latest'[x]>>
    BY <1>1, <1>4, <2>1 DEF CacheInv, BlocksRight, Current
  <2> QED
    BY <1>1, <1>3, <2>2, <2>3 DEF CacheInv, BlocksRight, Current
<1>6. Parts'
  BY <1>1, <1>3 DEF CacheInv, Parts
<1>7. Running' /\ LedgersMatch'
  <2>1. Running'
    BY <1>1, <1>3, RunningNext DEF Running
  <2> QED
    BY <1>1, <1>3, <2>1 DEF CacheInv, LedgersMatch
<1>8. ReadersHold' /\ TiersMatch'
  BY <1>1, <1>3 DEF CacheInv, ReadersHold, TiersMatch
<1> QED
  BY <1>5, <1>6, <1>7, <1>8 DEF CacheInv

\* The second tier gives up a block that is put into the first.
LEMMA WithdrawnFacts ==
  ASSUME CacheInv, Running, NEW id \in Ids, NEW t, t = Withdrawn(id)
  PROVE  /\ IsStore(t.s, Capacity2) /\ t.s.ok /\ IsLru(t.p) /\ t.p.ok
         /\ Held(t.s) = Held(store2) \ {id} /\ SameBlocks(t.s, store2, Held(t.s))
         /\ Agree(t.s, t.p, faults)
<1>1. /\ IsStore(store2, Capacity2) /\ IsLru(lru2) /\ store2.ok /\ lru2.ok
      /\ Agree(store2, lru2, faults) /\ Capacity2 \in Nat \ {0}
  BY CacheAssumption DEF CacheInv, Parts, LedgersMatch, Running
<1>2. CASE id \notin Held(store2)
  <2>1. t = [s |-> store2, p |-> lru2]
    BY <1>2 DEF Withdrawn, Holds, Held
  <2> QED
    BY <1>1, <1>2, <2>1 DEF SameBlocks
<1>3. CASE id \in Held(store2)
  <2> DEFINE r == EvictBlock(store2, id)
             q == OnErase(lru2, id)
  <2>1. t = [s |-> r, p |-> q]
    BY <1>3 DEF Withdrawn, Holds, Held
  <2>2. /\ IsStore(r, Capacity2) /\ r.ok /\ Held(r) = Held(store2) \ {id}
        /\ SameBlocks(r, store2, Held(r))
    BY <1>1, <1>3, Evicted
  <2>3. IsLru(q) /\ q.ok /\ Known(q) = Known(lru2) \ {id}
    BY <1>1, <1>3, Erased DEF Agree
  <2> HIDE DEF r, q
  <2>4. Agree(r, q, faults)
    <3>1. Known(q) \ Held(r) = Known(lru2) \ Held(store2)
      BY <1>1, <1>3, <2>2, <2>3
    <3> QED
      BY <1>1, <2>2, <2>3, <3>1 DEF Agree
  <2> QED
    BY <2>1, <2>2, <2>3, <2>4
<1> QED
  BY <1>2, <1>3

\* A block new to the first tier, whose coldest block goes to the second.
LEMMA InsertKeeps ==
  ASSUME CacheInv, Running, UNCHANGED design, NEW id \in Ids, NEW v \in Values, Insert(id, v)
  PROVE  CacheInv'
<1> DEFINE victim == Coldest(lru1)
           full == Full(store1)
           e == IF full THEN EvictBlock(store1, victim) ELSE store1
           d == IF full THEN DropColdest(lru1) ELSE lru1
           t == Withdrawn(id)
<1>1. /\ design = "tiered" /\ id \notin Held(store1)
      /\ latest' = [latest EXCEPT ![id] = v]
      /\ store1' = Write(e, id, <<id, v>>, TRUE) /\ lru1' = OnInsert(d, id)
      /\ UNCHANGED <<reading, answer>>
  BY DEF Insert, Holds, Held
<1>2. PICK done \in BOOLEAN :
        /\ Transfer(done, full)
        /\ IF full
           THEN /\ store2' = Spilled(t, victim, Block(store1, victim), done).s
                /\ lru2' = Spilled(t, victim, Block(store1, victim), done).p
           ELSE store2' = t.s /\ lru2' = t.p
  BY DEF Insert
<1>3. /\ faults \in Nat /\ faults' \in Nat /\ faults' \in 0..MaxFaults /\ faults <= faults'
      /\ faults' = IF done THEN faults ELSE faults + 1
      /\ done \/ full
  BY <1>2, Transferred DEF CacheInv
<1>4. /\ IsStore(store1, Capacity1) /\ IsLru(lru1) /\ store1.ok /\ lru1.ok
      /\ Agree(store1, lru1, faults) /\ Known(lru1) = Held(store1)
      /\ Capacity1 \in Nat \ {0} /\ Capacity2 \in Nat \ {0}
  BY <1>1, CacheAssumption DEF CacheInv, Parts, LedgersMatch, Running, TiersMatch
<1>5. /\ PutMakes(store1', lru1', Capacity1, store1, lru1, faults, faults, id, <<id, v>>)
      /\ PutExact(store1', lru1', store1, victim)
  BY <1>1, <1>3, <1>4, NewBlockPut
<1>6. /\ IsStore(t.s, Capacity2) /\ t.s.ok /\ IsLru(t.p) /\ t.p.ok
      /\ Held(t.s) = Held(store2) \ {id} /\ SameBlocks(t.s, store2, Held(t.s))
      /\ Agree(t.s, t.p, faults)
  BY WithdrawnFacts
<1>7. full => /\ victim \in Held(store1) /\ victim \notin Held(store1') /\ victim # id
              /\ victim \notin Held(store2) /\ victim \in Ids
              /\ Block(store1, victim) = <<victim, latest[victim]>>
  BY <1>1, <1>4, <1>5 DEF PutExact, CacheInv, BlocksRight, Current, IsStore
<1> HIDE DEF victim, full, t
<1>8. full => PutMakes(store2', lru2', Capacity2, t.s, t.p, faults, faults', victim,
                       Block(store1, victim))
  <2> SUFFICES ASSUME full
               PROVE  PutMakes(store2', lru2', Capacity2, t.s, t.p, faults, faults', victim,
                               Block(store1, victim))
    OBVIOUS
  <2> DEFINE f == IF Full(t.s) THEN EvictBlock(t.s, Coldest(t.p)) ELSE t.s
             g == IF Full(t.s) THEN DropColdest(t.p) ELSE t.p
  <2>1. /\ store2' = Write(f, victim, Block(store1, victim), done)
        /\ lru2' = OnInsert(g, victim)
    BY <1>2 DEF Spilled
  <2>2. victim \in Ids /\ victim \notin Held(t.s)
    BY <1>6, <1>7
  <2> QED
    BY <1>3, <1>4, <1>6, <2>1, <2>2, NewBlockPut
<1>9. /\ IsStore(store2', Capacity2) /\ IsLru(lru2')
      /\ \A x \in Held(store2') : \/ full /\ x = victim
                                  \/ x \in Held(store2) /\ x # id
      /\ \A x \in Held(store2') :
           IF full /\ x = victim THEN Block(store2', x) = Block(store1, victim)
           ELSE Block(store2', x) = Block(store2, x)
      /\ store2'.ok /\ lru2'.ok => Agree(store2', lru2', faults')
      /\ ~(store2'.ok /\ lru2'.ok) => faults' > 0
  <2>1. CASE full
    <3>1. Held(store2') \subseteq Held(t.s) \cup {victim}
      BY <1>8, <2>1 DEF PutMakes
    <3>2. \A x \in Held(store2') \ {victim} : Block(store2', x) = Block(store2, x)
      BY <1>6, <1>8, <2>1, <3>1 DEF PutMakes, SameBlocks
    <3> QED
      BY <1>3, <1>6, <1>8, <2>1, <3>1, <3>2 DEF PutMakes
  <2>2. CASE ~full
    <3>1. store2' = t.s /\ lru2' = t.p /\ faults' = faults
      BY <1>2, <1>3, <2>2
    <3> QED
      BY <1>6, <2>2, <3>1 DEF SameBlocks
  <2> QED
    BY <2>1, <2>2
<1>10. /\ IsStore(store1', Capacity1) /\ IsLru(lru1') /\ store1'.ok /\ lru1'.ok
       /\ Known(lru1') = Held(store1') /\ Agree(store1', lru1', faults)
       /\ Held(store1') \subseteq Held(store1) \cup {id}
       /\ SameBlocks(store1', store1, Held(store1') \ {id})
       /\ id \in Held(store1') => Block(store1', id) = <<id, v>>
  BY <1>5 DEF PutMakes, PutExact
<1>11. Parts'
  BY <1>1, <1>3, <1>9, <1>10 DEF CacheInv, Parts
<1>12. BlocksRight'
  <2>1. latest'[id] = v /\ \A x \in Ids \ {id} : latest'[x] = latest[x]
    BY <1>1 DEF CacheInv, Parts
  <2>2. Held(store1) \subseteq Ids /\ Held(store2) \subseteq Ids
    BY DEF CacheInv, Parts, IsStore
  <2>3. \A x \in Held(store1') : Block(store1', x) = <<x, latest'[x]>>
    BY <1>10, <2>1, <2>2 DEF SameBlocks, CacheInv, BlocksRight, Current
  <2>4. \A x \in Held(store2') : Block(store2', x) = <<x, latest'[x]>>
    <3> SUFFICES ASSUME NEW x \in Held(store2') PROVE Block(store2', x) = <<x, latest'[x]>>
      OBVIOUS
    <3>1. CASE full /\ x = victim
      BY <1>7, <1>9, <2>1, <3>1
    <3>2. CASE ~(full /\ x = victim)
      <4>1. x \in Held(store2) /\ x # id /\ Block(store2', x) = Block(store2, x)
        BY <1>9, <3>2
      <4> QED
        BY <2>1, <2>2, <4>1 DEF CacheInv, BlocksRight, Current
    <3> QED
      BY <3>1, <3>2
  <2>5. Held(store1') \cap Held(store2') = {}
    <3> SUFFICES ASSUME NEW x \in Held(store1'), x \in Held(store2') PROVE FALSE
      OBVIOUS
    <3>1. CASE full /\ x = victim
      BY <1>7, <3>1
    <3>2. CASE ~(full /\ x = victim)
      <4>1. x \in Held(store2) /\ x # id /\ x \in Held(store1)
        BY <1>9, <1>10, <3>2
      <4> QED
        BY <4>1 DEF CacheInv, BlocksRight
    <3> QED
      BY <3>1, <3>2
  <2>6. answer' = "unread" => design' = "tiered" /\ faults' > 0
    BY <1>1, <1>3 DEF CacheInv, BlocksRight
  <2> QED
    BY <2>3, <2>4, <2>5, <2>6 DEF BlocksRight, Current
<1>13. LedgersMatch'
  <2>1. Agree(store1', lru1', faults')
    BY <1>3, <1>10, AgreeKept
  <2>2. Running' => Agree(store2', lru2', faults')
    BY <1>9, RunningNext
  <2>3. ~Running' => faults' > 0
    BY <1>9, <1>10, RunningNext
  <2> QED
    BY <2>1, <2>2, <2>3 DEF LedgersMatch
<1>14. ReadersHold' /\ TiersMatch'
  BY <1>1, <1>10 DEF CacheInv, ReadersHold, TiersMatch
<1> QED
  BY <1>11, <1>12, <1>13, <1>14 DEF CacheInv

\* The empty caches.
LEMMA InitKeeps == Init => CacheInv
<1> SUFFICES ASSUME Init PROVE CacheInv
  OBVIOUS
<1>1. Capacity1 \in Nat \ {0} /\ Capacity2 \in Nat \ {0} /\ MaxFaults \in Nat
  BY CacheAssumption
<1>2. /\ IsStore(store1, Capacity1) /\ store1.ok /\ Held(store1) = {}
      /\ IsStore(store2, Capacity2) /\ store2.ok /\ Held(store2) = {}
      /\ IsLru(lru1) /\ lru1.ok /\ Known(lru1) = {}
      /\ IsLru(lru2) /\ lru2.ok /\ Known(lru2) = {}
  BY <1>1, NewOnes DEF Init
<1>3. Parts
  BY <1>1, <1>2 DEF Init, Parts
<1>4. BlocksRight /\ ReadersHold /\ TiersMatch
  BY <1>2 DEF Init, BlocksRight, Current, ReadersHold, TiersMatch
<1>5. Running /\ Agree(store1, lru1, faults) /\ Agree(store2, lru2, faults)
  BY <1>2, FS_EmptySet DEF Init, Running, Agree
<1> QED
  BY <1>3, <1>4, <1>5 DEF CacheInv, LedgersMatch

\* Every step keeps the invariant.
LEMMA NextKeeps == CacheInv /\ [Next]_vars => CacheInv'
<1> SUFFICES ASSUME CacheInv, [Next]_vars PROVE CacheInv'
  OBVIOUS
<1>1. CASE UNCHANGED vars
  BY <1>1 DEF vars, CacheInv, Parts, BlocksRight, Current, Block, LedgersMatch, Running,
     ReadersHold, TiersMatch
<1>2. CASE Next
  <2>1. Running /\ UNCHANGED design
    BY <1>2 DEF Next
  <2>2. ASSUME NEW id \in Ids, CacheGet(id) \/ TieredGet(id) PROVE CacheInv'
    BY <2>1, <2>2, CacheGetKeeps, TieredGetKeeps
  <2>3. ASSUME NEW id \in Ids, NEW v \in Values,
               SinglePut(id, v) \/ Overwrite(id, v) \/ Insert(id, v)
        PROVE  CacheInv'
    BY <2>1, <2>3, SinglePutKeeps, OverwriteKeeps, InsertKeeps
  <2>4. ASSUME NEW t \in Readers, LockedGot(t) \/ \E id \in Ids : LockedGet(t, id)
        PROVE  CacheInv'
    BY <2>1, <2>4, LockedGetKeeps, LockedGotKeeps
  <2> QED
    BY <1>2, <2>2, <2>3, <2>4 DEF Next
<1> QED
  BY <1>1, <1>2

\* The inductive invariant holds in every state the caches reach: stores,
\* ledgers, readers and tiers agree.
THEOREM CacheInvariant == Spec => []CacheInv
<1>1. Init => CacheInv
  BY InitKeeps
<1>2. CacheInv /\ [Next]_vars => CacheInv'
  BY NextKeeps
<1> QED
  BY <1>1, <1>2, PTL DEF Spec

\* Whatever transfers fail, no slot of a store is lost or used twice
\* (block_store.hpp), no block is in both tiers and a hit hands over what was
\* last put, to concurrent readers too.
THEOREM BlocksStayFresh == Spec => []BlocksAreFresh
<1>1. CacheInv => BlocksAreFresh
  BY InvMeans
<1> QED
  BY <1>1, CacheInvariant, PTL

\* A ledger is ahead of its store by one block for each failed transfer at
\* most, and no assert of the stores and LruPolicy fails without one.
THEOREM OnlyFailuresMakePhantoms == Spec => []PhantomsAreFailures
<1>1. CacheInv => PhantomsAreFailures
  BY InvMeans
<1> QED
  BY <1>1, CacheInvariant, PTL

=============================================================================
