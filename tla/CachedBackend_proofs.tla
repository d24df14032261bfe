------------------------ MODULE CachedBackend_proofs ------------------------
(***************************************************************************)
(* Proofs about CachedBackend for any number of blocks, slots and          *)
(* requests: slots are never lost or shared, a caller that keeps to        *)
(* max_in_flight never meets an exhausted pool and gets as many answers as *)
(* it made requests, whatever tags it uses.  Until a tag of its own meets  *)
(* the id of a miss in the inner backend, each answer is its request's own *)
(* and reads are fresh.                                                    *)
(***************************************************************************)
EXTENDS CachedBackend, ListLemmas, FiniteSetTheorems

-----------------------------------------------------------------------------
(* The invariant *)

\* Misses are reads not answered, each with its own slot, whose block it reads.
MissesMatch ==
  /\ nextIid <= next + 1
  /\ \A i \in Outstanding : i < next
  /\ \A m \in misses :
       /\ m.iid < nextIid
       /\ req[m.id] # None /\ req[m.id].op = "read" /\ req[m.id].off = slots[m.slot].offset
  /\ \A m, n \in misses : m.iid = n.iid \/ m.id = n.id \/ m.slot = n.slot => m = n

\* There is one of it for every request.
CountsMatch ==
  /\ IsFiniteSet(inner) /\ innerPending = Cardinality(inner)
  /\ Len(pending) + Len(out) + innerPending = Cardinality(Outstanding)

\* Each slot is free, in the list, or lent to a miss.
SlotsMatch ==
  /\ IsInjective(lru)
  /\ free \cap ToSet(lru) = {} /\ free \cap Pinned = {} /\ Pinned \cap ToSet(lru) = {}
  /\ free \cup ToSet(lru) \cup Pinned = Slots
  /\ \A s \in Slots : /\ slots[s].valid = (s \in ToSet(lru))
                      /\ slots[s].pinned = (s \in Pinned)

\* The index and the slots agree, where no miss was overtaken by a write.
IndexMatch ==
  /\ \A s \in Slots : s \notin free =>
       /\ slots[s].offset \in Offsets
       /\ slots[s].offset \notin overwritten => index[slots[s].offset] = s
  /\ \A o \in Offsets : index[o] # None => index[o] \notin free /\ slots[index[o]].offset = o

-----------------------------------------------------------------------------
(* What the steps do *)

LEMMA Numbers ==
  /\ MaxRequests \in Nat /\ TagBase \in Nat /\ MaxInFlight \in Nat \ {0} /\ ReapMax \in Nat \ {0}
  /\ Ids \subseteq Nat /\ Ids = 0..(MaxRequests - 1)
  /\ IsFiniteSet(Ids) /\ IsFiniteSet(Outstanding) /\ Cardinality(Outstanding) \in Nat
<1>1. Ids = 0..(MaxRequests - 1) /\ MaxRequests \in Nat
  BY NumbersAssumption DEF Ids
<1>2. IsFiniteSet(Ids) /\ Ids \subseteq Nat
  BY <1>1, FS_Interval
<1>3. Outstanding \in SUBSET Ids
  BY DEF Outstanding
<1> QED
  BY <1>1, <1>2, <1>3, FS_Subset, FS_CardinalityType, NumbersAssumption

\* A request is submitted.
LEMMA Submitting ==
  ASSUME TypeOK, MissesMatch, NEW k \in Kinds, NEW o \in Offsets, Submit(k, o)
  PROVE  /\ next \in Ids /\ next \notin Outstanding /\ next' = next + 1 /\ next' \in 0..MaxRequests
         /\ out = << >> /\ Cardinality(Outstanding) < MaxInFlight
         /\ UNCHANGED <<out, disk, strays, early, stale>>
         /\ overwritten \subseteq overwritten' /\ overwritten' \subseteq overwritten \cup {o}
         /\ doubtful' \subseteq doubtful \cup {o}
         /\ clashed' \in BOOLEAN /\ (~clashed' => ~clashed)
         /\ req' \in [Ids -> Request \cup {None}]
         /\ req'[next] # None /\ req'[next].op = k.op /\ req'[next].off = o
         /\ disk[o] \in req'[next].seen
         /\ \A i \in Ids : i # next => req'[i] = req[i]
         /\ Outstanding' = Outstanding \cup {next}
<1>1. PICK buffer \in Contents, known \in SUBSET Contents :
        Ask(k, o, buffer, known) /\ disk[o] \in known
  <2>1. Junk \in Contents /\ disk[o] \in Contents
    BY DEF Contents, TypeOK
  <2>2. CASE Hit(k, o)
    <3>1. index[o] \in Slots
      BY <2>2 DEF Hit, Cached, TypeOK
    <3>2. slots[index[o]].data \in Contents
      BY <3>1 DEF TypeOK, Slot
    <3> DEFINE data == slots[index[o]].data
               known == {disk[o]} \cup IF o \in doubtful THEN {data} ELSE {}
    <3>3. Ask(k, o, data, known)
      BY <2>2 DEF Hit
    <3>4. known \in SUBSET Contents /\ disk[o] \in known
      BY <2>1, <3>2
    <3> HIDE DEF data, known
    <3> QED
      BY <3>2, <3>3, <3>4 DEF data
  <2>3. CASE Write(k, o)
    <3>1. next \in Ids
      BY <2>3, Numbers DEF Write, Ask, TypeOK
    <3>2. <<o, next>> \in Contents
      BY <3>1 DEF Contents
    <3>3. Ask(k, o, <<o, next>>, {disk[o]})
      BY <2>3 DEF Write
    <3> QED
      BY <2>1, <3>2, <3>3
  <2>4. CASE Ask(k, o, Junk, {disk[o]})
    BY <2>1, <2>4
  <2> QED
    BY <2>2, <2>3, <2>4 DEF Submit, PassThrough, ReadAgain, ReadMiss
<1>2. next \in Ids /\ next' = next + 1 /\ next' \in 0..MaxRequests
  BY <1>1, Numbers DEF Ask, TypeOK
<1>3. next \notin Outstanding
  BY <1>2, Numbers DEF MissesMatch
<1> DEFINE r == [op |-> k.op, off |-> o, buf |-> buffer, seen |-> known]
<1>4. r \in Request /\ r # None /\ r.op = k.op /\ r.off = o /\ disk[o] \in r.seen
  <2>1. k.op \in {"read", "write"}
    BY KindsAssumption
  <2>2. r \in Request
    BY <2>1 DEF Request
  <2> QED
    BY <1>1, <2>2, NoneAssumption
<1>5. req' = [req EXCEPT ![next] = r]
  BY <1>1 DEF Ask
<1> HIDE DEF r
<1>6. /\ req' \in [Ids -> Request \cup {None}] /\ req'[next] = r
      /\ \A i \in Ids : i # next => req'[i] = req[i]
  BY <1>2, <1>4, <1>5 DEF TypeOK
<1>7. Outstanding' = Outstanding \cup {next}
  BY <1>2, <1>4, <1>6 DEF Outstanding
<1>8. /\ overwritten \subseteq overwritten' /\ overwritten' \subseteq overwritten \cup {o}
      /\ doubtful' \subseteq doubtful \cup {o}
  BY DEF Submit, PassThrough, Hit, ReadAgain, ReadMiss, Write
<1>9. clashed' \in BOOLEAN /\ (~clashed' => ~clashed)
  <2>1. clashed \in BOOLEAN
    BY DEF TypeOK
  <2>2. ASSUME NEW tag, NEW s, Forward(tag, k, o, s)
        PROVE  clashed' \in BOOLEAN /\ (~clashed' => ~clashed)
    <3>1. clashed' = (clashed \/ \E c \in inner : c.tag = tag /\ (c.slot = None) # (s = None))
      BY <2>2 DEF Forward
    <3> QED
      BY <2>1, <3>1
  <2>3. CASE clashed' = clashed
    BY <2>1, <2>3
  <2> QED
    BY <2>2, <2>3 DEF Submit, PassThrough, Hit, ReadAgain, ReadMiss, Write
<1> QED
  BY <1>1, <1>2, <1>3, <1>4, <1>6, <1>7, <1>8, <1>9 DEF Ask

\* A transfer c ends as d.
Ended(c, d, ok) ==
  /\ d.tag = c.tag /\ d.id = c.id /\ d.op = c.op /\ d.off = c.off /\ d.slot = c.slot
  /\ d.done /\ d.ok = ok /\ ~c.done
  /\ inner' = (inner \ {c}) \cup {d}
  /\ c \in Transfer
  /\ disk' \in [Offsets -> Contents \ {Junk}]
  /\ \A p \in Offsets : p # c.off \/ c.op = "read" => disk'[p] = disk[p]
  /\ slots' \in [Slots -> Slot]
  /\ \A s \in Slots :
       /\ slots'[s].offset = slots[s].offset /\ slots'[s].valid = slots[s].valid
       /\ slots'[s].pinned = slots[s].pinned
       /\ slots'[s].data =
            IF c.op = "read" /\ ok /\ c.slot = s THEN disk[c.off] ELSE slots[s].data
  /\ req' \in [Ids -> Request \cup {None}]
  /\ \A i \in Ids : (req'[i] = None) = (req[i] = None)
  /\ \A i \in Outstanding :
       /\ req'[i].op = req[i].op /\ req'[i].off = req[i].off
       /\ req'[i].seen = IF c.op = "write" /\ req[i].off = c.off
                         THEN req[i].seen \cup {disk'[c.off]} ELSE req[i].seen
       /\ req'[i].buf = IF c.op = "read" /\ ok /\ c.slot = None /\ i = c.id
                        THEN disk[c.off] ELSE req[i].buf

LEMMA Ending ==
  ASSUME TypeOK, NEW c \in inner, Complete(c), c.slot = None => c.id \in Outstanding
  PROVE  /\ \E d \in Transfer, ok \in BOOLEAN : Ended(c, d, ok)
         /\ UNCHANGED <<lru, index, free, misses, nextIid, pending, innerPending, out, next,
                        overwritten, doubtful, clashed, strays, early, stale>>
<1>1. PICK ok \in BOOLEAN :
        /\ inner' = (inner \ {c}) \cup {[c EXCEPT !.done = TRUE, !.ok = ok]}
        /\ \/ /\ c.op = "write"
              /\ \E v \in IF ok THEN {<<c.off, c.id>>} ELSE {<<c.off, c.id>>, disk[c.off]} :
                   /\ disk' = [disk EXCEPT ![c.off] = v]
                   /\ req' = [i \in Ids |->
                        IF req[i] # None /\ req[i].off = c.off
                        THEN [req[i] EXCEPT !.seen = @ \cup {v}] ELSE req[i]]
              /\ UNCHANGED slots
           \/ /\ c.op = "read" /\ ok /\ c.slot # None
              /\ slots' = [slots EXCEPT ![c.slot].data = disk[c.off]]
              /\ UNCHANGED <<disk, req>>
           \/ /\ c.op = "read" /\ ok /\ c.slot = None
              /\ req' = [req EXCEPT ![c.id].buf = disk[c.off]]
              /\ UNCHANGED <<disk, slots>>
           \/ /\ c.op = "read" /\ ~ok
              /\ UNCHANGED <<disk, slots, req>>
  BY DEF Complete
<1>2. /\ c \in Transfer /\ c.off \in Offsets /\ c.id \in Ids
      /\ c.slot \in Slots \cup {None} /\ ~c.done
  BY DEF TypeOK, Transfer, Complete
<1> DEFINE d == [c EXCEPT !.done = TRUE, !.ok = ok]
<1>3. /\ d \in Transfer
      /\ d.tag = c.tag /\ d.id = c.id /\ d.op = c.op /\ d.off = c.off /\ d.slot = c.slot
      /\ d.done /\ d.ok = ok
  BY <1>2 DEF Transfer
<1>4. /\ disk \in [Offsets -> Contents \ {Junk}] /\ slots \in [Slots -> Slot]
      /\ req \in [Ids -> Request \cup {None}]
      /\ disk[c.off] \in Contents \ {Junk}
      /\ \A i \in Outstanding : req[i] \in Request /\ i \in Ids
  BY <1>2 DEF TypeOK, Outstanding
<1>5. <<c.off, c.id>> \in Contents \ {Junk}
  BY <1>2, NoneAssumption DEF Contents
<1> HIDE DEF d
<1>10. /\ disk' \in [Offsets -> Contents \ {Junk}]
       /\ \A p \in Offsets : p # c.off \/ c.op = "read" => disk'[p] = disk[p]
       /\ slots' \in [Slots -> Slot]
       /\ \A s \in Slots :
            /\ slots'[s].offset = slots[s].offset /\ slots'[s].valid = slots[s].valid
            /\ slots'[s].pinned = slots[s].pinned
            /\ slots'[s].data =
                 IF c.op = "read" /\ ok /\ c.slot = s THEN disk[c.off] ELSE slots[s].data
       /\ req' \in [Ids -> Request \cup {None}]
       /\ \A i \in Ids : (req'[i] = None) = (req[i] = None)
       /\ \A i \in Outstanding :
            /\ req'[i].op = req[i].op /\ req'[i].off = req[i].off
            /\ req'[i].seen = IF c.op = "write" /\ req[i].off = c.off
                              THEN req[i].seen \cup {disk'[c.off]} ELSE req[i].seen
            /\ req'[i].buf = IF c.op = "read" /\ ok /\ c.slot = None /\ i = c.id
                             THEN disk[c.off] ELSE req[i].buf
  <2>6. CASE c.op = "write"
    <3>1. PICK v \in Contents \ {Junk} :
            /\ disk' = [disk EXCEPT ![c.off] = v]
            /\ req' = [i \in Ids |->
                 IF req[i] # None /\ req[i].off = c.off
                 THEN [req[i] EXCEPT !.seen = @ \cup {v}] ELSE req[i]]
            /\ UNCHANGED slots
      BY <1>1, <1>4, <1>5, <2>6
    <3>2. /\ disk' \in [Offsets -> Contents \ {Junk}] /\ disk'[c.off] = v
          /\ \A p \in Offsets : p # c.off => disk'[p] = disk[p]
      BY <1>2, <1>4, <3>1
    <3>3. ASSUME NEW i \in Outstanding
          PROVE  /\ req'[i] \in Request /\ req'[i].op = req[i].op /\ req'[i].off = req[i].off
                 /\ req'[i].buf = req[i].buf
                 /\ req'[i].seen = IF req[i].off = c.off THEN req[i].seen \cup {v} ELSE req[i].seen
      <4>1. req[i] \in Request /\ req[i] # None /\ i \in Ids
        BY <1>4 DEF Outstanding
      <4>2. req'[i] = IF req[i].off = c.off THEN [req[i] EXCEPT !.seen = @ \cup {v}] ELSE req[i]
        BY <3>1, <4>1
      <4>3. LET r == [req[i] EXCEPT !.seen = @ \cup {v}] IN
              r \in Request /\ r.op = req[i].op /\ r.off = req[i].off /\ r.buf = req[i].buf
              /\ r.seen = req[i].seen \cup {v}
        BY <4>1 DEF Request
      <4> QED
        BY <4>1, <4>2, <4>3
    <3>4. \A i \in Ids : i \notin Outstanding => req'[i] = None /\ req[i] = None
      BY <3>1 DEF Outstanding
    <3>5. \A i \in Outstanding : req'[i] # None /\ req[i] # None
      BY <3>3, NoneAssumption DEF Outstanding
    <3>6. req' \in [Ids -> Request \cup {None}]
      <4>1. \A i \in Ids : req'[i] \in Request \cup {None}
        BY <3>3, <3>4
      <4> QED
        BY <3>1, <4>1
    <3>7. \A i \in Ids : (req'[i] = None) = (req[i] = None)
      <4> SUFFICES ASSUME NEW i \in Ids PROVE (req'[i] = None) = (req[i] = None)
        OBVIOUS
      <4> QED
        BY <3>4, <3>5
    <3>8. slots' \in [Slots -> Slot] /\ slots' = slots
      BY <1>4, <3>1
    <3>9. c.op # "read"
      BY <2>6
    <3> QED
      BY <2>6, <3>2, <3>3, <3>6, <3>7, <3>8, <3>9
  <2>7. CASE c.op = "read" /\ ok /\ c.slot # None
    <3>1. /\ slots' = [slots EXCEPT ![c.slot].data = disk[c.off]] /\ c.slot \in Slots
          /\ UNCHANGED <<disk, req>>
      BY <1>1, <1>2, <2>7
    <3>2. slots[c.slot] \in Slot /\ slots'[c.slot] = [slots[c.slot] EXCEPT !.data = disk[c.off]]
      BY <1>4, <3>1
    <3>3. /\ slots'[c.slot] \in Slot /\ slots'[c.slot].offset = slots[c.slot].offset
          /\ slots'[c.slot].valid = slots[c.slot].valid /\ slots'[c.slot].pinned = slots[c.slot].pinned
          /\ slots'[c.slot].data = disk[c.off]
      BY <1>4, <3>2 DEF Slot
    <3>4. \A s \in Slots : s # c.slot => slots'[s] = slots[s]
      BY <1>4, <3>1
    <3>5. slots' \in [Slots -> Slot]
      BY <1>4, <3>1, <3>3, <3>4
    <3> QED
      BY <1>4, <2>7, <3>1, <3>3, <3>4, <3>5
  <2>8. CASE c.op = "read" /\ ok /\ c.slot = None
    <3>1. req' = [req EXCEPT ![c.id].buf = disk[c.off]] /\ UNCHANGED <<disk, slots>>
      BY <1>1, <2>8
    <3>2. /\ req[c.id] \in Request /\ req'[c.id] = [req[c.id] EXCEPT !.buf = disk[c.off]]
          /\ c.id \in Outstanding
      BY <1>2, <1>4, <2>8, <3>1
    <3>3. /\ req'[c.id] \in Request /\ req'[c.id].op = req[c.id].op /\ req'[c.id].off = req[c.id].off
          /\ req'[c.id].seen = req[c.id].seen /\ req'[c.id].buf = disk[c.off]
      BY <1>4, <3>2 DEF Request
    <3>4. \A i \in Ids : i # c.id => req'[i] = req[i]
      BY <1>4, <3>1
    <3>5. req'[c.id] # None /\ req[c.id] # None
      BY <1>2, <3>2, <3>3, NoneAssumption DEF Outstanding
    <3>6. req' \in [Ids -> Request \cup {None}]
      BY <1>4, <3>1, <3>3, <3>4
    <3>7. \A s \in Slots : c.slot # s
      BY <2>8, NoneAssumption
    <3> QED
      BY <1>4, <2>8, <3>1, <3>3, <3>4, <3>5, <3>6, <3>7
  <2>9. CASE c.op = "read" /\ ~ok
    <3>1. UNCHANGED <<disk, slots, req>>
      BY <1>1, <2>9
    <3> QED
      BY <1>4, <2>9, <3>1
  <2> QED
    BY <1>1, <2>6, <2>7, <2>8, <2>9
<1> QED
  <2>1. UNCHANGED <<lru, index, free, misses, nextIid, pending, innerPending, out, next,
                    overwritten, doubtful, clashed, strays, early, stale>>
    BY DEF Complete
  <2>2. inner' = (inner \ {c}) \cup {d}
    BY <1>1 DEF d
  <2>3. Ended(c, d, ok)
    BY <1>2, <1>3, <1>10, <2>2 DEF Ended
  <2> QED
    BY <1>3, <2>1, <2>3

\* A reap takes the first hits of the list, and q, n transfers the inner
\* backend has done.
Reaped(hits, n, q) ==
  /\ hits \in 0..Len(pending) /\ n \in Nat /\ n <= Cardinality(inner)
  /\ \A i \in 1..n : q[i] \in inner /\ q[i].done
  /\ \A i, j \in 1..n : q[i] = q[j] => i = j
  /\ pending' \in Seq(Completion) /\ Len(pending') = Len(pending) - hits
  /\ \A i \in 1..(Len(pending) - hits) : pending'[i] = pending[hits + i]
  /\ out' \in Seq(Completion) /\ Len(out') = hits + n
  /\ \A i \in 1..hits : out'[i] = pending[i]
  /\ \A i \in 1..n : /\ out'[hits + i].tag = q[i].tag /\ out'[hits + i].id = q[i].id
                     /\ out'[hits + i].ok = q[i].ok /\ ~out'[hits + i].hit
  /\ inner' \subseteq inner /\ \A i \in 1..n : q[i] \notin inner'
  /\ \A c \in inner : c \in inner' \/ \E i \in 1..n : c = q[i]
  /\ IsFiniteSet(inner') /\ Cardinality(inner') = Cardinality(inner) - n
  /\ innerPending' = innerPending - n

LEMMA Reaping ==
  ASSUME TypeOK, IsFiniteSet(inner), Reap
  PROVE  \E hits, n, q : Reaped(hits, n, q)
<1> DEFINE done == {c \in inner : c.done}
           hits == IF Len(pending) < ReapMax THEN Len(pending) ELSE ReapMax
           room == ReapMax - hits
           n == IF Cardinality(done) < room THEN Cardinality(done) ELSE room
           given(q) == [i \in 1..n |-> [tag |-> q[i].tag, id |-> q[i].id, ok |-> q[i].ok, hit |-> FALSE]]
<1>1. done \subseteq inner
  OBVIOUS
<1>2. /\ Cardinality(done) \in Nat /\ Cardinality(inner) \in Nat
      /\ Cardinality(done) <= Cardinality(inner)
  BY <1>1, FS_Subset, FS_CardinalityType
<1>3. pending \in Seq(Completion) /\ Len(pending) \in Nat
  BY LenProperties DEF TypeOK
<1>4. /\ hits \in 0..Len(pending) /\ hits \in Nat /\ n \in Nat /\ n <= Cardinality(inner)
      /\ room \in Nat
  <2> HIDE DEF done
  <2>1. hits \in 0..Len(pending) /\ hits \in Nat /\ hits <= ReapMax
    BY <1>3, Numbers
  <2> HIDE DEF hits
  <2>2. room \in Nat
    BY <2>1, Numbers
  <2> HIDE DEF room
  <2> QED
    BY <1>2, <2>1, <2>2
<1>5. PICK q \in Orders(done, n) :
        /\ out' = SubSeq(pending, 1, hits) \o given(q)
        /\ inner' = inner \ {q[i] : i \in 1..n}
  BY DEF Reap
<1>6. /\ q \in [1..n -> done] /\ IsInjective(q)
  BY <1>5 DEF Orders
<1>7. /\ pending' = SubSeq(pending, hits + 1, Len(pending))
      /\ innerPending' = innerPending - n
  BY DEF Reap, StillInside
<1>8. \A c \in done : c \in inner /\ c.done /\ c \in Transfer
  BY DEF TypeOK
<1> HIDE DEF done, hits, room, n
<1>9. /\ \A i \in 1..n : /\ q[i] \in inner /\ q[i].done
                         /\ q[i].tag \in Nat /\ q[i].id \in Ids /\ q[i].ok \in BOOLEAN
      /\ \A i, j \in 1..n : q[i] = q[j] => i = j
  BY <1>6, <1>8 DEF Transfer, IsInjective
<1>10. /\ given(q) \in Seq(Completion) /\ Len(given(q)) = n
       /\ \A i \in 1..n : given(q)[i] = [tag |-> q[i].tag, id |-> q[i].id, ok |-> q[i].ok, hit |-> FALSE]
  <2>1. given(q) \in [1..n -> Completion]
    BY <1>9 DEF Completion
  <2> QED
    BY <1>4, <2>1
<1>11. /\ SubSeq(pending, 1, hits) \in Seq(Completion) /\ Len(SubSeq(pending, 1, hits)) = hits
       /\ \A i \in 1..hits : SubSeq(pending, 1, hits)[i] = pending[i]
  <2>1. 1 \in Int /\ hits \in Int /\ \A i \in 1..hits : pending[i] \in Completion
    BY <1>3, <1>4
  <2>2. /\ SubSeq(pending, 1, hits) \in Seq(Completion)
        /\ Len(SubSeq(pending, 1, hits)) = IF 1 <= hits THEN hits - 1 + 1 ELSE 0
        /\ \A i \in 1..(hits - 1 + 1) : SubSeq(pending, 1, hits)[i] = pending[1 + i - 1]
    BY <2>1, SubSeqProperties
  <2> QED
    BY <1>4, <2>2
<1>12. /\ pending' \in Seq(Completion) /\ Len(pending') = Len(pending) - hits
       /\ \A i \in 1..(Len(pending) - hits) : pending'[i] = pending[hits + i]
  <2> DEFINE m == Len(pending)
  <2>1. hits + 1 \in Int /\ m \in Int /\ \A i \in (hits + 1)..m : pending[i] \in Completion
    BY <1>3, <1>4
  <2>2. /\ pending' \in Seq(Completion)
        /\ Len(pending') = IF hits + 1 <= m THEN m - (hits + 1) + 1 ELSE 0
        /\ \A i \in 1..(m - (hits + 1) + 1) : pending'[i] = pending[(hits + 1) + i - 1]
    BY <1>7, <2>1, SubSeqProperties
  <2>3. m \in Nat /\ hits \in 0..m
    BY <1>3, <1>4
  <2> HIDE DEF m
  <2>4. /\ (IF hits + 1 <= m THEN m - (hits + 1) + 1 ELSE 0) = m - hits
        /\ m - (hits + 1) + 1 = m - hits
        /\ \A i \in 1..(m - hits) : (hits + 1) + i - 1 = hits + i
    BY <2>3
  <2>5. pending' \in Seq(Completion) /\ Len(pending') = m - hits
    BY <2>2, <2>4
  <2>6. \A i \in 1..(m - hits) : pending'[i] = pending[hits + i]
    BY <2>2, <2>4
  <2> QED
    BY <2>5, <2>6 DEF m
<1>13. /\ out' \in Seq(Completion) /\ Len(out') = hits + n
       /\ \A i \in 1..hits : out'[i] = pending[i]
       /\ \A i \in 1..n : out'[hits + i] = given(q)[i]
  <2> DEFINE a == SubSeq(pending, 1, hits)
             b == given(q)
  <2>1. /\ a \in Seq(Completion) /\ b \in Seq(Completion) /\ Len(a) = hits /\ Len(b) = n
        /\ out' = a \o b /\ \A i \in 1..hits : a[i] = pending[i]
    BY <1>5, <1>10, <1>11
  <2> HIDE DEF a, b
  <2>2. /\ out' \in Seq(Completion) /\ Len(out') = hits + n
        /\ \A i \in 1..(hits + n) : out'[i] = IF i <= hits THEN a[i] ELSE b[i - hits]
    BY <2>1, ConcatProperties
  <2>3. \A i \in 1..hits : i \in 1..(hits + n) /\ i <= hits
    BY <1>4
  <2>4. \A i \in 1..n : hits + i \in 1..(hits + n) /\ ~(hits + i <= hits) /\ (hits + i) - hits = i
    BY <1>4
  <2>5. \A i \in 1..hits : out'[i] = pending[i]
    BY <2>1, <2>2, <2>3
  <2>6. \A i \in 1..n : out'[hits + i] = b[i]
    BY <2>2, <2>4
  <2> QED
    BY <2>2, <2>5, <2>6 DEF b
<1>14. \A i \in 1..n : /\ out'[hits + i].tag = q[i].tag /\ out'[hits + i].id = q[i].id
                       /\ out'[hits + i].ok = q[i].ok /\ ~out'[hits + i].hit
  BY <1>10, <1>13
<1> HIDE DEF given
<1>15. /\ inner' \subseteq inner /\ \A i \in 1..n : q[i] \notin inner'
       /\ \A c \in inner : c \in inner' \/ \E i \in 1..n : c = q[i]
       /\ IsFiniteSet(inner') /\ Cardinality(inner') = Cardinality(inner) - n
  <2> DEFINE R == {q[i] : i \in 1..n}
  <2>1. R \subseteq inner /\ inner \cap R = R
    BY <1>9
  <2>2. q \in Bijection(1..n, R)
    <3>1. q \in [1..n -> R] /\ \A r \in R : \E i \in 1..n : q[i] = r
      BY <1>6
    <3>2. q \in Injection(1..n, R)
      BY <1>6, <3>1 DEF Injection, IsInjective
    <3>3. q \in Surjection(1..n, R)
      BY <3>1 DEF Surjection
    <3> QED
      BY <3>2, <3>3 DEF Bijection
  <2>3. Cardinality(R) = n
    BY <1>4, <2>2, FS_CountingElements DEF ExistsBijection
  <2>4. IsFiniteSet(inner \ R) /\ Cardinality(inner \ R) = Cardinality(inner) - n
    BY <2>1, <2>3, FS_Difference
  <2> QED
    BY <1>5, <2>4
<1>16. Reaped(hits, n, q)
  BY <1>4, <1>7, <1>9, <1>12, <1>13, <1>14, <1>15 DEF Reaped
<1> QED
  BY <1>16

\* The oldest completion of the reap answers request i.
Taken(i) ==
  /\ i \in Outstanding /\ out # << >> /\ 1 \in DOMAIN out /\ Head(out) = out[1]
  /\ req' \in [Ids -> Request \cup {None}] /\ req'[i] = None
  /\ \A j \in Ids : j # i => req'[j] = req[j]
  /\ Outstanding' = Outstanding \ {i}
  /\ out' \in Seq(Completion) /\ Len(out') = Len(out) - 1
  /\ \A n \in 1..(Len(out) - 1) : out'[n] = out[n + 1] /\ n + 1 \in DOMAIN out /\ n + 1 # 1
  /\ early' \subseteq Ids /\ stale' \subseteq Ids
  /\ UNCHANGED <<pending, inner, innerPending, disk, next, overwritten, doubtful, clashed,
                 nextIid, strays>>

LEMMA Taking ==
  ASSUME TypeOK, NEW i \in Outstanding, out # << >>, NEW content,
         Answer(TagBase + i, Head(out).ok, content), out' = Tail(out),
         UNCHANGED <<pending, inner, innerPending, disk, next, overwritten, doubtful, clashed,
                     nextIid>>
  PROVE  /\ Taken(i)
         /\ early' = IF \E c \in inner : c.id = i THEN early \cup {i} ELSE early
         /\ stale' = IF /\ req[i].op = "read" /\ Head(out).ok
                        /\ content \notin req[i].seen
                     THEN stale \cup {i} ELSE stale
<1>1. i \in Ids /\ (TagBase + i) - TagBase = i
  BY Numbers DEF Outstanding
<1>2. /\ early' = IF \E c \in inner : c.id = i THEN early \cup {i} ELSE early
      /\ stale' = IF /\ req[i].op = "read" /\ Head(out).ok
                     /\ content \notin req[i].seen
                  THEN stale \cup {i} ELSE stale
      /\ req' = [req EXCEPT ![i] = None]
      /\ UNCHANGED strays
  BY <1>1 DEF Answer
<1>3. /\ out \in Seq(Completion) /\ Len(out) \in Nat \ {0} /\ DOMAIN out = 1..Len(out)
      /\ 1 \in DOMAIN out /\ Head(out) = out[1]
  BY EmptySeq, LenProperties DEF TypeOK
<1>4. /\ out' \in Seq(Completion) /\ Len(out') = Len(out) - 1
      /\ \A n \in 1..(Len(out) - 1) : out'[n] = out[n + 1] /\ n + 1 \in DOMAIN out /\ n + 1 # 1
  <2>1. /\ Tail(out) \in Seq(Completion) /\ Len(Tail(out)) = Len(out) - 1
        /\ \A n \in 1..Len(Tail(out)) : Tail(out)[n] = out[n + 1]
    BY <1>3, HeadTailProperties
  <2> QED
    BY <1>3, <2>1
<1>5. /\ req' \in [Ids -> Request \cup {None}] /\ req'[i] = None
      /\ \A j \in Ids : j # i => req'[j] = req[j]
  BY <1>1, <1>2 DEF TypeOK
<1>6. Outstanding' = Outstanding \ {i}
  BY <1>5 DEF Outstanding
<1>7. early' \subseteq Ids /\ stale' \subseteq Ids
  BY <1>1, <1>2 DEF TypeOK
<1> QED
  BY <1>2, <1>3, <1>4, <1>5, <1>6, <1>7 DEF Taken

\* The miss m is answered: its slot is kept with the block, or given back.
MissTaken(m) ==
  /\ Taken(m.id) /\ out[1].tag = m.iid /\ out[1].ok \in BOOLEAN
  /\ m \in Miss /\ misses' = misses \ {m}
  /\ slots' \in [Slots -> Slot]
  /\ \A s \in Slots : slots'[s].offset = slots[s].offset /\ slots'[s].data = slots[s].data
  /\ \A s \in Slots : s # m.slot => slots'[s] = slots[s]
  /\ ~slots'[m.slot].pinned
  /\ slots'[m.slot].valid = out[1].ok
  /\ out[1].ok => lru' = <<m.slot>> \o lru /\ UNCHANGED <<index, free>>
  /\ ~out[1].ok => /\ index' = [index EXCEPT ![slots[m.slot].offset] = None]
                   /\ free' = free \cup {m.slot}
                   /\ UNCHANGED lru

LEMMA TakingMiss ==
  ASSUME TypeOK, MissesMatch, HandOutMiss
  PROVE  \E m \in misses :
           /\ MissTaken(m)
           /\ early' = IF \E c \in inner : c.id = m.id THEN early \cup {m.id} ELSE early
           /\ stale' = IF /\ req[m.id].op = "read" /\ out[1].ok
                          /\ slots[m.slot].data \notin req[m.id].seen
                       THEN stale \cup {m.id} ELSE stale
<1>1. 1 \in DOMAIN out /\ Head(out) = out[1] /\ out # << >> /\ out[1].ok \in BOOLEAN
  <2>1. out \in Seq(Completion) /\ out # << >>
    BY DEF HandOutMiss, TypeOK
  <2>2. 1 \in DOMAIN out /\ 1 \in 1..Len(out) /\ Head(out) = out[1]
    BY <2>1, EmptySeq, LenProperties
  <2>3. out[1] \in Completion
    BY <2>1, <2>2, ElementOfSeq
  <2> QED
    BY <2>1, <2>2, <2>3 DEF Completion
<1>2. PICK m \in MissOf(out[1].tag) :
        /\ misses' = misses \ {m}
        /\ Answer(TagBase + m.id, Head(out).ok, slots[m.slot].data)
        /\ \/ /\ Head(out).ok
              /\ slots' = [slots EXCEPT ![m.slot].valid = TRUE, ![m.slot].pinned = FALSE]
              /\ lru' = <<m.slot>> \o lru
              /\ UNCHANGED <<index, free>>
           \/ /\ ~Head(out).ok
              /\ GiveBack(m.slot)
              /\ UNCHANGED lru
  BY <1>1 DEF HandOutMiss
<1>3. m \in misses /\ m.iid = out[1].tag /\ m \in Miss /\ m.slot \in Slots /\ m.id \in Ids
  BY <1>2 DEF MissOf, TypeOK, Miss
<1>4. m.id \in Outstanding
  BY <1>3 DEF MissesMatch, Outstanding
<1>5. out' = Tail(out) /\ UNCHANGED <<pending, inner, innerPending, disk, next, overwritten,
                                      doubtful, clashed, nextIid>>
  BY DEF HandOutMiss
<1>6. /\ Taken(m.id)
      /\ early' = IF \E c \in inner : c.id = m.id THEN early \cup {m.id} ELSE early
      /\ stale' = IF /\ req[m.id].op = "read" /\ out[1].ok
                     /\ slots[m.slot].data \notin req[m.id].seen
                  THEN stale \cup {m.id} ELSE stale
  BY <1>1, <1>2, <1>4, <1>5, Taking
<1>7. \E v \in BOOLEAN : v = out[1].ok
                         /\ slots' = [slots EXCEPT ![m.slot].valid = v, ![m.slot].pinned = FALSE]
  <2>1. CASE out[1].ok
    BY <1>1, <1>2, <2>1
  <2>2. CASE ~out[1].ok
    <3>1. slots' = [slots EXCEPT ![m.slot].valid = FALSE, ![m.slot].pinned = FALSE]
      BY <1>1, <1>2, <2>2 DEF GiveBack
    <3> QED
      BY <1>1, <2>2, <3>1
  <2> QED
    BY <2>1, <2>2
<1>8. PICK v \in BOOLEAN : v = out[1].ok
                         /\ slots' = [slots EXCEPT ![m.slot].valid = v, ![m.slot].pinned = FALSE]
  BY <1>7
<1>9. slots \in [Slots -> Slot] /\ slots[m.slot] \in Slot
  BY <1>3 DEF TypeOK
<1>10. /\ slots'[m.slot] = [slots[m.slot] EXCEPT !.valid = v, !.pinned = FALSE]
       /\ \A s \in Slots : s # m.slot => slots'[s] = slots[s]
  BY <1>3, <1>8, <1>9
<1>11. /\ slots'[m.slot] \in Slot
       /\ slots'[m.slot].offset = slots[m.slot].offset /\ slots'[m.slot].data = slots[m.slot].data
       /\ slots'[m.slot].valid = v /\ ~slots'[m.slot].pinned
  BY <1>9, <1>10 DEF Slot
<1>12. slots' \in [Slots -> Slot]
  BY <1>8, <1>9, <1>10, <1>11
<1>13. out[1].ok => lru' = <<m.slot>> \o lru /\ UNCHANGED <<index, free>>
  BY <1>1, <1>2
<1>14. ~out[1].ok => /\ index' = [index EXCEPT ![slots[m.slot].offset] = None]
                     /\ free' = free \cup {m.slot}
                     /\ UNCHANGED lru
  BY <1>1, <1>2 DEF GiveBack
<1>15. MissTaken(m)
  BY <1>1, <1>2, <1>3, <1>6, <1>8, <1>10, <1>11, <1>12, <1>13, <1>14 DEF MissTaken
<1> QED
  BY <1>3, <1>6, <1>15

\* A miss gets a slot that no other miss has.
LEMMA Acquiring ==
  ASSUME TypeOK, SlotsMatch, NEW s \in Slots, NEW o \in Offsets, Acquire(s, o)
  PROVE  /\ s \notin Pinned /\ s \in free \cup ToSet(lru)
         /\ slots' \in [Slots -> Slot]
         /\ slots'[s].offset = o /\ slots'[s].pinned /\ ~slots'[s].valid
         /\ \A r \in Slots : r # s => slots'[r] = slots[r]
         /\ \A r \in Slots : slots'[r].data = slots[r].data
         /\ lru' \in Seq(Slots) /\ IsInjective(lru') /\ ToSet(lru') = ToSet(lru) \ {s}
         /\ free' = free \ {s}
         /\ index' \in [Offsets -> Slots \cup {None}]
         /\ s \in free => index' = [index EXCEPT ![o] = s]
         /\ s \notin free => /\ free = {}
                             /\ index' = [p \in Offsets |->
                                  IF p = o THEN s ELSE IF p = slots[s].offset THEN None ELSE index[p]]
<1>1. slots' = [slots EXCEPT ![s].offset = o, ![s].pinned = TRUE, ![s].valid = FALSE]
  BY DEF Acquire
<1>2. slots \in [Slots -> Slot] /\ slots[s] \in Slot /\ index \in [Offsets -> Slots \cup {None}]
  BY DEF TypeOK
<1>3. /\ slots'[s] = [slots[s] EXCEPT !.offset = o, !.pinned = TRUE, !.valid = FALSE]
      /\ \A r \in Slots : r # s => slots'[r] = slots[r]
  BY <1>1, <1>2
<1>4. /\ slots'[s] \in Slot /\ slots'[s].offset = o /\ slots'[s].pinned /\ ~slots'[s].valid
      /\ slots'[s].data = slots[s].data
  BY <1>2, <1>3 DEF Slot
<1>5. slots' \in [Slots -> Slot]
  BY <1>1, <1>2, <1>3, <1>4
<1>6. lru \in Seq(Slots) /\ IsInjective(lru) /\ free \cap ToSet(lru) = {}
  BY DEF TypeOK, SlotsMatch
<1>7. CASE s \in free
  <2>1. free' = free \ {s} /\ index' = [index EXCEPT ![o] = s] /\ lru' = lru
    BY <1>7 DEF Acquire
  <2>2. s \notin Pinned /\ ToSet(lru) \ {s} = ToSet(lru)
    BY <1>6, <1>7 DEF SlotsMatch
  <2>3. index' \in [Offsets -> Slots \cup {None}]
    BY <1>2, <2>1
  <2> QED
    BY <1>3, <1>4, <1>5, <1>6, <1>7, <2>1, <2>2, <2>3
<1>8. CASE s \notin free
  <2>1. /\ free = {} /\ lru # << >> /\ s = Last(lru) /\ lru' = Front(lru) /\ free' = free
        /\ index' = [p \in Offsets |->
             IF p = o THEN s ELSE IF p = slots[s].offset THEN None ELSE index[p]]
    BY <1>8 DEF Acquire
  <2>2. /\ Last(lru) \in ToSet(lru) /\ lru' \in Seq(Slots)
        /\ IsInjective(lru') /\ ToSet(lru') = ToSet(lru) \ {s}
    BY <1>6, <2>1, LastRemoved
  <2>3. s \notin Pinned
    BY <2>1, <2>2 DEF SlotsMatch
  <2>4. index' \in [Offsets -> Slots \cup {None}]
    BY <1>2, <2>1
  <2> QED
    BY <1>3, <1>4, <1>5, <1>8, <2>1, <2>2, <2>3, <2>4
<1> QED
  BY <1>7, <1>8

\* A block written leaves the cache: its slot, unless a miss has it, is free.
Dropped(o, gone) ==
  /\ gone \subseteq ToSet(lru) /\ \A s \in ToSet(lru) : s \in gone <=> index[o] = s
  /\ lru' \in Seq(Slots) /\ IsInjective(lru') /\ ToSet(lru') = ToSet(lru) \ gone
  /\ free' = free \cup gone
  /\ slots' \in [Slots -> Slot]
  /\ \A s \in Slots :
       /\ slots'[s].offset = slots[s].offset /\ slots'[s].data = slots[s].data
       /\ slots'[s].pinned = slots[s].pinned
       /\ slots'[s].valid = (slots[s].valid /\ s \notin gone)
  /\ index' = [index EXCEPT ![o] = None] /\ index' \in [Offsets -> Slots \cup {None}]

LEMMA Dropping ==
  ASSUME TypeOK, SlotsMatch, IndexMatch, NEW o \in Offsets, Drop(o)
  PROVE  \E gone : Dropped(o, gone)
<1>1. /\ slots \in [Slots -> Slot] /\ lru \in Seq(Slots) /\ IsInjective(lru)
      /\ index \in [Offsets -> Slots \cup {None}] /\ None \notin Slots /\ ToSet(lru) \subseteq Slots
  BY NoneAssumption DEF TypeOK, SlotsMatch
<1>2. index' = [index EXCEPT ![o] = None] /\ index' \in [Offsets -> Slots \cup {None}]
  BY <1>1 DEF Drop
<1>3. \A s \in Slots : slots[s].valid \in BOOLEAN
  BY <1>1 DEF Slot
<1>4. CASE index[o] # None /\ ~slots[index[o]].pinned
  <2> DEFINE s == index[o]
  <2>1. s \in Slots /\ s \notin free
    BY <1>1, <1>4 DEF IndexMatch
  <2>2. s \in ToSet(lru)
    BY <1>4, <2>1 DEF SlotsMatch
  <2>3. /\ lru' = RemoveFirst(lru, s) /\ slots' = [slots EXCEPT ![s].valid = FALSE]
        /\ free' = free \cup {s}
    BY <1>4 DEF Drop
  <2> HIDE DEF s
  <2>4. lru' \in Seq(Slots) /\ IsInjective(lru') /\ ToSet(lru') = ToSet(lru) \ {s}
    BY <1>1, <2>3, FirstRemoved
  <2>5. /\ slots'[s] = [slots[s] EXCEPT !.valid = FALSE] /\ slots[s] \in Slot
        /\ \A r \in Slots : r # s => slots'[r] = slots[r]
    BY <1>1, <2>1, <2>3
  <2>6. /\ slots'[s] \in Slot /\ slots'[s].offset = slots[s].offset
        /\ slots'[s].data = slots[s].data /\ slots'[s].pinned = slots[s].pinned
        /\ slots'[s].valid = FALSE
    BY <2>5 DEF Slot
  <2>7. slots' \in [Slots -> Slot]
    BY <1>1, <2>3, <2>5, <2>6
  <2>8. \A r \in Slots :
          /\ slots'[r].offset = slots[r].offset /\ slots'[r].data = slots[r].data
          /\ slots'[r].pinned = slots[r].pinned
          /\ slots'[r].valid = (slots[r].valid /\ r \notin {s})
    BY <1>3, <2>5, <2>6
  <2>9. Dropped(o, {s})
    BY <1>2, <2>2, <2>3, <2>4, <2>7, <2>8 DEF Dropped, s
  <2> QED
    BY <2>9
<1>5. CASE ~(index[o] # None /\ ~slots[index[o]].pinned)
  <2>1. UNCHANGED <<lru, slots, free>>
    BY <1>5 DEF Drop
  <2>2. \A s \in ToSet(lru) : index[o] # s
    <3>1. \A s \in ToSet(lru) : s \in Slots /\ ~slots[s].pinned
      BY <1>1 DEF SlotsMatch
    <3> QED
      BY <1>1, <1>5, <3>1
  <2>3. \A s \in Slots : slots'[s].valid = (slots[s].valid /\ s \notin {})
    BY <1>3, <2>1
  <2>4. Dropped(o, {})
    BY <1>1, <1>2, <2>1, <2>2, <2>3 DEF Dropped
  <2> QED
    BY <2>4
<1> QED
  BY <1>4, <1>5

-----------------------------------------------------------------------------
(* A request is submitted: the invariant's parts *)

LEMMA SubmitMisses ==
  ASSUME TypeOK, MissesMatch, SlotsMatch, NEW k \in Kinds, NEW o \in Offsets, Submit(k, o)
  PROVE  MissesMatch'
<1>1. /\ next \in Ids /\ next \notin Outstanding /\ next' = next + 1
      /\ Outstanding' = Outstanding \cup {next}
      /\ req'[next] # None /\ req'[next].op = k.op /\ req'[next].off = o
      /\ \A i \in Ids : i # next => req'[i] = req[i]
  BY Submitting
<1>2. /\ next \in Nat /\ nextIid \in Nat /\ nextIid <= next + 1
      /\ \A i \in Outstanding : i \in Nat /\ i < next
      /\ \A m \in misses : m.iid \in Nat /\ m.iid < nextIid /\ m.slot \in Slots /\ m.id \in Ids
      /\ \A m \in misses : m.id \in Outstanding /\ req'[m.id] = req[m.id] /\ m.slot \in Pinned
  <2>1. \A m \in misses : m.iid \in Nat /\ m.slot \in Slots /\ m.id \in Ids
    BY DEF TypeOK, Miss
  <2>2. \A m \in misses : m.id \in Outstanding /\ m.slot \in Pinned
    BY <2>1 DEF MissesMatch, Outstanding, Pinned
  <2> QED
    BY <1>1, <2>1, <2>2, Numbers DEF TypeOK, MissesMatch, Outstanding
<1>3. \A i \in Outstanding' : i < next'
  BY <1>1, <1>2, Numbers
<1>4. CASE misses' = misses /\ nextIid' = nextIid
           /\ \A s \in Slots : slots'[s].offset = slots[s].offset
  <2>1. nextIid' <= next' + 1
    BY <1>1, <1>2, <1>4
  <2>2. \A m \in misses' : /\ m.iid < nextIid'
                           /\ req'[m.id] # None /\ req'[m.id].op = "read"
                           /\ req'[m.id].off = slots'[m.slot].offset
    BY <1>2, <1>4 DEF MissesMatch
  <2>3. \A m, n \in misses' : m.iid = n.iid \/ m.id = n.id \/ m.slot = n.slot => m = n
    BY <1>4 DEF MissesMatch
  <2> QED
    BY <1>3, <2>1, <2>2, <2>3 DEF MissesMatch
<1>5. ASSUME NEW s \in Slots, ReadMiss(k, o, s)
      PROVE  MissesMatch'
  <2> DEFINE m == [iid |-> nextIid, slot |-> s, id |-> next]
  <2>1. /\ m.iid = nextIid /\ m.slot = s /\ m.id = next /\ misses' = misses \cup {m}
        /\ nextIid' = nextIid + 1 /\ Acquire(s, o) /\ k.op = "read"
    BY <1>5 DEF ReadMiss, NextIid
  <2> HIDE DEF m
  <2>2. /\ s \notin Pinned /\ slots'[s].offset = o
        /\ \A r \in Slots : r # s => slots'[r] = slots[r]
    BY <2>1, Acquiring
  <2>3. \A n \in misses : /\ n.iid < nextIid' /\ n.slot # s
                          /\ req'[n.id] # None /\ req'[n.id].op = "read"
                          /\ req'[n.id].off = slots'[n.slot].offset
    BY <1>2, <2>1, <2>2 DEF MissesMatch
  <2>4. /\ m.iid < nextIid' /\ req'[m.id] # None /\ req'[m.id].op = "read"
        /\ req'[m.id].off = slots'[m.slot].offset
    BY <1>1, <1>2, <2>1, <2>2
  <2>5. \A n \in misses : n.iid # m.iid /\ n.id # m.id /\ n.slot # m.slot
    BY <1>1, <1>2, <2>1, <2>3
  <2>6. nextIid' <= next' + 1
    BY <1>1, <1>2, <2>1
  <2>7. \A n \in misses' : /\ n.iid < nextIid'
                           /\ req'[n.id] # None /\ req'[n.id].op = "read"
                           /\ req'[n.id].off = slots'[n.slot].offset
    BY <2>1, <2>3, <2>4
  <2>8. \A n, l \in misses' : n.iid = l.iid \/ n.id = l.id \/ n.slot = l.slot => n = l
    BY <2>1, <2>5 DEF MissesMatch
  <2> QED
    BY <1>3, <2>6, <2>7, <2>8 DEF MissesMatch
<1>6. Write(k, o) => misses' = misses /\ nextIid' = nextIid
                     /\ \A s \in Slots : slots'[s].offset = slots[s].offset
  <2> SUFFICES ASSUME Write(k, o)
               PROVE  \A s \in Slots : slots'[s].offset = slots[s].offset
    BY DEF Write
  <2>1. CASE slots' = [slots EXCEPT ![index[o]].valid = FALSE]
    BY <2>1 DEF TypeOK, Slot
  <2>2. slots' = slots \/ slots' = [slots EXCEPT ![index[o]].valid = FALSE]
    BY DEF Write, Drop
  <2> QED
    BY <2>1, <2>2
<1>7. PassThrough(k, o) \/ Hit(k, o) \/ ReadAgain(k, o) => misses' = misses /\ nextIid' = nextIid
                     /\ slots' = slots
  BY DEF PassThrough, Hit, ReadAgain, pool
<1> QED
  BY <1>4, <1>5, <1>6, <1>7 DEF Submit

\* A cached block's slot is in the list.
LEMMA Caching ==
  ASSUME TypeOK, SlotsMatch, IndexMatch, NEW o \in Offsets, Cached(o)
  PROVE  /\ index[o] \in Slots /\ index[o] \in ToSet(lru) /\ index[o] \notin free
         /\ slots[index[o]].offset = o
<1>1. index[o] \in Slots /\ slots[index[o]].valid
  BY DEF Cached, TypeOK
<1>2. index[o] \in ToSet(lru)
  BY <1>1 DEF SlotsMatch
<1> QED
  BY <1>1, <1>2 DEF IndexMatch, Cached

LEMMA SubmitSlots ==
  ASSUME TypeOK, MissesMatch, SlotsMatch, IndexMatch, NEW k \in Kinds, NEW o \in Offsets, Submit(k, o)
  PROVE  SlotsMatch'
<1>1. /\ lru \in Seq(Slots) /\ slots \in [Slots -> Slot] /\ IsInjective(lru)
      /\ free \cap ToSet(lru) = {} /\ free \cap Pinned = {} /\ Pinned \cap ToSet(lru) = {}
      /\ free \cup ToSet(lru) \cup Pinned = Slots
      /\ \A s \in Slots : /\ slots[s].valid = (s \in ToSet(lru))
                          /\ slots[s].pinned = (s \in Pinned)
  BY DEF TypeOK, SlotsMatch
<1>2. CASE PassThrough(k, o) \/ ReadAgain(k, o)
  <2>1. UNCHANGED <<slots, lru, free, misses>>
    BY <1>2 DEF PassThrough, ReadAgain, pool
  <2> QED
    BY <1>1, <2>1 DEF SlotsMatch, Pinned
<1>3. CASE Hit(k, o)
  <2> DEFINE s == index[o]
  <2>1. s \in Slots /\ s \in ToSet(lru)
    BY <1>3, Caching DEF Hit
  <2>2. lru' = <<s>> \o RemoveFirst(lru, s) /\ UNCHANGED <<slots, free, misses>>
    BY <1>3 DEF Hit
  <2> HIDE DEF s
  <2>3. /\ RemoveFirst(lru, s) \in Seq(Slots) /\ IsInjective(RemoveFirst(lru, s))
        /\ ToSet(RemoveFirst(lru, s)) = ToSet(lru) \ {s}
    BY <1>1, FirstRemoved
  <2>4. IsInjective(lru') /\ ToSet(lru') = ToSet(lru)
    <3> DEFINE q == RemoveFirst(lru, s)
    <3>1. /\ q \in Seq(Slots) /\ IsInjective(q) /\ ToSet(q) = ToSet(lru) \ {s}
          /\ lru' = <<s>> \o q
      BY <2>2, <2>3
    <3> HIDE DEF q
    <3>2. s \notin ToSet(q)
      BY <3>1
    <3>3. IsInjective(lru') /\ ToSet(lru') = ToSet(q) \cup {s}
      BY <2>1, <3>1, <3>2, FrontPushed
    <3> QED
      BY <2>1, <3>1, <3>3
  <2>5. Pinned' = Pinned
    BY <2>2 DEF Pinned
  <2> QED
    BY <1>1, <2>2, <2>4, <2>5 DEF SlotsMatch
<1>4. CASE Write(k, o)
  <2>1. PICK gone : Dropped(o, gone)
    BY <1>4, Dropping DEF Write
  <2>2. misses' = misses
    BY <1>4 DEF Write
  <2>3. Pinned' = Pinned
    BY <2>2 DEF Pinned
  <2>4. /\ gone \subseteq ToSet(lru) /\ IsInjective(lru') /\ ToSet(lru') = ToSet(lru) \ gone
        /\ free' = free \cup gone
        /\ \A s \in Slots : /\ slots'[s].pinned = slots[s].pinned
                            /\ slots'[s].valid = (slots[s].valid /\ s \notin gone)
    BY <2>1 DEF Dropped
  <2>5. \A s \in Slots : /\ slots'[s].valid = (s \in ToSet(lru'))
                         /\ slots'[s].pinned = (s \in Pinned)
    <3> SUFFICES ASSUME NEW s \in Slots
                 PROVE  /\ slots'[s].valid = (s \in ToSet(lru'))
                        /\ slots'[s].pinned = (s \in Pinned)
      OBVIOUS
    <3>1. /\ slots'[s].pinned = (s \in Pinned) /\ slots[s].valid = (s \in ToSet(lru))
          /\ slots'[s].valid = (slots[s].valid /\ s \notin gone)
      BY <1>1, <2>4
    <3>2. (s \in ToSet(lru')) = (s \in ToSet(lru) /\ s \notin gone)
      BY <2>4
    <3> QED
      BY <3>1, <3>2
  <2>6. /\ free' \cap ToSet(lru') = {} /\ free' \cap Pinned = {} /\ Pinned \cap ToSet(lru') = {}
        /\ free' \cup ToSet(lru') \cup Pinned = Slots
    BY <1>1, <2>4
  <2> QED
    BY <2>3, <2>4, <2>5, <2>6 DEF SlotsMatch
<1>5. ASSUME NEW s \in Slots, ReadMiss(k, o, s)
      PROVE  SlotsMatch'
  <2>1. /\ s \notin Pinned /\ s \in free \cup ToSet(lru)
        /\ slots'[s].pinned = TRUE /\ slots'[s].valid = FALSE
        /\ \A r \in Slots : r # s => slots'[r] = slots[r]
        /\ IsInjective(lru') /\ ToSet(lru') = ToSet(lru) \ {s} /\ free' = free \ {s}
    <3>1. Acquire(s, o)
      BY <1>5 DEF ReadMiss
    <3>2. slots' \in [Slots -> Slot]
      BY <3>1, Acquiring
    <3>3. slots'[s].pinned \in BOOLEAN /\ slots'[s].valid \in BOOLEAN
      BY <3>2 DEF Slot
    <3> QED
      BY <3>1, <3>3, Acquiring
  <2>2. Pinned' = Pinned \cup {s}
    <3> DEFINE m == [iid |-> nextIid, slot |-> s, id |-> next]
    <3>1. misses' = misses \cup {m} /\ m.slot = s
      BY <1>5 DEF ReadMiss
    <3> HIDE DEF m
    <3> QED
      BY <3>1 DEF Pinned
  <2>3. \A r \in Slots : /\ slots'[r].valid = (r \in ToSet(lru'))
                         /\ slots'[r].pinned = (r \in Pinned')
    <3> SUFFICES ASSUME NEW r \in Slots
                 PROVE  /\ slots'[r].valid = (r \in ToSet(lru'))
                        /\ slots'[r].pinned = (r \in Pinned')
      OBVIOUS
    <3>1. CASE r = s
      <4>1. (r \in ToSet(lru')) = FALSE /\ (r \in Pinned') = TRUE
        BY <2>1, <2>2, <3>1
      <4>2. slots'[r].pinned = TRUE /\ slots'[r].valid = FALSE
        BY <2>1, <3>1
      <4> QED
        BY <4>1, <4>2
    <3>2. CASE r # s
      <4>1. (r \in ToSet(lru')) = (r \in ToSet(lru)) /\ (r \in Pinned') = (r \in Pinned)
        BY <2>1, <2>2, <3>2
      <4>2. slots'[r] = slots[r]
        BY <2>1, <3>2
      <4> QED
        BY <1>1, <4>1, <4>2
    <3> QED
      BY <3>1, <3>2
  <2>4. /\ free' \cap ToSet(lru') = {} /\ free' \cap Pinned' = {} /\ Pinned' \cap ToSet(lru') = {}
        /\ free' \cup ToSet(lru') \cup Pinned' = Slots
    BY <1>1, <2>1, <2>2
  <2> QED
    BY <2>1, <2>3, <2>4 DEF SlotsMatch
<1> QED
  BY <1>2, <1>3, <1>4, <1>5 DEF Submit

LEMMA SubmitIndex ==
  ASSUME TypeOK, MissesMatch, SlotsMatch, IndexMatch,
         NEW k \in Kinds, NEW o \in Offsets, Submit(k, o)
  PROVE  IndexMatch'
<1>1. /\ index \in [Offsets -> Slots \cup {None}] /\ None \notin Slots \cup Offsets
      /\ \A s \in Slots : s \notin free =>
           /\ slots[s].offset \in Offsets
           /\ slots[s].offset \notin overwritten => index[slots[s].offset] = s
      /\ \A p \in Offsets : index[p] # None =>
           index[p] \in Slots /\ index[p] \notin free /\ slots[index[p]].offset = p
  BY NoneAssumption DEF TypeOK, IndexMatch
<1>2. overwritten \subseteq overwritten'
  BY Submitting
<1>3. CASE PassThrough(k, o) \/ ReadAgain(k, o) \/ Hit(k, o)
  <2>1. UNCHANGED <<slots, index, free>>
    BY <1>3 DEF PassThrough, ReadAgain, Hit, pool
  <2> QED
    BY <1>1, <1>2, <2>1 DEF IndexMatch
<1>4. CASE Write(k, o)
  <2>1. PICK gone : Dropped(o, gone)
    BY <1>4, Dropping DEF Write
  <2>2. /\ gone \subseteq ToSet(lru) /\ \A s \in ToSet(lru) : s \in gone <=> index[o] = s
        /\ free' = free \cup gone
        /\ \A s \in Slots : slots'[s].offset = slots[s].offset
        /\ index' = [index EXCEPT ![o] = None]
    BY <2>1 DEF Dropped
  <2>3. index'[o] = None /\ \A p \in Offsets : p # o => index'[p] = index[p]
    BY <1>1, <2>2
  <2>4. ASSUME NEW s \in Slots, s \notin free'
        PROVE  /\ slots'[s].offset \in Offsets
               /\ slots'[s].offset \notin overwritten' => index'[slots'[s].offset] = s
    <3>1. s \notin free /\ s \notin gone /\ slots'[s].offset = slots[s].offset
      BY <2>2, <2>4
    <3>2. CASE slots[s].offset # o
      BY <1>1, <1>2, <2>3, <3>1, <3>2
    <3>3. CASE slots[s].offset = o /\ s \in ToSet(lru)
      <4>1. o \in overwritten
        BY <1>1, <2>2, <3>1, <3>3
      <4> QED
        BY <1>2, <3>1, <3>3, <4>1
    <3>4. CASE slots[s].offset = o /\ s \in Pinned
      <4>1. slots[s].pinned
        BY <3>4 DEF SlotsMatch
      <4>2. o \notin overwritten => index[o] = s
        BY <1>1, <3>1, <3>4
      <4>3. o \in overwritten'
        BY <1>1, <1>2, <1>4, <4>1, <4>2 DEF Write
      <4> QED
        BY <3>1, <3>4, <4>3
    <3>5. s \in ToSet(lru) \/ s \in Pinned
      BY <3>1 DEF SlotsMatch
    <3> QED
      BY <3>2, <3>3, <3>4, <3>5
  <2>5. ASSUME NEW p \in Offsets, index'[p] # None
        PROVE  index'[p] \notin free' /\ slots'[index'[p]].offset = p
    <3>1. p # o /\ index'[p] = index[p]
      BY <2>3, <2>5
    <3>2. index[p] \in Slots /\ index[p] \notin free /\ slots[index[p]].offset = p
      BY <1>1, <2>5, <3>1
    <3>3. index[p] \notin gone
      <4> SUFFICES ASSUME index[p] \in gone PROVE FALSE
        OBVIOUS
      <4>1. index[o] = index[p]
        BY <2>2
      <4>2. slots[index[o]].offset = o
        BY <1>1, <3>2, <4>1
      <4> QED
        BY <3>1, <3>2, <4>1, <4>2
    <3> QED
      BY <2>2, <3>1, <3>2, <3>3
  <2> QED
    BY <2>4, <2>5 DEF IndexMatch
<1>5. ASSUME NEW s \in Slots, ReadMiss(k, o, s)
      PROVE  IndexMatch'
  <2>0. Acquire(s, o) /\ index[o] = None
    BY <1>5 DEF ReadMiss
  <2>1. /\ slots'[s].offset = o
        /\ \A r \in Slots : r # s => slots'[r] = slots[r]
        /\ free' = free \ {s}
    BY <2>0, Acquiring
  <2>2. /\ index'[o] = s
        /\ \A p \in Offsets : p # o => index'[p] = index[p] \/ index'[p] = None
        /\ \A p \in Offsets : p # o /\ (s \in free \/ p # slots[s].offset) => index'[p] = index[p]
        /\ \A p \in Offsets : p # o /\ s \notin free /\ p = slots[s].offset => index'[p] = None
    <3>1. CASE s \in free
      <4>1. index' = [index EXCEPT ![o] = s]
        BY <2>0, <3>1, Acquiring
      <4> QED
        BY <1>1, <3>1, <4>1
    <3>2. CASE s \notin free
      <4>1. index' = [p \in Offsets |->
                        IF p = o THEN s ELSE IF p = slots[s].offset THEN None ELSE index[p]]
        BY <2>0, <3>2, Acquiring
      <4> QED
        BY <3>2, <4>1
    <3> QED
      BY <3>1, <3>2
  <2>3. ASSUME NEW r \in Slots, r \notin free'
        PROVE  /\ slots'[r].offset \in Offsets
               /\ slots'[r].offset \notin overwritten' => index'[slots'[r].offset] = r
    <3>1. CASE r = s
      BY <2>1, <2>2, <3>1
    <3>2. CASE r # s
      <4>1. r \notin free /\ slots'[r] = slots[r] /\ slots[r].offset \in Offsets
        BY <1>1, <2>1, <2>3, <3>2
      <4>2. ASSUME slots[r].offset \notin overwritten PROVE index'[slots[r].offset] = r
        <5>1. index[slots[r].offset] = r /\ r # None
          BY <1>1, <4>1, <4>2
        <5>2. slots[r].offset # o
          BY <2>0, <5>1
        <5>3. s \in free \/ slots[r].offset # slots[s].offset
          <6> SUFFICES ASSUME s \notin free, slots[r].offset = slots[s].offset PROVE FALSE
            OBVIOUS
          <6>1. index[slots[s].offset] = s
            BY <1>1, <4>2
          <6> QED
            BY <3>2, <5>1, <6>1
        <5> QED
          BY <2>2, <4>1, <5>1, <5>2, <5>3
      <4> QED
        BY <1>2, <4>1, <4>2
    <3> QED
      BY <3>1, <3>2
  <2>4. ASSUME NEW p \in Offsets, index'[p] # None
        PROVE  index'[p] \notin free' /\ slots'[index'[p]].offset = p
    <3>1. CASE p = o
      BY <2>1, <2>2, <3>1
    <3>2. CASE p # o
      <4>1. index'[p] = index[p] /\ index[p] \in Slots /\ index[p] \notin free
            /\ slots[index[p]].offset = p
        BY <1>1, <2>2, <2>4, <3>2
      <4>2. index[p] # s
        BY <2>2, <2>4, <3>2, <4>1
      <4> QED
        BY <2>1, <4>1, <4>2
    <3> QED
      BY <3>1, <3>2
  <2> QED
    BY <2>3, <2>4 DEF IndexMatch
<1> QED
  BY <1>3, <1>4, <1>5 DEF Submit

\* No submission changes what a slot holds, nor the block of a slot lent out;
\* an index entry is kept, lost or, the new miss's, of a slot not valid yet.
LEMMA SubmitKeepsData ==
  ASSUME TypeOK, SlotsMatch, IndexMatch, NEW k \in Kinds, NEW o \in Offsets, Submit(k, o)
  PROVE  /\ \A s \in Slots : /\ slots'[s].data = slots[s].data
                             /\ slots'[s].valid => slots[s].valid
                             /\ s \in Pinned => slots'[s].offset = slots[s].offset
         /\ \A p \in Offsets :
              \/ index'[p] = None
              \/ index'[p] = index[p] /\ (p \notin doubtful' => p \notin doubtful)
              \/ /\ p = o /\ ~slots'[index'[p]].valid /\ index'[p] \notin Pinned
                 /\ k.op = "read" /\ (o \notin doubtful' => ~WriteInAir(o))
         /\ k.op = "write" => index'[o] = None \/ o \in doubtful'
<1>1. index \in [Offsets -> Slots \cup {None}] /\ None \notin Slots
  BY NoneAssumption DEF TypeOK
<1>2. CASE PassThrough(k, o)
  <2>1. /\ UNCHANGED <<slots, index>>
        /\ doubtful' = IF k.op = "write" THEN doubtful \cup {o} ELSE doubtful
    BY <1>2 DEF PassThrough, pool
  <2> QED
    BY <2>1
<1>3. CASE ReadAgain(k, o) \/ Hit(k, o)
  <2>1. UNCHANGED <<slots, index, doubtful>> /\ k.op = "read"
    BY <1>3 DEF ReadAgain, Hit, pool
  <2> QED
    BY <2>1
<1>4. CASE Write(k, o)
  <2>1. PICK gone : Dropped(o, gone)
    BY <1>4, Dropping DEF Write
  <2>2. doubtful' = doubtful
    BY <1>4 DEF Write
  <2>3. \A s \in Slots : /\ slots'[s].data = slots[s].data /\ slots'[s].offset = slots[s].offset
                         /\ slots'[s].valid = (slots[s].valid /\ s \notin gone)
    BY <2>1 DEF Dropped
  <2>4. index'[o] = None /\ \A p \in Offsets : p # o => index'[p] = index[p]
    BY <1>1, <2>1 DEF Dropped
  <2> QED
    BY <2>2, <2>3, <2>4
<1>5. ASSUME NEW s \in Slots, ReadMiss(k, o, s)
      PROVE  /\ \A r \in Slots : /\ slots'[r].data = slots[r].data
                                 /\ slots'[r].valid => slots[r].valid
                                 /\ r \in Pinned => slots'[r].offset = slots[r].offset
             /\ \A p \in Offsets :
                  \/ index'[p] = None
                  \/ index'[p] = index[p] /\ (p \notin doubtful' => p \notin doubtful)
                  \/ /\ p = o /\ ~slots'[index'[p]].valid /\ index'[p] \notin Pinned
                     /\ k.op = "read" /\ (o \notin doubtful' => ~WriteInAir(o))
             /\ k.op = "read"
  <2>1. /\ Acquire(s, o) /\ k.op = "read"
        /\ doubtful' = IF WriteInAir(o) THEN doubtful \cup {o} ELSE doubtful \ {o}
    BY <1>5 DEF ReadMiss
  <2>2. /\ s \notin Pinned /\ ~slots'[s].valid
        /\ \A r \in Slots : r # s => slots'[r] = slots[r]
        /\ \A r \in Slots : slots'[r].data = slots[r].data
        /\ s \in free => index' = [index EXCEPT ![o] = s]
        /\ s \notin free => index' = [p \in Offsets |->
             IF p = o THEN s ELSE IF p = slots[s].offset THEN None ELSE index[p]]
    BY <2>1, Acquiring
  <2>3. index'[o] = s /\ \A p \in Offsets : p # o => index'[p] = None \/ index'[p] = index[p]
    BY <1>1, <2>2
  <2>4. \A p \in Offsets : p # o /\ p \notin doubtful' => p \notin doubtful
    BY <2>1
  <2>5. o \notin doubtful' => ~WriteInAir(o)
    BY <2>1
  <2> HIDE DEF WriteInAir
  <2>6. \A r \in Slots : /\ slots'[r].data = slots[r].data
                         /\ slots'[r].valid => slots[r].valid
                         /\ r \in Pinned => slots'[r].offset = slots[r].offset
    BY <2>2
  <2> QED
    BY <2>1, <2>2, <2>3, <2>4, <2>5, <2>6
<1>6. k.op = "read" => k.op # "write"
  OBVIOUS
<1> QED
  BY <1>2, <1>3, <1>4, <1>5, <1>6 DEF Submit

\* A request that is no hit goes to the inner backend, under the caller's tag
\* or, a miss, under an id of its own.
Sent(k, o, d) ==
  /\ d \in Transfer /\ d.id = next /\ d.op = k.op /\ d.off = o /\ ~d.done
  /\ inner' = inner \cup {d} /\ innerPending' = innerPending + 1 /\ pending' = pending
  /\ clashed' = (clashed \/ \E c \in inner : c.tag = d.tag /\ (c.slot = None) # (d.slot = None))
  /\ \/ d.slot = None /\ d.tag = TagBase + next /\ misses' = misses /\ nextIid' = nextIid
     \/ /\ d.slot # None /\ d.tag = nextIid /\ k.op = "read"
        /\ \E m \in Miss : /\ m.iid = nextIid /\ m.id = next /\ m.slot = d.slot
                           /\ misses' = misses \cup {m}

LEMMA Sending ==
  ASSUME TypeOK, MissesMatch, NEW k \in Kinds, NEW o \in Offsets, Submit(k, o), ~Hit(k, o)
  PROVE  \E d : Sent(k, o, d)
<1>1. next \in Ids /\ next \in Nat /\ k.op \in {"read", "write"} /\ nextIid \in Nat \ {0}
  BY Submitting, KindsAssumption, Numbers DEF TypeOK
<1> DEFINE sent(t, s) == [tag |-> t, id |-> next, op |-> k.op, off |-> o, slot |-> s,
                          done |-> FALSE, ok |-> FALSE]
<1>2. \A t \in Nat, s \in Slots \cup {None} :
        /\ sent(t, s) \in Transfer /\ sent(t, s).tag = t /\ sent(t, s).id = next
        /\ sent(t, s).op = k.op /\ sent(t, s).off = o
        /\ sent(t, s).slot = s /\ ~sent(t, s).done
  BY <1>1 DEF Transfer
<1>3. CASE PassThrough(k, o) \/ ReadAgain(k, o) \/ Write(k, o)
  <2>1. /\ Forward(TagBase + next, k, o, None)
        /\ pending' = pending /\ misses' = misses /\ nextIid' = nextIid
    BY <1>3 DEF PassThrough, ReadAgain, Write, pool
  <2> DEFINE d == sent(TagBase + next, None)
  <2>2. TagBase + next \in Nat
    BY <1>1, Numbers
  <2>3. /\ d \in Transfer /\ d.tag = TagBase + next /\ d.id = next /\ d.op = k.op /\ d.off = o
        /\ d.slot = None /\ ~d.done
    BY <1>2, <2>2
  <2>4. inner' = inner \cup {d} /\ innerPending' = innerPending + 1
    BY <2>1 DEF Forward
  <2>5. clashed' = (clashed \/ \E c \in inner : c.tag = d.tag /\ (c.slot = None) # (d.slot = None))
    BY <2>1, <2>3 DEF Forward
  <2> HIDE DEF d
  <2> QED
    BY <2>1, <2>3, <2>4, <2>5 DEF Sent
<1>4. ASSUME NEW s \in Slots, ReadMiss(k, o, s)
      PROVE  \E d : Sent(k, o, d)
  <2>1. /\ Forward(nextIid, k, o, s) /\ pending' = pending /\ k.op = "read"
        /\ misses' = misses \cup {[iid |-> nextIid, slot |-> s, id |-> next]}
    BY <1>4 DEF ReadMiss
  <2> DEFINE d == sent(nextIid, s)
             m == [iid |-> nextIid, slot |-> s, id |-> next]
  <2>2. /\ m \in Miss /\ m.iid = nextIid /\ m.id = next /\ m.slot = s
        /\ misses' = misses \cup {m}
    BY <1>1, <2>1 DEF Miss
  <2>3. /\ d \in Transfer /\ d.tag = nextIid /\ d.id = next /\ d.op = k.op /\ d.off = o
        /\ d.slot = s /\ s # None /\ ~d.done
    BY <1>1, <1>2, NoneAssumption
  <2>4. inner' = inner \cup {d} /\ innerPending' = innerPending + 1
    BY <2>1 DEF Forward
  <2>5. clashed' = (clashed \/ \E c \in inner : c.tag = d.tag /\ (c.slot = None) # (d.slot = None))
    BY <2>1, <2>3 DEF Forward
  <2> HIDE DEF d, m
  <2> QED
    BY <2>1, <2>2, <2>3, <2>4, <2>5 DEF Sent
<1> QED
  BY <1>3, <1>4 DEF Submit

LEMMA SubmitTypes ==
  ASSUME TypeOK, MissesMatch, SlotsMatch, IndexMatch,
         NEW k \in Kinds, NEW o \in Offsets, Submit(k, o)
  PROVE  TypeOK'
<1>1. /\ next \in Ids /\ next' \in 0..MaxRequests /\ out = << >> /\ UNCHANGED <<out, disk, strays, early, stale>>
      /\ overwritten' \subseteq overwritten \cup {o} /\ doubtful' \subseteq doubtful \cup {o}
      /\ clashed' \in BOOLEAN
      /\ req' \in [Ids -> Request \cup {None}]
  BY Submitting
<1>2. /\ disk' \in [Offsets -> Contents \ {Junk}] /\ next' \in 0..MaxRequests
      /\ req' \in [Ids -> Request \cup {None}]
      /\ overwritten' \subseteq Offsets /\ doubtful' \subseteq Offsets /\ clashed' \in BOOLEAN
      /\ strays' \subseteq Nat /\ early' \subseteq Ids /\ stale' \subseteq Ids
      /\ out' \in Seq(Completion)
  BY <1>1 DEF TypeOK
<1>3. pending' \in Seq(Completion) /\ inner' \subseteq Transfer /\ innerPending' \in Nat
  <2>1. CASE Hit(k, o)
    <3> DEFINE h == [tag |-> TagBase + next, id |-> next, ok |-> TRUE, hit |-> TRUE]
    <3>1. h \in Completion
      BY <1>1, Numbers DEF Completion
    <3>2. pending' = Append(pending, h) /\ inner' = inner /\ innerPending' = innerPending
      BY <2>1 DEF Hit
    <3> HIDE DEF h
    <3> QED
      BY <3>1, <3>2, AppendProperties DEF TypeOK
  <2>2. CASE ~Hit(k, o)
    <3>1. PICK d : Sent(k, o, d)
      BY <2>2, Sending
    <3> QED
      BY <3>1 DEF Sent, TypeOK
  <2> QED
    BY <2>1, <2>2
<1>4. /\ slots' \in [Slots -> Slot] /\ lru' \in Seq(Slots)
      /\ index' \in [Offsets -> Slots \cup {None}] /\ free' \subseteq Slots
      /\ misses' \subseteq Miss /\ nextIid' \in Nat \ {0}
  <2>0. lru \in Seq(Slots) /\ IsInjective(lru) /\ ToSet(lru) \subseteq Slots
    BY DEF TypeOK, SlotsMatch
  <2>1. CASE PassThrough(k, o) \/ ReadAgain(k, o)
    BY <2>1 DEF PassThrough, ReadAgain, pool, TypeOK
  <2>2. CASE Hit(k, o)
    <3> DEFINE s == index[o]
               q == RemoveFirst(lru, s)
    <3>1. s \in Slots
      BY <2>2, Caching DEF Hit
    <3>2. lru' = <<s>> \o q /\ UNCHANGED <<slots, index, free, misses, nextIid>>
      BY <2>2 DEF Hit
    <3> HIDE DEF s
    <3>3. q \in Seq(Slots)
      BY <2>0, FirstRemoved
    <3> HIDE DEF q
    <3>4. lru' \in Seq(Slots)
      BY <3>1, <3>2, <3>3, FrontPushed
    <3> QED
      BY <3>2, <3>4 DEF TypeOK
  <2>3. CASE Write(k, o)
    <3>1. PICK gone : Dropped(o, gone)
      BY <2>3, Dropping DEF Write
    <3>2. UNCHANGED <<misses, nextIid>>
      BY <2>3 DEF Write
    <3> QED
      BY <2>0, <3>1, <3>2 DEF Dropped, TypeOK
  <2>4. ASSUME NEW s \in Slots, ReadMiss(k, o, s)
        PROVE  /\ slots' \in [Slots -> Slot] /\ lru' \in Seq(Slots)
               /\ index' \in [Offsets -> Slots \cup {None}] /\ free' \subseteq Slots
               /\ misses' \subseteq Miss /\ nextIid' \in Nat \ {0}
    <3>1. Acquire(s, o) /\ nextIid' = nextIid + 1
          /\ misses' = misses \cup {[iid |-> nextIid, slot |-> s, id |-> next]}
      BY <2>4 DEF ReadMiss, NextIid
    <3>2. /\ slots' \in [Slots -> Slot] /\ lru' \in Seq(Slots)
          /\ index' \in [Offsets -> Slots \cup {None}] /\ free' = free \ {s}
      BY <3>1, Acquiring
    <3>3. [iid |-> nextIid, slot |-> s, id |-> next] \in Miss
      BY <1>1 DEF Miss, TypeOK
    <3> QED
      BY <3>1, <3>2, <3>3 DEF TypeOK
  <2> QED
    BY <2>1, <2>2, <2>3, <2>4 DEF Submit
<1> QED
  BY <1>2, <1>3, <1>4 DEF TypeOK

-----------------------------------------------------------------------------
(* A transfer ends: the invariant's parts *)

\* What the end of transfer c leaves as it is, whatever the tags.
LEMMA EndKeeps ==
  ASSUME TypeOK, MissesMatch, CountsMatch, SlotsMatch, IndexMatch,
         NEW c \in inner, NEW d \in Transfer, NEW ok \in BOOLEAN,
         Ended(c, d, ok), d \notin inner \ {c},
         UNCHANGED <<lru, index, free, misses, nextIid, pending, innerPending, out, next,
                     overwritten, doubtful, clashed, strays, early, stale>>
  PROVE  /\ TypeOK' /\ MissesMatch' /\ CountsMatch' /\ SlotsMatch' /\ IndexMatch'
         /\ Outstanding' = Outstanding
<1>1. /\ inner' = (inner \ {c}) \cup {d}
      /\ disk' \in [Offsets -> Contents \ {Junk}]
      /\ slots' \in [Slots -> Slot]
      /\ \A s \in Slots : /\ slots'[s].offset = slots[s].offset /\ slots'[s].valid = slots[s].valid
                          /\ slots'[s].pinned = slots[s].pinned
      /\ req' \in [Ids -> Request \cup {None}]
      /\ \A i \in Ids : (req'[i] = None) = (req[i] = None)
      /\ \A i \in Outstanding : req'[i].op = req[i].op /\ req'[i].off = req[i].off
  BY DEF Ended
<1>2. TypeOK'
  BY <1>1 DEF TypeOK
<1>3. Outstanding' = Outstanding /\ \A i \in Outstanding : i \in Ids
  BY <1>1 DEF Outstanding
<1>4. MissesMatch'
  <2>1. \A m \in misses : m.id \in Outstanding /\ m.slot \in Slots
    BY DEF MissesMatch, Outstanding, TypeOK, Miss
  <2>2. \A m \in misses' : /\ m.iid < nextIid'
                           /\ req'[m.id] # None /\ req'[m.id].op = "read"
                           /\ req'[m.id].off = slots'[m.slot].offset
    BY <1>1, <1>3, <2>1 DEF MissesMatch
  <2> QED
    BY <1>3, <2>2 DEF MissesMatch
<1>5. CountsMatch'
  <2> DEFINE rest == inner \ {c}
  <2>1. /\ inner' = rest \cup {d} /\ d \notin rest /\ IsFiniteSet(rest)
        /\ Cardinality(rest) = Cardinality(inner) - 1 /\ Cardinality(inner) \in Nat
    BY <1>1, FS_RemoveElement, FS_CardinalityType DEF CountsMatch
  <2> HIDE DEF rest
  <2>2. IsFiniteSet(inner') /\ Cardinality(inner') = Cardinality(rest) + 1
    BY <2>1, FS_AddElement
  <2> QED
    BY <1>3, <2>1, <2>2 DEF CountsMatch
<1>6. SlotsMatch'
  <2>1. Pinned' = Pinned
    BY DEF Pinned
  <2>2. \A s \in Slots : /\ slots'[s].valid = (s \in ToSet(lru))
                         /\ slots'[s].pinned = (s \in Pinned)
    BY <1>1 DEF SlotsMatch
  <2> QED
    BY <2>1, <2>2 DEF SlotsMatch
<1>7. IndexMatch'
  <2>1. \A o \in Offsets : index[o] # None => index[o] \in Slots
    BY DEF TypeOK
  <2> QED
    BY <1>1, <2>1 DEF IndexMatch
<1> QED
  BY <1>2, <1>3, <1>4, <1>5, <1>6, <1>7

-----------------------------------------------------------------------------
(* A reap *)

\* Where the completions and transfers of the next state come from.
LEMMA ReapSources ==
  ASSUME TypeOK, NEW hits, NEW n, NEW q, Reaped(hits, n, q)
  PROVE  /\ \A j \in DOMAIN pending' : /\ hits + j \in DOMAIN pending /\ pending'[j] = pending[hits + j]
                                       /\ j \in Nat /\ hits + j \notin 1..hits
         /\ \A j \in 1..hits : j \in DOMAIN pending /\ out'[j] = pending[j]
         /\ \A j \in DOMAIN out' : j \in 1..hits \/ \E i \in 1..n : j = hits + i
         /\ Len(pending) \in Nat /\ hits \in Nat
<1>1. /\ hits \in 0..Len(pending) /\ n \in Nat
      /\ pending' \in Seq(Completion) /\ Len(pending') = Len(pending) - hits
      /\ \A i \in 1..(Len(pending) - hits) : pending'[i] = pending[hits + i]
      /\ out' \in Seq(Completion) /\ Len(out') = hits + n
      /\ \A i \in 1..hits : out'[i] = pending[i]
  BY DEF Reaped
<1>2. /\ Len(pending) \in Nat /\ DOMAIN pending = 1..Len(pending)
      /\ DOMAIN pending' = 1..(Len(pending) - hits) /\ DOMAIN out' = 1..(hits + n)
      /\ hits \in Nat
  BY <1>1, LenProperties DEF TypeOK
<1>3. \A j \in DOMAIN pending' : /\ hits + j \in DOMAIN pending /\ pending'[j] = pending[hits + j]
                                 /\ j \in Nat /\ hits + j \notin 1..hits
  BY <1>1, <1>2
<1>4. \A j \in 1..hits : j \in DOMAIN pending /\ out'[j] = pending[j]
  BY <1>1, <1>2
<1>5. \A j \in DOMAIN out' : j \in 1..hits \/ \E i \in 1..n : j = hits + i
  <2> SUFFICES ASSUME NEW j \in DOMAIN out', j \notin 1..hits PROVE \E i \in 1..n : j = hits + i
    OBVIOUS
  <2>1. j - hits \in 1..n /\ j = hits + (j - hits)
    BY <1>1, <1>2
  <2> QED
    BY <2>1
<1> QED
  BY <1>2, <1>3, <1>4, <1>5

\* What a reap leaves as it is, whatever the tags.
LEMMA ReapBooks ==
  ASSUME TypeOK, MissesMatch, CountsMatch, SlotsMatch, IndexMatch,
         Reap, NEW hits, NEW n, NEW q, Reaped(hits, n, q)
  PROVE  /\ TypeOK' /\ MissesMatch' /\ CountsMatch' /\ SlotsMatch' /\ IndexMatch'
         /\ Outstanding' = Outstanding /\ Pinned' = Pinned
<1>1. /\ UNCHANGED <<slots, lru, index, free, misses, nextIid, disk, next, req, overwritten,
                     doubtful, clashed>>
      /\ UNCHANGED <<strays, early, stale>>
      /\ out = << >>
  BY DEF Reap, pool, caller
<1>2. /\ n \in Nat /\ n <= Cardinality(inner)
      /\ pending' \in Seq(Completion) /\ Len(pending') = Len(pending) - hits
      /\ out' \in Seq(Completion) /\ Len(out') = hits + n
      /\ inner' \subseteq inner
      /\ IsFiniteSet(inner') /\ Cardinality(inner') = Cardinality(inner) - n
      /\ innerPending' = innerPending - n
      /\ Len(pending) \in Nat /\ hits \in Nat
  BY ReapSources DEF Reaped
<1>3. Outstanding' = Outstanding /\ Pinned' = Pinned
  BY <1>1 DEF Outstanding, Pinned
<1>4. TypeOK'
  <2>1. innerPending' \in Nat
    BY <1>2, FS_CardinalityType DEF CountsMatch
  <2> QED
    BY <1>1, <1>2, <2>1 DEF TypeOK
<1>5. MissesMatch'
  BY <1>1, <1>3 DEF MissesMatch
<1>6. SlotsMatch'
  BY <1>1, <1>3 DEF SlotsMatch
<1>7. IndexMatch'
  BY <1>1 DEF IndexMatch
<1>8. CountsMatch'
  <2>1. Len(pending) + Len(out) + innerPending = Cardinality(Outstanding)
        /\ innerPending = Cardinality(inner) /\ Len(out) = 0 /\ innerPending \in Nat
    BY <1>1 DEF CountsMatch, TypeOK
  <2>2. Len(pending') + Len(out') + innerPending' = Cardinality(Outstanding)
    BY <1>2, <2>1
  <2> QED
    BY <1>2, <1>3, <2>1, <2>2 DEF CountsMatch
<1> QED
  BY <1>3, <1>4, <1>5, <1>6, <1>7, <1>8

-----------------------------------------------------------------------------
(* A completion is handed out: the invariant's parts *)

\* The slot of a miss that is answered joins the list, or is free again.
MissSlotMoved(m) ==
  /\ lru' \in Seq(Slots)
  /\ ToSet(lru') = IF out[1].ok THEN ToSet(lru) \cup {m.slot} ELSE ToSet(lru)
  /\ m.slot \in Slots /\ req[m.id].off = slots[m.slot].offset /\ req[m.id].op = "read"

LEMMA MissSlots ==
  ASSUME TypeOK, MissesMatch, SlotsMatch, IndexMatch, NEW m \in misses, MissTaken(m)
  PROVE  TypeOK' /\ SlotsMatch' /\ IndexMatch' /\ MissSlotMoved(m)
<1>1. TypeOK /\ MissesMatch /\ SlotsMatch /\ IndexMatch
  OBVIOUS
<1> DEFINE i == m.id
           s == m.slot
           o == slots[s].offset
<1>2. /\ out[1].ok => lru' = <<m.slot>> \o lru /\ UNCHANGED <<index, free>>
      /\ ~out[1].ok => /\ index' = [index EXCEPT ![slots[m.slot].offset] = None]
                       /\ free' = free \cup {m.slot}
                       /\ UNCHANGED lru
  BY DEF MissTaken
<1>3. /\ Taken(i) /\ misses' = misses \ {m}
      /\ slots' \in [Slots -> Slot]
      /\ \A r \in Slots : slots'[r].offset = slots[r].offset /\ slots'[r].data = slots[r].data
      /\ \A r \in Slots : r # s => slots'[r] = slots[r]
      /\ ~slots'[s].pinned
      /\ slots'[s].valid = out[1].ok
  BY DEF MissTaken
<1>4. /\ req' \in [Ids -> Request \cup {None}]
      /\ out' \in Seq(Completion)
      /\ early' \subseteq Ids /\ stale' \subseteq Ids
      /\ UNCHANGED <<pending, inner, innerPending, disk, next, overwritten, doubtful, clashed,
                     nextIid, strays>>
  BY <1>3 DEF Taken
<1>5. /\ s \in Slots /\ s \in Pinned /\ i \in Ids
      /\ req[i].off = o /\ req[i].op = "read"
      /\ s \notin free /\ s \notin ToSet(lru) /\ o \in Offsets
      /\ o \notin overwritten => index[o] = s
      /\ None \notin Slots
  <2>1. s \in Slots /\ s \in Pinned /\ i \in Ids /\ req[i].off = o /\ req[i].op = "read"
    BY <1>1 DEF TypeOK, Miss, MissesMatch, Pinned
  <2>2. s \notin free /\ s \notin ToSet(lru)
    BY <1>1, <2>1 DEF SlotsMatch
  <2> QED
    BY <1>1, <2>1, <2>2, NoneAssumption DEF IndexMatch
<1>7. Pinned' = Pinned \ {s}
  <2>1. \A n \in misses : n # m => n.slot # s
    BY <1>1 DEF MissesMatch
  <2> QED
    BY <1>3, <2>1 DEF Pinned
<1>8. out[1].ok \in BOOLEAN
  BY DEF MissTaken
<1>11. index \in [Offsets -> Slots \cup {None}] /\ lru \in Seq(Slots) /\ free \subseteq Slots
       /\ IsInjective(lru)
  BY <1>1 DEF TypeOK, SlotsMatch
<1>12. /\ lru' \in Seq(Slots) /\ IsInjective(lru')
       /\ out[1].ok => ToSet(lru') = ToSet(lru) \cup {s} /\ free' = free /\ index' = index
       /\ ~out[1].ok => ToSet(lru') = ToSet(lru) /\ free' = free \cup {s}
       /\ ~out[1].ok => index'[o] = None /\ \A p \in Offsets : p # o => index'[p] = index[p]
       /\ index' \in [Offsets -> Slots \cup {None}]
  <2> HIDE DEF o
  <2>1. CASE out[1].ok
    <3>1. lru' = <<s>> \o lru /\ UNCHANGED <<index, free>>
      BY <1>2, <2>1
    <3> HIDE DEF s
    <3>2. lru' \in Seq(Slots) /\ IsInjective(lru') /\ ToSet(lru') = ToSet(lru) \cup {s}
      BY <1>5, <1>11, <3>1, FrontPushed
    <3> QED
      BY <1>11, <2>1, <3>1, <3>2
  <2>2. CASE ~out[1].ok
    <3>1. index' = [index EXCEPT ![o] = None] /\ free' = free \cup {s} /\ lru' = lru
      BY <1>2, <2>2 DEF o
    <3> QED
      BY <1>5, <1>11, <2>2, <3>1
  <2> QED
    BY <1>8, <2>1, <2>2
<1>13. TypeOK'
  <2>1. misses' \subseteq Miss /\ free' \subseteq Slots
    BY <1>1, <1>3, <1>5, <1>8, <1>11, <1>12 DEF TypeOK
  <2> HIDE DEF i, s, o
  <2> QED
    BY <1>1, <1>3, <1>4, <1>12, <2>1 DEF TypeOK
<1>14. SlotsMatch'
  <2>1. /\ free \cap ToSet(lru) = {} /\ free \cap Pinned = {} /\ Pinned \cap ToSet(lru) = {}
        /\ free \cup ToSet(lru) \cup Pinned = Slots
        /\ \A r \in Slots : /\ slots[r].valid = (r \in ToSet(lru))
                            /\ slots[r].pinned = (r \in Pinned)
    BY <1>1 DEF SlotsMatch
  <2> HIDE DEF i, s, o
  <2>2. /\ free' \cap ToSet(lru') = {} /\ free' \cap Pinned' = {} /\ Pinned' \cap ToSet(lru') = {}
        /\ free' \cup ToSet(lru') \cup Pinned' = Slots
    BY <1>5, <1>7, <1>8, <1>12, <2>1
  <2>3. ASSUME NEW r \in Slots
        PROVE  /\ slots'[r].valid = (r \in ToSet(lru'))
               /\ slots'[r].pinned = (r \in Pinned')
    <3>1. CASE r = s
      <4>1. (s \in ToSet(lru')) = out[1].ok /\ (s \in Pinned') = FALSE
        BY <1>5, <1>7, <1>8, <1>12
      <4>2. slots'[s].pinned = FALSE
        BY <1>3, <1>5 DEF Slot
      <4> QED
        BY <1>3, <3>1, <4>1, <4>2
    <3>2. CASE r # s
      <4>1. (r \in ToSet(lru')) = (r \in ToSet(lru)) /\ (r \in Pinned') = (r \in Pinned)
        BY <1>7, <1>8, <1>12, <3>2
      <4>2. slots'[r] = slots[r]
        BY <1>3, <3>2
      <4> QED
        BY <2>1, <4>1, <4>2
    <3> QED
      BY <3>1, <3>2
  <2> QED
    BY <1>12, <2>2, <2>3 DEF SlotsMatch
<1>15. IndexMatch'
  <2>1. /\ \A r \in Slots : r \notin free =>
             /\ slots[r].offset \in Offsets
             /\ slots[r].offset \notin overwritten => index[slots[r].offset] = r
        /\ \A p \in Offsets : index[p] # None =>
             index[p] \in Slots /\ index[p] \notin free /\ slots[index[p]].offset = p
    BY <1>1, <1>11 DEF IndexMatch
  <2>2. ASSUME NEW r \in Slots, r \notin free'
        PROVE  /\ slots'[r].offset \in Offsets
               /\ slots'[r].offset \notin overwritten' => index'[slots'[r].offset] = r
    <3>1. CASE out[1].ok
      BY <1>3, <1>4, <1>12, <2>1, <2>2, <3>1
    <3>2. CASE ~out[1].ok
      <4>1. r # s /\ r \notin free /\ slots'[r].offset = slots[r].offset /\ slots[r].offset \in Offsets
        BY <1>3, <1>12, <2>1, <2>2, <3>2
      <4>2. ASSUME slots[r].offset \notin overwritten PROVE index'[slots[r].offset] = r
        <5>1. index[slots[r].offset] = r
          BY <2>1, <4>1, <4>2
        <5>2. slots[r].offset # o
          BY <1>5, <4>1, <4>2, <5>1
        <5> QED
          BY <1>12, <3>2, <4>1, <5>1, <5>2
      <4> QED
        BY <1>4, <4>1, <4>2
    <3> QED
      BY <1>8, <3>1, <3>2
  <2>3. ASSUME NEW p \in Offsets, index'[p] # None
        PROVE  index'[p] \notin free' /\ slots'[index'[p]].offset = p
    <3>1. CASE out[1].ok
      BY <1>3, <1>12, <2>1, <2>3, <3>1
    <3>2. CASE ~out[1].ok
      <4>1. p # o /\ index'[p] = index[p]
        BY <1>12, <2>3, <3>2
      <4>2. index[p] \in Slots /\ index[p] \notin free /\ slots[index[p]].offset = p
        BY <2>1, <2>3, <4>1
      <4>3. index[p] # s
        BY <4>1, <4>2
      <4> QED
        BY <1>3, <1>12, <3>2, <4>1, <4>2, <4>3
    <3> QED
      BY <1>8, <3>1, <3>2
  <2> QED
    BY <2>2, <2>3 DEF IndexMatch
<1>16. MissSlotMoved(m)
  BY <1>5, <1>8, <1>12 DEF MissSlotMoved
<1> QED
  BY <1>13, <1>14, <1>15, <1>16

\* What an answer to request i leaves as it is, whatever the tags.
LEMMA TakingBooks ==
  ASSUME TypeOK, MissesMatch, CountsMatch, NEW i \in Outstanding, Taken(i),
         \A m \in misses' : m \in misses /\ m.id # i,
         \A s \in Slots : slots'[s].offset = slots[s].offset
  PROVE  MissesMatch' /\ CountsMatch'
<1>1. /\ \A j \in Ids : j # i => req'[j] = req[j]
      /\ Outstanding' = Outstanding \ {i}
      /\ Len(out') = Len(out) - 1
      /\ UNCHANGED <<pending, inner, innerPending, next, nextIid>>
  BY DEF Taken
<1>2. MissesMatch'
  <2>1. \A m \in misses : m.id \in Ids /\ m.slot \in Slots
    BY DEF TypeOK, Miss
  <2>2. \A m \in misses' : /\ m.iid < nextIid'
                           /\ req'[m.id] # None /\ req'[m.id].op = "read"
                           /\ req'[m.id].off = slots'[m.slot].offset
    BY <1>1, <2>1 DEF MissesMatch
  <2>3. \A m, n \in misses' : m.iid = n.iid \/ m.id = n.id \/ m.slot = n.slot => m = n
    BY DEF MissesMatch
  <2>4. nextIid' <= next' + 1 /\ \A j \in Outstanding' : j < next'
    BY <1>1 DEF MissesMatch
  <2> QED
    BY <2>2, <2>3, <2>4 DEF MissesMatch
<1>3. CountsMatch'
  <2>1. Len(pending) + Len(out) + innerPending = Cardinality(Outstanding)
    BY DEF CountsMatch
  <2>2. Cardinality(Outstanding') = Cardinality(Outstanding) - 1
    BY <1>1, Numbers, FS_RemoveElement
  <2>3. Len(pending) \in Nat /\ Len(out) \in Nat /\ innerPending \in Nat
    BY LenProperties DEF TypeOK
  <2>4. Len(pending') + Len(out') + innerPending' = Cardinality(Outstanding')
    BY <1>1, <2>1, <2>2, <2>3
  <2> QED
    BY <1>1, <2>4 DEF CountsMatch
<1> QED
  BY <1>2, <1>3

-----------------------------------------------------------------------------
(* Whatever tags the caller uses: owners of tags *)

\* Completions on their way, P, and the tags of requests: C of those the caller
\* tagged, M of misses.  A completion is for a request; those of set B are for
\* one the caller tagged; and there are two with the same tag only if it is the
\* tag of two requests.
OwnedBy(P, tag, B, C, M) ==
  /\ \A p \in P : tag[p] \in C \cup M /\ (p \in B => tag[p] \in C)
  /\ \A p, q \in P : p # q /\ tag[p] = tag[q] =>
       tag[p] \in C /\ tag[p] \in M /\ ~(p \in B /\ q \in B)
  /\ \A p, q, r \in P : tag[p] = tag[q] /\ tag[q] = tag[r] => p = q \/ q = r \/ p = r

\* Completions Q come from completions P.
Moves(g, P, tag, B, Q, new, A) ==
  /\ \A p \in Q : g[p] \in P /\ new[p] = tag[g[p]] /\ (p \in A => g[p] \in B)
  /\ \A p, q \in Q : g[p] = g[q] => p = q

\* They move on.
LEMMA OwnedMoved ==
  ASSUME NEW P, NEW tag, NEW B, NEW C, NEW M, NEW Q, NEW new, NEW A, NEW D, NEW N, NEW g,
         OwnedBy(P, tag, B, C, M), Moves(g, P, tag, B, Q, new, A), C \subseteq D, M \subseteq N
  PROVE  OwnedBy(Q, new, A, D, N)
<1>1. \A p \in Q : g[p] \in P /\ new[p] = tag[g[p]] /\ (p \in A => g[p] \in B)
  BY DEF Moves
<1>2. \A p, q \in Q : g[p] = g[q] => p = q
  BY DEF Moves
<1>3. \A p \in Q : new[p] \in D \cup N /\ (p \in A => new[p] \in D)
  BY <1>1 DEF OwnedBy
<1>4. \A p, q \in Q : p # q /\ new[p] = new[q] =>
        new[p] \in D /\ new[p] \in N /\ ~(p \in A /\ q \in A)
  BY <1>1, <1>2 DEF OwnedBy
<1>5. \A p, q, r \in Q : new[p] = new[q] /\ new[q] = new[r] => p = q \/ q = r \/ p = r
  BY <1>1, <1>2 DEF OwnedBy
<1> QED
  BY <1>3, <1>4, <1>5 DEF OwnedBy

\* One, x, is handed out to the request the caller gave that tag.
LEMMA OwnedAnswered ==
  ASSUME NEW P, NEW tag, NEW B, NEW C, NEW M, NEW Q, NEW new, NEW A, NEW D, NEW N, NEW g,
         OwnedBy(P, tag, B, C, M), Moves(g, P, tag, B, Q, new, A),
         NEW x \in P, \A p \in Q : g[p] # x, x \in B \/ tag[x] \notin M,
         \A t \in C : t # tag[x] => t \in D, M \subseteq N
  PROVE  OwnedBy(Q, new, A, D, N)
<1>1. \A p \in Q : g[p] \in P /\ new[p] = tag[g[p]] /\ (p \in A => g[p] \in B) /\ g[p] # x
  BY DEF Moves
<1>2. \A p, q \in Q : g[p] = g[q] => p = q
  BY DEF Moves
<1>3. \A p \in Q : new[p] = tag[x] => new[p] \in M /\ p \notin A
  BY <1>1 DEF OwnedBy
<1>4. \A p \in Q : new[p] \in D \cup N /\ (p \in A => new[p] \in D)
  BY <1>1, <1>3 DEF OwnedBy
<1>5. \A p, q \in Q : p # q => ~(new[p] = tag[x] /\ new[q] = tag[x])
  BY <1>1, <1>2 DEF OwnedBy
<1>6. \A p, q \in Q : p # q /\ new[p] = new[q] =>
        new[p] \in D /\ new[p] \in N /\ ~(p \in A /\ q \in A)
  BY <1>1, <1>2, <1>5 DEF OwnedBy
<1>7. \A p, q, r \in Q : new[p] = new[q] /\ new[q] = new[r] => p = q \/ q = r \/ p = r
  BY <1>1, <1>2 DEF OwnedBy
<1> QED
  BY <1>4, <1>6, <1>7 DEF OwnedBy

\* One, x, is handed out to the miss of that tag.
LEMMA OwnedMissAnswered ==
  ASSUME NEW P, NEW tag, NEW B, NEW C, NEW M, NEW Q, NEW new, NEW A, NEW D, NEW N, NEW g,
         OwnedBy(P, tag, B, C, M), Moves(g, P, tag, B, Q, new, A),
         NEW x \in P, \A p \in Q : g[p] # x,
         C \subseteq D, \A t \in M : t # tag[x] => t \in N
  PROVE  OwnedBy(Q, new, A, D, N)
<1>1. \A p \in Q : g[p] \in P /\ new[p] = tag[g[p]] /\ (p \in A => g[p] \in B) /\ g[p] # x
  BY DEF Moves
<1>2. \A p, q \in Q : g[p] = g[q] => p = q
  BY DEF Moves
<1>3. \A p \in Q : new[p] = tag[x] => new[p] \in C
  BY <1>1 DEF OwnedBy
<1>4. \A p \in Q : new[p] \in D \cup N /\ (p \in A => new[p] \in D)
  BY <1>1, <1>3 DEF OwnedBy
<1>5. \A p, q \in Q : p # q => ~(new[p] = tag[x] /\ new[q] = tag[x])
  BY <1>1, <1>2 DEF OwnedBy
<1>6. \A p, q \in Q : p # q /\ new[p] = new[q] =>
        new[p] \in D /\ new[p] \in N /\ ~(p \in A /\ q \in A)
  BY <1>1, <1>2, <1>5 DEF OwnedBy
<1>7. \A p, q, r \in Q : new[p] = new[q] /\ new[q] = new[r] => p = q \/ q = r \/ p = r
  BY <1>1, <1>2 DEF OwnedBy
<1> QED
  BY <1>4, <1>6, <1>7 DEF OwnedBy

\* One more, x, is on its way, for a new request.
LEMMA OwnedSent ==
  ASSUME NEW P, NEW tag, NEW B, NEW C, NEW M, NEW new, NEW A, NEW D, NEW N, NEW x,
         OwnedBy(P, tag, B, C, M), x \notin P,
         \A p \in P : new[p] = tag[p] /\ (p \in A => p \in B),
         C \subseteq D, M \subseteq N,
         \/ new[x] \in D /\ new[x] \notin C
         \/ new[x] \in N /\ new[x] \notin M /\ x \notin A
  PROVE  OwnedBy(P \cup {x}, new, A, D, N)
<1>1. \A p \in P : new[p] \in D \cup N /\ (p \in A => new[p] \in D)
  BY DEF OwnedBy
<1>2. new[x] \in D \cup N /\ (x \in A => new[x] \in D)
  OBVIOUS
<1>3. \A p \in P : new[p] = new[x] => /\ new[p] \in D /\ new[p] \in N /\ ~(p \in A /\ x \in A)
  BY DEF OwnedBy
<1>4. \A p, q \in P : p # q => ~(new[p] = new[x] /\ new[q] = new[x])
  BY DEF OwnedBy
<1>5. \A p, q \in P : p # q /\ new[p] = new[q] =>
        new[p] \in D /\ new[p] \in N /\ ~(p \in A /\ q \in A)
  BY DEF OwnedBy
<1>6. \A p, q, r \in P : new[p] = new[q] /\ new[q] = new[r] => p = q \/ q = r \/ p = r
  BY DEF OwnedBy
<1>7. \A p, q \in P \cup {x} : p # q /\ new[p] = new[q] =>
        new[p] \in D /\ new[p] \in N /\ ~(p \in A /\ q \in A)
  BY <1>3, <1>5
<1>8. \A p, q, r \in P \cup {x} : new[p] = new[q] /\ new[q] = new[r] => p = q \/ q = r \/ p = r
  BY <1>4, <1>6
<1> QED
  BY <1>1, <1>2, <1>7, <1>8 DEF OwnedBy

-----------------------------------------------------------------------------
(* Whatever tags the caller uses: the invariant *)

Places == ({"pending"} \X DOMAIN pending) \cup ({"out"} \X DOMAIN out) \cup ({"inner"} \X inner)

TagAt ==
  [p \in Places |-> IF p[1] = "pending" THEN pending[p[2]].tag
                    ELSE IF p[1] = "out" THEN out[p[2]].tag ELSE p[2].tag]

\* Known to be for a request of the caller's tag: hits, transfers without a slot.
ByCaller ==
  {p \in Places : IF p[1] = "pending" THEN pending[p[2]].hit
                  ELSE IF p[1] = "out" THEN out[p[2]].hit ELSE p[2].slot = None}

CallerTags == {TagBase + i : i \in {j \in Outstanding : \A m \in misses : m.id # j}}
MissTags == {m.iid : m \in misses}

TokensOwned == OwnedBy(Places, TagAt, ByCaller, CallerTags, MissTags)

TransfersMatch ==
  /\ \A c \in inner : c.id < next /\ (c.slot = None => c.tag = TagBase + c.id)
  /\ \A c, d \in inner : c.id = d.id => c = d

\* The inductive invariant for any caller: what the slots rest on.
SlotInv ==
  /\ TypeOK /\ MissesMatch /\ TokensOwned /\ TransfersMatch /\ CountsMatch
  /\ SlotsMatch /\ IndexMatch /\ strays = {}

\* The places, one kind at a time.
PlacesSplit ==
  /\ \A n \in DOMAIN pending :
       /\ <<"pending", n>> \in Places /\ TagAt[<<"pending", n>>] = pending[n].tag
       /\ (<<"pending", n>> \in ByCaller) = (pending[n].hit = TRUE)
  /\ \A n \in DOMAIN out :
       /\ <<"out", n>> \in Places /\ TagAt[<<"out", n>>] = out[n].tag
       /\ (<<"out", n>> \in ByCaller) = (out[n].hit = TRUE)
  /\ \A c \in inner :
       /\ <<"inner", c>> \in Places /\ TagAt[<<"inner", c>>] = c.tag
       /\ (<<"inner", c>> \in ByCaller) = (c.slot = None)
  /\ \A p \in Places :
       \/ \E n \in DOMAIN pending : p = <<"pending", n>>
       \/ \E n \in DOMAIN out : p = <<"out", n>>
       \/ \E c \in inner : p = <<"inner", c>>

LEMMA PlaceCases == PlacesSplit /\ PlacesSplit'
<1>0. PlacesSplit
  <2> DEFINE pp(n) == <<"pending", n>>
             oo(n) == <<"out", n>>
             ii(c) == <<"inner", c>>
  <2>1. /\ \A n \in DOMAIN pending : pp(n) \in Places /\ pp(n)[1] = "pending" /\ pp(n)[2] = n
        /\ \A n \in DOMAIN out : oo(n) \in Places /\ oo(n)[1] = "out" /\ oo(n)[2] = n
        /\ \A c \in inner : ii(c) \in Places /\ ii(c)[1] = "inner" /\ ii(c)[2] = c
    BY DEF Places
  <2>2. \A p \in Places :
         \/ \E n \in DOMAIN pending : p = pp(n)
         \/ \E n \in DOMAIN out : p = oo(n)
         \/ \E c \in inner : p = ii(c)
    BY DEF Places
  <2> HIDE DEF PlacesSplit, pp, oo, ii
  <2>3. ASSUME NEW n \in DOMAIN pending
        PROVE  pp(n) \in Places /\ TagAt[pp(n)] = pending[n].tag /\ (pp(n) \in ByCaller) = (pending[n].hit = TRUE)
    BY <2>1 DEF TagAt, ByCaller
  <2>4. ASSUME NEW n \in DOMAIN out
        PROVE  oo(n) \in Places /\ TagAt[oo(n)] = out[n].tag /\ (oo(n) \in ByCaller) = (out[n].hit = TRUE)
    BY <2>1 DEF TagAt, ByCaller
  <2>5. ASSUME NEW c \in inner
        PROVE  ii(c) \in Places /\ TagAt[ii(c)] = c.tag /\ (ii(c) \in ByCaller) = (c.slot = None)
    BY <2>1 DEF TagAt, ByCaller
  <2> QED
    BY <2>2, <2>3, <2>4, <2>5 DEF PlacesSplit, pp, oo, ii
<1> QED
  BY <1>0, PTL

-----------------------------------------------------------------------------
(* Whatever tags the caller uses: the steps *)

LEMMA SlotSubmitKeeps ==
  ASSUME SlotInv, NEW k \in Kinds, NEW o \in Offsets, Submit(k, o)
  PROVE  SlotInv'
<1>1. /\ TypeOK /\ MissesMatch /\ TokensOwned /\ TransfersMatch /\ CountsMatch
      /\ SlotsMatch /\ IndexMatch /\ strays = {}
  BY DEF SlotInv
<1>2. /\ next \in Ids /\ next \in Nat /\ next \notin Outstanding /\ next' = next + 1
      /\ out = << >> /\ out' = << >> /\ strays' = strays
      /\ Outstanding' = Outstanding \cup {next}
      /\ nextIid \in Nat /\ TagBase \in Nat /\ Outstanding \subseteq Nat
  <2>1. /\ next \in Ids /\ next \notin Outstanding /\ next' = next + 1
        /\ out = << >> /\ UNCHANGED <<out, disk, strays, early, stale>>
        /\ Outstanding' = Outstanding \cup {next}
    BY <1>1, Submitting
  <2> QED
    BY <1>1, <2>1, Numbers DEF TypeOK, Outstanding
<1>3. TypeOK' /\ MissesMatch' /\ SlotsMatch' /\ IndexMatch'
  BY <1>1, SubmitTypes, SubmitMisses, SubmitSlots, SubmitIndex
<1>4. /\ \A m \in misses : m.iid \in Nat /\ m.iid < nextIid /\ m.id \in Outstanding
      /\ \A i \in Outstanding : TagBase + i # TagBase + next
  <2>1. \A m \in misses : m.iid \in Nat /\ m.iid < nextIid /\ m.id \in Outstanding
    BY <1>1 DEF TypeOK, Miss, MissesMatch, Outstanding
  <2>2. \A i \in Outstanding : i \in Nat /\ i # next
    BY <1>2
  <2> QED
    BY <1>2, <2>1, <2>2
<1>5. Cardinality(Outstanding') = Cardinality(Outstanding) + 1 /\ Cardinality(Outstanding) \in Nat
  BY <1>2, Numbers, FS_AddElement
<1>6. /\ IsFiniteSet(inner) /\ innerPending = Cardinality(inner) /\ innerPending \in Nat
      /\ Len(pending) \in Nat /\ Len(out) = 0 /\ Len(out') = 0
      /\ Len(pending) + innerPending = Cardinality(Outstanding)
  <2>1. Len(pending) \in Nat /\ innerPending \in Nat /\ Len(out) = 0 /\ Len(out') = 0
    BY <1>1, <1>2, LenProperties DEF TypeOK
  <2> QED
    BY <1>1, <2>1 DEF CountsMatch
<1>7. /\ DOMAIN pending = 1..Len(pending) /\ pending \in Seq(Completion)
      /\ DOMAIN out = {} /\ DOMAIN out' = {}
  BY <1>1, <1>2, LenProperties DEF TypeOK
\* It is a hit: one more completion is pending.
<1>8. ASSUME Hit(k, o) PROVE TokensOwned' /\ TransfersMatch' /\ CountsMatch'
  <2> DEFINE h == [tag |-> TagBase + next, id |-> next, ok |-> TRUE, hit |-> TRUE]
             x == <<"pending", Len(pending) + 1>>
  <2>1. /\ pending' = Append(pending, h) /\ h \in Completion /\ h.tag = TagBase + next /\ h.hit
        /\ UNCHANGED <<inner, innerPending, misses>>
    BY <1>2, <1>8, Numbers DEF Hit, Completion
  <2> HIDE DEF h
  <2>2. /\ Len(pending') = Len(pending) + 1 /\ DOMAIN pending' = 1..(Len(pending) + 1)
        /\ \A n \in DOMAIN pending : n \in DOMAIN pending' /\ pending'[n] = pending[n]
        /\ \A n \in DOMAIN pending' : n \in DOMAIN pending \/ n = Len(pending) + 1
        /\ pending'[Len(pending) + 1] = h
        /\ Len(pending) + 1 \notin DOMAIN pending /\ Len(pending) + 1 \in DOMAIN pending'
    <3>1. /\ pending' \in Seq(Completion) /\ Len(pending') = Len(pending) + 1
          /\ \A n \in 1..Len(pending) : pending'[n] = pending[n]
          /\ pending'[Len(pending) + 1] = h
      BY <1>7, <2>1, AppendProperties
    <3>2. DOMAIN pending' = 1..(Len(pending) + 1)
      BY <3>1, LenProperties
    <3> QED
      BY <1>6, <1>7, <3>1, <3>2
  <2>3. TransfersMatch'
    BY <1>1, <1>2, <2>1 DEF TransfersMatch, TypeOK, Transfer, Ids
  <2>4. CountsMatch'
    BY <1>5, <1>6, <2>1, <2>2 DEF CountsMatch
  <2>5. /\ \A i \in Outstanding : (\A m \in misses : m.id # i) => i \in Outstanding' /\ \A m \in misses' : m.id # i
        /\ next \in Outstanding' /\ \A m \in misses' : m.id # next
    BY <1>2, <1>4, <2>1
  <2>6. CallerTags \subseteq CallerTags' /\ MissTags \subseteq MissTags'
        /\ TagBase + next \in CallerTags' /\ TagBase + next \notin CallerTags
    BY <1>4, <2>1, <2>5 DEF CallerTags, MissTags
  <2>7. Places' = Places \cup {x} /\ x \notin Places
    BY <1>7, <2>1, <2>2 DEF Places
  <2>8. \A p \in Places : TagAt'[p] = TagAt[p] /\ (p \in ByCaller' => p \in ByCaller)
    <3> SUFFICES ASSUME NEW p \in Places PROVE TagAt'[p] = TagAt[p] /\ (p \in ByCaller' => p \in ByCaller)
      OBVIOUS
    <3>1. CASE \E n \in DOMAIN pending : p = <<"pending", n>>
      <4>1. PICK n \in DOMAIN pending : p = <<"pending", n>>
        BY <3>1
      <4> QED
        BY <2>2, <4>1, PlaceCases DEF PlacesSplit
    <3>2. CASE \E c \in inner : p = <<"inner", c>>
      <4>1. PICK c \in inner : p = <<"inner", c>>
        BY <3>2
      <4>2. c \in inner'
        BY <2>1
      <4> QED
        BY <4>1, <4>2, PlaceCases DEF PlacesSplit
    <3> QED
      BY <1>7, <3>1, <3>2, PlaceCases DEF PlacesSplit
  <2>9. TagAt'[x] = TagBase + next
    BY <2>1, <2>2, PlaceCases DEF PlacesSplit
  <2> HIDE DEF x
  <2>10. OwnedBy(Places \cup {x}, TagAt', ByCaller', CallerTags', MissTags')
    <3>1. OwnedBy(Places, TagAt, ByCaller, CallerTags, MissTags)
      BY <1>1 DEF TokensOwned
    <3>2. TagAt'[x] \in CallerTags' /\ TagAt'[x] \notin CallerTags
      BY <2>6, <2>9
    <3> QED
      BY <2>6, <2>7, <2>8, <3>1, <3>2, OwnedSent
  <2>11. TokensOwned'
    BY <2>7, <2>10 DEF TokensOwned, OwnedBy
  <2> QED
    BY <2>3, <2>4, <2>11
\* It goes to the inner backend.
<1>9. ASSUME ~Hit(k, o) PROVE TokensOwned' /\ TransfersMatch' /\ CountsMatch'
  <2>1. PICK d : Sent(k, o, d)
    BY <1>1, <1>9, Sending
  <2>2. /\ d.id = next /\ inner' = inner \cup {d}
        /\ innerPending' = innerPending + 1 /\ pending' = pending
        /\ \/ d.slot = None /\ d.tag = TagBase + next /\ misses' = misses /\ nextIid' = nextIid
           \/ /\ d.slot # None /\ d.tag = nextIid
              /\ \E m \in Miss : m.iid = nextIid /\ m.id = next /\ misses' = misses \cup {m}
    BY <2>1 DEF Sent
  <2>3. \A c \in inner : c.id # next /\ c.id < next /\ c.id \in Nat
    BY <1>1, <1>2, Numbers DEF TransfersMatch, TypeOK, Transfer
  <2>4. d \notin inner
    BY <2>2, <2>3
  <2>5. TransfersMatch'
    <3>1. \A c \in inner' : c.id < next' /\ (c.slot = None => c.tag = TagBase + c.id)
      BY <1>1, <1>2, <2>2, <2>3 DEF TransfersMatch
    <3>2. \A b, c \in inner' : b.id = c.id => b = c
      BY <1>1, <2>2, <2>3 DEF TransfersMatch
    <3> QED
      BY <3>1, <3>2 DEF TransfersMatch
  <2>6. CountsMatch'
    <3>1. IsFiniteSet(inner') /\ Cardinality(inner') = Cardinality(inner) + 1
      BY <1>6, <2>2, <2>4, FS_AddElement
    <3> QED
      BY <1>5, <1>6, <2>2, <3>1 DEF CountsMatch
  <2> DEFINE x == <<"inner", d>>
  <2>7. \A i \in Outstanding : (\A m \in misses : m.id # i) => i \in Outstanding' /\ \A m \in misses' : m.id # i
    BY <1>2, <2>2
  <2>8. CallerTags \subseteq CallerTags' /\ MissTags \subseteq MissTags'
    BY <2>2, <2>7 DEF CallerTags, MissTags
  <2>9. \/ d.tag \in CallerTags' /\ d.tag \notin CallerTags
        \/ d.tag \in MissTags' /\ d.tag \notin MissTags /\ d.slot # None
    <3>1. CASE d.slot = None
      <4>1. d.tag = TagBase + next /\ misses' = misses
        BY <2>2, <3>1
      <4> QED
        BY <1>2, <1>4, <4>1 DEF CallerTags
    <3>2. CASE d.slot # None
      <4>1. d.tag = nextIid /\ \E m \in misses' : m.iid = nextIid
        BY <2>2, <3>2
      <4> QED
        BY <1>2, <1>4, <3>2, <4>1 DEF MissTags
    <3> QED
      BY <3>1, <3>2
  <2>10. Places' = Places \cup {x} /\ x \notin Places
    BY <1>2, <2>2, <2>4 DEF Places
  <2>11. \A p \in Places : TagAt'[p] = TagAt[p] /\ (p \in ByCaller' => p \in ByCaller)
    <3> SUFFICES ASSUME NEW p \in Places PROVE TagAt'[p] = TagAt[p] /\ (p \in ByCaller' => p \in ByCaller)
      OBVIOUS
    <3>1. CASE \E n \in DOMAIN pending : p = <<"pending", n>>
      <4>1. PICK n \in DOMAIN pending : p = <<"pending", n>>
        BY <3>1
      <4> QED
        BY <2>2, <4>1, PlaceCases DEF PlacesSplit
    <3>2. CASE \E c \in inner : p = <<"inner", c>>
      <4>1. PICK c \in inner : p = <<"inner", c>>
        BY <3>2
      <4>2. c \in inner'
        BY <2>2
      <4> QED
        BY <4>1, <4>2, PlaceCases DEF PlacesSplit
    <3> QED
      BY <1>7, <3>1, <3>2, PlaceCases DEF PlacesSplit
  <2>12. TagAt'[x] = d.tag /\ (x \in ByCaller' => d.slot = None)
    BY <2>2, PlaceCases DEF PlacesSplit
  <2> HIDE DEF x
  <2>13. OwnedBy(Places \cup {x}, TagAt', ByCaller', CallerTags', MissTags')
    <3>1. OwnedBy(Places, TagAt, ByCaller, CallerTags, MissTags)
      BY <1>1 DEF TokensOwned
    <3>2. \/ TagAt'[x] \in CallerTags' /\ TagAt'[x] \notin CallerTags
          \/ TagAt'[x] \in MissTags' /\ TagAt'[x] \notin MissTags /\ x \notin ByCaller'
      BY <2>9, <2>12
    <3> QED
      BY <2>8, <2>10, <2>11, <3>1, <3>2, OwnedSent
  <2>14. TokensOwned'
    BY <2>10, <2>13 DEF TokensOwned, OwnedBy
  <2> QED
    BY <2>5, <2>6, <2>14
<1> QED
  <2>1. TokensOwned' /\ TransfersMatch' /\ CountsMatch'
    BY <1>8, <1>9
  <2>2. strays' = {}
    BY <1>1, <1>2
  <2> QED
    BY <1>3, <2>1, <2>2 DEF SlotInv

LEMMA SlotCompleteKeeps ==
  ASSUME SlotInv, NEW c \in inner, Complete(c)
  PROVE  SlotInv'
<1>1. /\ TypeOK /\ MissesMatch /\ TokensOwned /\ TransfersMatch /\ CountsMatch
      /\ SlotsMatch /\ IndexMatch /\ strays = {}
  BY DEF SlotInv
<1>2. c.slot = None => c.id \in Outstanding
  <2> SUFFICES ASSUME c.slot = None PROVE c.id \in Outstanding
    OBVIOUS
  <2> DEFINE p == <<"inner", c>>
  <2>1. p \in Places /\ TagAt[p] = c.tag /\ p \in ByCaller
    BY PlaceCases DEF PlacesSplit
  <2> HIDE DEF p
  <2>2. c.tag \in CallerTags
    BY <1>1, <2>1 DEF TokensOwned, OwnedBy
  <2>3. PICK i \in Outstanding : c.tag = TagBase + i
    BY <2>2 DEF CallerTags
  <2>4. c.tag = TagBase + c.id /\ c.id \in Nat /\ i \in Nat
    BY <1>1, Numbers DEF TransfersMatch, TypeOK, Transfer, Outstanding
  <2> QED
    BY <2>3, <2>4, Numbers
<1>3. UNCHANGED <<lru, index, free, misses, nextIid, pending, innerPending, out, next,
                  overwritten, doubtful, clashed, strays, early, stale>>
  BY <1>1, <1>2, Ending
<1>4. PICK d \in Transfer, ok \in BOOLEAN : Ended(c, d, ok)
  BY <1>1, <1>2, Ending
<1>5. /\ d.tag = c.tag /\ d.id = c.id /\ d.slot = c.slot
      /\ inner' = (inner \ {c}) \cup {d}
  BY <1>4 DEF Ended
<1>6. d \notin inner \ {c}
  BY <1>1, <1>5 DEF TransfersMatch
<1>7. /\ TypeOK' /\ MissesMatch' /\ CountsMatch' /\ SlotsMatch' /\ IndexMatch'
      /\ Outstanding' = Outstanding
  BY <1>1, <1>3, <1>4, <1>6, EndKeeps
<1>8. TransfersMatch'
  <2>1. \A e \in inner' : e.id < next' /\ (e.slot = None => e.tag = TagBase + e.id)
    BY <1>1, <1>3, <1>5 DEF TransfersMatch
  <2>2. \A e, f \in inner' : e.id = f.id => e = f
    BY <1>1, <1>5 DEF TransfersMatch
  <2> QED
    BY <2>1, <2>2 DEF TransfersMatch
<1>9. TokensOwned'
  <2> DEFINE x == <<"inner", d>>
             g == [p \in Places' |-> IF p = x THEN <<"inner", c>> ELSE p]
  <2>1. CallerTags' = CallerTags /\ MissTags' = MissTags
    BY <1>3, <1>7 DEF CallerTags, MissTags
  <2>2. ASSUME NEW p \in Places'
        PROVE  g[p] \in Places /\ TagAt'[p] = TagAt[g[p]] /\ (p \in ByCaller' => g[p] \in ByCaller)
    <3>1. CASE p = x
      <4>1. g[p] = <<"inner", c>> /\ d \in inner'
        BY <1>5, <3>1
      <4> QED
        BY <1>5, <3>1, <4>1, PlaceCases DEF PlacesSplit
    <3>2. CASE p # x
      <4>1. g[p] = p
        BY <3>2
      <4>2. CASE \E n \in DOMAIN pending : p = <<"pending", n>>
        BY <1>3, <4>1, <4>2, PlaceCases DEF PlacesSplit
      <4>3. CASE \E n \in DOMAIN out : p = <<"out", n>>
        BY <1>3, <4>1, <4>3, PlaceCases DEF PlacesSplit
      <4>4. CASE \E e \in inner' : p = <<"inner", e>>
        <5>1. PICK e \in inner' : p = <<"inner", e>>
          BY <4>4
        <5>2. e \in inner
          BY <1>5, <3>2, <5>1
        <5> QED
          BY <4>1, <5>1, <5>2, PlaceCases DEF PlacesSplit
      <4> QED
        BY <1>3, <4>2, <4>3, <4>4, PlaceCases DEF PlacesSplit
    <3> QED
      BY <3>1, <3>2
  <2>3. \A p, q \in Places' : g[p] = g[q] => p = q
    <3>1. \A p \in Places' : p # x => p # <<"inner", c>>
      <4> SUFFICES ASSUME <<"inner", c>> \in Places', c # d PROVE FALSE
        OBVIOUS
      <4>1. c \in inner'
        BY DEF Places
      <4> QED
        BY <1>5, <4>1
    <3> QED
      BY <3>1
  <2> HIDE DEF g
  <2>4. Moves(g, Places, TagAt, ByCaller, Places', TagAt', ByCaller')
    BY <2>2, <2>3 DEF Moves
  <2>5. OwnedBy(Places', TagAt', ByCaller', CallerTags', MissTags')
    <3>1. OwnedBy(Places, TagAt, ByCaller, CallerTags, MissTags)
      BY <1>1 DEF TokensOwned
    <3>2. CallerTags \subseteq CallerTags' /\ MissTags \subseteq MissTags'
      BY <2>1
    <3> QED
      BY <2>4, <3>1, <3>2, OwnedMoved
  <2> QED
    BY <2>5 DEF TokensOwned, OwnedBy
<1> QED
  <2>1. strays' = {}
    BY <1>1, <1>3
  <2> QED
    BY <1>7, <1>8, <1>9, <2>1 DEF SlotInv

LEMMA SlotReapKeeps ==
  ASSUME SlotInv, Reap
  PROVE  SlotInv'
<1>1. /\ TypeOK /\ MissesMatch /\ TokensOwned /\ TransfersMatch /\ CountsMatch
      /\ SlotsMatch /\ IndexMatch /\ strays = {} /\ IsFiniteSet(inner)
  BY DEF SlotInv, CountsMatch
<1>2. PICK hits, n, q : Reaped(hits, n, q)
  BY <1>1, Reaping
<1>3. /\ UNCHANGED <<misses, next, strays>> /\ out = << >>
  BY DEF Reap, pool, caller
<1>4. /\ TypeOK' /\ MissesMatch' /\ CountsMatch' /\ SlotsMatch' /\ IndexMatch'
      /\ Outstanding' = Outstanding
  BY <1>1, <1>2, ReapBooks
<1>5. /\ \A i \in 1..n : q[i] \in inner /\ q[i] \notin inner'
      /\ \A i, j \in 1..n : q[i] = q[j] => i = j
      /\ \A i \in 1..n : out'[hits + i].tag = q[i].tag /\ ~out'[hits + i].hit
      /\ inner' \subseteq inner /\ n \in Nat
  BY <1>2 DEF Reaped
<1>6. /\ \A j \in DOMAIN pending' : /\ hits + j \in DOMAIN pending /\ pending'[j] = pending[hits + j]
                                    /\ j \in Nat /\ hits + j \notin 1..hits
      /\ \A j \in 1..hits : j \in DOMAIN pending /\ out'[j] = pending[j]
      /\ \A j \in DOMAIN out' : j \in 1..hits \/ \E i \in 1..n : j = hits + i
      /\ hits \in Nat
  BY <1>1, <1>2, ReapSources
<1>7. TransfersMatch'
  BY <1>1, <1>3, <1>5 DEF TransfersMatch
<1>8. TokensOwned'
  <2> DEFINE from(p) == IF p[1] = "pending" THEN <<"pending", hits + p[2]>>
                        ELSE IF p[1] = "inner" THEN p
                        ELSE IF p[2] \in 1..hits THEN <<"pending", p[2]>>
                        ELSE <<"inner", q[p[2] - hits]>>
             g == [p \in Places' |-> from(p)]
  <2>1. CallerTags' = CallerTags /\ MissTags' = MissTags
    BY <1>3, <1>4 DEF CallerTags, MissTags
  <2>2. /\ \A j \in DOMAIN pending' : <<"pending", j>> \in Places' /\ g[<<"pending", j>>] = <<"pending", hits + j>>
        /\ \A j \in 1..hits : <<"out", j>> \in Places' => g[<<"out", j>>] = <<"pending", j>>
        /\ \A i \in 1..n : <<"out", hits + i>> \in Places' => g[<<"out", hits + i>>] = <<"inner", q[i]>>
        /\ \A c \in inner' : <<"inner", c>> \in Places' /\ g[<<"inner", c>>] = <<"inner", c>>
    <3>1. \A i \in 1..n : hits + i \notin 1..hits /\ (hits + i) - hits = i
      BY <1>5, <1>6
    <3>2. \A j \in DOMAIN pending' : <<"pending", j>> \in Places'
      BY PlaceCases DEF PlacesSplit
    <3>3. \A c \in inner' : <<"inner", c>> \in Places'
      BY PlaceCases DEF PlacesSplit
    <3> QED
      BY <3>1, <3>2, <3>3
  <2>3. \A p \in Places' :
          \/ \E j \in DOMAIN pending' : p = <<"pending", j>>
          \/ \E j \in 1..hits : p = <<"out", j>> /\ j \in DOMAIN out'
          \/ \E i \in 1..n : p = <<"out", hits + i>> /\ hits + i \in DOMAIN out'
          \/ \E c \in inner' : p = <<"inner", c>>
    BY <1>6, PlaceCases DEF PlacesSplit
  <2> HIDE DEF g
  <2>4. ASSUME NEW p \in Places'
        PROVE  g[p] \in Places /\ TagAt'[p] = TagAt[g[p]] /\ (p \in ByCaller' => g[p] \in ByCaller)
    <3>1. CASE \E j \in DOMAIN pending' : p = <<"pending", j>>
      <4>1. PICK j \in DOMAIN pending' : p = <<"pending", j>>
        BY <3>1
      <4>2. g[p] = <<"pending", hits + j>> /\ hits + j \in DOMAIN pending /\ pending'[j] = pending[hits + j]
        BY <1>6, <2>2, <4>1
      <4> QED
        BY <4>1, <4>2, PlaceCases DEF PlacesSplit
    <3>2. CASE \E j \in 1..hits : p = <<"out", j>> /\ j \in DOMAIN out'
      <4>1. PICK j \in 1..hits : p = <<"out", j>> /\ j \in DOMAIN out'
        BY <3>2
      <4>2. g[p] = <<"pending", j>> /\ j \in DOMAIN pending /\ out'[j] = pending[j]
        BY <1>6, <2>2, <4>1
      <4> QED
        BY <4>1, <4>2, PlaceCases DEF PlacesSplit
    <3>3. CASE \E i \in 1..n : p = <<"out", hits + i>> /\ hits + i \in DOMAIN out'
      <4>1. PICK i \in 1..n : p = <<"out", hits + i>> /\ hits + i \in DOMAIN out'
        BY <3>3
      <4>2. g[p] = <<"inner", q[i]>> /\ q[i] \in inner
            /\ out'[hits + i].tag = q[i].tag /\ ~out'[hits + i].hit
        BY <1>5, <2>2, <4>1
      <4>3. p \notin ByCaller' /\ TagAt'[p] = q[i].tag
        BY <4>1, <4>2, PlaceCases DEF PlacesSplit
      <4> QED
        BY <4>2, <4>3, PlaceCases DEF PlacesSplit
    <3>4. CASE \E c \in inner' : p = <<"inner", c>>
      <4>1. PICK c \in inner' : p = <<"inner", c>>
        BY <3>4
      <4>2. g[p] = p /\ c \in inner
        BY <1>5, <2>2, <4>1
      <4> QED
        BY <4>1, <4>2, PlaceCases DEF PlacesSplit
    <3> QED
      BY <2>3, <3>1, <3>2, <3>3, <3>4
  <2>5. \A p, r \in Places' : g[p] = g[r] => p = r
    <3>1. \A j, l \in DOMAIN pending' : hits + j = hits + l => j = l
      BY <1>6
    <3>2. \A j \in DOMAIN pending', l \in 1..hits : hits + j # l
      BY <1>6
    <3>3. \A i, j \in 1..n : <<"inner", q[i]>> = <<"inner", q[j]>> => i = j
      BY <1>5
    <3>4. \A i \in 1..n, c \in inner' : <<"inner", q[i]>> # <<"inner", c>>
      BY <1>5
    <3> QED
      BY <2>2, <2>3, <3>1, <3>2, <3>3, <3>4
  <2>6. Moves(g, Places, TagAt, ByCaller, Places', TagAt', ByCaller')
    BY <2>4, <2>5 DEF Moves
  <2>7. OwnedBy(Places', TagAt', ByCaller', CallerTags', MissTags')
    <3>1. OwnedBy(Places, TagAt, ByCaller, CallerTags, MissTags)
      BY <1>1 DEF TokensOwned
    <3>2. CallerTags \subseteq CallerTags' /\ MissTags \subseteq MissTags'
      BY <2>1
    <3> QED
      BY <2>6, <3>1, <3>2, OwnedMoved
  <2> QED
    BY <2>7 DEF TokensOwned, OwnedBy
<1> QED
  <2>1. strays' = {}
    BY <1>1, <1>3
  <2> QED
    BY <1>4, <1>7, <1>8, <2>1 DEF SlotInv

\* Handing out the oldest completion, the others stay on their way.
LEMMA TakenMoves ==
  ASSUME TypeOK, NEW i, Taken(i)
  PROVE  /\ <<"out", 1>> \in Places /\ TagAt[<<"out", 1>>] = out[1].tag
         /\ (<<"out", 1>> \in ByCaller) = (out[1].hit = TRUE)
         /\ \E g : /\ Moves(g, Places, TagAt, ByCaller, Places', TagAt', ByCaller')
                   /\ \A p \in Places' : g[p] # <<"out", 1>>
<1>1. /\ 1 \in DOMAIN out /\ out' \in Seq(Completion) /\ Len(out') = Len(out) - 1
      /\ \A n \in 1..(Len(out) - 1) : out'[n] = out[n + 1] /\ n + 1 \in DOMAIN out /\ n + 1 # 1
      /\ pending' = pending /\ inner' = inner
  BY DEF Taken
<1>2. \A n \in DOMAIN out' : /\ n \in Int /\ n + 1 \in DOMAIN out /\ n + 1 # 1
                             /\ out'[n] = out[n + 1]
  BY <1>1, LenProperties
<1> DEFINE g == [p \in Places' |-> IF p[1] = "out" THEN <<"out", p[2] + 1>> ELSE p]
<1>3. /\ \A n \in DOMAIN out' : <<"out", n>> \in Places' /\ g[<<"out", n>>] = <<"out", n + 1>>
      /\ \A n \in DOMAIN pending : <<"pending", n>> \in Places' /\ g[<<"pending", n>>] = <<"pending", n>>
      /\ \A c \in inner : <<"inner", c>> \in Places' /\ g[<<"inner", c>>] = <<"inner", c>>
  <2>1. /\ \A n \in DOMAIN out' : <<"out", n>> \in Places'
        /\ \A n \in DOMAIN pending : <<"pending", n>> \in Places'
        /\ \A c \in inner : <<"inner", c>> \in Places'
    BY <1>1, PlaceCases DEF PlacesSplit
  <2> QED
    BY <2>1
<1>4. \A p \in Places' :
        \/ \E n \in DOMAIN out' : p = <<"out", n>>
        \/ \E n \in DOMAIN pending : p = <<"pending", n>>
        \/ \E c \in inner : p = <<"inner", c>>
  BY <1>1, PlaceCases DEF PlacesSplit
<1> HIDE DEF g
<1>5. ASSUME NEW p \in Places'
      PROVE  /\ g[p] \in Places /\ TagAt'[p] = TagAt[g[p]] /\ (p \in ByCaller' => g[p] \in ByCaller)
             /\ g[p] # <<"out", 1>>
  <2>1. CASE \E n \in DOMAIN out' : p = <<"out", n>>
    <3>1. PICK n \in DOMAIN out' : p = <<"out", n>>
      BY <2>1
    <3>2. g[p] = <<"out", n + 1>> /\ n + 1 \in DOMAIN out /\ out'[n] = out[n + 1] /\ n + 1 # 1
      BY <1>2, <1>3, <3>1
    <3> QED
      BY <3>1, <3>2, PlaceCases DEF PlacesSplit
  <2>2. CASE \E n \in DOMAIN pending : p = <<"pending", n>>
    <3>1. PICK n \in DOMAIN pending : p = <<"pending", n>>
      BY <2>2
    <3>2. g[p] = p /\ n \in DOMAIN pending' /\ pending'[n] = pending[n]
      BY <1>1, <1>3, <3>1
    <3> QED
      BY <3>1, <3>2, PlaceCases DEF PlacesSplit
  <2>3. CASE \E c \in inner : p = <<"inner", c>>
    <3>1. PICK c \in inner : p = <<"inner", c>>
      BY <2>3
    <3>2. g[p] = p /\ c \in inner'
      BY <1>1, <1>3, <3>1
    <3> QED
      BY <3>1, <3>2, PlaceCases DEF PlacesSplit
  <2> QED
    BY <1>4, <2>1, <2>2, <2>3
<1>6. \A p, r \in Places' : g[p] = g[r] => p = r
  <2>1. \A n, l \in DOMAIN out' : n + 1 = l + 1 => n = l
    BY <1>2
  <2> QED
    BY <1>3, <1>4, <2>1
<1>7. Moves(g, Places, TagAt, ByCaller, Places', TagAt', ByCaller')
  BY <1>5, <1>6 DEF Moves
<1> QED
  BY <1>1, <1>5, <1>7, PlaceCases DEF PlacesSplit

LEMMA SlotHandOutKeeps ==
  ASSUME SlotInv, HandOut
  PROVE  SlotInv'
<1>1. /\ TypeOK /\ MissesMatch /\ TokensOwned /\ TransfersMatch /\ CountsMatch
      /\ SlotsMatch /\ IndexMatch /\ strays = {}
      /\ OwnedBy(Places, TagAt, ByCaller, CallerTags, MissTags)
  BY DEF SlotInv, TokensOwned
<1>2. /\ out # << >> /\ out' = Tail(out) /\ Head(out) = out[1] /\ 1 \in DOMAIN out
      /\ UNCHANGED <<slots, lru, index, free, misses, nextIid>>
      /\ UNCHANGED <<pending, inner, innerPending, disk, next, overwritten, doubtful, clashed>>
  <2>1. out \in Seq(Completion) /\ out # << >>
    BY DEF HandOut, SlotInv, TypeOK
  <2>2. 1 \in DOMAIN out /\ Head(out) = out[1]
    BY <2>1, EmptySeq, LenProperties
  <2> QED
    BY <2>1, <2>2 DEF HandOut, pool
<1>3. /\ <<"out", 1>> \in Places /\ TagAt[<<"out", 1>>] = out[1].tag
      /\ (<<"out", 1>> \in ByCaller) = (out[1].hit = TRUE)
  BY <1>2, PlaceCases DEF PlacesSplit
<1>4. <<"out", 1>> \in ByCaller \/ out[1].tag \notin MissTags
  BY <1>2, <1>3 DEF HandOut, MissOf, MissTags
<1>5. out[1].tag \in CallerTags
  BY <1>1, <1>3, <1>4 DEF OwnedBy
<1>6. PICK i \in Outstanding : out[1].tag = TagBase + i /\ \A m \in misses : m.id # i
  BY <1>5 DEF CallerTags
<1>7. i \in Ids /\ (TagBase + i) - TagBase = i /\ i \in Nat
  BY Numbers DEF Outstanding
<1>8. Answer(TagBase + i, Head(out).ok, req[i].buf)
  BY <1>2, <1>6, <1>7 DEF HandOut
<1>9. Taken(i)
  BY <1>1, <1>2, <1>8, Taking
<1>10. /\ req' \in [Ids -> Request \cup {None}] /\ Outstanding' = Outstanding \ {i}
       /\ out' \in Seq(Completion) /\ early' \subseteq Ids /\ stale' \subseteq Ids
       /\ strays' = strays
  BY <1>9 DEF Taken
<1>11. TypeOK'
  BY <1>1, <1>2, <1>10 DEF TypeOK
<1>12. SlotsMatch' /\ IndexMatch' /\ TransfersMatch'
  <2>1. Pinned' = Pinned
    BY <1>2 DEF Pinned
  <2> QED
    BY <1>1, <1>2, <2>1 DEF SlotsMatch, IndexMatch, TransfersMatch
<1>13. MissesMatch' /\ CountsMatch'
  BY <1>1, <1>2, <1>6, <1>9, TakingBooks
<1>14. TokensOwned'
  <2>1. PICK g : /\ Moves(g, Places, TagAt, ByCaller, Places', TagAt', ByCaller')
                 /\ \A p \in Places' : g[p] # <<"out", 1>>
    BY <1>1, <1>9, TakenMoves
  <2>2. \A t \in CallerTags : t # out[1].tag => t \in CallerTags'
    BY <1>2, <1>6, <1>10 DEF CallerTags
  <2>3. MissTags \subseteq MissTags'
    BY <1>2 DEF MissTags
  <2>4. <<"out", 1>> \in ByCaller \/ TagAt[<<"out", 1>>] \notin MissTags
    BY <1>3, <1>4
  <2> DEFINE x == <<"out", 1>>
  <2>5. /\ x \in Places /\ (x \in ByCaller \/ TagAt[x] \notin MissTags)
        /\ \A p \in Places' : g[p] # x
        /\ \A t \in CallerTags : t # TagAt[x] => t \in CallerTags'
    BY <1>3, <2>1, <2>2, <2>4
  <2> HIDE DEF x
  <2>6. OwnedBy(Places', TagAt', ByCaller', CallerTags', MissTags')
    BY <1>1, <2>1, <2>3, <2>5, OwnedAnswered
  <2> QED
    BY <2>6 DEF TokensOwned, OwnedBy
<1> QED
  <2>1. strays' = {}
    BY <1>1, <1>10
  <2> QED
    BY <1>11, <1>12, <1>13, <1>14, <2>1 DEF SlotInv

LEMMA SlotHandOutMissKeeps ==
  ASSUME SlotInv, HandOutMiss
  PROVE  SlotInv'
<1>1. /\ TypeOK /\ MissesMatch /\ TokensOwned /\ TransfersMatch /\ CountsMatch
      /\ SlotsMatch /\ IndexMatch /\ strays = {}
      /\ OwnedBy(Places, TagAt, ByCaller, CallerTags, MissTags)
  BY DEF SlotInv, TokensOwned
<1>2. PICK m \in misses : MissTaken(m)
  BY <1>1, TakingMiss
<1>3. /\ Taken(m.id) /\ out[1].tag = m.iid /\ m \in Miss /\ misses' = misses \ {m}
      /\ \A s \in Slots : slots'[s].offset = slots[s].offset
  BY <1>2 DEF MissTaken
<1>4. /\ m.id \in Outstanding /\ Outstanding' = Outstanding \ {m.id}
      /\ UNCHANGED <<inner, next, strays>>
  BY <1>3 DEF Taken
<1>5. TypeOK' /\ SlotsMatch' /\ IndexMatch'
  BY <1>1, <1>2, MissSlots
<1>6. MissesMatch' /\ CountsMatch'
  <2>1. \A l \in misses' : l \in misses /\ l.id # m.id
    BY <1>1, <1>3 DEF MissesMatch
  <2> QED
    BY <1>1, <1>3, <1>4, <2>1, TakingBooks
<1>7. TransfersMatch'
  BY <1>1, <1>4 DEF TransfersMatch
<1>8. TokensOwned'
  <2> DEFINE x == <<"out", 1>>
  <2>1. x \in Places /\ TagAt[x] = m.iid
    BY <1>1, <1>3, TakenMoves
  <2>2. PICK g : /\ Moves(g, Places, TagAt, ByCaller, Places', TagAt', ByCaller')
                 /\ \A p \in Places' : g[p] # x
    BY <1>1, <1>3, TakenMoves
  <2>3. CallerTags \subseteq CallerTags'
    BY <1>3, <1>4 DEF CallerTags
  <2>4. \A t \in MissTags : t # TagAt[x] => t \in MissTags'
    BY <1>3, <2>1 DEF MissTags
  <2> HIDE DEF x
  <2>5. OwnedBy(Places', TagAt', ByCaller', CallerTags', MissTags')
    BY <1>1, <2>1, <2>2, <2>3, <2>4, OwnedMissAnswered
  <2> QED
    BY <2>5 DEF TokensOwned, OwnedBy
<1> QED
  <2>1. strays' = {}
    BY <1>1, <1>4
  <2> QED
    BY <1>5, <1>6, <1>7, <1>8, <2>1 DEF SlotInv

-----------------------------------------------------------------------------
(* The theorems *)

\* Nothing is submitted at first, and every slot is free.
LEMMA Starting ==
  ASSUME Init
  PROVE  /\ TypeOK /\ MissesMatch /\ CountsMatch /\ SlotsMatch /\ IndexMatch
         /\ Outstanding = {} /\ ToSet(lru) = {} /\ misses = {} /\ inner = {}
         /\ DOMAIN pending = {} /\ DOMAIN out = {}
<1>1. TypeOK
  <2>1. Junk \in Contents /\ \A o \in Offsets : <<o, None>> \in Contents \ {Junk}
    BY NoneAssumption DEF Contents
  <2>2. [offset |-> None, valid |-> FALSE, pinned |-> FALSE, data |-> Junk] \in Slot
    BY <2>1 DEF Slot
  <2>3. << >> \in Seq(Slots) /\ << >> \in Seq(Completion)
    BY EmptySeq
  <2>4. disk \in [Offsets -> Contents \ {Junk}] /\ next \in 0..MaxRequests
    BY <2>1, Numbers DEF Init
  <2>5. /\ slots \in [Slots -> Slot] /\ req \in [Ids -> Request \cup {None}]
        /\ index \in [Offsets -> Slots \cup {None}]
    BY <2>2 DEF Init
  <2>6. /\ lru = << >> /\ free = Slots /\ misses = {} /\ nextIid = 1 /\ pending = << >>
        /\ inner = {} /\ innerPending = 0 /\ out = << >>
        /\ overwritten = {} /\ doubtful = {} /\ clashed = FALSE
        /\ strays = {} /\ early = {} /\ stale = {}
    BY DEF Init
  <2>7. /\ lru \in Seq(Slots) /\ pending \in Seq(Completion) /\ out \in Seq(Completion)
        /\ free \subseteq Slots /\ misses \subseteq Miss /\ inner \subseteq Transfer
        /\ nextIid \in Nat \ {0} /\ innerPending \in Nat
    BY <2>3, <2>6
  <2>8. /\ overwritten \subseteq Offsets /\ doubtful \subseteq Offsets /\ clashed \in BOOLEAN
        /\ strays \subseteq Nat /\ early \subseteq Ids /\ stale \subseteq Ids
    BY <2>6
  <2> QED
    BY <2>4, <2>5, <2>7, <2>8 DEF TypeOK
<1>2. Outstanding = {} /\ Pinned = {} /\ ToSet(lru) = {} /\ IsInjective(lru)
      /\ misses = {} /\ inner = {} /\ pending = << >> /\ out = << >> /\ DOMAIN pending = {}
      /\ DOMAIN out = {} /\ \A o \in Offsets : index[o] = None
  BY DEF Init, Outstanding, Pinned, ToSet, IsInjective
<1>3. MissesMatch
  BY <1>2, Numbers DEF MissesMatch, Init
<1>4. CountsMatch
  <2>1. Cardinality({}) = 0 /\ IsFiniteSet({})
    BY FS_EmptySet
  <2>2. Len(pending) = 0 /\ Len(out) = 0 /\ innerPending = 0
    BY <1>2 DEF Init
  <2> QED
    BY <1>2, <2>1, <2>2 DEF CountsMatch
<1>5. SlotsMatch /\ IndexMatch
  <2>1. \A s \in Slots : /\ slots[s].valid = (s \in ToSet(lru))
                         /\ slots[s].pinned = (s \in Pinned)
    <3>1. \A s \in Slots : slots[s].valid = FALSE /\ slots[s].pinned = FALSE
      BY DEF Init
    <3>2. \A s \in Slots : (s \in ToSet(lru)) = FALSE /\ (s \in Pinned) = FALSE
      BY <1>2
    <3> QED
      BY <3>1, <3>2
  <2>2. free = Slots
    BY DEF Init
  <2>3. SlotsMatch
    BY <1>2, <2>1, <2>2 DEF SlotsMatch
  <2> QED
    BY <1>2, <2>2, <2>3 DEF IndexMatch
<1> QED
  BY <1>1, <1>2, <1>3, <1>4, <1>5

LEMMA SlotsStart ==
  ASSUME Init
  PROVE  SlotInv
<1>1. Places = {} /\ inner = {}
  BY Starting DEF Places
<1>2. TokensOwned /\ TransfersMatch
  BY <1>1 DEF TokensOwned, OwnedBy, TransfersMatch
<1>3. strays = {}
  BY DEF Init
<1> QED
  BY <1>2, <1>3, Starting DEF SlotInv

\* Whatever tags the caller uses, even those submit gives to misses: slots are
\* free, listed or lent to one miss, and what is on its way is for as many
\* requests as are waiting (cached_backend.cpp:56-262).
THEOREM SlotInvariant == Spec => []SlotInv
<1>1. Init => SlotInv
  BY SlotsStart
<1>2. SlotInv /\ [Next]_vars => SlotInv'
  <2> SUFFICES ASSUME SlotInv, [Next]_vars PROVE SlotInv'
    OBVIOUS
  <2>1. ASSUME NEW k \in Kinds, NEW o \in Offsets, Submit(k, o) PROVE SlotInv'
    BY <2>1, SlotSubmitKeeps
  <2>2. ASSUME NEW c \in inner, Complete(c) PROVE SlotInv'
    BY <2>2, SlotCompleteKeeps
  <2>3. CASE Reap
    BY <2>3, SlotReapKeeps
  <2>4. CASE HandOut
    BY <2>4, SlotHandOutKeeps
  <2>5. CASE HandOutMiss
    BY <2>5, SlotHandOutMissKeeps
  <2>6. CASE UNCHANGED vars
    <3>1. TypeOK' /\ MissesMatch' /\ TransfersMatch' /\ CountsMatch' /\ strays' = {}
      BY <2>6 DEF vars, pool, caller, SlotInv, TypeOK, MissesMatch, TransfersMatch, CountsMatch,
                  Outstanding
    <3>2. SlotsMatch' /\ IndexMatch'
      BY <2>6 DEF vars, pool, caller, SlotInv, SlotsMatch, IndexMatch, Pinned
    <3>3. /\ Places' = Places /\ TagAt' = TagAt /\ ByCaller' = ByCaller
          /\ CallerTags' = CallerTags /\ MissTags' = MissTags
      BY <2>6 DEF vars, pool, caller, Places, TagAt, ByCaller, CallerTags, MissTags, Outstanding
    <3>4. TokensOwned'
      BY <3>3 DEF SlotInv, TokensOwned, OwnedBy
    <3> QED
      BY <3>1, <3>2, <3>4 DEF SlotInv
  <2> QED
    BY <2>1, <2>2, <2>3, <2>4, <2>5, <2>6 DEF Next
<1> QED
  BY <1>1, <1>2, PTL DEF Spec

\* A slot lent out belongs to one miss, and its miss to one request.
LEMMA OneSlotAMiss ==
  ASSUME TypeOK, MissesMatch
  PROVE  /\ Cardinality(Pinned) = Cardinality(misses) /\ IsFiniteSet(misses)
         /\ Cardinality(Pinned) <= Cardinality(Outstanding)
<1> DEFINE of == [s \in Pinned |-> CHOOSE m \in misses : m.slot = s]
<1>1. \A s \in Pinned : of[s] \in misses /\ of[s].slot = s
  BY DEF Pinned
<1>2. \A m \in misses : m.slot \in Pinned /\ of[m.slot] = m
  <2>1. \A m, n \in misses : m.slot = n.slot => m = n
    BY DEF MissesMatch
  <2>2. \A m \in misses : m.slot \in Pinned
    BY DEF Pinned
  <2> QED
    BY <1>1, <2>1, <2>2
<1>3. of \in [Pinned -> misses]
  BY <1>1
<1>4. IsFiniteSet(Pinned)
  <2>1. Pinned \in SUBSET Slots
    BY DEF Pinned, TypeOK, Miss
  <2> QED
    BY <2>1, PoolAssumption, FS_Subset
<1> HIDE DEF of
<1>5. of \in Bijection(Pinned, misses)
  <2>1. of \in Injection(Pinned, misses)
    BY <1>1, <1>3 DEF Injection, IsInjective
  <2>2. of \in Surjection(Pinned, misses)
    BY <1>2, <1>3 DEF Surjection
  <2> QED
    BY <2>1, <2>2 DEF Bijection
<1>6. Cardinality(Pinned) = Cardinality(misses) /\ IsFiniteSet(misses)
  BY <1>4, <1>5, FS_Bijection DEF ExistsBijection
<1>7. Cardinality(Pinned) <= Cardinality(Outstanding)
  <2> DEFINE who == [s \in Pinned |-> of[s].id]
  <2>1. \A m \in misses : m.id \in Outstanding
    BY DEF MissesMatch, TypeOK, Miss, Outstanding
  <2>2. who \in [Pinned -> Outstanding]
    BY <1>1, <2>1
  <2>3. \A r, s \in Pinned : who[r] = who[s] => r = s
    <3>1. \A m, n \in misses : m.id = n.id => m = n
      BY DEF MissesMatch
    <3> QED
      BY <1>1, <3>1
  <2> HIDE DEF who
  <2>4. who \in Injection(Pinned, Outstanding)
    BY <2>2, <2>3 DEF Injection, IsInjective
  <2> QED
    BY <2>4, Numbers, FS_Injection
<1> QED
  BY <1>6, <1>7

\* Between two reaps, what is pending or inside is all there is.
LEMMA InFlightExact ==
  ASSUME TypeOK, CountsMatch
  PROVE  InFlightIsExact
<1> SUFFICES ASSUME out = << >> PROVE Len(pending) + innerPending = Cardinality(Outstanding)
  BY DEF InFlightIsExact
<1>1. Len(pending) \in Nat /\ innerPending \in Nat /\ Len(out) = 0
  BY LenProperties DEF TypeOK
<1>2. Len(pending) + Len(out) + innerPending = Cardinality(Outstanding)
  BY DEF CountsMatch
<1> QED
  BY <1>1, <1>2

\* Each slot of the pool is free, in the LRU list or lent to one miss, and the
\* index tells where a block is (cached_backend.cpp:83-109, 175-190, 239-254).
THEOREM PoolStaysConsistent == Spec => []PoolConsistent
<1>1. SlotInv => PoolConsistent
  <2> SUFFICES ASSUME SlotInv PROVE PoolConsistent
    OBVIOUS
  <2>1. TypeOK /\ MissesMatch /\ SlotsMatch /\ IndexMatch
    BY DEF SlotInv
  <2>2. Cardinality(Pinned) = Cardinality(misses)
    BY <2>1, OneSlotAMiss
  <2> QED
    BY <2>1, <2>2 DEF PoolConsistent, SlotsMatch, IndexMatch
<1> QED
  BY <1>1, SlotInvariant, PTL

\* A caller that keeps to max_in_flight, no more than there are slots, always
\* finds a slot for its miss (cached_backend.cpp:89-97).
THEOREM PoolNeverExhausted == Spec => []NeverExhausted
<1>1. SlotInv => NeverExhausted
  <2> SUFFICES ASSUME SlotInv, free = {}, lru = << >>
               PROVE  Cardinality(Outstanding) >= MaxInFlight
    BY DEF NeverExhausted
  <2>1. TypeOK /\ MissesMatch /\ SlotsMatch
    BY DEF SlotInv
  <2>2. Pinned = Slots
    <3>1. ToSet(lru) = {}
      BY DEF ToSet
    <3>2. free \cup ToSet(lru) \cup Pinned = Slots
      BY <2>1 DEF SlotsMatch
    <3> QED
      BY <3>1, <3>2
  <2>3. Cardinality(Slots) <= Cardinality(Outstanding)
    BY <2>1, <2>2, OneSlotAMiss
  <2>4. Cardinality(Slots) \in Nat /\ Cardinality(Slots) >= MaxInFlight
    BY PoolAssumption, FS_CardinalityType
  <2> QED
    BY <2>3, <2>4, Numbers
<1> QED
  BY <1>1, SlotInvariant, PTL

\* Whatever tags the caller uses, a completion answers a request that is
\* waiting, and in_flight() is what is still to come, so the loop that reaps
\* while it is positive answers them all (cached_backend.cpp:215-262).
THEOREM EachIsAnswered == Spec => [](strays = {} /\ InFlightIsExact)
<1>1. SlotInv => strays = {} /\ InFlightIsExact
  BY InFlightExact DEF SlotInv
<1> QED
  BY <1>1, SlotInvariant, PTL

-----------------------------------------------------------------------------
(* Until a tag of the caller's meets the id of a miss: the invariant *)

\* A hit that tag is of request i, which the caller gave it; and so is another
\* completion of that tag, or it is of the miss with that id, ms being those
\* that are live.
HitIn(ms, tag, i) == tag = TagBase + i /\ \A m \in ms : m.id # i
NamesIn(ms, tag, i) ==
  (HitIn(ms, tag, i) /\ \A m \in ms : m.iid # tag) \/ \E m \in ms : m.iid = tag /\ m.id = i

\* There is one completion or transfer for a request.
IdsDiffer ==
  /\ \A n, l \in DOMAIN pending : pending[n].id = pending[l].id => n = l
  /\ \A n, l \in DOMAIN out : out[n].id = out[l].id => n = l
  /\ \A n \in DOMAIN pending, l \in DOMAIN out : pending[n].id # out[l].id
  /\ \A n \in DOMAIN pending, c \in inner : pending[n].id # c.id
  /\ \A l \in DOMAIN out, c \in inner : out[l].id # c.id

\* It bears the request's tag, or the id of its miss; and no miss is without.
NamesMatch ==
  /\ \A n \in DOMAIN pending :
       /\ pending[n].id \in Outstanding /\ pending[n].hit
       /\ HitIn(misses, pending[n].tag, pending[n].id)
  /\ \A n \in DOMAIN out :
       /\ out[n].id \in Outstanding
       /\ out[n].hit => HitIn(misses, out[n].tag, out[n].id)
       /\ ~out[n].hit => NamesIn(misses, out[n].tag, out[n].id)
  /\ \A c \in inner :
       /\ c.id \in Outstanding /\ req[c.id].op = c.op /\ req[c.id].off = c.off
       /\ c.slot = None => HitIn(misses, c.tag, c.id) /\ \A m \in misses : m.iid # c.tag
       /\ c.slot # None =>
            c.op = "read" /\ \E m \in misses : m.iid = c.tag /\ m.id = c.id /\ m.slot = c.slot
  /\ \A m \in misses : (\E c \in inner : c.id = m.id) \/ \E n \in DOMAIN out : out[n].id = m.id

\* The requests whose content has come.
Arrived ==
  {pending[n].id : n \in DOMAIN pending} \cup {out[n].id : n \in {l \in DOMAIN out : out[l].ok}}
  \cup {c.id : c \in {d \in inner : d.done /\ d.ok}}

\* A read may see what the block holds now.
SeenNow == \A i \in Outstanding : disk[req[i].off] \in req[i].seen

\* An indexed block that no write passed by is not being written, and its slot,
\* once valid, holds it.
IndexFresh ==
  \A o \in Offsets : index[o] # None /\ o \notin doubtful =>
    ~WriteInAir(o) /\ (slots[index[o]].valid => slots[index[o]].data = disk[o])

\* So does the slot of a miss whose content has come, if it is indexed still;
\* in any case it holds what the read may see.
MissesFresh ==
  \A m \in misses : m.id \in Arrived =>
    /\ slots[m.slot].data \in req[m.id].seen
    /\ \A o \in Offsets : slots[m.slot].offset = o /\ index[o] = m.slot /\ o \notin doubtful
                          => slots[m.slot].data = disk[o]

\* A read of another kind has it in the caller's buffer.
BuffersFresh ==
  \A i \in Arrived : req[i].op = "read" /\ (\A m \in misses : m.id # i) => req[i].buf \in req[i].seen

Fresh == SeenNow /\ IndexFresh /\ MissesFresh /\ BuffersFresh

Apart == IdsDiffer /\ NamesMatch /\ Fresh /\ early = {} /\ stale = {}

CacheInv == SlotInv /\ (~clashed => Apart)

-----------------------------------------------------------------------------
(* Until a tag meets the id of a miss: submit *)

\* What is sent goes by a tag that is no live miss's, or the miss's own.
LEMMA SentNames ==
  ASSUME SlotInv, NamesMatch, ~clashed', NEW k \in Kinds, NEW o \in Offsets, Submit(k, o),
         NEW d, Sent(k, o, d)
  PROVE  NamesMatch'
<1>1. TypeOK /\ MissesMatch
  BY DEF SlotInv
<1>2. /\ next \notin Outstanding /\ out = << >> /\ out' = << >> /\ next \in Ids
      /\ Outstanding' = Outstanding \cup {next}
      /\ req'[next].op = k.op /\ req'[next].off = o
      /\ \A i \in Outstanding : req'[i] = req[i]
  <2>1. /\ next \notin Outstanding /\ out = << >> /\ UNCHANGED <<out, disk, strays, early, stale>>
        /\ next \in Ids /\ Outstanding' = Outstanding \cup {next}
        /\ req'[next].op = k.op /\ req'[next].off = o
        /\ \A i \in Ids : i # next => req'[i] = req[i]
    BY <1>1, Submitting
  <2> QED
    BY <2>1 DEF Outstanding
<1>3. DOMAIN out = {} /\ DOMAIN out' = {}
  BY <1>2
<1>4. /\ d.id = next /\ d.op = k.op /\ d.off = o
      /\ inner' = inner \cup {d} /\ pending' = pending
      /\ ~\E c \in inner : c.tag = d.tag /\ (c.slot = None) # (d.slot = None)
      /\ \/ d.slot = None /\ d.tag = TagBase + next /\ misses' = misses
         \/ /\ d.slot # None /\ d.tag = nextIid /\ k.op = "read"
            /\ \E m \in Miss : /\ m.iid = nextIid /\ m.id = next /\ m.slot = d.slot
                               /\ misses' = misses \cup {m}
  BY DEF Sent
<1>5. \A m \in misses : m.id \in Outstanding /\ m.id # next
  BY <1>1, <1>2 DEF MissesMatch, TypeOK, Miss, Outstanding
<1>6. /\ \A n \in DOMAIN pending : /\ pending[n].id \in Outstanding /\ pending[n].hit
                                   /\ HitIn(misses, pending[n].tag, pending[n].id)
      /\ \A c \in inner :
           /\ c.id \in Outstanding /\ req[c.id].op = c.op /\ req[c.id].off = c.off
           /\ c.slot = None => HitIn(misses, c.tag, c.id) /\ \A m \in misses : m.iid # c.tag
           /\ c.slot # None =>
                c.op = "read" /\ \E m \in misses : m.iid = c.tag /\ m.id = c.id /\ m.slot = c.slot
      /\ \A m \in misses : \E c \in inner : c.id = m.id
  BY <1>3 DEF NamesMatch
<1>7. \A c \in inner : c.id \in Outstanding' /\ req'[c.id].op = c.op /\ req'[c.id].off = c.off
  BY <1>2, <1>6
<1>8. /\ d.id \in Outstanding' /\ req'[d.id].op = d.op /\ req'[d.id].off = d.off
      /\ \A n \in DOMAIN pending : pending[n].id \in Outstanding' /\ pending[n].id # next
      /\ \A c \in inner : c.id # next
  BY <1>2, <1>4, <1>6
<1>9. CASE d.slot = None /\ d.tag = TagBase + next /\ misses' = misses
  <2>1. \A m \in misses : m.iid # d.tag
    <3> SUFFICES ASSUME NEW m \in misses, m.iid = d.tag PROVE FALSE
      OBVIOUS
    <3>1. PICK c \in inner : c.id = m.id
      BY <1>6
    <3>2. c.slot # None
      BY <1>6, <3>1 DEF HitIn
    <3>3. PICK l \in misses : l.iid = c.tag /\ l.id = c.id
      BY <1>6, <3>2
    <3>4. l = m
      BY <1>1, <3>1, <3>3 DEF MissesMatch
    <3> QED
      BY <1>4, <1>9, <3>2, <3>3, <3>4
  <2>2. HitIn(misses, d.tag, d.id)
    BY <1>4, <1>5, <1>9 DEF HitIn
  <2>3. \A c \in inner' :
          /\ c.id \in Outstanding' /\ req'[c.id].op = c.op /\ req'[c.id].off = c.off
          /\ c.slot = None => HitIn(misses', c.tag, c.id) /\ \A m \in misses' : m.iid # c.tag
          /\ c.slot # None =>
               c.op = "read" /\ \E m \in misses' : m.iid = c.tag /\ m.id = c.id /\ m.slot = c.slot
    BY <1>4, <1>6, <1>7, <1>8, <1>9, <2>1, <2>2
  <2>4. \A n \in DOMAIN pending' : /\ pending'[n].id \in Outstanding' /\ pending'[n].hit
                                   /\ HitIn(misses', pending'[n].tag, pending'[n].id)
    BY <1>4, <1>6, <1>8, <1>9
  <2>5. \A m \in misses' : \E c \in inner' : c.id = m.id
    BY <1>4, <1>6, <1>9
  <2> QED
    BY <1>3, <2>3, <2>4, <2>5 DEF NamesMatch
<1>10. CASE d.slot # None
  <2>1. d.tag = nextIid /\ k.op = "read"
    BY <1>4, <1>10
  <2>2. PICK m \in Miss : /\ m.iid = nextIid /\ m.id = next /\ m.slot = d.slot
                          /\ misses' = misses \cup {m}
    BY <1>4, <1>10
  <2>3. \A c \in inner : c.slot = None => c.tag # m.iid
    BY <1>4, <1>10, <2>1, <2>2
  <2>4. \A t, i : HitIn(misses, t, i) /\ i # next => HitIn(misses', t, i)
    BY <2>2 DEF HitIn
  <2>5. \A c \in inner :
          /\ c.slot = None => HitIn(misses', c.tag, c.id) /\ \A l \in misses' : l.iid # c.tag
          /\ c.slot # None =>
               c.op = "read" /\ \E l \in misses' : l.iid = c.tag /\ l.id = c.id /\ l.slot = c.slot
    BY <1>6, <1>8, <2>2, <2>3, <2>4
  <2>6. d.op = "read" /\ m \in misses' /\ m.iid = d.tag /\ m.id = d.id /\ m.slot = d.slot
    BY <1>4, <2>1, <2>2
  <2>7. \A c \in inner' :
          /\ c.id \in Outstanding' /\ req'[c.id].op = c.op /\ req'[c.id].off = c.off
          /\ c.slot = None => HitIn(misses', c.tag, c.id) /\ \A l \in misses' : l.iid # c.tag
          /\ c.slot # None =>
               c.op = "read" /\ \E l \in misses' : l.iid = c.tag /\ l.id = c.id /\ l.slot = c.slot
    BY <1>4, <1>7, <1>8, <1>10, <2>5, <2>6
  <2>8. \A n \in DOMAIN pending' : /\ pending'[n].id \in Outstanding' /\ pending'[n].hit
                                   /\ HitIn(misses', pending'[n].tag, pending'[n].id)
    BY <1>4, <1>6, <1>8, <2>4
  <2>9. \A l \in misses' : \E c \in inner' : c.id = l.id
    BY <1>4, <1>6, <2>2
  <2> QED
    BY <1>3, <2>7, <2>8, <2>9 DEF NamesMatch
<1> QED
  BY <1>4, <1>9, <1>10

\* A hit that is pending goes by the tag of its request.
LEMMA HitNames ==
  ASSUME SlotInv, NamesMatch, NEW k \in Kinds, NEW o \in Offsets, Hit(k, o)
  PROVE  /\ NamesMatch' /\ Len(pending) \in Nat
         /\ DOMAIN pending' = DOMAIN pending \cup {Len(pending) + 1}
         /\ \A n \in DOMAIN pending : pending'[n] = pending[n] /\ n # Len(pending) + 1
         /\ pending'[Len(pending) + 1].id = next
<1>1. TypeOK /\ MissesMatch /\ Submit(k, o)
  BY DEF SlotInv, Submit
<1>2. /\ next \notin Outstanding /\ out = << >> /\ out' = << >> /\ next \in Ids
      /\ Outstanding' = Outstanding \cup {next}
      /\ \A i \in Outstanding : req'[i] = req[i]
  <2>1. /\ next \notin Outstanding /\ out = << >> /\ UNCHANGED <<out, disk, strays, early, stale>>
        /\ next \in Ids /\ Outstanding' = Outstanding \cup {next}
        /\ \A i \in Ids : i # next => req'[i] = req[i]
    BY <1>1, Submitting
  <2> QED
    BY <2>1 DEF Outstanding
<1> DEFINE h == [tag |-> TagBase + next, id |-> next, ok |-> TRUE, hit |-> TRUE]
<1>3. /\ pending' = Append(pending, h) /\ h \in Completion
      /\ h.tag = TagBase + next /\ h.id = next /\ h.hit
      /\ UNCHANGED <<inner, misses>>
  BY <1>2, Numbers DEF Hit, Completion
<1> HIDE DEF h
<1>4. /\ Len(pending) \in Nat /\ DOMAIN pending = 1..Len(pending)
      /\ DOMAIN pending' = DOMAIN pending \cup {Len(pending) + 1}
      /\ \A n \in DOMAIN pending : pending'[n] = pending[n] /\ n # Len(pending) + 1
      /\ pending'[Len(pending) + 1] = h
  <2>1. pending \in Seq(Completion)
    BY <1>1 DEF TypeOK
  <2>2. /\ pending' \in Seq(Completion) /\ Len(pending') = Len(pending) + 1
        /\ \A n \in 1..Len(pending) : pending'[n] = pending[n]
        /\ pending'[Len(pending) + 1] = h
    BY <1>3, <2>1, AppendProperties
  <2>3. /\ DOMAIN pending' = 1..(Len(pending) + 1) /\ DOMAIN pending = 1..Len(pending)
        /\ Len(pending) \in Nat
    BY <2>1, <2>2, LenProperties
  <2> QED
    BY <2>2, <2>3
<1>5. \A m \in misses : m.id \in Outstanding /\ m.id # next
  BY <1>1, <1>2 DEF MissesMatch, TypeOK, Miss, Outstanding
<1>6. NamesMatch'
  <2>1. DOMAIN out = {} /\ DOMAIN out' = {}
    BY <1>2
  <2>2. HitIn(misses, h.tag, h.id) /\ h.id \in Outstanding' /\ h.hit
    BY <1>2, <1>3, <1>5 DEF HitIn
  <2>3. \A n \in DOMAIN pending' : /\ pending'[n].id \in Outstanding' /\ pending'[n].hit
                                   /\ HitIn(misses', pending'[n].tag, pending'[n].id)
    BY <1>2, <1>3, <1>4, <2>2 DEF NamesMatch
  <2>4. \A c \in inner :
          /\ c.id \in Outstanding' /\ req'[c.id].op = c.op /\ req'[c.id].off = c.off
          /\ c.slot = None => HitIn(misses, c.tag, c.id) /\ \A m \in misses : m.iid # c.tag
          /\ c.slot # None =>
               c.op = "read" /\ \E m \in misses : m.iid = c.tag /\ m.id = c.id /\ m.slot = c.slot
    BY <1>2 DEF NamesMatch
  <2>5. \A m \in misses : \E c \in inner : c.id = m.id
    BY <2>1 DEF NamesMatch
  <2> QED
    BY <1>3, <2>1, <2>3, <2>4, <2>5 DEF NamesMatch
<1> QED
  BY <1>3, <1>4, <1>6

\* What came before is what came; a hit has come at once.
LEMMA SubmitArrives ==
  ASSUME SlotInv, NamesMatch, IdsDiffer, ~clashed', NEW k \in Kinds, NEW o \in Offsets, Submit(k, o)
  PROVE  /\ IdsDiffer' /\ NamesMatch'
         /\ \A i \in Arrived' : i \in Arrived \/ (Hit(k, o) /\ i = next)
         /\ \A i \in Arrived : i \in Outstanding /\ i # next
<1>1. TypeOK /\ MissesMatch
  BY DEF SlotInv
<1>2. next \notin Outstanding /\ out = << >> /\ out' = << >>
  BY <1>1, Submitting
<1>3. DOMAIN out = {} /\ DOMAIN out' = {}
  BY <1>2
<1>4. /\ \A n \in DOMAIN pending : pending[n].id \in Outstanding /\ pending[n].id # next
      /\ \A c \in inner : c.id \in Outstanding /\ c.id # next
  BY <1>2 DEF NamesMatch
<1>5. \A i \in Arrived : i \in Outstanding /\ i # next
  BY <1>3, <1>4 DEF Arrived
<1>6. CASE Hit(k, o)
  <2>1. /\ NamesMatch'
        /\ DOMAIN pending' = DOMAIN pending \cup {Len(pending) + 1}
        /\ \A n \in DOMAIN pending : pending'[n] = pending[n] /\ n # Len(pending) + 1
        /\ pending'[Len(pending) + 1].id = next
    BY <1>6, HitNames
  <2>2. inner' = inner
    BY <1>6 DEF Hit
  <2>3. \A i \in Arrived' : i \in Arrived \/ i = next
    <3>1. \A n \in DOMAIN pending' : pending'[n].id \in Arrived \/ pending'[n].id = next
      BY <2>1 DEF Arrived
    <3>2. \A i \in Arrived' : \/ \E n \in DOMAIN pending' : i = pending'[n].id
                              \/ \E c \in inner' : c.done /\ c.ok /\ i = c.id
      BY <1>3 DEF Arrived
    <3>3. \A c \in inner : c.done /\ c.ok => c.id \in Arrived
      BY DEF Arrived
    <3> QED
      BY <2>2, <3>1, <3>2, <3>3
  <2>4. IdsDiffer'
    <3>1. \A n, l \in DOMAIN pending' : pending'[n].id = pending'[l].id => n = l
      BY <1>4, <2>1 DEF IdsDiffer
    <3>2. \A n \in DOMAIN pending', c \in inner' : pending'[n].id # c.id
      BY <1>4, <2>1, <2>2 DEF IdsDiffer
    <3> QED
      BY <1>3, <3>1, <3>2 DEF IdsDiffer
  <2> QED
    BY <1>5, <1>6, <2>1, <2>3, <2>4
<1>7. CASE ~Hit(k, o)
  <2>1. PICK d : Sent(k, o, d)
    BY <1>1, <1>7, Sending
  <2>2. d.id = next /\ ~d.done /\ inner' = inner \cup {d} /\ pending' = pending
    BY <2>1 DEF Sent
  <2>3. NamesMatch'
    BY <2>1, SentNames
  <2>4. \A i \in Arrived' : i \in Arrived
    BY <1>3, <2>2 DEF Arrived
  <2>5. IdsDiffer'
    BY <1>3, <1>4, <2>2 DEF IdsDiffer
  <2> QED
    BY <1>5, <2>3, <2>4, <2>5
<1> QED
  BY <1>6, <1>7

LEMMA SubmitFresh ==
  ASSUME SlotInv, NamesMatch, IdsDiffer, Fresh, ~clashed',
         NEW k \in Kinds, NEW o \in Offsets, Submit(k, o)
  PROVE  Fresh'
<1>1. /\ TypeOK /\ MissesMatch /\ SlotsMatch /\ IndexMatch
      /\ SeenNow /\ IndexFresh /\ MissesFresh /\ BuffersFresh
  BY DEF SlotInv, Fresh
<1>2. /\ next \in Ids /\ next \notin Outstanding /\ disk' = disk
      /\ req'[next].op = k.op /\ req'[next].off = o /\ disk[o] \in req'[next].seen
      /\ Outstanding' = Outstanding \cup {next}
      /\ \A i \in Outstanding : req'[i] = req[i] /\ i # next
  <2>1. /\ next \in Ids /\ next \notin Outstanding /\ UNCHANGED <<out, disk, strays, early, stale>>
        /\ req'[next].op = k.op /\ req'[next].off = o /\ disk[o] \in req'[next].seen
        /\ Outstanding' = Outstanding \cup {next}
        /\ \A i \in Ids : i # next => req'[i] = req[i]
    BY <1>1, Submitting
  <2> QED
    BY <2>1 DEF Outstanding
<1>3. /\ \A i \in Arrived' : i \in Arrived \/ (Hit(k, o) /\ i = next)
      /\ \A i \in Arrived : i \in Outstanding /\ i # next
  BY SubmitArrives
<1>4. /\ \A s \in Slots : /\ slots'[s].data = slots[s].data
                          /\ slots'[s].valid => slots[s].valid
                          /\ s \in Pinned => slots'[s].offset = slots[s].offset
      /\ \A p \in Offsets :
           \/ index'[p] = None
           \/ index'[p] = index[p] /\ (p \notin doubtful' => p \notin doubtful)
           \/ /\ p = o /\ ~slots'[index'[p]].valid /\ index'[p] \notin Pinned
              /\ k.op = "read" /\ (o \notin doubtful' => ~WriteInAir(o))
      /\ k.op = "write" => index'[o] = None \/ o \in doubtful'
  BY <1>1, SubmitKeepsData
<1>5. /\ Hit(k, o) \/ \E d : Sent(k, o, d)
      /\ Hit(k, o) => inner' = inner /\ misses' = misses /\ k.op = "read"
      /\ \A d : Sent(k, o, d) => /\ inner' = inner \cup {d} /\ d.op = k.op /\ d.off = o
                                 /\ \A m \in misses' : m \in misses \/ m.id = next
                                 /\ misses \subseteq misses'
  <2>1. Hit(k, o) \/ \E d : Sent(k, o, d)
    BY <1>1, Sending
  <2>2. Hit(k, o) => inner' = inner /\ misses' = misses /\ k.op = "read"
    BY DEF Hit
  <2> QED
    BY <2>1, <2>2 DEF Sent
<1>6. /\ \A m \in misses : m.id \in Outstanding /\ m.id # next /\ m.slot \in Slots /\ m.slot \in Pinned
      /\ \A p \in Offsets : index[p] # None => index[p] \in Slots
      /\ None \notin Slots
  <2>1. \A m \in misses : m.id \in Outstanding /\ m.slot \in Slots /\ m.slot \in Pinned
    BY <1>1 DEF MissesMatch, TypeOK, Miss, Outstanding, Pinned
  <2> QED
    BY <1>1, <1>2, <2>1, NoneAssumption DEF TypeOK
<1>7. SeenNow'
  BY <1>1, <1>2 DEF SeenNow
<1>8. IndexFresh'
  <2> SUFFICES ASSUME NEW p \in Offsets, index'[p] # None, p \notin doubtful'
               PROVE  /\ ~\E c \in inner' : c.off = p /\ c.op = "write" /\ ~c.done
                      /\ slots'[index'[p]].valid => slots'[index'[p]].data = disk'[p]
    BY DEF IndexFresh, WriteInAir
  <2>1. ~\E c \in inner : c.off = p /\ c.op = "write" /\ ~c.done
    BY <1>1, <1>4 DEF IndexFresh, WriteInAir
  <2>2. ~(k.op = "write" /\ p = o)
    BY <1>4
  <2>3. ~\E c \in inner' : c.off = p /\ c.op = "write" /\ ~c.done
    BY <1>5, <2>1, <2>2
  <2>4. slots'[index'[p]].valid => slots'[index'[p]].data = disk'[p]
    BY <1>1, <1>2, <1>4, <1>6 DEF IndexFresh
  <2> QED
    BY <2>3, <2>4
<1>9. MissesFresh'
  <2> SUFFICES ASSUME NEW m \in misses', m.id \in Arrived'
               PROVE  /\ slots'[m.slot].data \in req'[m.id].seen
                      /\ \A p \in Offsets :
                           slots'[m.slot].offset = p /\ index'[p] = m.slot /\ p \notin doubtful'
                           => slots'[m.slot].data = disk'[p]
    BY DEF MissesFresh
  <2>1. m \in misses /\ m.id \in Arrived
    BY <1>3, <1>5, <1>6
  <2>2. slots'[m.slot].data = slots[m.slot].data /\ slots'[m.slot].offset = slots[m.slot].offset
        /\ req'[m.id] = req[m.id]
    BY <1>2, <1>4, <1>6, <2>1
  <2>3. \A p \in Offsets : index'[p] = m.slot /\ p \notin doubtful' => index[p] = m.slot /\ p \notin doubtful
    BY <1>4, <1>6, <2>1
  <2> QED
    BY <1>1, <1>2, <2>1, <2>2, <2>3 DEF MissesFresh
<1>10. BuffersFresh'
  <2> SUFFICES ASSUME NEW i \in Arrived', req'[i].op = "read", \A m \in misses' : m.id # i
               PROVE  req'[i].buf \in req'[i].seen
    BY DEF BuffersFresh
  <2>1. CASE i \in Arrived
    <3>1. req'[i] = req[i] /\ \A m \in misses : m.id # i
      BY <1>2, <1>3, <1>5, <2>1
    <3> QED
      BY <1>1, <2>1, <3>1 DEF BuffersFresh
  <2>2. CASE Hit(k, o) /\ i = next
    <3> DEFINE data == slots[index[o]].data
               known == {disk[o]} \cup IF o \in doubtful THEN {data} ELSE {}
               r == [op |-> k.op, off |-> o, buf |-> data, seen |-> known]
    <3>1. Ask(k, o, data, known) /\ Cached(o)
      BY <2>2 DEF Hit
    <3>2. data \in known
      BY <1>1, <3>1 DEF IndexFresh, Cached
    <3>3. r.buf = data /\ r.seen = known
      OBVIOUS
    <3>4. req' = [req EXCEPT ![next] = r]
      BY <3>1 DEF Ask
    <3> HIDE DEF r, data, known
    <3>5. req'[next] = r
      BY <1>1, <1>2, <3>4 DEF TypeOK
    <3> QED
      BY <2>2, <3>2, <3>3, <3>5
  <2> QED
    BY <1>3, <2>1, <2>2
<1> QED
  BY <1>7, <1>8, <1>9, <1>10 DEF Fresh

-----------------------------------------------------------------------------
(* Until a tag meets the id of a miss: a transfer ends *)

LEMMA CompleteNames ==
  ASSUME SlotInv, NamesMatch, IdsDiffer, NEW c \in inner,
         NEW d \in Transfer, NEW ok \in BOOLEAN, Ended(c, d, ok),
         UNCHANGED <<misses, pending, out>>
  PROVE  /\ NamesMatch' /\ IdsDiffer'
         /\ \A i \in Arrived' : i \in Arrived \/ (ok /\ i = c.id)
         /\ Arrived \subseteq Outstanding
<1>1. /\ d.tag = c.tag /\ d.id = c.id /\ d.op = c.op /\ d.off = c.off /\ d.slot = c.slot
      /\ d.ok = ok /\ inner' = (inner \ {c}) \cup {d}
      /\ \A i \in Ids : (req'[i] = None) = (req[i] = None)
      /\ \A i \in Outstanding : req'[i].op = req[i].op /\ req'[i].off = req[i].off
  BY DEF Ended
<1>2. Outstanding' = Outstanding
  BY <1>1 DEF Outstanding
<1>3. \A e \in inner' :
        /\ e.id \in Outstanding' /\ req'[e.id].op = e.op /\ req'[e.id].off = e.off
        /\ e.slot = None => HitIn(misses', e.tag, e.id) /\ \A m \in misses' : m.iid # e.tag
        /\ e.slot # None =>
             e.op = "read" /\ \E m \in misses' : m.iid = e.tag /\ m.id = e.id /\ m.slot = e.slot
  <2>1. \A e \in inner :
          /\ e.id \in Outstanding' /\ req'[e.id].op = e.op /\ req'[e.id].off = e.off
          /\ e.slot = None => HitIn(misses', e.tag, e.id) /\ \A m \in misses' : m.iid # e.tag
          /\ e.slot # None =>
               e.op = "read" /\ \E m \in misses' : m.iid = e.tag /\ m.id = e.id /\ m.slot = e.slot
    BY <1>1, <1>2 DEF NamesMatch
  <2> QED
    BY <1>1, <2>1
<1>4. \A m \in misses' : (\E e \in inner' : e.id = m.id) \/ \E n \in DOMAIN out' : out'[n].id = m.id
  <2>1. \A i : (\E e \in inner : e.id = i) => \E e \in inner' : e.id = i
    BY <1>1
  <2> QED
    BY <2>1 DEF NamesMatch
<1>5. NamesMatch'
  BY <1>2, <1>3, <1>4 DEF NamesMatch
<1>6. IdsDiffer'
  BY <1>1 DEF IdsDiffer
<1>7. \A i \in Arrived' : i \in Arrived \/ (ok /\ i = c.id)
  BY <1>1 DEF Arrived
<1>8. Arrived \subseteq Outstanding
  BY DEF Arrived, NamesMatch
<1> QED
  BY <1>5, <1>6, <1>7, <1>8

LEMMA CompleteFresh ==
  ASSUME SlotInv, NamesMatch, IdsDiffer, Fresh, NEW c \in inner,
         NEW d \in Transfer, NEW ok \in BOOLEAN, Ended(c, d, ok),
         UNCHANGED <<misses, pending, out, index, doubtful>>
  PROVE  Fresh'
<1>1. /\ TypeOK /\ MissesMatch /\ SlotsMatch /\ IndexMatch
      /\ SeenNow /\ IndexFresh /\ MissesFresh /\ BuffersFresh
  BY DEF SlotInv, Fresh
<1>2. /\ d.off = c.off /\ d.op = c.op /\ d.done /\ ~c.done
      /\ inner' = (inner \ {c}) \cup {d}
      /\ \A p \in Offsets : p # c.off \/ c.op = "read" => disk'[p] = disk[p]
      /\ \A s \in Slots :
           /\ slots'[s].offset = slots[s].offset /\ slots'[s].valid = slots[s].valid
           /\ slots'[s].data =
                IF c.op = "read" /\ ok /\ c.slot = s THEN disk[c.off] ELSE slots[s].data
      /\ \A i \in Ids : (req'[i] = None) = (req[i] = None)
  BY DEF Ended
<1>3. \A i \in Outstanding :
        /\ req'[i].op = req[i].op /\ req'[i].off = req[i].off
        /\ req'[i].seen = IF c.op = "write" /\ req[i].off = c.off
                          THEN req[i].seen \cup {disk'[c.off]} ELSE req[i].seen
        /\ req'[i].buf = IF c.op = "read" /\ ok /\ c.slot = None /\ i = c.id
                         THEN disk[c.off] ELSE req[i].buf
        /\ req[i].seen \subseteq req'[i].seen
  <2>1. \A i \in Outstanding :
          /\ req'[i].op = req[i].op /\ req'[i].off = req[i].off
          /\ req'[i].seen = IF c.op = "write" /\ req[i].off = c.off
                            THEN req[i].seen \cup {disk'[c.off]} ELSE req[i].seen
          /\ req'[i].buf = IF c.op = "read" /\ ok /\ c.slot = None /\ i = c.id
                           THEN disk[c.off] ELSE req[i].buf
    BY DEF Ended
  <2> QED
    BY <2>1
<1>4. Outstanding' = Outstanding
  BY <1>2 DEF Outstanding
<1>5. /\ c.id \in Outstanding /\ req[c.id].op = c.op /\ req[c.id].off = c.off /\ c.off \in Offsets
      /\ c.op \in {"read", "write"}
      /\ c.slot = None => \A m \in misses : m.id # c.id
      /\ c.slot # None =>
           c.op = "read" /\ \E m \in misses : m.id = c.id /\ m.slot = c.slot
  BY <1>1 DEF NamesMatch, HitIn, TypeOK, Transfer
<1>6. /\ \A i \in Arrived' : i \in Arrived \/ (ok /\ i = c.id)
      /\ Arrived \subseteq Outstanding
  BY CompleteNames
<1>7. /\ \A m \in misses : /\ m.id \in Outstanding /\ m.slot \in Slots /\ m.slot \in Pinned
                           /\ req[m.id].off = slots[m.slot].offset
      /\ \A m, l \in misses : m.id = l.id \/ m.slot = l.slot => m = l
      /\ \A p \in Offsets : index[p] # None => index[p] \in Slots
      /\ None \notin Slots
      /\ \A s \in Slots : s \in Pinned => ~slots[s].valid
      /\ \A i \in Outstanding : req[i].off \in Offsets
  <2>1. \A m \in misses : /\ m.id \in Outstanding /\ m.slot \in Slots /\ m.slot \in Pinned
                          /\ req[m.id].off = slots[m.slot].offset
    BY <1>1 DEF MissesMatch, TypeOK, Miss, Outstanding, Pinned
  <2>2. \A i \in Outstanding : req[i].off \in Offsets
    BY <1>1 DEF TypeOK, Request, Outstanding
  <2>3. \A s \in Slots : s \in Pinned => ~slots[s].valid
    BY <1>1 DEF SlotsMatch
  <2> QED
    BY <1>1, <2>1, <2>2, <2>3, NoneAssumption DEF MissesMatch, TypeOK
<1>8. disk[c.off] \in req[c.id].seen /\ disk[c.off] \in req'[c.id].seen
  BY <1>1, <1>3, <1>5 DEF SeenNow
<1>9. SeenNow'
  <2> SUFFICES ASSUME NEW i \in Outstanding PROVE disk'[req'[i].off] \in req'[i].seen
    BY <1>4 DEF SeenNow
  <2>1. CASE c.op = "write" /\ req[i].off = c.off
    BY <1>3, <2>1
  <2>2. CASE ~(c.op = "write" /\ req[i].off = c.off)
    <3>1. disk'[req[i].off] = disk[req[i].off]
      BY <1>2, <1>5, <1>7, <2>2
    <3>2. disk[req[i].off] \in req[i].seen
      BY <1>1 DEF SeenNow
    <3>3. req'[i].off = req[i].off /\ req[i].seen \subseteq req'[i].seen
      BY <1>3
    <3> QED
      BY <3>1, <3>2, <3>3
  <2> QED
    BY <2>1, <2>2
\* A block in the index that no write passed by is not written.
<1>10. ASSUME NEW p \in Offsets, index[p] # None, p \notin doubtful
       PROVE  /\ disk'[p] = disk[p]
              /\ ~\E e \in inner' : e.off = p /\ e.op = "write" /\ ~e.done
  <2>1. ~\E e \in inner : e.off = p /\ e.op = "write" /\ ~e.done
    BY <1>1, <1>10 DEF IndexFresh, WriteInAir
  <2>2. p # c.off \/ c.op = "read"
    BY <1>2, <1>5, <2>1
  <2> QED
    BY <1>2, <2>1, <2>2
<1>11. IndexFresh'
  <2> SUFFICES ASSUME NEW p \in Offsets, index[p] # None, p \notin doubtful
               PROVE  /\ ~\E e \in inner' : e.off = p /\ e.op = "write" /\ ~e.done
                      /\ slots'[index[p]].valid => slots'[index[p]].data = disk'[p]
    BY DEF IndexFresh, WriteInAir
  <2>1. slots'[index[p]].valid => slots'[index[p]].data = disk'[p]
    <3> SUFFICES ASSUME slots'[index[p]].valid PROVE slots'[index[p]].data = disk'[p]
      OBVIOUS
    <3>1. index[p] \in Slots /\ slots[index[p]].valid
      BY <1>2, <1>7
    <3>2. c.slot # index[p]
      BY <1>5, <1>7, <3>1
    <3>3. slots[index[p]].data = disk[p]
      BY <1>1, <3>1 DEF IndexFresh
    <3> QED
      BY <1>2, <1>10, <3>1, <3>2, <3>3
  <2> QED
    BY <1>10, <2>1
<1>12. MissesFresh'
  <2> SUFFICES ASSUME NEW m \in misses, m.id \in Arrived'
               PROVE  /\ slots'[m.slot].data \in req'[m.id].seen
                      /\ \A p \in Offsets :
                           slots'[m.slot].offset = p /\ index[p] = m.slot /\ p \notin doubtful
                           => slots'[m.slot].data = disk'[p]
    BY DEF MissesFresh
  <2>1. CASE c.op = "read" /\ ok /\ c.slot = m.slot
    <3>1. m.id = c.id
      BY <1>5, <1>7, <2>1
    <3>2. slots'[m.slot].data = disk[c.off] /\ slots'[m.slot].offset = c.off
      BY <1>2, <1>5, <1>7, <2>1, <3>1
    <3> QED
      BY <1>7, <1>8, <1>10, <3>1, <3>2
  <2>2. CASE ~(c.op = "read" /\ ok /\ c.slot = m.slot)
    <3>1. slots'[m.slot].data = slots[m.slot].data /\ slots'[m.slot].offset = slots[m.slot].offset
      BY <1>2, <1>7, <2>2
    <3>2. m.id \in Arrived
      BY <1>5, <1>6, <1>7, <2>2
    <3>3. /\ slots[m.slot].data \in req[m.id].seen
          /\ \A p \in Offsets : slots[m.slot].offset = p /\ index[p] = m.slot /\ p \notin doubtful
                                => slots[m.slot].data = disk[p]
      BY <1>1, <3>2 DEF MissesFresh
    <3>4. slots[m.slot].data \in req'[m.id].seen
      BY <1>3, <1>7, <3>3
    <3>5. \A p \in Offsets : index[p] = m.slot /\ p \notin doubtful => disk'[p] = disk[p]
      BY <1>7, <1>10
    <3> QED
      BY <3>1, <3>3, <3>4, <3>5
  <2> QED
    BY <2>1, <2>2
<1>13. BuffersFresh'
  <2> SUFFICES ASSUME NEW i \in Arrived', req'[i].op = "read", \A m \in misses : m.id # i
               PROVE  req'[i].buf \in req'[i].seen
    BY DEF BuffersFresh
  <2>1. CASE c.op = "read" /\ ok /\ c.slot = None /\ i = c.id
    BY <1>3, <1>5, <1>8, <2>1
  <2>2. CASE ~(c.op = "read" /\ ok /\ c.slot = None /\ i = c.id)
    <3>1. i \in Outstanding
      BY <1>5, <1>6
    <3>2. i \in Arrived
      BY <1>3, <1>5, <1>6, <2>2, <3>1
    <3> QED
      BY <1>1, <1>3, <2>2, <3>1, <3>2 DEF BuffersFresh
  <2> QED
    BY <2>1, <2>2
<1> QED
  BY <1>9, <1>11, <1>12, <1>13 DEF Fresh

-----------------------------------------------------------------------------
(* Until a tag meets the id of a miss: a reap *)

LEMMA ReapNames ==
  ASSUME SlotInv, NamesMatch, IdsDiffer, Reap, NEW hits, NEW n, NEW q, Reaped(hits, n, q)
  PROVE  NamesMatch' /\ IdsDiffer' /\ Arrived' \subseteq Arrived
<1>1. TypeOK
  BY DEF SlotInv
<1>2. UNCHANGED <<misses, req>> /\ out = << >> /\ DOMAIN out = {}
  BY DEF Reap, pool, caller
<1>3. Outstanding' = Outstanding
  BY <1>2 DEF Outstanding
<1>4. /\ \A i \in 1..n : q[i] \in inner /\ q[i].done /\ q[i] \notin inner'
      /\ \A i, j \in 1..n : q[i] = q[j] => i = j
      /\ \A i \in 1..n : /\ out'[hits + i].tag = q[i].tag /\ out'[hits + i].id = q[i].id
                         /\ out'[hits + i].ok = q[i].ok /\ ~out'[hits + i].hit
      /\ inner' \subseteq inner
      /\ \A c \in inner : c \in inner' \/ \E i \in 1..n : c = q[i]
      /\ \A i \in 1..n : hits + i \in DOMAIN out'
  <2>1. /\ out' \in Seq(Completion) /\ Len(out') = hits + n /\ n \in Nat /\ hits \in Nat
    BY <1>1, ReapSources DEF Reaped
  <2>2. \A i \in 1..n : hits + i \in DOMAIN out'
    BY <2>1, LenProperties
  <2> QED
    BY <2>2 DEF Reaped
<1>5. /\ \A j \in DOMAIN pending' : /\ hits + j \in DOMAIN pending /\ pending'[j] = pending[hits + j]
                                    /\ j \in Nat /\ hits + j \notin 1..hits
      /\ \A j \in 1..hits : j \in DOMAIN pending /\ out'[j] = pending[j]
      /\ \A j \in DOMAIN out' : j \in 1..hits \/ \E i \in 1..n : j = hits + i
      /\ hits \in Nat
  BY <1>1, ReapSources
<1>6. /\ \A j \in DOMAIN pending : /\ pending[j].id \in Outstanding /\ pending[j].hit
                                   /\ HitIn(misses, pending[j].tag, pending[j].id)
      /\ \A c \in inner : /\ c.id \in Outstanding /\ req[c.id].op = c.op /\ req[c.id].off = c.off
                          /\ NamesIn(misses, c.tag, c.id)
      /\ \A m \in misses : \E c \in inner : c.id = m.id
  BY <1>2 DEF NamesMatch, NamesIn
<1>7. /\ \A j, l \in DOMAIN pending : pending[j].id = pending[l].id => j = l
      /\ \A c, e \in inner : c.id = e.id => c = e
      /\ \A j \in DOMAIN pending, c \in inner : pending[j].id # c.id
  BY DEF IdsDiffer, SlotInv, TransfersMatch
<1>8. NamesMatch'
  <2>1. \A j \in DOMAIN pending' : /\ pending'[j].id \in Outstanding' /\ pending'[j].hit
                                   /\ HitIn(misses', pending'[j].tag, pending'[j].id)
    BY <1>2, <1>3, <1>5, <1>6
  <2>2. ASSUME NEW j \in DOMAIN out'
        PROVE  /\ out'[j].id \in Outstanding'
               /\ out'[j].hit => HitIn(misses', out'[j].tag, out'[j].id)
               /\ ~out'[j].hit => NamesIn(misses', out'[j].tag, out'[j].id)
    <3>1. CASE j \in 1..hits
      BY <1>2, <1>3, <1>5, <1>6, <3>1
    <3>2. CASE \E i \in 1..n : j = hits + i
      BY <1>2, <1>3, <1>4, <1>6, <3>2
    <3> QED
      BY <1>5, <3>1, <3>2
  <2>3. \A c \in inner' :
          /\ c.id \in Outstanding' /\ req'[c.id].op = c.op /\ req'[c.id].off = c.off
          /\ c.slot = None => HitIn(misses', c.tag, c.id) /\ \A m \in misses' : m.iid # c.tag
          /\ c.slot # None =>
               c.op = "read" /\ \E m \in misses' : m.iid = c.tag /\ m.id = c.id /\ m.slot = c.slot
    BY <1>2, <1>3, <1>4 DEF NamesMatch
  <2>4. \A m \in misses' : (\E c \in inner' : c.id = m.id) \/ \E j \in DOMAIN out' : out'[j].id = m.id
    BY <1>2, <1>4, <1>6
  <2> QED
    BY <2>1, <2>2, <2>3, <2>4 DEF NamesMatch
<1>9. IdsDiffer'
  <2>1. \A j, l \in DOMAIN pending' : pending'[j].id = pending'[l].id => j = l
    <3> SUFFICES ASSUME NEW j \in DOMAIN pending', NEW l \in DOMAIN pending',
                        pending'[j].id = pending'[l].id
                 PROVE  j = l
      OBVIOUS
    <3>1. hits + j = hits + l
      BY <1>5, <1>7
    <3> QED
      BY <1>5, <3>1
  <2>2. ASSUME NEW j \in DOMAIN out', NEW l \in DOMAIN out', out'[j].id = out'[l].id
        PROVE  j = l
    <3>1. CASE j \in 1..hits /\ l \in 1..hits
      BY <1>5, <1>7, <2>2, <3>1
    <3>2. CASE j \in 1..hits /\ \E i \in 1..n : l = hits + i
      BY <1>4, <1>5, <1>7, <2>2, <3>2
    <3>3. CASE l \in 1..hits /\ \E i \in 1..n : j = hits + i
      BY <1>4, <1>5, <1>7, <2>2, <3>3
    <3>4. CASE (\E i \in 1..n : j = hits + i) /\ \E i \in 1..n : l = hits + i
      <4>1. PICK i \in 1..n : j = hits + i
        BY <3>4
      <4>2. PICK k \in 1..n : l = hits + k
        BY <3>4
      <4>3. q[i] = q[k]
        BY <1>4, <1>7, <2>2, <4>1, <4>2
      <4> QED
        BY <1>4, <4>1, <4>2, <4>3
    <3> QED
      BY <1>5, <3>1, <3>2, <3>3, <3>4
  <2>3. ASSUME NEW j \in DOMAIN pending', NEW l \in DOMAIN out' PROVE pending'[j].id # out'[l].id
    <3>1. CASE l \in 1..hits
      BY <1>5, <1>7, <3>1
    <3>2. CASE \E i \in 1..n : l = hits + i
      BY <1>4, <1>5, <1>7, <3>2
    <3> QED
      BY <1>5, <3>1, <3>2
  <2>4. \A j \in DOMAIN pending', c \in inner' : pending'[j].id # c.id
    BY <1>4, <1>5, <1>7
  <2>5. ASSUME NEW l \in DOMAIN out', NEW c \in inner' PROVE out'[l].id # c.id
    <3>1. CASE l \in 1..hits
      BY <1>4, <1>5, <1>7, <3>1
    <3>2. CASE \E i \in 1..n : l = hits + i
      <4>1. PICK i \in 1..n : l = hits + i
        BY <3>2
      <4>2. out'[l].id = q[i].id /\ q[i] \in inner /\ q[i] # c /\ c \in inner
        BY <1>4, <4>1
      <4> QED
        BY <1>7, <4>2
    <3> QED
      BY <1>5, <3>1, <3>2
  <2> QED
    BY <2>1, <2>2, <2>3, <2>4, <2>5 DEF IdsDiffer
<1>10. Arrived' \subseteq Arrived
  <2>1. \A j \in DOMAIN pending' : pending'[j].id \in Arrived
    BY <1>5 DEF Arrived
  <2>2. ASSUME NEW j \in DOMAIN out', out'[j].ok PROVE out'[j].id \in Arrived
    <3>1. CASE j \in 1..hits
      BY <1>5, <3>1 DEF Arrived
    <3>2. CASE \E i \in 1..n : j = hits + i
      <4>1. PICK i \in 1..n : j = hits + i
        BY <3>2
      <4>2. out'[j].id = q[i].id /\ q[i] \in inner /\ q[i].done /\ q[i].ok
        BY <1>4, <2>2, <4>1
      <4> QED
        BY <4>2 DEF Arrived
    <3> QED
      BY <1>5, <3>1, <3>2
  <2>3. \A c \in inner' : c.done /\ c.ok => c.id \in Arrived
    BY <1>4 DEF Arrived
  <2>4. \A i \in Arrived' : \/ \E j \in DOMAIN pending' : i = pending'[j].id
                            \/ \E j \in DOMAIN out' : out'[j].ok /\ i = out'[j].id
                            \/ \E c \in inner' : c.done /\ c.ok /\ i = c.id
    BY DEF Arrived
  <2> QED
    BY <2>1, <2>2, <2>3, <2>4
<1> QED
  BY <1>8, <1>9, <1>10

LEMMA ReapFresh ==
  ASSUME Fresh, Arrived' \subseteq Arrived, inner' \subseteq inner,
         UNCHANGED <<slots, index, misses, disk, req, doubtful>>
  PROVE  Fresh'
<1>1. SeenNow /\ IndexFresh /\ MissesFresh /\ BuffersFresh
  BY DEF Fresh
<1>2. SeenNow'
  BY <1>1 DEF SeenNow, Outstanding
<1>3. IndexFresh'
  BY <1>1 DEF IndexFresh, WriteInAir
<1>4. MissesFresh'
  BY <1>1 DEF MissesFresh
<1>5. BuffersFresh'
  BY <1>1 DEF BuffersFresh
<1> QED
  BY <1>2, <1>3, <1>4, <1>5 DEF Fresh

-----------------------------------------------------------------------------
(* Until a tag meets the id of a miss: a completion is handed out *)

\* The oldest completion goes to its request, whose miss, if any, goes with it.
LEMMA TakenNames ==
  ASSUME SlotInv, NamesMatch, IdsDiffer, NEW i, i = out[1].id, Taken(i),
         \A m \in misses' : m \in misses /\ m.id # i,
         \A m \in misses : m.id # i => m \in misses'
  PROVE  /\ NamesMatch' /\ IdsDiffer' /\ \A j \in Arrived' : j \in Arrived /\ j # i
         /\ \A c \in inner : c.id # i
<1>1. TypeOK
  BY DEF SlotInv
<1>2. /\ 1 \in DOMAIN out
      /\ \A j \in Ids : j # i => req'[j] = req[j]
      /\ Outstanding' = Outstanding \ {i}
      /\ out' \in Seq(Completion) /\ Len(out') = Len(out) - 1
      /\ \A n \in 1..(Len(out) - 1) : out'[n] = out[n + 1] /\ n + 1 \in DOMAIN out /\ n + 1 # 1
      /\ UNCHANGED <<pending, inner>>
  BY DEF Taken
<1>3. /\ \A n \in DOMAIN out' : /\ n \in Int /\ n + 1 \in DOMAIN out /\ n + 1 # 1
                                /\ out'[n] = out[n + 1]
      /\ \A l \in DOMAIN out : l = 1 \/ \E n \in DOMAIN out' : l = n + 1 /\ out'[n] = out[l]
  <2>1. /\ DOMAIN out = 1..Len(out) /\ DOMAIN out' = 1..(Len(out) - 1) /\ Len(out) \in Nat
    BY <1>1, <1>2, LenProperties DEF TypeOK
  <2>2. \A n \in DOMAIN out' : n \in Int /\ n + 1 \in DOMAIN out /\ n + 1 # 1 /\ out'[n] = out[n + 1]
    BY <1>2, <2>1
  <2>3. \A l \in DOMAIN out : l = 1 \/ (l - 1 \in DOMAIN out' /\ l = (l - 1) + 1)
    BY <2>1
  <2> QED
    BY <2>2, <2>3
<1>4. /\ \A n \in DOMAIN pending : pending[n].id # i
      /\ \A n \in DOMAIN out : n # 1 => out[n].id # i
      /\ \A c \in inner : c.id # i
  BY <1>2 DEF IdsDiffer
<1>5. \A t, j : HitIn(misses, t, j) => HitIn(misses', t, j)
  BY DEF HitIn
<1>6. \A t, j : NamesIn(misses, t, j) /\ j # i => NamesIn(misses', t, j)
  BY <1>5 DEF NamesIn
<1>7. \A j \in Outstanding : j # i => j \in Outstanding' /\ req'[j] = req[j]
  BY <1>2 DEF Outstanding
<1>8. NamesMatch'
  <2>1. \A n \in DOMAIN pending' : /\ pending'[n].id \in Outstanding' /\ pending'[n].hit
                                   /\ HitIn(misses', pending'[n].tag, pending'[n].id)
    BY <1>2, <1>4, <1>5, <1>7 DEF NamesMatch
  <2>2. \A n \in DOMAIN out' :
          /\ out'[n].id \in Outstanding'
          /\ out'[n].hit => HitIn(misses', out'[n].tag, out'[n].id)
          /\ ~out'[n].hit => NamesIn(misses', out'[n].tag, out'[n].id)
    BY <1>3, <1>4, <1>5, <1>6, <1>7 DEF NamesMatch
  <2>3. ASSUME NEW c \in inner
        PROVE  /\ c.id \in Outstanding' /\ req'[c.id].op = c.op /\ req'[c.id].off = c.off
               /\ c.slot = None => HitIn(misses', c.tag, c.id) /\ \A m \in misses' : m.iid # c.tag
               /\ c.slot # None =>
                    c.op = "read" /\ \E m \in misses' : m.iid = c.tag /\ m.id = c.id /\ m.slot = c.slot
    <3>1. /\ c.id \in Outstanding /\ req[c.id].op = c.op /\ req[c.id].off = c.off
          /\ c.slot = None => HitIn(misses, c.tag, c.id) /\ \A m \in misses : m.iid # c.tag
          /\ c.slot # None =>
               c.op = "read" /\ \E m \in misses : m.iid = c.tag /\ m.id = c.id /\ m.slot = c.slot
      BY DEF NamesMatch
    <3>2. c.id # i
      BY <1>4
    <3> QED
      BY <1>5, <1>7, <3>1, <3>2
  <2>4. ASSUME NEW m \in misses'
        PROVE  (\E c \in inner' : c.id = m.id) \/ \E n \in DOMAIN out' : out'[n].id = m.id
    <3>1. m \in misses /\ m.id # i
      OBVIOUS
    <3>2. (\E c \in inner : c.id = m.id) \/ \E n \in DOMAIN out : out[n].id = m.id
      BY <3>1 DEF NamesMatch
    <3> QED
      BY <1>2, <1>3, <3>1, <3>2
  <2> QED
    BY <1>2, <2>1, <2>2, <2>3, <2>4 DEF NamesMatch
<1>9. IdsDiffer'
  <2>1. \A n, l \in DOMAIN out' : out'[n].id = out'[l].id => n = l
    <3> SUFFICES ASSUME NEW n \in DOMAIN out', NEW l \in DOMAIN out', out'[n].id = out'[l].id
                 PROVE  n = l
      OBVIOUS
    <3>1. n + 1 = l + 1
      BY <1>3 DEF IdsDiffer
    <3> QED
      BY <1>3, <3>1
  <2> QED
    BY <1>2, <1>3, <2>1 DEF IdsDiffer
<1>10. \A j \in Arrived' : j \in Arrived /\ j # i
  <2>1. \A j \in Arrived' : \/ \E n \in DOMAIN pending : j = pending[n].id
                            \/ \E n \in DOMAIN out' : out'[n].ok /\ j = out'[n].id
                            \/ \E c \in inner : c.done /\ c.ok /\ j = c.id
    BY <1>2 DEF Arrived
  <2>2. \A n \in DOMAIN out' : out'[n].id # i /\ (out'[n].ok => out'[n].id \in Arrived)
    BY <1>3, <1>4 DEF Arrived
  <2>3. \A n \in DOMAIN pending : pending[n].id # i /\ pending[n].id \in Arrived
    BY <1>4 DEF Arrived
  <2>4. \A c \in inner : c.id # i /\ (c.done /\ c.ok => c.id \in Arrived)
    BY <1>4 DEF Arrived
  <2> QED
    BY <2>1, <2>2, <2>3, <2>4
<1> QED
  BY <1>4, <1>8, <1>9, <1>10

LEMMA TakenFresh ==
  ASSUME SlotInv, NamesMatch, Fresh, NEW i, Taken(i), \A j \in Arrived' : j \in Arrived /\ j # i,
         \A m \in misses' : m \in misses /\ m.id # i,
         \A m \in misses : m.id # i => m \in misses',
         \A s \in Slots : slots'[s].offset = slots[s].offset /\ slots'[s].data = slots[s].data,
         \A p \in Offsets : index'[p] = index[p] \/ index'[p] = None
  PROVE  SeenNow' /\ MissesFresh' /\ BuffersFresh'
<1>1. SeenNow /\ MissesFresh /\ BuffersFresh
  BY DEF Fresh
<1>2. /\ \A j \in Ids : j # i => req'[j] = req[j]
      /\ Outstanding' = Outstanding \ {i}
      /\ UNCHANGED <<disk, doubtful>>
  BY DEF Taken
<1>3. \A m \in misses : m.id \in Ids /\ m.slot \in Slots /\ m.slot # None
  BY NoneAssumption DEF SlotInv, TypeOK, Miss
<1>4. Arrived \subseteq Ids
  BY DEF Arrived, NamesMatch, Outstanding
<1>5. SeenNow'
  BY <1>1, <1>2 DEF SeenNow, Outstanding
<1>6. MissesFresh'
  <2> SUFFICES ASSUME NEW m \in misses', m.id \in Arrived'
               PROVE  /\ slots'[m.slot].data \in req'[m.id].seen
                      /\ \A p \in Offsets :
                           slots'[m.slot].offset = p /\ index'[p] = m.slot /\ p \notin doubtful'
                           => slots'[m.slot].data = disk'[p]
    BY DEF MissesFresh
  <2>1. m \in misses /\ m.id \in Arrived /\ m.id # i
    OBVIOUS
  <2>2. /\ slots[m.slot].data \in req[m.id].seen
        /\ \A p \in Offsets : slots[m.slot].offset = p /\ index[p] = m.slot /\ p \notin doubtful
                              => slots[m.slot].data = disk[p]
    BY <1>1, <2>1 DEF MissesFresh
  <2> QED
    BY <1>2, <1>3, <2>1, <2>2
<1>7. BuffersFresh'
  <2> SUFFICES ASSUME NEW j \in Arrived', req'[j].op = "read", \A m \in misses' : m.id # j
               PROVE  req'[j].buf \in req'[j].seen
    BY DEF BuffersFresh
  <2>1. j \in Arrived /\ j # i /\ req'[j] = req[j] /\ \A m \in misses : m.id # j
    BY <1>2, <1>4
  <2> QED
    BY <1>1, <2>1 DEF BuffersFresh
<1> QED
  BY <1>5, <1>6, <1>7

\* A completion that is no miss's.
LEMMA HandOutApart ==
  ASSUME SlotInv, Apart, HandOut
  PROVE  Apart'
<1>1. /\ TypeOK /\ MissesMatch /\ NamesMatch /\ IdsDiffer /\ Fresh /\ early = {} /\ stale = {}
  BY DEF SlotInv, Apart
<1>2. /\ out # << >> /\ out' = Tail(out) /\ Head(out) = out[1] /\ 1 \in DOMAIN out
      /\ UNCHANGED <<slots, lru, index, free, misses, nextIid>>
      /\ UNCHANGED <<pending, inner, innerPending, disk, next, overwritten, doubtful, clashed>>
  <2>1. out \in Seq(Completion) /\ out # << >>
    BY <1>1 DEF HandOut, TypeOK
  <2>2. 1 \in DOMAIN out /\ Head(out) = out[1]
    BY <2>1, EmptySeq, LenProperties
  <2> QED
    BY <2>1, <2>2 DEF HandOut, pool
<1> DEFINE i == out[1].id
<1>3. i \in Outstanding /\ HitIn(misses, out[1].tag, i)
  <2>1. \/ out[1].hit /\ HitIn(misses, out[1].tag, i)
        \/ NamesIn(misses, out[1].tag, i)
    BY <1>1, <1>2 DEF NamesMatch
  <2>2. ~out[1].hit => \A m \in misses : m.iid # out[1].tag
    BY <1>2 DEF HandOut, MissOf
  <2>3. ~out[1].hit => NamesIn(misses, out[1].tag, i)
    BY <1>1, <1>2 DEF NamesMatch
  <2> QED
    BY <1>1, <1>2, <2>1, <2>2, <2>3 DEF NamesIn, NamesMatch
<1>4. out[1].tag = TagBase + i /\ \A m \in misses : m.id # i
  BY <1>3 DEF HitIn
<1> HIDE DEF i
<1>5. i \in Ids /\ (TagBase + i) - TagBase = i
  BY <1>3, Numbers DEF Outstanding
<1>6. Answer(TagBase + i, Head(out).ok, req[i].buf)
  BY <1>2, <1>3, <1>4, <1>5 DEF HandOut
<1>7. /\ Taken(i)
      /\ early' = IF \E c \in inner : c.id = i THEN early \cup {i} ELSE early
      /\ stale' = IF req[i].op = "read" /\ out[1].ok /\ req[i].buf \notin req[i].seen
                  THEN stale \cup {i} ELSE stale
  BY <1>1, <1>2, <1>3, <1>6, Taking
<1>8. /\ NamesMatch' /\ IdsDiffer' /\ \A j \in Arrived' : j \in Arrived /\ j # i
      /\ \A c \in inner : c.id # i
  BY <1>1, <1>2, <1>4, <1>7, TakenNames DEF i
<1>9. out[1].ok /\ req[i].op = "read" => req[i].buf \in req[i].seen
  <2>1. out[1].ok => i \in Arrived
    BY <1>2 DEF Arrived, i
  <2> QED
    BY <1>1, <1>4, <2>1 DEF Fresh, BuffersFresh
<1>10. Fresh'
  <2>1. SeenNow' /\ MissesFresh' /\ BuffersFresh'
    BY <1>1, <1>2, <1>4, <1>7, <1>8, TakenFresh
  <2>2. IndexFresh'
    BY <1>1, <1>2 DEF Fresh, IndexFresh, WriteInAir
  <2> QED
    BY <2>1, <2>2 DEF Fresh
<1> QED
  BY <1>1, <1>7, <1>8, <1>9, <1>10 DEF Apart

\* A miss's completion: the slot that is listed, if it is, holds its block.
LEMMA HandOutMissApart ==
  ASSUME SlotInv, Apart, HandOutMiss
  PROVE  Apart'
<1>1. /\ TypeOK /\ MissesMatch /\ IndexMatch
      /\ NamesMatch /\ IdsDiffer /\ Fresh /\ early = {} /\ stale = {}
  BY DEF SlotInv, Apart
<1>2. PICK m \in misses :
        /\ MissTaken(m)
        /\ early' = IF \E c \in inner : c.id = m.id THEN early \cup {m.id} ELSE early
        /\ stale' = IF /\ req[m.id].op = "read" /\ out[1].ok
                       /\ slots[m.slot].data \notin req[m.id].seen
                    THEN stale \cup {m.id} ELSE stale
  BY <1>1, TakingMiss
<1>3. /\ Taken(m.id) /\ out[1].tag = m.iid /\ m \in Miss /\ misses' = misses \ {m}
      /\ \A s \in Slots : slots'[s].offset = slots[s].offset /\ slots'[s].data = slots[s].data
      /\ \A s \in Slots : s # m.slot => slots'[s] = slots[s]
      /\ slots'[m.slot].valid = out[1].ok
      /\ out[1].ok => index' = index
      /\ ~out[1].ok => index' = [index EXCEPT ![slots[m.slot].offset] = None]
  BY <1>2 DEF MissTaken
<1>4. 1 \in DOMAIN out /\ Head(out) = out[1] /\ UNCHANGED <<inner, disk, doubtful>>
  BY <1>3 DEF Taken
<1>5. m.id = out[1].id
  <2>1. ~out[1].hit
    BY <1>4 DEF HandOutMiss
  <2>2. NamesIn(misses, out[1].tag, out[1].id)
    BY <1>1, <1>4, <2>1 DEF NamesMatch
  <2>3. PICK l \in misses : l.iid = m.iid /\ l.id = out[1].id
    BY <1>3, <2>2 DEF NamesIn
  <2>4. l = m
    BY <1>1, <2>3 DEF MissesMatch
  <2> QED
    BY <2>3, <2>4
<1>6. /\ \A l \in misses' : l \in misses /\ l.id # m.id
      /\ \A l \in misses : l.id # m.id => l \in misses'
  BY <1>1, <1>3 DEF MissesMatch
<1>7. /\ NamesMatch' /\ IdsDiffer' /\ \A j \in Arrived' : j \in Arrived /\ j # m.id
      /\ \A c \in inner : c.id # m.id
  BY <1>1, <1>3, <1>5, <1>6, TakenNames
<1>8. out[1].ok =>
        /\ slots[m.slot].data \in req[m.id].seen
        /\ \A o \in Offsets : slots[m.slot].offset = o /\ index[o] = m.slot /\ o \notin doubtful
                              => slots[m.slot].data = disk[o]
  <2>1. out[1].ok => m.id \in Arrived
    BY <1>4, <1>5 DEF Arrived
  <2> QED
    BY <1>1, <2>1 DEF Fresh, MissesFresh
<1>9. /\ \A p \in Offsets : index'[p] = index[p] \/ index'[p] = None
      /\ \A p \in Offsets : index[p] # None => index[p] \in Slots /\ slots[index[p]].offset = p
      /\ ~out[1].ok => \A p \in Offsets : index'[p] # None => index[p] # m.slot
  <2>1. index \in [Offsets -> Slots \cup {None}]
    BY <1>1 DEF TypeOK
  <2>2. \A p \in Offsets : index[p] # None => index[p] \in Slots /\ slots[index[p]].offset = p
    BY <1>1, <2>1 DEF IndexMatch
  <2>3. CASE out[1].ok
    BY <1>3, <2>2, <2>3
  <2>4. CASE ~out[1].ok
    <3>1. /\ \A p \in Offsets : p # slots[m.slot].offset => index'[p] = index[p]
          /\ \A p \in Offsets : p = slots[m.slot].offset => index'[p] = None
      BY <1>3, <2>1, <2>4
    <3> QED
      BY <2>2, <2>4, <3>1
  <2> QED
    BY <2>3, <2>4
<1>10. Fresh'
  <2>1. SeenNow' /\ MissesFresh' /\ BuffersFresh'
    BY <1>1, <1>3, <1>6, <1>7, <1>9, TakenFresh
  <2>2. IndexFresh'
    <3> SUFFICES ASSUME NEW p \in Offsets, index'[p] # None, p \notin doubtful
                 PROVE  /\ ~WriteInAir(p)
                        /\ slots'[index'[p]].valid => slots'[index'[p]].data = disk[p]
      BY <1>4 DEF IndexFresh, WriteInAir
    <3>1. index'[p] = index[p] /\ index[p] \in Slots /\ slots[index[p]].offset = p
      BY <1>9
    <3>2. ~WriteInAir(p) /\ (slots[index[p]].valid => slots[index[p]].data = disk[p])
      BY <1>1, <3>1 DEF Fresh, IndexFresh
    <3>3. CASE index[p] = m.slot
      <4>1. out[1].ok
        BY <1>9, <3>3
      <4>2. slots[m.slot].data = disk[p]
        BY <1>8, <3>1, <3>3, <4>1
      <4> QED
        BY <1>3, <3>1, <3>2, <3>3, <4>2
    <3>4. CASE index[p] # m.slot
      BY <1>3, <3>1, <3>2, <3>4
    <3> QED
      BY <3>3, <3>4
  <2> QED
    BY <2>1, <2>2 DEF Fresh
<1> QED
  BY <1>1, <1>2, <1>7, <1>8, <1>10 DEF Apart

-----------------------------------------------------------------------------
(* Until a tag meets the id of a miss: the theorems *)

\* Until a tag of the caller's meets, in the inner backend, the id of a miss
\* (cached_backend.cpp:138, 187, 233), each completion on its way is one
\* request's, no request is answered before its transfer is done, and what is
\* cached, read into a slot or into a buffer is what its read may see.
THEOREM CacheInvariant == Spec => []CacheInv
<1>1. Init => CacheInv
  <2> SUFFICES ASSUME Init PROVE CacheInv
    OBVIOUS
  <2>1. SlotInv
    BY SlotsStart
  <2>2. /\ Outstanding = {} /\ misses = {} /\ inner = {} /\ DOMAIN pending = {} /\ DOMAIN out = {}
    BY Starting
  <2>3. IdsDiffer /\ NamesMatch
    BY <2>2 DEF IdsDiffer, NamesMatch
  <2>4. Arrived = {} /\ \A o \in Offsets : index[o] = None
    BY <2>2 DEF Arrived, Init
  <2>5. Fresh
    BY <2>2, <2>4 DEF Fresh, SeenNow, IndexFresh, MissesFresh, BuffersFresh
  <2>6. early = {} /\ stale = {}
    BY DEF Init
  <2> QED
    BY <2>1, <2>3, <2>5, <2>6 DEF CacheInv, Apart
<1>2. CacheInv /\ [Next]_vars /\ SlotInv' => CacheInv'
  <2> SUFFICES ASSUME SlotInv, ~clashed => Apart, [Next]_vars, SlotInv', ~clashed' PROVE Apart'
    BY DEF CacheInv
  <2>1. ASSUME NEW k \in Kinds, NEW o \in Offsets, Submit(k, o) PROVE Apart'
    <3>1. TypeOK /\ MissesMatch
      BY DEF SlotInv
    <3>2. ~clashed /\ UNCHANGED <<out, disk, strays, early, stale>>
      BY <2>1, <3>1, Submitting
    <3>3. NamesMatch /\ IdsDiffer /\ Fresh /\ early = {} /\ stale = {}
      BY <3>2 DEF Apart
    <3>4. NamesMatch' /\ IdsDiffer'
      BY <2>1, <3>3, SubmitArrives
    <3>5. Fresh'
      BY <2>1, <3>3, SubmitFresh
    <3> QED
      BY <3>2, <3>3, <3>4, <3>5 DEF Apart
  <2>2. ASSUME NEW c \in inner, Complete(c) PROVE Apart'
    <3>1. TypeOK /\ ~clashed
      BY <2>2 DEF SlotInv, Complete
    <3>2. NamesMatch /\ IdsDiffer /\ Fresh /\ early = {} /\ stale = {}
      BY <3>1 DEF Apart
    <3>3. c.id \in Outstanding
      BY <3>2 DEF NamesMatch
    <3>4. PICK d \in Transfer, ok \in BOOLEAN : Ended(c, d, ok)
      BY <2>2, <3>1, <3>3, Ending
    <3>5. UNCHANGED <<misses, pending, out, index, doubtful, early, stale>>
      BY <2>2 DEF Complete
    <3>6. NamesMatch' /\ IdsDiffer'
      BY <3>2, <3>4, <3>5, CompleteNames
    <3>7. Fresh'
      BY <3>2, <3>4, <3>5, CompleteFresh
    <3> QED
      BY <3>2, <3>5, <3>6, <3>7 DEF Apart
  <2>3. CASE Reap
    <3>1. /\ TypeOK /\ IsFiniteSet(inner)
          /\ UNCHANGED <<slots, index, misses, disk, req, doubtful, clashed, early, stale>>
      BY <2>3 DEF SlotInv, CountsMatch, Reap, pool, caller
    <3>2. NamesMatch /\ IdsDiffer /\ Fresh /\ early = {} /\ stale = {}
      BY <3>1 DEF Apart
    <3>3. PICK hits, n, q : Reaped(hits, n, q)
      BY <2>3, <3>1, Reaping
    <3>4. NamesMatch' /\ IdsDiffer' /\ Arrived' \subseteq Arrived
      BY <2>3, <3>2, <3>3, ReapNames
    <3>5. inner' \subseteq inner
      BY <3>3 DEF Reaped
    <3>6. Fresh'
      BY <3>1, <3>2, <3>4, <3>5, ReapFresh
    <3> QED
      BY <3>1, <3>2, <3>4, <3>6 DEF Apart
  <2>4. CASE HandOut
    <3>1. clashed' = clashed
      BY <2>4 DEF HandOut
    <3> QED
      BY <2>4, <3>1, HandOutApart
  <2>5. CASE HandOutMiss
    <3>1. clashed' = clashed
      BY <2>5 DEF HandOutMiss
    <3> QED
      BY <2>5, <3>1, HandOutMissApart
  <2>6. CASE UNCHANGED vars
    <3>1. /\ UNCHANGED <<slots, lru, index, free, misses, nextIid>>
          /\ UNCHANGED <<pending, inner, innerPending, out, disk>>
          /\ UNCHANGED <<next, req, overwritten, doubtful, clashed, strays, early, stale>>
      BY <2>6 DEF vars, pool, caller
    <3>2. NamesMatch /\ IdsDiffer /\ Fresh /\ early = {} /\ stale = {}
      BY <3>1 DEF Apart
    <3>3. NamesMatch' /\ IdsDiffer' /\ Arrived' \subseteq Arrived
      BY <3>1, <3>2 DEF NamesMatch, IdsDiffer, Arrived, Outstanding
    <3>4. Fresh'
      BY <3>1, <3>2, <3>3, ReapFresh
    <3> QED
      BY <3>1, <3>2, <3>3, <3>4 DEF Apart
  <2> QED
    BY <2>1, <2>2, <2>3, <2>4, <2>5, <2>6 DEF Next
<1>3. [](SlotInv) /\ [][Next]_vars /\ CacheInv => []CacheInv
  BY <1>2, PTL
<1> QED
  BY <1>1, <1>3, SlotInvariant, PTL DEF Spec

\* Each request is answered once, under its own tag; and until a tag meets the
\* id of a miss, not before its transfer is done (cached_backend.cpp:215-262).
THEOREM RequestsAnsweredOnce == Spec => []AnsweredOnce
<1>1. CacheInv => AnsweredOnce
  BY InFlightExact DEF CacheInv, SlotInv, Apart, AnsweredOnce
<1> QED
  BY <1>1, CacheInvariant, PTL

\* Until a tag meets the id of a miss, a read is answered with what its block
\* held since it was submitted, or, of a doubtful block, with what its slot
\* holds; and with no transfer in the air, what is cached of any other block is
\* what is on disk (cached_backend.cpp:120-199, 239-262).
THEOREM ReadsStayFresh == Spec => []ReadsAreFresh
<1>1. CacheInv => ReadsAreFresh
  <2>1. SUFFICES ASSUME CacheInv, ~clashed
        PROVE  stale = {} /\ \A o \in Offsets \ doubtful : Cached(o) => slots[index[o]].data = disk[o]
    BY DEF ReadsAreFresh
  <2>2. stale = {} /\ IndexFresh
    BY <2>1 DEF CacheInv, Apart, Fresh
  <2> QED
    BY <2>2 DEF IndexFresh, Cached
<1> QED
  BY <1>1, CacheInvariant, PTL

=============================================================================
