----------------------------- MODULE SpscQueue -----------------------------
(***************************************************************************)
(* SpscQueue (spsc_queue.hpp): the lock-free ring the scheduler thread and *)
(* the engine's worker exchange jobs and results through.  One producer    *)
(* pushes, one consumer pops; each keeps a cached copy of the other's      *)
(* index and reloads it only when the copy says full or empty.             *)
(*                                                                         *)
(* Between two accesses to shared memory of one thread the other may run,  *)
(* so push and pop are split at each of them: the load of the other's      *)
(* index, the access to the slot, the store of one's own index.            *)
(*                                                                         *)
(* Memory model: an acquire load may return any value of the other's index *)
(* that is not older than the last one it returned.  seenPopped and        *)
(* seenPushed count the stores so acquired; what the other thread did      *)
(* before them happens before what follows, and nothing later does.        *)
(***************************************************************************)
EXTENDS Integers, Sequences

CONSTANTS
  Cap,       \* cap_: slots of the ring
  Items,     \* what may be pushed
  Empty,     \* content of a slot never written or moved from
  MaxPushes  \* bound on the items pushed

\* The constructor asserts Cap >= 2 and a power of two.  The latter only makes
\* x & mask_ the same as x % Cap, which is what Wrap says.
ASSUME RingAssumption == Cap \in Nat /\ Cap >= 2
ASSUME ItemsAssumption == Empty \notin Items /\ MaxPushes \in Nat

VARIABLES
  buf,         \* buf_
  head,        \* head_, the slot to fill next
  tail,        \* tail_, the slot to take next
  cachedTail,  \* cached_tail_, the producer's
  cachedHead,  \* cached_head_, the consumer's
  pcPush,         \* where the producer is
  pcPop,         \* where the consumer is
  item,        \* the argument of push
  out,         \* the out parameter of pop
  seenPopped,  \* pops the producer has acquired (history)
  seenPushed,  \* pushes the consumer has acquired (history)
  sent,        \* items whose push returned true (history)
  received     \* items whose pop returned true (history)

producerVars == <<head, cachedTail, pcPush, item, seenPopped, sent>>
consumerVars == <<tail, cachedHead, pcPop, out, seenPushed, received>>
ringVars == <<buf, producerVars, consumerVars>>

Pushed == Len(sent)
Popped == Len(received)

Wrap(n) == n % Cap

RingTypeOK ==
  /\ buf \in [0..Cap-1 -> Items \cup {Empty}]
  /\ head \in 0..Cap-1 /\ tail \in 0..Cap-1
  /\ cachedTail \in 0..Cap-1 /\ cachedHead \in 0..Cap-1
  /\ pcPush \in {"idle", "refresh", "write", "publish"}
  /\ pcPop \in {"idle", "refresh", "take", "free"}
  /\ item \in Items \cup {Empty} /\ out \in Items \cup {Empty}
  /\ pcPush # "idle" => item \in Items
  /\ seenPopped \in Nat /\ seenPushed \in Nat
  /\ sent \in Seq(Items) /\ received \in Seq(Items)

RingInit ==
  /\ buf = [i \in 0..Cap-1 |-> Empty]
  /\ head = 0 /\ tail = 0
  /\ cachedTail = 0 /\ cachedHead = 0
  /\ pcPush = "idle" /\ pcPop = "idle"
  /\ item = Empty /\ out = Empty
  /\ seenPopped = 0 /\ seenPushed = 0
  /\ sent = << >> /\ received = << >>

-----------------------------------------------------------------------------
(* push, on the producer's thread *)

\* The ring is full when one slot is left, as far as the index t tells.
Full(t) == Wrap(head + 1) = t

\* Full or not by the cached index.
PushCall(x) ==
  /\ pcPush = "idle"
  /\ Pushed < MaxPushes
  /\ item' = x
  /\ pcPush' = IF Full(cachedTail) THEN "refresh" ELSE "write"
  /\ UNCHANGED <<buf, head, cachedTail, seenPopped, sent, consumerVars>>

\* Mutation: writes after the reload without asking again.
RefreshTailUnchecked ==
  /\ pcPush = "refresh"
  /\ \E n \in seenPopped..Popped :
       /\ seenPopped' = n
       /\ cachedTail' = Wrap(n)
  /\ pcPush' = "write"
  /\ UNCHANGED <<buf, head, item, sent, consumerVars>>

\* The acquire load of tail_; the push returns false if it is still full.
RefreshTail ==
  /\ pcPush = "refresh"
  /\ \E n \in seenPopped..Popped :
       /\ seenPopped' = n
       /\ cachedTail' = Wrap(n)
       /\ pcPush' = IF Full(Wrap(n)) THEN "idle" ELSE "write"
  /\ UNCHANGED <<buf, head, item, sent, consumerVars>>

\* Mutation: the item goes to the slot behind the one published.
WriteSlotAhead ==
  /\ pcPush = "write"
  /\ buf' = [buf EXCEPT ![Wrap(head + 1)] = item]
  /\ pcPush' = "publish"
  /\ UNCHANGED <<head, cachedTail, item, seenPopped, sent, consumerVars>>

WriteSlot ==
  /\ pcPush = "write"
  /\ buf' = [buf EXCEPT ![head] = item]
  /\ pcPush' = "publish"
  /\ UNCHANGED <<head, cachedTail, item, seenPopped, sent, consumerVars>>

\* The release store of head_.
PublishHead ==
  /\ pcPush = "publish"
  /\ head' = Wrap(head + 1)
  /\ sent' = Append(sent, item)
  /\ pcPush' = "idle"
  /\ UNCHANGED <<buf, cachedTail, item, seenPopped, consumerVars>>

-----------------------------------------------------------------------------
(* pop, on the consumer's thread *)

\* Mutation: empty by the cached index is final.
PopCallNoRefresh ==
  /\ pcPop = "idle"
  /\ pcPop' = IF tail = cachedHead THEN "idle" ELSE "take"
  /\ UNCHANGED <<buf, tail, cachedHead, out, seenPushed, received, producerVars>>

\* Empty or not by the cached index.
PopCall ==
  /\ pcPop = "idle"
  /\ pcPop' = IF tail = cachedHead THEN "refresh" ELSE "take"
  /\ UNCHANGED <<buf, tail, cachedHead, out, seenPushed, received, producerVars>>

\* The acquire load of head_ returning its n-th value; the pop returns false
\* if that is still the empty one.
AcquireHead(n) ==
  /\ pcPop = "refresh"
  /\ seenPushed' = n
  /\ cachedHead' = Wrap(n)
  /\ pcPop' = IF tail = Wrap(n) THEN "idle" ELSE "take"
  /\ UNCHANGED <<buf, tail, out, received, producerVars>>

\* Mutation: the load may return an index whose slot is not written yet.
RefreshHeadEarly == \E n \in seenPushed..Pushed + 1 : AcquireHead(n)

RefreshHead == \E n \in seenPushed..Pushed : AcquireHead(n)

TakeSlot ==
  /\ pcPop = "take"
  /\ out' = buf[tail]
  /\ buf' = [buf EXCEPT ![tail] = Empty]
  /\ pcPop' = "free"
  /\ UNCHANGED <<tail, cachedHead, seenPushed, received, producerVars>>

\* The release store of tail_.
PublishTail ==
  /\ pcPop = "free"
  /\ tail' = Wrap(tail + 1)
  /\ received' = Append(received, out)
  /\ pcPop' = "idle"
  /\ UNCHANGED <<buf, cachedHead, out, seenPushed, producerVars>>

\* size_approx, when neither index moves between its two loads.
SizeApprox == Wrap(head + Cap - tail)

-----------------------------------------------------------------------------
Push == RefreshTail \/ WriteSlot \/ PublishHead
Pop == PopCall \/ RefreshHead \/ TakeSlot \/ PublishTail

RingNext == (\E x \in Items : PushCall(x)) \/ Push \/ Pop

RingSpec == RingInit /\ [][RingNext]_ringVars

\* A push that has begun ends; the consumer keeps calling pop (the worker's
\* loop pops once a round, the scheduler polls); and a load does not return
\* old values for ever.
RingFairness ==
  /\ WF_ringVars(Push)
  /\ WF_ringVars(Pop)
  /\ SF_ringVars(AcquireHead(Pushed))

RingLiveSpec == RingSpec /\ RingFairness

-----------------------------------------------------------------------------
(* Properties *)

\* Indices, their cached copies and the slots agree with what was pushed and
\* popped: a cached index lags behind but never by so much that it wraps
\* round (spsc_queue.hpp:40), every item inside is in the slot its number
\* says, and size_approx counts them.
RingConsistent ==
  /\ head = Wrap(Pushed) /\ tail = Wrap(Popped)
  /\ cachedTail = Wrap(seenPopped) /\ cachedHead = Wrap(seenPushed)
  /\ seenPopped <= Popped /\ Popped <= seenPushed /\ seenPushed <= Pushed
  /\ Pushed - seenPopped < Cap
  /\ pcPush \in {"write", "publish"} => Pushed + 1 - seenPopped < Cap
  /\ pcPop \in {"take", "free"} => Popped < seenPushed
  /\ pcPush = "publish" => buf[head] = item
  /\ \A i \in Popped..Pushed-1 :
       (i = Popped /\ pcPop = "free") \/ buf[Wrap(i)] = sent[i + 1]
  /\ pcPop = "free" => out = sent[Popped + 1]
  /\ SizeApprox = Pushed - Popped

\* No data race on a slot: the producer writes one only if every earlier
\* take from it happened before, the consumer takes from one only if every
\* earlier write to it happened before (the two release-acquire pairs of
\* spsc_queue.hpp:20-26).
NoSlotRace ==
  /\ pcPush = "write" =>
       /\ pcPop \in {"take", "free"} => head # tail
       /\ \A i \in 0..Popped-1 : Wrap(i) = head => i < seenPopped
  /\ pcPop = "take" =>
       /\ pcPush \in {"write", "publish"} => head # tail
       /\ \A i \in 0..Pushed-1 : Wrap(i) = tail => i < seenPushed

\* What came out is what went in, in the same order, and at most Cap - 1
\* items are inside.
DeliversInOrder ==
  /\ Popped <= Pushed
  /\ \A i \in 1..Popped : received[i] = sent[i]
  /\ Pushed - Popped <= Cap - 1

Fifo == INSTANCE BoundedFifo WITH
  Room <- Cap - 1,
  queue <- SubSeq(sent, Popped + 1, Pushed)

\* The ring implements a bounded first-in first-out queue of Cap - 1 items
\* that a push enters when it stores head_ and leaves when tail_ is stored.
ImplementsFifo == Fifo!Spec

\* Every item pushed is popped, although the consumer's copy of head_ is
\* reloaded only when it says empty and a load may be late.
Delivered == \A n \in 1..MaxPushes : Pushed >= n ~> Popped >= n
=============================================================================
