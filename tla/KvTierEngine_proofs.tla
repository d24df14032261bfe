------------------------ MODULE KvTierEngine_proofs -------------------------
(***************************************************************************)
(* Proofs about KvTierEngine for any number of jobs, blocks of a job, any  *)
(* size of queues and ring: the worker's books agree with the ring, a      *)
(* drain that returns leaves nothing in the air, the destructor leaves no  *)
(* job behind, no block is issued twice, and the engine is the one         *)
(* BlockEngine describes - all as long as io_uring_submit takes what it is *)
(* given (~ShortSubmits): run kv_short_submit shows the ledger broken      *)
(* where it does not.                                                      *)
(*                                                                         *)
(* And proofs about SpscQueue, which the engine's two queues are, for      *)
(* every capacity, every set of items and every number of pushes: the      *)
(* ring's invariant, the absence of data races on its slots, and the       *)
(* refinement of BoundedFifo.  First what is needed of arithmetic modulo   *)
(* Cap, then one lemma per step of push and pop.                           *)
(***************************************************************************)
EXTENDS KvTierEngine, SpscQueue, ListLemmas, FiniteSetTheorems

-----------------------------------------------------------------------------
(* The inductive invariant *)

\* finish_job is under way, of a job from the table or of one left in in_q_.
Finishing == pcW \in {"row", "push", "retire"}

\* The worker has left its loop for good.
Ending == pcW \in {"leftover", "exit"} \/ (Finishing /\ back = "leftover")

Phases ==
  /\ sq = << >>
  /\ Finishing <=> fin # None
  /\ fin # None =>
       IF back = "leftover" THEN pcW # "row" /\ ~table[fin].live
       ELSE table[fin].live /\ AllSettled(fin, table[fin])
  /\ comps # {} => pcW = "handle" \/ (Finishing /\ back = "handle")
  /\ Ending => stop /\ NoJobs
  /\ pcW = "exit" => inQ = << >>
  /\ stop => pcC \in {"join", "gone"}

\* Accepted and neither answered nor counted off.
Unfinished == {j \in JobIds : InQ(j) \/ table[j].live \/ fin = j}

\* Each accepted job is in one place.
PlaceOf(j) ==
  /\ j \in Unfinished => desc[j] # None
  /\ InQ(j) => ~table[j].live /\ fin # j
  /\ ~table[j].live => table[j].inflight = 0 /\ table[j].next = 0
  /\ table[j].live => table[j].next <= NXfers(j)

Places ==
  /\ IsInjective(inQ)
  /\ pending = Cardinality(Unfinished)
  /\ \A j \in JobIds : PlaceOf(j)

\* An entry is in one place, and in_flight() within the ring.
Airborne ==
  /\ \A c, d \in cq \cup comps : c.job = d.job /\ c.n = d.n => c = d
  /\ cq \cap comps = {}
  /\ \A c \in cq \cup comps : <<c.job, c.n>> \notin flying
  /\ InFlight <= QueueDepth
  /\ issuedTwice = {}

\* What the worker believes of a job.
BelievedOf(j) ==
  /\ table[j].inflight = Cardinality(InTheAir(j))
  /\ \A e \in InTheAir(j) : e[2] <= table[j].next
  /\ table[j].live /\ table[j].next < NXfers(j) <=> j \in ToSet(issueOrder)

Believed == IsInjective(issueOrder) /\ \A j \in JobIds : BelievedOf(j)

\* The gather window was open when the worker skipped the submission.
Gathering == pcW = "reap" /\ skip => QueueDepth - InFlight < Threshold

\* The inductive invariant, if io_uring_submit takes all it is given.
EngineInv ==
  TypeOK /\ Phases /\ Places /\ Airborne /\ Believed /\ Gathering

-----------------------------------------------------------------------------
(* Sizes *)

\* The longest job is one of the workload.
LEMMA Longest == MaxXfers \in Nat /\ \A d \in Workload : Len(d.xfers) \in Nat /\ Len(d.xfers) <= MaxXfers
<1> DEFINE Op(d) == Len(d.xfers)
           L == {Op(d) : d \in Workload}
<1>1. IsFiniteSet(Workload) /\ Workload # {} /\ \A d \in Workload : d.xfers \in Seq(Keys \X Slots)
  BY WorkloadAssumption
<1>2. \A d \in Workload : Len(d.xfers) \in Nat
  BY <1>1, LenProperties
<1>3. IsFiniteSet(L)
  <2> DEFINE f == [d \in Workload |-> Len(d.xfers)]
  <2>1. f \in Surjection(Workload, L)
    BY DEF Surjection
  <2> QED
    BY <1>1, <2>1, FS_Surjection
<1>4. L \in SUBSET Nat /\ L # {}
  BY <1>1, <1>2
<1>5. PICK m \in L : \A n \in L : n <= m
  BY <1>3, <1>4, GreatestNat
<1>6. MaxXfers = CHOOSE n \in L : \A d \in Workload : Len(d.xfers) <= n
  BY DEF MaxXfers
<1>7. MaxXfers \in L /\ \A d \in Workload : Len(d.xfers) <= MaxXfers
  BY <1>5, <1>6
<1> QED
  BY <1>2, <1>4, <1>7

\* Jobs, entries and completions are finitely many.
LEMMA Finitely ==
  /\ \A S \in SUBSET JobIds : IsFiniteSet(S) /\ Cardinality(S) \in Nat
                              /\ Cardinality(S) <= Cardinality(JobIds)
  /\ \A S \in SUBSET Entries : IsFiniteSet(S) /\ Cardinality(S) \in Nat
  /\ \A S \in SUBSET Completion : IsFiniteSet(S) /\ Cardinality(S) \in Nat
<1> DEFINE N == 1..MaxXfers
<1>1. IsFiniteSet(JobIds) /\ IsFiniteSet(N) /\ IsFiniteSet(BOOLEAN)
  <2>1. BOOLEAN = {TRUE} \cup {FALSE}
    OBVIOUS
  <2>2. IsFiniteSet({TRUE} \cup {FALSE})
    BY FS_Singleton, FS_AddElement
  <2>3. 1 \in Int /\ MaxXfers \in Int
    BY Longest
  <2> QED
    BY <2>1, <2>2, <2>3, WorkloadAssumption, FS_Interval
<1>2. IsFiniteSet(Entries)
  BY <1>1, FS_Product DEF Entries
<1>3. IsFiniteSet(Completion)
  <2> DEFINE f == [c \in Completion |-> <<<<c.job, c.n>>, c.ok>>]
  <2>1. IsFiniteSet(Entries \X BOOLEAN)
    BY <1>1, <1>2, FS_Product
  <2>2. f \in [Completion -> Entries \X BOOLEAN]
    BY DEF Completion, Entries
  <2>3. \A c, d \in Completion : f[c] = f[d] => c = d
    BY DEF Completion
  <2>4. f \in Injection(Completion, Entries \X BOOLEAN)
    BY <2>2, <2>3 DEF Injection, IsInjective
  <2> QED
    BY <2>1, <2>4, FS_Injection
<1> QED
  BY <1>1, <1>2, <1>3, FS_Subset, FS_CardinalityType

\* A job the engine knows.
LEMMA Known ==
  ASSUME TypeOK, NEW j \in JobIds, desc[j] # None
  PROVE  /\ desc[j] \in Workload /\ NXfers(j) \in Nat /\ NXfers(j) <= MaxXfers
         /\ desc[j].xfers \in Seq(Keys \X Slots) /\ desc[j].op \in {"store", "load"}
         /\ \A n \in 1..NXfers(j) : <<j, n>> \in Entries
         /\ (NXfers(j) = 0 <=> desc[j].xfers = << >>)
<1>1. desc[j] \in Workload
  BY DEF TypeOK
<1>2. NXfers(j) \in Nat /\ NXfers(j) <= MaxXfers /\ MaxXfers \in Nat
  BY <1>1, Longest DEF NXfers
<1>3. desc[j].xfers \in Seq(Keys \X Slots) /\ desc[j].op \in {"store", "load"}
  BY <1>1, WorkloadAssumption
<1>4. NXfers(j) = 0 <=> desc[j].xfers = << >>
  BY <1>3, EmptySeq DEF NXfers
<1>5. \A n \in 1..NXfers(j) : <<j, n>> \in Entries
  BY <1>2 DEF Entries
<1> QED
  BY <1>1, <1>2, <1>3, <1>4, <1>5

-----------------------------------------------------------------------------
(* A batch *)

\* What there is to know of the jobs with transfers to issue.
OrderOK ==
  /\ issueOrder \in Seq(JobIds) /\ IsInjective(issueOrder)
  /\ \A o \in 1..Len(issueOrder) :
       LET j == issueOrder[o] IN
       /\ j \in JobIds /\ table[j].next \in Nat /\ NXfers(j) \in Nat /\ table[j].next < NXfers(j)
       /\ \A n \in 1..NXfers(j) : <<j, n>> \in Entries

\* Counting from x on.
LEMMA Shifts ==
  \A x, y \in Nat :
    /\ \A i \in 1..y - x : x + i \in x + 1..y /\ x + i \in 1..y
    /\ \A k \in x + 1..y : k - x \in 1..y - x /\ x + (k - x) = k
OBVIOUS

LEMMA OrderHolds == TypeOK /\ Places /\ Believed => OrderOK
<1> SUFFICES ASSUME TypeOK, Places, Believed PROVE OrderOK
  OBVIOUS
<1>1. issueOrder \in Seq(JobIds) /\ IsInjective(issueOrder)
  BY DEF TypeOK, Believed
<1>2. ASSUME NEW o \in 1..Len(issueOrder), NEW j, j = issueOrder[o]
      PROVE  /\ j \in JobIds /\ table[j].next \in Nat /\ NXfers(j) \in Nat /\ table[j].next < NXfers(j)
             /\ \A n \in 1..NXfers(j) : <<j, n>> \in Entries
  <2>1. j \in JobIds /\ j \in ToSet(issueOrder)
    BY <1>1, <1>2, ElementOfSeq, LenProperties DEF ToSet
  <2>2. table[j].live /\ table[j].next < NXfers(j)
    BY <2>1 DEF Believed, BelievedOf
  <2>3. desc[j] # None /\ table[j].next \in Nat
    BY <2>1, <2>2, Longest DEF Places, PlaceOf, Unfinished, TypeOK, JobState
  <2> QED
    BY <2>1, <2>2, <2>3, Known
<1> QED
  BY <1>1, <1>2 DEF OrderOK

\* The entries of the o-th job of issue_order still to issue.
Rest(o) == LET j == issueOrder[o]
           IN  [i \in 1..NXfers(j) - table[j].next |-> <<j, table[j].next + i>>]

\* An entry still to issue.
Issuable(e) == \E o \in 1..Len(issueOrder) :
  LET j == issueOrder[o] IN e[1] = j /\ e[2] \in table[j].next + 1..NXfers(j)

\* ToIssue has them all, job after job and in each job in order.
LEMMA ToIssueSorted ==
  ASSUME OrderOK
  PROVE  /\ ToIssue \in Seq(Entries)
         /\ \A a \in 1..Len(ToIssue) : Issuable(ToIssue[a])
         /\ \A o \in 1..Len(issueOrder) :
              LET j == issueOrder[o]
              IN \A n \in table[j].next + 1..NXfers(j) : \E a \in 1..Len(ToIssue) : ToIssue[a] = <<j, n>>
         /\ \A a, b \in 1..Len(ToIssue) : a < b =>
              \E o, p \in 1..Len(issueOrder) :
                /\ ToIssue[a][1] = issueOrder[o] /\ ToIssue[b][1] = issueOrder[p]
                /\ o < p \/ (o = p /\ ToIssue[a][2] < ToIssue[b][2])
<1> DEFINE n == Len(issueOrder)
           q == [o \in DOMAIN issueOrder |-> Rest(o)]
           r == ToIssue
<1>1. n \in Nat /\ DOMAIN issueOrder = 1..n
  BY LenProperties DEF OrderOK
<1>2. r = FlattenSeq(q)
  BY DEF ToIssue, Rest
<1>3. ASSUME NEW o \in 1..n
      PROVE  /\ Rest(o) \in Seq(Entries)
             /\ Len(Rest(o)) = NXfers(issueOrder[o]) - table[issueOrder[o]].next
             /\ \A i \in 1..Len(Rest(o)) : Rest(o)[i] = <<issueOrder[o], table[issueOrder[o]].next + i>>
  <2> DEFINE j == issueOrder[o]
             m == NXfers(j) - table[j].next
             s == [i \in 1..m |-> <<j, table[j].next + i>>]
  <2>1. table[j].next \in Nat /\ NXfers(j) \in Nat /\ m \in Nat
    BY DEF OrderOK
  <2>2. \A i \in 1..m : table[j].next + i \in 1..NXfers(j)
    BY <2>1, Shifts
  <2>3. \A i \in 1..m : <<j, table[j].next + i>> \in Entries
    BY <2>2 DEF OrderOK
  <2> HIDE DEF m, j
  <2>4. s \in [1..m -> Entries]
    BY <2>3
  <2>5. s \in Seq(Entries) /\ Len(s) = m
    BY <2>1, <2>4
  <2>6. Rest(o) = s
    BY DEF Rest, m, j
  <2>7. \A i \in 1..m : s[i] = <<j, table[j].next + i>>
    OBVIOUS
  <2> HIDE DEF s
  <2> QED
    BY <2>5, <2>6, <2>7 DEF m, j
<1>4. q \in Seq(Seq(Entries)) /\ Len(q) = n /\ \A o \in 1..n : q[o] = Rest(o)
  <2>1. q \in [1..n -> Seq(Entries)]
    BY <1>1, <1>3
  <2> QED
    BY <1>1, <2>1
<1> HIDE DEF n, q, r
<1>5. IsFlat(Entries, r, q, n)
  BY <1>2, <1>4, Flattened
<1>6. \A o \in 1..n : \A i \in 1..Len(q[o]) :
        /\ q[o][i] = <<issueOrder[o], table[issueOrder[o]].next + i>>
        /\ q[o][i][1] = issueOrder[o] /\ q[o][i][2] = table[issueOrder[o]].next + i
  BY <1>3, <1>4
<1>7. \A o \in 1..n : /\ Len(q[o]) = NXfers(issueOrder[o]) - table[issueOrder[o]].next
                      /\ table[issueOrder[o]].next \in Nat /\ NXfers(issueOrder[o]) \in Nat
  BY <1>3, <1>4 DEF OrderOK, n
<1>8. ASSUME NEW a \in 1..Len(r) PROVE Issuable(r[a])
  <2>1. PICK o \in 1..n : \E i \in 1..Len(q[o]) : r[a] = q[o][i]
    BY <1>5 DEF IsFlat
  <2>2. PICK i \in 1..Len(q[o]) : r[a] = q[o][i]
    BY <2>1
  <2>3. r[a][1] = issueOrder[o] /\ r[a][2] = table[issueOrder[o]].next + i
    BY <1>6, <2>2
  <2>4. table[issueOrder[o]].next + i \in table[issueOrder[o]].next + 1..NXfers(issueOrder[o])
    BY <1>7, Shifts
  <2> QED
    BY <2>3, <2>4 DEF Issuable, n
<1>9. ASSUME NEW o \in 1..n, NEW k \in table[issueOrder[o]].next + 1..NXfers(issueOrder[o])
      PROVE  \E a \in 1..Len(r) : r[a] = <<issueOrder[o], k>>
  <2>1. k - table[issueOrder[o]].next \in 1..Len(q[o])
        /\ table[issueOrder[o]].next + (k - table[issueOrder[o]].next) = k
    BY <1>7, Shifts
  <2>2. q[o][k - table[issueOrder[o]].next] = <<issueOrder[o], k>>
    BY <1>6, <2>1
  <2>3. PICK a \in 1..Len(r) : r[a] = q[o][k - table[issueOrder[o]].next]
    BY <1>5, <2>1 DEF IsFlat
  <2> QED
    BY <2>2, <2>3
<1>10. ASSUME NEW a \in 1..Len(r), NEW b \in 1..Len(r), a < b
       PROVE  \E o, p \in 1..n :
                /\ r[a][1] = issueOrder[o] /\ r[b][1] = issueOrder[p]
                /\ o < p \/ (o = p /\ r[a][2] < r[b][2])
  <2>1. PICK o, p \in 1..n : \E i \in 1..Len(q[o]), k \in 1..Len(q[p]) :
          r[a] = q[o][i] /\ r[b] = q[p][k] /\ (o < p \/ (o = p /\ i < k))
    BY <1>5, <1>10 DEF IsFlat
  <2>2. PICK i \in 1..Len(q[o]), k \in 1..Len(q[p]) :
          r[a] = q[o][i] /\ r[b] = q[p][k] /\ (o < p \/ (o = p /\ i < k))
    BY <2>1
  <2>3. /\ r[a][1] = issueOrder[o] /\ r[b][1] = issueOrder[p]
        /\ r[a][2] = table[issueOrder[o]].next + i /\ r[b][2] = table[issueOrder[p]].next + k
    BY <1>6, <2>2
  <2>4. ASSUME o = p, i < k PROVE r[a][2] < r[b][2]
    <3>1. table[issueOrder[o]].next \in Nat /\ i \in Nat /\ k \in Nat
      BY <1>7, <2>4
    <3>2. \A x, y, z \in Nat : y < z => x + y < x + z
      OBVIOUS
    <3> QED
      BY <2>3, <2>4, <3>1, <3>2
  <2> QED
    BY <2>2, <2>3, <2>4
<1> QED
  BY <1>5, <1>8, <1>9, <1>10 DEF IsFlat, n, r

\* What comes first in issue_order, or in its job, comes first in ToIssue.
LEMMA Earlier ==
  ASSUME OrderOK, NEW a \in 1..Len(ToIssue), NEW b \in 1..Len(ToIssue),
         NEW o \in 1..Len(issueOrder), NEW p \in 1..Len(issueOrder),
         ToIssue[a][1] = issueOrder[o], ToIssue[b][1] = issueOrder[p],
         o < p \/ (o = p /\ ToIssue[a][2] <= ToIssue[b][2])
  PROVE  a <= b
<1>1. Len(ToIssue) \in Nat /\ Len(issueOrder) \in Nat /\ DOMAIN issueOrder = 1..Len(issueOrder)
  BY ToIssueSorted, LenProperties DEF OrderOK
<1>2. ToIssue[a][2] \in Nat /\ ToIssue[b][2] \in Nat
  BY ToIssueSorted, ElementOfSeq DEF Entries
<1> SUFFICES ASSUME b < a PROVE FALSE
  BY <1>1
<1>3. PICK o1, p1 \in 1..Len(issueOrder) :
        /\ ToIssue[b][1] = issueOrder[o1] /\ ToIssue[a][1] = issueOrder[p1]
        /\ o1 < p1 \/ (o1 = p1 /\ ToIssue[b][2] < ToIssue[a][2])
  BY ToIssueSorted
<1>4. o1 = p /\ p1 = o
  BY <1>1, <1>3 DEF OrderOK, IsInjective
<1>5. o \in Nat /\ p \in Nat
  BY <1>1
<1> QED
  BY <1>2, <1>3, <1>4, <1>5

\* The entries of a job among the first m to issue.
GivenTo(j, m) == {n \in table[j].next + 1..NXfers(j) : \E i \in 1..m : ToIssue[i] = <<j, n>>}

LEMMA GivenInOrder ==
  ASSUME OrderOK, NEW m \in 0..Len(ToIssue), NEW o \in 1..Len(issueOrder)
  PROVE  LET j == issueOrder[o]
             c == Cardinality(GivenTo(j, m))
         IN  /\ IsFiniteSet(GivenTo(j, m)) /\ c \in Nat /\ table[j].next + c <= NXfers(j)
             /\ GivenTo(j, m) = table[j].next + 1..table[j].next + c
<1> DEFINE j == issueOrder[o]
           P == GivenTo(j, m)
           x == table[j].next
           y == NXfers(j)
<1>1. x \in Nat /\ y \in Nat /\ x < y /\ j \in JobIds
  BY DEF OrderOK
<1>2. P \in SUBSET (x + 1..y)
  BY DEF GivenTo
<1>3. ASSUME NEW n \in P, NEW k \in x + 1..y, k < n PROVE k \in P
  <2>1. PICK i \in 1..m : ToIssue[i] = <<j, n>>
    BY DEF GivenTo
  <2>2. PICK a \in 1..Len(ToIssue) : ToIssue[a] = <<j, k>>
    BY ToIssueSorted
  <2>3. Len(ToIssue) \in Nat /\ i \in 1..Len(ToIssue)
    BY ToIssueSorted, LenProperties
  <2>4. ToIssue[a][1] = j /\ ToIssue[i][1] = j /\ ToIssue[a][2] = k /\ ToIssue[i][2] = n
    BY <2>1, <2>2
  <2>5. k <= n
    BY <1>1, <1>2, <1>3
  <2> HIDE DEF x, y
  <2>6. a <= i
    BY <2>3, <2>4, <2>5, Earlier
  <2>7. a \in 1..m
    BY <2>3, <2>6
  <2> QED
    BY <2>2, <2>7 DEF GivenTo, x, y
<1> HIDE DEF x, y, P
<1>4. IsFiniteSet(P) /\ Cardinality(P) \in Nat /\ P = x + 1..x + Cardinality(P)
      /\ (P # {} => x + Cardinality(P) <= y)
  BY <1>1, <1>2, <1>3, InitialSegment
<1>5. P = {} => Cardinality(P) = 0
  BY FS_EmptySet
<1>6. x + Cardinality(P) <= y
  BY <1>1, <1>4, <1>5
<1> QED
  BY <1>4, <1>6 DEF P, x, y

\* reqs holds the given entries and no others.
HoldsGiven(reqs, m) ==
  \A j, n : <<j, n>> \in ToSet(reqs) <=>
    n \in GivenTo(j, m) /\ \E o \in 1..Len(issueOrder) : j = issueOrder[o]

\* The first m entries to issue, as reqs.
LEMMA TakenOff ==
  ASSUME OrderOK, NEW m \in 0..Len(ToIssue), NEW reqs, reqs = SubSeq(ToIssue, 1, m)
  PROVE  /\ reqs \in Seq(Entries) /\ Len(reqs) = m
         /\ DOMAIN reqs = 1..m /\ \A i \in 1..m : reqs[i] = ToIssue[i]
         /\ HoldsGiven(reqs, m)
         /\ IsFiniteSet(ToSet(reqs)) /\ Cardinality(ToSet(reqs)) \in Nat
         /\ Cardinality(ToSet(reqs)) <= m
<1>1. ToIssue \in Seq(Entries) /\ Len(ToIssue) \in Nat /\ m \in Nat
  BY ToIssueSorted, LenProperties
<1>2. reqs \in Seq(Entries) /\ Len(reqs) = m /\ \A i \in 1..m : reqs[i] = ToIssue[i]
  <2>1. \A i \in 1..m : ToIssue[i] \in Entries
    BY <1>1, ElementOfSeq
  <2>2. /\ SubSeq(ToIssue, 1, m) \in Seq(Entries)
        /\ Len(SubSeq(ToIssue, 1, m)) = IF 1 <= m THEN m - 1 + 1 ELSE 0
        /\ \A i \in 1..m - 1 + 1 : SubSeq(ToIssue, 1, m)[i] = ToIssue[1 + i - 1]
    BY <1>1, <2>1, SubSeqProperties
  <2>3. m - 1 + 1 = m /\ \A i \in 1..m : 1 + i - 1 = i
    BY <1>1
  <2>4. \A k \in Nat : (IF 1 <= k THEN k - 1 + 1 ELSE 0) = k
    OBVIOUS
  <2> QED
    BY <1>1, <2>2, <2>3, <2>4
<1>3. DOMAIN reqs = 1..m
  BY <1>2, LenProperties
<1>4. ASSUME NEW j, NEW n
      PROVE  <<j, n>> \in ToSet(reqs) <=>
               n \in GivenTo(j, m) /\ \E o \in 1..Len(issueOrder) : j = issueOrder[o]
  <2>1. ASSUME <<j, n>> \in ToSet(reqs)
        PROVE  n \in GivenTo(j, m) /\ \E o \in 1..Len(issueOrder) : j = issueOrder[o]
    <3>1. PICK i \in 1..m : ToIssue[i] = <<j, n>>
      BY <1>2, <1>3, <2>1 DEF ToSet
    <3>2. Issuable(<<j, n>>)
      <4>1. i \in 1..Len(ToIssue)
        BY <1>1
      <4>2. Issuable(ToIssue[i])
        BY <4>1, ToIssueSorted
      <4> QED
        BY <3>1, <4>2
    <3>3. PICK o \in 1..Len(issueOrder) :
            issueOrder[o] = j /\ n \in table[issueOrder[o]].next + 1..NXfers(issueOrder[o])
      BY <3>2 DEF Issuable
    <3> QED
      BY <3>1, <3>3 DEF GivenTo
  <2>2. ASSUME n \in GivenTo(j, m) PROVE <<j, n>> \in ToSet(reqs)
    BY <1>2, <1>3, <2>2 DEF GivenTo, ToSet
  <2> QED
    BY <2>1, <2>2
<1>5. /\ IsFiniteSet(ToSet(reqs)) /\ Cardinality(ToSet(reqs)) \in Nat
      /\ Cardinality(ToSet(reqs)) <= m
  <2>1. reqs \in Surjection(1..m, ToSet(reqs))
    <3>1. reqs \in [1..m -> ToSet(reqs)]
      BY <1>2, <1>3, LenProperties DEF ToSet
    <3>2. \A e \in ToSet(reqs) : \E i \in 1..m : reqs[i] = e
      BY <1>3 DEF ToSet
    <3> QED
      BY <3>1, <3>2 DEF Surjection
  <2>2. IsFiniteSet(1..m) /\ Cardinality(1..m) = m
    <3>1. Cardinality(1..m) = IF 1 > m THEN 0 ELSE m - 1 + 1
      BY <1>1, FS_Interval
    <3>2. \A k \in Nat : (IF 1 > k THEN 0 ELSE k - 1 + 1) = k
      OBVIOUS
    <3>3. 1 \in Int /\ m \in Int
      BY <1>1
    <3> QED
      BY <1>1, <3>1, <3>2, <3>3, FS_Interval
  <2> QED
    BY <2>1, <2>2, FS_Surjection, FS_CardinalityType
<1>6. HoldsGiven(reqs, m)
  BY <1>4 DEF HoldsGiven
<1> QED
  BY <1>2, <1>3, <1>5, <1>6

\* Each job's cursor moves over the entries it gave.
LEMMA Counting ==
  ASSUME OrderOK, NEW m \in 0..Len(ToIssue), NEW reqs, reqs = SubSeq(ToIssue, 1, m)
  PROVE  /\ \A o \in 1..Len(issueOrder) :
              CountOf(reqs, issueOrder[o]) = Cardinality(GivenTo(issueOrder[o], m))
         /\ \A j : (\A o \in 1..Len(issueOrder) : j # issueOrder[o]) => CountOf(reqs, j) = 0
<1>1. /\ reqs \in Seq(Entries) /\ DOMAIN reqs = 1..m /\ \A i \in 1..m : reqs[i] = ToIssue[i]
      /\ Len(ToIssue) \in Nat /\ m \in Nat /\ \A i \in 1..m : i \in 1..Len(ToIssue)
  BY TakenOff, ToIssueSorted, LenProperties
<1>2. ASSUME NEW o \in 1..Len(issueOrder)
      PROVE  CountOf(reqs, issueOrder[o]) = Cardinality(GivenTo(issueOrder[o], m))
  <2> DEFINE j == issueOrder[o]
             I == {i \in DOMAIN reqs : reqs[i][1] = j}
             P == GivenTo(j, m)
             f == [i \in I |-> reqs[i][2]]
  <2>1. I = {i \in 1..m : ToIssue[i][1] = j} /\ \A i \in I : f[i] = ToIssue[i][2]
    BY <1>1
  <2> HIDE DEF I, f
  <2>2. \A i \in 1..m : ToIssue[i] = <<ToIssue[i][1], ToIssue[i][2]>> /\ ToIssue[i][2] \in Nat
    BY <1>1, ToIssueSorted, ElementOfSeq DEF Entries
  <2>3. ASSUME NEW i \in I PROVE f[i] \in P
    <3>1. i \in 1..m /\ ToIssue[i] = <<j, f[i]>>
      BY <2>1, <2>2
    <3>2. Issuable(ToIssue[i])
      BY <1>1, <3>1, ToIssueSorted
    <3>3. f[i] \in table[j].next + 1..NXfers(j)
      BY <3>1, <3>2 DEF Issuable
    <3> QED
      BY <3>1, <3>3 DEF GivenTo
  <2>4. ASSUME NEW n \in P PROVE \E i \in I : f[i] = n
    <3>1. PICK i \in 1..m : ToIssue[i] = <<j, n>>
      BY DEF GivenTo
    <3> QED
      BY <2>1, <3>1
  <2>5. ASSUME NEW i \in I, NEW k \in I, f[i] = f[k] PROVE i = k
    <3>1. i \in 1..Len(ToIssue) /\ k \in 1..Len(ToIssue) /\ ToIssue[i][2] = ToIssue[k][2]
          /\ ToIssue[i][1] = j /\ ToIssue[k][1] = j /\ ToIssue[i][2] \in Nat
      BY <1>1, <2>1, <2>2, <2>5
    <3>2. i <= k /\ k <= i
      <4>1. ToIssue[i][2] <= ToIssue[k][2] /\ ToIssue[k][2] <= ToIssue[i][2]
        BY <3>1
      <4> QED
        BY <3>1, <4>1, Earlier
    <3> QED
      BY <1>1, <3>1, <3>2
  <2>6. f \in Bijection(I, P)
    <3>1. f \in [I -> P]
      <4>1. f = [i \in I |-> f[i]]
        BY DEF f
      <4> QED
        BY <2>3, <4>1
    <3> QED
      BY <2>4, <2>5, <3>1 DEF Bijection, Injection, Surjection, IsInjective
  <2>7. Cardinality(I) = Cardinality(P)
    <3>1. ExistsBijection(I, P)
      BY <2>6 DEF ExistsBijection
    <3>2. IsFiniteSet(I)
      <4>1. I \in SUBSET (1..m) /\ IsFiniteSet(1..m)
        BY <1>1, <2>1, FS_Interval
      <4> QED
        BY <4>1, FS_Subset
    <3> QED
      BY <3>1, <3>2, FS_Bijection
  <2> QED
    BY <2>7 DEF CountOf, I
<1>3. ASSUME NEW j, \A o \in 1..Len(issueOrder) : j # issueOrder[o] PROVE CountOf(reqs, j) = 0
  <2>1. ASSUME NEW i \in DOMAIN reqs PROVE reqs[i][1] # j
    <3>1. Issuable(ToIssue[i])
      BY <1>1, ToIssueSorted
    <3> QED
      BY <1>1, <1>3, <3>1 DEF Issuable
  <2>2. {i \in DOMAIN reqs : reqs[i][1] = j} = {}
    BY <2>1
  <2> QED
    BY <2>2, FS_EmptySet DEF CountOf
<1> QED
  BY <1>2, <1>3

LEMMA UpToSize == \A x \in Nat : IsFiniteSet(1..x) /\ Cardinality(1..x) = x
<1> SUFFICES ASSUME NEW x \in Nat PROVE IsFiniteSet(1..x) /\ Cardinality(1..x) = x
  OBVIOUS
<1>1. 1 \in Int /\ x \in Int
  OBVIOUS
<1>2. IsFiniteSet(1..x) /\ Cardinality(1..x) = IF 1 > x THEN 0 ELSE x - 1 + 1
  BY <1>1, FS_Interval
<1>3. (IF 1 > x THEN 0 ELSE x - 1 + 1) = x
  OBVIOUS
<1> QED
  BY <1>2, <1>3

\* A job's transfers in the air are finitely many, and below its cursor.
LEMMA AirOf ==
  ASSUME TypeOK, NEW j \in JobIds
  PROVE  /\ InTheAir(j) \in SUBSET Entries /\ IsFiniteSet(InTheAir(j))
         /\ \A e \in InTheAir(j) : e[1] = j /\ e[2] \in Nat /\ e[2] >= 1 /\ e = <<j, e[2]>>
         /\ BelievedOf(j) => table[j].inflight <= table[j].next
<1>1. ASSUME NEW e \in InTheAir(j) PROVE e \in Entries /\ e[1] = j
  <2>1. CASE e \in flying
    BY <2>1 DEF InTheAir, TypeOK, Entries
  <2>2. CASE e \notin flying
    <3>1. PICK c \in cq \cup comps : c.job = j /\ e = <<c.job, c.n>>
      BY <2>2 DEF InTheAir
    <3> QED
      BY <3>1 DEF TypeOK, Completion, Entries
  <2> QED
    BY <2>1, <2>2
<1>2. InTheAir(j) \in SUBSET Entries /\ IsFiniteSet(InTheAir(j))
  BY <1>1, Finitely
<1>3. \A e \in InTheAir(j) : e[1] = j /\ e[2] \in Nat /\ e[2] >= 1 /\ e = <<j, e[2]>>
  BY <1>1 DEF Entries
<1>4. ASSUME BelievedOf(j) PROVE table[j].inflight <= table[j].next
  <2> DEFINE x == table[j].next
             T == InTheAir(j)
             f == [e \in T |-> e[2]]
  <2>1. x \in Nat
    BY Longest DEF TypeOK, JobState
  <2>2. \A e \in T : e[2] \in 1..x
    BY <1>3, <1>4, <2>1 DEF BelievedOf
  <2>3. f \in Injection(T, 1..x)
    BY <1>3, <2>2 DEF Injection, IsInjective
  <2>4. IsFiniteSet(1..x) /\ Cardinality(1..x) = x
    <3> HIDE DEF x
    <3> QED
      BY <2>1, UpToSize
  <2>5. Cardinality(T) <= x
    BY <2>3, <2>4, FS_Injection
  <2> QED
    BY <1>4, <2>5 DEF BelievedOf
<1> QED
  BY <1>2, <1>3, <1>4

\* The worker's books once a batch has been filled.
AfterFill(after, reqs) ==
  /\ after.tab \in [JobIds -> JobState]
  /\ \A j \in JobIds :
       /\ after.tab[j].live = table[j].live /\ after.tab[j].failed = table[j].failed
       /\ CountOf(reqs, j) \in Nat
       /\ after.tab[j].next = table[j].next + CountOf(reqs, j)
       /\ after.tab[j].inflight = table[j].inflight + CountOf(reqs, j)
  /\ after.order \in Seq(JobIds) /\ IsInjective(after.order)
  /\ ToSet(after.order) = {j \in ToSet(issueOrder) : after.tab[j].next # NXfers(j)}

\* Jobs run out of entries from the front of issue_order on.
LEMMA FrontRunsOut ==
  ASSUME OrderOK, NEW m \in 0..Len(ToIssue), NEW reqs, reqs = SubSeq(ToIssue, 1, m),
         NEW n \in 1..Len(issueOrder), NEW k \in 1..Len(issueOrder), k < n,
         table[issueOrder[n]].next + CountOf(reqs, issueOrder[n]) = NXfers(issueOrder[n])
  PROVE  table[issueOrder[k]].next + CountOf(reqs, issueOrder[k]) = NXfers(issueOrder[k])
<1> DEFINE Gn == GivenTo(issueOrder[n], m)
           Gk == GivenTo(issueOrder[k], m)
           xn == table[issueOrder[n]].next
           yn == NXfers(issueOrder[n])
           xk == table[issueOrder[k]].next
           yk == NXfers(issueOrder[k])
<1>1. xn \in Nat /\ yn \in Nat /\ xn < yn /\ xk \in Nat /\ yk \in Nat /\ xk < yk
  BY DEF OrderOK
<1>2. /\ Cardinality(Gn) \in Nat /\ Cardinality(Gk) \in Nat
      /\ Gn = xn + 1..xn + Cardinality(Gn)
      /\ Gk = xk + 1..xk + Cardinality(Gk) /\ xk + Cardinality(Gk) <= yk
  BY GivenInOrder
<1>3. /\ CountOf(reqs, issueOrder[n]) = Cardinality(Gn)
      /\ CountOf(reqs, issueOrder[k]) = Cardinality(Gk)
  BY Counting
<1>4. xn + Cardinality(Gn) = yn
  BY <1>3
<1>5. yk \in xk + 1..yk
  <2> HIDE DEF xk, yk
  <2> QED
    BY <1>1
<1> DEFINE cn == Cardinality(Gn)
           ck == Cardinality(Gk)
<1>6. yn \in Gn
  <2> HIDE DEF xn, yn, Gn, cn
  <2>1. cn \in Nat /\ Gn = xn + 1..xn + cn /\ xn + cn = yn
    BY <1>2, <1>4 DEF cn
  <2> QED
    BY <1>1, <2>1
<1>7. PICK i \in 1..m : ToIssue[i] = <<issueOrder[n], yn>>
  BY <1>6 DEF GivenTo
<1>8. PICK a \in 1..Len(ToIssue) : ToIssue[a] = <<issueOrder[k], yk>>
  BY <1>5, ToIssueSorted
<1>9. i \in 1..Len(ToIssue) /\ Len(ToIssue) \in Nat
  BY ToIssueSorted, LenProperties
<1>10. ToIssue[i][1] = issueOrder[n] /\ ToIssue[a][1] = issueOrder[k]
  BY <1>7, <1>8
<1>11. a <= i
  BY <1>9, <1>10, Earlier
<1>12. a \in 1..m
  BY <1>9, <1>11
<1>13. yk \in Gk
  BY <1>5, <1>8, <1>12 DEF GivenTo
<1> HIDE DEF xk, yk, Gk, ck
<1>14. ck \in Nat /\ Gk = xk + 1..xk + ck /\ xk + ck <= yk
  BY <1>2 DEF ck
<1>15. xk + ck = yk
  BY <1>1, <1>13, <1>14
<1> QED
  BY <1>3, <1>15 DEF xk, yk, ck

LEMMA FilledWell ==
  ASSUME TypeOK, Places, Believed, OrderOK,
         NEW m \in 0..Len(ToIssue), NEW reqs, reqs = SubSeq(ToIssue, 1, m)
  PROVE  AfterFill(Filled(reqs), reqs)
<1> DEFINE tab == [j \in JobIds |-> [table[j] EXCEPT
                     !.next = @ + CountOf(reqs, j), !.inflight = @ + CountOf(reqs, j)]]
           l == Len(issueOrder)
           E == {o \in 1..l : tab[issueOrder[o]].next = NXfers(issueOrder[o])}
           c == Cardinality(E)
           r == SubSeq(issueOrder, c + 1, l)
<1>1. l \in Nat /\ DOMAIN issueOrder = 1..l /\ issueOrder \in Seq(JobIds) /\ IsInjective(issueOrder)
      /\ \A o \in 1..l : issueOrder[o] \in JobIds
  BY LenProperties DEF OrderOK
<1>2. Filled(reqs) = [tab |-> tab, order |-> r]
  <2>1. E = {o \in DOMAIN issueOrder : tab[issueOrder[o]].next = NXfers(issueOrder[o])}
    BY <1>1
  <2>2. c = Exhausted(tab)
    <3> HIDE DEF tab
    <3> QED
      BY <2>1 DEF Exhausted
  <2>3. Filled(reqs) = [tab |-> tab, order |-> SubSeq(issueOrder, Exhausted(tab) + 1, Len(issueOrder))]
    BY DEF Filled
  <2> QED
    BY <2>2, <2>3
<1>3. ASSUME NEW j \in JobIds
      PROVE  /\ CountOf(reqs, j) \in Nat /\ table[j].next + CountOf(reqs, j) <= MaxXfers
             /\ table[j].inflight + CountOf(reqs, j) <= MaxXfers
             /\ table[j].inflight \in Nat /\ table[j].next \in Nat
  <2>1. table[j].inflight \in Nat /\ table[j].next \in Nat /\ MaxXfers \in Nat
        /\ table[j].inflight <= MaxXfers /\ table[j].next <= MaxXfers
    BY Longest DEF TypeOK, JobState
  <2>2. table[j].inflight <= table[j].next
    BY AirOf DEF Believed
  <2>3. CASE \E o \in 1..l : j = issueOrder[o]
    <3>1. PICK o \in 1..l : j = issueOrder[o]
      BY <2>3
    <3>2. CountOf(reqs, j) = Cardinality(GivenTo(j, m))
      BY <3>1, Counting
    <3>3. CountOf(reqs, j) \in Nat /\ table[j].next + CountOf(reqs, j) <= NXfers(j)
      BY <3>1, <3>2, GivenInOrder
    <3>4. NXfers(j) \in Nat /\ NXfers(j) <= MaxXfers
      <4>1. j \in ToSet(issueOrder)
        BY <1>1, <3>1 DEF ToSet
      <4>2. desc[j] # None
        BY <4>1 DEF Believed, BelievedOf, Places, PlaceOf, Unfinished
      <4> QED
        BY <4>2, Known
    <3> DEFINE k == CountOf(reqs, j)
               x == table[j].next
               y == table[j].inflight
               z == NXfers(j)
    <3>5. /\ k \in Nat /\ x + k <= z /\ z \in Nat /\ z <= MaxXfers
          /\ x \in Nat /\ y \in Nat /\ MaxXfers \in Nat /\ y <= x
      BY <2>1, <2>2, <3>3, <3>4
    <3> HIDE DEF k, x, y, z
    <3>6. k \in Nat /\ x + k <= MaxXfers /\ y + k <= MaxXfers /\ y \in Nat /\ x \in Nat
      BY <3>5
    <3> QED
      BY <3>6 DEF k, x, y
  <2>4. CASE \A o \in 1..l : j # issueOrder[o]
    <3>1. CountOf(reqs, j) = 0
      BY <2>4, Counting
    <3> QED
      BY <2>1, <3>1
  <2> QED
    BY <2>3, <2>4
<1>4. ASSUME NEW j \in JobIds
      PROVE  /\ tab[j] \in JobState
             /\ tab[j].live = table[j].live /\ tab[j].failed = table[j].failed
             /\ tab[j].next = table[j].next + CountOf(reqs, j)
             /\ tab[j].inflight = table[j].inflight + CountOf(reqs, j)
  <2> DEFINE k == CountOf(reqs, j)
  <2>1. table[j] \in JobState
    BY DEF TypeOK
  <2>2. k \in Nat /\ table[j].next + k \in 0..MaxXfers /\ table[j].inflight + k \in 0..MaxXfers
    <3> DEFINE x == table[j].next
               y == table[j].inflight
    <3>1. /\ k \in Nat /\ x + k <= MaxXfers /\ y + k <= MaxXfers /\ x \in Nat /\ y \in Nat
          /\ MaxXfers \in Nat
      BY <1>3, Longest
    <3> HIDE DEF k, x, y
    <3>2. k \in Nat /\ x + k \in 0..MaxXfers /\ y + k \in 0..MaxXfers
      BY <3>1
    <3> QED
      BY <3>2 DEF x, y
  <2> HIDE DEF k
  <2>3. tab[j] = [table[j] EXCEPT !.next = @ + k, !.inflight = @ + k]
    BY DEF k
  <2>4. /\ tab[j] \in JobState
        /\ tab[j].live = table[j].live /\ tab[j].failed = table[j].failed
        /\ tab[j].next = table[j].next + k
        /\ tab[j].inflight = table[j].inflight + k
    BY <2>1, <2>2, <2>3 DEF JobState
  <2> QED
    BY <2>4 DEF k
<1>5. tab \in [JobIds -> JobState]
  <2>1. tab = [j \in JobIds |-> tab[j]]
    OBVIOUS
  <2> HIDE DEF tab
  <2> QED
    BY <1>4, <2>1
<1> HIDE DEF tab, l
<1>6. IsFiniteSet(E) /\ c \in Nat /\ E = 1..c /\ c <= l
  <2>1. E \in SUBSET (0 + 1..l)
    BY <1>1
  <2>2. ASSUME NEW n \in E, NEW k \in 0 + 1..l, k < n PROVE k \in E
    <3>1. n \in 1..l /\ k \in 1..l
      BY <1>1
    <3>2. /\ tab[issueOrder[n]].next = table[issueOrder[n]].next + CountOf(reqs, issueOrder[n])
          /\ tab[issueOrder[k]].next = table[issueOrder[k]].next + CountOf(reqs, issueOrder[k])
      BY <1>1, <1>4, <3>1
    <3>3. tab[issueOrder[k]].next = NXfers(issueOrder[k])
      BY <2>2, <3>1, <3>2, FrontRunsOut DEF l
    <3> QED
      BY <3>1, <3>3
  <2>3. IsFiniteSet(E) /\ c \in Nat /\ E = 0 + 1..0 + c /\ (E # {} => 0 + c <= l)
    BY <1>1, <2>1, <2>2, InitialSegment
  <2>4. E = {} => c = 0
    BY FS_EmptySet
  <2> HIDE DEF E, c
  <2>5. E = 1..c
    <3>1. c \in Nat /\ E = 0 + 1..0 + c
      BY <2>3
    <3>2. 0 + c = c /\ 0 + 1 = 1
      BY <3>1
    <3> QED
      BY <3>1, <3>2
  <2>6. c <= l
    BY <1>1, <2>3, <2>4
  <2> QED
    BY <2>3, <2>5, <2>6
<1>7. /\ r \in Seq(JobIds) /\ IsInjective(r)
      /\ ToSet(r) = {issueOrder[i] : i \in c + 1..l}
  <2>1. c \in 0..Len(issueOrder)
    BY <1>1, <1>6 DEF l
  <2> QED
    BY <1>1, <2>1, FrontDropped DEF l
<1>8. ToSet(r) = {j \in ToSet(issueOrder) : tab[j].next # NXfers(j)}
  <2>1. ASSUME NEW i \in c + 1..l PROVE i \in 1..l /\ i \notin E
    <3> HIDE DEF E, c
    <3> QED
      BY <1>1, <1>6, <2>1
  <2>2. ASSUME NEW i \in 1..l, i \notin E PROVE i \in c + 1..l
    <3> HIDE DEF E, c
    <3> QED
      BY <1>1, <1>6, <2>2
  <2>3. ToSet(issueOrder) = {issueOrder[i] : i \in 1..l}
    BY <1>1 DEF ToSet
  <2>4. \A i \in 1..l : i \in E <=> tab[issueOrder[i]].next = NXfers(issueOrder[i])
    OBVIOUS
  <2> HIDE DEF E, c, r
  <2> QED
    BY <1>7, <2>1, <2>2, <2>3, <2>4
<1> HIDE DEF E, c, r
<1>9. Filled(reqs).tab = tab /\ Filled(reqs).order = r
  BY <1>2
<1> QED
  BY <1>3, <1>4, <1>5, <1>7, <1>8, <1>9 DEF AfterFill

\* Nothing to roll back.
LEMMA NothingRefused ==
  ASSUME NEW base
  PROVE  FoldLeft(RolledBack, base, << >>) = base
<1>1. DOMAIN << >> = {}
  OBVIOUS
<1> DEFINE R(it, s) == RolledBack(it[s \ {Max(s)}], << >>[Max(s)])
           F(it) == [s \in SUBSET (DOMAIN << >>) |-> IF s = {} THEN base ELSE R(it, s)]
           f == CHOOSE it : it = F(it)
<1>2. FoldLeft(RolledBack, base, << >>) = f[DOMAIN << >>]
  BY Zenon DEF FoldLeft, MapThenFoldSet
<1> HIDE DEF R
<1> DEFINE g == [s \in {{}} |-> base]
<1>3. g = F(g)
  BY <1>1
<1>4. f = F(f)
  BY <1>3, Zenon
<1>5. F(f)[DOMAIN << >>] = base
  BY <1>1
<1> QED
  BY <1>2, <1>4, <1>5, Zenon

\* What is cut off beyond the end.
LEMMA NothingBeyond ==
  ASSUME NEW S, NEW q \in Seq(S)
  PROVE  /\ SubSeq(q, Len(q) + 1, Len(q)) = << >> /\ SubSeq(q, 1, Len(q)) = q
         /\ << >> \o q = q /\ Reverse(<< >>) = << >>
<1>1. Len(q) \in Nat /\ \A i \in 1..Len(q) : q[i] \in S
  BY LenProperties, ElementOfSeq
<1>2. SubSeq(q, Len(q) + 1, Len(q)) = << >>
  <2>1. SubSeq(q, Len(q) + 1, Len(q)) \in Seq(S) /\ Len(SubSeq(q, Len(q) + 1, Len(q))) = Len(q) - Len(q)
    <3>1. Len(q) \in 0..Len(q)
      BY <1>1
    <3> QED
      BY <3>1, FrontDropped
  <2> QED
    BY <1>1, <2>1, EmptySeq
<1>3. SubSeq(q, 1, Len(q)) = q
  <2>1. 0 \in 0..Len(q)
    BY <1>1
  <2>2. /\ SubSeq(q, 1, Len(q)) \in Seq(S)
        /\ Len(SubSeq(q, 1, Len(q))) = IF 1 <= Len(q) THEN Len(q) - 1 + 1 ELSE 0
        /\ \A i \in 1..Len(q) - 1 + 1 : SubSeq(q, 1, Len(q))[i] = q[1 + i - 1]
    BY <1>1, SubSeqProperties
  <2>3. Len(q) - 1 + 1 = Len(q) /\ \A i \in 1..Len(q) : 1 + i - 1 = i
    BY <1>1
  <2>4. \A k \in Nat : (IF 1 <= k THEN k - 1 + 1 ELSE 0) = k
    OBVIOUS
  <2>5. Len(SubSeq(q, 1, Len(q))) = Len(q) /\ \A i \in 1..Len(q) : SubSeq(q, 1, Len(q))[i] = q[i]
    BY <1>1, <2>2, <2>3, <2>4
  <2> QED
    BY <2>2, <2>5, SeqEqual
<1>4. << >> \o q = q
  BY ConcatEmptySeq
<1>5. Reverse(<< >>) = << >>
  BY DEF Reverse
<1> QED
  BY <1>2, <1>3, <1>4, <1>5

\* in_flight() and the threshold are numbers.
LEMMA InFlightSize ==
  ASSUME TypeOK
  PROVE  /\ IsFiniteSet(flying) /\ IsFiniteSet(cq) /\ IsFiniteSet(comps)
         /\ Cardinality(flying) \in Nat /\ Cardinality(cq) \in Nat /\ InFlight \in Nat
         /\ QueueDepth \in Nat /\ QueueDepth >= 1
         /\ Threshold \in 1..32
         /\ (QueueDepth >= 2 => 2 * Threshold <= QueueDepth)
         /\ (QueueDepth = 1 => Threshold = 1)
<1>1. /\ IsFiniteSet(flying) /\ IsFiniteSet(cq) /\ IsFiniteSet(comps)
      /\ Cardinality(flying) \in Nat /\ Cardinality(cq) \in Nat
  BY Finitely DEF TypeOK
<1>2. InFlight \in Nat
  BY <1>1 DEF InFlight
<1>3. QueueDepth \in Nat /\ QueueDepth >= 1
  BY DepthAssumption
<1>4. QueueDepth \div 2 \in Nat /\ 2 * (QueueDepth \div 2) <= QueueDepth
      /\ (QueueDepth >= 2 => QueueDepth \div 2 >= 1)
      /\ (QueueDepth = 1 => QueueDepth \div 2 = 0)
  BY <1>3
<1> DEFINE h == QueueDepth \div 2
<1> HIDE DEF h
<1>5. Threshold = IF Least(32, h) < 1 THEN 1 ELSE Least(32, h)
  BY DEF Threshold, h
<1> QED
  BY <1>1, <1>2, <1>3, <1>4, <1>5 DEF Least, h

\* What an accepted batch of the first m entries does.
IssuesFirst(m, reqs) ==
  /\ reqs = SubSeq(ToIssue, 1, m) /\ InFlight + m <= QueueDepth
  /\ flying' = flying \cup ToSet(reqs)
  /\ issuedTwice' = issuedTwice \cup
       (ToSet(reqs) \cap (flying \cup {<<c.job, c.n>> : c \in cq \cup comps}))
  /\ sq' = << >>
  /\ table' = Filled(reqs).tab
  /\ issueOrder' = Filled(reqs).order

\* Without short submits all of a batch is taken.
LEMMA WholeBatch ==
  ASSUME TypeOK, Phases, Airborne, OrderOK, Issue, ~ShortSubmits
  PROVE  \E m \in 1..Len(ToIssue) : IssuesFirst(m, Batch)
<1> DEFINE reqs == Batch
           m == Least(QueueDepth - InFlight, Len(ToIssue))
<1>1. ~GatherWindow /\ reqs = SubSeq(ToIssue, 1, m)
  BY DEF Issue, Batch
<1>2. Len(ToIssue) \in Nat /\ InFlight \in Nat /\ QueueDepth \in Nat /\ InFlight <= QueueDepth
  BY InFlightSize, ToIssueSorted, LenProperties DEF Airborne
<1>3. m \in 0..Len(ToIssue) /\ InFlight + m <= QueueDepth
  BY <1>2 DEF Least
<1> HIDE DEF m
<1>4. reqs \in Seq(Entries) /\ Len(reqs) = m
  BY <1>1, <1>3, TakenOff
<1>5. m # 0
  <2>1. reqs # << >>
    BY DEF Issue
  <2> QED
    BY <1>4, <2>1, EmptySeq
<1> HIDE DEF reqs
<1>6. Prepared(reqs) = reqs
  <2>1. sq = << >> /\ Len(sq) = 0
    BY EmptySeq DEF Phases
  <2>2. Least(Len(reqs), QueueDepth - Len(sq)) = Len(reqs)
    BY <1>2, <1>3, <1>4, <2>1 DEF Least
  <2> QED
    BY <1>4, <2>2, NothingBeyond DEF Prepared
<1>7. sq \o Prepared(reqs) = reqs
  BY <1>4, <1>6, NothingBeyond DEF Phases
<1> DEFINE given == sq \o Prepared(reqs)
           After(a) == FoldLeft(RolledBack, Filled(reqs), Reverse(SubSeq(reqs, a + 1, Len(reqs))))
<1>8. \E a \in {Len(given)} :
        /\ flying' = flying \cup ToSet(SubSeq(given, 1, a))
        /\ issuedTwice' = issuedTwice \cup
             (ToSet(SubSeq(given, 1, a)) \cap (flying \cup {<<c.job, c.n>> : c \in cq \cup comps}))
        /\ sq' = SubSeq(given, a + 1, Len(given))
        /\ table' = After(a).tab
        /\ issueOrder' = After(a).order
  BY DEF Issue, reqs
<1>9. given = reqs /\ SubSeq(given, 1, Len(given)) = reqs /\ SubSeq(given, Len(given) + 1, Len(given)) = << >>
  BY <1>4, <1>7, NothingBeyond
<1>10. After(Len(given)) = Filled(reqs)
  <2>1. SubSeq(reqs, Len(given) + 1, Len(reqs)) = << >>
    BY <1>9
  <2>2. Reverse(SubSeq(reqs, Len(given) + 1, Len(reqs))) = << >>
    BY <1>4, <2>1, NothingBeyond
  <2> QED
    BY <2>2, NothingRefused
<1> HIDE DEF given, After
<1>11. IssuesFirst(m, reqs)
  BY <1>1, <1>3, <1>8, <1>9, <1>10 DEF IssuesFirst
<1> QED
  BY <1>3, <1>5, <1>11 DEF reqs

\* What a batch holds of a job: entries right behind its cursor, as many as
\* the cursor moves.
GivenOf(reqs, j) == {e \in ToSet(reqs) : e[1] = j}

LEMMA GivenOfJob ==
  ASSUME TypeOK, Places, Believed, OrderOK, NEW m \in 0..Len(ToIssue),
         NEW reqs, reqs = SubSeq(ToIssue, 1, m), NEW j \in JobIds
  PROVE  /\ GivenOf(reqs, j) \in SUBSET Entries /\ IsFiniteSet(GivenOf(reqs, j))
         /\ Cardinality(GivenOf(reqs, j)) = CountOf(reqs, j) /\ CountOf(reqs, j) \in Nat
         /\ \A e \in GivenOf(reqs, j) : table[j].next < e[2] /\ e[2] <= table[j].next + CountOf(reqs, j)
         /\ \A n \in table[j].next + 1..table[j].next + CountOf(reqs, j) : <<j, n>> \in GivenOf(reqs, j)
         /\ j \notin ToSet(issueOrder) => CountOf(reqs, j) = 0
         /\ j \in ToSet(issueOrder) =>
              table[j].next + CountOf(reqs, j) <= NXfers(j) /\ NXfers(j) \in Nat
<1> DEFINE T == GivenOf(reqs, j)
           x == table[j].next
<1>1. /\ reqs \in Seq(Entries) /\ ToSet(reqs) \in SUBSET Entries
      /\ \A k, n : <<k, n>> \in ToSet(reqs) <=>
              n \in GivenTo(k, m) /\ \E o \in 1..Len(issueOrder) : k = issueOrder[o]
  <2>1. reqs \in Seq(Entries) /\ DOMAIN reqs = 1..Len(reqs)
    BY TakenOff, LenProperties
  <2>2. ToSet(reqs) \in SUBSET Entries
    <3>1. \A i \in 1..Len(reqs) : reqs[i] \in Entries
      BY <2>1, ElementOfSeq
    <3>2. ToSet(reqs) = {reqs[i] : i \in 1..Len(reqs)}
      BY <2>1 DEF ToSet
    <3>3. ASSUME NEW e \in ToSet(reqs) PROVE e \in Entries
      <4>1. PICK i \in 1..Len(reqs) : e = reqs[i]
        BY <3>2
      <4> QED
        BY <3>1, <4>1
    <3> QED
      BY <3>3
  <2>3. \A k, n : <<k, n>> \in ToSet(reqs) <=>
              n \in GivenTo(k, m) /\ \E o \in 1..Len(issueOrder) : k = issueOrder[o]
    <3>1. HoldsGiven(reqs, m)
      BY TakenOff
    <3> QED
      BY <3>1 DEF HoldsGiven
  <2> QED
    BY <2>1, <2>2, <2>3
<1>2. T \in SUBSET Entries /\ IsFiniteSet(T)
  BY <1>1, Finitely DEF GivenOf
<1>3. ToSet(issueOrder) = {issueOrder[o] : o \in 1..Len(issueOrder)}
  BY LenProperties DEF OrderOK, ToSet
<1>4. CASE j \notin ToSet(issueOrder)
  <2>1. \A o \in 1..Len(issueOrder) : j # issueOrder[o]
    BY <1>3, <1>4
  <2>2. CountOf(reqs, j) = 0
    BY <2>1, Counting
  <2>3. T = {}
    <3> SUFFICES ASSUME NEW e \in T PROVE FALSE
      OBVIOUS
    <3>1. e = <<j, e[2]>> /\ e \in ToSet(reqs)
      BY <1>2 DEF Entries, GivenOf
    <3> QED
      BY <1>1, <2>1, <3>1
  <2>4. table[j].next + 1..table[j].next + CountOf(reqs, j) = {}
    <3>1. table[j].next \in Nat
      BY Longest DEF TypeOK, JobState
    <3> QED
      BY <2>2, <3>1
  <2> QED
    BY <1>2, <1>4, <2>2, <2>3, <2>4, FS_EmptySet
<1>5. CASE j \in ToSet(issueOrder)
  <2>1. PICK o \in 1..Len(issueOrder) : j = issueOrder[o]
    BY <1>3, <1>5
  <2> DEFINE P == GivenTo(j, m)
             c == CountOf(reqs, j)
  <2>2. /\ IsFiniteSet(P) /\ c = Cardinality(P) /\ c \in Nat /\ P = x + 1..x + c
        /\ x + c <= NXfers(j) /\ x \in Nat /\ NXfers(j) \in Nat
    <3>1. x \in Nat /\ NXfers(j) \in Nat
      BY <2>1 DEF OrderOK
    <3>2. c = Cardinality(P)
      BY <2>1, Counting
    <3>3. IsFiniteSet(P) /\ Cardinality(P) \in Nat /\ P = x + 1..x + Cardinality(P)
          /\ x + Cardinality(P) <= NXfers(j)
      BY <2>1, GivenInOrder
    <3> HIDE DEF P, c, x
    <3> QED
      BY <3>1, <3>2, <3>3
  <2>3. \A n : <<j, n>> \in ToSet(reqs) <=> n \in P
    BY <1>1, <2>1
  <2> HIDE DEF P, c, x
  <2>4. \A e \in T : e = <<j, e[2]>> /\ e[2] \in P
    <3> SUFFICES ASSUME NEW e \in T PROVE e = <<j, e[2]>> /\ e[2] \in P
      OBVIOUS
    <3>1. e = <<j, e[2]>> /\ e \in ToSet(reqs)
      BY <1>2 DEF Entries, GivenOf
    <3> QED
      BY <2>3, <3>1
  <2> DEFINE f == [e \in T |-> e[2]]
  <2>5. f \in Bijection(T, P)
    <3>1. f \in [T -> P]
      BY <2>4
    <3>2. ASSUME NEW n \in P PROVE \E e \in T : f[e] = n
      <4>1. <<j, n>> \in T /\ <<j, n>>[2] = n
        BY <2>3 DEF GivenOf
      <4>2. f[<<j, n>>] = n
        BY <4>1
      <4> QED
        BY <4>1, <4>2
    <3>3. \A d, e \in T : f[d] = f[e] => d = e
      BY <2>4
    <3> QED
      BY <3>1, <3>2, <3>3 DEF Bijection, Injection, Surjection, IsInjective
  <2>6. Cardinality(T) = Cardinality(P)
    <3>1. ExistsBijection(T, P)
      BY <2>5 DEF ExistsBijection
    <3> HIDE DEF T
    <3> QED
      BY <1>2, <3>1, FS_Bijection
  <2>7. \A n \in P : x < n /\ n <= x + c
    <3>1. \A a, b \in Nat : \A n \in a + 1..a + b : a < n /\ n <= a + b
      OBVIOUS
    <3>2. x \in Nat /\ c \in Nat /\ P = x + 1..x + c
      BY <2>2
    <3> QED
      BY <3>1, <3>2, Zenon
  <2>8. \A n \in x + 1..x + c : <<j, n>> \in T
    BY <2>2, <2>3 DEF GivenOf
  <2> QED
    BY <1>2, <1>5, <2>2, <2>4, <2>6, <2>7, <2>8 DEF c, x
<1> QED
  BY <1>4, <1>5

-----------------------------------------------------------------------------
(* What a step leaves alone *)

LEMMA SamePlaces ==
  ASSUME Places, UNCHANGED <<inQ, table, fin, desc, pending>>
  PROVE  Places'
BY DEF Places, PlaceOf, Unfinished, InQ, NXfers

LEMMA SameAir ==
  ASSUME Airborne, UNCHANGED <<flying, cq, comps, issuedTwice>>
  PROVE  Airborne'
BY DEF Airborne, InFlight

LEMMA SameBelief ==
  ASSUME Believed, UNCHANGED <<table, flying, cq, comps, desc, issueOrder>>
  PROVE  Believed'
BY DEF Believed, BelievedOf, InTheAir, NXfers

LEMMA SameGathering ==
  ASSUME Gathering, UNCHANGED <<flying, cq>>, pcW' # "reap" \/ UNCHANGED <<pcW, skip>>
  PROVE  Gathering'
BY DEF Gathering, InFlight, Threshold

\* Jobs in a queue.
LEMMA InQIsIn ==
  /\ \A j : InQ(j) <=> j \in ToSet(inQ)
  /\ \A j : InQ(j)' <=> j \in ToSet(inQ')
BY DEF InQ, ToSet

\* The caller notifies.
LEMMA NotifyHolds == EngineInv /\ Notify => EngineInv'
<1> SUFFICES ASSUME TypeOK, Phases, Places, Airborne, Believed, Gathering, Notify PROVE EngineInv'
  BY DEF EngineInv
<1> USE DEF Notify
<1>1. TypeOK'
  BY DEF TypeOK, shared, local, ring
<1>2. Phases'
  BY DEF Phases, Finishing, Ending, NoJobs, AllSettled, NXfers, shared, local, ring
<1>3. Places'
  BY SamePlaces DEF shared, local
<1>4. Airborne'
  BY SameAir DEF local, ring
<1>5. Believed'
  BY SameBelief DEF shared, local, ring
<1>6. Gathering'
  BY SameGathering DEF Phases, local, ring
<1> QED
  BY <1>1, <1>2, <1>3, <1>4, <1>5, <1>6 DEF EngineInv

\* Rows are taken.
LEMMA RecordsHold == EngineInv /\ DrainRecords => EngineInv'
<1> SUFFICES ASSUME TypeOK, Phases, Places, Airborne, Believed, Gathering, DrainRecords PROVE EngineInv'
  BY DEF EngineInv
<1> USE DEF DrainRecords
<1>1. TypeOK'
  BY DEF TypeOK, shared, local, ring
<1>2. Phases'
  BY DEF Phases, Finishing, Ending, NoJobs, AllSettled, NXfers, shared, local, ring
<1>3. Places'
  BY SamePlaces DEF shared, local
<1>4. Airborne'
  BY SameAir DEF local, ring
<1>5. Believed'
  BY SameBelief DEF shared, local, ring
<1>6. Gathering'
  BY SameGathering DEF Phases, local, ring
<1> QED
  BY <1>1, <1>2, <1>3, <1>4, <1>5, <1>6 DEF EngineInv

\* drain is called.
LEMMA DrainCallHolds == EngineInv /\ DrainCall => EngineInv'
<1> SUFFICES ASSUME TypeOK, Phases, Places, Airborne, Believed, Gathering, DrainCall PROVE EngineInv'
  BY DEF EngineInv
<1> USE DEF DrainCall
<1>1. TypeOK'
  BY DEF TypeOK, shared, local, ring
<1>2. Phases'
  BY DEF Phases, Finishing, Ending, NoJobs, AllSettled, NXfers, shared, local, ring
<1>3. Places'
  BY SamePlaces DEF shared, local
<1>4. Airborne'
  BY SameAir DEF local, ring
<1>5. Believed'
  BY SameBelief DEF shared, local, ring
<1>6. Gathering'
  BY SameGathering DEF Phases, local, ring
<1> QED
  BY <1>1, <1>2, <1>3, <1>4, <1>5, <1>6 DEF EngineInv

\* drain returns.
LEMMA DrainReturnHolds == EngineInv /\ DrainReturn => EngineInv'
<1> SUFFICES ASSUME TypeOK, Phases, Places, Airborne, Believed, Gathering, DrainReturn PROVE EngineInv'
  BY DEF EngineInv
<1> USE DEF DrainReturn
<1>1. TypeOK'
  BY DEF TypeOK, shared, local, ring
<1>2. Phases'
  BY DEF Phases, Finishing, Ending, NoJobs, AllSettled, NXfers, shared, local, ring
<1>3. Places'
  BY SamePlaces DEF shared, local
<1>4. Airborne'
  BY SameAir DEF local, ring
<1>5. Believed'
  BY SameBelief DEF shared, local, ring
<1>6. Gathering'
  BY SameGathering DEF Phases, local, ring
<1> QED
  BY <1>1, <1>2, <1>3, <1>4, <1>5, <1>6 DEF EngineInv

\* The destructor raises stop_.
LEMMA DestroyHolds == EngineInv /\ Destroy => EngineInv'
<1> SUFFICES ASSUME TypeOK, Phases, Places, Airborne, Believed, Gathering, Destroy PROVE EngineInv'
  BY DEF EngineInv
<1> USE DEF Destroy
<1>1. TypeOK'
  BY DEF TypeOK, shared, local, ring
<1>2. Phases'
  BY DEF Phases, Finishing, Ending, NoJobs, AllSettled, NXfers, shared, local, ring
<1>3. Places'
  BY SamePlaces DEF shared, local
<1>4. Airborne'
  BY SameAir DEF local, ring
<1>5. Believed'
  BY SameBelief DEF shared, local, ring
<1>6. Gathering'
  BY SameGathering DEF Phases, local, ring
<1> QED
  BY <1>1, <1>2, <1>3, <1>4, <1>5, <1>6 DEF EngineInv

\* The destructor has joined the worker.
LEMMA JoinHolds == EngineInv /\ Join => EngineInv'
<1> SUFFICES ASSUME TypeOK, Phases, Places, Airborne, Believed, Gathering, Join PROVE EngineInv'
  BY DEF EngineInv
<1> USE DEF Join
<1>1. TypeOK'
  BY DEF TypeOK, shared, local, ring
<1>2. Phases'
  BY DEF Phases, Finishing, Ending, NoJobs, AllSettled, NXfers, shared, local, ring
<1>3. Places'
  BY SamePlaces DEF shared, local
<1>4. Airborne'
  BY SameAir DEF local, ring
<1>5. Believed'
  BY SameBelief DEF shared, local, ring
<1>6. Gathering'
  BY SameGathering DEF Phases, local, ring
<1> QED
  BY <1>1, <1>2, <1>3, <1>4, <1>5, <1>6 DEF EngineInv

\* in_q_ is empty.
LEMMA TakenAllHolds == EngineInv /\ TakenAll => EngineInv'
<1> SUFFICES ASSUME TypeOK, Phases, Places, Airborne, Believed, Gathering, TakenAll PROVE EngineInv'
  BY DEF EngineInv
<1> USE DEF TakenAll
<1>1. TypeOK'
  BY DEF TypeOK, shared, local, ring
<1>2. Phases'
  BY DEF Phases, Finishing, Ending, NoJobs, AllSettled, NXfers, shared, local, ring
<1>3. Places'
  BY SamePlaces DEF shared, local
<1>4. Airborne'
  BY SameAir DEF local, ring
<1>5. Believed'
  BY SameBelief DEF shared, local, ring
<1>6. Gathering'
  BY SameGathering DEF Phases, local, ring
<1> QED
  BY <1>1, <1>2, <1>3, <1>4, <1>5, <1>6 DEF EngineInv

\* Nothing is issued in this round.
LEMMA NothingIssuedHolds == EngineInv /\ IssueNothing => EngineInv'
<1> SUFFICES ASSUME TypeOK, Phases, Places, Airborne, Believed, Gathering, IssueNothing PROVE EngineInv'
  BY DEF EngineInv
<1> USE DEF IssueNothing
<1>1. TypeOK'
  <2>1. GatherWindow \in BOOLEAN
    BY DEF GatherWindow
  <2> QED
    BY <2>1 DEF TypeOK, shared, local, ring
<1>2. Phases'
  BY DEF Phases, Finishing, Ending, NoJobs, AllSettled, NXfers, shared, local, ring
<1>3. Places'
  BY SamePlaces DEF shared, local
<1>4. Airborne'
  BY SameAir DEF local, ring
<1>5. Believed'
  BY SameBelief DEF shared, local, ring
<1>6. Gathering'
  <2>1. InFlight' = InFlight
    BY DEF InFlight, ring
  <2>2. skip' => QueueDepth - InFlight < Threshold
    BY DEF GatherWindow
  <2> QED
    BY <2>1, <2>2 DEF Gathering, Threshold
<1> QED
  BY <1>1, <1>2, <1>3, <1>4, <1>5, <1>6 DEF EngineInv

\* Nothing is in the air.
LEMMA NothingReapedHolds == EngineInv /\ ReapNothing => EngineInv'
<1> SUFFICES ASSUME TypeOK, Phases, Places, Airborne, Believed, Gathering, ReapNothing PROVE EngineInv'
  BY DEF EngineInv
<1> USE DEF ReapNothing
<1>1. TypeOK'
  BY DEF TypeOK, shared, local, ring
<1>2. Phases'
  BY DEF Phases, Finishing, Ending, NoJobs, AllSettled, NXfers, shared, local, ring
<1>3. Places'
  BY SamePlaces DEF shared, local
<1>4. Airborne'
  BY SameAir DEF local, ring
<1>5. Believed'
  BY SameBelief DEF shared, local, ring
<1>6. Gathering'
  BY SameGathering DEF Phases, local, ring
<1> QED
  BY <1>1, <1>2, <1>3, <1>4, <1>5, <1>6 DEF EngineInv

\* All that was reaped is handled.
LEMMA HandledAllHolds == EngineInv /\ HandledAll => EngineInv'
<1> SUFFICES ASSUME TypeOK, Phases, Places, Airborne, Believed, Gathering, HandledAll PROVE EngineInv'
  BY DEF EngineInv
<1> USE DEF HandledAll
<1>1. TypeOK'
  BY DEF TypeOK, shared, local, ring
<1>2. Phases'
  BY DEF Phases, Finishing, Ending, NoJobs, AllSettled, NXfers, shared, local, ring
<1>3. Places'
  BY SamePlaces DEF shared, local
<1>4. Airborne'
  BY SameAir DEF local, ring
<1>5. Believed'
  BY SameBelief DEF shared, local, ring
<1>6. Gathering'
  BY SameGathering DEF Phases, local, ring
<1> QED
  BY <1>1, <1>2, <1>3, <1>4, <1>5, <1>6 DEF EngineInv

\* A row is written.
LEMMA LogRowHolds == EngineInv /\ LogRow => EngineInv'
<1> SUFFICES ASSUME TypeOK, Phases, Places, Airborne, Believed, Gathering, LogRow PROVE EngineInv'
  BY DEF EngineInv
<1> USE DEF LogRow
<1>1. TypeOK'
  <2>1. fin \in JobIds
    BY DEF TypeOK, Phases, Finishing
  <2> QED
    BY <2>1 DEF TypeOK, shared, local, ring
<1>2. Phases'
  BY DEF Phases, Finishing, Ending, NoJobs, AllSettled, NXfers, shared, local, ring
<1>3. Places'
  BY SamePlaces DEF shared, local
<1>4. Airborne'
  BY SameAir DEF local, ring
<1>5. Believed'
  BY SameBelief DEF shared, local, ring
<1>6. Gathering'
  BY SameGathering DEF Phases, local, ring
<1> QED
  BY <1>1, <1>2, <1>3, <1>4, <1>5, <1>6 DEF EngineInv

\* The end of a round.
LEMMA RoundEndHolds == EngineInv /\ RoundEnd => EngineInv'
<1> SUFFICES ASSUME TypeOK, Phases, Places, Airborne, Believed, Gathering, RoundEnd PROVE EngineInv'
  BY DEF EngineInv
<1> USE DEF RoundEnd
<1>1. TypeOK'
  BY DEF TypeOK, shared, local, ring
<1>2. Phases'
  BY DEF Phases, Finishing, Ending, NoJobs, AllSettled, NXfers, shared, local, ring
<1>3. Places'
  BY SamePlaces DEF shared, local
<1>4. Airborne'
  BY SameAir DEF local, ring
<1>5. Believed'
  BY SameBelief DEF shared, local, ring
<1>6. Gathering'
  BY SameGathering DEF Phases, local, ring
<1> QED
  BY <1>1, <1>2, <1>3, <1>4, <1>5, <1>6 DEF EngineInv

\* The sleep is over.
LEMMA WakeHolds == EngineInv /\ WakeByTimeout => EngineInv'
<1> SUFFICES ASSUME TypeOK, Phases, Places, Airborne, Believed, Gathering, WakeByTimeout PROVE EngineInv'
  BY DEF EngineInv
<1> USE DEF WakeByTimeout
<1>1. TypeOK'
  BY DEF TypeOK, shared, local, ring
<1>2. Phases'
  BY DEF Phases, Finishing, Ending, NoJobs, AllSettled, NXfers, shared, local, ring
<1>3. Places'
  BY SamePlaces DEF shared, local
<1>4. Airborne'
  BY SameAir DEF local, ring
<1>5. Believed'
  BY SameBelief DEF shared, local, ring
<1>6. Gathering'
  BY SameGathering DEF Phases, local, ring
<1> QED
  BY <1>1, <1>2, <1>3, <1>4, <1>5, <1>6 DEF EngineInv

\* The worker ends.
LEMMA ExitHolds == EngineInv /\ Exit => EngineInv'
<1> SUFFICES ASSUME TypeOK, Phases, Places, Airborne, Believed, Gathering, Exit PROVE EngineInv'
  BY DEF EngineInv
<1> USE DEF Exit
<1>1. TypeOK'
  BY DEF TypeOK, shared, local, ring
<1>2. Phases'
  BY DEF Phases, Finishing, Ending, NoJobs, AllSettled, NXfers, shared, local, ring
<1>3. Places'
  BY SamePlaces DEF shared, local
<1>4. Airborne'
  BY SameAir DEF local, ring
<1>5. Believed'
  BY SameBelief DEF shared, local, ring
<1>6. Gathering'
  BY SameGathering DEF Phases, local, ring
<1> QED
  BY <1>1, <1>2, <1>3, <1>4, <1>5, <1>6 DEF EngineInv

\* Results are polled.
LEMMA PollHolds == EngineInv /\ Poll => EngineInv'
<1> SUFFICES ASSUME TypeOK, Phases, Places, Airborne, Believed, Gathering, Poll PROVE EngineInv'
  BY DEF EngineInv
<1> USE DEF Poll
<1>1. TypeOK'
  <2> DEFINE Result == [job : JobIds, ok : BOOLEAN]
             k == Least(PollMax, Len(outQ))
  <2>1. outQ \in Seq(Result) /\ Len(outQ) \in Nat /\ Len(outQ) <= RingCap
    BY LenProperties DEF TypeOK
  <2>2. k \in 0..Len(outQ)
    BY <2>1, DepthAssumption DEF Least
  <2> HIDE DEF k, Result
  <2>3. SubSeq(outQ, k + 1, Len(outQ)) \in Seq(Result)
        /\ Len(SubSeq(outQ, k + 1, Len(outQ))) = Len(outQ) - k
    BY <2>1, <2>2, FrontDropped
  <2>4. outQ' \in Seq(Result) /\ Len(outQ') <= RingCap
    <3>1. outQ' = SubSeq(outQ, k + 1, Len(outQ))
      BY DEF k
    <3>2. RingCap \in Nat
      BY DepthAssumption
    <3>3. \A x, y \in Nat : \A z \in 0..x : x <= y => x - z <= y
      OBVIOUS
    <3>4. Len(outQ) - k <= RingCap
      BY <2>1, <2>2, <3>2, <3>3
    <3> QED
      BY <2>3, <3>1, <3>4
  <2> QED
    BY <2>4 DEF TypeOK, local, ring, Result
<1>2. Phases'
  BY DEF Phases, Finishing, Ending, NoJobs, AllSettled, NXfers, shared, local, ring
<1>3. Places'
  BY SamePlaces DEF shared, local
<1>4. Airborne'
  BY SameAir DEF local, ring
<1>5. Believed'
  BY SameBelief DEF shared, local, ring
<1>6. Gathering'
  BY SameGathering DEF Phases, local, ring
<1> QED
  BY <1>1, <1>2, <1>3, <1>4, <1>5, <1>6 DEF EngineInv

\* A result is pushed.
LEMMA PushHolds == EngineInv /\ PushResult => EngineInv'
<1> SUFFICES ASSUME TypeOK, Phases, Places, Airborne, Believed, Gathering, PushResult PROVE EngineInv'
  BY DEF EngineInv
<1> USE DEF PushResult
<1>1. TypeOK'
  <2> DEFINE Result == [job : JobIds, ok : BOOLEAN]
             e == [job |-> fin, ok |-> ~table[fin].failed]
  <2>1. fin \in JobIds
    BY DEF TypeOK, Phases, Finishing
  <2>2. e \in Result
    BY <2>1 DEF TypeOK
  <2> HIDE DEF e, Result
  <2>3. outQ \in Seq(Result) /\ Len(outQ) \in Nat /\ Len(outQ) < RingCap /\ RingCap \in Nat
    BY LenProperties, DepthAssumption DEF TypeOK, Result
  <2>4. outQ' = Append(outQ, e)
    BY DEF e
  <2>5. outQ' \in Seq(Result) /\ Len(outQ') <= RingCap
    BY <2>2, <2>3, <2>4, AppendProperties
  <2> QED
    BY <2>5 DEF TypeOK, ring, Result
<1>2. Phases'
  BY DEF Phases, Finishing, Ending, NoJobs, AllSettled, NXfers, shared, local, ring
<1>3. Places'
  BY SamePlaces DEF shared, local
<1>4. Airborne'
  BY SameAir DEF local, ring
<1>5. Believed'
  BY SameBelief DEF shared, local, ring
<1>6. Gathering'
  BY SameGathering DEF Phases, local, ring
<1> QED
  BY <1>1, <1>2, <1>3, <1>4, <1>5, <1>6 DEF EngineInv

\* Adding an element to a finite set and taking one from it.
LEMMA OneMore ==
  ASSUME NEW S, IsFiniteSet(S), NEW x
  PROVE  /\ Cardinality(S) \in Nat
         /\ IsFiniteSet(S \cup {x}) /\ (x \notin S => Cardinality(S \cup {x}) = Cardinality(S) + 1)
         /\ IsFiniteSet(S \ {x})
         /\ (x \in S => Cardinality(S \ {x}) = Cardinality(S) - 1 /\ Cardinality(S) >= 1)
<1>1. Cardinality(S) \in Nat
  BY FS_CardinalityType
<1>2. IsFiniteSet(S \cup {x}) /\ (x \notin S => Cardinality(S \cup {x}) = Cardinality(S) + 1)
  BY FS_AddElement
<1>3. IsFiniteSet(S \ {x}) /\ (x \in S => Cardinality(S \ {x}) = Cardinality(S) - 1)
  BY FS_RemoveElement
<1>4. x \in S => Cardinality(S) >= 1
  <2>1. Cardinality(S \ {x}) \in Nat
    BY <1>3, FS_CardinalityType
  <2> QED
    BY <1>1, <1>3, <2>1
<1> QED
  BY <1>1, <1>2, <1>3, <1>4

\* A transfer in the air is one of a known job, live in the table.
LEMMA AirKnown ==
  ASSUME TypeOK, Places, Believed, NEW j \in JobIds, NEW e \in InTheAir(j)
  PROVE  /\ table[j].live /\ table[j].inflight >= 1 /\ desc[j] # None
         /\ e = <<j, e[2]>> /\ e[2] \in 1..NXfers(j) /\ NXfers(j) \in Nat
<1>1. IsFiniteSet(InTheAir(j)) /\ e = <<j, e[2]>> /\ e[2] \in Nat /\ e[2] >= 1
  BY AirOf
<1>2. table[j].inflight >= 1
  BY <1>1, OneMore DEF Believed, BelievedOf
<1>3. table[j].live
  BY <1>2 DEF Places, PlaceOf
<1>4. desc[j] # None
  BY <1>3 DEF Places, PlaceOf, Unfinished
<1>5. e[2] <= table[j].next /\ table[j].next <= NXfers(j)
  BY <1>3 DEF Believed, BelievedOf, Places, PlaceOf
<1>6. table[j].next \in Nat /\ NXfers(j) \in Nat
  BY <1>4, Known, Longest DEF TypeOK, JobState
<1> QED
  BY <1>1, <1>2, <1>3, <1>4, <1>5, <1>6

\* What is in the air belongs to its job.
LEMMA InTheAirIs ==
  ASSUME TypeOK
  PROVE  /\ \A e \in flying : e[1] \in JobIds /\ e = <<e[1], e[2]>> /\ e \in InTheAir(e[1])
         /\ \A c \in cq \cup comps : c.job \in JobIds /\ c.n \in 1..MaxXfers
              /\ <<c.job, c.n>> \in InTheAir(c.job)
BY DEF TypeOK, Entries, Completion, InTheAir

-----------------------------------------------------------------------------
(* The remaining actions *)

\* A job is submitted.
LEMMA SubmitHolds ==
  ASSUME EngineInv, NEW j \in JobIds, NEW d \in Workload, Submit(j, d)
  PROVE  EngineInv'
<1> USE DEF Submit
<1>0. TypeOK /\ Phases /\ Places /\ Airborne /\ Believed /\ Gathering
  BY DEF EngineInv
<1>1. j \notin Unfinished /\ ~InQ(j) /\ ~table[j].live /\ fin # j
  BY <1>0 DEF Places, PlaceOf, Unfinished
<1>2. /\ inQ' \in Seq(JobIds) /\ ToSet(inQ') = ToSet(inQ) \cup {j} /\ IsInjective(inQ')
      /\ Len(inQ') <= RingCap
  <2>1. inQ \in Seq(JobIds) /\ IsInjective(inQ) /\ j \notin ToSet(inQ)
    BY <1>0, <1>1, InQIsIn DEF TypeOK, Places
  <2>2. Len(inQ') = Len(inQ) + 1 /\ Len(inQ) \in Nat /\ RingCap \in Nat
    BY <2>1, AppendProperties, LenProperties, DepthAssumption
  <2> QED
    BY <2>1, <2>2, BackPushed
<1>3. \A k \in JobIds : InQ(k)' <=> InQ(k) \/ k = j
  BY <1>2, InQIsIn
<1>4. Unfinished' = Unfinished \cup {j}
  BY <1>3 DEF Unfinished, local
<1>5. pending' = Cardinality(Unfinished') /\ pending' \in 0..Cardinality(JobIds)
  <2>1. Unfinished \in SUBSET JobIds /\ Unfinished' \in SUBSET JobIds
    BY <1>4 DEF Unfinished
  <2>2. IsFiniteSet(Unfinished) /\ Cardinality(Unfinished') \in Nat
        /\ Cardinality(Unfinished') <= Cardinality(JobIds)
    BY <2>1, Finitely
  <2>3. Cardinality(Unfinished') = Cardinality(Unfinished) + 1
    BY <1>1, <1>4, <2>2, OneMore
  <2>4. pending' = Cardinality(Unfinished')
    BY <1>0, <2>3 DEF Places
  <2>5. Cardinality(JobIds) \in Nat
    BY Finitely
  <2> QED
    BY <2>2, <2>4, <2>5
<1>6. \A k \in JobIds \ {j} : desc'[k] = desc[k]
  BY <1>0 DEF TypeOK
<1>7. TypeOK'
  BY <1>0, <1>2, <1>5 DEF TypeOK, local, ring
<1>8. Phases'
  <2>1. fin # None => NXfers(fin)' = NXfers(fin)
    BY <1>0, <1>1, <1>6 DEF TypeOK, NXfers, local
  <2> QED
    BY <1>0, <2>1 DEF Phases, Finishing, Ending, NoJobs, AllSettled, local, ring
<1>9. Places'
  <2>1. desc'[j] # None
    BY <1>0, WorkloadAssumption DEF TypeOK
  <2>2. ASSUME NEW k \in JobIds PROVE PlaceOf(k)'
    BY <1>0, <1>1, <1>3, <1>4, <1>6, <2>1 DEF Places, PlaceOf, NXfers, local
  <2> QED
    BY <1>2, <1>5, <2>2 DEF Places
<1>10. Airborne'
  BY <1>0, SameAir DEF local, ring
<1>11. Believed'
  <2>1. ASSUME NEW k \in JobIds PROVE BelievedOf(k)'
    BY <1>0, <1>1, <1>6 DEF Believed, BelievedOf, InTheAir, NXfers, local, ring
  <2> QED
    BY <1>0, <2>1 DEF Believed, local
<1>12. Gathering'
  BY <1>0, SameGathering DEF local, ring
<1> QED
  BY <1>7, <1>8, <1>9, <1>10, <1>11, <1>12 DEF EngineInv

\* The head of in_q_ leaves it.
LEMMA HeadTaken ==
  ASSUME TypeOK, Places, inQ # << >>, inQ' = Tail(inQ)
  PROVE  /\ Head(inQ) \in JobIds /\ InQ(Head(inQ)) /\ Head(inQ) \in Unfinished
         /\ inQ' \in Seq(JobIds) /\ IsInjective(inQ') /\ Len(inQ') <= RingCap
         /\ \A k \in JobIds : InQ(k)' <=> InQ(k) /\ k # Head(inQ)
<1>1. inQ \in Seq(JobIds) /\ IsInjective(inQ) /\ Len(inQ) \in Nat /\ Len(inQ) <= RingCap
      /\ RingCap \in Nat
  BY LenProperties, DepthAssumption DEF TypeOK, Places
<1>2. /\ Tail(inQ) \in Seq(JobIds) /\ Len(Tail(inQ)) = Len(inQ) - 1
      /\ Head(inQ) \in ToSet(inQ) /\ Head(inQ) \in JobIds
      /\ IsInjective(Tail(inQ)) /\ ToSet(Tail(inQ)) = ToSet(inQ) \ {Head(inQ)}
  BY <1>1, FrontPopped
<1>3. Len(inQ') <= RingCap
  BY <1>1, <1>2
<1>4. \A k \in JobIds : InQ(k)' <=> InQ(k) /\ k # Head(inQ)
  BY <1>2, InQIsIn
<1>5. InQ(Head(inQ))
  BY <1>2, InQIsIn
<1> QED
  BY <1>2, <1>3, <1>4, <1>5 DEF Unfinished

\* A job is taken from in_q_.
LEMMA TakeJobHolds ==
  ASSUME EngineInv, TakeJob
  PROVE  EngineInv'
<1> USE DEF TakeJob
<1> DEFINE j == Head(inQ)
<1>0. TypeOK /\ Phases /\ Places /\ Airborne /\ Believed /\ Gathering
  BY DEF EngineInv
<1>1. /\ j \in JobIds /\ InQ(j) /\ j \in Unfinished
      /\ inQ' \in Seq(JobIds) /\ IsInjective(inQ') /\ Len(inQ') <= RingCap
      /\ \A k \in JobIds : InQ(k)' <=> InQ(k) /\ k # j
  BY <1>0, HeadTaken
<1>2. /\ desc[j] # None /\ ~table[j].live /\ fin = None /\ pcW = "take"
      /\ table[j].inflight = 0 /\ table[j].next = 0
  BY <1>0, <1>1 DEF Places, PlaceOf, Phases, Finishing
<1> HIDE DEF j
<1>3. /\ NXfers(j) \in Nat /\ (NXfers(j) = 0 <=> desc[j].xfers = << >>)
  BY <1>0, <1>1, <1>2, Known
<1>4. /\ table' \in [JobIds -> JobState]
      /\ table'[j].live /\ table'[j].next = 0 /\ table'[j].inflight = 0
      /\ \A k \in JobIds \ {j} : table'[k] = table[k]
  <2> DEFINE s == [NoState EXCEPT !.live = TRUE]
  <2>1. NoState \in JobState /\ NoState.next = 0 /\ NoState.inflight = 0
    BY Longest DEF JobState, NoState
  <2>2. s \in JobState /\ s.live /\ s.next = 0 /\ s.inflight = 0
    BY <2>1 DEF JobState
  <2>3. table' = [table EXCEPT ![j] = s]
    BY DEF Emplaced, j
  <2> HIDE DEF s
  <2> QED
    BY <1>0, <1>1, <2>2, <2>3 DEF TypeOK
<1>5. /\ issueOrder' \in Seq(JobIds) /\ IsInjective(issueOrder')
      /\ ToSet(issueOrder') = ToSet(issueOrder) \cup (IF NXfers(j) = 0 THEN {} ELSE {j})
  <2>1. issueOrder \in Seq(JobIds) /\ IsInjective(issueOrder) /\ j \notin ToSet(issueOrder)
    BY <1>0, <1>1, <1>2 DEF TypeOK, Believed, BelievedOf
  <2>2. CASE NXfers(j) = 0
    <3>1. issueOrder' = issueOrder
      BY <1>3, <2>2 DEF j
    <3> QED
      BY <2>1, <2>2, <3>1
  <2>3. CASE NXfers(j) # 0
    <3>1. issueOrder' = Append(issueOrder, j)
      BY <1>3, <2>3 DEF j
    <3> QED
      BY <1>1, <2>1, <2>3, <3>1, BackPushed
  <2> QED
    BY <2>2, <2>3
<1>6. TypeOK'
  BY <1>0, <1>1, <1>4, <1>5 DEF TypeOK, ring, j
<1>7. Phases'
  <2>1. comps = {} /\ ~Ending
    BY <1>0, <1>2 DEF Phases, Finishing, Ending
  <2>2. CASE desc[j].xfers = << >>
    <3>1. fin' = j /\ pcW' = "row" /\ back' = "take"
      BY <1>3, <2>2 DEF j
    <3>2. table'[j].live /\ table'[j].inflight = 0 /\ table'[j].next = NXfers(j)
          /\ NXfers(j) = Len(desc'[j].xfers)
      BY <1>3, <1>4, <2>2 DEF NXfers
    <3>3. j # None
      BY <1>1, WorkloadAssumption
    <3> QED
      BY <1>0, <2>1, <3>1, <3>2, <3>3 DEF Phases, Finishing, Ending, AllSettled, NXfers, ring
  <2>3. CASE desc[j].xfers # << >>
    <3>1. UNCHANGED <<fin, pcW, back>>
      BY <2>3 DEF j
    <3> QED
      BY <1>0, <1>2, <2>1, <3>1 DEF Phases, Finishing, Ending, ring
  <2> QED
    BY <2>2, <2>3
<1>8. fin' \in {None, j}
  BY <1>2 DEF j
<1>9. Places'
  <2>1. Unfinished' = Unfinished
    <3>1. ASSUME NEW k \in JobIds PROVE k \in Unfinished' <=> k \in Unfinished
      <4>1. CASE k = j
        BY <1>1, <1>4, <4>1 DEF Unfinished
      <4>2. CASE k # j
        BY <1>1, <1>2, <1>4, <1>8, <4>2, WorkloadAssumption DEF Unfinished
      <4> QED
        BY <4>1, <4>2
    <3> QED
      BY <3>1 DEF Unfinished
  <2>2. ASSUME NEW k \in JobIds PROVE PlaceOf(k)'
    <3>1. CASE k = j
      BY <1>1, <1>2, <1>3, <1>4, <3>1 DEF PlaceOf, NXfers
    <3>2. CASE k # j
      <4>1. PlaceOf(k) /\ table'[k] = table[k] /\ (InQ(k)' <=> InQ(k)) /\ fin' # k
        BY <1>0, <1>1, <1>4, <1>8, <3>2, WorkloadAssumption DEF Places
      <4> QED
        BY <2>1, <4>1 DEF PlaceOf, NXfers
    <3> QED
      BY <3>1, <3>2
  <2> QED
    BY <1>0, <1>1, <2>1, <2>2 DEF Places
<1>10. Airborne'
  BY <1>0, SameAir DEF ring
<1>11. Believed'
  <2>1. ASSUME NEW k \in JobIds PROVE BelievedOf(k)'
    <3>1. InTheAir(k)' = InTheAir(k) /\ NXfers(k)' = NXfers(k) /\ BelievedOf(k)
      BY <1>0 DEF Believed, InTheAir, NXfers, ring
    <3>2. CASE k = j
      <4>1. table'[k].inflight = Cardinality(InTheAir(k)') /\ \A e \in InTheAir(k)' : e[2] <= table'[k].next
        BY <1>2, <1>4, <3>1, <3>2 DEF BelievedOf
      <4>2. (table'[k].live /\ table'[k].next < NXfers(k)') <=> k \in ToSet(issueOrder')
        <5>1. k \notin ToSet(issueOrder)
          BY <1>2, <3>1, <3>2 DEF BelievedOf
        <5> QED
          BY <1>3, <1>4, <1>5, <3>1, <3>2, <5>1
      <4> QED
        BY <4>1, <4>2 DEF BelievedOf
    <3>3. CASE k # j
      <4>1. table'[k] = table[k] /\ (k \in ToSet(issueOrder') <=> k \in ToSet(issueOrder))
        BY <1>4, <1>5, <3>3
      <4> QED
        BY <3>1, <4>1 DEF BelievedOf
    <3> QED
      BY <3>2, <3>3
  <2> QED
    BY <1>5, <2>1 DEF Believed
<1>12. Gathering'
  <2>1. pcW' # "reap"
    BY <1>2
  <2> QED
    BY <1>0, <2>1, SameGathering DEF ring
<1> QED
  BY <1>6, <1>7, <1>9, <1>10, <1>11, <1>12 DEF EngineInv

\* A job left in in_q_ is failed.
LEMMA FailLeftoverHolds ==
  ASSUME EngineInv, FailLeftover
  PROVE  EngineInv'
<1> USE DEF FailLeftover
<1> DEFINE j == Head(inQ)
<1>0. TypeOK /\ Phases /\ Places /\ Airborne /\ Believed /\ Gathering
  BY DEF EngineInv
<1>1. /\ j \in JobIds /\ InQ(j) /\ j \in Unfinished
      /\ inQ' \in Seq(JobIds) /\ IsInjective(inQ') /\ Len(inQ') <= RingCap
      /\ \A k \in JobIds : InQ(k)' <=> InQ(k) /\ k # j
  BY <1>0, HeadTaken
<1>2. desc[j] # None /\ ~table[j].live /\ fin = None /\ pcW = "leftover" /\ j # None
  BY <1>0, <1>1, WorkloadAssumption DEF Places, PlaceOf, Phases, Finishing
<1>3. fin' = j /\ pcW' = "push" /\ back' = "leftover" /\ rows' = rows \cup {j}
      /\ table' = [table EXCEPT ![j].failed = TRUE]
  OBVIOUS
<1> HIDE DEF j
<1>4. /\ table' \in [JobIds -> JobState]
      /\ \A k \in JobIds : /\ table'[k].live = table[k].live /\ table'[k].next = table[k].next
                           /\ table'[k].inflight = table[k].inflight
  <2> DEFINE s == [table[j] EXCEPT !.failed = TRUE]
  <2>1. table \in [JobIds -> JobState] /\ table[j] \in JobState
    BY <1>0, <1>1 DEF TypeOK
  <2>2. s \in JobState /\ s.live = table[j].live /\ s.next = table[j].next /\ s.inflight = table[j].inflight
    BY <2>1 DEF JobState
  <2>3. table' = [table EXCEPT ![j] = s]
    BY <1>3
  <2> HIDE DEF s
  <2> QED
    BY <1>1, <2>1, <2>2, <2>3
<1>5. TypeOK'
  BY <1>0, <1>1, <1>3, <1>4 DEF TypeOK, ring
<1>6. Phases'
  <2>1. comps = {} /\ stop /\ NoJobs
    BY <1>0, <1>2 DEF Phases, Finishing, Ending
  <2>2. NoJobs'
    BY <1>4, <2>1 DEF NoJobs
  <2> QED
    BY <1>0, <1>1, <1>2, <1>3, <1>4, <2>1, <2>2 DEF Phases, Finishing, Ending, ring
<1>7. Places'
  <2>1. Unfinished' = Unfinished
    <3>1. ASSUME NEW k \in JobIds PROVE k \in Unfinished' <=> k \in Unfinished
      BY <1>1, <1>2, <1>3, <1>4, WorkloadAssumption DEF Unfinished
    <3> QED
      BY <3>1 DEF Unfinished
  <2>2. ASSUME NEW k \in JobIds PROVE PlaceOf(k)'
    <3>1. PlaceOf(k)
      BY <1>0 DEF Places
    <3> QED
      BY <1>1, <1>2, <1>3, <1>4, <2>1, <3>1 DEF PlaceOf, NXfers
  <2> QED
    BY <1>0, <1>1, <2>1, <2>2 DEF Places
<1>8. Airborne'
  BY <1>0, SameAir DEF ring
<1>9. Believed'
  <2>1. ASSUME NEW k \in JobIds PROVE BelievedOf(k)'
    <3>1. InTheAir(k)' = InTheAir(k) /\ NXfers(k)' = NXfers(k) /\ BelievedOf(k)
      BY <1>0 DEF Believed, InTheAir, NXfers, ring
    <3> QED
      BY <1>4, <3>1 DEF BelievedOf
  <2> QED
    BY <1>0, <2>1 DEF Believed
<1>10. Gathering'
  <2>1. pcW' # "reap"
    BY <1>3
  <2> QED
    BY <1>0, <2>1, SameGathering DEF ring
<1> QED
  BY <1>5, <1>6, <1>7, <1>8, <1>9, <1>10 DEF EngineInv

\* A finished job leaves the table.
LEMMA RetireHolds ==
  ASSUME EngineInv, Retire
  PROVE  EngineInv'
<1> USE DEF Retire
<1>0. TypeOK /\ Phases /\ Places /\ Airborne /\ Believed /\ Gathering
  BY DEF EngineInv
<1>1. fin \in JobIds /\ fin # None /\ pcW = "retire"
  BY <1>0 DEF TypeOK, Phases, Finishing
<1>2. /\ fin \in Unfinished /\ ~InQ(fin) /\ table[fin].inflight = 0
      /\ ~(table[fin].live /\ table[fin].next < NXfers(fin))
  <2>1. PlaceOf(fin) /\ fin \in Unfinished
    BY <1>0, <1>1 DEF Places, Unfinished
  <2>2. CASE table[fin].live
    <3>1. table[fin].inflight = 0 /\ table[fin].next = NXfers(fin)
      BY <1>0, <1>1, <2>2 DEF Phases, AllSettled
    <3>2. table[fin].next \in Nat
      BY <1>0, <1>1, Longest DEF TypeOK, JobState
    <3> QED
      BY <2>1, <3>1, <3>2 DEF PlaceOf
  <2>3. CASE ~table[fin].live
    BY <2>1, <2>3 DEF PlaceOf
  <2> QED
    BY <2>2, <2>3
<1>3. /\ table' \in [JobIds -> JobState] /\ table'[fin] = NoState
      /\ \A k \in JobIds \ {fin} : table'[k] = table[k]
  <2>1. NoState \in JobState
    BY Longest DEF NoState, JobState
  <2> QED
    BY <1>0, <1>1, <2>1 DEF TypeOK
<1>4. Unfinished' = Unfinished \ {fin}
  <2>1. ASSUME NEW k \in JobIds PROVE k \in Unfinished' <=> k \in Unfinished /\ k # fin
    <3>1. InQ(k)' <=> InQ(k)
      BY DEF InQ
    <3>2. fin' = None /\ None \notin JobIds
      BY WorkloadAssumption
    <3> QED
      BY <1>1, <1>2, <1>3, <3>1, <3>2 DEF Unfinished, NoState
  <2> QED
    BY <2>1 DEF Unfinished
<1>5. pending' = Cardinality(Unfinished') /\ pending' \in 0..Cardinality(JobIds)
  <2>1. Unfinished \in SUBSET JobIds /\ Unfinished' \in SUBSET JobIds
    BY <1>4 DEF Unfinished
  <2>2. IsFiniteSet(Unfinished) /\ Cardinality(Unfinished') \in Nat
        /\ Cardinality(Unfinished') <= Cardinality(JobIds) /\ Cardinality(JobIds) \in Nat
    BY <2>1, Finitely
  <2>3. Cardinality(Unfinished') = Cardinality(Unfinished) - 1
    BY <1>2, <1>4, <2>2, OneMore
  <2>4. pending' = Cardinality(Unfinished')
    BY <1>0, <2>3 DEF Places
  <2> QED
    BY <2>2, <2>4
<1>6. TypeOK'
  BY <1>0, <1>3, <1>5 DEF TypeOK, ring
<1>7. Phases'
  <2>1. back \in {"take", "handle", "leftover"} /\ fin' = None /\ pcW' = back /\ back' = back
    BY <1>0 DEF TypeOK
  <2>2. NoJobs => NoJobs'
    BY <1>3 DEF NoJobs, NoState
  <2>3. comps # {} => back = "handle"
    BY <1>0, <1>1 DEF Phases
  <2>4. Ending' => stop /\ NoJobs
    BY <1>0, <1>1, <2>1 DEF Phases, Ending, Finishing
  <2> QED
    BY <1>0, <2>1, <2>2, <2>3, <2>4 DEF Phases, Finishing, ring
<1>8. Places'
  <2>1. ASSUME NEW k \in JobIds PROVE PlaceOf(k)'
    <3>1. PlaceOf(k) /\ (InQ(k)' <=> InQ(k)) /\ NXfers(k)' = NXfers(k) /\ fin' = None /\ None \notin JobIds
      BY <1>0, WorkloadAssumption DEF Places, InQ, NXfers
    <3>2. CASE k = fin
      BY <1>2, <1>3, <1>4, <3>1, <3>2 DEF PlaceOf, NoState
    <3>3. CASE k # fin
      <4>1. table'[k] = table[k] /\ (k \in Unfinished' => k \in Unfinished)
        BY <1>3, <1>4, <3>3
      <4> QED
        BY <3>1, <4>1 DEF PlaceOf
    <3> QED
      BY <3>2, <3>3
  <2> QED
    BY <1>0, <1>5, <2>1 DEF Places
<1>9. Airborne'
  BY <1>0, SameAir DEF ring
<1>10. Believed'
  <2>1. ASSUME NEW k \in JobIds PROVE BelievedOf(k)'
    <3>1. InTheAir(k)' = InTheAir(k) /\ NXfers(k)' = NXfers(k) /\ BelievedOf(k)
      BY <1>0 DEF Believed, InTheAir, NXfers, ring
    <3>2. CASE k = fin
      <4>1. InTheAir(k) = {}
        BY <1>2, <3>1, <3>2, AirOf, <1>0, FS_EmptySet DEF BelievedOf
      <4> QED
        BY <1>2, <1>3, <3>1, <3>2, <4>1, FS_EmptySet DEF BelievedOf, NoState
    <3>3. CASE k # fin
      <4>1. table'[k] = table[k]
        BY <1>3, <3>3
      <4> QED
        BY <3>1, <4>1 DEF BelievedOf
    <3> QED
      BY <3>2, <3>3
  <2> QED
    BY <1>0, <2>1 DEF Believed
<1>11. Gathering'
  <2>1. pcW' # "reap"
    BY <1>0 DEF TypeOK
  <2> QED
    BY <1>0, <2>1, SameGathering DEF ring
<1> QED
  BY <1>6, <1>7, <1>8, <1>9, <1>10, <1>11 DEF EngineInv

\* Completions are reaped.
LEMMA ReapHolds ==
  ASSUME EngineInv, Reap
  PROVE  EngineInv'
<1>0. TypeOK /\ Phases /\ Places /\ Airborne /\ Believed /\ Gathering
  BY DEF EngineInv
<1>1. PICK B \in SUBSET cq : comps' = B /\ cq' = cq \ B /\ progress' = (progress \/ B # {})
  BY DEF Reap
<1>2. comps = {} /\ pcW = "reap" /\ pcW' = "handle"
  BY <1>0 DEF Reap, Phases, Finishing
<1>3. /\ UNCHANGED <<shared, table, issueOrder, skip, fin, back, pcC, sq, flying, issuedTwice,
                     rows, disk, misread>>
      /\ comps' \subseteq cq /\ cq' \subseteq cq /\ cq' \cap comps' = {}
      /\ cq' \cup comps' = cq \cup comps
  BY <1>1, <1>2 DEF Reap
<1>4. TypeOK'
  <2>1. progress' \in BOOLEAN
    BY <1>0, <1>1 DEF TypeOK
  <2> QED
    BY <1>0, <1>2, <1>3, <2>1 DEF TypeOK, shared
<1>5. Phases'
  BY <1>0, <1>2, <1>3 DEF Phases, Finishing, Ending, AllSettled, NXfers, shared
<1>6. Places'
  BY <1>0, <1>3, SamePlaces DEF shared
<1>7. Airborne'
  <2>1. Cardinality(cq') <= Cardinality(cq) /\ Cardinality(cq') \in Nat
    BY <1>0, <1>3, InFlightSize, FS_Subset, FS_CardinalityType
  <2>2. InFlight' <= QueueDepth
    <3>1. InFlight' = Cardinality(flying) + Cardinality(cq')
      BY <1>3 DEF InFlight
    <3>2. Cardinality(flying) + Cardinality(cq) <= QueueDepth
      BY <1>0 DEF Airborne, InFlight
    <3>3. /\ Cardinality(flying) \in Nat /\ Cardinality(cq) \in Nat /\ QueueDepth \in Nat
      BY <1>0, InFlightSize
    <3> QED
      BY <2>1, <3>1, <3>2, <3>3
  <2> QED
    BY <1>0, <1>3, <2>2 DEF Airborne
<1>8. Believed'
  <2>1. ASSUME NEW j \in JobIds PROVE BelievedOf(j)'
    <3>1. InTheAir(j)' = InTheAir(j)
      BY <1>3 DEF InTheAir
    <3> QED
      BY <1>0, <1>3, <3>1 DEF Believed, BelievedOf, NXfers, shared
  <2> QED
    BY <1>0, <1>3, <2>1 DEF Believed
<1>9. Gathering'
  BY <1>2 DEF Gathering
<1> QED
  BY <1>4, <1>5, <1>6, <1>7, <1>8, <1>9 DEF EngineInv

\* A completion is handled.
LEMMA HandleHolds ==
  ASSUME EngineInv, NEW c \in comps, HandleCompletion(c)
  PROVE  EngineInv'
<1> USE DEF HandleCompletion
<1> DEFINE j == c.job
           e == <<c.job, c.n>>
<1>0. TypeOK /\ Phases /\ Places /\ Airborne /\ Believed /\ Gathering
  BY DEF EngineInv
<1>1. j \in JobIds /\ e \in InTheAir(j) /\ j # None
  BY <1>0, InTheAirIs, WorkloadAssumption
<1>2. table[j].live /\ table[j].inflight >= 1 /\ desc[j] # None
  BY <1>0, <1>1, AirKnown
<1>3. fin = None /\ pcW = "handle" /\ ~InQ(j) /\ comps' = comps \ {c}
  BY <1>0, <1>1, <1>2 DEF Phases, Finishing, Places, PlaceOf
<1>4. /\ table' \in [JobIds -> JobState]
      /\ table'[j].live /\ table'[j].next = table[j].next
      /\ table'[j].inflight = table[j].inflight - 1
      /\ table'[j] = Counted(c)
      /\ \A k \in JobIds \ {j} : table'[k] = table[k]
  <2>1. table[j] \in JobState /\ table[j].inflight \in 0..MaxXfers /\ MaxXfers \in Nat
        /\ c.ok \in BOOLEAN /\ table[j].failed \in BOOLEAN
    BY <1>0, <1>1, Longest DEF TypeOK, JobState, Completion
  <2> DEFINE f == table[j].failed \/ ~c.ok
             n == table[j].inflight - 1
             s == [table[j] EXCEPT !.inflight = n, !.failed = f]
  <2>2. f \in BOOLEAN /\ n \in 0..MaxXfers
    BY <1>2, <2>1
  <2> HIDE DEF f, n
  <2>3. s \in JobState /\ s.live /\ s.next = table[j].next /\ s.inflight = n
    BY <1>2, <2>1, <2>2 DEF JobState
  <2>4. Counted(c) = s
    BY DEF Counted, f, n
  <2>5. table' = [table EXCEPT ![j] = s]
    BY <2>4
  <2> HIDE DEF s
  <2> QED
    BY <1>0, <1>1, <2>3, <2>4, <2>5 DEF TypeOK, n
<1> HIDE DEF j, e
<1>5. UNCHANGED <<shared, issueOrder, progress, skip, pcC, ring, rows, disk, misread>>
  OBVIOUS
<1>6. \/ fin' = j /\ pcW' = "row" /\ back' = "handle" /\ AllSettled(j, table'[j])
      \/ UNCHANGED <<fin, pcW, back>>
  BY <1>4 DEF j
<1>7. TypeOK'
  BY <1>0, <1>1, <1>3, <1>4, <1>5, <1>6 DEF TypeOK, shared, ring
<1>8. Phases'
  <2>1. ~Ending /\ ~Ending'
    BY <1>3, <1>6 DEF Ending, Finishing
  <2>2. CASE fin' = j /\ pcW' = "row" /\ back' = "handle" /\ AllSettled(j, table'[j])
    BY <1>0, <1>1, <1>3, <1>4, <1>5, <2>1, <2>2 DEF Phases, Finishing, AllSettled, NXfers, shared, ring
  <2>3. CASE UNCHANGED <<fin, pcW, back>>
    BY <1>0, <1>3, <1>5, <2>1, <2>3 DEF Phases, Finishing, shared, ring
  <2> QED
    BY <1>6, <2>2, <2>3
<1>9. Places'
  <2>0. \A k \in JobIds : InQ(k)' <=> InQ(k)
    BY <1>5 DEF InQ, shared
  <2>1. Unfinished' = Unfinished
    <3>1. ASSUME NEW k \in JobIds PROVE k \in Unfinished' <=> k \in Unfinished
      <4>1. CASE k = j
        BY <1>2, <1>4, <4>1 DEF Unfinished
      <4>2. CASE k # j
        BY <1>3, <1>4, <1>6, <2>0, <4>2, WorkloadAssumption DEF Unfinished
      <4> QED
        BY <4>1, <4>2
    <3> QED
      BY <3>1 DEF Unfinished
  <2>2. ASSUME NEW k \in JobIds PROVE PlaceOf(k)'
    <3>1. PlaceOf(k) /\ NXfers(k)' = NXfers(k) /\ desc' = desc
      BY <1>0, <1>5 DEF Places, NXfers, shared
    <3>2. CASE k = j
      BY <1>2, <1>3, <1>4, <2>0, <2>1, <3>1, <3>2 DEF PlaceOf
    <3>3. CASE k # j
      <4>1. table'[k] = table[k] /\ fin' # k
        BY <1>3, <1>4, <1>6, <3>3, WorkloadAssumption
      <4> QED
        BY <2>0, <2>1, <3>1, <4>1 DEF PlaceOf
    <3> QED
      BY <3>2, <3>3
  <2> QED
    BY <1>0, <1>5, <2>1, <2>2 DEF Places, shared
<1>10. Airborne'
  BY <1>0, <1>3, <1>5 DEF Airborne, InFlight, ring
<1>11. Believed'
  <2>1. InTheAir(j)' = InTheAir(j) \ {e}
    <3>1. \A d \in cq \cup comps : <<d.job, d.n>> = e => d = c
      <4>1. \A d \in cq \cup comps : d.job = c.job /\ d.n = c.n => d = c
        BY <1>0 DEF Airborne
      <4> QED
        BY <4>1 DEF e
    <3>2. e \notin flying /\ c \notin cq
      BY <1>0 DEF Airborne, e
    <3>3. cq' = cq /\ flying' = flying /\ c \in comps
      BY <1>5 DEF ring
    <3>4. \A d \in cq' \cup comps' : <<d.job, d.n>> # e
      BY <1>3, <3>1, <3>2, <3>3
    <3>5. \A d \in cq \cup comps : d \in cq' \cup comps' \/ <<d.job, d.n>> = e
      BY <1>3, <3>3 DEF e
    <3>6. \A d \in cq' \cup comps' : d \in cq \cup comps
      BY <1>3, <3>3
    <3> QED
      BY <3>2, <3>3, <3>4, <3>5, <3>6 DEF InTheAir
  <2>2. ASSUME NEW k \in JobIds, k # j PROVE InTheAir(k)' = InTheAir(k)
    <3>1. cq' = cq /\ flying' = flying
      BY <1>5 DEF ring
    <3>2. {d \in cq' \cup comps' : d.job = k} = {d \in cq \cup comps : d.job = k}
      BY <1>3, <2>2, <3>1 DEF j
    <3> QED
      BY <3>1, <3>2 DEF InTheAir
  <2>3. ASSUME NEW k \in JobIds PROVE BelievedOf(k)'
    <3>1. BelievedOf(k) /\ NXfers(k)' = NXfers(k) /\ issueOrder' = issueOrder
      BY <1>0, <1>5 DEF Believed, NXfers, shared
    <3>2. CASE k = j
      <4>1. Cardinality(InTheAir(j)') = Cardinality(InTheAir(j)) - 1
        BY <1>0, <1>1, <2>1, AirOf, OneMore
      <4> QED
        BY <1>2, <1>4, <2>1, <3>1, <3>2, <4>1 DEF BelievedOf
    <3>3. CASE k # j
      BY <1>4, <2>2, <3>1, <3>3 DEF BelievedOf
    <3> QED
      BY <3>2, <3>3
  <2> QED
    BY <1>0, <1>5, <2>3 DEF Believed
<1>12. Gathering'
  BY <1>3, <1>6 DEF Gathering
<1> QED
  BY <1>7, <1>8, <1>9, <1>10, <1>11, <1>12 DEF EngineInv

\* The kernel completes a transfer, well or badly.
LEMMA TransferHolds ==
  ASSUME EngineInv, NEW e \in flying, TransferBlock(e) \/ FailTransfer(e)
  PROVE  EngineInv'
<1>0. TypeOK /\ Phases /\ Places /\ Airborne /\ Believed /\ Gathering
  BY DEF EngineInv
<1>1. PICK ok \in BOOLEAN : Complete(e, ok)
  BY DEF TransferBlock, FailTransfer
<1> DEFINE c == [job |-> e[1], n |-> e[2], ok |-> ok]
<1>2. flying' = flying \ {e} /\ cq' = cq \cup {c}
      /\ UNCHANGED <<shared, local, pcC, sq, rows, issuedTwice>>
  BY <1>1 DEF Complete
<1>3. e[1] \in JobIds /\ e = <<e[1], e[2]>> /\ e \in InTheAir(e[1])
      /\ desc[e[1]] # None /\ e[2] \in 1..NXfers(e[1])
  BY <1>0, InTheAirIs, AirKnown
<1>4. c \in Completion /\ c.job = e[1] /\ c.n = e[2] /\ <<c.job, c.n>> = e
  BY <1>0, <1>1, <1>3 DEF TypeOK, Entries, Completion
<1>5. \A d \in cq \cup comps : <<d.job, d.n>> # e /\ d # c
  BY <1>0, <1>4 DEF Airborne
<1>6. XferOf(e) \in Keys \X Slots
  BY <1>0, <1>3, Known, ElementOfSeq DEF XferOf, NXfers
<1>7. disk' \in [Slots -> Keys \cup {Blank}] /\ misread' \in SUBSET Keys
  <2>1. disk \in [Slots -> Keys \cup {Blank}] /\ misread \in SUBSET Keys
        /\ XferOf(e)[1] \in Keys /\ XferOf(e)[2] \in Slots
    BY <1>0, <1>6 DEF TypeOK
  <2>2. CASE TransferBlock(e)
    BY <2>1, <2>2 DEF TransferBlock
  <2>3. CASE FailTransfer(e)
    BY <2>1, <2>3 DEF FailTransfer
  <2> QED
    BY <2>2, <2>3
<1> HIDE DEF c
<1>8. TypeOK'
  BY <1>0, <1>2, <1>4, <1>7 DEF TypeOK, shared, local
<1>9. Phases'
  BY <1>0, <1>2 DEF Phases, Finishing, Ending, NoJobs, AllSettled, NXfers, shared, local
<1>10. Places'
  BY <1>0, <1>2, SamePlaces DEF shared, local
<1>11. InFlight' = InFlight
  <2>1. IsFiniteSet(flying) /\ IsFiniteSet(cq) /\ c \notin cq
    BY <1>0, <1>5, InFlightSize
  <2>2. Cardinality(flying') = Cardinality(flying) - 1 /\ Cardinality(cq') = Cardinality(cq) + 1
    BY <1>2, <2>1, OneMore
  <2>3. Cardinality(flying) \in Nat /\ Cardinality(cq) \in Nat
    BY <1>0, InFlightSize
  <2> QED
    BY <2>2, <2>3 DEF InFlight
<1>12. Airborne'
  <2>1. cq' \cup comps' = (cq \cup comps) \cup {c} /\ comps' = comps /\ c \notin comps
    BY <1>2, <1>5 DEF local
  <2>2. \A d \in cq \cup comps : ~(d.job = c.job /\ d.n = c.n)
    BY <1>4, <1>5
  <2>3. \A a, b \in cq' \cup comps' : a.job = b.job /\ a.n = b.n => a = b
    <3>1. \A a, b \in cq \cup comps : a.job = b.job /\ a.n = b.n => a = b
      BY <1>0 DEF Airborne
    <3> QED
      BY <2>1, <2>2, <3>1
  <2>4. \A d \in cq' \cup comps' : <<d.job, d.n>> \notin flying'
    <3>1. \A d \in cq \cup comps : <<d.job, d.n>> \notin flying
      BY <1>0 DEF Airborne
    <3> QED
      BY <1>2, <1>4, <2>1, <3>1
  <2>5. cq' \cap comps' = {}
    BY <1>0, <1>2, <2>1 DEF Airborne
  <2> QED
    BY <1>0, <1>2, <1>11, <2>3, <2>4, <2>5 DEF Airborne
<1>13. Believed'
  <2>1. ASSUME NEW k \in JobIds PROVE InTheAir(k)' = InTheAir(k)
    <3>1. cq' \cup comps' = (cq \cup comps) \cup {c} /\ flying' = flying \ {e}
      BY <1>2 DEF local
    <3>2. CASE k = e[1]
      BY <1>4, <3>1, <3>2 DEF InTheAir
    <3>3. CASE k # e[1]
      BY <1>4, <3>1, <3>3 DEF InTheAir
    <3> QED
      BY <3>2, <3>3
  <2>2. ASSUME NEW k \in JobIds PROVE BelievedOf(k)'
    BY <1>0, <1>2, <2>1 DEF Believed, BelievedOf, NXfers, shared, local
  <2> QED
    BY <1>0, <1>2, <2>2 DEF Believed, local
<1>14. Gathering'
  BY <1>0, <1>2, <1>11 DEF Gathering, Threshold, local
<1> QED
  BY <1>8, <1>9, <1>10, <1>12, <1>13, <1>14 DEF EngineInv

\* A batch is issued, and taken whole.
LEMMA IssueHolds ==
  ASSUME EngineInv, Issue, ~ShortSubmits
  PROVE  EngineInv'
<1>0. TypeOK /\ Phases /\ Places /\ Airborne /\ Believed /\ Gathering /\ OrderOK
  BY OrderHolds DEF EngineInv
<1>1. PICK m \in 1..Len(ToIssue) : IssuesFirst(m, Batch)
  BY <1>0, WholeBatch
<1>2. /\ skip' = FALSE /\ progress' = TRUE /\ pcW' = "reap" /\ pcW = "issue"
      /\ UNCHANGED <<shared, comps, fin, back, pcC, cq, rows, disk, misread>>
  BY DEF Issue
<1> DEFINE reqs == Batch
           N(j) == CountOf(reqs, j)
<1> HIDE DEF reqs
<1>3. /\ reqs = SubSeq(ToIssue, 1, m) /\ m \in 0..Len(ToIssue) /\ m \in Nat /\ InFlight + m <= QueueDepth
      /\ flying' = flying \cup ToSet(reqs) /\ sq' = << >>
      /\ issuedTwice' = issuedTwice \cup
           (ToSet(reqs) \cap (flying \cup {<<c.job, c.n>> : c \in cq \cup comps}))
      /\ table' = Filled(reqs).tab /\ issueOrder' = Filled(reqs).order
  <2>1. Len(ToIssue) \in Nat
    BY <1>0, ToIssueSorted, LenProperties
  <2> QED
    BY <1>1, <2>1 DEF IssuesFirst, reqs
<1>4. AfterFill(Filled(reqs), reqs)
  BY <1>0, <1>3, FilledWell
<1>5. /\ table' \in [JobIds -> JobState]
      /\ \A j \in JobIds :
           /\ table'[j].live = table[j].live /\ table'[j].failed = table[j].failed
           /\ N(j) \in Nat /\ table'[j].next = table[j].next + N(j)
           /\ table'[j].inflight = table[j].inflight + N(j)
      /\ issueOrder' \in Seq(JobIds) /\ IsInjective(issueOrder')
      /\ ToSet(issueOrder') = {j \in ToSet(issueOrder) : table'[j].next # NXfers(j)}
  BY <1>3, <1>4 DEF AfterFill
<1>6. ASSUME NEW j \in JobIds
      PROVE  /\ GivenOf(reqs, j) \in SUBSET Entries /\ IsFiniteSet(GivenOf(reqs, j))
             /\ Cardinality(GivenOf(reqs, j)) = N(j)
             /\ \A e \in GivenOf(reqs, j) : table[j].next < e[2] /\ e[2] <= table[j].next + N(j)
             /\ j \notin ToSet(issueOrder) => N(j) = 0
             /\ j \in ToSet(issueOrder) => table[j].next + N(j) <= NXfers(j) /\ NXfers(j) \in Nat
  BY <1>0, <1>3, GivenOfJob
<1>7. /\ ToSet(reqs) \in SUBSET Entries /\ IsFiniteSet(ToSet(reqs))
      /\ Cardinality(ToSet(reqs)) \in Nat /\ Cardinality(ToSet(reqs)) <= m
  <2>1. reqs \in Seq(Entries) /\ IsFiniteSet(ToSet(reqs)) /\ Cardinality(ToSet(reqs)) \in Nat
        /\ Cardinality(ToSet(reqs)) <= m
    BY <1>0, <1>3, TakenOff
  <2>2. ToSet(reqs) \in SUBSET Entries
    <3>1. DOMAIN reqs = 1..Len(reqs) /\ \A i \in 1..Len(reqs) : reqs[i] \in Entries
      BY <2>1, LenProperties, ElementOfSeq
    <3> QED
      BY <3>1 DEF ToSet
  <2> QED
    BY <2>1, <2>2
<1> HIDE DEF N
<1>8. \A j \in JobIds : /\ table[j].next \in Nat /\ table[j].inflight \in Nat
                        /\ (table[j].live => desc[j] # None)
  BY <1>0, Longest DEF TypeOK, JobState, Places, PlaceOf, Unfinished
<1>9. \A j \in JobIds : j \in ToSet(issueOrder) <=> table[j].live /\ table[j].next < NXfers(j)
  BY <1>0 DEF Believed, BelievedOf
\* A given entry is not in the air yet.
<1>10. ASSUME NEW e \in ToSet(reqs)
       PROVE  /\ e[1] \in JobIds /\ e \in GivenOf(reqs, e[1]) /\ e \notin InTheAir(e[1])
              /\ e \notin flying /\ \A c \in cq \cup comps : <<c.job, c.n>> # e
  <2>1. e \in Entries /\ e[1] \in JobIds
    BY <1>7 DEF Entries
  <2>2. e \in GivenOf(reqs, e[1])
    BY DEF GivenOf
  <2>3. table[e[1]].next < e[2] /\ e[2] \in Nat /\ table[e[1]].next \in Nat
    BY <1>6, <1>8, <2>1, <2>2 DEF Entries
  <2>4. e \notin InTheAir(e[1])
    <3> SUFFICES ASSUME e \in InTheAir(e[1]) PROVE FALSE
      OBVIOUS
    <3>1. e[2] <= table[e[1]].next
      BY <1>0, <2>1 DEF Believed, BelievedOf
    <3> QED
      BY <2>3, <3>1
  <2>5. e \notin flying
    BY <2>4 DEF InTheAir
  <2>6. ASSUME NEW c \in cq \cup comps, <<c.job, c.n>> = e PROVE FALSE
    <3>1. c.job = e[1]
      BY <2>6
    <3> QED
      BY <2>4, <2>6, <3>1 DEF InTheAir
  <2> QED
    BY <2>1, <2>2, <2>4, <2>5, <2>6
<1>11. TypeOK'
  <2>1. flying' \in SUBSET Entries /\ issuedTwice' \in SUBSET Entries
    BY <1>0, <1>3, <1>7 DEF TypeOK
  <2>2. sq' \in Seq(Entries)
    BY <1>3
  <2> QED
    BY <1>0, <1>2, <1>5, <2>1, <2>2 DEF TypeOK, shared
<1>12. Phases'
  <2>1. comps = {} /\ fin = None
    BY <1>0, <1>2 DEF Phases, Finishing
  <2> QED
    BY <1>0, <1>2, <1>3, <2>1 DEF Phases, Finishing, Ending, shared
<1>13. Places'
  <2>0. \A k \in JobIds : (InQ(k)' <=> InQ(k)) /\ NXfers(k)' = NXfers(k) /\ desc' = desc /\ fin' = fin
    BY <1>2 DEF InQ, NXfers, shared
  <2>1. Unfinished' = Unfinished
    <3>1. ASSUME NEW k \in JobIds PROVE k \in Unfinished' <=> k \in Unfinished
      BY <1>5, <2>0 DEF Unfinished
    <3> QED
      BY <3>1 DEF Unfinished
  <2>2. ASSUME NEW k \in JobIds PROVE PlaceOf(k)'
    <3>1. PlaceOf(k)
      BY <1>0 DEF Places
    <3>2. ~table[k].live => N(k) = 0
      BY <1>6, <1>9
    <3>3. table[k].live => table'[k].next <= NXfers(k)
      <4>1. CASE k \in ToSet(issueOrder)
        BY <1>5, <1>6, <4>1
      <4>2. CASE k \notin ToSet(issueOrder)
        BY <1>5, <1>6, <1>8, <3>1, <4>2 DEF PlaceOf
      <4> QED
        BY <4>1, <4>2
    <3>4. ~table[k].live => table'[k].next = 0 /\ table'[k].inflight = 0
      BY <1>5, <3>1, <3>2 DEF PlaceOf
    <3> QED
      BY <1>5, <2>0, <2>1, <3>1, <3>3, <3>4 DEF PlaceOf
  <2> QED
    BY <1>0, <1>2, <2>1, <2>2 DEF Places, shared
<1>14. Airborne'
  <2>1. issuedTwice' = {}
    <3>1. issuedTwice = {}
      BY <1>0 DEF Airborne
    <3>2. ToSet(reqs) \cap (flying \cup {<<c.job, c.n>> : c \in cq \cup comps}) = {}
      BY <1>10
    <3> QED
      BY <1>3, <3>1, <3>2
  <2>2. InFlight' <= QueueDepth
    <3>1. IsFiniteSet(flying) /\ Cardinality(flying) \in Nat /\ Cardinality(cq) \in Nat
          /\ QueueDepth \in Nat
      BY <1>0, InFlightSize
    <3>2. Cardinality(flying') <= Cardinality(flying) + Cardinality(ToSet(reqs))
          /\ Cardinality(flying') \in Nat
      <4>1. flying \cap ToSet(reqs) = {}
        BY <1>10
      <4>2. IsFiniteSet(flying') /\ Cardinality(flying') =
              Cardinality(flying) + Cardinality(ToSet(reqs)) - Cardinality(flying \cap ToSet(reqs))
        BY <1>3, <1>7, <3>1, FS_Union
      <4>3. Cardinality(flying \cap ToSet(reqs)) = 0
        BY <4>1, FS_EmptySet
      <4> QED
        BY <1>7, <3>1, <4>2, <4>3
    <3>3. InFlight = Cardinality(flying) + Cardinality(cq) /\ InFlight' = Cardinality(flying') + Cardinality(cq)
      BY <1>2 DEF InFlight
    <3> QED
      BY <1>3, <1>7, <3>1, <3>2, <3>3
  <2>3. cq' = cq /\ comps' = comps
    BY <1>2
  <2>4. \A c \in cq \cup comps : <<c.job, c.n>> \notin flying'
    <3>1. \A c \in cq \cup comps : <<c.job, c.n>> \notin flying
      BY <1>0 DEF Airborne
    <3> QED
      BY <1>3, <1>10, <3>1
  <2> QED
    BY <1>0, <2>1, <2>2, <2>3, <2>4 DEF Airborne
<1>15. Believed'
  <2>1. ASSUME NEW k \in JobIds PROVE InTheAir(k)' = InTheAir(k) \cup GivenOf(reqs, k)
    BY <1>2, <1>3 DEF InTheAir, GivenOf
  <2>2. ASSUME NEW k \in JobIds PROVE BelievedOf(k)'
    <3>1. BelievedOf(k) /\ NXfers(k)' = NXfers(k)
      BY <1>0, <1>2 DEF Believed, NXfers, shared
    <3>2. table'[k].inflight = Cardinality(InTheAir(k)')
      <4>1. InTheAir(k) \cap GivenOf(reqs, k) = {}
        <5>1. \A e \in GivenOf(reqs, k) : e \in ToSet(reqs) /\ e[1] = k
          BY DEF GivenOf
        <5> QED
          BY <1>10, <5>1
      <4>2. IsFiniteSet(InTheAir(k)) /\ Cardinality(InTheAir(k)) = table[k].inflight
        BY <1>0, <3>1, AirOf DEF BelievedOf
      <4>3. Cardinality(InTheAir(k) \cup GivenOf(reqs, k)) =
              Cardinality(InTheAir(k)) + Cardinality(GivenOf(reqs, k))
              - Cardinality(InTheAir(k) \cap GivenOf(reqs, k))
        BY <1>6, <4>2, FS_Union
      <4>4. Cardinality(InTheAir(k) \cap GivenOf(reqs, k)) = 0
        BY <4>1, FS_EmptySet
      <4>5. \A x, y \in Nat : x + y - 0 = x + y
        OBVIOUS
      <4>6. Cardinality(InTheAir(k) \cup GivenOf(reqs, k)) = table[k].inflight + N(k) - 0
        BY <1>6, <4>2, <4>3, <4>4
      <4>7. table[k].inflight \in Nat /\ N(k) \in Nat /\ table'[k].inflight = table[k].inflight + N(k)
        BY <1>5, <1>8
      <4> QED
        BY <2>1, <4>5, <4>6, <4>7
    <3>3. \A e \in InTheAir(k)' : e[2] <= table'[k].next
      <4>1. ASSUME NEW e \in InTheAir(k) PROVE e[2] <= table[k].next + N(k)
        <5>1. e[2] \in Nat /\ e[2] <= table[k].next
          BY <1>0, <3>1, AirOf DEF BelievedOf
        <5> QED
          BY <1>5, <1>8, <5>1
      <4>2. \A e \in GivenOf(reqs, k) : e[2] <= table[k].next + N(k)
        BY <1>6
      <4> QED
        BY <1>5, <2>1, <4>1, <4>2
    <3>4. table'[k].live /\ table'[k].next < NXfers(k) <=> k \in ToSet(issueOrder')
      <4>1. CASE k \in ToSet(issueOrder)
        <5>1. /\ table[k].live /\ table[k].next + N(k) <= NXfers(k) /\ NXfers(k) \in Nat
              /\ table[k].next \in Nat /\ N(k) \in Nat
          BY <1>5, <1>6, <1>8, <1>9, <4>1
        <5>2. k \in ToSet(issueOrder') <=> table'[k].next # NXfers(k)
          BY <1>5, <4>1
        <5>3. \A x, y \in Nat : x <= y => (x < y <=> x # y)
          OBVIOUS
        <5>4. table'[k].next \in Nat /\ table'[k].next <= NXfers(k)
          BY <1>5, <5>1
        <5>5. table'[k].live
          BY <1>5, <5>1
        <5> QED
          BY <5>1, <5>2, <5>3, <5>4, <5>5
      <4>2. CASE k \notin ToSet(issueOrder)
        <5>1. N(k) = 0 /\ table'[k].next = table[k].next
          BY <1>5, <1>6, <1>8, <4>2
        <5> QED
          BY <1>5, <1>9, <4>2, <5>1
      <4> QED
        BY <4>1, <4>2
    <3> QED
      BY <3>1, <3>2, <3>3, <3>4 DEF BelievedOf
  <2> QED
    BY <1>5, <2>2 DEF Believed
<1>16. Gathering'
  BY <1>2 DEF Gathering
<1> QED
  BY <1>11, <1>12, <1>13, <1>14, <1>15, <1>16 DEF EngineInv

\* Nothing happens.
LEMMA StutterHolds == EngineInv /\ UNCHANGED vars => EngineInv'
<1> SUFFICES ASSUME TypeOK, Phases, Places, Airborne, Believed, Gathering, UNCHANGED vars PROVE EngineInv'
  BY DEF EngineInv
<1>1. TypeOK'
  BY DEF TypeOK, vars, shared, local, ring
<1>2. Phases'
  BY DEF Phases, Finishing, Ending, NoJobs, AllSettled, NXfers, vars, shared, local, ring
<1>3. Places'
  BY SamePlaces DEF vars, shared, local
<1>4. Airborne'
  BY SameAir DEF vars, local, ring
<1>5. Believed'
  BY SameBelief DEF vars, shared, local, ring
<1>6. Gathering'
  BY SameGathering DEF vars, local, ring
<1> QED
  BY <1>1, <1>2, <1>3, <1>4, <1>5, <1>6 DEF EngineInv

-----------------------------------------------------------------------------
(* Theorems *)

LEMMA InitHolds == Init => EngineInv
<1> SUFFICES ASSUME Init PROVE EngineInv
  OBVIOUS
<1> USE DEF Init
<1>1. NoState \in JobState
  BY Longest DEF NoState, JobState
<1>2. Cardinality(JobIds) \in Nat /\ RingCap \in Nat /\ None \notin JobIds
  BY Finitely, DepthAssumption, WorkloadAssumption
<1>3. /\ << >> \in Seq(JobIds) /\ << >> \in Seq([job : JobIds, ok : BOOLEAN])
      /\ << >> \in Seq(Entries) /\ Len(<< >>) = 0
  <2>1. << >> \in Seq(JobIds)
    BY EmptySeq
  <2>2. << >> \in Seq([job : JobIds, ok : BOOLEAN])
    BY EmptySeq
  <2>3. << >> \in Seq(Entries)
    BY EmptySeq
  <2>4. Len(<< >>) = 0
    OBVIOUS
  <2> QED
    BY <2>1, <2>2, <2>3, <2>4
<1>4. TypeOK
  <2>1. /\ inQ \in Seq(JobIds) /\ Len(inQ) <= RingCap
        /\ outQ \in Seq([job : JobIds, ok : BOOLEAN]) /\ Len(outQ) <= RingCap
        /\ issueOrder \in Seq(JobIds) /\ sq \in Seq(Entries)
    <3>1. 0 <= RingCap
      BY <1>2
    <3> QED
      BY <1>3, <3>1, Zenon
  <2>2. pending \in 0..Cardinality(JobIds)
    BY <1>2
  <2>3. desc \in [JobIds -> Workload \cup {None}] /\ table \in [JobIds -> JobState]
        /\ disk \in [Slots -> Keys \cup {Blank}]
    BY <1>1
  <2> QED
    BY <2>1, <2>2, <2>3 DEF TypeOK
<1>5. Phases
  BY DEF Phases, Finishing, Ending
<1>6. \A j \in JobIds : ~InQ(j) /\ table[j] = NoState /\ fin # j /\ j \notin ToSet(issueOrder)
                        /\ InTheAir(j) = {}
  BY <1>2 DEF InQ, InTheAir, ToSet
<1>7. Unfinished = {}
  BY <1>6 DEF Unfinished, NoState
<1>8. IsInjective(inQ) /\ IsInjective(issueOrder)
  BY DEF IsInjective
<1>9. Places
  BY <1>6, <1>7, <1>8, FS_EmptySet DEF Places, PlaceOf, NoState
<1>10. Airborne
  BY DepthAssumption, FS_EmptySet DEF Airborne, InFlight
<1>11. Believed
  BY <1>6, <1>8, FS_EmptySet DEF Believed, BelievedOf, NoState
<1>12. Gathering
  BY DEF Gathering
<1> QED
  BY <1>4, <1>5, <1>9, <1>10, <1>11, <1>12 DEF EngineInv

LEMMA NextHolds == EngineInv /\ [Next]_vars /\ ~ShortSubmits => EngineInv'
<1> SUFFICES ASSUME EngineInv, [Next]_vars, ~ShortSubmits PROVE EngineInv'
  OBVIOUS
<1>1. CASE \E j \in JobIds, d \in Workload : Submit(j, d)
  BY <1>1, SubmitHolds
<1>2. CASE Notify \/ Poll \/ DrainRecords \/ DrainCall \/ DrainReturn \/ Destroy \/ Join
  BY <1>2, NotifyHolds, PollHolds, RecordsHold, DrainCallHolds, DrainReturnHolds, DestroyHolds,
     JoinHolds
<1>3. CASE Worker
  <2>1. CASE TakeJob \/ TakenAll \/ Issue \/ IssueNothing
    BY <2>1, TakeJobHolds, TakenAllHolds, IssueHolds, NothingIssuedHolds
  <2>2. CASE Reap \/ ReapNothing \/ HandledAll \/ \E c \in comps : HandleCompletion(c)
    BY <2>2, ReapHolds, NothingReapedHolds, HandledAllHolds, HandleHolds
  <2>3. CASE LogRow \/ PushResult \/ Retire \/ RoundEnd
    BY <2>3, LogRowHolds, PushHolds, RetireHolds, RoundEndHolds
  <2>4. CASE WakeByTimeout \/ FailLeftover \/ Exit
    BY <2>4, WakeHolds, FailLeftoverHolds, ExitHolds
  <2> QED
    BY <1>3, <2>1, <2>2, <2>3, <2>4 DEF Worker
<1>4. CASE Kernel
  BY <1>4, TransferHolds DEF Kernel
<1>5. CASE UNCHANGED vars
  BY <1>5, StutterHolds
<1> QED
  BY <1>1, <1>2, <1>3, <1>4, <1>5 DEF Next, Gone

\* Whatever jobs come and in whatever order the kernel completes transfers,
\* the invariant holds as long as io_uring_submit takes what it is given.
THEOREM EngineInvariant == ~ShortSubmits => (Spec => []EngineInv)
<1> SUFFICES ASSUME ~ShortSubmits PROVE Spec => []EngineInv
  OBVIOUS
<1>1. EngineInv /\ [Next]_vars => EngineInv'
  BY NextHolds
<1> QED
  BY <1>1, InitHolds, PTL DEF Spec

\* Nobody is left when nothing is pending.
LEMMA NobodyLeft ==
  ASSUME EngineInv, Unfinished = {}
  PROVE  /\ flying = {} /\ cq = {} /\ comps = {} /\ inQ = << >> /\ NoJobs
         /\ ~Finishing
<1>0. TypeOK /\ Phases /\ Places /\ Believed
  BY DEF EngineInv
<1>1. NoJobs
  BY DEF NoJobs, Unfinished
<1>2. \A j \in JobIds : InTheAir(j) = {}
  BY <1>0, <1>1, AirKnown DEF NoJobs
<1>3. flying = {} /\ cq = {} /\ comps = {}
  BY <1>0, <1>2, InTheAirIs
<1>4. inQ = << >>
  <2>1. inQ \in Seq(JobIds) /\ \A j \in JobIds : ~InQ(j)
    BY <1>0 DEF TypeOK, Unfinished
  <2> SUFFICES ASSUME inQ # << >> PROVE FALSE
    OBVIOUS
  <2>2. Head(inQ) \in ToSet(inQ) /\ Head(inQ) \in JobIds
    BY <2>1, FrontPopped
  <2> QED
    BY <2>1, <2>2, InQIsIn
<1>5. ~Finishing
  BY <1>0 DEF Phases, TypeOK, Unfinished
<1> QED
  BY <1>1, <1>3, <1>4, <1>5

LEMMA LedgerAgrees == EngineInv => WorkerLedger
<1> SUFFICES ASSUME EngineInv PROVE WorkerLedger
  OBVIOUS
<1>0. TypeOK /\ Phases /\ Places /\ Airborne /\ Believed
  BY DEF EngineInv
<1>1. DrainedMeansIdle
  <2> SUFFICES ASSUME pending = 0
               PROVE  flying = {} /\ sq = << >> /\ inQ = << >> /\ NoJobs /\ pcW # "push"
    BY DEF DrainedMeansIdle
  <2>1. IsFiniteSet(Unfinished)
    BY Finitely DEF Unfinished
  <2>2. Unfinished = {}
    BY <1>0, <2>1, FS_EmptySet DEF Places
  <2> QED
    BY <1>0, <2>2, NobodyLeft DEF Phases, Finishing
<1> QED
  BY <1>0, <1>1 DEF WorkerLedger, Phases, Airborne, Believed, BelievedOf

\* What the worker believes of its jobs agrees with the ring at every moment,
\* in_flight() stays within the ring, and a drain that returns leaves nothing
\* behind (kv_tier_engine.cpp, worker_loop; drain).
THEOREM BooksAgreeWithRing == ~ShortSubmits => (Spec => []WorkerLedger)
<1> SUFFICES ASSUME ~ShortSubmits PROVE Spec => []WorkerLedger
  OBVIOUS
<1>1. Spec => []EngineInv
  BY EngineInvariant
<1> QED
  BY <1>1, LedgerAgrees, PTL

\* The destructor never leaves a job unanswered: when the worker has ended
\* nothing is pending, queued, in the table or in the air
\* (kv_tier_engine.cpp, the leftovers after the loop).
THEOREM NothingIsLeftBehind == ~ShortSubmits => (Spec => []NothingLeftBehind)
<1> SUFFICES ASSUME ~ShortSubmits PROVE Spec => []NothingLeftBehind
  OBVIOUS
<1>1. Spec => []EngineInv
  BY EngineInvariant
<1>2. EngineInv => NothingLeftBehind
  <2> SUFFICES ASSUME EngineInv, pcW = "exit" PROVE pending = 0 /\ inQ = << >> /\ InFlight = 0 /\ NoJobs
    BY DEF NothingLeftBehind
  <2>1. TypeOK /\ Phases /\ Places
    BY DEF EngineInv
  <2>2. inQ = << >> /\ NoJobs /\ fin = None
    BY <2>1 DEF Phases, Ending, Finishing
  <2>3. Unfinished = {}
    BY <2>2, WorkloadAssumption DEF Unfinished, InQ, NoJobs
  <2>4. pending = 0
    BY <2>1, <2>3, FS_EmptySet DEF Places
  <2>5. flying = {} /\ cq = {}
    BY <2>3, NobodyLeft
  <2> QED
    BY <2>2, <2>4, <2>5, FS_EmptySet DEF InFlight
<1> QED
  BY <1>1, <1>2, PTL

\* Whatever the depth of the ring, the gather window never waits until the
\* device runs dry: while the worker blocks, two transfers are in the air (the
\* one there is with a ring of one), and all but 62 of a ring deeper than 64
\* (kv_tier_engine.cpp, the lockstep the comment on submit_threshold is about).
THEOREM DeviceStaysBusy == ~ShortSubmits => (Spec => []GatherKeepsDeviceBusy)
<1> SUFFICES ASSUME ~ShortSubmits PROVE Spec => []GatherKeepsDeviceBusy
  OBVIOUS
<1>1. Spec => []EngineInv
  BY EngineInvariant
<1>2. EngineInv => GatherKeepsDeviceBusy
  <2> DEFINE busy == Cardinality(flying)
  <2> SUFFICES ASSUME EngineInv, pcW = "reap", skip, Cardinality(cq) < MinComplete
               PROVE  busy >= IF QueueDepth > 64 THEN QueueDepth - 62 ELSE Least(2, QueueDepth)
    BY DEF GatherKeepsDeviceBusy, WaitsForBatch
  <2>1. TypeOK /\ QueueDepth - InFlight < Threshold
    BY DEF EngineInv, Gathering
  <2>2. /\ busy \in Nat /\ Cardinality(cq) \in Nat /\ QueueDepth \in Nat /\ QueueDepth >= 1
        /\ Threshold \in 1..32
        /\ (QueueDepth >= 2 => 2 * Threshold <= QueueDepth) /\ (QueueDepth = 1 => Threshold = 1)
    BY <2>1, InFlightSize
  <2>3. InFlight = busy + Cardinality(cq)
    BY DEF InFlight
  <2>4. Cardinality(cq) <= Threshold - 1
    BY <2>2, <2>3 DEF MinComplete, Least
  <2>5. busy >= QueueDepth - 2 * Threshold + 2
    BY <2>1, <2>2, <2>3, <2>4
  <2> QED
    BY <2>2, <2>5 DEF Least
<1> QED
  BY <1>1, <1>2, PTL

\* As long as io_uring_submit takes what it is given no block is issued twice:
\* the retry after a short submission is the only way to do so
\* (uring_backend.cpp, submit; kv_tier_engine.cpp:299).
THEOREM BlocksAreIssuedOnce == ~ShortSubmits => (Spec => []BlocksIssuedOnce)
<1> SUFFICES ASSUME ~ShortSubmits PROVE Spec => []BlocksIssuedOnce
  OBVIOUS
<1>1. Spec => []EngineInv
  BY EngineInvariant
<1>2. EngineInv => BlocksIssuedOnce
  BY DEF EngineInv, Airborne, BlocksIssuedOnce
<1> QED
  BY <1>1, <1>2, PTL

-----------------------------------------------------------------------------
(* The results *)

\* The results waiting name each job once.
OneResult == \A m, n \in DOMAIN outQ : outQ[m].job = outQ[n].job => m = n

\* Whether a job's result says that it failed.
FailedResult(j) == \E n \in DOMAIN outQ : outQ[n].job = j /\ ~outQ[n].ok

\* A job's result goes out before the job leaves the table; a failure is
\* remembered until then.
AnsweredOf(j) ==
  /\ OutQ(j) => ~InQ(j) /\ desc[j] # None
  /\ OutQ(j) /\ (table[j].live \/ fin = j) => fin = j /\ pcW = "retire"
  /\ ~table[j].live /\ fin # j => ~table[j].failed

\* A job is answered once, and its result says whether a transfer failed.
Answers ==
  /\ OneResult
  /\ pcW = "retire" /\ OutQ(fin) => (FailedResult(fin) <=> table[fin].failed)
  /\ \A j \in JobIds : AnsweredOf(j)

Result == [job : JobIds, ok : BOOLEAN]

\* A first result added.
LEMMA AppendResult ==
  ASSUME TypeOK, OneResult, NEW r \in Result, outQ' = Append(outQ, r), ~OutQ(r.job)
  PROVE  /\ OneResult'
         /\ \A i : OutQ(i)' <=> OutQ(i) \/ i = r.job
         /\ \A i : FailedResult(i)' <=> FailedResult(i) \/ (i = r.job /\ ~r.ok)
         /\ ~FailedResult(r.job)
<1>1. outQ \in Seq(Result) /\ Len(outQ) \in Nat /\ DOMAIN outQ = 1..Len(outQ)
  BY LenProperties DEF TypeOK, Result
<1> DEFINE k == Len(outQ)
<1>2. /\ outQ' \in Seq(Result) /\ Len(outQ') = k + 1
      /\ \A i \in 1..k : outQ'[i] = outQ[i]
      /\ outQ'[k + 1] = r
  BY <1>1, AppendProperties
<1>3. DOMAIN outQ' = 1..(k + 1)
  BY <1>2, LenProperties
<1>4. \A i \in 1..k : outQ[i].job # r.job
  BY <1>1 DEF OutQ
<1>5. (\A i \in 1..(k + 1) : i \in 1..k \/ i = k + 1) /\ 1..k \subseteq 1..(k + 1) /\ k + 1 \in 1..(k + 1)
  BY <1>1
<1>6. DOMAIN outQ = 1..k
  BY <1>1
<1> HIDE DEF k
<1>7. OneResult'
  <2> SUFFICES ASSUME NEW m \in 1..(k + 1), NEW n \in 1..(k + 1), outQ'[m].job = outQ'[n].job
               PROVE  m = n
    BY <1>3 DEF OneResult
  <2> QED
    BY <1>2, <1>4, <1>5, <1>6 DEF OneResult
<1>8. ASSUME NEW i PROVE OutQ(i)' <=> OutQ(i) \/ i = r.job
  BY <1>2, <1>3, <1>5, <1>6 DEF OutQ
<1>9. ASSUME NEW i PROVE FailedResult(i)' <=> FailedResult(i) \/ (i = r.job /\ ~r.ok)
  BY <1>2, <1>3, <1>5, <1>6 DEF FailedResult
<1>10. ~FailedResult(r.job)
  BY DEF OutQ, FailedResult
<1> QED
  BY <1>7, <1>8, <1>9, <1>10

\* The results a poll takes, and their jobs.
PollCount == Least(PollMax, Len(outQ))
PollSet == {outQ[i].job : i \in 1..PollCount}

\* What poll takes away it takes away for good.
LEMMA PollResults ==
  ASSUME TypeOK, OneResult, Poll
  PROVE  /\ PollCount \in 0..Len(outQ) /\ Len(outQ) \in Nat
         /\ PollSet \in SUBSET JobIds /\ Cardinality(PollSet) = PollCount
         /\ \A i \in PollSet : OutQ(i)
         /\ PollCount = Len(outQ) => \A i : OutQ(i) => i \in PollSet
         /\ OneResult'
         /\ \A i : OutQ(i)' <=> OutQ(i) /\ i \notin PollSet
         /\ \A i : i \notin PollSet => (FailedResult(i)' <=> FailedResult(i))
<1> DEFINE p == PollCount
           k == Len(outQ)
<1>1. /\ outQ \in Seq(Result) /\ k \in Nat /\ DOMAIN outQ = 1..k
      /\ \A i \in 1..k : outQ[i] \in Result
      /\ p \in 0..k
  <2>1. outQ \in Seq(Result) /\ k \in Nat
    BY LenProperties DEF TypeOK, Result
  <2>2. DOMAIN outQ = 1..k /\ \A i \in 1..k : outQ[i] \in Result
    BY <2>1, LenProperties, ElementOfSeq
  <2>3. p \in 0..k
    BY <2>1, DepthAssumption DEF PollCount, Least
  <2> QED
    BY <2>1, <2>2, <2>3
<1>2. /\ \A i \in 1..p : i \in DOMAIN outQ
      /\ \A i \in 1..(k - p) : i + p \in 1..k
      /\ \A i \in 1..k : i \notin 1..p => i - p \in 1..(k - p) /\ (i - p) + p = i
      /\ \A m \in 1..p : \A n \in 1..(k - p) : m # n + p
      /\ \A m, n \in 1..(k - p) : m + p = n + p => m = n
  BY <1>1
<1>3. outQ' = SubSeq(outQ, p + 1, k)
  BY DEF Poll, PollCount
<1> HIDE DEF p, k
<1>4. DOMAIN outQ' = 1..(k - p) /\ \A i \in 1..(k - p) : outQ'[i] = outQ[i + p]
  <2>1. DOMAIN outQ' = 1..(k - p) /\ \A i \in 1..(k - p) : outQ'[i] = outQ[p + i]
    BY <1>1, <1>3, FrontDropped DEF k
  <2>2. \A i \in 1..(k - p) : p + i = i + p
    BY <1>1
  <2> QED
    BY <2>1, <2>2
<1>5. PollSet = {outQ[i].job : i \in 1..p}
  BY DEF PollSet, p
<1>6. Cardinality(PollSet) = p
  <2> DEFINE g == [i \in 1..p |-> outQ[i].job]
  <2>1. g \in [1..p -> PollSet]
    BY <1>5
  <2>2. \A a, b \in 1..p : g[a] = g[b] => a = b
    BY <1>2 DEF OneResult
  <2>3. \A x \in PollSet : \E i \in 1..p : g[i] = x
    BY <1>5
  <2> HIDE DEF g
  <2>4. ExistsBijection(1..p, PollSet)
    BY <2>1, <2>2, <2>3 DEF ExistsBijection, Bijection, Injection, Surjection, IsInjective
  <2> QED
    BY <1>1, <2>4, FS_CountingElements
<1>7. PollSet \in SUBSET JobIds /\ \A i \in PollSet : OutQ(i)
  <2> SUFFICES ASSUME NEW i \in 1..p PROVE outQ[i].job \in JobIds /\ OutQ(outQ[i].job)
    BY <1>5
  <2> QED
    BY <1>1, <1>2 DEF OutQ, Result
<1>8. ASSUME p = k, NEW i, OutQ(i) PROVE i \in PollSet
  BY <1>1, <1>5, <1>8 DEF OutQ
<1>9. OneResult'
  <2> SUFFICES ASSUME NEW m \in 1..(k - p), NEW n \in 1..(k - p), outQ'[m].job = outQ'[n].job
               PROVE  m = n
    BY <1>4 DEF OneResult
  <2>1. outQ[m + p].job = outQ[n + p].job /\ m + p \in DOMAIN outQ /\ n + p \in DOMAIN outQ
    BY <1>1, <1>2, <1>4
  <2>2. m + p = n + p
    BY <2>1 DEF OneResult
  <2> QED
    BY <1>2, <2>2
<1>10. ASSUME NEW i PROVE OutQ(i)' <=> OutQ(i) /\ i \notin PollSet
  <2>1. ASSUME OutQ(i)' PROVE OutQ(i) /\ i \notin PollSet
    <3>1. PICK n \in 1..(k - p) : outQ'[n].job = i
      BY <1>4, <2>1 DEF OutQ
    <3>2. n + p \in DOMAIN outQ /\ outQ[n + p].job = i
      BY <1>1, <1>2, <1>4, <3>1
    <3>3. ASSUME NEW m \in 1..p PROVE outQ[m].job # i
      <4>1. m \in DOMAIN outQ /\ m # n + p
        BY <1>2
      <4> QED
        BY <3>2, <4>1 DEF OneResult
    <3> QED
      BY <1>5, <3>2, <3>3 DEF OutQ
  <2>2. ASSUME OutQ(i), i \notin PollSet PROVE OutQ(i)'
    <3>1. PICK n \in 1..k : outQ[n].job = i
      BY <1>1, <2>2 DEF OutQ
    <3>2. n - p \in 1..(k - p) /\ (n - p) + p = n
      BY <1>2, <1>5, <2>2, <3>1
    <3>3. outQ'[n - p].job = i
      BY <1>4, <3>1, <3>2
    <3> QED
      BY <1>4, <3>2, <3>3 DEF OutQ
  <2> QED
    BY <2>1, <2>2
<1>11. ASSUME NEW i, i \notin PollSet PROVE FailedResult(i)' <=> FailedResult(i)
  <2>1. ASSUME FailedResult(i)' PROVE FailedResult(i)
    <3>1. PICK n \in 1..(k - p) : outQ'[n].job = i /\ ~outQ'[n].ok
      BY <1>4, <2>1 DEF FailedResult
    <3>2. n + p \in DOMAIN outQ /\ outQ'[n] = outQ[n + p]
      BY <1>1, <1>2, <1>4, <3>1
    <3> QED
      BY <3>1, <3>2 DEF FailedResult
  <2>2. ASSUME FailedResult(i) PROVE FailedResult(i)'
    <3>1. PICK n \in 1..k : outQ[n].job = i /\ ~outQ[n].ok
      BY <1>1, <2>2 DEF FailedResult
    <3>2. n - p \in 1..(k - p) /\ (n - p) + p = n
      BY <1>2, <1>5, <1>11, <3>1
    <3>3. outQ'[n - p] = outQ[n]
      BY <1>4, <3>2
    <3> QED
      BY <1>4, <3>1, <3>2, <3>3 DEF FailedResult
  <2> QED
    BY <2>1, <2>2
<1> QED
  BY <1>1, <1>6, <1>7, <1>8, <1>9, <1>10, <1>11 DEF p, k

\* The same results, and nothing else that matters to them.
LEMMA SameAnswers ==
  ASSUME Answers, UNCHANGED <<outQ, fin, desc>>, pcW' = "retire" <=> pcW = "retire",
         fin \in JobIds \cup {None}, pcW = "retire" => fin # None,
         \A j \in JobIds : /\ InQ(j)' => InQ(j)
                           /\ table'[j].live = table[j].live /\ table'[j].failed = table[j].failed
  PROVE  Answers'
<1>1. OneResult' /\ \A j : (OutQ(j)' <=> OutQ(j)) /\ (FailedResult(j)' <=> FailedResult(j))
  BY DEF Answers, OneResult, OutQ, FailedResult
<1>2. \A j \in JobIds : AnsweredOf(j)'
  BY <1>1 DEF Answers, AnsweredOf
<1>3. (pcW = "retire" /\ OutQ(fin) => (FailedResult(fin) <=> table[fin].failed))'
  BY <1>1 DEF Answers
<1> QED
  BY <1>1, <1>2, <1>3 DEF Answers

\* The batch an Issue gives to the kernel, and what becomes of the table.
GivesOf(reqs, j) ==
  /\ table'[j].live = table[j].live /\ table'[j].failed = table[j].failed
  /\ table[j].next \in Nat /\ CountOf(reqs, j) \in Nat
  /\ table'[j].next = table[j].next + CountOf(reqs, j)
  /\ \A e \in GivenOf(reqs, j) : table[j].next < e[2] /\ e[2] <= table[j].next + CountOf(reqs, j)
  /\ \A n \in table[j].next + 1..table[j].next + CountOf(reqs, j) : <<j, n>> \in GivenOf(reqs, j)

LEMMA Gives ==
  ASSUME EngineInv, Issue, ~ShortSubmits
  PROVE  \E reqs : /\ flying' = flying \cup ToSet(reqs)
                   /\ \A j \in JobIds : GivesOf(reqs, j)
<1>0. TypeOK /\ Phases /\ Places /\ Airborne /\ Believed /\ OrderOK
  BY OrderHolds DEF EngineInv
<1> DEFINE reqs == Batch
<1>1. PICK m \in 1..Len(ToIssue) : IssuesFirst(m, reqs)
  BY <1>0, WholeBatch
<1> HIDE DEF reqs
<1>2. /\ reqs = SubSeq(ToIssue, 1, m) /\ m \in 0..Len(ToIssue)
      /\ flying' = flying \cup ToSet(reqs) /\ table' = Filled(reqs).tab
  <2>1. Len(ToIssue) \in Nat
    BY <1>0, ToIssueSorted, LenProperties
  <2> QED
    BY <1>1, <2>1 DEF IssuesFirst
<1>3. AfterFill(Filled(reqs), reqs)
  BY <1>0, <1>2, FilledWell
<1>4. ASSUME NEW j \in JobIds PROVE GivesOf(reqs, j)
  <2>1. /\ table'[j].live = table[j].live /\ table'[j].failed = table[j].failed
        /\ CountOf(reqs, j) \in Nat /\ table'[j].next = table[j].next + CountOf(reqs, j)
    BY <1>2, <1>3 DEF AfterFill
  <2>2. table[j].next \in Nat
    BY <1>0, Longest DEF TypeOK, JobState
  <2>3. /\ \A e \in GivenOf(reqs, j) : table[j].next < e[2] /\ e[2] <= table[j].next + CountOf(reqs, j)
        /\ \A n \in table[j].next + 1..table[j].next + CountOf(reqs, j) : <<j, n>> \in GivenOf(reqs, j)
    BY <1>0, <1>2, GivenOfJob
  <2> QED
    BY <2>1, <2>2, <2>3 DEF GivesOf
<1> QED
  BY <1>2, <1>4

\* Every step keeps the results in order.
LEMMA NextAnswers ==
  ASSUME EngineInv, Answers, [Next]_vars, ~ShortSubmits
  PROVE  Answers'
<1>0. /\ TypeOK /\ Phases /\ Places /\ Airborne /\ Believed
      /\ fin \in JobIds \cup {None} /\ None \notin JobIds
      /\ (Finishing <=> fin # None)
      /\ \A j \in JobIds : AnsweredOf(j) /\ PlaceOf(j)
  BY WorkloadAssumption DEF EngineInv, TypeOK, Phases, Places, Answers
<1>1. ASSUME UNCHANGED <<inQ, outQ, fin, desc, table>>, pcW' = "retire" <=> pcW = "retire"
      PROVE  Answers'
  BY <1>0, <1>1, SameAnswers DEF InQ, Finishing
<1>2. ASSUME NEW j \in JobIds, NEW d \in Workload, Submit(j, d) PROVE Answers'
  <2>1. /\ desc[j] = None /\ UNCHANGED <<outQ, table, fin, pcW>> /\ inQ' = Append(inQ, j)
        /\ \A i \in JobIds \ {j} : desc'[i] = desc[i]
    BY <1>0, <1>2 DEF Submit, local, TypeOK
  <2>2. ~OutQ(j)
    BY <1>0, <2>1 DEF AnsweredOf
  <2>3. OneResult' /\ \A i : (OutQ(i)' <=> OutQ(i)) /\ (FailedResult(i)' <=> FailedResult(i))
    BY <2>1 DEF Answers, OneResult, OutQ, FailedResult
  <2>4. \A i \in JobIds \ {j} : InQ(i)' <=> InQ(i)
    <3>1. inQ \in Seq(JobIds)
      BY <1>0 DEF TypeOK
    <3>2. ToSet(inQ') = ToSet(inQ) \cup {j}
      BY <2>1, <3>1, BackPushed
    <3> QED
      BY <3>2, InQIsIn
  <2>5. ASSUME NEW i \in JobIds PROVE AnsweredOf(i)'
    BY <1>0, <2>1, <2>2, <2>3, <2>4 DEF AnsweredOf
  <2> QED
    BY <2>1, <2>3, <2>5 DEF Answers
<1>3. CASE Poll
  <2>1. /\ OneResult' /\ \A i : OutQ(i)' <=> OutQ(i) /\ i \notin PollSet
        /\ \A i : i \notin PollSet => (FailedResult(i)' <=> FailedResult(i))
    BY <1>0, <1>3, PollResults DEF Answers
  <2>2. UNCHANGED <<inQ, table, fin, desc, pcW>>
    BY <1>3 DEF Poll, local
  <2>3. ASSUME NEW i \in JobIds PROVE AnsweredOf(i)'
    BY <1>0, <2>1, <2>2 DEF AnsweredOf, InQ
  <2> QED
    BY <2>1, <2>2, <2>3 DEF Answers
<1>4. ASSUME TakeJob \/ FailLeftover PROVE Answers'
  <2> DEFINE j == Head(inQ)
  <2>1. /\ j \in JobIds /\ InQ(j) /\ \A i \in JobIds : InQ(i)' => InQ(i) /\ i # j
    BY <1>0, <1>4, HeadTaken DEF TakeJob, FailLeftover
  <2>2. /\ UNCHANGED <<outQ, desc>> /\ pcW # "retire" /\ pcW' # "retire" /\ ~Finishing
        /\ (fin' = j \/ (table'[j].live /\ fin' = None))
        /\ (table'[j].live => ~table'[j].failed)
        /\ \A i \in JobIds \ {j} : table'[i] = table[i]
    <3>1. CASE TakeJob
      <4>1. table'[j].live /\ ~table'[j].failed /\ \A i \in JobIds \ {j} : table'[i] = table[i]
        <5> DEFINE s == [NoState EXCEPT !.live = TRUE]
        <5>1. s.live /\ ~s.failed
          BY DEF NoState
        <5>2. table' = [table EXCEPT ![j] = s]
          BY <3>1 DEF TakeJob, Emplaced
        <5> HIDE DEF s
        <5> QED
          BY <1>0, <2>1, <5>1, <5>2 DEF TypeOK
      <4> QED
        BY <1>0, <3>1, <4>1 DEF TakeJob, Finishing
    <3>2. CASE FailLeftover
      <4>1. table' = [table EXCEPT ![j].failed = TRUE]
        BY <3>2 DEF FailLeftover
      <4>2. ~table[j].live
        BY <1>0, <2>1 DEF PlaceOf
      <4>3. ~table'[j].live /\ \A i \in JobIds \ {j} : table'[i] = table[i]
        BY <1>0, <2>1, <4>1, <4>2 DEF TypeOK, JobState
      <4> QED
        BY <3>2, <4>3 DEF FailLeftover, Finishing
    <3> QED
      BY <1>4, <3>1, <3>2
  <2> HIDE DEF j
  <2>3. fin = None /\ ~OutQ(j) /\ fin' \in {j, None}
    BY <1>0, <2>1, <2>2 DEF AnsweredOf
  <2>4. OneResult' /\ \A i : (OutQ(i)' <=> OutQ(i)) /\ (FailedResult(i)' <=> FailedResult(i))
    BY <2>2 DEF Answers, OneResult, OutQ, FailedResult
  <2>5. ASSUME NEW i \in JobIds PROVE AnsweredOf(i)'
    <3>1. CASE i = j
      BY <1>0, <2>1, <2>2, <2>3, <2>4, <3>1 DEF AnsweredOf
    <3>2. CASE i # j
      BY <1>0, <2>1, <2>2, <2>3, <2>4, <3>2 DEF AnsweredOf
    <3> QED
      BY <3>1, <3>2
  <2> QED
    BY <2>2, <2>4, <2>5 DEF Answers
<1>5. CASE Issue
  <2>1. \A j \in JobIds : table'[j].live = table[j].live /\ table'[j].failed = table[j].failed
    BY <1>5, Gives DEF GivesOf
  <2>2. UNCHANGED <<outQ, fin, desc, inQ>> /\ pcW' # "retire" /\ pcW # "retire"
    BY <1>5 DEF Issue, shared
  <2> QED
    BY <1>0, <2>1, <2>2, SameAnswers DEF InQ
<1>6. ASSUME NEW c \in comps, HandleCompletion(c) PROVE Answers'
  <2> DEFINE j == c.job
  <2>1. j \in JobIds /\ table[j].live
    BY <1>0, InTheAirIs, AirKnown
  <2>2. /\ UNCHANGED <<inQ, outQ, desc>> /\ pcW = "handle" /\ pcW' # "retire" /\ fin = None
        /\ fin' \in {None, j}
        /\ table'[j].live /\ \A i \in JobIds \ {j} : table'[i] = table[i]
    <3>1. table' = [table EXCEPT ![j] = [table[j] EXCEPT !.inflight = @ - 1, !.failed = @ \/ ~c.ok]]
      BY <1>6 DEF HandleCompletion, Counted
    <3>2. table'[j].live /\ \A i \in JobIds \ {j} : table'[i] = table[i]
      BY <1>0, <2>1, <3>1 DEF TypeOK, JobState
    <3> QED
      BY <1>0, <1>6, <3>2 DEF HandleCompletion, shared, Finishing
  <2> HIDE DEF j
  <2>3. ~OutQ(j)
    BY <1>0, <2>1, <2>2 DEF AnsweredOf
  <2>4. OneResult' /\ \A i : (OutQ(i)' <=> OutQ(i)) /\ (FailedResult(i)' <=> FailedResult(i))
    BY <2>2 DEF Answers, OneResult, OutQ, FailedResult
  <2>5. ASSUME NEW i \in JobIds PROVE AnsweredOf(i)'
    BY <1>0, <2>1, <2>2, <2>3, <2>4 DEF AnsweredOf, InQ
  <2> QED
    BY <2>2, <2>4, <2>5 DEF Answers
<1>7. CASE PushResult
  <2> DEFINE r == [job |-> fin, ok |-> ~table[fin].failed]
  <2>1. /\ UNCHANGED <<inQ, table, desc, fin>> /\ pcW = "push" /\ pcW' = "retire"
        /\ outQ' = Append(outQ, r) /\ fin \in JobIds
    BY <1>0, <1>7 DEF PushResult, Finishing
  <2>2. r \in Result /\ r.job = fin /\ (r.ok <=> ~table[fin].failed) /\ ~OutQ(fin)
    BY <1>0, <2>1 DEF Result, TypeOK, JobState, AnsweredOf
  <2> HIDE DEF r
  <2>3. /\ OneResult' /\ \A i : OutQ(i)' <=> OutQ(i) \/ i = fin
        /\ \A i : FailedResult(i)' <=> FailedResult(i) \/ (i = fin /\ ~r.ok)
        /\ ~FailedResult(fin)
    BY <1>0, <2>1, <2>2, AppendResult DEF Answers
  <2>4. ~InQ(fin) /\ desc[fin] # None
    BY <1>0, <2>1 DEF PlaceOf, Unfinished
  <2>5. ASSUME NEW i \in JobIds PROVE AnsweredOf(i)'
    BY <1>0, <2>1, <2>3, <2>4 DEF AnsweredOf, InQ
  <2> QED
    BY <2>1, <2>2, <2>3, <2>5 DEF Answers
<1>8. CASE Retire
  <2>1. /\ UNCHANGED <<inQ, outQ, desc>> /\ pcW = "retire" /\ fin' = None /\ fin \in JobIds
        /\ table' = [table EXCEPT ![fin] = NoState] /\ pcW' # "retire"
    BY <1>0, <1>8 DEF Retire, Finishing, TypeOK
  <2>2. ~table'[fin].live /\ ~table'[fin].failed /\ \A i \in JobIds \ {fin} : table'[i] = table[i]
    BY <1>0, <2>1 DEF TypeOK, NoState
  <2>3. OneResult' /\ \A i : (OutQ(i)' <=> OutQ(i)) /\ (FailedResult(i)' <=> FailedResult(i))
    BY <2>1 DEF Answers, OneResult, OutQ, FailedResult
  <2>4. ASSUME NEW i \in JobIds PROVE AnsweredOf(i)'
    BY <1>0, <2>1, <2>2, <2>3 DEF AnsweredOf, InQ
  <2> QED
    BY <2>1, <2>3, <2>4 DEF Answers
<1>9. CASE Notify \/ DrainRecords \/ DrainCall \/ DrainReturn \/ Destroy \/ Join \/ Kernel
           \/ UNCHANGED vars
  BY <1>1, <1>9 DEF Notify, DrainRecords, DrainCall, DrainReturn, Destroy, Join, Kernel, TransferBlock,
                    FailTransfer, Complete, vars, shared, local
<1>10. CASE TakenAll \/ IssueNothing \/ Reap \/ ReapNothing \/ HandledAll
  BY <1>1, <1>10 DEF TakenAll, IssueNothing, Reap, ReapNothing, HandledAll, shared
<1>11. CASE LogRow \/ RoundEnd \/ WakeByTimeout \/ Exit
  BY <1>1, <1>11 DEF LogRow, RoundEnd, WakeByTimeout, Exit, shared
<1> QED
  BY <1>2, <1>3, <1>4, <1>5, <1>6, <1>7, <1>8, <1>9, <1>10, <1>11 DEF Next, Worker, Gone

LEMMA InitAnswers == Init => Answers
BY WorkloadAssumption DEF Init, Answers, OneResult, AnsweredOf, OutQ, InQ, NoState

-----------------------------------------------------------------------------
(* What the engine's caller can tell *)

\* A job's failed transfer among the completions on their way to the worker.
FailedAbove(j) == \E c \in cq \cup comps : c.job = j /\ ~c.ok

LEMMA Failing ==
  /\ \A j : HasFailed(j) = (table[j].failed \/ FailedAbove(j) \/ FailedResult(j))
  /\ \A j : HasFailed(j)' = (table'[j].failed \/ FailedAbove(j)' \/ FailedResult(j)')
BY DEF HasFailed, FailedAbove, FailedResult

\* A job looks the same after the step.
LEMMA SameView ==
  ASSUME NEW j \in JobIds, Stage(j)' = Stage(j),
         Stage(j) # "none" => desc'[j] = desc[j] /\ HasFailed(j)' = HasFailed(j),
         Stage(j) = "running" => Unmoved(j)' = Unmoved(j)
  PROVE  JobView'[j] = JobView[j]
BY DEF JobView

\* Every job looks the same.
LEMMA SameViews ==
  ASSUME \A j \in JobIds : JobView'[j] = JobView[j]
  PROVE  JobView' = JobView
BY DEF JobView

\* JobView is a function on the jobs, before and after.
LEMMA ViewFunction ==
  /\ JobView = [j \in JobIds |-> JobView[j]]
  /\ JobView' = [j \in JobIds |-> JobView'[j]]
BY DEF JobView

\* A step that changes one job's view.
LEMMA OneView ==
  ASSUME NEW j \in JobIds, NEW r, JobView'[j] = r,
         \A i \in JobIds : i # j => JobView'[i] = JobView[i]
  PROVE  JobView' = [JobView EXCEPT ![j] = r]
<1> DEFINE v == JobView
           vp == JobView'
<1>1. v = [i \in JobIds |-> v[i]] /\ vp = [i \in JobIds |-> vp[i]]
  BY ViewFunction
<1>2. vp[j] = r /\ \A i \in JobIds : i # j => vp[i] = v[i]
  OBVIOUS
<1> HIDE DEF v, vp
<1>3. vp = [v EXCEPT ![j] = r]
  BY <1>1, <1>2
<1> QED
  BY <1>3 DEF v, vp

\* Where finish_job has got to with a job, as its caller can tell.
Pushing(j) == pcW = "push" /\ fin = j
Retiring(j) == pcW = "retire" /\ fin = j

LEMMA Staging ==
  /\ \A j : Stage(j) = IF OutQ(j) THEN "done" ELSE IF Retiring(j) THEN "none"
                       ELSE IF Pushing(j) THEN "logged"
                       ELSE IF InQ(j) \/ table[j].live THEN "running" ELSE "none"
  /\ \A j : Stage(j)' = IF OutQ(j)' THEN "done" ELSE IF Retiring(j)' THEN "none"
                       ELSE IF Pushing(j)' THEN "logged"
                       ELSE IF InQ(j)' \/ table'[j].live THEN "running" ELSE "none"
BY DEF Stage, Retiring, Pushing

\* What a job's view depends on.
LEMMA UntouchedJob ==
  ASSUME NEW j \in JobIds, table'[j] = table[j], desc'[j] = desc[j],
         InQ(j)' <=> InQ(j), OutQ(j)' <=> OutQ(j), FailedResult(j)' <=> FailedResult(j),
         Retiring(j)' <=> Retiring(j), Pushing(j)' <=> Pushing(j),
         FailedAbove(j)' <=> FailedAbove(j),
         \A n : <<j, n>> \in flying' <=> <<j, n>> \in flying
  PROVE  JobView'[j] = JobView[j]
<1>1. Stage(j)' = Stage(j)
  BY Staging
<1>2. HasFailed(j)' = HasFailed(j)
  BY Failing
<1>3. Unmoved(j)' = Unmoved(j)
  <2>1. NXfers(j)' = NXfers(j)
    BY DEF NXfers
  <2>2. {i \in 1..NXfers(j) : i > table[j].next \/ <<j, i>> \in flying}'
        = {i \in 1..NXfers(j) : i > table[j].next \/ <<j, i>> \in flying}
    BY <2>1
  <2> QED
    BY <2>2 DEF Unmoved
<1> QED
  BY <1>1, <1>2, <1>3, SameView

\* A step that no job can be told from.
LEMMA UnseenStep ==
  ASSUME UNCHANGED <<inQ, outQ, fin, desc, table, flying>>, cq' \cup comps' = cq \cup comps,
         pcW' = "retire" <=> pcW = "retire", pcW' = "push" <=> pcW = "push"
  PROVE  JobView' = JobView
<1>1. ASSUME NEW j \in JobIds PROVE JobView'[j] = JobView[j]
  <2>1. /\ InQ(j)' <=> InQ(j)
        /\ OutQ(j)' <=> OutQ(j)
        /\ FailedResult(j)' <=> FailedResult(j)
        /\ FailedAbove(j)' <=> FailedAbove(j)
    BY DEF InQ, OutQ, FailedResult, FailedAbove
  <2>2. (Retiring(j)' <=> Retiring(j)) /\ (Pushing(j)' <=> Pushing(j))
    BY DEF Retiring, Pushing
  <2> QED
    BY <2>1, <2>2, UntouchedJob
<1> QED
  BY <1>1, SameViews

\* A job of which something is in the air runs.
LEMMA AirborneRuns ==
  ASSUME EngineInv, Answers, NEW j \in JobIds, NEW e \in InTheAir(j)
  PROVE  /\ Stage(j) = "running" /\ ~OutQ(j) /\ fin # j /\ table[j].live /\ desc[j] # None
         /\ e[2] \in 1..NXfers(j) /\ e[2] <= table[j].next
<1>0. TypeOK /\ Phases /\ Places /\ Believed
  BY DEF EngineInv
<1>1. /\ table[j].live /\ table[j].inflight >= 1 /\ desc[j] # None
      /\ e[2] \in 1..NXfers(j) /\ e[2] <= table[j].next
  BY <1>0, AirKnown DEF Believed, BelievedOf
<1>2. fin # j
  <2> SUFFICES ASSUME fin = j PROVE FALSE
    OBVIOUS
  <2>1. AllSettled(j, table[j])
    BY <1>0, <1>1, WorkloadAssumption DEF Phases
  <2>2. table[j].inflight = 0
    BY <2>1 DEF AllSettled
  <2> QED
    BY <1>1, <2>2
<1>3. ~OutQ(j)
  BY <1>1, <1>2 DEF Answers, AnsweredOf
<1> QED
  BY <1>1, <1>2, <1>3, Staging DEF Retiring, Pushing

\* Taking a job from in_q_ shows nothing.
LEMMA TakeUnseen ==
  ASSUME EngineInv, Answers, TakeJob
  PROVE  JobView' = JobView
<1>0. TypeOK /\ Phases /\ Places
  BY DEF EngineInv
<1>1. PICK j \in JobIds : j = Head(inQ) /\ InQ(j) /\ \A i \in JobIds : InQ(i)' <=> InQ(i) /\ i # j
  BY <1>0, HeadTaken DEF TakeJob
<1>2. /\ UNCHANGED <<outQ, desc, flying, cq, comps>> /\ pcW = "take" /\ pcW' \in {"take", "row"}
      /\ table' = [table EXCEPT ![j] = [NoState EXCEPT !.live = TRUE]]
  BY <1>1 DEF TakeJob, Emplaced, ring
<1>3. /\ table'[j].live /\ ~table'[j].failed /\ table'[j].next = 0
      /\ \A i \in JobIds \ {j} : table'[i] = table[i]
  <2> DEFINE s == [NoState EXCEPT !.live = TRUE]
  <2>1. s.live /\ ~s.failed /\ s.next = 0
    BY DEF NoState
  <2>2. table' = [table EXCEPT ![j] = s]
    BY <1>2
  <2> HIDE DEF s
  <2> QED
    BY <1>0, <1>1, <2>1, <2>2 DEF TypeOK
<1>4. /\ ~table[j].live /\ fin # j /\ table[j].next = 0 /\ ~table[j].failed
  BY <1>0, <1>1 DEF Places, PlaceOf, Answers, AnsweredOf
<1>5. ASSUME NEW i \in JobIds
      PROVE  /\ OutQ(i)' <=> OutQ(i)
             /\ FailedResult(i)' <=> FailedResult(i)
             /\ FailedAbove(i)' <=> FailedAbove(i)
             /\ ~Retiring(i) /\ ~Retiring(i)' /\ ~Pushing(i) /\ ~Pushing(i)'
  BY <1>2 DEF OutQ, FailedResult, FailedAbove, Retiring, Pushing
<1>6. ASSUME NEW i \in JobIds, i # j PROVE JobView'[i] = JobView[i]
  BY <1>1, <1>2, <1>3, <1>5, <1>6, UntouchedJob
<1>7. JobView'[j] = JobView[j]
  <2>1. Stage(j)' = Stage(j)
    BY <1>1, <1>3, <1>5, Staging
  <2>2. HasFailed(j)' = HasFailed(j)
    BY <1>1, <1>3, <1>4, <1>5, Failing
  <2>3. Unmoved(j)' = Unmoved(j)
    BY <1>2, <1>3, <1>4 DEF Unmoved, NXfers
  <2> QED
    BY <1>1, <1>2, <2>1, <2>2, <2>3, SameView
<1> QED
  BY <1>6, <1>7, SameViews

\* Nor does giving transfers to the kernel.
LEMMA IssueUnseen ==
  ASSUME EngineInv, Answers, Issue, ~ShortSubmits
  PROVE  JobView' = JobView
<1>1. PICK reqs : flying' = flying \cup ToSet(reqs) /\ \A j \in JobIds : GivesOf(reqs, j)
  BY Gives
<1>2. /\ UNCHANGED <<inQ, outQ, desc, fin, cq, comps>> /\ pcW = "issue" /\ pcW' = "reap"
  BY DEF Issue, shared
<1>3. ASSUME NEW j \in JobIds PROVE JobView'[j] = JobView[j]
  <2>1. /\ InQ(j)' <=> InQ(j)
        /\ OutQ(j)' <=> OutQ(j)
        /\ FailedResult(j)' <=> FailedResult(j)
        /\ FailedAbove(j)' <=> FailedAbove(j)
        /\ ~Retiring(j) /\ ~Retiring(j)' /\ ~Pushing(j) /\ ~Pushing(j)'
    BY <1>2 DEF InQ, OutQ, FailedResult, FailedAbove, Retiring, Pushing
  <2>2. table'[j].live = table[j].live /\ table'[j].failed = table[j].failed
    BY <1>1 DEF GivesOf
  <2>3. Stage(j)' = Stage(j) /\ HasFailed(j)' = HasFailed(j)
    BY <2>1, <2>2, Staging, Failing
  <2>4. \A i \in Nat : (i > table'[j].next \/ <<j, i>> \in flying') <=> (i > table[j].next \/ <<j, i>> \in flying)
    <3> DEFINE x == table[j].next
               n == CountOf(reqs, j)
    <3>1. /\ x \in Nat /\ n \in Nat /\ table'[j].next = x + n
          /\ \A e \in GivenOf(reqs, j) : x < e[2] /\ e[2] <= x + n
          /\ \A i \in x + 1..x + n : <<j, i>> \in GivenOf(reqs, j)
      BY <1>1 DEF GivesOf
    <3> HIDE DEF x, n
    <3>2. \A i : <<j, i>> \in GivenOf(reqs, j) => x < i /\ i <= x + n
      BY <3>1
    <3>3. \A i : <<j, i>> \in ToSet(reqs) <=> <<j, i>> \in GivenOf(reqs, j)
      BY DEF GivenOf
    <3>4. \A i \in Nat : i > x => i > x + n \/ i \in x + 1..x + n
      BY <3>1
    <3>5. \A i \in Nat : i > x + n \/ (x < i /\ i <= x + n) => i > x
      BY <3>1
    <3>6. ASSUME NEW i \in Nat PROVE (i > x + n \/ <<j, i>> \in flying') <=> (i > x \/ <<j, i>> \in flying)
      BY <1>1, <3>1, <3>2, <3>3, <3>4, <3>5
    <3> QED
      BY <3>1, <3>6 DEF x
  <2>5. Unmoved(j)' = Unmoved(j)
    <3>1. {i \in 1..NXfers(j) : i > table'[j].next \/ <<j, i>> \in flying'}
          = {i \in 1..NXfers(j) : i > table[j].next \/ <<j, i>> \in flying}
      BY <2>4
    <3> QED
      BY <1>2, <3>1 DEF Unmoved, NXfers
  <2> QED
    BY <1>2, <2>3, <2>5, SameView
<1> QED
  BY <1>3, SameViews

\* Nor does handling a completion.
LEMMA HandleUnseen ==
  ASSUME EngineInv, Answers, NEW c \in comps, HandleCompletion(c)
  PROVE  JobView' = JobView
<1>0. TypeOK /\ Phases /\ Airborne
  BY DEF EngineInv
<1> DEFINE j == c.job
<1>1. j \in JobIds /\ table[j].live /\ ~OutQ(j)
  BY <1>0, InTheAirIs, AirborneRuns
<1>2. /\ UNCHANGED <<inQ, outQ, desc, flying, cq>> /\ comps' = comps \ {c}
      /\ pcW = "handle" /\ pcW' \in {"handle", "row"}
      /\ table' = [table EXCEPT ![j] = Counted(c)]
  BY DEF HandleCompletion, shared, ring
<1>3. /\ table'[j].live /\ table'[j].next = table[j].next
      /\ (table'[j].failed <=> table[j].failed \/ ~c.ok)
      /\ \A i \in JobIds \ {j} : table'[i] = table[i]
  <2>1. table[j] \in JobState
    BY <1>0, <1>1 DEF TypeOK
  <2>2. /\ Counted(c).live = table[j].live /\ Counted(c).next = table[j].next
        /\ (Counted(c).failed <=> table[j].failed \/ ~c.ok)
    BY <2>1 DEF Counted, JobState
  <2> HIDE DEF j
  <2> QED
    BY <1>0, <1>1, <1>2, <2>2 DEF TypeOK
<1>4. ASSUME NEW i \in JobIds
      PROVE  /\ OutQ(i)' <=> OutQ(i)
             /\ InQ(i)' <=> InQ(i)
             /\ FailedResult(i)' <=> FailedResult(i)
             /\ ~Retiring(i) /\ ~Retiring(i)' /\ ~Pushing(i) /\ ~Pushing(i)'
  BY <1>2 DEF OutQ, InQ, FailedResult, Retiring, Pushing
<1>5. c \notin cq
  BY <1>0 DEF Airborne
<1>6. ASSUME NEW i \in JobIds, i # j PROVE JobView'[i] = JobView[i]
  <2>1. FailedAbove(i)' <=> FailedAbove(i)
    BY <1>2, <1>6 DEF FailedAbove
  <2> QED
    BY <1>2, <1>3, <1>4, <1>6, <2>1, UntouchedJob
<1>7. JobView'[j] = JobView[j]
  <2>1. Stage(j)' = Stage(j)
    BY <1>1, <1>3, <1>4, Staging
  <2>2. FailedAbove(j) <=> FailedAbove(j)' \/ ~c.ok
    BY <1>2, <1>5 DEF FailedAbove
  <2>3. HasFailed(j)' = HasFailed(j)
    BY <1>1, <1>3, <1>4, <2>2, Failing
  <2>4. Unmoved(j)' = Unmoved(j)
    BY <1>2, <1>3 DEF Unmoved, NXfers
  <2> QED
    BY <1>1, <1>2, <2>1, <2>3, <2>4, SameView
<1> QED
  BY <1>6, <1>7, SameViews

\* Nor does taking a finished job from the table.
LEMMA RetireUnseen ==
  ASSUME EngineInv, Answers, Retire
  PROVE  JobView' = JobView
<1>0. TypeOK /\ Phases /\ Places
  BY DEF EngineInv
<1>1. /\ UNCHANGED <<inQ, outQ, desc, flying, cq, comps>> /\ pcW = "retire" /\ pcW' = back
      /\ fin \in JobIds /\ fin' = None /\ table' = [table EXCEPT ![fin] = NoState]
      /\ back \in {"take", "handle", "leftover"} /\ None \notin JobIds
  BY <1>0, WorkloadAssumption DEF Retire, TypeOK, Phases, Finishing, ring
<1>2. ASSUME NEW i \in JobIds
      PROVE  /\ OutQ(i)' <=> OutQ(i)
             /\ InQ(i)' <=> InQ(i)
             /\ FailedResult(i)' <=> FailedResult(i)
             /\ FailedAbove(i)' <=> FailedAbove(i)
             /\ ~Retiring(i)' /\ ~Pushing(i) /\ ~Pushing(i)' /\ (Retiring(i) <=> i = fin)
  BY <1>1 DEF OutQ, InQ, FailedResult, FailedAbove, Retiring, Pushing
<1>3. PICK j \in JobIds : j = fin
  BY <1>1
<1>4. ASSUME NEW i \in JobIds, i # j PROVE JobView'[i] = JobView[i]
  <2>1. table'[i] = table[i]
    BY <1>0, <1>1, <1>3, <1>4 DEF TypeOK
  <2>2. Retiring(i)' <=> Retiring(i)
    BY <1>2, <1>3, <1>4
  <2> QED
    BY <1>1, <1>2, <2>1, <2>2, UntouchedJob
<1>5. JobView'[j] = JobView[j]
  <2>1. ~table'[j].live /\ ~table'[j].failed
    BY <1>0, <1>1, <1>3 DEF TypeOK, NoState
  <2>2. ~InQ(j)
    BY <1>0, <1>3 DEF Places, PlaceOf
  <2>3. Stage(j)' = Stage(j) /\ Stage(j) # "running" /\ (Stage(j) # "none" => OutQ(j))
    BY <1>2, <1>3, <2>1, <2>2, Staging
  <2>4. OutQ(j) => (FailedResult(j) <=> table[j].failed)
    BY <1>1, <1>3 DEF Answers
  <2>5. Stage(j) # "none" => HasFailed(j)' = HasFailed(j)
    BY <1>2, <2>1, <2>3, <2>4, Failing
  <2> QED
    BY <1>1, <2>3, <2>5, SameView
<1> QED
  BY <1>4, <1>5, SameViews

-----------------------------------------------------------------------------
(* What the engine's caller does see *)

\* submit is an Accept of BlockEngine.
LEMMA SubmitRefines ==
  ASSUME EngineInv, Answers, NEW j \in JobIds, NEW d \in Workload, Submit(j, d)
  PROVE  Engine!AcceptAny(j)
<1>0. TypeOK /\ Phases /\ Places /\ Believed
  BY DEF EngineInv
<1>1. /\ desc[j] = None /\ desc'[j] = d /\ \A i \in JobIds \ {j} : desc'[i] = desc[i]
      /\ UNCHANGED <<outQ, local, flying, cq, rows, disk, misread>> /\ inQ' = Append(inQ, j)
      /\ d.op \in {"store", "load"} /\ d.xfers \in Seq(Keys \X Slots)
  BY <1>0, WorkloadAssumption DEF Submit, TypeOK, ring
<1>2. \A i \in JobIds : InQ(i)' <=> InQ(i) \/ i = j
  <2>1. inQ \in Seq(JobIds)
    BY <1>0 DEF TypeOK
  <2>2. ToSet(inQ') = ToSet(inQ) \cup {j}
    BY <1>1, <2>1, BackPushed
  <2> QED
    BY <2>2, InQIsIn
<1>3. ASSUME NEW i \in JobIds
      PROVE  /\ OutQ(i)' <=> OutQ(i)
             /\ FailedResult(i)' <=> FailedResult(i)
             /\ FailedAbove(i)' <=> FailedAbove(i)
             /\ Retiring(i)' <=> Retiring(i)
             /\ Pushing(i)' <=> Pushing(i)
  BY <1>1 DEF OutQ, FailedResult, FailedAbove, Retiring, Pushing, local
<1>4. ASSUME NEW i \in JobIds, i # j PROVE JobView'[i] = JobView[i]
  BY <1>1, <1>2, <1>3, <1>4, UntouchedJob DEF local
<1>5. /\ ~OutQ(j) /\ fin # j /\ ~table[j].live /\ ~table[j].failed /\ ~InQ(j)
  BY <1>0, <1>1 DEF Answers, AnsweredOf, Places, PlaceOf, Unfinished
<1>6. ~FailedAbove(j) /\ ~FailedResult(j) /\ ~Retiring(j) /\ ~Pushing(j)
  <2>1. ASSUME NEW c \in cq \cup comps, c.job = j PROVE FALSE
    <3>1. <<c.job, c.n>> \in InTheAir(j)
      BY <1>0, <2>1, InTheAirIs
    <3> QED
      BY <1>0, <1>5, <3>1, AirKnown
  <2> QED
    BY <1>5, <2>1 DEF FailedAbove, FailedResult, OutQ, Retiring, Pushing
<1>7. JobView[j] = Engine!NoJob
  <2>1. Stage(j) = "none"
    BY <1>5, <1>6, Staging
  <2> QED
    BY <2>1 DEF JobView, Engine!NoJob
<1>8. Stage(j)' = "running" /\ HasFailed(j)' = FALSE
  <2>1. table'[j] = table[j]
    BY <1>1 DEF local
  <2> QED
    BY <1>2, <1>3, <1>5, <1>6, <2>1, Staging, Failing
<1>9. Unmoved(j)' \in SUBSET (Keys \X Slots)
  <2>1. \A n \in 1..Len(d.xfers) : d.xfers[n] \in Keys \X Slots
    BY <1>1, ElementOfSeq
  <2> QED
    BY <1>1, <2>1 DEF Unmoved, NXfers
<1> DEFINE new == [stage |-> "running", op |-> d.op, left |-> Unmoved(j)', failed |-> FALSE]
<1>10. JobView'[j] = new
  BY <1>1, <1>8 DEF JobView
<1>11. /\ new.op = d.op /\ new.left = Unmoved(j)'
       /\ new = [stage |-> "running", op |-> new.op, left |-> new.left, failed |-> FALSE]
  OBVIOUS
<1>12. JobView' = [JobView EXCEPT ![j] = new]
  BY <1>4, <1>10, OneView
<1> HIDE DEF new
<1>13. Engine!Accept(j, new.op, new.left)
  <2>1. JobView[j].stage = "none"
    BY <1>7 DEF Engine!NoJob
  <2> QED
    BY <1>1, <1>11, <1>12, <2>1 DEF Engine!Accept
<1> QED
  BY <1>1, <1>9, <1>10, <1>11, <1>13 DEF Engine!AcceptAny, Engine!Ops, Engine!Xfers

\* A job being finished has settled all its transfers.
LEMMA SettledJob ==
  ASSUME EngineInv, NEW j \in JobIds, fin = j
  PROVE  /\ InTheAir(j) = {} /\ ~FailedAbove(j) /\ ~InQ(j) /\ desc[j] # None
         /\ table[j].live => Unmoved(j) = {}
<1>0. TypeOK /\ Phases /\ Places /\ Believed
  BY DEF EngineInv
<1>1. /\ ~InQ(j) /\ desc[j] # None
      /\ IF back = "leftover" THEN pcW # "row" /\ ~table[j].live
         ELSE table[j].live /\ AllSettled(j, table[j])
  BY <1>0, WorkloadAssumption DEF Phases, Places, PlaceOf, Unfinished
<1>2. InTheAir(j) = {}
  <2> SUFFICES ASSUME NEW e \in InTheAir(j) PROVE FALSE
    OBVIOUS
  <2>1. table[j].live /\ table[j].inflight >= 1
    BY <1>0, AirKnown
  <2> QED
    BY <1>1, <2>1 DEF AllSettled
<1>3. ~FailedAbove(j)
  BY <1>2 DEF FailedAbove, InTheAir
<1>4. ASSUME table[j].live PROVE Unmoved(j) = {}
  <2>1. table[j].next = NXfers(j) /\ NXfers(j) \in Nat
    BY <1>0, <1>1, <1>4, Known DEF AllSettled
  <2>2. \A i \in 1..NXfers(j) : ~(i > table[j].next)
    BY <2>1
  <2>3. \A i \in 1..NXfers(j) : <<j, i>> \notin flying
    BY <1>2 DEF InTheAir
  <2> QED
    BY <2>2, <2>3 DEF Unmoved
<1> QED
  BY <1>1, <1>2, <1>3, <1>4

\* The row a job leaves is BlockEngine's Log.
LEMMA RowRefines ==
  ASSUME EngineInv, Answers, LogRow
  PROVE  fin \in JobIds /\ Engine!Log(fin)
<1>0. TypeOK /\ Phases
  BY DEF EngineInv
<1>1. /\ UNCHANGED <<inQ, outQ, desc, table, fin, flying, cq, comps, disk, misread>>
      /\ rows' = rows \cup {fin} /\ pcW = "row" /\ pcW' = "push"
  BY DEF LogRow, shared, ring
<1>2. PICK j \in JobIds : j = fin
  BY <1>0, <1>1 DEF TypeOK, Phases, Finishing
<1>3. table[j].live /\ ~OutQ(j)
  <2>1. table[j].live
    BY <1>0, <1>1, <1>2, WorkloadAssumption DEF Phases
  <2> QED
    BY <1>1, <1>2, <2>1 DEF Answers, AnsweredOf
<1>4. Unmoved(j) = {}
  BY <1>2, <1>3, SettledJob
<1>5. ASSUME NEW i \in JobIds
      PROVE  /\ OutQ(i)' <=> OutQ(i)
             /\ InQ(i)' <=> InQ(i)
             /\ FailedResult(i)' <=> FailedResult(i)
             /\ FailedAbove(i)' <=> FailedAbove(i)
             /\ ~Retiring(i) /\ ~Retiring(i)' /\ ~Pushing(i) /\ (Pushing(i)' <=> i = j)
  BY <1>1, <1>2 DEF OutQ, InQ, FailedResult, FailedAbove, Retiring, Pushing
<1>6. ASSUME NEW i \in JobIds, i # j PROVE JobView'[i] = JobView[i]
  BY <1>1, <1>5, <1>6, UntouchedJob
<1>7. Stage(j) = "running" /\ Stage(j)' = "logged" /\ HasFailed(j)' = HasFailed(j)
  BY <1>1, <1>3, <1>5, Staging, Failing
<1> DEFINE old == JobView[j]
           h == HasFailed(j)
<1>8. old = [stage |-> "running", op |-> desc[j].op, left |-> {}, failed |-> h]
  BY <1>4, <1>7 DEF JobView
<1>9. JobView'[j] = [stage |-> "logged", op |-> desc[j].op, left |-> {}, failed |-> h]
  BY <1>1, <1>7 DEF JobView
<1> HIDE DEF old, h
<1>10. JobView'[j] = [old EXCEPT !.stage = "logged"] /\ old.stage = "running" /\ old.left = {}
  BY <1>8, <1>9
<1>11. JobView' = [JobView EXCEPT ![j] = [old EXCEPT !.stage = "logged"]]
  BY <1>6, <1>10, OneView
<1>12. JobView' = [JobView EXCEPT ![j].stage = "logged"]
  BY <1>11 DEF old
<1> QED
  BY <1>1, <1>2, <1>10, <1>12 DEF Engine!Log, old

\* BlockEngine counts as this module does.
LEMMA SameCount == \A S : Engine!Cardinality(S) = Cardinality(S)
  BY DEF Engine!Cardinality, Cardinality

\* The finished jobs are those with a result waiting, as many as results.
LEMMA DoneSize ==
  ASSUME TypeOK, OneResult
  PROVE  /\ Engine!Done = {j \in JobIds : OutQ(j)}
         /\ Cardinality(Engine!Done) = Len(outQ)
<1>1. /\ outQ \in Seq(Result) /\ Len(outQ) \in Nat /\ DOMAIN outQ = 1..Len(outQ)
      /\ \A i \in 1..Len(outQ) : outQ[i] \in Result
  <2>1. outQ \in Seq(Result) /\ Len(outQ) \in Nat
    BY LenProperties DEF TypeOK, Result
  <2> QED
    BY <2>1, LenProperties, ElementOfSeq
<1>2. \A j \in JobIds : JobView[j].stage = Stage(j)
  BY DEF JobView
<1>3. Engine!Done = {j \in JobIds : OutQ(j)}
  BY <1>2, Staging DEF Engine!Done
<1> DEFINE k == Len(outQ)
           D == {j \in JobIds : OutQ(j)}
           g == [i \in 1..k |-> outQ[i].job]
<1>4. g \in [1..k -> D]
  BY <1>1 DEF OutQ, Result
<1>5. \A a, b \in 1..k : g[a] = g[b] => a = b
  BY <1>1 DEF OneResult
<1>6. \A j \in D : \E i \in 1..k : g[i] = j
  BY <1>1 DEF OutQ
<1> HIDE DEF g, k, D
<1>7. ExistsBijection(1..k, D)
  BY <1>4, <1>5, <1>6 DEF ExistsBijection, Bijection, Injection, Surjection, IsInjective
<1>8. Cardinality(D) = k
  BY <1>1, <1>7, FS_CountingElements DEF k
<1> QED
  BY <1>3, <1>8 DEF D, k

\* The result a job leaves is BlockEngine's Publish.
LEMMA PushRefines ==
  ASSUME EngineInv, Answers, PushResult
  PROVE  fin \in JobIds /\ Engine!Publish(fin)
<1>0. TypeOK /\ Phases
  BY DEF EngineInv
<1>1. /\ UNCHANGED <<inQ, desc, table, fin, flying, cq, comps, rows, disk, misread>>
      /\ pcW = "push" /\ pcW' = "retire" /\ Len(outQ) < RingCap
      /\ outQ' = Append(outQ, [job |-> fin, ok |-> ~table[fin].failed])
  BY DEF PushResult, ring
<1>2. PICK j \in JobIds : j = fin
  BY <1>0, <1>1 DEF TypeOK, Phases, Finishing
<1> DEFINE r == [job |-> j, ok |-> ~table[j].failed]
<1>3. r \in Result /\ r.job = j /\ (r.ok <=> ~table[j].failed) /\ ~OutQ(j)
  BY <1>0, <1>1, <1>2 DEF Result, TypeOK, JobState, Answers, AnsweredOf
<1>4. outQ' = Append(outQ, r)
  BY <1>1, <1>2
<1> HIDE DEF r
<1>5. /\ \A i : OutQ(i)' <=> OutQ(i) \/ i = j
      /\ \A i : FailedResult(i)' <=> FailedResult(i) \/ (i = j /\ ~r.ok)
      /\ ~FailedResult(j)
  BY <1>0, <1>3, <1>4, AppendResult DEF Answers
<1>6. ASSUME NEW i \in JobIds
      PROVE  /\ InQ(i)' <=> InQ(i)
             /\ FailedAbove(i)' <=> FailedAbove(i)
             /\ ~Retiring(i) /\ ~Pushing(i)' /\ (Retiring(i)' <=> i = j) /\ (Pushing(i) <=> i = j)
  BY <1>1, <1>2 DEF InQ, FailedAbove, Retiring, Pushing
<1>7. ASSUME NEW i \in JobIds, i # j PROVE JobView'[i] = JobView[i]
  BY <1>1, <1>5, <1>6, <1>7, UntouchedJob
<1>8. Stage(j) = "logged" /\ Stage(j)' = "done"
  BY <1>3, <1>5, <1>6, Staging
<1>9. HasFailed(j)' = HasFailed(j)
  BY <1>1, <1>3, <1>5, <1>6, Failing
<1> DEFINE old == JobView[j]
           h == HasFailed(j)
<1>10. old = [stage |-> "logged", op |-> desc[j].op, left |-> {}, failed |-> h]
  BY <1>8 DEF JobView
<1>11. JobView'[j] = [stage |-> "done", op |-> desc[j].op, left |-> {}, failed |-> h]
  BY <1>1, <1>8, <1>9 DEF JobView
<1> HIDE DEF old, h
<1>12. JobView'[j] = [old EXCEPT !.stage = "done"] /\ old.stage = "logged"
  BY <1>10, <1>11
<1>13. JobView' = [JobView EXCEPT ![j] = [old EXCEPT !.stage = "done"]]
  BY <1>7, <1>12, OneView
<1>14. JobView' = [JobView EXCEPT ![j].stage = "done"]
  BY <1>13 DEF old
<1>15. Engine!Cardinality(Engine!Done) < RingCap
  BY <1>0, <1>1, DoneSize, SameCount DEF Answers
<1> QED
  BY <1>1, <1>2, <1>12, <1>14, <1>15 DEF Engine!Publish, old

\* poll is a Poll of BlockEngine.
LEMMA PollRefines ==
  ASSUME EngineInv, Answers, Poll
  PROVE  \E B \in SUBSET JobIds : Engine!Poll(B) /\ UNCHANGED <<rows, disk, misread>>
<1>0. TypeOK /\ Places
  BY DEF EngineInv
<1>1. /\ PollCount \in 0..Len(outQ) /\ Len(outQ) \in Nat
      /\ PollSet \in SUBSET JobIds /\ Cardinality(PollSet) = PollCount
      /\ \A i \in PollSet : OutQ(i)
      /\ PollCount = Len(outQ) => \A i : OutQ(i) => i \in PollSet
      /\ \A i : OutQ(i)' <=> OutQ(i) /\ i \notin PollSet
      /\ \A i : i \notin PollSet => (FailedResult(i)' <=> FailedResult(i))
  BY <1>0, PollResults DEF Answers
<1>2. UNCHANGED <<inQ, desc, table, fin, pcW, flying, cq, comps, rows, disk, misread>>
  BY DEF Poll, local, ring
<1>3. ASSUME NEW i \in JobIds
      PROVE  /\ InQ(i)' <=> InQ(i)
             /\ FailedAbove(i)' <=> FailedAbove(i)
             /\ Retiring(i)' <=> Retiring(i)
             /\ Pushing(i)' <=> Pushing(i)
  BY <1>2 DEF InQ, FailedAbove, Retiring, Pushing
<1>4. ASSUME NEW i \in JobIds, i \notin PollSet PROVE JobView'[i] = JobView[i]
  BY <1>1, <1>2, <1>3, <1>4, UntouchedJob
<1>5. ASSUME NEW i \in PollSet PROVE JobView'[i] = Engine!NoJob
  <2>1. i \in JobIds /\ OutQ(i) /\ ~OutQ(i)'
    BY <1>1
  <2>2. ~InQ(i) /\ (table[i].live \/ fin = i => Retiring(i))
    BY <2>1 DEF Answers, AnsweredOf, Retiring
  <2>3. Stage(i)' = "none"
    <3>1. Pushing(i) => fin = i /\ pcW # "retire"
      BY DEF Pushing
    <3>2. Retiring(i) => pcW = "retire"
      BY DEF Retiring
    <3> QED
      BY <1>2, <1>3, <2>1, <2>2, <3>1, <3>2, Staging
  <2> QED
    BY <2>1, <2>3 DEF JobView, Engine!NoJob
<1>6. Engine!Done = {j \in JobIds : OutQ(j)}
  BY <1>0, DoneSize DEF Answers
<1>7. Engine!Pollable(PollSet)
  <2>1. PollSet \subseteq Engine!Done
    BY <1>1, <1>6
  <2>2. CASE PollCount = Len(outQ)
    <3>1. PollSet = Engine!Done
      BY <1>1, <1>6, <2>2
    <3>2. PollCount <= PollMax
      BY <1>1, DepthAssumption DEF PollCount, Least
    <3> QED
      BY <1>1, <2>1, <3>1, <3>2, SameCount DEF Engine!Pollable
  <2>3. CASE PollCount # Len(outQ)
    <3>1. PollCount = PollMax
      BY <2>3 DEF PollCount, Least
    <3> QED
      BY <1>1, <2>1, <3>1, SameCount DEF Engine!Pollable
  <2> QED
    BY <2>2, <2>3
<1>8. JobView' = [i \in JobIds |-> IF i \in PollSet THEN Engine!NoJob ELSE JobView[i]]
  <2> DEFINE v == JobView
             vp == JobView'
  <2>1. vp = [i \in JobIds |-> vp[i]]
    BY ViewFunction
  <2>2. \A i \in JobIds : vp[i] = IF i \in PollSet THEN Engine!NoJob ELSE v[i]
    BY <1>4, <1>5
  <2> HIDE DEF v, vp
  <2>3. vp = [i \in JobIds |-> IF i \in PollSet THEN Engine!NoJob ELSE v[i]]
    BY <2>1, <2>2
  <2> QED
    BY <2>3 DEF v, vp
<1> QED
  BY <1>1, <1>2, <1>7, <1>8 DEF Engine!Poll

\* A job lists a transfer once, as in PoolTierEngine_proofs: the contract counts
\* blocks, not entries.
DistinctTransfers ==
  \A d \in Workload : \A m, n \in DOMAIN d.xfers : d.xfers[m] = d.xfers[n] => m = n

\* One job's view after one of its blocks has been moved.
MovedRecord(r, x, bad) == [r EXCEPT !.left = @ \ {x}, !.failed = @ \/ bad]
MoveView(v, j, x, bad) == [v EXCEPT ![j].left = @ \ {x}, ![j].failed = @ \/ bad]
IsView(v) == v = [i \in JobIds |-> v[i]]

\* Two fields of one job updated together.
LEMMA MovedView ==
  ASSUME NEW v, NEW u, IsView(v), IsView(u), NEW j \in JobIds, NEW x, NEW bad,
         u[j] = MovedRecord(v[j], x, bad), \A i \in JobIds : i # j => u[i] = v[i]
  PROVE  u = MoveView(v, j, x, bad)
<1> DEFINE b == [v EXCEPT ![j].left = @ \ {x}]
           c == [b EXCEPT ![j].failed = @ \/ bad]
<1>1. b[j] = [v[j] EXCEPT !.left = @ \ {x}]
  BY DEF IsView
<1>2. b = [i \in JobIds |-> b[i]] /\ \A i \in JobIds : i # j => b[i] = v[i]
  BY DEF IsView
<1> HIDE DEF b
<1>3. c = [i \in JobIds |-> c[i]] /\ \A i \in JobIds : i # j => c[i] = v[i]
  BY <1>2
<1>4. c[j] = [b[j] EXCEPT !.failed = b[j].failed \/ bad]
  BY <1>2
<1>5. c[j] = MovedRecord(v[j], x, bad)
  BY <1>1, <1>4 DEF MovedRecord
<1> HIDE DEF c
<1>6. u = c
  BY <1>3, <1>5 DEF IsView
<1> QED
  BY <1>6 DEF b, c, MoveView

\* The blocks left of the job of a transfer that completes, and its failure.
LEMMA TransferBooks ==
  ASSUME EngineInv, Answers, DistinctTransfers, NEW e \in flying, NEW ok \in BOOLEAN,
         Complete(e, ok), NEW j \in JobIds, j = e[1]
  PROVE  /\ XferOf(e) \in Unmoved(j) /\ XferOf(e) \in Keys \X Slots
         /\ Unmoved(j)' = Unmoved(j) \ {XferOf(e)}
         /\ HasFailed(j)' = (HasFailed(j) \/ ~ok)
<1>0. TypeOK /\ Airborne
  BY DEF EngineInv
<1>1. /\ flying' = flying \ {e} /\ cq' = cq \cup {[job |-> e[1], n |-> e[2], ok |-> ok]}
      /\ UNCHANGED <<desc, table, comps, outQ>>
  BY DEF Complete, shared, local
<1>2. e = <<j, e[2]>> /\ e \in InTheAir(j)
  BY <1>0, InTheAirIs
<1>3. desc[j] # None /\ e[2] \in 1..NXfers(j) /\ e[2] <= table[j].next
  BY <1>2, AirborneRuns
<1>4. PICK n \in 1..NXfers(j) : n = e[2] /\ e = <<j, n>> /\ n <= table[j].next
  BY <1>2, <1>3
<1>5. /\ desc[j] \in Workload /\ NXfers(j) \in Nat /\ desc[j].xfers \in Seq(Keys \X Slots)
  BY <1>0, <1>3, Known
<1>6. DOMAIN desc[j].xfers = 1..NXfers(j)
  BY <1>5, LenProperties DEF NXfers
<1>7. XferOf(e) = desc[j].xfers[n] /\ XferOf(e) \in Keys \X Slots
  BY <1>4, <1>5, ElementOfSeq DEF XferOf, NXfers
<1>8. \A m \in 1..NXfers(j) : desc[j].xfers[m] = desc[j].xfers[n] => m = n
  BY <1>4, <1>5, <1>6 DEF DistinctTransfers
<1>9. table[j].next \in Nat
  BY <1>0, Longest DEF TypeOK, JobState
<1> DEFINE A == {i \in 1..NXfers(j) : i > table[j].next \/ <<j, i>> \in flying}
           B == {i \in 1..NXfers(j) : i > table[j].next \/ <<j, i>> \in flying'}
<1>10. n \in A
  BY <1>4
<1>11. ~(n > table[j].next)
  BY <1>4, <1>5, <1>9
<1>12. B = A \ {n}
  <2>1. ASSUME NEW i \in 1..NXfers(j) PROVE i \in B <=> i \in A /\ i # n
    BY <1>1, <1>4, <1>11
  <2> QED
    BY <2>1
<1>13. Unmoved(j) = {desc[j].xfers[i] : i \in A} /\ A \subseteq 1..NXfers(j)
  BY DEF Unmoved
<1>14. Unmoved(j)' = {desc[j].xfers[i] : i \in B}
  BY <1>1 DEF Unmoved, NXfers
<1> HIDE DEF A, B
<1>15. XferOf(e) \in Unmoved(j)
  BY <1>7, <1>10, <1>13
<1>16. Unmoved(j)' = Unmoved(j) \ {XferOf(e)}
  BY <1>7, <1>8, <1>12, <1>13, <1>14
<1>17. FailedAbove(j)' <=> FailedAbove(j) \/ ~ok
  <2> DEFINE c == [job |-> e[1], n |-> e[2], ok |-> ok]
  <2>1. c.job = j /\ c.ok = ok
    OBVIOUS
  <2>2. cq' \cup comps' = (cq \cup comps) \cup {c}
    BY <1>1
  <2> HIDE DEF c
  <2> QED
    BY <2>1, <2>2 DEF FailedAbove
<1>18. FailedResult(j)' <=> FailedResult(j)
  BY <1>1 DEF FailedResult
<1>19. HasFailed(j)' = (HasFailed(j) \/ ~ok)
  BY <1>1, <1>17, <1>18, Failing
<1> QED
  BY <1>7, <1>15, <1>16, <1>19

\* A transfer that completes moves its block, as the caller sees it.
LEMMA TransferMoves ==
  ASSUME EngineInv, Answers, DistinctTransfers, NEW e \in flying, NEW ok \in BOOLEAN,
         Complete(e, ok), NEW j \in JobIds, j = e[1]
  PROVE  /\ JobView[j].stage = "running" /\ JobView[j].op = desc[j].op
         /\ desc[j].op \in {"store", "load"} /\ XferOf(e) \in JobView[j].left
         /\ Engine!Moved(j, XferOf(e), ~ok)
<1>0. TypeOK
  BY DEF EngineInv
<1>1. /\ flying' = flying \ {e} /\ cq' = cq \cup {[job |-> e[1], n |-> e[2], ok |-> ok]}
      /\ UNCHANGED <<inQ, outQ, desc, table, fin, comps, pcW>>
  BY DEF Complete, shared, local
<1>2. e = <<j, e[2]>> /\ e \in InTheAir(j)
  BY <1>0, InTheAirIs
<1>3. Stage(j) = "running" /\ desc[j] # None
  BY <1>2, AirborneRuns
<1>4. desc[j].op \in {"store", "load"}
  BY <1>0, <1>3, Known
<1>5. ASSUME NEW i \in JobIds
      PROVE  /\ InQ(i)' <=> InQ(i)
             /\ OutQ(i)' <=> OutQ(i)
             /\ FailedResult(i)' <=> FailedResult(i)
             /\ Retiring(i)' <=> Retiring(i)
             /\ Pushing(i)' <=> Pushing(i)
  BY <1>1 DEF InQ, OutQ, FailedResult, Retiring, Pushing
<1>6. ASSUME NEW i \in JobIds, i # j PROVE JobView'[i] = JobView[i]
  <2>1. FailedAbove(i)' <=> FailedAbove(i)
    BY <1>1, <1>6 DEF FailedAbove
  <2>2. \A n : <<i, n>> \in flying' <=> <<i, n>> \in flying
    BY <1>1, <1>2, <1>6
  <2> QED
    BY <1>1, <1>5, <2>1, <2>2, UntouchedJob
<1>7. Stage(j)' = "running"
  BY <1>1, <1>3, <1>5, Staging
<1> DEFINE l == Unmoved(j)
           h == HasFailed(j)
           o == desc[j].op
           bad == ~ok
           x == XferOf(e)
<1>8. x \in l /\ Unmoved(j)' = l \ {x} /\ HasFailed(j)' = (h \/ bad)
  BY TransferBooks
<1>9. JobView[j] = [stage |-> "running", op |-> o, left |-> l, failed |-> h]
  BY <1>3 DEF JobView
<1>10. JobView'[j] = [stage |-> "running", op |-> o, left |-> l \ {x}, failed |-> h \/ bad]
  BY <1>1, <1>7, <1>8 DEF JobView
<1>11. h \in BOOLEAN /\ bad \in BOOLEAN /\ o = desc[j].op /\ x = XferOf(e) /\ bad = ~ok
  BY Failing
<1> HIDE DEF l, h, o, bad, x
<1>12. JobView'[j] = MovedRecord(JobView[j], x, bad)
  <2>1. MovedRecord([stage |-> "running", op |-> o, left |-> l, failed |-> h], x, bad)
        = [stage |-> "running", op |-> o, left |-> l \ {x}, failed |-> h \/ bad]
    <3> DEFINE r == [stage |-> "running", op |-> o, left |-> l, failed |-> h]
               a == [r EXCEPT !.left = @ \ {x}]
    <3>1. a = [stage |-> "running", op |-> o, left |-> l \ {x}, failed |-> h]
      OBVIOUS
    <3> HIDE DEF a
    <3>2. [a EXCEPT !.failed = @ \/ bad]
          = [stage |-> "running", op |-> o, left |-> l \ {x}, failed |-> h \/ bad]
      BY <1>11, <3>1
    <3> QED
      BY <3>2 DEF a, MovedRecord
  <2> QED
    BY <1>9, <1>10, <2>1
<1>13. Engine!Moved(j, x, bad)
  <2>1. IsView(JobView) /\ IsView(JobView')
    BY ViewFunction DEF IsView
  <2>2. JobView' = MoveView(JobView, j, x, bad)
    BY <1>6, <1>12, <2>1, MovedView
  <2> QED
    BY <2>2 DEF MoveView, Engine!Moved
<1>14. JobView[j].stage = "running" /\ JobView[j].op = desc[j].op /\ x \in JobView[j].left
  BY <1>8, <1>9, <1>11
<1> QED
  BY <1>4, <1>11, <1>13, <1>14

\* The kernel's steps are WriteBlock, ReadBlock or FailBlock of BlockEngine.
LEMMA TransferRefines ==
  ASSUME EngineInv, Answers, DistinctTransfers, NEW e \in flying, TransferBlock(e) \/ FailTransfer(e)
  PROVE  \E j \in JobIds : Engine!EngineStep(j)
<1>1. PICK j \in JobIds : j = e[1]
  BY InTheAirIs DEF EngineInv
<1>2. PICK x : x = XferOf(e)
  OBVIOUS
<1>3. CASE TransferBlock(e)
  <2>1. Complete(e, TRUE)
    BY <1>3 DEF TransferBlock
  <2>2. /\ JobView[j].stage = "running" /\ JobView[j].op = desc[j].op
        /\ x \in JobView[j].left /\ Engine!Moved(j, x, ~TRUE)
    BY <1>1, <1>2, <2>1, TransferMoves
  <2>3. Engine!Moved(j, x, FALSE)
    <3>1. (~TRUE) = FALSE
      OBVIOUS
    <3> QED
      BY <2>2, <3>1
  <2>4. UNCHANGED rows
    BY <2>1 DEF Complete
  <2>5. CASE desc[j].op = "store" /\ disk' = [disk EXCEPT ![x[2]] = x[1]] /\ UNCHANGED misread
    <3>1. Engine!WriteBlock(j, x)
      BY <2>2, <2>3, <2>4, <2>5 DEF Engine!WriteBlock
    <3> QED
      BY <2>2, <3>1 DEF Engine!EngineStep
  <2>6. CASE /\ desc[j].op = "load" /\ UNCHANGED disk
             /\ misread' = IF disk[x[2]] = x[1] THEN misread ELSE misread \cup {x[1]}
    <3>1. Engine!ReadBlock(j, x)
      BY <2>2, <2>3, <2>4, <2>6 DEF Engine!ReadBlock
    <3> QED
      BY <2>2, <3>1 DEF Engine!EngineStep
  <2> QED
    BY <1>1, <1>2, <1>3, <2>5, <2>6 DEF TransferBlock
<1>4. CASE FailTransfer(e)
  <2>1. Complete(e, FALSE)
    BY <1>4 DEF FailTransfer
  <2>2. /\ JobView[j].stage = "running" /\ JobView[j].op = desc[j].op
        /\ x \in JobView[j].left /\ Engine!Moved(j, x, ~FALSE)
    BY <1>1, <1>2, <2>1, TransferMoves
  <2>3. Engine!Moved(j, x, TRUE)
    <3>1. (~FALSE) = TRUE
      OBVIOUS
    <3> QED
      BY <2>2, <3>1
  <2>4. /\ UNCHANGED <<rows, misread>>
        /\ \/ disk' = disk
           \/ /\ JobView[j].op = "store"
              /\ \E c \in {x[1], Blank} : disk' = [disk EXCEPT ![x[2]] = c]
    BY <1>1, <1>2, <1>4, <2>1, <2>2 DEF FailTransfer, Complete
  <2>5. Engine!FailBlock(j, x)
    BY <2>2, <2>3, <2>4 DEF Engine!FailBlock
  <2> QED
    BY <2>2, <2>5 DEF Engine!EngineStep
<1> QED
  BY <1>3, <1>4

\* A job given up: its view, field by field.
GivenUpView(v, j) == [v EXCEPT ![j].stage = "logged", ![j].left = {}, ![j].failed = TRUE]

LEMMA ViewGivenUp ==
  ASSUME NEW v, NEW u, IsView(v), IsView(u), NEW j \in JobIds, NEW o, NEW l, NEW h \in BOOLEAN,
         v[j] = [stage |-> "running", op |-> o, left |-> l, failed |-> h],
         u[j] = [stage |-> "logged", op |-> o, left |-> {}, failed |-> TRUE],
         \A i \in JobIds : i # j => u[i] = v[i]
  PROVE  u = GivenUpView(v, j)
<1> DEFINE a == [v EXCEPT ![j].stage = "logged"]
           b == [a EXCEPT ![j].left = {}]
           c == [b EXCEPT ![j].failed = TRUE]
<1>1. IsView(a) /\ a[j] = [stage |-> "logged", op |-> o, left |-> l, failed |-> h]
      /\ \A i \in JobIds : i # j => a[i] = v[i]
  <2> DEFINE r == [stage |-> "running", op |-> o, left |-> l, failed |-> h]
  <2>1. a[j] = [r EXCEPT !.stage = "logged"]
    BY DEF IsView
  <2>2. [r EXCEPT !.stage = "logged"] = [stage |-> "logged", op |-> o, left |-> l, failed |-> h]
    OBVIOUS
  <2>3. IsView(a) /\ \A i \in JobIds : i # j => a[i] = v[i]
    BY DEF IsView
  <2> QED
    BY <2>1, <2>2, <2>3
<1> HIDE DEF a
<1>2. IsView(b) /\ b[j] = [stage |-> "logged", op |-> o, left |-> {}, failed |-> h]
      /\ \A i \in JobIds : i # j => b[i] = v[i]
  <2> DEFINE r == [stage |-> "logged", op |-> o, left |-> l, failed |-> h]
  <2>1. b[j] = [r EXCEPT !.left = {}]
    BY <1>1 DEF IsView
  <2>2. [r EXCEPT !.left = {}] = [stage |-> "logged", op |-> o, left |-> {}, failed |-> h]
    OBVIOUS
  <2>3. IsView(b) /\ \A i \in JobIds : i # j => b[i] = v[i]
    BY <1>1 DEF IsView
  <2> QED
    BY <2>1, <2>2, <2>3
<1> HIDE DEF b
<1>3. IsView(c) /\ c[j] = [stage |-> "logged", op |-> o, left |-> {}, failed |-> TRUE]
      /\ \A i \in JobIds : i # j => c[i] = v[i]
  <2> DEFINE r == [stage |-> "logged", op |-> o, left |-> {}, failed |-> h]
  <2>1. c[j] = [r EXCEPT !.failed = TRUE]
    BY <1>2 DEF IsView
  <2>2. [r EXCEPT !.failed = TRUE] = [stage |-> "logged", op |-> o, left |-> {}, failed |-> TRUE]
    <3>1. \A f : [r EXCEPT !.failed = f] = [stage |-> "logged", op |-> o, left |-> {}, failed |-> f]
      OBVIOUS
    <3> HIDE DEF r
    <3> QED
      BY <3>1, Zenon
  <2>3. IsView(c) /\ \A i \in JobIds : i # j => c[i] = v[i]
    BY <1>2 DEF IsView
  <2> QED
    BY <2>1, <2>2, <2>3
<1> HIDE DEF c
<1>4. u = c
  BY <1>3 DEF IsView
<1> QED
  BY <1>4 DEF a, b, c, GivenUpView

\* A job left in in_q_ at the end is BlockEngine's GiveUp.
LEMMA GiveUpRefines ==
  ASSUME EngineInv, Answers, FailLeftover
  PROVE  \E j \in JobIds : Engine!GiveUp(j)
<1>0. TypeOK /\ Phases /\ Places
  BY DEF EngineInv
<1>1. PICK j \in JobIds : j = Head(inQ) /\ InQ(j) /\ \A i \in JobIds : InQ(i)' <=> InQ(i) /\ i # j
  BY <1>0, HeadTaken DEF FailLeftover
<1>2. /\ UNCHANGED <<outQ, desc, flying, cq, comps, disk, misread>>
      /\ pcW = "leftover" /\ pcW' = "push" /\ fin' = j /\ rows' = rows \cup {j}
      /\ table' = [table EXCEPT ![j].failed = TRUE]
  BY <1>1 DEF FailLeftover, ring
<1>3. table'[j].failed /\ \A i \in JobIds \ {j} : table'[i] = table[i]
  BY <1>0, <1>1, <1>2 DEF TypeOK, JobState
<1>4. ~OutQ(j)
  BY <1>1 DEF Answers, AnsweredOf
<1>5. ASSUME NEW i \in JobIds
      PROVE  /\ OutQ(i)' <=> OutQ(i)
             /\ FailedResult(i)' <=> FailedResult(i)
             /\ FailedAbove(i)' <=> FailedAbove(i)
             /\ ~Retiring(i) /\ ~Retiring(i)' /\ ~Pushing(i) /\ (Pushing(i)' <=> i = j)
  BY <1>2 DEF OutQ, FailedResult, FailedAbove, Retiring, Pushing
<1>6. ASSUME NEW i \in JobIds, i # j PROVE JobView'[i] = JobView[i]
  BY <1>1, <1>2, <1>3, <1>5, <1>6, UntouchedJob
<1>7. Stage(j) = "running" /\ Stage(j)' = "logged" /\ HasFailed(j)' = TRUE
  <2>1. Stage(j) = "running"
    BY <1>1, <1>4, <1>5, Staging
  <2>2. Stage(j)' = "logged"
    BY <1>4, <1>5, Staging
  <2>3. HasFailed(j)' = TRUE
    BY <1>3, Failing
  <2> QED
    BY <2>1, <2>2, <2>3
<1> DEFINE l == Unmoved(j)
           h == HasFailed(j)
           o == desc[j].op
<1>8. JobView[j] = [stage |-> "running", op |-> o, left |-> l, failed |-> h]
  BY <1>7 DEF JobView
<1>9. JobView'[j] = [stage |-> "logged", op |-> o, left |-> {}, failed |-> TRUE]
  BY <1>2, <1>7 DEF JobView
<1>10. IsView(JobView) /\ IsView(JobView') /\ h \in BOOLEAN
  BY ViewFunction, Failing DEF IsView
<1> HIDE DEF l, h, o
<1>11. JobView' = GivenUpView(JobView, j)
  BY <1>6, <1>8, <1>9, <1>10, ViewGivenUp
<1>12. JobView[j].stage = "running"
  BY <1>8
<1>13. Engine!GiveUp(j)
  BY <1>2, <1>11, <1>12 DEF Engine!GiveUp, GivenUpView
<1> QED
  BY <1>13

\* The steps of the worker and of its caller that no caller can tell from
\* standing still.
LEMMA QuietSteps ==
  ASSUME EngineInv,
         \/ Notify \/ DrainCall \/ DrainReturn \/ Destroy \/ Join
         \/ TakenAll \/ IssueNothing \/ Reap \/ ReapNothing \/ HandledAll
         \/ RoundEnd \/ WakeByTimeout \/ Exit
         \/ UNCHANGED vars
  PROVE  JobView' = JobView /\ UNCHANGED <<rows, disk, misread>>
<1>1. CASE \/ Notify \/ DrainCall \/ DrainReturn \/ Destroy \/ Join \/ UNCHANGED vars
  <2>1. /\ UNCHANGED <<inQ, outQ, fin, desc, table, flying, cq, comps, rows, disk, misread>>
        /\ pcW' = pcW \/ (pcW = "sleep" /\ pcW' = "take")
    BY <1>1 DEF Notify, DrainCall, DrainReturn, Destroy, Join, vars, shared, local, ring
  <2> QED
    BY <2>1, UnseenStep
<1>2. CASE \/ TakenAll \/ IssueNothing \/ ReapNothing \/ HandledAll
           \/ RoundEnd \/ WakeByTimeout \/ Exit
  <2>1. /\ UNCHANGED <<inQ, outQ, fin, desc, table, flying, cq, comps, rows, disk, misread>>
        /\ pcW \notin {"push", "retire"} /\ pcW' \notin {"push", "retire"}
    BY <1>2 DEF TakenAll, IssueNothing, ReapNothing, HandledAll, RoundEnd, WakeByTimeout, Exit,
                shared, ring
  <2> QED
    BY <2>1, UnseenStep
<1>3. CASE Reap
  <2>1. /\ UNCHANGED <<inQ, outQ, fin, desc, table, flying, rows, disk, misread>>
        /\ pcW = "reap" /\ pcW' = "handle"
        /\ \E B \in SUBSET cq : comps' = B /\ cq' = cq \ B
    BY <1>3 DEF Reap, shared
  <2>2. comps = {}
    BY <2>1 DEF EngineInv, Phases, Finishing
  <2>3. cq' \cup comps' = cq \cup comps
    BY <2>1, <2>2
  <2> QED
    BY <2>1, <2>3, UnseenStep
<1> QED
  BY <1>1, <1>2, <1>3

\* Every step is one of BlockEngine's, or none.
LEMMA NextRefines ==
  ASSUME EngineInv, Answers, DistinctTransfers, ~ShortSubmits, [Next]_vars
  PROVE  [Engine!EngineNext]_Engine!engineVars
<1>1. TypeOK /\ Phases
  BY DEF EngineInv
<1> DEFINE Seen == \E j \in JobIds : \/ Engine!AcceptAny(j)
                                     \/ Engine!EngineStep(j)
                                     \/ Engine!GiveUp(j)
                                     \/ \E B \in SUBSET JobIds :
                                          Engine!Poll(B) /\ UNCHANGED <<rows, disk, misread>>
                                     \/ Engine!TakeRecords /\ UNCHANGED <<JobView, disk, misread>>
           Unseen == UNCHANGED <<JobView, rows, disk, misread>>
<1>a. Seen => Engine!EngineNext
  BY DEF Engine!EngineNext
<1>b. Unseen => UNCHANGED Engine!engineVars
  BY DEF Engine!engineVars
<1>c. \A j \in JobIds : Engine!AcceptAny(j) \/ Engine!EngineStep(j) \/ Engine!GiveUp(j) => Seen
  OBVIOUS
<1>d. \A j \in JobIds : Engine!TakeRecords /\ UNCHANGED <<JobView, disk, misread>> => Seen
  OBVIOUS
<1>e. \A j \in JobIds, B \in SUBSET JobIds :
        Engine!Poll(B) /\ UNCHANGED <<rows, disk, misread>> => Seen
  OBVIOUS
<1>f. JobView' = JobView /\ UNCHANGED <<rows, disk, misread>> => Unseen
  OBVIOUS
<1> HIDE DEF Seen, Unseen
<1> SUFFICES Seen \/ Unseen
  BY <1>a, <1>b
<1>2. ASSUME NEW j \in JobIds, NEW d \in Workload, Submit(j, d) PROVE Seen
  BY <1>2, <1>c, SubmitRefines
<1>3. CASE Poll
  <2>1. PICK B \in SUBSET JobIds : Engine!Poll(B) /\ UNCHANGED <<rows, disk, misread>>
    BY <1>3, PollRefines
  <2>2. \E j \in JobIds : TRUE
    <3>1. outQ # << >> /\ outQ \in Seq(Result)
      BY <1>1, <1>3 DEF Poll, TypeOK, Result
    <3>2. Head(outQ) \in Result
      BY <3>1, HeadTailProperties
    <3> QED
      BY <3>2 DEF Result
  <2> QED
    BY <1>e, <2>1, <2>2
<1>4. CASE DrainRecords
  <2>1. UNCHANGED <<inQ, outQ, fin, desc, table, flying, cq, comps, pcW, disk, misread>> /\ rows' = {}
    BY <1>4 DEF DrainRecords, shared, local, ring
  <2>2. JobView' = JobView
    BY <2>1, UnseenStep
  <2>3. CASE JobIds = {}
    <3>1. rows' = rows
      BY <1>1, <2>1, <2>3 DEF TypeOK
    <3> QED
      BY <1>f, <2>1, <2>2, <3>1
  <2>4. CASE JobIds # {}
    <3>1. PICK j \in JobIds : TRUE
      BY <2>4
    <3>2. Engine!TakeRecords
      BY <2>1 DEF Engine!TakeRecords
    <3> QED
      BY <1>d, <2>1, <2>2, <3>1, <3>2
  <2> QED
    BY <2>3, <2>4
<1>5. CASE \/ Notify \/ DrainCall \/ DrainReturn \/ Destroy \/ Join
           \/ TakenAll \/ IssueNothing \/ Reap \/ ReapNothing \/ HandledAll
           \/ RoundEnd \/ WakeByTimeout \/ Exit
           \/ UNCHANGED vars
  BY <1>5, <1>f, QuietSteps
<1>6. CASE TakeJob
  BY <1>6, <1>f, TakeUnseen DEF TakeJob
<1>7. CASE Issue
  BY <1>7, <1>f, IssueUnseen DEF Issue
<1>8. ASSUME NEW c \in comps, HandleCompletion(c) PROVE Unseen
  BY <1>8, <1>f, HandleUnseen DEF HandleCompletion
<1>9. CASE Retire
  BY <1>9, <1>f, RetireUnseen DEF Retire
<1>10. CASE LogRow
  BY <1>10, <1>c, RowRefines DEF Engine!EngineStep
<1>11. CASE PushResult
  BY <1>11, <1>c, PushRefines DEF Engine!EngineStep
<1>12. CASE FailLeftover
  BY <1>12, <1>c, GiveUpRefines
<1>13. ASSUME NEW e \in flying, TransferBlock(e) \/ FailTransfer(e) PROVE Seen
  BY <1>13, <1>c, TransferRefines
<1>14. CASE Worker
  BY <1>5, <1>6, <1>7, <1>8, <1>9, <1>10, <1>11, <1>12, <1>14 DEF Worker
<1>15. CASE Kernel
  BY <1>13, <1>15 DEF Kernel
<1> QED
  BY <1>2, <1>3, <1>4, <1>5, <1>14, <1>15 DEF Next, Gone

\* To whoever submits and polls, the engine on io_uring is the engine the
\* manager was written for, whatever the kernel's order of completions: each
\* block of an accepted job is moved at most once, the job's row is in the
\* ledger before its one result, the result says failed if a block failed, and
\* a job the destructor finds in in_q_ is answered as failed.
THEOREM KvEngineKeepsContract ==
  ASSUME DistinctTransfers, ~ShortSubmits
  PROVE  Spec => ImplementsEngine
<1>1. Init => Answers /\ Engine!EngineInit
  <2> SUFFICES ASSUME Init PROVE Engine!EngineInit
    BY InitAnswers
  <2>1. ASSUME NEW j \in JobIds PROVE Stage(j) = "none"
    <3>1. /\ ~OutQ(j) /\ ~InQ(j) /\ ~table[j].live /\ pcW = "take"
      BY EmptySeq DEF Init, OutQ, InQ, NoState
    <3> QED
      BY <3>1 DEF Stage
  <2>2. JobView = [j \in JobIds |-> Engine!NoJob]
    BY <2>1 DEF JobView, Engine!NoJob
  <2> QED
    BY <2>2 DEF Engine!EngineInit, Init
<1>2. EngineInv /\ Answers /\ [Next]_vars => Answers'
  BY NextAnswers
<1>3. EngineInv /\ Answers /\ [Next]_vars => [Engine!EngineNext]_Engine!engineVars
  BY NextRefines
<1>4. Spec => []EngineInv
  BY EngineInvariant
<1> QED
  BY <1>1, <1>2, <1>3, <1>4, PTL DEF Spec, ImplementsEngine, Engine!EngineSpec

-----------------------------------------------------------------------------
(* Arithmetic modulo Cap *)


\* Division with remainder by Cap, as an existence statement: the provers know
\* nothing of % and \div once the divisor is not a number.
LEMMA Division == ASSUME NEW n \in Nat
  PROVE \E q \in Nat : n = Cap * q + (n % Cap) /\ (n % Cap) \in 0..Cap-1
<1>1. n = Cap * (n \div Cap) + (n % Cap) /\ (n % Cap) \in 0..Cap-1 /\ (n \div Cap) \in Nat
  BY RingAssumption, SMT
<1> QED BY <1>1

\* Quotient and remainder are unique.
LEMMA Uniq == ASSUME NEW a \in Nat, NEW b \in Nat, NEW r \in 0..Cap-1, NEW s \in 0..Cap-1, Cap*a + r = Cap * b + s
 PROVE a = b /\ r = s
BY RingAssumption, SMT

\* So whoever writes n as a multiple of Cap and a rest has its remainder.
LEMMA Rem == ASSUME NEW n \in Nat, NEW a \in Nat, NEW r \in 0..Cap-1, n = Cap * a + r
  PROVE n % Cap = r
<1>1. PICK q \in Nat : n = Cap * q + (n % Cap) /\ (n % Cap) \in 0..Cap-1
  BY Division
<1>2. Cap * a + r = Cap * q + (n % Cap)
  BY <1>1
<1> QED BY <1>1, <1>2, Uniq

\* Two numbers with one remainder less than Cap apart have one quotient.
LEMMA Apart == ASSUME NEW a \in Nat, NEW b \in Nat, NEW r \in 0..Cap-1,
   Cap * b + r >= Cap * a + r, (Cap * b + r) - (Cap * a + r) < Cap PROVE a = b
<1>1. Cap * a \in Nat /\ Cap * b \in Nat /\ r \in Nat
  BY RingAssumption, SMT
<1>2. Cap * b >= Cap * a /\ Cap * b - Cap * a < Cap
  BY <1>1, RingAssumption
<1>3. Cap * (b - a) >= 0 /\ Cap * (b-a) < Cap
  BY <1>2, RingAssumption, SMT
<1>4. ~(b - a >= 1)
  BY <1>3, RingAssumption, SMT
<1>5. ~(b - a <= -1)
  BY <1>3, RingAssumption, SMT
<1> QED BY <1>4, <1>5

\* Slot numbers less than Cap apart do not fall on one slot (the masked index of
\* spsc_queue.hpp:165 and 138).
LEMMA WrapInj == ASSUME NEW m \in Nat, NEW n \in Nat, m <= n, n - m < Cap, Wrap(m) = Wrap(n) PROVE m = n
<1>1. PICK a \in Nat : m = Cap * a + (m % Cap) /\ (m % Cap) \in 0..Cap-1
  BY Division
<1>2. PICK b \in Nat : n = Cap * b + (n % Cap) /\ (n % Cap) \in 0..Cap-1
  BY Division
<1>3. m % Cap = n % Cap
  BY DEF Wrap
<1>4. a = b
  BY <1>1, <1>2, <1>3, Apart
<1> QED
  BY <1>1, <1>2, <1>3, <1>4

\* Masking step by step, as push and pop do, is masking the count.
LEMMA WrapSucc == ASSUME NEW n \in Nat PROVE (Wrap(n)+1) % Cap = Wrap(n+1)
<1>1. PICK a \in Nat : n = Cap * a + (n % Cap) /\ (n % Cap) \in 0..Cap-1
  BY Division
<1> DEFINE r == n % Cap
<1>0. r \in 0..Cap-1 /\ n = Cap * a + r /\ Cap * a \in Nat
  BY <1>1, RingAssumption, SMT
<1> HIDE DEF r
<1>2. CASE r + 1 < Cap
  <2>1. n + 1 = Cap * a + (r+1) /\ r + 1 \in 0..Cap-1 /\ n + 1 \in Nat
    BY <1>0, <1>2, RingAssumption
  <2>2. (n+1) % Cap = r + 1
    BY <2>1, Rem
  <2>3. r + 1 = Cap * 0 + (r+1) /\ r + 1 \in Nat
    BY <1>0, RingAssumption
  <2>4. (r+1) % Cap = r + 1
    BY <2>1, <2>3, Rem
  <2> QED BY <2>2, <2>4 DEF Wrap, r
<1>3. CASE r + 1 = Cap
  <2>1. n + 1 = Cap * (a+1) + 0 /\ a + 1 \in Nat /\ 0 \in 0..Cap-1
    BY <1>0, <1>3, RingAssumption
  <2>2. (n+1) % Cap = 0
    BY <2>1, Rem
  <2>3. Cap = Cap * 1 + 0 /\ Cap \in Nat
      BY RingAssumption
  <2>4. Cap % Cap = 0
    BY <2>1, <2>3, Rem
  <2> QED BY <1>3, <2>2, <2>4 DEF Wrap, r
<1> QED BY <1>0, <1>2, <1>3, RingAssumption

\* A wrapped number is a slot.
LEMMA WrapType == ASSUME NEW n \in Nat PROVE Wrap(n) \in 0..Cap-1
BY Division DEF Wrap

\* Going round once ends on the same slot.
LEMMA WrapCycle == ASSUME NEW n \in Nat PROVE Wrap(n + Cap) = Wrap(n)
<1>1. PICK q \in Nat : n = Cap * q + (n % Cap) /\ (n % Cap) \in 0..Cap-1
  BY Division
<1> DEFINE r == n % Cap
<1>2. r \in 0..Cap-1 /\ n = Cap * q + r /\ Cap * q \in Nat
  BY <1>1, RingAssumption, SMT
<1> HIDE DEF r
<1>3. n + Cap = Cap * (q + 1) + r /\ q + 1 \in Nat /\ n + Cap \in Nat
  BY <1>2, RingAssumption
<1>4. (n + Cap) % Cap = r
  BY <1>2, <1>3, Rem
<1> QED BY <1>4 DEF Wrap, r

\* size_approx: the distance of two wrapped numbers less than Cap apart.
LEMMA WrapDistance ==
  ASSUME NEW m \in Nat, NEW n \in Nat, m <= n, n - m < Cap
  PROVE  Wrap(Wrap(n) + Cap - Wrap(m)) = n - m
<1>1. PICK a \in Nat : m = Cap * a + (m % Cap) /\ (m % Cap) \in 0..Cap-1
  BY Division
<1>2. PICK b \in Nat : n = Cap * b + (n % Cap) /\ (n % Cap) \in 0..Cap-1
  BY Division
<1> DEFINE r == m % Cap
           s == n % Cap
<1>3. /\ r \in 0..Cap-1 /\ m = Cap * a + r /\ Cap * a \in Nat
      /\ s \in 0..Cap-1 /\ n = Cap * b + s /\ Cap * b \in Nat
  BY <1>1, <1>2, RingAssumption, SMT
<1> HIDE DEF r, s
<1>4. s + Cap - r \in Nat /\ n - m \in 0..Cap-1
  BY <1>3, RingAssumption
<1>5. a = b \/ b = a + 1
  <2>1. Cap * (b - a) = n - m + r - s
    BY <1>3, RingAssumption, SMT
  <2>2. Cap * (b - a) > -Cap /\ Cap * (b - a) < 2 * Cap
    BY <2>1, <1>3, <1>4, RingAssumption
  <2>3. ~(b - a <= -1)
    BY <2>2, RingAssumption, SMT
  <2>4. ~(b - a >= 2)
    BY <2>2, RingAssumption, SMT
  <2> QED BY <2>3, <2>4
<1>6. CASE a = b
  <2>1. s + Cap - r = Cap * 1 + (n - m)
    BY <1>3, <1>6, RingAssumption
  <2> QED BY <2>1, <1>4, Rem DEF Wrap, r, s
<1>7. CASE b = a + 1
  <2>1. s + Cap - r = Cap * 0 + (n - m)
    BY <1>3, <1>7, RingAssumption
  <2> QED BY <2>1, <1>4, Rem DEF Wrap, r, s
<1> QED BY <1>5, <1>6, <1>7

-----------------------------------------------------------------------------
(* Types *)

\* The counts of pushes and pops are natural numbers.
LEMMA Counts == ASSUME RingTypeOK PROVE Pushed \in Nat /\ Popped \in Nat
BY LenProperties DEF RingTypeOK, Pushed, Popped

\* Between moving an item out and storing tail_ the consumer holds the oldest
\* item inside, not an empty slot's content.
LEMMA TakenItem ==
  ASSUME RingTypeOK, RingConsistent, pcPop = "free"
  PROVE  out = sent[Popped + 1] /\ Popped + 1 \in 1..Len(sent) /\ out \in Items
<1>1. Popped + 1 \in 1..Len(sent)
  BY Counts DEF RingConsistent, Pushed, RingTypeOK
<1>2. out = sent[Popped + 1]
  BY DEF RingConsistent
<1> QED BY <1>1, <1>2, ElementOfSeq DEF RingTypeOK

\* Initially every variable has its type.
LEMMA TypeInit == ASSUME RingInit PROVE RingTypeOK
<1>1. 0 \in 0..Cap-1
  BY RingAssumption
<1>2. << >> \in Seq(Items)
  BY EmptySeq
<1> QED BY <1>1, <1>2 DEF RingInit, RingTypeOK

\* Every step of push and pop keeps the types (PublishHead and PublishTail
\* need that a masked index is a slot).
LEMMA TypeStep == ASSUME RingTypeOK, RingConsistent, [RingNext]_ringVars PROVE RingTypeOK'
<1> USE DEF RingTypeOK
<1>0. Pushed \in Nat /\ Popped \in Nat
  BY Counts
<1>1. ASSUME NEW x \in Items, PushCall(x) PROVE RingTypeOK'
  BY <1>1 DEF PushCall, consumerVars
<1>2. CASE RefreshTail
  <2>1. PICK n \in seenPopped..Popped :
          seenPopped' = n /\ cachedTail' = Wrap(n) /\ pcPush' \in {"idle", "write"}
    BY <1>2 DEF RefreshTail
  <2>2. n \in Nat
    BY <1>0, <2>1
  <2>3. Wrap(n) \in 0..Cap-1
    BY <2>2, WrapType
  <2> QED BY <1>2, <2>1, <2>2, <2>3 DEF RefreshTail, consumerVars
<1>3. CASE WriteSlot
  BY <1>3 DEF WriteSlot, consumerVars
<1>4. CASE PublishHead
  <2>1. head + 1 \in Nat
    BY RingAssumption
  <2>2. Wrap(head + 1) \in 0..Cap-1
    BY <2>1, WrapType
  <2>3. Append(sent, item) \in Seq(Items)
    BY <1>4, AppendProperties DEF PublishHead
  <2> QED BY <1>4, <2>2, <2>3 DEF PublishHead, consumerVars
<1>5. CASE PopCall
  BY <1>5 DEF PopCall, producerVars
<1>6. CASE RefreshHead
  <2>1. PICK n \in seenPushed..Pushed : AcquireHead(n)
    BY <1>6 DEF RefreshHead
  <2>2. n \in Nat
    BY <1>0, <2>1
  <2>3. Wrap(n) \in 0..Cap-1
    BY <2>2, WrapType
  <2> QED BY <2>1, <2>2, <2>3 DEF AcquireHead, producerVars
<1>7. CASE TakeSlot
  BY <1>7 DEF TakeSlot, producerVars
<1>8. CASE PublishTail
  <2>0. out \in Items
    BY <1>8, TakenItem DEF PublishTail
  <2>1. tail + 1 \in Nat
    BY RingAssumption
  <2>2. Wrap(tail + 1) \in 0..Cap-1
    BY <2>1, WrapType
  <2>3. Append(received, out) \in Seq(Items)
    BY <2>0, AppendProperties
  <2> QED BY <1>8, <2>2, <2>3 DEF PublishTail, producerVars
<1>9. CASE UNCHANGED ringVars
  BY <1>9 DEF ringVars, producerVars, consumerVars
<1> QED
  BY <1>1, <1>2, <1>3, <1>4, <1>5, <1>6, <1>7, <1>8, <1>9 DEF RingNext, Push, Pop
-----------------------------------------------------------------------------
(* The ring's invariant *)

\* The parts of RingConsistent that talk about counts and indices.
Indices ==
  /\ head = Wrap(Pushed) /\ tail = Wrap(Popped)
  /\ cachedTail = Wrap(seenPopped) /\ cachedHead = Wrap(seenPushed)
  /\ seenPopped <= Popped /\ Popped <= seenPushed /\ seenPushed <= Pushed
  /\ Pushed - seenPopped < Cap
  /\ pcPush \in {"write", "publish"} => Pushed + 1 - seenPopped < Cap
  /\ pcPop \in {"take", "free"} => Popped < seenPushed

\* The parts that talk about what is in the slots.
Contents ==
  /\ pcPush = "publish" => buf[head] = item
  /\ \A i \in Popped..Pushed-1 :
       (i = Popped /\ pcPop = "free") \/ buf[Wrap(i)] = sent[i + 1]
  /\ pcPop = "free" => out = sent[Popped + 1]

\* With the indices right, size_approx is right: nothing else is left to show.
LEMMA RingSplit ==
  ASSUME RingTypeOK
  PROVE  RingConsistent <=> Indices /\ Contents
<1>1. ASSUME Indices PROVE SizeApprox = Pushed - Popped
  <2>1. Pushed \in Nat /\ Popped \in Nat /\ Popped <= Pushed /\ Pushed - Popped < Cap
    BY <1>1, Counts, RingAssumption DEF Indices, RingTypeOK
  <2>2. Wrap(Wrap(Pushed) + Cap - Wrap(Popped)) = Pushed - Popped
    BY <2>1, WrapDistance
  <2> QED BY <1>1, <2>2 DEF Indices, SizeApprox
<1> QED BY <1>1 DEF RingConsistent, Indices, Contents

\* A full check that says there is room is right although cachedTail may be
\* old: were the real distance Cap, the masked indices would be equal.
LEMMA RoomIsReal ==
  ASSUME NEW n \in Nat, NEW m \in Nat, m <= n, n - m < Cap,
         Wrap(Wrap(n) + 1) # Wrap(m)
  PROVE  n + 1 - m < Cap
<1>1. Wrap(n + 1) # Wrap(m)
  BY WrapSucc DEF Wrap
<1>2. SUFFICES ASSUME n + 1 = m + Cap PROVE FALSE
  BY RingAssumption
<1> QED BY <1>1, <1>2, WrapCycle

\* Every step keeps the indices in order.
LEMMA IndicesStep ==
  ASSUME RingTypeOK, RingConsistent, [RingNext]_ringVars
  PROVE  Indices'
<1> Indices
  BY RingSplit
<1>0. /\ Pushed \in Nat /\ Popped \in Nat
      /\ seenPopped \in Nat /\ seenPushed \in Nat
  BY Counts DEF RingTypeOK
<1>1. ASSUME NEW x \in Items, PushCall(x) PROVE Indices'
  <2>1. pcPush' = "write" => Pushed + 1 - seenPopped < Cap
    <3>1. SUFFICES ASSUME Wrap(head + 1) # cachedTail PROVE Pushed + 1 - seenPopped < Cap
      BY <1>1 DEF PushCall, Full
    <3>2. /\ head = Wrap(Pushed) /\ cachedTail = Wrap(seenPopped)
          /\ seenPopped <= Pushed /\ Pushed - seenPopped < Cap
      BY <1>0 DEF Indices
    <3> QED BY <1>0, <3>1, <3>2, RoomIsReal
  <2>2. pcPush' \in {"refresh", "write"}
    BY <1>1 DEF PushCall
  <2> QED BY <1>1, <2>1, <2>2 DEF PushCall, Indices, consumerVars, Pushed, Popped
<1>2. CASE RefreshTail
  <2>1. PICK n \in seenPopped..Popped :
          /\ seenPopped' = n /\ cachedTail' = Wrap(n)
          /\ pcPush' = IF Full(Wrap(n)) THEN "idle" ELSE "write"
    BY <1>2 DEF RefreshTail
  <2>2. n \in Nat /\ seenPopped <= n /\ n <= Popped
    BY <1>0, <2>1
  <2>3. n <= Pushed /\ Pushed - n < Cap /\ head = Wrap(Pushed)
    BY <1>0, <2>2, RingAssumption DEF Indices
  <2>4. pcPush' = "write" => Pushed + 1 - n < Cap
    BY <1>0, <2>1, <2>2, <2>3, RoomIsReal DEF Full
  <2>5. pcPush' \in {"idle", "write"}
    BY <2>1
  <2> QED BY <1>2, <2>1, <2>2, <2>3, <2>4, <2>5 DEF RefreshTail, Indices, consumerVars, Pushed, Popped
<1>3. CASE WriteSlot
  BY <1>3 DEF WriteSlot, Indices, consumerVars, Pushed, Popped
<1>4. CASE PublishHead
  <2>1. Pushed' = Pushed + 1 /\ Popped' = Popped
    BY <1>4, AppendProperties DEF PublishHead, RingTypeOK, Pushed, Popped, consumerVars
  <2>2. head' = Wrap(Pushed + 1)
    BY <1>0, <1>4, WrapSucc DEF PublishHead, Indices, Wrap
  <2> QED BY <1>0, <1>4, <2>1, <2>2 DEF PublishHead, Indices, consumerVars
<1>5. CASE PopCall
  <2>1. pcPop' = "take" => Popped # seenPushed
    BY <1>5 DEF PopCall, Indices
  <2>2. pcPop' \in {"refresh", "take"}
    BY <1>5 DEF PopCall
  <2> QED BY <1>0, <1>5, <2>1, <2>2 DEF PopCall, Indices, producerVars, Pushed, Popped
<1>6. CASE RefreshHead
  <2>1. PICK n \in seenPushed..Pushed : AcquireHead(n)
    BY <1>6 DEF RefreshHead
  <2>2. n \in Nat /\ seenPushed <= n /\ n <= Pushed
    BY <1>0, <2>1
  <2>3. pcPop' = "take" => Popped # n
    BY <2>1 DEF AcquireHead, Indices
  <2>4. pcPop' \in {"idle", "take"}
    BY <2>1 DEF AcquireHead
  <2> QED BY <1>0, <2>1, <2>2, <2>3, <2>4 DEF AcquireHead, Indices, producerVars, Pushed, Popped
<1>7. CASE TakeSlot
  BY <1>7 DEF TakeSlot, Indices, producerVars, Pushed, Popped
<1>8. CASE PublishTail
  <2>0. out \in Items
    BY <1>8, TakenItem DEF PublishTail
  <2>1. Popped' = Popped + 1 /\ Pushed' = Pushed
    BY <1>8, <2>0, AppendProperties DEF PublishTail, RingTypeOK, Pushed, Popped, producerVars
  <2>2. tail' = Wrap(Popped + 1)
    BY <1>0, <1>8, WrapSucc DEF PublishTail, Indices, Wrap
  <2> QED BY <1>0, <1>8, <2>1, <2>2 DEF PublishTail, Indices, producerVars
<1>9. CASE UNCHANGED ringVars
  BY <1>9 DEF ringVars, producerVars, consumerVars, Indices, Pushed, Popped
<1> QED
  BY <1>1, <1>2, <1>3, <1>4, <1>5, <1>6, <1>7, <1>8, <1>9 DEF RingNext, Push, Pop
\* Every step keeps the contents: the slots of items inside are all different
\* and none is the slot being filled.
LEMMA ContentsStep ==
  ASSUME RingTypeOK, RingConsistent, [RingNext]_ringVars
  PROVE  Contents'
<1> Indices /\ Contents
  BY RingSplit
<1>0. /\ Pushed \in Nat /\ Popped \in Nat
      /\ seenPopped \in Nat /\ seenPushed \in Nat
  BY Counts DEF RingTypeOK
<1>1. ASSUME NEW x \in Items, PushCall(x) PROVE Contents'
  BY <1>1 DEF PushCall, Contents, consumerVars, Pushed, Popped
<1>2. CASE RefreshTail
  BY <1>2 DEF RefreshTail, Contents, consumerVars, Pushed, Popped
<1>3. CASE WriteSlot
  <2>1. ASSUME NEW i \in Popped..Pushed-1 PROVE Wrap(i) # head
    <3>1. i \in Nat /\ i <= Pushed /\ i # Pushed /\ Pushed - i < Cap
      BY <1>0, RingAssumption DEF Indices
    <3> QED BY <1>0, <3>1, WrapInj DEF Indices
  <2>2. ASSUME NEW i \in Popped..Pushed-1 PROVE buf'[Wrap(i)] = buf[Wrap(i)]
    BY <1>3, <2>1 DEF WriteSlot, RingTypeOK
  <2>3. buf'[head] = item
    BY <1>3 DEF WriteSlot, RingTypeOK
  <2> QED BY <1>3, <2>2, <2>3 DEF WriteSlot, Contents, consumerVars, Pushed, Popped
<1>4. CASE PublishHead
  <2>1. item \in Items /\ buf[Wrap(Pushed)] = item
    BY <1>4 DEF PublishHead, RingTypeOK, Contents, Indices
  <2>2. Pushed' = Pushed + 1 /\ Popped' = Popped
    BY <1>4, <2>1, AppendProperties DEF PublishHead, RingTypeOK, Pushed, Popped, consumerVars
  <2>3. sent'[Pushed + 1] = item /\ \A i \in 1..Pushed : sent'[i] = sent[i]
    BY <1>4, <2>1, AppendProperties DEF PublishHead, RingTypeOK, Pushed
  <2>4. ASSUME NEW i \in Popped'..Pushed'-1
        PROVE  (i = Popped' /\ pcPop' = "free") \/ buf'[Wrap(i)] = sent'[i + 1]
    <3>1. CASE i = Pushed
      BY <1>4, <2>1, <2>3, <3>1 DEF PublishHead
    <3>2. CASE i # Pushed
      <4>1. i \in Popped..Pushed-1 /\ i + 1 \in 1..Pushed
        BY <1>0, <2>2, <3>2
      <4> QED BY <1>4, <2>2, <2>3, <4>1 DEF PublishHead, Contents, consumerVars
    <3> QED BY <3>1, <3>2
  <2>5. pcPop' = "free" => out' = sent'[Popped' + 1]
    BY <1>0, <1>4, <2>2, <2>3, TakenItem DEF PublishHead, consumerVars, Pushed
  <2> QED BY <1>4, <2>4, <2>5 DEF PublishHead, Contents
<1>5. CASE PopCall
  BY <1>5 DEF PopCall, Contents, producerVars, Pushed, Popped
<1>6. CASE RefreshHead
  BY <1>6 DEF RefreshHead, AcquireHead, Contents, producerVars, Pushed, Popped
<1>7. CASE TakeSlot
  <2>1. Popped < Pushed /\ tail = Wrap(Popped) /\ tail \in DOMAIN buf
    BY <1>0, <1>7 DEF TakeSlot, Indices, RingTypeOK
  <2>2. out' = sent[Popped + 1]
    BY <1>0, <1>7, <2>1 DEF TakeSlot, Contents
  <2>3. ASSUME NEW i \in Popped+1..Pushed PROVE i < Pushed \/ pcPush = "publish" => Wrap(i) # tail
    <3>1. i \in Nat /\ Popped <= i /\ i # Popped
      BY <1>0
    <3>2. ASSUME i < Pushed \/ pcPush = "publish" PROVE i - Popped < Cap
      BY <1>0, <3>2, RingAssumption DEF Indices
    <3> QED BY <1>0, <2>1, <3>1, <3>2, WrapInj
  <2>4. ASSUME NEW i \in Popped+1..Pushed-1 PROVE buf'[Wrap(i)] = sent[i + 1]
    <3>1. i \in Popped..Pushed-1 /\ i # Popped /\ i \in Popped+1..Pushed /\ i < Pushed
      BY <1>0
    <3> QED BY <1>7, <2>3, <3>1 DEF TakeSlot, Contents, RingTypeOK
  <2>5. pcPush = "publish" => buf'[head] = item
    <3>1. Pushed \in Popped+1..Pushed
      BY <1>0, <2>1
    <3> QED BY <1>7, <2>3, <3>1 DEF TakeSlot, Contents, Indices, RingTypeOK
  <2>6. ASSUME NEW i \in Popped..Pushed-1 PROVE i = Popped \/ i \in Popped+1..Pushed-1
    BY <1>0
  <2>7. UNCHANGED <<Pushed, Popped, head, item, pcPush, sent>> /\ pcPop' = "free"
    BY <1>7 DEF TakeSlot, producerVars, Pushed, Popped
  <2> QED BY <2>2, <2>4, <2>5, <2>6, <2>7 DEF Contents
<1>8. CASE PublishTail
  <2>0. out \in Items
    BY <1>8, TakenItem DEF PublishTail
  <2>1. Popped' = Popped + 1 /\ Pushed' = Pushed
    BY <1>8, <2>0, AppendProperties DEF PublishTail, RingTypeOK, Pushed, Popped, producerVars
  <2>2. ASSUME NEW i \in Popped'..Pushed'-1 PROVE buf[Wrap(i)] = sent[i + 1]
    <3>1. i \in Popped..Pushed-1 /\ i # Popped
      BY <1>0, <2>1
    <3> QED BY <3>1 DEF Contents
  <2>3. UNCHANGED <<buf, sent, head, item, pcPush>> /\ pcPop' = "idle"
    BY <1>8 DEF PublishTail, producerVars
  <2> QED BY <2>2, <2>3 DEF Contents
<1>9. CASE UNCHANGED ringVars
  BY <1>9 DEF ringVars, producerVars, consumerVars, Contents, Pushed, Popped
<1> QED
  BY <1>1, <1>2, <1>3, <1>4, <1>5, <1>6, <1>7, <1>8, <1>9 DEF RingNext, Push, Pop
\* Initially the ring is empty and both counts are zero.
LEMMA RingStart == ASSUME RingInit PROVE RingConsistent
<1>1. 0 = Cap * 0 + 0 /\ 0 \in 0..Cap-1 /\ 0 \in Nat
  BY RingAssumption
<1>2. Wrap(0) = 0
  BY <1>1, Rem DEF Wrap
<1>3. Pushed = 0 /\ Popped = 0
  BY EmptySeq DEF RingInit, Pushed, Popped
<1>4. RingTypeOK
  BY TypeInit
<1>5. Indices /\ Contents
  BY <1>2, <1>3, RingAssumption DEF RingInit, Indices, Contents
<1> QED BY <1>4, <1>5, RingSplit

\* The ring's invariant is kept by every step.
LEMMA RingStep ==
  ASSUME RingTypeOK, RingConsistent, [RingNext]_ringVars
  PROVE  RingTypeOK' /\ RingConsistent'
<1>1. RingTypeOK'
  BY TypeStep
<1>2. Indices' /\ Contents'
  BY IndicesStep, ContentsStep
<1>3. ASSUME Indices' PROVE SizeApprox' = Pushed' - Popped'
  <2>1. Pushed' \in Nat /\ Popped' \in Nat
    BY <1>1, LenProperties DEF RingTypeOK, Pushed, Popped
  <2>2. Popped' <= Pushed' /\ Pushed' - Popped' < Cap
    <3>1. seenPopped' \in Nat /\ seenPushed' \in Nat
      BY <1>1 DEF RingTypeOK
    <3> QED BY <1>3, <2>1, <3>1, RingAssumption DEF Indices, Pushed, Popped
  <2>3. Wrap(Wrap(Pushed') + Cap - Wrap(Popped')) = Pushed' - Popped'
    BY <2>1, <2>2, WrapDistance
  <2> QED BY <1>3, <2>3 DEF Indices, SizeApprox, Wrap
<1> QED BY <1>1, <1>2, <1>3 DEF RingConsistent, Indices, Contents

-----------------------------------------------------------------------------
(* Theorems *)

\* The inductive invariant of the queue.
THEOREM RingInvariant == RingSpec => [](RingTypeOK /\ RingConsistent)
<1>1. RingInit => RingTypeOK /\ RingConsistent
  BY TypeInit, RingStart
<1>2. RingTypeOK /\ RingConsistent /\ [RingNext]_ringVars => (RingTypeOK /\ RingConsistent)'
  BY RingStep
<1> QED BY <1>1, <1>2, PTL DEF RingSpec

\* Every index is a slot, every slot holds an item or nothing, only items are
\* reported as popped (push and pop).
THEOREM RingTypeCorrect == RingSpec => []RingTypeOK
BY RingInvariant, PTL

\* However old the cached indices are (spsc_queue.hpp:40), the ring is never
\* overfilled, no item inside is overwritten and size_approx is exact.
THEOREM RingAlwaysConsistent == RingSpec => []RingConsistent
BY RingInvariant, PTL

\* A slot being written or taken has been acquired from the other thread.
LEMMA ConsistentMeansNoRace ==
  ASSUME RingTypeOK, RingConsistent
  PROVE  NoSlotRace
<1> Indices
  BY RingSplit
<1>0. /\ Pushed \in Nat /\ Popped \in Nat
      /\ seenPopped \in Nat /\ seenPushed \in Nat
      /\ head = Wrap(Pushed) /\ tail = Wrap(Popped)
  BY Counts DEF RingTypeOK, Indices
<1>1. ASSUME pcPop \in {"take", "free"} PROVE head # tail
  <2>1. Popped <= Pushed /\ Popped # Pushed /\ Pushed - Popped < Cap
    BY <1>0, <1>1, RingAssumption DEF Indices
  <2> QED BY <1>0, <2>1, WrapInj
<1>2. ASSUME NEW i \in 0..Popped-1, Wrap(i) = head, pcPush = "write" PROVE i < seenPopped
  <2>1. SUFFICES ASSUME i >= seenPopped PROVE FALSE
    BY <1>0
  <2>2. i \in Nat /\ i <= Pushed /\ i # Pushed /\ Pushed - i < Cap
    BY <1>0, <2>1, RingAssumption DEF Indices
  <2> QED BY <1>0, <1>2, <2>2, WrapInj
<1>3. ASSUME NEW i \in 0..Pushed-1, Wrap(i) = tail, pcPop = "take" PROVE i < seenPushed
  <2>1. SUFFICES ASSUME i >= seenPushed PROVE FALSE
    BY <1>0
  <2>2. i \in Nat /\ Popped <= i /\ i # Popped /\ i - Popped < Cap
    BY <1>0, <1>3, <2>1, RingAssumption DEF Indices
  <2> QED BY <1>0, <1>3, <2>2, WrapInj
<1> QED BY <1>1, <1>2, <1>3 DEF NoSlotRace

\* The release-acquire pairs of spsc_queue.hpp:20-26 leave no data race on a
\* slot.
THEOREM SlotsNeverRace == RingSpec => []NoSlotRace
<1>1. RingTypeOK /\ RingConsistent => NoSlotRace
  BY ConsistentMeansNoRace
<1> QED BY <1>1, RingInvariant, PTL

\* What pop returns is what push took, in order, and Cap - 1 items fit
\* (spsc_queue.hpp:142).
THEOREM FirstInFirstOut == RingSpec => []DeliversInOrder
<1>1. RingInit => DeliversInOrder
  BY EmptySeq, RingAssumption DEF RingInit, DeliversInOrder, Pushed, Popped
<1>2. ASSUME RingTypeOK, RingConsistent, DeliversInOrder, [RingNext]_ringVars,
             (RingTypeOK /\ RingConsistent)'
      PROVE  DeliversInOrder'
  <2>1. Popped' <= Pushed' /\ Pushed' - Popped' <= Cap - 1
    <3>1. Pushed' \in Nat /\ Popped' \in Nat
      BY <1>2, LenProperties DEF RingTypeOK, Pushed, Popped
    <3>2. seenPopped' \in Nat /\ seenPushed' \in Nat
      BY <1>2 DEF RingTypeOK
    <3> QED BY <1>2, <3>1, <3>2, RingAssumption DEF RingConsistent, Pushed, Popped
  <2>2. CASE PublishHead
    <3>1. item \in Items /\ UNCHANGED <<received, Popped>> /\ sent' = Append(sent, item)
      BY <1>2, <2>2 DEF PublishHead, RingTypeOK, consumerVars, Popped
    <3>2. \A i \in 1..Len(sent) : sent'[i] = sent[i]
      BY <1>2, <3>1, AppendProperties DEF RingTypeOK
    <3>3. \A i \in 1..Popped : i \in 1..Len(sent)
      BY <1>2, Counts DEF DeliversInOrder, Pushed
    <3> QED BY <1>2, <2>1, <3>1, <3>2, <3>3 DEF DeliversInOrder
  <2>3. CASE PublishTail
    <3>1. out \in Items /\ out = sent[Popped + 1] /\ sent' = sent /\ received' = Append(received, out)
      BY <1>2, <2>3, TakenItem DEF PublishTail, producerVars
    <3>2. /\ Popped' = Popped + 1
          /\ received'[Popped + 1] = out
          /\ \A i \in 1..Popped : received'[i] = received[i]
      BY <1>2, <3>1, AppendProperties DEF RingTypeOK, Popped
    <3>3. \A i \in 1..Popped' : i = Popped + 1 \/ i \in 1..Popped
      BY <1>2, <3>2, Counts
    <3> QED BY <1>2, <2>1, <3>1, <3>2, <3>3 DEF DeliversInOrder
  <2>4. CASE UNCHANGED <<sent, received>>
    BY <1>2, <2>1, <2>4 DEF DeliversInOrder, Popped, Pushed
  <2> QED
    BY <1>2, <2>2, <2>3, <2>4
    DEF RingNext, Push, Pop, PushCall, RefreshTail, WriteSlot, PopCall, RefreshHead,
        AcquireHead, TakeSlot, ringVars, producerVars, consumerVars
<1> QED BY <1>1, <1>2, RingInvariant, PTL DEF RingSpec
\* The invariants the refinement rests on.
LEMMA QueueFacts ==
  ASSUME RingTypeOK, RingConsistent
  PROVE  /\ Pushed \in Nat /\ Popped \in Nat
         /\ Popped <= Pushed /\ Pushed - Popped < Cap
<1>1. seenPopped \in Nat /\ seenPushed \in Nat
  BY DEF RingTypeOK
<1> QED BY <1>1, Counts, RingAssumption DEF RingConsistent

\* Appending to a sequence appends to what is left after its first m elements.
LEMMA SubSeqOfAppend ==
  ASSUME NEW S, NEW s \in Seq(S), NEW e \in S, NEW m \in 0..Len(s)
  PROVE  /\ SubSeq(Append(s, e), m + 1, Len(s) + 1) = Append(SubSeq(s, m + 1, Len(s)), e)
         /\ Len(SubSeq(s, m + 1, Len(s))) = Len(s) - m
<1> DEFINE a == Append(s, e)
           l == SubSeq(a, m + 1, Len(s) + 1)
           t == SubSeq(s, m + 1, Len(s))
           r == Append(t, e)
<1>0. Len(s) \in Nat /\ m \in Nat /\ m <= Len(s)
  BY LenProperties
<1>1. /\ a \in Seq(S) /\ Len(a) = Len(s) + 1 /\ a[Len(s) + 1] = e
      /\ \A i \in 1..Len(s) : a[i] = s[i]
  BY AppendProperties
<1>2. /\ l \in Seq(S) /\ Len(l) = Len(s) + 1 - m
      /\ \A i \in 1..Len(s) + 1 - m : l[i] = a[m + i]
  BY <1>0, <1>1
<1>3. /\ t \in Seq(S) /\ Len(t) = Len(s) - m
      /\ \A i \in 1..Len(s) - m : t[i] = s[m + i]
  BY <1>0
<1>4. /\ r \in Seq(S) /\ Len(r) = Len(s) - m + 1 /\ r[Len(s) - m + 1] = e
      /\ \A i \in 1..Len(s) - m : r[i] = t[i]
  BY <1>3, AppendProperties
<1> HIDE DEF a, l, t, r
<1>5. ASSUME NEW i \in 1..Len(l) PROVE l[i] = r[i]
  <2>1. i \in 1..Len(s) - m \/ i = Len(s) - m + 1
    BY <1>0, <1>2
  <2>2. CASE i \in 1..Len(s) - m
    <3>1. m + i \in 1..Len(s) /\ i \in 1..Len(s) + 1 - m
      BY <1>0, <2>2
    <3> QED BY <1>1, <1>2, <1>3, <1>4, <2>2, <3>1
  <2>3. CASE i = Len(s) - m + 1
    <3>1. m + i = Len(s) + 1 /\ i \in 1..Len(s) + 1 - m
      BY <1>0, <2>3
    <3> QED BY <1>1, <1>2, <1>4, <2>3, <3>1
  <2> QED BY <2>1, <2>2, <2>3
<1>6. l = r
  <2>1. Len(l) = Len(r)
    BY <1>0, <1>2, <1>4
  <2>2. l \in Seq(S) /\ r \in Seq(S)
    BY <1>2, <1>4
  <2> QED
    BY <1>5, <2>1, <2>2, SeqEqual
<1> QED BY <1>3, <1>6 DEF a, l, t, r

\* Storing head_ is a Put, storing tail_ a Take of BoundedFifo; every other
\* step of push and pop leaves the abstract queue alone.
THEOREM QueueRefinesFifo == RingSpec => ImplementsFifo
<1> DEFINE q == SubSeq(sent, Popped + 1, Pushed)
<1>1. RingInit => Fifo!Init
  <2>1. SUFFICES ASSUME RingInit PROVE q = << >> /\ received = << >>
    BY DEF Fifo!Init
  <2>2. sent = << >> /\ Pushed = 0 /\ Popped = 0 /\ sent \in Seq(Items)
    BY <2>1, EmptySeq DEF RingInit, Pushed, Popped
  <2>3. q = << >>
    BY <2>2, SubSeqEmpty
  <2> QED BY <2>1, <2>3 DEF RingInit
<1>2. ASSUME RingTypeOK, RingConsistent, [RingNext]_ringVars
      PROVE  [Fifo!Next]_<<q, received>>
  <2>0. /\ Pushed \in Nat /\ Popped \in Nat
        /\ Popped <= Pushed /\ Pushed - Popped < Cap
    BY <1>2, QueueFacts
  <2>1. CASE PublishHead
    <3>1. item \in Items /\ received' = received /\ sent' = Append(sent, item)
      BY <1>2, <2>1 DEF PublishHead, RingTypeOK, consumerVars
    <3>2. Popped' = Popped /\ Pushed' = Pushed + 1
      BY <1>2, <3>1, AppendProperties DEF RingTypeOK, Popped, Pushed
    <3>3. q' = Append(q, item) /\ Len(q) = Pushed - Popped
      <4>1. q' = SubSeq(Append(sent, item), Popped + 1, Pushed + 1)
        BY <3>1, <3>2
      <4>2. sent \in Seq(Items) /\ Popped \in 0..Len(sent) /\ Pushed = Len(sent)
        BY <1>2, <2>0 DEF RingTypeOK, Pushed
      <4>3. /\ SubSeq(Append(sent, item), Popped + 1, Len(sent) + 1)
                 = Append(SubSeq(sent, Popped + 1, Len(sent)), item)
            /\ Len(SubSeq(sent, Popped + 1, Len(sent))) = Len(sent) - Popped
        BY <3>1, <4>2, SubSeqOfAppend
      <4> QED BY <4>1, <4>2, <4>3, Zenon
    <3>4. Len(q) < Cap - 1
      <4>1. seenPopped \in Nat /\ seenPopped <= Popped /\ Pushed + 1 - seenPopped < Cap
        BY <1>2, <2>1 DEF PublishHead, RingTypeOK, RingConsistent
      <4> QED BY <2>0, <3>3, <4>1, RingAssumption
    <3> HIDE DEF q
    <3> QED BY <3>1, <3>3, <3>4 DEF Fifo!Next, Fifo!Put, q
  <2>2. CASE PublishTail
    <3>1. /\ out \in Items /\ out = sent[Popped + 1] /\ Popped + 1 \in 1..Len(sent)
          /\ sent' = sent /\ received' = Append(received, out)
      BY <1>2, <2>2, TakenItem DEF PublishTail, producerVars
    <3>2. Popped' = Popped + 1 /\ Pushed' = Pushed
      BY <1>2, <3>1, AppendProperties DEF RingTypeOK, Popped, Pushed
    <3>3. Popped + 1 <= Pushed /\ Popped + 1 \in 1..Len(sent) /\ Pushed \in Popped+1..Len(sent)
      BY <2>0, <3>1 DEF Pushed
    <3>4. Head(q) = out /\ Tail(q) = SubSeq(sent, (Popped + 1) + 1, Pushed)
      BY <1>2, <2>0, <3>1, <3>3, HeadTailOfSubSeq DEF RingTypeOK
    <3>5. q # << >>
      <4>1. Len(q) = Pushed - Popped
        BY <1>2, <2>0, <3>1, SubSeqOfAppend DEF RingTypeOK, Pushed
      <4> HIDE DEF q
      <4> QED BY <2>0, <3>3, <4>1, EmptySeq
    <3>6. q' = Tail(q)
      BY <3>1, <3>2, <3>4
    <3> HIDE DEF q
    <3> QED BY <3>1, <3>4, <3>5, <3>6 DEF Fifo!Next, Fifo!Take, q
  <2>3. CASE UNCHANGED <<sent, received>>
    BY <2>3 DEF Pushed, Popped
  <2> QED
    BY <1>2, <2>1, <2>2, <2>3
    DEF RingNext, Push, Pop, PushCall, RefreshTail, WriteSlot, PopCall, RefreshHead,
        AcquireHead, TakeSlot, ringVars, producerVars, consumerVars
<1> QED BY <1>1, <1>2, RingInvariant, PTL DEF RingSpec, ImplementsFifo, Fifo!Spec
=============================================================================
