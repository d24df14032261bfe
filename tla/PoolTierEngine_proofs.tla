----------------------- MODULE PoolTierEngine_proofs -----------------------
(***************************************************************************)
(* Proofs about PoolTierEngine for any number of jobs, blocks and workers: *)
(* the invariant behind BlocksCountedOnce, and the refinement of           *)
(* BlockEngine.                                                            *)
(***************************************************************************)
EXTENDS PoolTierEngine, TLAPS, FiniteSetTheorems, SequenceTheorems

-----------------------------------------------------------------------------
(* The invariant *)

\* The places of the task queue that hold a job's blocks.
Queued(j) == {n \in DOMAIN tasks : tasks[n][1] = j}

\* Each job's count of blocks left is right.
CountsMatch ==
  \A j \in JobIds : table[j].remaining = Cardinality(Queued(j)) + Cardinality(Held(j))

LiveJobs == {j \in JobIds : table[j].live}

\* The job submit finishes on the spot.
AtOnce == IF pcC \in {"emptyRow", "emptyResult"} THEN 1 ELSE 0

PendingMatches == pending = Cardinality(LiveJobs) + AtOnce

\* Who holds mu_ is where only its holder can be, and a job is being finished
\* exactly while its finisher holds mu_.
LocksMatch ==
  /\ \A w \in Workers : mu = w <=> pcW[w] \in {"block", "log", "publish"}
  /\ mu = Caller <=> pcC \in {"emptyRow", "emptyResult"}
  /\ fin = None <=> mu # Caller /\ \A w \in Workers : pcW[w] \notin {"log", "publish"}

\* A job is in one place: in the table, being finished on the spot, or among
\* the results, there once; the one with no block left is being finished.
JobsMatch ==
  /\ \A j \in JobIds : ~table[j].live => table[j] = NoState
  /\ \A j \in JobIds : table[j].live \/ InResults(j) \/ fin = j => desc[j] # None
  /\ \A j \in JobIds : InResults(j) => ~table[j].live /\ fin # j
  /\ \A j \in JobIds : fin = j => \/ mu = Caller /\ ~table[j].live
                                  \/ mu # Caller /\ table[j].live /\ table[j].remaining = 0
  /\ \A j \in JobIds : table[j].live /\ table[j].remaining = 0 => fin = j
  /\ \A w \in Workers : pcW[w] \in {"io", "settle"} => task[w] \in Tasks
  /\ \A m, n \in DOMAIN results : results[m].job = results[n].job => m = n

\* The inductive invariant.
PoolInv == TypeOK /\ CountsMatch /\ PendingMatches /\ LocksMatch /\ JobsMatch

\* It says what BlocksCountedOnce says.
LEMMA InvCounts == PoolInv => BlocksCountedOnce
  BY DEF PoolInv, CountsMatch, PendingMatches, Queued, LiveJobs, AtOnce, BlocksCountedOnce

-----------------------------------------------------------------------------
(* Finite sets and queues *)

\* Sets of jobs and of workers are finite.
LEMMA FiniteSubsets ==
  /\ \A S \in SUBSET JobIds : IsFiniteSet(S) /\ Cardinality(S) \in Nat
                              /\ Cardinality(S) <= Cardinality(JobIds)
  /\ \A S \in SUBSET Workers : IsFiniteSet(S) /\ Cardinality(S) \in Nat
  BY JobsAssumption, ThreadsAssumption, FS_Subset, FS_CardinalityType

\* So are the places of the queue.
LEMMA QueuedFinite ==
  ASSUME TypeOK, NEW j
  PROVE  IsFiniteSet(Queued(j)) /\ Cardinality(Queued(j)) \in Nat
<1>1. DOMAIN tasks = 1..Len(tasks) /\ Len(tasks) \in Nat
  BY LenProperties DEF TypeOK
<1>2. IsFiniteSet(1..Len(tasks))
  BY <1>1, FS_Interval
<1>3. Queued(j) \in SUBSET (1..Len(tasks))
  BY <1>1 DEF Queued
<1> QED
  BY <1>2, <1>3, FS_Subset, FS_CardinalityType

\* Taking the first task takes one place from its job and none from another.
LEMMA TailCount ==
  ASSUME TypeOK, tasks # << >>, tasks' = Tail(tasks), NEW j
  PROVE  /\ Cardinality(Queued(j)') \in Nat
         /\ Cardinality(Queued(j)) =
              Cardinality(Queued(j)') + (IF Head(tasks)[1] = j THEN 1 ELSE 0)
<1> DEFINE R == Queued(j) \ {1}
           f == [n \in R |-> n - 1]
<1>1. /\ tasks \in Seq(Tasks) /\ Len(tasks) \in Nat /\ DOMAIN tasks = 1..Len(tasks)
      /\ Len(tasks) >= 1
  BY LenProperties, EmptySeq DEF TypeOK
<1>2. /\ Tail(tasks) \in Seq(Tasks) /\ Len(Tail(tasks)) = Len(tasks) - 1
      /\ \A i \in 1..Len(Tail(tasks)) : Tail(tasks)[i] = tasks[i + 1]
      /\ Head(tasks) = tasks[1]
  BY <1>1, HeadTailProperties
<1>3. DOMAIN Tail(tasks) = 1..(Len(tasks) - 1)
  BY <1>2, LenProperties
<1>4. Queued(j)' = {n \in 1..(Len(tasks) - 1) : tasks[n + 1][1] = j}
  BY <1>2, <1>3 DEF Queued
<1>5. R = {n \in 2..Len(tasks) : tasks[n][1] = j}
  BY <1>1 DEF Queued
<1>6. f \in Bijection(R, Queued(j)')
  <2>1. f \in [R -> Queued(j)']
    BY <1>1, <1>4, <1>5
  <2>2. \A a, b \in R : f[a] = f[b] => a = b
    BY <1>1, <1>5
  <2>3. \A m \in Queued(j)' : \E n \in R : f[n] = m
    <3> SUFFICES ASSUME NEW m \in Queued(j)' PROVE \E n \in R : f[n] = m
      OBVIOUS
    <3>1. m + 1 \in R /\ m \in Int
      BY <1>1, <1>4, <1>5
    <3>2. f[m + 1] = m
      BY <3>1
    <3> QED
      BY <3>1, <3>2
  <2> HIDE DEF f, R
  <2> QED
    BY <2>1, <2>2, <2>3 DEF Bijection, Injection, Surjection, IsInjective
<1>7. IsFiniteSet(Queued(j)) /\ Cardinality(Queued(j)) \in Nat
  BY QueuedFinite
<1>8. IsFiniteSet(R) /\ Cardinality(R) = Cardinality(Queued(j)')
  <2>1. ExistsBijection(R, Queued(j)')
    BY <1>6 DEF ExistsBijection
  <2>2. IsFiniteSet(R)
    BY <1>7, FS_RemoveElement
  <2> QED
    BY <2>1, <2>2, FS_Bijection
<1>9. 1 \in Queued(j) <=> Head(tasks)[1] = j
  BY <1>1, <1>2 DEF Queued
<1>10. Cardinality(R) \in Nat
  BY <1>8, FS_CardinalityType
<1> QED
  BY <1>7, <1>8, <1>9, <1>10, FS_RemoveElement

\* The tasks of a job submitted.
Blocks(j, d) == [n \in DOMAIN d.xfers |-> <<j, d.xfers[n]>>]

LEMMA BlocksType ==
  ASSUME NEW j \in JobIds, NEW d \in Workload
  PROVE  /\ d.xfers \in Seq(Keys \X Slots) /\ Len(d.xfers) \in Nat
         /\ DOMAIN d.xfers = 1..Len(d.xfers)
         /\ Blocks(j, d) \in Seq(Tasks) /\ Len(Blocks(j, d)) = Len(d.xfers)
         /\ \A n \in 1..Len(d.xfers) : Blocks(j, d)[n] = <<j, d.xfers[n]>>
                                       /\ d.xfers[n] \in Keys \X Slots
<1>1. /\ d.xfers \in Seq(Keys \X Slots) /\ Len(d.xfers) \in Nat
      /\ DOMAIN d.xfers = 1..Len(d.xfers) /\ \A n \in 1..Len(d.xfers) : d.xfers[n] \in Keys \X Slots
  BY WorkloadAssumption, LenProperties, ElementOfSeq
<1>2. Blocks(j, d) = [n \in 1..Len(d.xfers) |-> <<j, d.xfers[n]>>]
  BY <1>1 DEF Blocks
<1>3. Blocks(j, d) \in [1..Len(d.xfers) -> Tasks]
  BY <1>1, <1>2 DEF Tasks
<1>4. Blocks(j, d) \in Seq(Tasks)
  <2>1. [1..Len(d.xfers) -> Tasks] \in {[1..n -> Tasks] : n \in Nat}
    BY <1>1
  <2>2. Blocks(j, d) \in UNION {[1..n -> Tasks] : n \in Nat}
    BY <1>3, <2>1
  <2> QED
    BY <2>2, SeqDef
<1>5. DOMAIN Blocks(j, d) = 1..Len(Blocks(j, d)) /\ Len(Blocks(j, d)) \in Nat
  BY <1>4, LenProperties
<1>6. Len(Blocks(j, d)) = Len(d.xfers)
  BY <1>1, <1>2, <1>4, <1>5
<1> QED
  BY <1>1, <1>2, <1>4, <1>6

\* Queueing a job's blocks gives it one place for each.
LEMMA SubmitCount ==
  ASSUME TypeOK, NEW j \in JobIds, NEW d \in Workload, tasks' = tasks \o Blocks(j, d)
  PROVE  /\ tasks' \in Seq(Tasks) /\ Len(tasks) \in Nat /\ DOMAIN tasks = 1..Len(tasks)
         /\ DOMAIN tasks' = 1..(Len(tasks) + Len(d.xfers))
         /\ \A i \in 1..Len(tasks) : tasks'[i] = tasks[i]
         /\ \A i \in (Len(tasks) + 1)..(Len(tasks) + Len(d.xfers)) :
              tasks'[i] = <<j, d.xfers[i - Len(tasks)]>> /\ i - Len(tasks) \in DOMAIN d.xfers
         /\ Queued(j) = {} => Cardinality(Queued(j)') = Len(d.xfers)
         /\ \A i : i # j => Queued(i)' = Queued(i)
<1> DEFINE m == Len(tasks)
           n == Len(d.xfers)
<1>1. /\ tasks \in Seq(Tasks) /\ m \in Nat /\ DOMAIN tasks = 1..m
  BY LenProperties DEF TypeOK
<1>2. /\ Blocks(j, d) \in Seq(Tasks) /\ Len(Blocks(j, d)) = n /\ n \in Nat
      /\ \A i \in 1..n : Blocks(j, d)[i] = <<j, d.xfers[i]>>
  BY BlocksType
<1>3. /\ tasks' \in Seq(Tasks) /\ Len(tasks') = m + n
      /\ \A i \in 1..(m + n) : tasks'[i] = IF i <= m THEN tasks[i] ELSE Blocks(j, d)[i - m]
  <2>1. /\ tasks \o Blocks(j, d) \in Seq(Tasks)
        /\ Len(tasks \o Blocks(j, d)) = Len(tasks) + Len(Blocks(j, d))
        /\ \A i \in 1..(Len(tasks) + Len(Blocks(j, d))) :
             (tasks \o Blocks(j, d))[i] =
               IF i <= Len(tasks) THEN tasks[i] ELSE Blocks(j, d)[i - Len(tasks)]
    <3>1. tasks \in Seq(Tasks) /\ Blocks(j, d) \in Seq(Tasks)
      BY <1>1, <1>2
    <3> QED
      BY <3>1, ConcatProperties, Zenon
  <2> QED
    BY <1>2, <2>1
<1>4. DOMAIN tasks' = 1..(m + n)
  BY <1>3, LenProperties
<1>a. ASSUME NEW i \in (m + 1)..(m + n)
      PROVE  tasks'[i] = <<j, d.xfers[i - m]>> /\ i - m \in 1..n
  <2>1. i \in 1..(m + n) /\ ~(i <= m) /\ i - m \in 1..n
    BY <1>1, <1>2
  <2> QED
    BY <1>2, <1>3, <2>1
<1>5. ASSUME NEW i \in (m + 1)..(m + n) PROVE tasks'[i][1] = j
  <2>1. tasks'[i] = <<j, d.xfers[i - m]>>
    BY <1>a
  <2> QED
    BY <2>1
<1>6. ASSUME NEW i \in 1..m PROVE tasks'[i] = tasks[i]
  BY <1>1, <1>2, <1>3
<1> HIDE DEF m, n
<1>7. ASSUME NEW i, i # j PROVE Queued(i)' = Queued(i)
  <2>1. ASSUME NEW x, x \in Queued(i)' PROVE x \in Queued(i)
    <3>1. x \in 1..(m + n) /\ tasks'[x][1] = i
      BY <1>4, <2>1 DEF Queued
    <3>2. x \in 1..m
      BY <1>1, <1>2, <1>5, <1>7, <3>1
    <3> QED
      BY <1>1, <1>6, <3>1, <3>2 DEF Queued
  <2>2. ASSUME NEW x, x \in Queued(i) PROVE x \in Queued(i)'
    <3>1. x \in 1..m /\ tasks[x][1] = i
      BY <1>1, <2>2 DEF Queued
    <3>2. x \in 1..(m + n)
      BY <1>1, <1>2, <3>1
    <3> QED
      BY <1>4, <1>6, <3>1, <3>2 DEF Queued
  <2> QED
    BY <2>1, <2>2
<1>8. ASSUME Queued(j) = {} PROVE Cardinality(Queued(j)') = n
  <2>1. Queued(j)' = (m + 1)..(m + n)
    <3>1. ASSUME NEW x, x \in Queued(j)' PROVE x \in (m + 1)..(m + n)
      <4>1. x \in 1..(m + n) /\ tasks'[x][1] = j
        BY <1>4, <3>1 DEF Queued
      <4>2. x \notin 1..m
        BY <1>1, <1>6, <1>8, <4>1 DEF Queued
      <4> QED
        BY <1>1, <1>2, <4>1, <4>2
    <3>2. ASSUME NEW x \in (m + 1)..(m + n) PROVE x \in Queued(j)'
      <4>1. x \in 1..(m + n)
        BY <1>1, <1>2
      <4> QED
        BY <1>4, <1>5, <4>1 DEF Queued
    <3> QED
      BY <3>1, <3>2
  <2>2. Cardinality((m + 1)..(m + n)) = IF m + 1 > m + n THEN 0 ELSE (m + n) - (m + 1) + 1
    BY <1>1, <1>2, FS_Interval
  <2> QED
    BY <1>1, <1>2, <2>1, <2>2
<1>b. DOMAIN d.xfers = 1..n
  BY BlocksType DEF n
<1> QED
  BY <1>1, <1>3, <1>4, <1>6, <1>7, <1>8, <1>a, <1>b DEF m, n

\* The worker that finishes a job holds mu_, and the job has no block left.
LEMMA WorkerFinishes ==
  ASSUME PoolInv, NEW w \in Workers, pcW[w] \in {"log", "publish"}
  PROVE  /\ mu = w /\ fin \in JobIds /\ table[fin].live /\ table[fin].remaining = 0
         /\ pcC \notin {"emptyRow", "emptyResult"}
<1>1. mu = w /\ mu # Caller /\ fin # None
  BY ThreadsAssumption DEF PoolInv, LocksMatch
<1>2. fin \in JobIds
  BY <1>1 DEF PoolInv, TypeOK
<1> QED
  BY <1>1, <1>2 DEF PoolInv, LocksMatch, JobsMatch

\* So does the caller that finishes a job on the spot, which is not in the table.
LEMMA CallerFinishes ==
  ASSUME PoolInv, pcC \in {"emptyRow", "emptyResult"}
  PROVE  mu = Caller /\ fin \in JobIds /\ ~table[fin].live
<1>1. mu = Caller /\ fin # None
  BY DEF PoolInv, LocksMatch
<1>2. fin \in JobIds
  BY <1>1 DEF PoolInv, TypeOK
<1> QED
  BY <1>1, <1>2 DEF PoolInv, JobsMatch

-----------------------------------------------------------------------------
(* pending_jobs_ *)

\* A step that changes neither the table's jobs nor what submit has in hand.
LEMMA SamePending ==
  ASSUME PendingMatches, LiveJobs' = LiveJobs, AtOnce' = AtOnce, pending' = pending
  PROVE  PendingMatches'
  BY DEF PendingMatches

\* pending_jobs_ counts the jobs in the table and the one in hand.
LEMMA NextPending == PoolInv /\ [Next]_vars => PendingMatches'
<1> SUFFICES ASSUME PoolInv, [Next]_vars PROVE PendingMatches'
  OBVIOUS
<1>1. /\ IsFiniteSet(LiveJobs) /\ Cardinality(LiveJobs) \in Nat
      /\ pending = Cardinality(LiveJobs) + AtOnce
      /\ table \in [JobIds -> JobState]
  BY FiniteSubsets DEF LiveJobs, PoolInv, PendingMatches, TypeOK
<1>2. ASSUME NEW j \in JobIds, NEW d \in Workload, SubmitEmpty(j, d) PROVE PendingMatches'
  <2>1. LiveJobs' = LiveJobs /\ AtOnce = 0 /\ AtOnce' = 1 /\ pending' = pending + 1
    BY <1>2 DEF SubmitEmpty, Submitted, LiveJobs, AtOnce
  <2> QED
    BY <1>1, <2>1 DEF PendingMatches
<1>3. ASSUME NEW j \in JobIds, NEW d \in Workload, SubmitBlocks(j, d) PROVE PendingMatches'
  <2>1. /\ AtOnce = 0 /\ AtOnce' = 0 /\ pending' = pending + 1
        /\ desc[j] = None
    BY <1>3 DEF SubmitBlocks, Submitted, AtOnce
  <2>2. j \notin LiveJobs
    BY <2>1 DEF LiveJobs, PoolInv, JobsMatch
  <2>3. LiveJobs' = LiveJobs \cup {j}
    BY <1>1, <1>3 DEF SubmitBlocks, LiveJobs
  <2> QED
    <3>1. Cardinality(LiveJobs') = Cardinality(LiveJobs) + 1
      BY <1>1, <2>2, <2>3, FS_AddElement
    <3> QED
      BY <1>1, <2>1, <3>1 DEF PendingMatches
<1>4. CASE EmptyResult
  <2>1. LiveJobs' = LiveJobs /\ AtOnce = 1 /\ AtOnce' = 0 /\ pending' = pending - 1
    BY <1>4 DEF EmptyResult, LiveJobs, AtOnce
  <2> QED
    BY <1>1, <2>1 DEF PendingMatches
<1>5. ASSUME NEW w \in Workers, Publish(w) PROVE PendingMatches'
  <2>1. /\ AtOnce' = AtOnce /\ pending' = pending - 1 /\ table' = [table EXCEPT ![fin] = NoState]
        /\ fin \in JobIds /\ fin \in LiveJobs
    BY <1>5, WorkerFinishes DEF Publish, AtOnce, LiveJobs
  <2>2. LiveJobs' = LiveJobs \ {fin}
    BY <1>1, <2>1 DEF LiveJobs, NoState
  <2>3. AtOnce \in Int
    BY DEF AtOnce
  <2> QED
    <3>1. Cardinality(LiveJobs') = Cardinality(LiveJobs) - 1
      BY <1>1, <2>1, <2>2, FS_RemoveElement
    <3> QED
      BY <1>1, <2>1, <2>3, <3>1 DEF PendingMatches
<1>6. ASSUME NEW w \in Workers, Settle(w) PROVE PendingMatches'
  <2>1. LiveJobs' = LiveJobs
    BY <1>1, <1>6 DEF Settle, LiveJobs, JobState
  <2> QED
    BY <1>6, <2>1, SamePending DEF Settle, AtOnce, PoolInv
<1>7. CASE \/ EmptyRow \/ Notify \/ Poll \/ DrainRecords \/ DrainCall \/ DrainReturn
           \/ Destroy \/ StopNotify \/ Join \/ Gone
  <2>1. table' = table /\ pending' = pending /\ AtOnce' = AtOnce
    BY <1>7 DEF EmptyRow, Notify, Poll, DrainRecords, DrainCall, DrainReturn, Destroy,
                StopNotify, Join, Gone, vars, books, AtOnce
  <2> QED
    BY <2>1, SamePending DEF LiveJobs, PoolInv
<1>8. ASSUME NEW w \in Workers,
             \/ TakeTask(w) \/ FindNothing(w) \/ Block(w) \/ Exit(w) \/ TransferOne(w)
             \/ LogRow(w) \/ WakeSpuriously(w)
      PROVE  PendingMatches'
  <2>1. UNCHANGED <<table, pending, pcC>>
    BY <1>8 DEF TakeTask, FindNothing, Block, Exit, TransferOne, LogRow, WakeSpuriously, books
  <2> QED
    BY <2>1, SamePending DEF LiveJobs, AtOnce, PoolInv
<1>9. CASE UNCHANGED vars
  BY <1>9, SamePending DEF vars, books, LiveJobs, AtOnce, PoolInv
<1> QED
  BY <1>2, <1>3, <1>4, <1>5, <1>6, <1>7, <1>8, <1>9 DEF Next, Worker

-----------------------------------------------------------------------------
(* The types *)

\* What is submitted has a place to be counted in.
LEMMA SubmittedRoom ==
  ASSUME PoolInv, NEW j \in JobIds, NEW d, Submitted(j, d)
  PROVE  pending' \in 0..Cardinality(JobIds)
<1>1. pending = Cardinality(LiveJobs) /\ j \notin LiveJobs /\ pending' = pending + 1
  BY FiniteSubsets DEF Submitted, PoolInv, PendingMatches, AtOnce, LiveJobs, JobsMatch
<1>2. LiveJobs \cup {j} \in SUBSET JobIds /\ IsFiniteSet(LiveJobs)
  BY FiniteSubsets DEF LiveJobs
<1>3. Cardinality(LiveJobs \cup {j}) = Cardinality(LiveJobs) + 1
  BY <1>1, <1>2, FS_AddElement
<1>4. Cardinality(LiveJobs \cup {j}) \in Nat /\ Cardinality(LiveJobs \cup {j}) <= Cardinality(JobIds)
  BY <1>2, FiniteSubsets
<1>5. Cardinality(JobIds) \in Nat /\ Cardinality(LiveJobs) \in Nat
  BY FiniteSubsets DEF LiveJobs
<1> QED
  BY <1>1, <1>3, <1>4, <1>5

\* A job in the table or in hand has been counted.
LEMMA CountedOff ==
  ASSUME PoolInv, pending' = pending - 1, fin \in LiveJobs \/ AtOnce = 1
  PROVE  pending' \in 0..Cardinality(JobIds)
<1>1. IsFiniteSet(LiveJobs) /\ Cardinality(LiveJobs) \in Nat /\ AtOnce \in {0, 1}
  BY FiniteSubsets DEF LiveJobs, AtOnce
<1>2. LiveJobs # {} => Cardinality(LiveJobs) # 0
  BY <1>1, FS_EmptySet
<1>3. Cardinality(JobIds) \in Nat /\ pending \in 0..Cardinality(JobIds)
      /\ pending = Cardinality(LiveJobs) + AtOnce
  BY FiniteSubsets DEF PoolInv, TypeOK, PendingMatches
<1>4. pending >= 1
  BY <1>1, <1>2, <1>3
<1> QED
  BY <1>3, <1>4

\* Every step keeps the types.
LEMMA NextTypes == PoolInv /\ [Next]_vars => TypeOK'
<1> SUFFICES ASSUME PoolInv, [Next]_vars PROVE TypeOK'
  OBVIOUS
<1>1. TypeOK
  BY DEF PoolInv
<1>2. ASSUME NEW j \in JobIds, NEW d \in Workload, SubmitEmpty(j, d) PROVE TypeOK'
  <2>1. pending' \in 0..Cardinality(JobIds)
    BY <1>2, SubmittedRoom DEF SubmitEmpty
  <2> QED
    BY <1>1, <1>2, <2>1 DEF SubmitEmpty, Submitted, TypeOK, workers, contents
<1>3. ASSUME NEW j \in JobIds, NEW d \in Workload, SubmitBlocks(j, d) PROVE TypeOK'
  <2>1. pending' \in 0..Cardinality(JobIds)
    BY <1>3, SubmittedRoom DEF SubmitBlocks
  <2>2. tasks' \in Seq(Tasks)
    BY <1>1, <1>3, SubmitCount DEF SubmitBlocks, Blocks
  <2>3. table' \in [JobIds -> JobState]
    <3>1. Len(d.xfers) \in Nat
      BY BlocksType
    <3> QED
      BY <1>1, <1>3, <3>1 DEF SubmitBlocks, TypeOK, JobState
  <2> QED
    BY <1>1, <1>3, <2>1, <2>2, <2>3 DEF SubmitBlocks, Submitted, TypeOK, workers, contents
<1>4. CASE EmptyResult
  <2>1. fin \in JobIds
    BY <1>1, <1>4 DEF EmptyResult, PoolInv, LocksMatch, TypeOK
  <2>2. pending' \in 0..Cardinality(JobIds)
    BY <1>4, CountedOff DEF EmptyResult, AtOnce
  <2>3. results' \in Seq([job : JobIds, ok : BOOLEAN])
    BY <1>1, <1>4, <2>1, AppendProperties DEF EmptyResult, TypeOK
  <2> QED
    BY <1>1, <1>4, <2>2, <2>3 DEF EmptyResult, TypeOK, workers, contents
<1>5. ASSUME NEW w \in Workers, Publish(w) PROVE TypeOK'
  <2>1. fin \in JobIds /\ fin \in LiveJobs
    BY <1>5, WorkerFinishes DEF Publish, LiveJobs
  <2>2. pending' \in 0..Cardinality(JobIds)
    BY <1>5, <2>1, CountedOff DEF Publish
  <2>3. [job |-> fin, ok |-> ~table[fin].failed] \in [job : JobIds, ok : BOOLEAN]
    BY <1>1, <2>1 DEF TypeOK, JobState
  <2>4. results' \in Seq([job : JobIds, ok : BOOLEAN])
    BY <1>1, <1>5, <2>3, AppendProperties DEF Publish, TypeOK
  <2>5. NoState \in JobState
    BY DEF NoState, JobState
  <2> QED
    BY <1>1, <1>5, <2>1, <2>2, <2>4, <2>5 DEF Publish, Goes, TypeOK, contents
<1>6. ASSUME NEW w \in Workers, Settle(w) PROVE TypeOK'
  <2>1. task[w] \in Tasks /\ task[w][1] \in JobIds
    BY <1>6 DEF Settle, PoolInv, JobsMatch, Tasks
  <2>2. table[task[w][1]].remaining - 1 \in Nat
    <3>1. w \in Held(task[w][1]) /\ Held(task[w][1]) \in SUBSET Workers
      BY <1>6 DEF Settle, Held
    <3>2. IsFiniteSet(Held(task[w][1])) /\ Cardinality(Held(task[w][1])) \in Nat
          /\ Cardinality(Held(task[w][1])) # 0
      BY <3>1, FiniteSubsets, FS_EmptySet
    <3>3. Cardinality(Queued(task[w][1])) \in Nat
      BY <1>1, QueuedFinite
    <3> QED
      BY <2>1, <3>2, <3>3 DEF PoolInv, CountsMatch
  <2>3. VerdictSoFar(w) \in BOOLEAN
    BY <1>1, <2>1 DEF VerdictSoFar, TypeOK, JobState
  <2>4. table' \in [JobIds -> JobState]
    <3> DEFINE j == task[w][1]
               new == [table[j] EXCEPT !.remaining = @ - 1, !.failed = VerdictSoFar(w)]
    <3>1. table \in [JobIds -> JobState] /\ table[j] \in JobState
      BY <1>1, <2>1 DEF TypeOK
    <3>2. new \in JobState
      BY <2>2, <2>3, <3>1 DEF JobState
    <3>3. table' = [table EXCEPT ![j] = new]
      BY <1>6, <2>1, <3>1 DEF Settle
    <3> QED
      BY <3>1, <3>2, <3>3
  <2> QED
    BY <1>1, <1>6, <2>1, <2>4 DEF Settle, Goes, TypeOK, contents
<1>7. CASE Poll
  <2> DEFINE n == IF Len(results) < PollMax THEN Len(results) ELSE PollMax
  <2>1. /\ results \in Seq([job : JobIds, ok : BOOLEAN]) /\ Len(results) \in Nat /\ n \in Nat
        /\ \A i \in n + 1..Len(results) : results[i] \in [job : JobIds, ok : BOOLEAN]
    <3>1. results \in Seq([job : JobIds, ok : BOOLEAN]) /\ PollMax \in Nat
      BY <1>1, ThreadsAssumption DEF TypeOK
    <3>2. Len(results) \in Nat /\ n \in Nat
      BY <3>1, LenProperties
    <3>3. \A i \in 1..Len(results) : results[i] \in [job : JobIds, ok : BOOLEAN]
      BY <3>1, ElementOfSeq
    <3> QED
      BY <3>1, <3>2, <3>3
  <2>2. results' \in Seq([job : JobIds, ok : BOOLEAN])
    BY <1>7, <2>1, SubSeqProperties DEF Poll
  <2> QED
    BY <1>1, <1>7, <2>2 DEF Poll, TypeOK, workers, contents
<1>8. CASE \/ EmptyRow \/ Notify \/ DrainRecords \/ DrainCall \/ DrainReturn
           \/ Destroy \/ StopNotify \/ Join \/ Gone \/ UNCHANGED vars
  <2>1. CASE EmptyRow
    <3>1. fin \in JobIds
      BY <1>1, <2>1 DEF EmptyRow, PoolInv, LocksMatch, TypeOK
    <3> QED
      BY <1>1, <2>1, <3>1 DEF EmptyRow, TypeOK, workers, contents
  <2>2. CASE Notify \/ StopNotify
    BY <1>1, <2>2 DEF Notify, StopNotify, Woken, TypeOK, books, contents
  <2>3. CASE DrainRecords \/ DrainCall \/ DrainReturn \/ Destroy \/ Join \/ Gone \/ UNCHANGED vars
    BY <1>1, <2>3 DEF DrainRecords, DrainCall, DrainReturn, Destroy, Join, Gone, TypeOK,
                      vars, books, workers, contents
  <2> QED
    BY <1>8, <2>1, <2>2, <2>3
<1>9. ASSUME NEW w \in Workers, TransferOne(w) PROVE TypeOK'
  <2>1. task[w] \in Tasks /\ task[w][2][1] \in Keys /\ task[w][2][2] \in Slots
    BY <1>9 DEF TransferOne, PoolInv, JobsMatch, Tasks
  <2>2. disk' \in [Slots -> Keys \cup {Blank}] /\ misread' \in SUBSET Keys
    BY <1>1, <1>9, <2>1 DEF TransferOne, TypeOK
  <2> QED
    BY <1>1, <1>9, <2>2 DEF TransferOne, Goes, TypeOK, books
<1>10. ASSUME NEW w \in Workers,
              TakeTask(w) \/ FindNothing(w) \/ Block(w) \/ Exit(w) \/ LogRow(w) \/ WakeSpuriously(w)
       PROVE  TypeOK'
  <2>1. CASE TakeTask(w)
    <3>1. Head(tasks) \in Tasks /\ Tail(tasks) \in Seq(Tasks)
      BY <1>1, <2>1, HeadTailProperties DEF TakeTask, TypeOK
    <3> QED
      BY <1>1, <2>1, <3>1 DEF TakeTask, Goes, TypeOK, contents
  <2>2. CASE LogRow(w)
    <3>1. fin \in JobIds
      BY <1>1, <2>2 DEF LogRow, PoolInv, LocksMatch, TypeOK
    <3> QED
      BY <1>1, <2>2, <3>1 DEF LogRow, Goes, TypeOK, contents
  <2>3. CASE FindNothing(w) \/ Block(w) \/ Exit(w) \/ WakeSpuriously(w)
    BY <1>1, <2>3 DEF FindNothing, Block, Exit, WakeSpuriously, Goes, TypeOK, books, contents
  <2> QED
    BY <1>10, <2>1, <2>2, <2>3
<1> QED
  BY <1>2, <1>3, <1>4, <1>5, <1>6, <1>7, <1>8, <1>9, <1>10 DEF Next, Worker

-----------------------------------------------------------------------------
(* Who holds mu_ *)

\* Every step keeps the lock and its holder's place together.
LEMMA NextLocks == PoolInv /\ [Next]_vars => LocksMatch'
<1> SUFFICES ASSUME PoolInv, [Next]_vars PROVE LocksMatch'
  OBVIOUS
<1>1. /\ TypeOK /\ LocksMatch /\ Caller \notin Workers /\ Caller # None
      /\ None \notin Workers /\ None \notin JobIds
  BY ThreadsAssumption, JobsAssumption DEF PoolInv
<1>2. ASSUME NEW j \in JobIds, NEW d \in Workload, SubmitEmpty(j, d) \/ SubmitBlocks(j, d)
      PROVE  LocksMatch'
  BY <1>1, <1>2 DEF SubmitEmpty, SubmitBlocks, Submitted, workers, LocksMatch
<1>3. CASE EmptyRow \/ EmptyResult
  BY <1>1, <1>3 DEF EmptyRow, EmptyResult, workers, LocksMatch
<1>4. CASE Notify \/ StopNotify
  BY <1>1, <1>4 DEF Notify, StopNotify, Woken, LocksMatch, TypeOK
<1>5. CASE \/ Poll \/ DrainRecords \/ DrainCall \/ DrainReturn \/ Destroy \/ Join \/ Gone
           \/ UNCHANGED vars
  BY <1>1, <1>5 DEF Poll, DrainRecords, DrainCall, DrainReturn, Destroy, Join, Gone, vars,
                    workers, LocksMatch
<1>6. ASSUME NEW w \in Workers, Settle(w) PROVE LocksMatch'
  <2>1. pcW \in [Workers -> {"enter", "block", "waiting", "io", "settle", "log", "publish", "exit"}]
    BY <1>1 DEF TypeOK
  <2>2. task[w][1] \in JobIds /\ mu = None /\ pcW[w] = "settle" /\ pcC' = pcC
    BY <1>6 DEF Settle, PoolInv, JobsMatch, Tasks
  <2>3. CASE mu' = w /\ fin' = task[w][1] /\ Goes(w, "log")
    BY <1>1, <2>1, <2>2, <2>3 DEF Goes, LocksMatch
  <2>4. CASE Goes(w, "enter") /\ UNCHANGED <<mu, fin>>
    BY <1>1, <2>1, <2>2, <2>4 DEF Goes, LocksMatch
  <2> QED
    BY <1>6, <2>3, <2>4 DEF Settle
<1>7. ASSUME NEW w \in Workers, LogRow(w) \/ Publish(w) PROVE LocksMatch'
  <2>1. /\ pcW[w] \in {"log", "publish"} /\ mu = w /\ pcC' = pcC
        /\ \A v \in Workers : v # w => pcW[v] \notin {"block", "log", "publish"}
    BY <1>1, <1>7 DEF LogRow, Publish, LocksMatch
  <2>2. CASE LogRow(w)
    <3>1. /\ mu' = mu /\ fin' = fin /\ pcW'[w] = "publish"
          /\ \A v \in Workers : v # w => pcW'[v] = pcW[v]
      BY <1>1, <2>2 DEF LogRow, Goes, TypeOK
    <3> QED
      BY <1>1, <2>1, <3>1 DEF LocksMatch
  <2>3. CASE Publish(w)
    <3>1. /\ mu' = None /\ fin' = None /\ pcW'[w] = "enter"
          /\ \A v \in Workers : v # w => pcW'[v] = pcW[v]
      BY <1>1, <2>3 DEF Publish, Goes, TypeOK
    <3> QED
      BY <1>1, <2>1, <3>1 DEF LocksMatch
  <2> QED
    BY <1>7, <2>2, <2>3
<1>8. ASSUME NEW w \in Workers,
             \/ TakeTask(w) \/ FindNothing(w) \/ Block(w) \/ Exit(w) \/ TransferOne(w)
             \/ WakeSpuriously(w)
      PROVE  LocksMatch'
  BY <1>1, <1>8 DEF TakeTask, FindNothing, Block, Exit, TransferOne, WakeSpuriously, Goes,
                    LocksMatch, TypeOK
<1> QED
  BY <1>2, <1>3, <1>4, <1>5, <1>6, <1>7, <1>8 DEF Next, Worker

-----------------------------------------------------------------------------
(* Blocks left *)

\* A step that moves no task and no job's count.
LEMMA SameCounts ==
  ASSUME CountsMatch, UNCHANGED <<tasks, table>>, \A j \in JobIds : Held(j)' = Held(j)
  PROVE  CountsMatch'
  BY DEF CountsMatch, Queued

\* A job in no worker's hands and without a task in the queue: where counts are
\* zero.
LEMMA NothingLeft ==
  ASSUME PoolInv, NEW j \in JobIds, table[j].remaining = 0
  PROVE  Queued(j) = {} /\ Held(j) = {}
<1>1. /\ IsFiniteSet(Queued(j)) /\ Cardinality(Queued(j)) \in Nat
      /\ IsFiniteSet(Held(j)) /\ Cardinality(Held(j)) \in Nat
  BY QueuedFinite, FiniteSubsets DEF PoolInv, Held
<1>2. Cardinality(Queued(j)) = 0 /\ Cardinality(Held(j)) = 0
  BY <1>1 DEF PoolInv, CountsMatch
<1> QED
  BY <1>1, <1>2, FS_EmptySet

\* A block in some worker's hands is counted.
LEMMA HeldIsLive ==
  ASSUME PoolInv, NEW w \in Workers, pcW[w] \in {"io", "settle"}
  PROVE  /\ task[w] \in Tasks /\ task[w][1] \in JobIds /\ w \in Held(task[w][1])
         /\ table[task[w][1]].live /\ table[task[w][1]].remaining \in Nat \ {0}
         /\ fin # task[w][1]
<1>1. task[w] \in Tasks /\ task[w][1] \in JobIds /\ w \in Held(task[w][1])
  BY DEF PoolInv, JobsMatch, Tasks, Held
<1>2. table[task[w][1]].remaining # 0 /\ table[task[w][1]].remaining \in Nat
  BY <1>1, NothingLeft DEF PoolInv, TypeOK, JobState
<1> QED
  BY <1>1, <1>2 DEF PoolInv, JobsMatch, NoState

\* Every step counts each block once.
LEMMA NextCounts == PoolInv /\ [Next]_vars => CountsMatch'
<1> SUFFICES ASSUME PoolInv, [Next]_vars PROVE CountsMatch'
  OBVIOUS
<1>1. /\ TypeOK /\ CountsMatch
      /\ \A j \in JobIds : /\ IsFiniteSet(Queued(j)) /\ Cardinality(Queued(j)) \in Nat
                           /\ IsFiniteSet(Held(j)) /\ Cardinality(Held(j)) \in Nat
  BY QueuedFinite, FiniteSubsets DEF PoolInv, Held
<1>2. ASSUME NEW j \in JobIds, NEW d \in Workload, SubmitBlocks(j, d) PROVE CountsMatch'
  <2>1. /\ tasks' = tasks \o Blocks(j, d) /\ Len(d.xfers) \in Nat
        /\ UNCHANGED <<pcW, task>> /\ desc[j] = None
        /\ table' = [table EXCEPT ![j] =
             [live |-> TRUE, remaining |-> Len(d.xfers), failed |-> FALSE]]
    BY <1>2, BlocksType DEF SubmitBlocks, Submitted, Blocks, workers
  <2>2. table[j].remaining = 0
    BY <2>1 DEF PoolInv, JobsMatch, NoState
  <2>3. Queued(j) = {} /\ Held(j) = {}
    BY <2>2, NothingLeft
  <2>4. Cardinality(Queued(j)') = Len(d.xfers) /\ \A i : i # j => Queued(i)' = Queued(i)
    BY <1>1, <2>1, <2>3, SubmitCount
  <2>5. \A i \in JobIds : Held(i)' = Held(i)
    BY <2>1 DEF Held
  <2>6. Cardinality(Held(j)') = 0
    BY <2>3, <2>5, FS_EmptySet
  <2>7. table'[j].remaining = Len(d.xfers) /\ \A i \in JobIds : i # j => table'[i] = table[i]
    BY <1>1, <2>1 DEF TypeOK
  <2> QED
    BY <1>1, <2>1, <2>4, <2>5, <2>6, <2>7 DEF CountsMatch
<1>3. ASSUME NEW w \in Workers, TakeTask(w) PROVE CountsMatch'
  <2>0. PICK j \in JobIds : j = Head(tasks)[1]
    BY <1>1, <1>3, HeadTailProperties DEF TakeTask, TypeOK, Tasks
  <2>1. /\ tasks # << >> /\ tasks' = Tail(tasks) /\ table' = table /\ pcW[w] = "enter"
        /\ task' = [task EXCEPT ![w] = Head(tasks)] /\ pcW' = [pcW EXCEPT ![w] = "io"]
    BY <1>3 DEF TakeTask, Goes
  <2>3. Held(j)' = Held(j) \cup {w} /\ w \notin Held(j)
    BY <1>1, <2>1, <2>0 DEF Held, TypeOK
  <2>4. \A i \in JobIds : i # j => Held(i)' = Held(i)
    BY <1>1, <2>1, <2>0 DEF Held, TypeOK
  <2>5. Cardinality(Held(j)') = Cardinality(Held(j)) + 1
    BY <1>1, <2>0, <2>3, FS_AddElement
  <2>6. \A i \in JobIds : /\ Cardinality(Queued(i)')  \in Nat
                          /\ Cardinality(Queued(i)) =
                               Cardinality(Queued(i)') + (IF j = i THEN 1 ELSE 0)
    BY <1>1, <2>1, <2>0, TailCount
  <2> SUFFICES ASSUME NEW i \in JobIds
               PROVE  table'[i].remaining = Cardinality(Queued(i)') + Cardinality(Held(i)')
    BY DEF CountsMatch
  <2>7. /\ table'[i].remaining = Cardinality(Queued(i)) + Cardinality(Held(i))
        /\ Cardinality(Queued(i)) \in Nat /\ Cardinality(Held(i)) \in Nat
    BY <1>1, <2>1 DEF CountsMatch
  <2>8. CASE i = j
    <3>1. /\ Cardinality(Queued(i)) = Cardinality(Queued(i)') + 1
          /\ Cardinality(Held(i)') = Cardinality(Held(i)) + 1
          /\ Cardinality(Queued(i)') \in Nat
      BY <2>0, <2>5, <2>6, <2>8
    <3> QED
      BY <2>7, <3>1
  <2>9. CASE i # j
    BY <2>4, <2>6, <2>7, <2>9
  <2> QED
    BY <2>8, <2>9
<1>4. ASSUME NEW w \in Workers, Settle(w) PROVE CountsMatch'
  <2>0. PICK j \in JobIds : j = task[w][1]
    BY <1>4, HeldIsLive DEF Settle
  <2>1. /\ pcW[w] = "settle" /\ tasks' = tasks
        /\ task' = [task EXCEPT ![w] = None]
        /\ table' = [table EXCEPT ![j].remaining = @ - 1, ![j].failed = VerdictSoFar(w)]
        /\ pcW' = [pcW EXCEPT ![w] = "log"] \/ pcW' = [pcW EXCEPT ![w] = "enter"]
    BY <1>4, <2>0 DEF Settle, Goes
  <2>2. w \in Held(j)
    BY <2>0, <2>1 DEF Held
  <2>3. /\ Held(j)' = Held(j) \ {w}
        /\ \A i \in JobIds : i # j => Held(i)' = Held(i)
    BY <1>1, <2>0, <2>1 DEF Held, TypeOK
  <2>4. Cardinality(Held(j)') = Cardinality(Held(j)) - 1
    BY <1>1, <2>2, <2>3, FS_RemoveElement
  <2>5. /\ table'[j].remaining = table[j].remaining - 1
        /\ \A i \in JobIds : i # j => table'[i] = table[i]
    BY <1>1, <2>1, <2>2 DEF TypeOK, JobState
  <2>6. \A i \in JobIds : Queued(i)' = Queued(i)
    BY <2>1 DEF Queued
  <2> SUFFICES ASSUME NEW i \in JobIds
               PROVE  table'[i].remaining = Cardinality(Queued(i)') + Cardinality(Held(i)')
    BY DEF CountsMatch
  <2>7. /\ table[i].remaining = Cardinality(Queued(i)) + Cardinality(Held(i))
        /\ Cardinality(Queued(i)) \in Nat /\ Cardinality(Held(i)) \in Nat
    BY <1>1 DEF CountsMatch
  <2>8. CASE i = j
    <3>1. /\ Cardinality(Queued(i)') = Cardinality(Queued(i))
          /\ Cardinality(Held(i)') = Cardinality(Held(i)) - 1
          /\ table'[i].remaining = table[i].remaining - 1
      BY <2>4, <2>5, <2>6, <2>8
    <3> QED
      BY <2>7, <3>1
  <2>9. CASE i # j
    BY <2>3, <2>5, <2>6, <2>7, <2>9
  <2> QED
    BY <2>8, <2>9
<1>5. ASSUME NEW w \in Workers, Publish(w) PROVE CountsMatch'
  <2>1. /\ UNCHANGED <<tasks, task>> /\ pcW[w] = "publish" /\ pcW' = [pcW EXCEPT ![w] = "enter"]
        /\ table' = [table EXCEPT ![fin] = NoState]
    BY <1>5 DEF Publish, Goes
  <2>2. fin \in JobIds /\ table[fin].remaining = 0
    BY <2>1, WorkerFinishes
  <2>3. \A i \in JobIds : Held(i)' = Held(i)
    BY <1>1, <2>1 DEF Held, TypeOK
  <2>4. \A i \in JobIds : table'[i].remaining = table[i].remaining
    BY <1>1, <2>1, <2>2 DEF TypeOK, NoState
  <2> QED
    BY <1>1, <2>1, <2>3, <2>4 DEF CountsMatch, Queued
<1>6. ASSUME NEW w \in Workers,
             \/ FindNothing(w) \/ Block(w) \/ Exit(w) \/ WakeSpuriously(w) \/ LogRow(w)
             \/ TransferOne(w)
      PROVE  CountsMatch'
  <2>1. /\ UNCHANGED <<tasks, table, task>>
        /\ \/ pcW[w] = "io" /\ pcW' = [pcW EXCEPT ![w] = "settle"]
           \/ /\ pcW[w] \notin {"io", "settle"}
              /\ \E to \in {"block", "waiting", "exit", "enter", "publish"} :
                   pcW' = [pcW EXCEPT ![w] = to]
    BY <1>6 DEF FindNothing, Block, Exit, WakeSpuriously, LogRow, TransferOne, Goes, books
  <2>2. \A i \in JobIds : Held(i)' = Held(i)
    BY <1>1, <2>1 DEF Held, TypeOK
  <2> QED
    BY <1>1, <2>1, <2>2, SameCounts
<1>7. CASE Notify \/ StopNotify
  <2>1. \A i \in JobIds : Held(i)' = Held(i)
    BY <1>1, <1>7 DEF Notify, StopNotify, Woken, Held, TypeOK
  <2> QED
    BY <1>1, <1>7, <2>1, SameCounts DEF Notify, StopNotify, books
<1>8. CASE \/ EmptyRow \/ EmptyResult \/ Poll \/ DrainRecords \/ DrainCall \/ DrainReturn
           \/ Destroy \/ Join \/ Gone \/ UNCHANGED vars
           \/ \E j \in JobIds, d \in Workload : SubmitEmpty(j, d)
  <2>1. UNCHANGED <<tasks, table, task, pcW>>
    BY <1>8 DEF EmptyRow, EmptyResult, Poll, DrainRecords, DrainCall, DrainReturn, Destroy,
                Join, Gone, SubmitEmpty, vars, books, workers
  <2>2. \A i \in JobIds : Held(i)' = Held(i)
    BY <2>1 DEF Held
  <2> QED
    BY <1>1, <2>1, <2>2, SameCounts
<1> QED
  BY <1>2, <1>3, <1>4, <1>5, <1>6, <1>7, <1>8 DEF Next, Worker

-----------------------------------------------------------------------------
(* Where a job is *)

ResultRecord == [job : JobIds, ok : BOOLEAN]

\* No job twice among the results.
OneResult == \A m, n \in DOMAIN results : results[m].job = results[n].job => m = n

\* A first result added.
LEMMA AppendResult ==
  ASSUME TypeOK, OneResult, NEW r \in ResultRecord, results' = Append(results, r),
         ~InResults(r.job)
  PROVE  /\ OneResult'
         /\ \A i : InResults(i)' <=> InResults(i) \/ i = r.job
<1>1. /\ results \in Seq(ResultRecord) /\ Len(results) \in Nat
      /\ DOMAIN results = 1..Len(results)
  BY LenProperties DEF TypeOK, ResultRecord
<1>2. /\ results' \in Seq(ResultRecord) /\ Len(results') = Len(results) + 1
      /\ \A i \in 1..Len(results) : results'[i] = results[i]
      /\ results'[Len(results) + 1] = r
  BY <1>1, AppendProperties
<1>3. DOMAIN results' = 1..(Len(results) + 1)
  BY <1>2, LenProperties
<1>4. \A i \in 1..Len(results) : results[i].job # r.job
  BY <1>1 DEF InResults
<1>5. \A i \in 1..(Len(results) + 1) : i \in 1..Len(results) \/ i = Len(results) + 1
  BY <1>1
<1>6. ASSUME NEW m \in DOMAIN results', NEW n \in DOMAIN results',
             results'[m].job = results'[n].job
      PROVE  m = n
  BY <1>1, <1>2, <1>3, <1>4, <1>5, <1>6 DEF OneResult
<1>7. ASSUME NEW i PROVE InResults(i)' <=> InResults(i) \/ i = r.job
  <2>1. ASSUME InResults(i) PROVE InResults(i)'
    <3>1. PICK n \in 1..Len(results) : results[n].job = i
      BY <1>1, <2>1 DEF InResults
    <3>2. n \in DOMAIN results' /\ results'[n].job = i
      BY <1>1, <1>2, <1>3, <3>1
    <3> QED
      BY <3>2 DEF InResults
  <2>2. ASSUME i = r.job PROVE InResults(i)'
    <3>1. Len(results) + 1 \in DOMAIN results' /\ results'[Len(results) + 1].job = i
      BY <1>1, <1>2, <1>3, <2>2
    <3> QED
      BY <3>1 DEF InResults
  <2>3. ASSUME InResults(i)', i # r.job PROVE InResults(i)
    <3>1. PICK n \in DOMAIN results' : results'[n].job = i
      BY <2>3 DEF InResults
    <3>2. n \in 1..Len(results) /\ results[n].job = i
      BY <1>2, <1>3, <1>5, <2>3, <3>1
    <3> QED
      BY <1>1, <3>2 DEF InResults
  <2> QED
    BY <2>1, <2>2, <2>3
<1> QED
  BY <1>6, <1>7 DEF OneResult

\* The results poll returns.
PollCount == IF Len(results) < PollMax THEN Len(results) ELSE PollMax
PollSet == {results[i].job : i \in 1..PollCount}

\* What poll takes away it takes away for good.
LEMMA PollResults ==
  ASSUME TypeOK, OneResult, results' = SubSeq(results, PollCount + 1, Len(results))
  PROVE  /\ PollCount \in 0..Len(results) /\ Len(results) \in Nat
         /\ OneResult'
         /\ \A i \in DOMAIN results' : i + PollCount \in DOMAIN results
                                       /\ results'[i] = results[i + PollCount]
         /\ DOMAIN results' = 1..(Len(results) - PollCount)
         /\ \A i : InResults(i)' <=> InResults(i) /\ i \notin PollSet
<1>1. /\ results \in Seq(ResultRecord) /\ Len(results) \in Nat
      /\ DOMAIN results = 1..Len(results) /\ PollCount \in 0..Len(results)
      /\ \A i \in 1..Len(results) : results[i] \in ResultRecord
  <2>1. results \in Seq(ResultRecord)
    BY DEF TypeOK, ResultRecord
  <2>2. /\ Len(results) \in Nat /\ DOMAIN results = 1..Len(results)
        /\ \A i \in 1..Len(results) : results[i] \in ResultRecord
    BY <2>1, LenProperties, ElementOfSeq
  <2>3. PollCount \in 0..Len(results)
    BY <2>2, ThreadsAssumption DEF PollCount
  <2> QED
    BY <2>1, <2>2, <2>3
<1>2. \A i \in (PollCount + 1)..Len(results) : results[i] \in ResultRecord
  BY <1>1
<1>3. /\ results' \in Seq(ResultRecord)
      /\ Len(results') = IF PollCount + 1 <= Len(results)
                         THEN Len(results) - (PollCount + 1) + 1 ELSE 0
      /\ \A i \in 1..(Len(results) - (PollCount + 1) + 1) :
           results'[i] = results[(PollCount + 1) + i - 1]
  <2>1. PollCount + 1 \in Int /\ Len(results) \in Int
    BY <1>1
  <2> HIDE DEF PollCount
  <2> QED
    BY <1>2, <2>1, SubSeqProperties
<1>4. Len(results') = Len(results) - PollCount
  <2>1. /\ PollCount \in Int /\ Len(results) \in Int /\ PollCount <= Len(results)
        /\ Len(results') = IF PollCount + 1 <= Len(results)
                           THEN Len(results) - (PollCount + 1) + 1 ELSE 0
    BY <1>1, <1>3
  <2> QED
    BY <2>1
<1>5. DOMAIN results' = 1..(Len(results) - PollCount)
  BY <1>3, <1>4, LenProperties
<1>6. \A i \in 1..(Len(results) - PollCount) :
        i + PollCount \in DOMAIN results /\ results'[i] = results[i + PollCount]
  <2> SUFFICES ASSUME NEW i \in 1..(Len(results) - PollCount)
               PROVE  i + PollCount \in DOMAIN results /\ results'[i] = results[i + PollCount]
    OBVIOUS
  <2>1. /\ i + PollCount \in 1..Len(results)
        /\ (PollCount + 1) + i - 1 = i + PollCount
        /\ i \in 1..(Len(results) - (PollCount + 1) + 1)
    BY <1>1
  <2> QED
    BY <1>1, <1>3, <2>1
<1>7. ASSUME NEW m \in DOMAIN results', NEW n \in DOMAIN results',
             results'[m].job = results'[n].job
      PROVE  m = n
  <2>1. m + PollCount = n + PollCount
    <3>1. /\ m + PollCount \in DOMAIN results /\ n + PollCount \in DOMAIN results
          /\ results[m + PollCount].job = results[n + PollCount].job
      BY <1>5, <1>6, <1>7
    <3> QED
      BY <3>1 DEF OneResult
  <2> QED
    BY <1>1, <1>5, <2>1
<1>8. ASSUME NEW i PROVE InResults(i)' <=> InResults(i) /\ i \notin PollSet
  <2>1. ASSUME InResults(i)' PROVE InResults(i) /\ i \notin PollSet
    <3>1. PICK n \in 1..(Len(results) - PollCount) : results'[n].job = i
      BY <1>5, <2>1 DEF InResults
    <3>2. n + PollCount \in DOMAIN results /\ results[n + PollCount].job = i
      BY <1>6, <3>1
    <3>3. ASSUME NEW m \in 1..PollCount PROVE results[m].job # i
      <4>1. m \in DOMAIN results /\ m # n + PollCount
        BY <1>1, <3>1
      <4> QED
        BY <3>2, <4>1 DEF OneResult
    <3> QED
      BY <3>2, <3>3 DEF InResults, PollSet
  <2>2. ASSUME InResults(i), i \notin PollSet PROVE InResults(i)'
    <3>1. PICK n \in 1..Len(results) : results[n].job = i
      BY <1>1, <2>2 DEF InResults
    <3>2. n \notin 1..PollCount
      BY <2>2, <3>1 DEF PollSet
    <3>3. n - PollCount \in 1..(Len(results) - PollCount) /\ (n - PollCount) + PollCount = n
      BY <1>1, <3>1, <3>2
    <3>4. results'[n - PollCount].job = i
      BY <1>6, <3>1, <3>3
    <3> QED
      BY <1>5, <3>3, <3>4 DEF InResults
  <2> QED
    BY <2>1, <2>2
<1> QED
  BY <1>1, <1>4, <1>5, <1>6, <1>7, <1>8 DEF OneResult

\* While nobody holds mu_ no job is being finished.
LEMMA NobodyFinishes ==
  ASSUME PoolInv, mu = None \/ \E w \in Workers : pcW[w] = "block"
  PROVE  fin = None
  BY ThreadsAssumption DEF PoolInv, LocksMatch

\* A step that neither moves a job nor gives a worker another task.
LEMMA SameJobs ==
  ASSUME JobsMatch, UNCHANGED <<table, results, desc, fin>>, mu' = mu \/ fin = None,
         \A w \in Workers : pcW'[w] \in {"io", "settle"} =>
           (pcW[w] \in {"io", "settle"} /\ task'[w] = task[w]) \/ task'[w] \in Tasks
  PROVE  JobsMatch'
<1>1. \A j \in JobIds : InResults(j)' <=> InResults(j)
  BY DEF InResults
<1>2. \A j \in JobIds : fin' = j => mu' = mu \/ fin = None
  OBVIOUS
<1>3. fin = None => \A j \in JobIds : fin # j
  BY JobsAssumption
<1> QED
  BY <1>1, <1>2, <1>3 DEF JobsMatch

\* Every step keeps each job in its one place.
LEMMA NextJobs == PoolInv /\ [Next]_vars => JobsMatch'
<1> SUFFICES ASSUME PoolInv, [Next]_vars PROVE JobsMatch'
  OBVIOUS
<1>1. /\ TypeOK /\ JobsMatch /\ OneResult /\ None \notin JobIds /\ None \notin Workers
      /\ Caller \notin Workers /\ Caller # None /\ None \notin Workload
      /\ table \in [JobIds -> JobState]
  BY JobsAssumption, ThreadsAssumption, WorkloadAssumption DEF PoolInv, JobsMatch, OneResult, TypeOK
<1>2. ASSUME NEW j \in JobIds, NEW d \in Workload, SubmitEmpty(j, d) PROVE JobsMatch'
  <2>1. /\ UNCHANGED <<table, results, pcW, task>> /\ fin' = j /\ mu' = Caller
        /\ desc[j] = None /\ desc'[j] # None
        /\ \A i \in JobIds : i # j => desc'[i] = desc[i]
    BY <1>1, <1>2 DEF SubmitEmpty, Submitted, workers, TypeOK
  <2>2. ~table[j].live /\ ~InResults(j)
    BY <1>1, <2>1 DEF JobsMatch
  <2>3. fin = None
    BY <1>2, NobodyFinishes DEF SubmitEmpty, Submitted
  <2>4. \A i \in JobIds : InResults(i)' <=> InResults(i)
    BY <2>1 DEF InResults
  <2> QED
    BY <1>1, <2>1, <2>2, <2>3, <2>4 DEF JobsMatch
<1>3. ASSUME NEW j \in JobIds, NEW d \in Workload, SubmitBlocks(j, d) PROVE JobsMatch'
  <2>1. /\ UNCHANGED <<results, pcW, task, fin, mu>>
        /\ desc[j] = None /\ desc'[j] # None
        /\ \A i \in JobIds : i # j => desc'[i] = desc[i] /\ table'[i] = table[i]
        /\ table'[j] = [live |-> TRUE, remaining |-> Len(d.xfers), failed |-> FALSE]
    BY <1>1, <1>3 DEF SubmitBlocks, Submitted, workers, TypeOK
  <2>2. ~table[j].live /\ ~InResults(j)
    BY <1>1, <2>1 DEF JobsMatch
  <2>3. fin = None
    BY <1>3, NobodyFinishes DEF SubmitBlocks, Submitted
  <2>4. \A i \in JobIds : InResults(i)' <=> InResults(i)
    BY <2>1 DEF InResults
  <2>5. Len(d.xfers) # 0
    BY <1>3, BlocksType, EmptySeq DEF SubmitBlocks
  <2> QED
    BY <1>1, <2>1, <2>2, <2>3, <2>4, <2>5 DEF JobsMatch
<1>4. CASE EmptyResult
  <2>1. /\ UNCHANGED <<table, desc, pcW, task>> /\ fin' = None /\ mu' = None
        /\ results' = Append(results, [job |-> fin, ok |-> TRUE])
    BY <1>4 DEF EmptyResult, workers
  <2>2. mu = Caller /\ fin \in JobIds /\ ~table[fin].live /\ ~InResults(fin) /\ desc[fin] # None
    BY <1>1, <1>4, CallerFinishes DEF EmptyResult, JobsMatch
  <2>3. /\ OneResult' /\ \A i : InResults(i)' <=> InResults(i) \/ i = fin
    <3>1. [job |-> fin, ok |-> TRUE] \in ResultRecord
      BY <2>2 DEF ResultRecord
    <3> QED
      BY <1>1, <2>1, <2>2, <3>1, AppendResult
  <2> QED
    BY <1>1, <2>1, <2>2, <2>3 DEF JobsMatch, OneResult
<1>5. ASSUME NEW w \in Workers, Publish(w) PROVE JobsMatch'
  <2>1. /\ UNCHANGED <<desc, task>> /\ fin' = None /\ mu' = None
        /\ \A v \in Workers : pcW'[v] \in {"io", "settle"} => pcW'[v] = pcW[v]
        /\ results' = Append(results, [job |-> fin, ok |-> ~table[fin].failed])
        /\ table' = [table EXCEPT ![fin] = NoState]
    BY <1>1, <1>5 DEF Publish, Goes, TypeOK
  <2>2. fin \in JobIds /\ table[fin].live /\ ~InResults(fin) /\ desc[fin] # None
    BY <1>1, <1>5, WorkerFinishes DEF Publish, JobsMatch
  <2>3. [job |-> fin, ok |-> ~table[fin].failed] \in ResultRecord
    BY <1>1, <2>2 DEF ResultRecord
  <2>4. /\ OneResult' /\ \A i : InResults(i)' <=> InResults(i) \/ i = fin
    BY <1>1, <2>1, <2>2, <2>3, AppendResult
  <2>5. table'[fin] = NoState /\ ~NoState.live /\ \A i \in JobIds : i # fin => table'[i] = table[i]
    BY <1>1, <2>1, <2>2 DEF NoState
  <2> QED
    BY <1>1, <2>1, <2>2, <2>4, <2>5 DEF JobsMatch, OneResult
<1>6. ASSUME NEW w \in Workers, Settle(w) PROVE JobsMatch'
  <2>1. PICK j \in JobIds : j = task[w][1] /\ table[j].live /\ table[j].remaining \in Nat \ {0}
    BY <1>6, HeldIsLive DEF Settle
  <2>2. /\ UNCHANGED <<results, desc>> /\ mu = None
        /\ \A v \in Workers : pcW'[v] \in {"io", "settle"} => pcW'[v] = pcW[v] /\ task'[v] = task[v]
    BY <1>1, <1>6 DEF Settle, Goes, TypeOK
  <2>3. fin = None
    BY <2>2, NobodyFinishes
  <2>4. /\ table'[j].live = TRUE /\ table'[j].remaining = table[j].remaining - 1
        /\ \A i \in JobIds : i # j => table'[i] = table[i]
    BY <1>1, <1>6, <2>1 DEF Settle, JobState
  <2>5. \/ table'[j].remaining = 0 /\ mu' # Caller /\ fin' = j
        \/ table'[j].remaining # 0 /\ mu' = mu /\ fin' = None
    BY <1>1, <1>6, <2>1, <2>3, <2>4 DEF Settle
  <2>6. \A i \in JobIds : InResults(i)' <=> InResults(i)
    BY <2>2 DEF InResults
  <2> QED
    BY <1>1, <2>1, <2>2, <2>3, <2>4, <2>5, <2>6 DEF JobsMatch
<1>7. CASE Poll
  <2>1. /\ UNCHANGED <<table, desc, fin, mu, pcW, task>>
        /\ results' = SubSeq(results, PollCount + 1, Len(results))
    BY <1>7 DEF Poll, PollCount, workers
  <2>2. OneResult' /\ \A i : InResults(i)' => InResults(i)
    BY <1>1, <2>1, PollResults
  <2> QED
    BY <1>1, <2>1, <2>2 DEF JobsMatch, OneResult
<1>8. CASE \/ EmptyRow \/ Notify \/ DrainRecords \/ DrainCall \/ DrainReturn
           \/ Destroy \/ StopNotify \/ Join \/ Gone \/ UNCHANGED vars
  <2>1. UNCHANGED <<table, results, desc, fin, mu, task>>
    BY <1>8 DEF EmptyRow, Notify, DrainRecords, DrainCall, DrainReturn, Destroy, StopNotify,
                Join, Gone, vars, books, workers
  <2>2. pcW' = pcW \/ pcW' = Woken
    BY <1>8 DEF EmptyRow, Notify, DrainRecords, DrainCall, DrainReturn, Destroy, StopNotify,
                Join, Gone, vars, workers
  <2>3. \A w \in Workers : pcW'[w] \in {"io", "settle"} => pcW'[w] = pcW[w]
    BY <2>2 DEF Woken
  <2> QED
    BY <1>1, <2>1, <2>3, SameJobs
<1>9. ASSUME NEW w \in Workers,
             \/ TakeTask(w) \/ FindNothing(w) \/ Block(w) \/ Exit(w) \/ TransferOne(w)
             \/ LogRow(w) \/ WakeSpuriously(w)
      PROVE  JobsMatch'
  <2>1. UNCHANGED <<table, results, desc, fin>>
    BY <1>9 DEF TakeTask, FindNothing, Block, Exit, TransferOne, LogRow, WakeSpuriously, books
  <2>2. mu' = mu \/ fin = None
    BY <1>9, NobodyFinishes DEF TakeTask, FindNothing, Block, Exit, TransferOne, LogRow,
                                WakeSpuriously
  <2>3. CASE TakeTask(w)
    <3>1. Head(tasks) \in Tasks
      BY <1>1, <2>3, HeadTailProperties DEF TakeTask, TypeOK
    <3>2. \A v \in Workers : pcW'[v] \in {"io", "settle"} =>
            (pcW[v] \in {"io", "settle"} /\ task'[v] = task[v]) \/ task'[v] \in Tasks
      BY <1>1, <2>3, <3>1 DEF TakeTask, Goes, TypeOK
    <3> QED
      BY <1>1, <2>1, <2>2, <3>2, SameJobs
  <2>4. CASE \/ FindNothing(w) \/ Block(w) \/ Exit(w) \/ TransferOne(w) \/ LogRow(w)
             \/ WakeSpuriously(w)
    <3>1. \A v \in Workers : pcW'[v] \in {"io", "settle"} =>
            pcW[v] \in {"io", "settle"} /\ task'[v] = task[v]
      BY <1>1, <2>4 DEF FindNothing, Block, Exit, TransferOne, LogRow, WakeSpuriously, Goes, TypeOK
    <3> QED
      BY <1>1, <2>1, <2>2, <3>1, SameJobs
  <2> QED
    BY <1>9, <2>3, <2>4
<1> QED
  BY <1>2, <1>3, <1>4, <1>5, <1>6, <1>7, <1>8, <1>9 DEF Next, Worker

-----------------------------------------------------------------------------
\* The invariant holds.
THEOREM PoolInvariant == Spec => []PoolInv
<1>1. Init => PoolInv
  <2> SUFFICES ASSUME Init PROVE PoolInv
    OBVIOUS
  <2>1. /\ tasks = << >> /\ results = << >> /\ DOMAIN tasks = {} /\ DOMAIN results = {}
        /\ << >> \in Seq(Tasks) /\ << >> \in Seq(ResultRecord)
    BY EmptySeq DEF Init
  <2>2. TypeOK
    <3>1. Cardinality(JobIds) \in Nat
      BY FiniteSubsets
    <3>2. NoState \in JobState
      BY DEF NoState, JobState
    <3>3. tasks \in Seq(Tasks) /\ results \in Seq([job : JobIds, ok : BOOLEAN])
      BY <2>1 DEF ResultRecord
    <3>4. /\ table \in [JobIds -> JobState] /\ desc \in [JobIds -> Workload \cup {None}]
          /\ pending \in 0..Cardinality(JobIds)
      BY <3>1, <3>2 DEF Init
    <3>5. /\ task \in [Workers -> Tasks \cup {None}] /\ good \in [Workers -> BOOLEAN]
          /\ pcW \in [Workers -> {"enter", "block", "waiting", "io", "settle", "log", "publish", "exit"}]
          /\ disk \in [Slots -> Keys \cup {Blank}]
      BY DEF Init
    <3> QED
      BY <3>3, <3>4, <3>5 DEF Init, TypeOK
  <2>3. CountsMatch
    <3>1. \A j \in JobIds : Queued(j) = {} /\ Held(j) = {} /\ table[j].remaining = 0
      BY <2>1 DEF Init, Queued, Held, NoState
    <3> QED
      BY <3>1, FS_EmptySet, 0 + 0 = 0 DEF CountsMatch
  <2>4. PendingMatches
    <3>1. LiveJobs = {} /\ AtOnce = 0 /\ pending = 0
      BY DEF Init, LiveJobs, AtOnce, NoState
    <3> QED
      BY <3>1, FS_EmptySet DEF PendingMatches
  <2>5. LocksMatch
    BY ThreadsAssumption DEF Init, LocksMatch
  <2>6. JobsMatch
    <3>1. \A j \in JobIds : ~InResults(j) /\ fin # j
      BY <2>1, JobsAssumption DEF Init, InResults
    <3> QED
      BY <2>1, <3>1 DEF Init, JobsMatch, NoState
  <2> QED
    BY <2>2, <2>3, <2>4, <2>5, <2>6 DEF PoolInv
<1>2. PoolInv /\ [Next]_vars => PoolInv'
  BY NextTypes, NextCounts, NextPending, NextLocks, NextJobs DEF PoolInv
<1> QED
  BY <1>1, <1>2, PTL DEF Spec

\* However many workers share the queue, a job's count of blocks left is the
\* number of its tasks queued or in some worker's hands, and pending_jobs_ is
\* the number of jobs not finished yet: one worker, and only one, finds a job's
\* count at zero, and drain waits for exactly the unfinished jobs.
THEOREM BlocksAreCountedOnce == Spec => []BlocksCountedOnce
  BY PoolInvariant, InvCounts, PTL

-----------------------------------------------------------------------------
(* Each block is moved once *)

\* A job lists a transfer once: the keys of a job are distinct, and so are the
\* slots the manager gives them (submit_store, submit_load of manager.py).
DistinctTransfers ==
  \A d \in Workload : \A m, n \in DOMAIN d.xfers : d.xfers[m] = d.xfers[n] => m = n

\* A transfer still to do is queued once or in one worker's hands.
OncePerBlock ==
  /\ \A m, n \in DOMAIN tasks : tasks[m] = tasks[n] => m = n
  /\ \A w \in Workers : pcW[w] = "io" => \A n \in DOMAIN tasks : tasks[n] # task[w]
  /\ \A v, w \in Workers : v # w /\ pcW[v] = "io" /\ pcW[w] = "io" => task[v] # task[w]

\* A step that adds no task, neither to the queue nor to a worker.
LEMMA SameBlocks ==
  ASSUME OncePerBlock, tasks' = tasks,
         \A w \in Workers : pcW'[w] = "io" => pcW[w] = "io" /\ task'[w] = task[w]
  PROVE  OncePerBlock'
  BY DEF OncePerBlock

\* Every step keeps the outstanding transfers distinct.
LEMMA NextOnce ==
  ASSUME DistinctTransfers
  PROVE  PoolInv /\ OncePerBlock /\ [Next]_vars => OncePerBlock'
<1> SUFFICES ASSUME PoolInv, OncePerBlock, [Next]_vars PROVE OncePerBlock'
  OBVIOUS
<1>1. TypeOK
  BY DEF PoolInv
<1>2. ASSUME NEW j \in JobIds, NEW d \in Workload, SubmitBlocks(j, d) PROVE OncePerBlock'
  <2>1. /\ tasks' = tasks \o Blocks(j, d) /\ UNCHANGED <<pcW, task>> /\ desc[j] = None
    BY <1>2 DEF SubmitBlocks, Submitted, Blocks, workers
  <2>2. Queued(j) = {} /\ Held(j) = {}
    <3>1. table[j].remaining = 0
      BY <2>1 DEF PoolInv, JobsMatch, NoState
    <3> QED
      BY <3>1, NothingLeft
  <2> DEFINE m == Len(tasks)
             n == Len(d.xfers)
  <2>3. /\ m \in Nat /\ n \in Nat /\ DOMAIN tasks = 1..m /\ DOMAIN tasks' = 1..(m + n)
        /\ \A i \in 1..m : tasks'[i] = tasks[i]
        /\ \A i \in (m + 1)..(m + n) :
             tasks'[i] = <<j, d.xfers[i - m]>> /\ i - m \in DOMAIN d.xfers
    BY <1>1, <2>1, SubmitCount, BlocksType
  <2> HIDE DEF m, n
  <2>4. \A i \in 1..m : tasks[i][1] # j
    BY <2>2, <2>3 DEF Queued
  <2>5. \A i \in 1..(m + n) : i \in 1..m \/ i \in (m + 1)..(m + n)
    BY <2>3
  <2>6. ASSUME NEW a \in 1..(m + n), NEW b \in 1..(m + n), tasks'[a] = tasks'[b] PROVE a = b
    <3>1. CASE a \in 1..m /\ b \in 1..m
      BY <2>3, <2>6, <3>1 DEF OncePerBlock
    <3>2. CASE a \in (m + 1)..(m + n) /\ b \in (m + 1)..(m + n)
      <4>1. d.xfers[a - m] = d.xfers[b - m] /\ a - m \in DOMAIN d.xfers /\ b - m \in DOMAIN d.xfers
        BY <2>3, <2>6, <3>2
      <4>2. a - m = b - m
        BY <4>1 DEF DistinctTransfers
      <4> QED
        BY <2>3, <3>2, <4>2
    <3>3. CASE a \in 1..m /\ b \in (m + 1)..(m + n)
      BY <2>3, <2>4, <2>6, <3>3
    <3>4. CASE b \in 1..m /\ a \in (m + 1)..(m + n)
      BY <2>3, <2>4, <2>6, <3>4
    <3> QED
      BY <2>5, <3>1, <3>2, <3>3, <3>4
  <2>7. ASSUME NEW w \in Workers, pcW[w] = "io", NEW a \in 1..(m + n) PROVE tasks'[a] # task[w]
    <3>1. task[w][1] # j
      BY <2>2, <2>7 DEF Held
    <3>2. CASE a \in 1..m
      BY <2>3, <2>7, <3>2 DEF OncePerBlock
    <3>3. CASE a \in (m + 1)..(m + n)
      BY <2>3, <3>1, <3>3
    <3> QED
      BY <2>5, <3>2, <3>3
  <2> QED
    BY <2>1, <2>3, <2>6, <2>7 DEF OncePerBlock
<1>3. ASSUME NEW w \in Workers, TakeTask(w) PROVE OncePerBlock'
  <2>1. /\ tasks' = Tail(tasks) /\ task'[w] = Head(tasks) /\ pcW'[w] = "io" /\ tasks # << >>
        /\ \A v \in Workers : v # w => pcW'[v] = pcW[v] /\ task'[v] = task[v]
    BY <1>1, <1>3 DEF TakeTask, Goes, TypeOK
  <2> DEFINE m == Len(tasks)
  <2>2. /\ m \in Nat /\ m >= 1 /\ DOMAIN tasks = 1..m /\ Head(tasks) = tasks[1]
    BY <1>1, <2>1, LenProperties, EmptySeq DEF TypeOK
  <2>3. /\ tasks' \in Seq(Tasks) /\ Len(tasks') = m - 1
        /\ \A i \in 1..Len(tasks') : tasks'[i] = tasks[i + 1]
    BY <1>1, <2>1, HeadTailProperties DEF TypeOK
  <2>4. DOMAIN tasks' = 1..(m - 1)
    BY <2>3, LenProperties
  <2> HIDE DEF m
  <2>5. \A i \in 1..(m - 1) : i + 1 \in DOMAIN tasks /\ i + 1 # 1 /\ tasks'[i] = tasks[i + 1]
    BY <2>2, <2>3
  <2>6. \A a, b \in 1..(m - 1) : tasks'[a] = tasks'[b] => a = b
    <3>1. \A a, b \in 1..(m - 1) : tasks'[a] = tasks'[b] => a + 1 = b + 1
      BY <2>5 DEF OncePerBlock
    <3> QED
      BY <2>2, <3>1
  <2>7. \A a \in 1..(m - 1) : tasks'[a] # tasks[1]
    <3>1. 1 \in DOMAIN tasks
      BY <2>2
    <3> QED
      BY <2>5, <3>1 DEF OncePerBlock
  <2>8. \A v \in Workers : pcW[v] = "io" => task[v] # tasks[1]
    <3>1. 1 \in DOMAIN tasks
      BY <2>2
    <3> QED
      BY <3>1 DEF OncePerBlock
  <2> QED
    BY <2>1, <2>2, <2>4, <2>5, <2>6, <2>7, <2>8 DEF OncePerBlock
<1>4. CASE \/ EmptyRow \/ EmptyResult \/ Notify \/ Poll \/ DrainRecords \/ DrainCall \/ DrainReturn
           \/ Destroy \/ StopNotify \/ Join \/ Gone \/ UNCHANGED vars
           \/ \E j \in JobIds, d \in Workload : SubmitEmpty(j, d)
  <2>1. UNCHANGED <<tasks, task>> /\ (pcW' = pcW \/ pcW' = Woken)
    BY <1>4 DEF EmptyRow, EmptyResult, Notify, Poll, DrainRecords, DrainCall, DrainReturn,
                Destroy, StopNotify, Join, Gone, SubmitEmpty, vars, books, workers
  <2>2. \A w \in Workers : pcW'[w] = "io" => pcW[w] = "io" /\ task'[w] = task[w]
    BY <2>1 DEF Woken
  <2> QED
    BY <2>1, <2>2, SameBlocks
<1>5. ASSUME NEW w \in Workers,
             \/ FindNothing(w) \/ Block(w) \/ Exit(w) \/ TransferOne(w) \/ Settle(w)
             \/ LogRow(w) \/ Publish(w) \/ WakeSpuriously(w)
      PROVE  OncePerBlock'
  <2>1. tasks' = tasks
    BY <1>5 DEF FindNothing, Block, Exit, TransferOne, Settle, LogRow, Publish, WakeSpuriously, books
  <2>2. \A v \in Workers : pcW'[v] = "io" => pcW[v] = "io" /\ task'[v] = task[v]
    BY <1>1, <1>5 DEF FindNothing, Block, Exit, TransferOne, Settle, LogRow, Publish,
                      WakeSpuriously, Goes, TypeOK
  <2> QED
    BY <2>1, <2>2, SameBlocks
<1> QED
  BY <1>2, <1>3, <1>4, <1>5 DEF Next, Worker

-----------------------------------------------------------------------------
(* The refinement of BlockEngine *)

\* What a job looks like to the engine's caller.
View(s, o, l, f) ==
  IF s = "none" THEN Engine!NoJob ELSE [stage |-> s, op |-> o, left |-> l, failed |-> f]

LEMMA ViewOfJob ==
  ASSUME NEW j \in JobIds
  PROVE  JobView[j] = View(Stage(j), desc[j].op, Unmoved(j), HasFailed(j))
  BY DEF JobView, View, Engine!NoJob

\* A job of which nothing moves looks the same after the step.
LEMMA SameView ==
  ASSUME NEW j \in JobIds, Stage(j)' = Stage(j),
         Stage(j) # "none" => /\ desc'[j] = desc[j] /\ Unmoved(j)' = Unmoved(j)
                              /\ HasFailed(j)' = HasFailed(j)
  PROVE  JobView'[j] = JobView[j]
  BY DEF JobView

\* A step that moves no job at all.
LEMMA SameViews ==
  ASSUME \A j \in JobIds : JobView'[j] = JobView[j]
  PROVE  JobView' = JobView
  BY DEF JobView

\* Stages of jobs in their one place.
LEMMA StageFacts ==
  ASSUME PoolInv, NEW j \in JobIds
  PROVE  /\ desc[j] = None => Stage(j) = "none"
         /\ Stage(j) = "done" <=> InResults(j)
         /\ table[j].live => Stage(j) # "none" /\ Stage(j) # "done"
         /\ Stage(j) = "none" <=> ~InResults(j) /\ ~table[j].live /\ fin # j
         /\ table[j].live /\ table[j].remaining # 0 => Stage(j) = "running"
<1>1. /\ desc[j] = None => ~table[j].live /\ ~InResults(j) /\ fin # j
      /\ InResults(j) => ~table[j].live /\ fin # j
      /\ table[j].live /\ table[j].remaining # 0 => fin # j
  BY DEF PoolInv, JobsMatch
<1> QED
  BY <1>1 DEF Stage, Publishing

\* Where a worker stands that neither moves, settles nor publishes a block.
Elsewhere == {"enter", "block", "waiting", "log", "exit"}

\* Steps of workers and caller that no job can be told from.
LEMMA UnseenStep ==
  ASSUME UNCHANGED <<tasks, table, results, desc, fin>>,
         pcC' = "emptyResult" <=> pcC = "emptyResult",
         \A w \in Workers : \/ UNCHANGED <<pcW[w], task[w], good[w]>>
                            \/ pcW[w] \in Elsewhere /\ pcW'[w] \in Elsewhere
  PROVE  JobView' = JobView
<1>1. \A w \in Workers : /\ pcW'[w] = "publish" <=> pcW[w] = "publish"
                         /\ pcW'[w] = "io" <=> pcW[w] = "io"
                         /\ pcW'[w] = "settle" <=> pcW[w] = "settle"
                         /\ pcW[w] \in {"io", "settle"} => task'[w] = task[w] /\ good'[w] = good[w]
  BY DEF Elsewhere
<1>2. ASSUME NEW j \in JobIds PROVE JobView'[j] = JobView[j]
  <2>1. Publishing(j)' <=> Publishing(j)
    BY <1>1 DEF Publishing
  <2>2. InResults(j)' <=> InResults(j)
    BY DEF InResults
  <2>3. Stage(j)' = Stage(j)
    BY <2>1, <2>2 DEF Stage
  <2>4. Held(j)' = Held(j)
    BY <1>1 DEF Held
  <2>5. Unmoved(j)' = Unmoved(j)
    <3>1. \A w \in Held(j) : /\ w \in Workers
                             /\ pcW'[w] = "io" <=> pcW[w] = "io"
                             /\ task'[w] = task[w]
      BY <1>1 DEF Held
    <3>2. TasksOf(j)' = TasksOf(j)
      BY DEF TasksOf
    <3>3. {v \in Held(j) : pcW[v] = "io"}' = {v \in Held(j) : pcW[v] = "io"}
      BY <2>4, <3>1
    <3> QED
      BY <3>1, <3>2, <3>3 DEF Unmoved
  <2>6. HasFailed(j)' <=> HasFailed(j)
    <3>1. \A w \in Held(j) : /\ w \in Workers
                             /\ pcW'[w] = "settle" <=> pcW[w] = "settle"
                             /\ good'[w] = good[w]
      BY <1>1 DEF Held
    <3> QED
      BY <2>4, <3>1 DEF HasFailed
  <2>7. HasFailed(j)' = HasFailed(j)
    BY <2>6 DEF HasFailed
  <2> QED
    BY <2>3, <2>5, <2>7, SameView
<1> QED
  BY <1>2, SameViews

\* JobView is a function on the jobs, before and after.
LEMMA ViewFunction ==
  /\ JobView = [j \in JobIds |-> JobView[j]]
  /\ JobView' = [j \in JobIds |-> JobView'[j]]
  BY DEF JobView

\* A step that changes one job's view.
LEMMA OneView ==
  ASSUME NEW j \in JobIds, NEW r, JobView'[j] = r,
         \A i \in JobIds : i # j => JobView'[i] = JobView[i]
  PROVE  JobView' = [JobView EXCEPT ![j] = r]
<1> DEFINE v == JobView
           vp == JobView'
<1>1. v = [i \in JobIds |-> v[i]] /\ vp = [i \in JobIds |-> vp[i]]
  BY ViewFunction
<1>2. vp[j] = r /\ \A i \in JobIds : i # j => vp[i] = v[i]
  OBVIOUS
<1> HIDE DEF v, vp
<1>3. vp = [v EXCEPT ![j] = r]
  BY <1>1, <1>2
<1> QED
  BY <1>3 DEF v, vp

\* Whether a job's result says that it failed.
FailedResult(j) == \E n \in DOMAIN results : results[n].job = j /\ ~results[n].ok

\* What a job's view depends on.
LEMMA UntouchedJob ==
  ASSUME NEW j \in JobIds, table'[j] = table[j], desc'[j] = desc[j], fin' = j <=> fin = j,
         Publishing(j)' <=> Publishing(j), InResults(j)' <=> InResults(j),
         FailedResult(j)' <=> FailedResult(j),
         TasksOf(j)' = TasksOf(j), Held(j)' = Held(j),
         \A w \in Held(j) : pcW'[w] = pcW[w] /\ task'[w] = task[w] /\ good'[w] = good[w]
  PROVE  JobView'[j] = JobView[j]
<1>1. Stage(j)' = Stage(j)
  BY DEF Stage
<1>2. {v \in Held(j) : pcW[v] = "io"}' = {v \in Held(j) : pcW[v] = "io"}
  OBVIOUS
<1>3. Unmoved(j)' = Unmoved(j)
  BY <1>2 DEF Unmoved
<1>4. HasFailed(j)' <=> HasFailed(j)
  BY DEF HasFailed, FailedResult
<1>5. HasFailed(j)' = HasFailed(j)
  BY <1>4 DEF HasFailed
<1> QED
  BY <1>1, <1>3, <1>5, SameView

\* Transfers are what the engine of BlockEngine moves.
LEMMA TransferTypes ==
  ASSUME TypeOK, NEW j \in JobIds
  PROVE  TasksOf(j) \in SUBSET (Keys \X Slots)
<1>1. \A n \in DOMAIN tasks : tasks[n] \in Tasks
  BY LenProperties, ElementOfSeq DEF TypeOK
<1> QED
  BY <1>1 DEF TasksOf, Tasks

\* submit is an Accept of BlockEngine.
LEMMA SubmitRefines ==
  ASSUME PoolInv, TypeOK', NEW j \in JobIds, NEW d \in Workload,
         SubmitEmpty(j, d) \/ SubmitBlocks(j, d)
  PROVE  Engine!AcceptAny(j)
<1>1. /\ TypeOK /\ JobsMatch /\ fin = None /\ desc[j] = None /\ desc'[j] = d
      /\ \A i \in JobIds : i # j => desc'[i] = desc[i]
      /\ UNCHANGED <<results, rows, workers, contents>> /\ pcC = "ready"
      /\ d.op \in {"store", "load"} /\ None \notin JobIds
  BY NobodyFinishes, WorkloadAssumption, JobsAssumption
  DEF SubmitEmpty, SubmitBlocks, Submitted, PoolInv, TypeOK
<1>2. ~InResults(j) /\ table[j] = NoState /\ Queued(j) = {} /\ Held(j) = {}
  BY <1>1, NothingLeft DEF JobsMatch, NoState
<1>3. JobView[j] = Engine!NoJob
  BY <1>1, <1>2, StageFacts, ViewOfJob DEF View
<1>4. \A i \in JobIds : /\ InResults(i)' <=> InResults(i)
                        /\ FailedResult(i)' <=> FailedResult(i)
                        /\ Held(i)' = Held(i)
  BY <1>1 DEF InResults, FailedResult, Held, workers
<1>5. /\ \A w \in Workers : pcW'[w] # "publish" \/ fin' = None
      /\ pcC' # "emptyResult" /\ pcC # "emptyResult"
  <2>1. \A w \in Workers : pcW'[w] # "publish"
    BY <1>1, NobodyFinishes, ThreadsAssumption
    DEF SubmitEmpty, SubmitBlocks, Submitted, workers, PoolInv, LocksMatch
  <2> QED
    BY <1>1, <2>1 DEF SubmitEmpty, SubmitBlocks
<1>6. \A i \in JobIds : i # j => table'[i] = table[i] /\ (fin' = i <=> fin = i)
  BY <1>1 DEF SubmitEmpty, SubmitBlocks, TypeOK
<1>7. \A i \in JobIds : i # j => TasksOf(i)' = TasksOf(i)
  <2>1. CASE SubmitEmpty(j, d)
    BY <2>1 DEF SubmitEmpty, TasksOf
  <2>2. CASE SubmitBlocks(j, d)
    <3>1. tasks' = tasks \o Blocks(j, d)
      BY <2>2 DEF SubmitBlocks, Blocks
    <3>2. /\ DOMAIN tasks = 1..Len(tasks) /\ \A n \in 1..Len(tasks) : tasks'[n] = tasks[n]
          /\ \A i \in JobIds : i # j => Queued(i)' = Queued(i)
      BY <1>1, <3>1, SubmitCount
    <3>3. \A i \in JobIds : TasksOf(i) = {tasks[n][2] : n \in Queued(i)}
      BY DEF TasksOf, Queued
    <3>4. \A i \in JobIds : TasksOf(i)' = {tasks'[n][2] : n \in Queued(i)'}
      BY DEF TasksOf, Queued
    <3>5. \A i \in JobIds : \A n \in Queued(i) : n \in DOMAIN tasks
      BY DEF Queued
    <3>6. ASSUME NEW i \in JobIds, i # j PROVE TasksOf(i)' = TasksOf(i)
      <4>1. Queued(i)' = Queued(i) /\ \A n \in Queued(i) : tasks'[n] = tasks[n]
        BY <3>2, <3>5, <3>6
      <4>2. {tasks'[n][2] : n \in Queued(i)} = {tasks[n][2] : n \in Queued(i)}
        BY <4>1
      <4> QED
        BY <3>3, <3>4, <4>1, <4>2
    <3> QED
      BY <3>6
  <2> QED
    BY <2>1, <2>2
<1>8. \A i \in JobIds : i # j => JobView'[i] = JobView[i]
  <2> SUFFICES ASSUME NEW i \in JobIds, i # j PROVE JobView'[i] = JobView[i]
    OBVIOUS
  <2>1. Publishing(i)' <=> Publishing(i)
    BY <1>1, <1>5, <1>6 DEF Publishing
  <2>2. \A w \in Held(i) : pcW'[w] = pcW[w] /\ task'[w] = task[w] /\ good'[w] = good[w]
    BY <1>1 DEF workers
  <2>3. desc'[i] = desc[i]
    BY <1>1
  <2> QED
    BY <1>4, <1>6, <1>7, <2>1, <2>2, <2>3, UntouchedJob
<1>9. /\ Stage(j)' = "running" /\ ~HasFailed(j)'
      /\ Unmoved(j)' \in SUBSET (Keys \X Slots)
  <2>1. ~InResults(j)' /\ ~FailedResult(j)' /\ Held(j)' = {}
    BY <1>2, <1>4 DEF InResults, FailedResult
  <2>2. Stage(j)' = "running"
    <3>1. ~Publishing(j)'
      BY <1>1, <1>5, <2>1
      DEF Publishing, SubmitEmpty, SubmitBlocks, Submitted, PoolInv, LocksMatch, workers
    <3>2. table'[j].live \/ fin' = j
      BY <1>1 DEF SubmitEmpty, SubmitBlocks, TypeOK
    <3> QED
      BY <2>1, <3>1, <3>2 DEF Stage
  <2>3. table'[j].failed = FALSE
    BY <1>1, <1>2 DEF SubmitEmpty, SubmitBlocks, NoState, TypeOK
  <2>4. ~HasFailed(j)'
    BY <2>1, <2>3 DEF HasFailed, FailedResult
  <2>5. TasksOf(j)' \in SUBSET (Keys \X Slots)
    <3>1. tasks' \in Seq(Tasks)
      BY DEF TypeOK
    <3>2. \A n \in DOMAIN tasks' : tasks'[n] \in Tasks
      BY <3>1, LenProperties, ElementOfSeq
    <3> QED
      BY <3>2 DEF TasksOf, Tasks
  <2> QED
    BY <2>1, <2>2, <2>4, <2>5 DEF Unmoved
<1>10. JobView'[j] = [stage |-> "running", op |-> d.op, left |-> Unmoved(j)', failed |-> FALSE]
  <2>1. HasFailed(j)' = FALSE
    BY <1>9 DEF HasFailed
  <2> QED
    BY <1>1, <1>9, <2>1 DEF JobView
<1> DEFINE new == [stage |-> "running", op |-> d.op, left |-> Unmoved(j)', failed |-> FALSE]
<1>11. /\ new.op = d.op /\ new.left = Unmoved(j)'
       /\ new = [stage |-> "running", op |-> new.op, left |-> new.left, failed |-> FALSE]
  OBVIOUS
<1>12. JobView' = [JobView EXCEPT ![j] = new]
  BY <1>8, <1>10, OneView
<1> HIDE DEF new
<1>13. Engine!Accept(j, new.op, new.left)
  <2>1. JobView[j].stage = "none"
    BY <1>3 DEF Engine!NoJob
  <2> QED
    BY <1>1, <1>11, <1>12, <2>1 DEF Engine!Accept, contents
<1> QED
  BY <1>1, <1>9, <1>10, <1>11, <1>13 DEF Engine!AcceptAny, Engine!Ops, Engine!Xfers, new

\* The rows written: EmptyRow or LogRow.
LEMMA RowRefines ==
  ASSUME PoolInv, EmptyRow \/ \E w \in Workers : LogRow(w)
  PROVE  fin \in JobIds /\ Engine!Log(fin)
<1>1. /\ UNCHANGED <<tasks, table, results, desc, task, good, fin, contents>>
      /\ rows' = rows \cup {fin}
  BY DEF EmptyRow, LogRow, workers
<1>2. /\ fin \in JobIds /\ table[fin].remaining = 0 /\ desc[fin] # None /\ ~InResults(fin)
      /\ TypeOK /\ JobsMatch
  BY CallerFinishes, WorkerFinishes DEF EmptyRow, LogRow, PoolInv, JobsMatch, NoState
<1>3. Queued(fin) = {} /\ Held(fin) = {}
  BY <1>2, NothingLeft
<1>4. TasksOf(fin) = {} /\ Unmoved(fin) = {}
  BY <1>3 DEF TasksOf, Queued, Unmoved
<1>5. /\ \A v \in Workers : pcW[v] # "publish"
      /\ pcC # "emptyResult"
      /\ pcC' = "emptyResult" \/ \E w \in Workers : pcW'[w] = "publish"
      /\ \A v \in Workers : pcW'[v] = pcW[v] \/ (pcW[v] = "log" /\ pcW'[v] = "publish")
  <2>1. CASE EmptyRow
    <3>1. mu = Caller
      BY <2>1, CallerFinishes DEF EmptyRow
    <3> QED
      BY <2>1, <3>1, ThreadsAssumption DEF EmptyRow, workers, PoolInv, LocksMatch
  <2>2. ASSUME NEW w \in Workers, LogRow(w)
        PROVE  /\ \A v \in Workers : pcW[v] # "publish"
               /\ pcC # "emptyResult"
               /\ \E v \in Workers : pcW'[v] = "publish"
               /\ \A v \in Workers : pcW'[v] = pcW[v] \/ (pcW[v] = "log" /\ pcW'[v] = "publish")
    <3>1. mu = w /\ pcC \notin {"emptyRow", "emptyResult"} /\ pcW[w] = "log"
      BY <2>2, WorkerFinishes DEF LogRow
    <3>2. pcW'[w] = "publish" /\ \A v \in Workers : v # w => pcW'[v] = pcW[v]
      BY <1>2, <2>2 DEF LogRow, Goes, TypeOK
    <3> QED
      BY <3>1, <3>2 DEF PoolInv, LocksMatch
  <2> QED
    BY <2>1, <2>2
<1>6. \A i \in JobIds : /\ InResults(i)' <=> InResults(i)
                        /\ FailedResult(i)' <=> FailedResult(i)
                        /\ TasksOf(i)' = TasksOf(i) /\ Held(i)' = Held(i)
  BY <1>1, <1>5 DEF InResults, FailedResult, TasksOf, Held
<1>7. \A i \in JobIds : i # fin => JobView'[i] = JobView[i]
  <2> SUFFICES ASSUME NEW i \in JobIds, i # fin PROVE JobView'[i] = JobView[i]
    OBVIOUS
  <2>1. Publishing(i)' <=> Publishing(i)
    BY <1>1 DEF Publishing
  <2>2. \A w \in Held(i) : pcW'[w] = pcW[w] /\ task'[w] = task[w] /\ good'[w] = good[w]
    BY <1>1, <1>5 DEF Held
  <2> QED
    BY <1>1, <1>6, <2>1, <2>2, UntouchedJob
<1>8. Stage(fin) = "running" /\ Stage(fin)' = "logged"
  BY <1>1, <1>2, <1>5, <1>6 DEF Stage, Publishing
<1>9. Unmoved(fin)' = {}
  <2>1. PICK f \in JobIds : f = fin
    BY <1>2
  <2>2. Unmoved(f)' = {}
    BY <1>3, <1>4, <1>6, <2>1 DEF Unmoved
  <2> QED
    BY <1>1, <2>1, <2>2
<1>10. HasFailed(fin)' = HasFailed(fin)
  <2>1. HasFailed(fin)' <=> HasFailed(fin)
    BY <1>1, <1>2, <1>3, <1>6 DEF HasFailed, FailedResult
  <2> QED
    BY <2>1 DEF HasFailed
<1> DEFINE old == JobView[fin]
<1>11. old = [stage |-> "running", op |-> desc[fin].op, left |-> {}, failed |-> HasFailed(fin)]
  BY <1>2, <1>4, <1>8 DEF JobView
<1>12. JobView'[fin] = [old EXCEPT !.stage = "logged"]
  <2>1. JobView'[fin] = [stage |-> "logged", op |-> desc[fin].op, left |-> {}, failed |-> HasFailed(fin)]
    BY <1>1, <1>2, <1>8, <1>9, <1>10 DEF JobView
  <2> HIDE DEF old
  <2> QED
    BY <1>11, <2>1
<1>13. JobView' = [JobView EXCEPT ![fin].stage = "logged"]
  <2>1. PICK f \in JobIds : f = fin
    BY <1>2
  <2>2. JobView'[f] = [JobView[f] EXCEPT !.stage = "logged"]
    BY <1>12, <2>1
  <2>3. JobView' = [JobView EXCEPT ![f] = [JobView[f] EXCEPT !.stage = "logged"]]
    BY <1>7, <2>1, <2>2, OneView
  <2> QED
    BY <2>1, <2>3
<1>14. old.stage = "running" /\ old.left = {}
  BY <1>11
<1> QED
  BY <1>1, <1>2, <1>13, <1>14 DEF Engine!Log, contents

\* BlockEngine counts as this module does.
LEMMA SameCount == \A S : Engine!Cardinality(S) = Cardinality(S)
  BY DEF Engine!Cardinality, Cardinality

\* The results put where poll finds them: EmptyResult or Publish.
LEMMA ResultRefines ==
  ASSUME PoolInv, TypeOK', EmptyResult \/ \E w \in Workers : Publish(w)
  PROVE  fin \in JobIds /\ Engine!Publish(fin)
<1>1. /\ UNCHANGED <<tasks, rows, desc, task, good, contents>>
      /\ fin' = None /\ TypeOK /\ JobsMatch /\ OneResult /\ None \notin JobIds
  BY JobsAssumption DEF EmptyResult, Publish, workers, PoolInv, JobsMatch, OneResult
<1>2. PICK f \in JobIds : /\ f = fin /\ table[f].remaining = 0 /\ desc[f] # None /\ ~InResults(f)
                          /\ table[f] \in JobState
  BY CallerFinishes, WorkerFinishes
  DEF EmptyResult, Publish, PoolInv, JobsMatch, NoState, TypeOK
<1>3. /\ Queued(f) = {} /\ Held(f) = {}
      /\ TasksOf(f) = {} /\ Unmoved(f) = {}
  BY <1>2, NothingLeft DEF TasksOf, Queued, Unmoved
<1>4. /\ pcC = "emptyResult" \/ \E w \in Workers : pcW[w] = "publish"
      /\ \A v \in Workers : pcW'[v] = pcW[v] \/ (pcW[v] = "publish" /\ pcW'[v] = "enter")
      /\ \A i \in JobIds : ~Publishing(i)'
      /\ results' = Append(results, [job |-> f, ok |-> ~table[f].failed])
      /\ \A i \in JobIds : i # f => table'[i] = table[i]
      /\ ~table'[f].live /\ ~table'[f].failed
  <2>1. CASE EmptyResult
    <3>1. table[f] = NoState /\ table' = table
      BY <1>2, <2>1, CallerFinishes DEF EmptyResult, PoolInv, JobsMatch
    <3>2. /\ ~table[f].failed /\ ~table'[f].failed
          /\ ~table[f].live /\ ~table'[f].live
      BY <3>1 DEF NoState
    <3>3. results' = Append(results, [job |-> f, ok |-> TRUE])
      BY <1>2, <2>1 DEF EmptyResult
    <3>4. TRUE = ~table[f].failed
      BY <3>1 DEF NoState
    <3>5. \A i \in JobIds : ~Publishing(i)'
      BY <1>1 DEF Publishing
    <3>6. pcW' = pcW
      BY <2>1 DEF EmptyResult, workers
    <3>7. pcC = "emptyResult"
      BY <2>1 DEF EmptyResult
    <3>8. results' = Append(results, [job |-> f, ok |-> ~table[f].failed])
      BY <3>3, <3>4
    <3> QED
      BY <3>1, <3>2, <3>5, <3>6, <3>7, <3>8
  <2>2. ASSUME NEW w \in Workers, Publish(w)
        PROVE  /\ \E v \in Workers : pcW[v] = "publish"
               /\ \A v \in Workers : pcW'[v] = pcW[v] \/ (pcW[v] = "publish" /\ pcW'[v] = "enter")
               /\ \A i \in JobIds : ~Publishing(i)'
               /\ results' = Append(results, [job |-> f, ok |-> ~table[f].failed])
               /\ \A i \in JobIds : i # f => table'[i] = table[i]
               /\ ~table'[f].live /\ ~table'[f].failed
    BY <1>1, <1>2, <2>2 DEF Publish, Goes, Publishing, NoState, TypeOK
  <2> QED
    BY <2>1, <2>2
<1> DEFINE r == [job |-> f, ok |-> ~table[f].failed]
<1>5. r \in ResultRecord /\ r.job = f /\ (r.ok <=> ~table[f].failed)
  BY <1>2 DEF ResultRecord, JobState
<1> HIDE DEF r
<1>6. /\ results \in Seq(ResultRecord) /\ Len(results) \in Nat /\ DOMAIN results = 1..Len(results)
      /\ results' = Append(results, r)
  BY <1>1, <1>4, LenProperties DEF TypeOK, ResultRecord, r
<1>7. \A i : InResults(i)' <=> InResults(i) \/ i = f
  BY <1>1, <1>2, <1>5, <1>6, AppendResult
<1>8. /\ DOMAIN results' = 1..(Len(results) + 1)
      /\ \A n \in 1..Len(results) : results'[n] = results[n]
      /\ results'[Len(results) + 1] = r
  <2>1. results' \in Seq(ResultRecord) /\ Len(results') = Len(results) + 1
    BY <1>5, <1>6, AppendProperties
  <2> QED
    BY <1>5, <1>6, <2>1, AppendProperties, LenProperties
<1>9. \A n \in 1..(Len(results) + 1) : n \in 1..Len(results) \/ n = Len(results) + 1
  BY <1>6
<1>10. \A i \in JobIds : i # f => (FailedResult(i)' <=> FailedResult(i))
  <2> SUFFICES ASSUME NEW i \in JobIds, i # f PROVE FailedResult(i)' <=> FailedResult(i)
    OBVIOUS
  <2>1. ASSUME FailedResult(i) PROVE FailedResult(i)'
    <3>1. PICK n \in 1..Len(results) : results[n].job = i /\ ~results[n].ok
      BY <1>6, <2>1 DEF FailedResult
    <3>2. n \in DOMAIN results' /\ results'[n] = results[n]
      BY <1>6, <1>8, <3>1
    <3> QED
      BY <3>1, <3>2 DEF FailedResult
  <2>2. ASSUME FailedResult(i)' PROVE FailedResult(i)
    <3>1. PICK n \in 1..(Len(results) + 1) : results'[n].job = i /\ ~results'[n].ok
      BY <1>8, <2>2 DEF FailedResult
    <3>2. n \in DOMAIN results /\ results'[n] = results[n]
      BY <1>5, <1>6, <1>8, <1>9, <3>1
    <3> QED
      BY <3>1, <3>2 DEF FailedResult
  <2> QED
    BY <2>1, <2>2
<1>11. FailedResult(f)' <=> table[f].failed
  <2>1. ASSUME table[f].failed PROVE FailedResult(f)'
    <3>1. Len(results) + 1 \in DOMAIN results'
      BY <1>6, <1>8
    <3> QED
      BY <1>5, <1>8, <2>1, <3>1 DEF FailedResult
  <2>2. ASSUME FailedResult(f)' PROVE table[f].failed
    <3>1. PICK n \in 1..(Len(results) + 1) : results'[n].job = f /\ ~results'[n].ok
      BY <1>8, <2>2 DEF FailedResult
    <3>2. n = Len(results) + 1
      BY <1>2, <1>6, <1>8, <1>9, <3>1 DEF InResults
    <3> QED
      BY <1>5, <1>8, <3>1, <3>2
  <2> QED
    BY <2>1, <2>2
<1>12. \A i \in JobIds : TasksOf(i)' = TasksOf(i) /\ Held(i)' = Held(i)
  BY <1>1, <1>4 DEF TasksOf, Held
<1>13. \A i \in JobIds : i # f => JobView'[i] = JobView[i]
  <2> SUFFICES ASSUME NEW i \in JobIds, i # f PROVE JobView'[i] = JobView[i]
    OBVIOUS
  <2>1. ~Publishing(i) /\ ~Publishing(i)' /\ (fin' = i <=> fin = i)
    BY <1>1, <1>2, <1>4 DEF Publishing
  <2>2. \A w \in Held(i) : pcW'[w] = pcW[w] /\ task'[w] = task[w] /\ good'[w] = good[w]
    BY <1>1, <1>4 DEF Held
  <2>3. table'[i] = table[i] /\ desc'[i] = desc[i]
    BY <1>1, <1>4
  <2>4. InResults(i)' <=> InResults(i)
    BY <1>7
  <2>5. FailedResult(i)' <=> FailedResult(i)
    BY <1>10
  <2>6. TasksOf(i)' = TasksOf(i) /\ Held(i)' = Held(i)
    BY <1>12
  <2> QED
    BY <2>1, <2>2, <2>3, <2>4, <2>5, <2>6, UntouchedJob
<1>14. Stage(f) = "logged" /\ Stage(f)' = "done" /\ ~FailedResult(f)
  BY <1>2, <1>4, <1>7 DEF Stage, Publishing, InResults, FailedResult
<1>15. Unmoved(f)' = {}
  BY <1>3, <1>12 DEF Unmoved
<1>16. HasFailed(f)' = HasFailed(f)
  <2>1. HasFailed(f)' <=> HasFailed(f)
    BY <1>3, <1>4, <1>11, <1>12, <1>14 DEF HasFailed, FailedResult
  <2> QED
    BY <2>1 DEF HasFailed
<1> DEFINE old == JobView[f]
<1>17. old = [stage |-> "logged", op |-> desc[f].op, left |-> {}, failed |-> HasFailed(f)]
  BY <1>3, <1>14 DEF JobView
<1>18. JobView'[f] = [old EXCEPT !.stage = "done"]
  <2>1. JobView'[f] = [stage |-> "done", op |-> desc[f].op, left |-> {}, failed |-> HasFailed(f)]
    BY <1>1, <1>14, <1>15, <1>16 DEF JobView
  <2> HIDE DEF old
  <2> QED
    BY <1>17, <2>1
<1>19. JobView' = [JobView EXCEPT ![f].stage = "done"]
  <2>1. JobView' = [JobView EXCEPT ![f] = [JobView[f] EXCEPT !.stage = "done"]]
    BY <1>13, <1>18, OneView
  <2> QED
    BY <2>1
<1>20. old.stage = "logged"
  BY <1>17
<1>21. Cardinality(Engine!Done) < Cardinality(JobIds)
  <2>1. f \notin Engine!Done
    BY <1>20 DEF Engine!Done
  <2>2. Engine!Done \in SUBSET JobIds
    BY DEF Engine!Done
  <2>3. Engine!Done \cup {f} \in SUBSET JobIds
    BY <2>2
  <2> DEFINE D == Engine!Done
  <2>4. IsFiniteSet(D) /\ Cardinality(D) \in Nat /\ Cardinality(JobIds) \in Nat
        /\ Cardinality(D \cup {f}) <= Cardinality(JobIds)
    BY <2>2, <2>3, FiniteSubsets
  <2>5. f \notin D
    BY <2>1
  <2> HIDE DEF D
  <2>6. Cardinality(D \cup {f}) = Cardinality(D) + 1
    BY <2>4, <2>5, FS_AddElement
  <2>7. Cardinality(D) < Cardinality(JobIds)
    BY <2>4, <2>6
  <2> QED
    BY <2>7 DEF D
<1>22. JobView[f].stage = "logged"
  BY <1>20
<1> HIDE DEF old
<1>23. Engine!Publish(f)
  BY <1>1, <1>19, <1>21, <1>22, SameCount DEF Engine!Publish, contents
<1> QED
  BY <1>2, <1>23


\* The results poll takes are those of as many jobs.
LEMMA PollSize ==
  ASSUME TypeOK, OneResult
  PROVE  /\ PollSet \in SUBSET JobIds
         /\ Cardinality(PollSet) = PollCount
         /\ \A i \in PollSet : InResults(i)
         /\ PollCount = Len(results) => \A i : InResults(i) => i \in PollSet
<1>1. /\ Len(results) \in Nat /\ DOMAIN results = 1..Len(results)
      /\ \A i \in 1..Len(results) : results[i] \in ResultRecord
      /\ PollCount \in 0..Len(results)
  <2>1. results \in Seq(ResultRecord)
    BY DEF TypeOK, ResultRecord
  <2>2. /\ Len(results) \in Nat /\ DOMAIN results = 1..Len(results)
        /\ \A i \in 1..Len(results) : results[i] \in ResultRecord
    BY <2>1, LenProperties, ElementOfSeq
  <2>3. PollCount \in 0..Len(results)
    BY <2>2, ThreadsAssumption DEF PollCount
  <2> QED
    BY <2>2, <2>3
<1>2. \A i \in 1..PollCount : i \in DOMAIN results
  BY <1>1
<1>3. Cardinality(PollSet) = PollCount
  <2> DEFINE n == PollCount
             g == [i \in 1..n |-> results[i].job]
  <2>1. /\ \A i \in 1..n : g[i] = results[i].job
        /\ g \in [1..n -> PollSet]
    BY DEF PollSet
  <2>2. \A a, b \in 1..n : g[a] = g[b] => a = b
    BY <1>2 DEF OneResult
  <2>3. \A m \in PollSet : \E i \in 1..n : g[i] = m
    BY DEF PollSet
  <2>4. n \in Nat
    BY <1>1
  <2> HIDE DEF g, n
  <2>5. g \in Bijection(1..n, PollSet)
    BY <2>1, <2>2, <2>3 DEF Bijection, Injection, Surjection, IsInjective
  <2>6. ExistsBijection(1..n, PollSet)
    BY <2>5 DEF ExistsBijection
  <2>7. Cardinality(PollSet) = n
    BY <2>4, <2>6, FS_CountingElements
  <2> QED
    BY <2>7 DEF n
<1> QED
  BY <1>1, <1>2, <1>3 DEF PollSet, InResults, ResultRecord

\* poll is a Poll of BlockEngine.
LEMMA PollRefines ==
  ASSUME PoolInv, Poll
  PROVE  \E B \in SUBSET JobIds : Engine!Poll(B) /\ UNCHANGED <<rows, contents>>
<1>1. /\ TypeOK /\ JobsMatch /\ OneResult
      /\ UNCHANGED <<tasks, table, rows, desc, fin, pcC, workers, contents>>
      /\ results' = SubSeq(results, PollCount + 1, Len(results))
  BY DEF Poll, PollCount, PoolInv, JobsMatch, OneResult
<1>2. /\ PollCount \in 0..Len(results) /\ Len(results) \in Nat
      /\ \A i \in DOMAIN results' : i + PollCount \in DOMAIN results
                                    /\ results'[i] = results[i + PollCount]
      /\ DOMAIN results' = 1..(Len(results) - PollCount)
      /\ \A i : InResults(i)' <=> InResults(i) /\ i \notin PollSet
  BY <1>1, PollResults
<1>3. /\ PollSet \in SUBSET JobIds
      /\ Cardinality(PollSet) = PollCount
      /\ \A i \in PollSet : InResults(i)
      /\ PollCount = Len(results) => \A i : InResults(i) => i \in PollSet
  BY <1>1, PollSize
<1>4. ASSUME NEW i \in JobIds, i \notin PollSet PROVE JobView'[i] = JobView[i]
  <2>1. FailedResult(i)' <=> FailedResult(i)
    <3>1. ASSUME FailedResult(i)' PROVE FailedResult(i)
      <4>1. PICK n \in 1..(Len(results) - PollCount) : results'[n].job = i /\ ~results'[n].ok
        BY <1>2, <3>1 DEF FailedResult
      <4>2. n + PollCount \in DOMAIN results /\ results'[n] = results[n + PollCount]
        BY <1>1, <1>2, <4>1
      <4> QED
        BY <4>1, <4>2 DEF FailedResult
    <3>2. ASSUME FailedResult(i) PROVE FailedResult(i)'
      <4>1. PICK n \in DOMAIN results : results[n].job = i /\ ~results[n].ok
        BY <3>2 DEF FailedResult
      <4>2. n \in 1..Len(results) /\ n \notin 1..PollCount
        BY <1>1, <1>4, <4>1, LenProperties DEF PollSet, TypeOK
      <4>3. n - PollCount \in 1..(Len(results) - PollCount) /\ (n - PollCount) + PollCount = n
        BY <1>2, <4>2
      <4>4. results'[n - PollCount] = results[n]
        BY <1>2, <4>3
      <4> QED
        BY <1>2, <4>1, <4>3, <4>4 DEF FailedResult
    <3> QED
      BY <3>1, <3>2
  <2>2. InResults(i)' <=> InResults(i)
    BY <1>2, <1>4
  <2>3. Publishing(i)' <=> Publishing(i)
    BY <1>1 DEF Publishing, workers
  <2>4. TasksOf(i)' = TasksOf(i) /\ Held(i)' = Held(i)
    BY <1>1 DEF TasksOf, Held, workers
  <2>5. \A w \in Held(i) : pcW'[w] = pcW[w] /\ task'[w] = task[w] /\ good'[w] = good[w]
    BY <1>1 DEF workers
  <2>6. table'[i] = table[i] /\ desc'[i] = desc[i]
    BY <1>1
  <2> QED
    BY <1>1, <2>1, <2>2, <2>3, <2>4, <2>5, <2>6, UntouchedJob
<1>5. ASSUME NEW i \in PollSet PROVE JobView'[i] = Engine!NoJob
  <2>1. ~InResults(i)' /\ ~table[i].live /\ fin # i /\ i \in JobIds
    BY <1>1, <1>2, <1>3 DEF JobsMatch
  <2>2. Stage(i)' = "none"
    BY <1>1, <2>1 DEF Stage, Publishing
  <2> QED
    BY <2>1, <2>2 DEF JobView, Engine!NoJob
<1>6. \A i \in PollSet : JobView[i].stage = "done"
  <2> SUFFICES ASSUME NEW i \in PollSet PROVE JobView[i].stage = "done"
    OBVIOUS
  <2>1. Stage(i) = "done" /\ i \in JobIds
    BY <1>3 DEF Stage
  <2> QED
    BY <2>1 DEF JobView
<1>7. \A i \in JobIds : JobView[i].stage = "done" => InResults(i)
  <2> SUFFICES ASSUME NEW i \in JobIds, JobView[i].stage = "done" PROVE InResults(i)
    OBVIOUS
  <2>1. Stage(i) = "done"
    BY DEF JobView
  <2> QED
    BY <2>1 DEF Stage
<1>8. Engine!Pollable(PollSet)
  <2>1. PollSet \subseteq Engine!Done
    BY <1>3, <1>6 DEF Engine!Done
  <2>2. CASE PollCount = Len(results)
    <3>1. PollSet = Engine!Done
      BY <1>3, <1>7, <2>1, <2>2 DEF Engine!Done
    <3>2. PollCount <= PollMax
      BY <1>2, ThreadsAssumption DEF PollCount
    <3> QED
      BY <1>3, <2>1, <3>1, <3>2, SameCount DEF Engine!Pollable
  <2>3. CASE PollCount # Len(results)
    <3>1. PollCount = PollMax
      BY <2>3 DEF PollCount
    <3> QED
      BY <1>3, <2>1, <3>1, SameCount DEF Engine!Pollable
  <2> QED
    BY <2>2, <2>3
<1>9. JobView' = [i \in JobIds |-> IF i \in PollSet THEN Engine!NoJob ELSE JobView[i]]
  <2> DEFINE v == JobView
             vp == JobView'
  <2>1. vp = [i \in JobIds |-> vp[i]]
    BY ViewFunction
  <2>2. \A i \in JobIds : vp[i] = IF i \in PollSet THEN Engine!NoJob ELSE v[i]
    BY <1>4, <1>5
  <2> HIDE DEF v, vp
  <2>3. vp = [i \in JobIds |-> IF i \in PollSet THEN Engine!NoJob ELSE v[i]]
    BY <2>1, <2>2
  <2> QED
    BY <2>3 DEF v, vp
<1> QED
  BY <1>1, <1>3, <1>8, <1>9 DEF Engine!Poll


\* One job's view after one of its blocks has been moved.
MovedRecord(r, x, bad) == [r EXCEPT !.left = @ \ {x}, !.failed = @ \/ bad]
MoveView(v, j, x, bad) == [v EXCEPT ![j].left = @ \ {x}, ![j].failed = @ \/ bad]
IsView(v) == v = [i \in JobIds |-> v[i]]

\* Two fields of one job updated together.
LEMMA MovedView ==
  ASSUME NEW v, NEW u, IsView(v), IsView(u), NEW j \in JobIds, NEW x, NEW bad,
         u[j] = MovedRecord(v[j], x, bad), \A i \in JobIds : i # j => u[i] = v[i]
  PROVE  u = MoveView(v, j, x, bad)
<1> DEFINE b == [v EXCEPT ![j].left = @ \ {x}]
           c == [b EXCEPT ![j].failed = @ \/ bad]
<1>1. b[j] = [v[j] EXCEPT !.left = @ \ {x}]
  BY DEF IsView
<1>2. b = [i \in JobIds |-> b[i]] /\ \A i \in JobIds : i # j => b[i] = v[i]
  BY DEF IsView
<1> HIDE DEF b
<1>3. c = [i \in JobIds |-> c[i]] /\ \A i \in JobIds : i # j => c[i] = v[i]
  BY <1>2
<1>4. c[j] = [b[j] EXCEPT !.failed = b[j].failed \/ bad]
  BY <1>2
<1>5. c[j] = MovedRecord(v[j], x, bad)
  BY <1>1, <1>4 DEF MovedRecord
<1> HIDE DEF c
<1>6. u = c
  BY <1>3, <1>5 DEF IsView
<1> QED
  BY <1>6 DEF b, c, MoveView

\* The transfer of a block, as the caller sees it.
TransferView(w, bad) == Engine!Moved(task[w][1], task[w][2], bad)

LEMMA TransferMoves ==
  ASSUME PoolInv, OncePerBlock, NEW w \in Workers, TransferOne(w),
         NEW ok \in BOOLEAN, good' = [good EXCEPT ![w] = ok]
  PROVE  /\ task[w] \in Tasks
         /\ JobView[task[w][1]].stage = "running"
         /\ JobView[task[w][1]].op = desc[task[w][1]].op
         /\ desc[task[w][1]].op \in {"store", "load"}
         /\ task[w][2] \in JobView[task[w][1]].left
         /\ TransferView(w, ~ok)
<1>1. /\ TypeOK /\ JobsMatch /\ pcW[w] = "io"
      /\ UNCHANGED <<mu, tasks, table, results, rows, desc, task, fin, pcC>>
      /\ pcW' = [pcW EXCEPT ![w] = "settle"]
  BY DEF TransferOne, Goes, PoolInv, books
<1>2. PICK j \in JobIds, x \in Keys \X Slots : task[w] = <<j, x>>
  BY <1>1, HeldIsLive DEF Tasks
<1>3. task[w] \in Tasks /\ task[w][1] = j /\ task[w][2] = x
  BY <1>2 DEF Tasks
<1>4. /\ w \in Held(j) /\ table[j].live /\ table[j].remaining \in Nat \ {0} /\ fin # j
      /\ Stage(j) = "running" /\ desc[j] # None
  <2>1. /\ w \in Held(j) /\ table[j].live /\ table[j].remaining \in Nat \ {0} /\ fin # j
        /\ table[j].remaining # 0
    BY <1>1, <1>3, HeldIsLive
  <2> QED
    BY <1>1, <2>1, StageFacts DEF JobsMatch
<1>5. desc[j] \in Workload /\ desc[j].op \in {"store", "load"}
  BY <1>1, <1>4, WorkloadAssumption DEF TypeOK
<1>6. /\ pcW'[w] = "settle" /\ good'[w] = ok
      /\ \A v \in Workers : v # w => pcW'[v] = pcW[v] /\ good'[v] = good[v]
      /\ task' = task
  BY <1>1 DEF TypeOK
<1>7. /\ \A i : /\ TasksOf(i)' = TasksOf(i)
                /\ Held(i)' = Held(i)
                /\ InResults(i)' = InResults(i)
                /\ FailedResult(i)' = FailedResult(i)
                /\ Publishing(i)' = Publishing(i)
  BY <1>1, <1>6 DEF TasksOf, Held, InResults, FailedResult, Publishing
<1>8. ASSUME NEW i \in JobIds, i # j PROVE JobView'[i] = JobView[i]
  <2>1. \A v \in Held(i) : v \in Workers /\ v # w
    BY <1>3, <1>8 DEF Held
  <2>2. \A v \in Held(i) : pcW'[v] = pcW[v] /\ task'[v] = task[v] /\ good'[v] = good[v]
    BY <1>6, <2>1
  <2>3. table'[i] = table[i] /\ desc'[i] = desc[i]
    BY <1>1
  <2>4. fin' = i <=> fin = i
    BY <1>1
  <2> QED
    BY <1>7, <2>2, <2>3, <2>4, UntouchedJob
<1>9. Stage(j)' = "running"
  BY <1>1, <1>4, <1>7 DEF Stage
<1>10. x \in Unmoved(j)
  BY <1>1, <1>3, <1>4 DEF Unmoved
<1>11. Unmoved(j)' = Unmoved(j) \ {x}
  <2> DEFINE A == {v \in Held(j) : pcW[v] = "io"}
             Bs == {v \in Held(j) : pcW'[v] = "io"}
  <2>1. Bs = A \ {w}
    BY <1>6 DEF Held
  <2>2. Unmoved(j) = TasksOf(j) \cup {task[v][2] : v \in A}
    BY DEF Unmoved
  <2>3. Unmoved(j)' = TasksOf(j) \cup {task[v][2] : v \in Bs}
    BY <1>1, <1>7 DEF Unmoved
  <2>4. x \notin TasksOf(j)
    <3> SUFFICES ASSUME NEW n \in DOMAIN tasks, tasks[n][1] = j, tasks[n][2] = x PROVE FALSE
      BY DEF TasksOf
    <3>1. tasks[n] \in Tasks
      BY <1>1, LenProperties, ElementOfSeq DEF TypeOK
    <3>2. tasks[n] = task[w]
      BY <1>2, <3>1 DEF Tasks
    <3> QED
      BY <1>1, <3>2 DEF OncePerBlock
  <2>5. ASSUME NEW v \in A, v # w PROVE task[v][2] # x
    <3>1. v \in Workers /\ pcW[v] = "io" /\ task[v][1] = j /\ task[v] \in Tasks
      BY <1>1 DEF Held, JobsMatch
    <3>2. task[v] # task[w]
      BY <1>1, <2>5, <3>1 DEF OncePerBlock
    <3> QED
      BY <1>2, <3>1, <3>2 DEF Tasks
  <2>6. w \in A
    BY <1>1, <1>4
  <2> HIDE DEF A, Bs
  <2> QED
    BY <1>3, <2>1, <2>2, <2>3, <2>4, <2>5, <2>6
<1>12. HasFailed(j)' = (HasFailed(j) \/ ~ok)
  <2>1. HasFailed(j)' <=> HasFailed(j) \/ ~ok
    <3> DEFINE S(v) == pcW[v] = "settle" /\ ~good[v]
    <3>1. HasFailed(j) <=> table[j].failed \/ (\E v \in Held(j) : S(v)) \/ FailedResult(j)
      BY DEF HasFailed, FailedResult
    <3>2. HasFailed(j)' <=> \/ table[j].failed
                            \/ \E v \in Held(j) : pcW'[v] = "settle" /\ ~good'[v]
                            \/ FailedResult(j)
      BY <1>1, <1>7 DEF HasFailed, FailedResult
    <3>3. \A v \in Held(j) : (pcW'[v] = "settle" /\ ~good'[v]) <=> IF v = w THEN ~ok ELSE S(v)
      BY <1>6 DEF Held
    <3>4. ~S(w) /\ w \in Held(j)
      BY <1>1, <1>4
    <3> HIDE DEF S
    <3> QED
      BY <3>1, <3>2, <3>3, <3>4
  <2> QED
    BY <2>1 DEF HasFailed
<1> DEFINE l == Unmoved(j)
           h == HasFailed(j)
           o == desc[j].op
           bad == ~ok
<1>13. JobView[j] = [stage |-> "running", op |-> o, left |-> l, failed |-> h]
  BY <1>4 DEF JobView
<1>14. JobView'[j] = [stage |-> "running", op |-> o, left |-> l \ {x}, failed |-> h \/ bad]
  BY <1>1, <1>9, <1>11, <1>12 DEF JobView
<1>15. l = Unmoved(j) /\ o = desc[j].op /\ h \in BOOLEAN /\ bad \in BOOLEAN /\ bad = ~ok
  BY DEF HasFailed
<1> HIDE DEF l, h, o, bad
<1>16. JobView'[j] = MovedRecord(JobView[j], x, bad)
  <2>1. MovedRecord([stage |-> "running", op |-> o, left |-> l, failed |-> h], x, bad)
        = [stage |-> "running", op |-> o, left |-> l \ {x}, failed |-> h \/ bad]
    <3> DEFINE r == [stage |-> "running", op |-> o, left |-> l, failed |-> h]
               a == [r EXCEPT !.left = @ \ {x}]
    <3>1. a = [stage |-> "running", op |-> o, left |-> l \ {x}, failed |-> h]
      OBVIOUS
    <3>2. h \in BOOLEAN /\ bad \in BOOLEAN
      BY <1>15
    <3> HIDE DEF a
    <3>3. [a EXCEPT !.failed = @ \/ bad]
          = [stage |-> "running", op |-> o, left |-> l \ {x}, failed |-> h \/ bad]
      BY <3>1, <3>2
    <3> QED
      BY <3>3 DEF a, MovedRecord
  <2> QED
    BY <1>13, <1>14, <2>1
<1>17. Engine!Moved(j, x, bad)
  <2>1. IsView(JobView) /\ IsView(JobView')
    BY ViewFunction DEF IsView
  <2>2. JobView' = MoveView(JobView, j, x, bad)
    BY <1>8, <1>16, <2>1, MovedView
  <2> QED
    BY <2>2 DEF MoveView, Engine!Moved
<1>18. JobView[j].stage = "running" /\ JobView[j].op = desc[j].op /\ x \in JobView[j].left
  BY <1>10, <1>13, <1>15
<1>19. TransferView(w, bad)
  BY <1>3, <1>17 DEF TransferView
<1> QED
  BY <1>3, <1>5, <1>15, <1>18, <1>19


\* pread and pwrite are WriteBlock, ReadBlock or FailBlock of BlockEngine.
LEMMA TransferRefines ==
  ASSUME PoolInv, OncePerBlock, NEW w \in Workers, TransferOne(w)
  PROVE  \E j \in JobIds : Engine!EngineStep(j)
<1>1. PICK ok \in BOOLEAN :
        /\ good' = [good EXCEPT ![w] = ok]
        /\ \/ /\ desc[task[w][1]].op = "store" /\ UNCHANGED misread
              /\ \E c \in IF ok THEN {task[w][2][1]} ELSE {task[w][2][1], Blank, disk[task[w][2][2]]} :
                   disk' = [disk EXCEPT ![task[w][2][2]] = c]
           \/ /\ desc[task[w][1]].op = "load" /\ UNCHANGED disk
              /\ misread' = IF ok /\ disk[task[w][2][2]] # task[w][2][1]
                            THEN misread \cup {task[w][2][1]} ELSE misread
  BY DEF TransferOne
<1>2. /\ task[w] \in Tasks
      /\ JobView[task[w][1]].stage = "running"
      /\ JobView[task[w][1]].op = desc[task[w][1]].op
      /\ task[w][2] \in JobView[task[w][1]].left
      /\ TransferView(w, ~ok)
  BY <1>1, TransferMoves
<1>3. PICK j \in JobIds, x \in Keys \X Slots : j = task[w][1] /\ x = task[w][2]
  BY <1>2 DEF Tasks
<1>4. /\ JobView[j].stage = "running" /\ x \in JobView[j].left
      /\ JobView[j].op = desc[j].op /\ Engine!Moved(j, x, ~ok) /\ UNCHANGED rows
  BY <1>2, <1>3 DEF TransferView, TransferOne, books
<1>5. disk \in [Slots -> Keys \cup {Blank}] /\ x[1] \in Keys /\ x[2] \in Slots
  BY DEF PoolInv, TypeOK
<1>6. CASE ok
  <2>1. (~ok) = FALSE
    BY <1>6
  <2>2. Engine!Moved(j, x, FALSE)
    BY <1>4, <2>1
  <2>3. CASE desc[j].op = "store"
    <3>1. disk' = [disk EXCEPT ![x[2]] = x[1]] /\ UNCHANGED misread
      BY <1>1, <1>3, <1>6, <2>3
    <3>2. Engine!WriteBlock(j, x)
      BY <1>4, <2>2, <2>3, <3>1 DEF Engine!WriteBlock
    <3> QED
      BY <1>4, <3>2 DEF Engine!EngineStep
  <2>4. CASE desc[j].op = "load"
    <3>1. /\ UNCHANGED disk
          /\ misread' = IF disk[x[2]] = x[1] THEN misread ELSE misread \cup {x[1]}
      BY <1>1, <1>3, <1>6, <2>4
    <3>2. Engine!ReadBlock(j, x)
      BY <1>4, <2>2, <2>4, <3>1 DEF Engine!ReadBlock
    <3> QED
      BY <1>4, <3>2 DEF Engine!EngineStep
  <2> QED
    BY <1>1, <1>3, <2>3, <2>4
<1>7. CASE ~ok
  <2>1. (~ok) = TRUE
    BY <1>7
  <2>2. Engine!Moved(j, x, TRUE)
    BY <1>4, <2>1
  <2>3. /\ UNCHANGED misread
        /\ \/ disk' = disk
           \/ /\ desc[j].op = "store"
              /\ \E c \in {x[1], Blank} : disk' = [disk EXCEPT ![x[2]] = c]
    <3>1. CASE desc[j].op = "store"
      <4>1. PICK c \in {x[1], Blank, disk[x[2]]} : disk' = [disk EXCEPT ![x[2]] = c]
        BY <1>1, <1>3, <1>7, <3>1
      <4>2. c = disk[x[2]] => disk' = disk
        BY <1>5, <4>1
      <4> QED
        BY <1>1, <1>3, <1>7, <3>1, <4>1, <4>2
    <3>2. CASE desc[j].op = "load"
      BY <1>1, <1>3, <1>7, <3>2
    <3> QED
      BY <1>1, <1>3, <3>1, <3>2
  <2>4. Engine!FailBlock(j, x)
    BY <1>4, <2>2, <2>3 DEF Engine!FailBlock
  <2> QED
    BY <1>4, <2>4 DEF Engine!EngineStep
<1> QED
  BY <1>6, <1>7

\* Taking a task from the queue moves no block.
LEMMA TakeUnseen ==
  ASSUME PoolInv, NEW w \in Workers, TakeTask(w)
  PROVE  JobView' = JobView
<1>1. /\ TypeOK /\ pcW[w] = "enter" /\ tasks # << >>
      /\ tasks' = Tail(tasks) /\ UNCHANGED <<table, results, desc, good, fin, pcC>>
      /\ task'[w] = Head(tasks) /\ pcW'[w] = "io"
      /\ \A v \in Workers : v # w => pcW'[v] = pcW[v] /\ task'[v] = task[v]
  BY DEF TakeTask, Goes, PoolInv, TypeOK
<1> DEFINE m == Len(tasks)
<1>2. /\ m \in Nat /\ m >= 1 /\ DOMAIN tasks = 1..m /\ Head(tasks) = tasks[1]
  BY <1>1, LenProperties, EmptySeq DEF TypeOK
<1>3. /\ DOMAIN tasks' = 1..(m - 1)
      /\ \A i \in 1..(m - 1) : tasks'[i] = tasks[i + 1]
  <2>1. /\ tasks' \in Seq(Tasks) /\ Len(tasks') = m - 1
        /\ \A i \in 1..Len(tasks') : tasks'[i] = tasks[i + 1]
    BY <1>1, HeadTailProperties DEF TypeOK
  <2> QED
    BY <2>1, LenProperties
<1> HIDE DEF m
<1>4. \A i \in 1..m : i = 1 \/ (i - 1 \in 1..(m - 1) /\ (i - 1) + 1 = i)
  BY <1>2
<1>5. \A i \in 1..(m - 1) : i + 1 \in 1..m
  BY <1>2
<1>6. ASSUME NEW j \in JobIds PROVE JobView'[j] = JobView[j]
  <2> DEFINE Mine == IF Head(tasks)[1] = j THEN {Head(tasks)[2]} ELSE {}
             Me == IF Head(tasks)[1] = j THEN {w} ELSE {}
  <2>1. TasksOf(j) = TasksOf(j)' \cup Mine
    <3>1. ASSUME NEW x \in TasksOf(j) PROVE x \in TasksOf(j)' \cup Mine
      <4>1. PICK n \in 1..m : tasks[n][1] = j /\ tasks[n][2] = x
        BY <1>2, <3>1 DEF TasksOf
      <4>2. CASE n = 1
        BY <1>2, <4>1, <4>2
      <4>3. CASE n # 1
        <5>1. n - 1 \in DOMAIN tasks' /\ tasks'[n - 1] = tasks[n]
          BY <1>3, <1>4, <4>1, <4>3
        <5> QED
          BY <4>1, <5>1 DEF TasksOf
      <4> QED
        BY <4>2, <4>3
    <3>2. ASSUME NEW x \in TasksOf(j)' PROVE x \in TasksOf(j)
      <4>1. PICK n \in 1..(m - 1) : tasks'[n][1] = j /\ tasks'[n][2] = x
        BY <1>3, <3>2 DEF TasksOf
      <4>2. n + 1 \in DOMAIN tasks /\ tasks'[n] = tasks[n + 1]
        BY <1>2, <1>3, <1>5, <4>1
      <4> QED
        BY <4>1, <4>2 DEF TasksOf
    <3>3. Mine \subseteq TasksOf(j)
      <4>1. 1 \in DOMAIN tasks
        BY <1>2
      <4> QED
        BY <1>2, <4>1 DEF TasksOf
    <3> QED
      BY <3>1, <3>2, <3>3
  <2>2. Held(j)' = Held(j) \cup Me /\ w \notin Held(j)
    BY <1>1 DEF Held
  <2> DEFINE A == {v \in Held(j) : pcW[v] = "io"}
             B == {v \in Held(j)' : pcW'[v] = "io"}
  <2>3. B = A \cup Me
    <3>1. \A v \in Held(j) : v \in Workers /\ v # w
      BY <2>2 DEF Held
    <3>2. \A v \in Held(j) : pcW'[v] = pcW[v]
      BY <1>1, <3>1
    <3>3. \A v \in Me : pcW'[v] = "io"
      BY <1>1
    <3> HIDE DEF Me
    <3> QED
      BY <2>2, <3>2, <3>3
  <2>4. \A v \in A : task'[v] = task[v]
    BY <1>1, <2>2 DEF Held
  <2>5. {task'[v][2] : v \in B} = {task[v][2] : v \in A} \cup Mine
    BY <1>1, <2>3, <2>4
  <2>6. Unmoved(j) = TasksOf(j) \cup {task[v][2] : v \in A}
    BY DEF Unmoved
  <2>7. Unmoved(j)' = TasksOf(j)' \cup {task'[v][2] : v \in B}
    BY DEF Unmoved
  <2> HIDE DEF A, B, Mine, Me
  <2>8. Unmoved(j)' = Unmoved(j)
    BY <2>1, <2>5, <2>6, <2>7
  <2>9. HasFailed(j)' = HasFailed(j)
    <3>1. \A v \in Workers : (v \in Held(j)' /\ pcW'[v] = "settle" /\ ~good'[v])
                             <=> (v \in Held(j) /\ pcW[v] = "settle" /\ ~good[v])
      BY <1>1 DEF Held
    <3>2. \A v : (v \in Held(j) => v \in Workers) /\ (v \in Held(j)' => v \in Workers)
      BY DEF Held
    <3>3. HasFailed(j)' <=> HasFailed(j)
      BY <1>1, <3>1, <3>2 DEF HasFailed
    <3> QED
      BY <3>3 DEF HasFailed
  <2>10. Stage(j)' = Stage(j)
    <3>1. Publishing(j)' <=> Publishing(j)
      BY <1>1 DEF Publishing
    <3> QED
      BY <1>1, <3>1 DEF Stage, InResults
  <2> QED
    BY <1>1, <2>8, <2>9, <2>10, SameView
<1> QED
  BY <1>6, SameViews

\* Nor does counting a block off.
LEMMA SettleUnseen ==
  ASSUME PoolInv, NEW w \in Workers, Settle(w)
  PROVE  JobView' = JobView
<1>1. /\ TypeOK /\ pcW[w] = "settle" /\ mu = None /\ fin = None
      /\ UNCHANGED <<tasks, results, desc, good, pcC>>
      /\ pcW'[w] \in {"log", "enter"}
      /\ \A v \in Workers : v # w => pcW'[v] = pcW[v] /\ task'[v] = task[v]
      /\ \A v \in Workers : pcW[v] # "publish"
      /\ pcC # "emptyResult"
      /\ fin' \in {task[w][1], None}
  BY NobodyFinishes, ThreadsAssumption DEF Settle, Goes, PoolInv, TypeOK, LocksMatch
<1>2. PICK j \in JobIds : /\ j = task[w][1] /\ w \in Held(j) /\ table[j].live
                          /\ table[j].remaining \in Nat \ {0}
  BY <1>1, HeldIsLive
<1>3. /\ table'[j].live = TRUE /\ table'[j].failed = (table[j].failed \/ ~good[w])
      /\ \A i \in JobIds : i # j => table'[i] = table[i]
  BY <1>1, <1>2 DEF Settle, VerdictSoFar, TypeOK, JobState
<1>4. \A i : ~Publishing(i) /\ ~Publishing(i)'
  BY <1>1 DEF Publishing
<1>5. \A i : /\ InResults(i)' = InResults(i) /\ FailedResult(i)' = FailedResult(i)
             /\ TasksOf(i)' = TasksOf(i)
  BY <1>1 DEF InResults, FailedResult, TasksOf
<1>6. ASSUME NEW i \in JobIds, i # j PROVE JobView'[i] = JobView[i]
  <2>1. Held(i)' = Held(i)
    BY <1>1, <1>2, <1>6 DEF Held
  <2>2. \A v \in Held(i) : v \in Workers /\ v # w
    BY <1>2, <1>6 DEF Held
  <2>3. \A v \in Held(i) : pcW'[v] = pcW[v] /\ task'[v] = task[v] /\ good'[v] = good[v]
    BY <1>1, <2>2
  <2>4. fin' = i <=> fin = i
    BY <1>1, <1>2, <1>6, JobsAssumption
  <2>5. table'[i] = table[i] /\ desc'[i] = desc[i]
    BY <1>1, <1>3, <1>6
  <2> QED
    BY <1>4, <1>5, <2>1, <2>3, <2>4, <2>5, UntouchedJob
<1>7. JobView'[j] = JobView[j]
  <2>1. Held(j)' = Held(j) \ {w}
    BY <1>1 DEF Held
  <2>2. \A v \in Held(j) : v # w => pcW'[v] = pcW[v] /\ task'[v] = task[v]
    BY <1>1 DEF Held
  <2>3. Unmoved(j)' = Unmoved(j)
    <3> DEFINE A == {v \in Held(j) : pcW[v] = "io"}
               B == {v \in Held(j)' : pcW'[v] = "io"}
    <3>1. B = A /\ \A v \in A : task'[v] = task[v]
      BY <1>1, <2>1, <2>2
    <3>2. Unmoved(j) = TasksOf(j) \cup {task[v][2] : v \in A}
      BY DEF Unmoved
    <3>3. Unmoved(j)' = TasksOf(j)' \cup {task'[v][2] : v \in B}
      BY DEF Unmoved
    <3> HIDE DEF A, B
    <3> QED
      BY <1>5, <3>1, <3>2, <3>3
  <2>4. HasFailed(j)' = HasFailed(j)
    <3> DEFINE S(v) == pcW[v] = "settle" /\ ~good[v]
    <3>1. HasFailed(j) <=> table[j].failed \/ (\E v \in Held(j) : S(v)) \/ FailedResult(j)
      BY DEF HasFailed, FailedResult
    <3>2. HasFailed(j)' <=> \/ table'[j].failed
                            \/ \E v \in Held(j)' : pcW'[v] = "settle" /\ ~good'[v]
                            \/ FailedResult(j)'
      BY DEF HasFailed, FailedResult
    <3>3. \A v \in Held(j) : v # w => ((pcW'[v] = "settle" /\ ~good'[v]) <=> S(v))
      BY <1>1, <2>2
    <3>4. S(w) <=> ~good[w]
      BY <1>1
    <3>5. table'[j].failed <=> table[j].failed \/ ~good[w]
      BY <1>3
    <3> HIDE DEF S
    <3>6. HasFailed(j)' <=> HasFailed(j)
      BY <1>2, <1>5, <2>1, <3>1, <3>2, <3>3, <3>4, <3>5
    <3> QED
      BY <3>6 DEF HasFailed
  <2>5. Stage(j)' = Stage(j)
    BY <1>2, <1>3, <1>4, <1>5 DEF Stage
  <2> QED
    BY <1>1, <2>3, <2>4, <2>5, SameView
<1> QED
  BY <1>6, <1>7, SameViews


\* Every step is one of BlockEngine's, or none.
LEMMA NextRefines ==
  ASSUME PoolInv, TypeOK', OncePerBlock, [Next]_vars
  PROVE  [Engine!EngineNext]_Engine!engineVars
<1>1. PoolInv /\ TypeOK /\ LocksMatch
  BY DEF PoolInv
<1> DEFINE Seen == \E j \in JobIds : \/ Engine!AcceptAny(j)
                                     \/ Engine!EngineStep(j)
                                     \/ \E B \in SUBSET JobIds :
                                          Engine!Poll(B) /\ UNCHANGED <<rows, disk, misread>>
                                     \/ Engine!TakeRecords /\ UNCHANGED <<JobView, disk, misread>>
           Unseen == UNCHANGED <<JobView, rows, disk, misread>>
<1>a. Seen => Engine!EngineNext
  BY DEF Engine!EngineNext
<1>b. Unseen => UNCHANGED Engine!engineVars
  BY DEF Engine!engineVars
<1>c. \A j \in JobIds : Engine!AcceptAny(j) \/ Engine!EngineStep(j) => Seen
  OBVIOUS
<1>d. \A j \in JobIds : Engine!TakeRecords /\ UNCHANGED <<JobView, disk, misread>> => Seen
  OBVIOUS
<1>e. \A j \in JobIds, B \in SUBSET JobIds : Engine!Poll(B) /\ UNCHANGED <<rows, contents>> => Seen
  BY DEF contents
<1>f. JobView' = JobView /\ UNCHANGED <<rows, contents>> => Unseen
  BY DEF contents
<1> HIDE DEF Seen, Unseen
<1> SUFFICES Seen \/ Unseen
  BY <1>a, <1>b
<1>2. ASSUME NEW j \in JobIds, NEW d \in Workload, SubmitEmpty(j, d) \/ SubmitBlocks(j, d)
      PROVE  Seen
  BY <1>2, <1>c, SubmitRefines
<1>3. CASE EmptyRow
  BY <1>3, <1>c, RowRefines DEF Engine!EngineStep
<1>4. CASE EmptyResult
  BY <1>4, <1>c, ResultRefines DEF Engine!EngineStep
<1>5. CASE Poll
  <2>1. PICK B \in SUBSET JobIds : Engine!Poll(B) /\ UNCHANGED <<rows, contents>>
    BY <1>5, PollRefines
  <2>2. \E j \in JobIds : TRUE
    <3>1. results # << >> /\ results \in Seq(ResultRecord)
      BY <1>1, <1>5 DEF Poll, TypeOK, ResultRecord
    <3>2. Head(results) \in ResultRecord
      BY <3>1, HeadTailProperties
    <3> QED
      BY <3>2 DEF ResultRecord
  <2> QED
    BY <1>e, <2>1, <2>2
<1>6. CASE DrainRecords
  <2>1. JobView' = JobView
    BY <1>6, UnseenStep DEF DrainRecords, workers
  <2>2. UNCHANGED contents /\ rows' = {}
    BY <1>6 DEF DrainRecords
  <2>3. CASE JobIds = {}
    <3>1. rows' = rows
      BY <1>1, <2>2, <2>3 DEF TypeOK
    <3> QED
      BY <1>f, <2>1, <2>2, <3>1
  <2>4. CASE JobIds # {}
    <3>1. PICK j \in JobIds : TRUE
      BY <2>4
    <3>2. Engine!TakeRecords
      BY <2>2 DEF Engine!TakeRecords
    <3>3. UNCHANGED <<JobView, disk, misread>>
      BY <2>1, <2>2 DEF contents
    <3> QED
      BY <1>d, <3>1, <3>2, <3>3
  <2> QED
    BY <2>3, <2>4
<1>7. CASE Notify \/ DrainCall \/ DrainReturn \/ Destroy \/ StopNotify \/ Join
  <2>1. /\ UNCHANGED <<tasks, table, results, desc, fin, task, good, rows, contents>>
        /\ pcC # "emptyResult" /\ pcC' # "emptyResult"
        /\ pcW' = pcW \/ pcW' = Woken
    BY <1>7 DEF Notify, DrainCall, DrainReturn, Destroy, StopNotify, Join, books, workers
  <2>2. \A w \in Workers : \/ UNCHANGED <<pcW[w], task[w], good[w]>>
                           \/ pcW[w] \in Elsewhere /\ pcW'[w] \in Elsewhere
    BY <2>1 DEF Woken, Elsewhere
  <2>3. JobView' = JobView
    BY <2>1, <2>2, UnseenStep
  <2> QED
    BY <1>f, <2>1, <2>3
<1>8. CASE Gone \/ UNCHANGED vars
  <2>1. UNCHANGED <<tasks, table, results, desc, fin, task, good, rows, contents, pcC, pcW>>
    BY <1>8 DEF Gone, vars, books, workers
  <2>2. JobView' = JobView
    BY <2>1, UnseenStep
  <2> QED
    BY <1>f, <2>1, <2>2
<1>9. ASSUME NEW w \in Workers, Worker(w) \/ WakeSpuriously(w)
      PROVE  Seen \/ Unseen
  <2>1. CASE FindNothing(w) \/ Block(w) \/ Exit(w) \/ WakeSpuriously(w)
    <3>1. UNCHANGED <<tasks, table, results, desc, fin, task, good, rows, contents, pcC>>
      BY <2>1 DEF FindNothing, Block, Exit, WakeSpuriously, books
    <3>2. /\ pcW[w] \in Elsewhere /\ pcW'[w] \in Elsewhere
          /\ \A v \in Workers : v # w => pcW'[v] = pcW[v]
      BY <1>1, <2>1 DEF FindNothing, Block, Exit, WakeSpuriously, Goes, TypeOK, Elsewhere
    <3>3. JobView' = JobView
      BY <3>1, <3>2, UnseenStep
    <3> QED
      BY <1>f, <3>1, <3>3
  <2>2. CASE TakeTask(w)
    BY <1>f, <2>2, TakeUnseen DEF TakeTask
  <2>3. CASE TransferOne(w)
    BY <1>c, <2>3, TransferRefines
  <2>4. CASE Settle(w)
    BY <1>f, <2>4, SettleUnseen DEF Settle
  <2>5. CASE LogRow(w)
    BY <1>c, <2>5, RowRefines DEF Engine!EngineStep
  <2>6. CASE Publish(w)
    BY <1>c, <2>6, ResultRefines DEF Engine!EngineStep
  <2> QED
    BY <1>9, <2>1, <2>2, <2>3, <2>4, <2>5, <2>6 DEF Worker
<1> QED
  BY <1>2, <1>3, <1>4, <1>5, <1>6, <1>7, <1>8, <1>9 DEF Next

\* To whoever submits and polls, the engine with the pool of threads is the
\* engine the manager was written for: whatever the workers do together, each
\* block of an accepted job is moved at most once, the job's row is in the
\* ledger before its one result, and the result says failed if a block failed.
THEOREM PoolEngineKeepsContract ==
  ASSUME DistinctTransfers
  PROVE  Spec => ImplementsEngine
<1>1. Init => OncePerBlock /\ Engine!EngineInit
  <2> SUFFICES ASSUME Init PROVE OncePerBlock /\ Engine!EngineInit
    OBVIOUS
  <2>1. /\ tasks = << >> /\ results = << >> /\ DOMAIN tasks = {} /\ DOMAIN results = {}
        /\ \A w \in Workers : pcW[w] = "enter"
    BY EmptySeq DEF Init
  <2>2. OncePerBlock
    BY <2>1 DEF OncePerBlock
  <2>3. ASSUME NEW j \in JobIds PROVE Stage(j) = "none"
    <3>1. ~InResults(j) /\ ~table[j].live /\ fin # j
      BY <2>1, JobsAssumption DEF Init, InResults, NoState
    <3> QED
      BY <3>1 DEF Stage, Publishing
  <2>4. JobView = [j \in JobIds |-> Engine!NoJob]
    BY <2>3 DEF JobView, Engine!NoJob
  <2> QED
    BY <2>2, <2>4 DEF Engine!EngineInit, Init
<1>2. PoolInv /\ OncePerBlock /\ [Next]_vars => OncePerBlock'
  BY NextOnce
<1>3. PoolInv /\ PoolInv' /\ OncePerBlock /\ [Next]_vars => [Engine!EngineNext]_Engine!engineVars
  BY NextRefines DEF PoolInv
<1> QED
  BY <1>1, <1>2, <1>3, PoolInvariant, PTL DEF Spec, ImplementsEngine, Engine!EngineSpec

=============================================================================
