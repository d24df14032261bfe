---------------------------- MODULE KvTierEngine ----------------------------
(***************************************************************************)
(* KvTierEngine (kv_tier_engine.cpp) over UringBackend: the scheduler      *)
(* thread submits jobs and polls results through two SPSC queues, one      *)
(* worker thread turns jobs into block transfers on an io_uring, the       *)
(* kernel completes transfers in any order.                                *)
(*                                                                         *)
(* The queues are the bounded fifos SpscQueue implements, of RingCap       *)
(* items.  The worker's loop is split wherever another thread can see or   *)
(* be seen: every pop, the submission of a batch, the reaping, each        *)
(* statement of finish_job on shared state, the sleep.  What is local to   *)
(* the worker in between belongs to the step.                              *)
(***************************************************************************)
EXTENDS Integers, FiniteSets, SequencesExt

CONSTANTS
  Keys, Slots, Blank,  \* block contents and disk slots, as in BlockEngine
  JobIds,              \* jobs, each submitted at most once
  Workload,            \* what a job may be: [op, xfers]
  None,                \* no description, no job
  RingCap,             \* what fits in a queue (kRingCap - 1)
  QueueDepth,          \* queue_depth_
  ReapBatch,           \* kReapBatch
  PollMax,             \* max_n of poll
  ShortSubmits         \* whether io_uring_submit may take less than it is given

ASSUME WorkloadAssumption ==
  /\ None \notin Workload /\ None \notin JobIds
  /\ IsFiniteSet(JobIds) /\ IsFiniteSet(Workload) /\ Workload # {}
  /\ \A d \in Workload : d.op \in {"store", "load"} /\ d.xfers \in Seq(Keys \X Slots)
ASSUME DepthAssumption ==
  /\ \A n \in {RingCap, QueueDepth, ReapBatch, PollMax} : n \in Nat \ {0}
  /\ ShortSubmits \in BOOLEAN

VARIABLES
  inQ,         \* in_q_: jobs submitted
  outQ,        \* out_q_: results, [job, ok]
  pending,     \* pending_jobs_
  stop,        \* stop_
  desc,        \* JobDesc of each job submitted
  table,       \* jobs: the worker's JobState of each job
  issueOrder,  \* issue_order
  progress,    \* made_progress
  skip,        \* skip_submit
  comps,       \* completions reaped and not handled yet
  fin,         \* the job being finished
  pcW,         \* where the worker is
  back,        \* where it goes on after finishing a job
  pcC,         \* where the caller's thread is
  sq,          \* the ring: entries prepared, not taken by the kernel yet
  flying,      \* transfers the kernel is performing
  cq,          \* completions not reaped yet
  rows,        \* records_
  disk,        \* content of each slot
  misread,     \* keys some load got another content for (history)
  issuedTwice  \* transfers the kernel was given twice (history)

shared == <<inQ, outQ, pending, stop, desc>>
local == <<table, issueOrder, progress, skip, comps, fin, pcW, back>>
ring == <<sq, flying, cq, issuedTwice>>
vars == <<shared, local, pcC, ring, rows, disk, misread>>

Least(a, b) == IF a < b THEN a ELSE b

\* The n-th transfer of job j is the entry <<j, n>>.
MaxXfers == CHOOSE m \in {Len(d.xfers) : d \in Workload} :
              \A d \in Workload : Len(d.xfers) <= m
Entries == JobIds \X (1..MaxXfers)

JobState == [live : BOOLEAN, next : 0..MaxXfers, inflight : 0..MaxXfers, failed : BOOLEAN]
NoState == [live |-> FALSE, next |-> 0, inflight |-> 0, failed |-> FALSE]

Completion == [job : JobIds, n : 1..MaxXfers, ok : BOOLEAN]

TypeOK ==
  /\ inQ \in Seq(JobIds) /\ Len(inQ) <= RingCap
  /\ outQ \in Seq([job : JobIds, ok : BOOLEAN]) /\ Len(outQ) <= RingCap
  /\ pending \in 0..Cardinality(JobIds)
  /\ stop \in BOOLEAN /\ progress \in BOOLEAN /\ skip \in BOOLEAN
  /\ desc \in [JobIds -> Workload \cup {None}]
  /\ table \in [JobIds -> JobState]
  /\ issueOrder \in Seq(JobIds)
  /\ comps \in SUBSET Completion /\ cq \in SUBSET Completion
  /\ fin \in JobIds \cup {None}
  /\ pcW \in {"take", "issue", "reap", "handle", "row", "push", "retire", "end",
              "sleep", "leftover", "exit"}
  /\ back \in {"take", "handle", "leftover"}
  /\ pcC \in {"ready", "notify", "drain", "join", "gone"}
  /\ sq \in Seq(Entries) /\ flying \in SUBSET Entries
  /\ rows \in SUBSET JobIds
  /\ disk \in [Slots -> Keys \cup {Blank}] /\ misread \in SUBSET Keys
  /\ issuedTwice \in SUBSET Entries

Init ==
  /\ inQ = << >> /\ outQ = << >> /\ pending = 0 /\ stop = FALSE
  /\ desc = [j \in JobIds |-> None]
  /\ table = [j \in JobIds |-> NoState]
  /\ issueOrder = << >> /\ progress = FALSE /\ skip = FALSE /\ comps = {}
  /\ fin = None /\ pcW = "take" /\ back = "take" /\ pcC = "ready"
  /\ sq = << >> /\ flying = {} /\ cq = {}
  /\ rows = {} /\ disk = [s \in Slots |-> Blank] /\ misread = {}
  /\ issuedTwice = {}

-----------------------------------------------------------------------------
(* The caller's thread *)

\* submit of a job in_q_ takes; a refused one leaves nothing behind.
Submit(j, d) ==
  /\ pcC = "ready" /\ desc[j] = None
  /\ Len(inQ) < RingCap
  /\ desc' = [desc EXCEPT ![j] = d]
  /\ pending' = pending + 1
  /\ inQ' = Append(inQ, j)
  /\ pcC' = "notify"
  /\ UNCHANGED <<outQ, stop, local, ring, rows, disk, misread>>

\* The end of submit: take the lock and let go of it, then notify.
Notify ==
  /\ pcC = "notify"
  /\ pcC' = "ready"
  /\ pcW' = IF pcW = "sleep" THEN "take" ELSE pcW
  /\ UNCHANGED <<shared, table, issueOrder, progress, skip, comps, fin, back, ring,
                 rows, disk, misread>>

Poll ==
  /\ pcC = "ready" /\ outQ # << >>
  /\ outQ' = SubSeq(outQ, Least(PollMax, Len(outQ)) + 1, Len(outQ))
  /\ UNCHANGED <<inQ, pending, stop, desc, local, pcC, ring, rows, disk, misread>>

DrainRecords ==
  /\ pcC = "ready"
  /\ rows' = {}
  /\ UNCHANGED <<shared, local, pcC, ring, disk, misread>>

DrainCall ==
  /\ pcC = "ready"
  /\ pcC' = "drain"
  /\ UNCHANGED <<shared, local, ring, rows, disk, misread>>

DrainReturn ==
  /\ pcC = "drain" /\ pending = 0
  /\ pcC' = "ready"
  /\ UNCHANGED <<shared, local, ring, rows, disk, misread>>

\* The destructor: raise stop_, notify, wait for the worker to end.
Destroy ==
  /\ pcC = "ready"
  /\ stop' = TRUE
  /\ pcC' = "join"
  /\ pcW' = IF pcW = "sleep" THEN "take" ELSE pcW
  /\ UNCHANGED <<inQ, outQ, pending, desc, table, issueOrder, progress, skip, comps, fin,
                 back, ring, rows, disk, misread>>

Join ==
  /\ pcC = "join" /\ pcW = "exit"
  /\ pcC' = "gone"
  /\ UNCHANGED <<shared, local, ring, rows, disk, misread>>

-----------------------------------------------------------------------------
(* The worker: taking jobs *)

Emplaced(j) == table' = [table EXCEPT ![j] = [NoState EXCEPT !.live = TRUE]]

\* Mutation: an empty job is queued for issuing like any other.
TakeJobAlwaysIssued ==
  /\ pcW = "take" /\ inQ # << >>
  /\ inQ' = Tail(inQ)
  /\ Emplaced(Head(inQ))
  /\ progress' = TRUE
  /\ issueOrder' = Append(issueOrder, Head(inQ))
  /\ UNCHANGED <<outQ, pending, stop, desc, skip, comps, fin, pcW, back, pcC, ring,
                 rows, disk, misread>>

\* A popped job without blocks is finished at once.
TakeJob ==
  LET j == Head(inQ) IN
  /\ pcW = "take" /\ inQ # << >>
  /\ inQ' = Tail(inQ)
  /\ Emplaced(j)
  /\ progress' = TRUE
  /\ \/ /\ desc[j].xfers = << >>
        /\ fin' = j /\ pcW' = "row" /\ back' = "take"
        /\ UNCHANGED issueOrder
     \/ /\ desc[j].xfers # << >>
        /\ issueOrder' = Append(issueOrder, j)
        /\ UNCHANGED <<fin, pcW, back>>
  /\ UNCHANGED <<outQ, pending, stop, desc, skip, comps, pcC, ring, rows, disk, misread>>

TakenAll ==
  /\ pcW = "take" /\ inQ = << >>
  /\ pcW' = "issue"
  /\ UNCHANGED <<shared, table, issueOrder, progress, skip, comps, fin, back, pcC, ring,
                 rows, disk, misread>>

-----------------------------------------------------------------------------
(* The worker: issuing a batch *)

\* in_flight() of the backend: taken by the kernel and not reaped.
InFlight == Cardinality(flying) + Cardinality(cq)

\* Mutation: the threshold does not follow the queue depth.
ThresholdFixed == 32

\* submit_threshold.
Threshold == LET half == Least(32, QueueDepth \div 2) IN IF half < 1 THEN 1 ELSE half

\* With little room, transfers in the air and work left, wait for a batch of
\* completions rather than issue a few.
GatherWindow ==
  /\ QueueDepth - InFlight < Threshold
  /\ InFlight > 0
  /\ issueOrder # << >>

NXfers(j) == Len(desc[j].xfers)

\* All entries left to issue, first come first served.
ToIssue ==
  FlattenSeq([o \in DOMAIN issueOrder |->
    LET j == issueOrder[o]
    IN  [i \in 1..NXfers(j) - table[j].next |-> <<j, table[j].next + i>>]])

\* Mutation: the room in the ring ignores what is in the air.
BatchIgnoresInFlight ==
  IF GatherWindow THEN << >>
  ELSE SubSeq(ToIssue, 1, Least(QueueDepth, Len(ToIssue)))

\* reqs of this round.
Batch ==
  IF GatherWindow THEN << >>
  ELSE SubSeq(ToIssue, 1, Least(QueueDepth - InFlight, Len(ToIssue)))

CountOf(reqs, j) == Cardinality({i \in DOMAIN reqs : reqs[i][1] = j})

\* How many jobs have nothing left to issue.
Exhausted(tab) == Cardinality({o \in DOMAIN issueOrder :
                                 tab[issueOrder[o]].next = NXfers(issueOrder[o])})

\* table and issue_order once reqs has been filled; exhausted jobs leave the
\* front.
Filled(reqs) ==
  LET advanced == [j \in JobIds |-> [table[j] EXCEPT
                     !.next = @ + CountOf(reqs, j), !.inflight = @ + CountOf(reqs, j)]]
  IN  [tab |-> advanced,
       order |-> SubSeq(issueOrder, Exhausted(advanced) + 1, Len(issueOrder))]

\* One refused entry goes back to its job; the job returns to the front of
\* issue_order if filling had removed it.
RolledBack(s, entry) ==
  LET j == entry[1]
      tab == [s.tab EXCEPT ![j].next = @ - 1, ![j].inflight = @ - 1]
  IN  [tab |-> tab,
       order |-> IF tab[j].next + 1 = NXfers(j) THEN << j >> \o s.order ELSE s.order]

\* Entries UringBackend::submit can prepare: as many as the queue has room for.
Prepared(reqs) == SubSeq(reqs, 1, Least(Len(reqs), QueueDepth - Len(sq)))

\* UringBackend::submit: prepare entries, then one system call.  It normally
\* takes all that is prepared; a short or failed call leaves the rest in sq,
\* and what it took counts as accepted.
Issue ==
  LET reqs == Batch
      given == sq \o Prepared(reqs)
  IN
  /\ pcW = "issue" /\ reqs # << >>
  /\ \E accepted \in IF ShortSubmits THEN 0..Len(given) ELSE {Len(given)} :
       LET taken == ToSet(SubSeq(given, 1, accepted))
           after == FoldLeft(RolledBack, Filled(reqs),
                             Reverse(SubSeq(reqs, accepted + 1, Len(reqs))))
       IN
       /\ flying' = flying \cup taken
       /\ issuedTwice' = issuedTwice \cup
            (taken \cap (flying \cup {<<c.job, c.n>> : c \in cq \cup comps}))
       /\ sq' = SubSeq(given, accepted + 1, Len(given))
       /\ table' = after.tab
       /\ issueOrder' = after.order
  /\ progress' = TRUE
  /\ skip' = FALSE
  /\ pcW' = "reap"
  /\ UNCHANGED <<shared, comps, fin, back, pcC, cq, rows, disk, misread>>

IssueNothing ==
  /\ pcW = "issue" /\ Batch = << >>
  /\ skip' = GatherWindow
  /\ pcW' = "reap"
  /\ UNCHANGED <<shared, table, issueOrder, progress, comps, fin, back, pcC, ring,
                 rows, disk, misread>>

-----------------------------------------------------------------------------
(* The kernel *)

Complete(e, ok) ==
  /\ flying' = flying \ {e}
  /\ cq' = cq \cup {[job |-> e[1], n |-> e[2], ok |-> ok]}
  /\ UNCHANGED <<shared, local, pcC, sq, rows, issuedTwice>>

XferOf(e) == desc[e[1]].xfers[e[2]]

\* A whole block is written or read.
TransferBlock(e) ==
  LET k == XferOf(e)[1]
      s == XferOf(e)[2]
  IN
  /\ Complete(e, TRUE)
  /\ \/ /\ desc[e[1]].op = "store"
        /\ disk' = [disk EXCEPT ![s] = k]
        /\ UNCHANGED misread
     \/ /\ desc[e[1]].op = "load"
        /\ misread' = IF disk[s] = k THEN misread ELSE misread \cup {k}
        /\ UNCHANGED disk

\* An errno or a short transfer, which may have written something.
FailTransfer(e) ==
  /\ Complete(e, FALSE)
  /\ UNCHANGED misread
  /\ \/ UNCHANGED disk
     \/ /\ desc[e[1]].op = "store"
        /\ \E c \in {XferOf(e)[1], Blank} : disk' = [disk EXCEPT ![XferOf(e)[2]] = c]

Kernel == \E e \in flying : TransferBlock(e) \/ FailTransfer(e)

-----------------------------------------------------------------------------
(* The worker: reaping *)

\* How many completions reap waits for.
MinComplete ==
  IF skip THEN Least(Threshold, InFlight)
  ELSE IF progress \/ issueOrder # << >> THEN 0 ELSE 1

\* wait_cqe_nr, then everything that is there, a batch of it at most.
Reap ==
  /\ pcW = "reap" /\ InFlight > 0
  /\ Cardinality(cq) >= MinComplete
  /\ \E B \in SUBSET cq :
       /\ Cardinality(B) = Least(ReapBatch, Cardinality(cq))
       /\ comps' = B
       /\ cq' = cq \ B
       /\ progress' = (progress \/ B # {})
  /\ pcW' = "handle"
  /\ UNCHANGED <<shared, table, issueOrder, skip, fin, back, pcC, sq, flying, issuedTwice,
                 rows, disk, misread>>

ReapNothing ==
  /\ pcW = "reap" /\ InFlight = 0
  /\ pcW' = "end"
  /\ UNCHANGED <<shared, table, issueOrder, progress, skip, comps, fin, back, pcC, ring,
                 rows, disk, misread>>

\* Mutation: a short transfer counts as a good one.
CountedOptimistic(c) == [table[c.job] EXCEPT !.inflight = @ - 1]

\* The job's state after one of its completions.
Counted(c) ==
  [table[c.job] EXCEPT !.inflight = @ - 1, !.failed = @ \/ ~c.ok]

AllSettled(j, js) == js.inflight = 0 /\ js.next = NXfers(j)

HandleCompletion(c) ==
  /\ pcW = "handle"
  /\ comps' = comps \ {c}
  /\ table' = [table EXCEPT ![c.job] = Counted(c)]
  /\ \/ /\ AllSettled(c.job, Counted(c))
        /\ fin' = c.job /\ pcW' = "row" /\ back' = "handle"
     \/ /\ ~AllSettled(c.job, Counted(c))
        /\ UNCHANGED <<fin, pcW, back>>
  /\ UNCHANGED <<shared, issueOrder, progress, skip, pcC, ring, rows, disk, misread>>

HandledAll ==
  /\ pcW = "handle" /\ comps = {}
  /\ pcW' = "end"
  /\ UNCHANGED <<shared, table, issueOrder, progress, skip, comps, fin, back, pcC, ring,
                 rows, disk, misread>>

-----------------------------------------------------------------------------
(* The worker: finish_job *)

LogRow ==
  /\ pcW = "row"
  /\ rows' = rows \cup {fin}
  /\ pcW' = "push"
  /\ UNCHANGED <<shared, table, issueOrder, progress, skip, comps, fin, back, pcC, ring,
                 disk, misread>>

\* Spins while out_q_ is full.
PushResult ==
  /\ pcW = "push"
  /\ Len(outQ) < RingCap
  /\ outQ' = Append(outQ, [job |-> fin, ok |-> ~table[fin].failed])
  /\ pcW' = "retire"
  /\ UNCHANGED <<inQ, pending, stop, desc, table, issueOrder, progress, skip, comps, fin,
                 back, pcC, ring, rows, disk, misread>>

\* The job leaves the table and no longer counts as pending.
Retire ==
  /\ pcW = "retire"
  /\ table' = [table EXCEPT ![fin] = NoState]
  /\ pending' = pending - 1
  /\ fin' = None
  /\ pcW' = back
  /\ UNCHANGED <<inQ, outQ, stop, desc, issueOrder, progress, skip, comps, back, pcC, ring,
                 rows, disk, misread>>

-----------------------------------------------------------------------------
(* The worker: end of a round *)

NoJobs == \A j \in JobIds : ~table[j].live

Idle == ~progress /\ InFlight = 0 /\ issueOrder = << >>

\* Mutation: stop ends the loop at once, whatever is left in in_q_.
RoundEndNoLeftovers ==
  /\ pcW = "end"
  /\ pcW' = IF stop /\ NoJobs THEN "exit" ELSE IF Idle THEN "sleep" ELSE "take"
  /\ progress' = FALSE
  /\ UNCHANGED <<shared, table, issueOrder, skip, comps, fin, back, pcC, ring,
                 rows, disk, misread>>

\* Stop, sleep or another round.
RoundEnd ==
  /\ pcW = "end"
  /\ pcW' = IF stop /\ NoJobs THEN "leftover" ELSE IF Idle THEN "sleep" ELSE "take"
  /\ progress' = FALSE
  /\ UNCHANGED <<shared, table, issueOrder, skip, comps, fin, back, pcC, ring,
                 rows, disk, misread>>

\* The 50 ms are over.
WakeByTimeout ==
  /\ pcW = "sleep"
  /\ pcW' = "take"
  /\ UNCHANGED <<shared, table, issueOrder, progress, skip, comps, fin, back, pcC, ring,
                 rows, disk, misread>>

\* A job found in in_q_ after stop: a row and a failure, no transfer.
FailLeftover ==
  LET j == Head(inQ) IN
  /\ pcW = "leftover" /\ inQ # << >>
  /\ inQ' = Tail(inQ)
  /\ table' = [table EXCEPT ![j].failed = TRUE]
  /\ rows' = rows \cup {j}
  /\ fin' = j /\ pcW' = "push" /\ back' = "leftover"
  /\ UNCHANGED <<outQ, pending, stop, desc, issueOrder, progress, skip, comps, pcC, ring,
                 disk, misread>>

Exit ==
  /\ pcW = "leftover" /\ inQ = << >>
  /\ pcW' = "exit"
  /\ UNCHANGED <<shared, table, issueOrder, progress, skip, comps, fin, back, pcC, ring,
                 rows, disk, misread>>

-----------------------------------------------------------------------------
Worker ==
  \/ TakeJob \/ TakenAll
  \/ Issue \/ IssueNothing
  \/ Reap \/ ReapNothing
  \/ \E c \in comps : HandleCompletion(c)
  \/ HandledAll
  \/ LogRow \/ PushResult \/ Retire
  \/ RoundEnd \/ WakeByTimeout \/ FailLeftover \/ Exit

\* After the destructor the engine is gone.
Gone == pcC = "gone" /\ UNCHANGED vars

Next ==
  \/ \E j \in JobIds, d \in Workload : Submit(j, d)
  \/ Notify \/ Poll \/ DrainRecords \/ DrainCall \/ DrainReturn \/ Destroy \/ Join
  \/ Worker
  \/ Kernel
  \/ Gone

Spec == Init /\ [][Next]_vars

\* Worker and kernel never stall; the calls drain and submit go on once what
\* they wait for is there; a caller that is free keeps polling.
Fairness ==
  /\ WF_vars(Worker)
  /\ \A e \in Entries : WF_vars(e \in flying /\ (TransferBlock(e) \/ FailTransfer(e)))
  /\ WF_vars(Notify) /\ WF_vars(DrainReturn) /\ WF_vars(Join)
  /\ SF_vars(Poll)

LiveSpec == Spec /\ Fairness

-----------------------------------------------------------------------------
(* Properties *)

InQ(j) == \E i \in DOMAIN inQ : inQ[i] = j
OutQ(j) == \E i \in DOMAIN outQ : outQ[i].job = j

\* The entries of j the worker has issued and not handled yet.
InTheAir(j) ==
  {e \in flying : e[1] = j} \cup {<<c.job, c.n>> : c \in {d \in cq \cup comps : d.job = j}}

\* When drain may return (pending_jobs_ is zero) every result is out and no
\* transfer on primary memory is in the air or can still be issued.
DrainedMeansIdle ==
  pending = 0 =>
    /\ flying = {} /\ sq = << >> /\ inQ = << >>
    /\ NoJobs
    /\ pcW # "push"

\* What the worker believes agrees with the ring: a job's inflight counts its
\* transfers in the air, all of them below its cursor; issue_order has exactly
\* the jobs with transfers to issue, once each; in_flight never exceeds the
\* queue depth; nothing stays prepared but not submitted; and a drain that
\* returns leaves nothing of this.
WorkerLedger ==
  /\ TypeOK /\ DrainedMeansIdle
  /\ \A j \in JobIds :
       /\ table[j].inflight = Cardinality(InTheAir(j))
       /\ \A e \in InTheAir(j) : e[2] <= table[j].next
       /\ table[j].live /\ table[j].next < NXfers(j) <=> j \in ToSet(issueOrder)
  /\ IsInjective(issueOrder)
  /\ InFlight <= QueueDepth
  /\ sq = << >>

\* The worker blocks for a batch of completions.
WaitsForBatch == pcW = "reap" /\ skip /\ Cardinality(cq) < MinComplete

\* The gather window never waits for the device to run dry (the lockstep of
\* kv_tier_engine.cpp:184-186): while the worker blocks for a batch, two
\* transfers at least are still in the air, and at depths above 64, where the
\* threshold stops growing, all but 62.  The comment at 187-188 claims half of
\* the depth instead, which the code does not keep: with a batch of half the
\* depth less one already completed and not reaped, the wait goes on with two
\* of the default 32 in the air; at an even depth no higher bound holds.
GatherKeepsDeviceBusy ==
  WaitsForBatch =>
    Cardinality(flying) >= IF QueueDepth > 64 THEN QueueDepth - 62 ELSE Least(2, QueueDepth)

\* When the worker has ended, every job ever accepted has its result in out_q_
\* or polled, and nothing is pending (kv_tier_engine.cpp:350).
NothingLeftBehind ==
  pcW = "exit" => pending = 0 /\ inQ = << >> /\ InFlight = 0 /\ NoJobs

\* JobDesc and the worker's state as BlockEngine's view of a job.
Stage(j) ==
  IF OutQ(j) THEN "done"
  ELSE IF pcW = "retire" /\ fin = j THEN "none"
  ELSE IF pcW = "push" /\ fin = j THEN "logged"
  ELSE IF InQ(j) \/ table[j].live THEN "running"
  ELSE "none"

Unmoved(j) ==
  {desc[j].xfers[n] : n \in {i \in 1..NXfers(j) : i > table[j].next \/ <<j, i>> \in flying}}

HasFailed(j) ==
  \/ table[j].failed
  \/ \E c \in cq \cup comps : c.job = j /\ ~c.ok
  \/ \E i \in DOMAIN outQ : outQ[i].job = j /\ ~outQ[i].ok

JobView ==
  [j \in JobIds |->
     IF Stage(j) = "none"
     THEN [stage |-> "none", op |-> "load", left |-> {}, failed |-> FALSE]
     ELSE [stage |-> Stage(j), op |-> desc[j].op, failed |-> HasFailed(j),
           left |-> IF Stage(j) = "running" THEN Unmoved(j) ELSE {}]]

Engine == INSTANCE BlockEngine WITH
  job <- JobView, records <- rows, ResultCap <- RingCap

\* The engine keeps the promises TierManager relies on: a result only after
\* all blocks have moved and the row is written, a success only without any
\* failed block.
ImplementsEngine == Engine!EngineSpec

\* The results on their way through out_q_: those in it, and those of the jobs
\* pending that are not in it yet.
ToCome == Len(outQ) + pending - (IF pcW = "retire" THEN 1 ELSE 0)

\* The caller, who alone empties out_q_, waits in drain or for the worker to
\* end, with more results to come than out_q_ can hold.
Stuck == pcC \in {"drain", "join"} /\ ToCome > RingCap

\* Every accepted job is answered and every wait of the caller comes to its
\* end, before or after a drain, as long as the engine lives, unless the caller
\* is stuck; and then it is for ever, as finish_job spins on the full queue
\* (kv_tier_engine.cpp:226-230), although kv_tier_engine.hpp:139 has drain wait
\* only until all jobs have their results.
EveryJobFinishes ==
  /\ \A j \in JobIds : desc[j] # None ~> Stage(j) = "none" \/ pcC = "gone" \/ Stuck
  /\ pcC \in {"drain", "join"} ~> pcC \in {"ready", "gone"} \/ Stuck
  /\ [][Stuck => Stuck']_vars

\* A refused transfer is issued again, an accepted one is not
\* (kv_tier_engine.cpp:299).
BlocksIssuedOnce == issuedTwice = {}
=============================================================================
