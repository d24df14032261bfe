--------------------------- MODULE PoolTierEngine ---------------------------
(***************************************************************************)
(* PoolTierEngine (pool_tier_engine.cpp): the engine of the same interface *)
(* as KvTierEngine whose blocks are moved by a pool of threads with        *)
(* synchronous reads and writes.  One mutex, mu_, guards the task queue,   *)
(* the job table, the results and the rows; workers wait on a condition    *)
(* variable that submit and the destructor notify.                         *)
(*                                                                         *)
(* A critical section is one step when it only concerns the engine's own   *)
(* books; where a row and a result are written in one section they are two *)
(* steps that hold mu.  A worker that finds nothing to do still holds mu   *)
(* until it waits, and only then can be notified.                          *)
(***************************************************************************)
EXTENDS Integers, FiniteSets, Sequences

CONSTANTS
  Keys, Slots, Blank,  \* block contents and disk slots, as in BlockEngine
  JobIds,              \* jobs, each submitted at most once
  Workload,            \* what a job may be: [op, xfers]
  Workers,             \* workers_
  Caller,              \* the scheduler thread
  None,                \* no description, no thread, no task
  PollMax              \* max_n of poll

ASSUME JobsAssumption == IsFiniteSet(JobIds) /\ None \notin JobIds
ASSUME WorkloadAssumption ==
  /\ None \notin Workload
  /\ \A d \in Workload : d.op \in {"store", "load"} /\ d.xfers \in Seq(Keys \X Slots)
ASSUME ThreadsAssumption ==
  /\ IsFiniteSet(Workers)
  /\ None \notin Workers /\ Caller \notin Workers /\ Caller # None
  /\ PollMax \in Nat \ {0}

VARIABLES
  mu,       \* who holds mu_
  tasks,    \* tasks_: <<job, transfer>>
  table,    \* jobs_
  results,  \* results_
  rows,     \* records_
  pending,  \* pending_jobs_
  stop,     \* stop_
  desc,     \* JobDesc of each job submitted
  task,     \* the task each worker has taken
  good,     \* whether its transfer went well
  pcW,      \* where each worker is
  fin,      \* the job whose row or result is being written
  pcC,      \* where the caller's thread is
  disk,     \* content of each slot
  misread   \* keys some load got another content for (history)

books == <<tasks, table, results, rows, pending, stop, desc>>
workers == <<task, good, pcW>>
contents == <<disk, misread>>
vars == <<mu, books, workers, fin, pcC, contents>>

JobState == [live : BOOLEAN, remaining : Nat, failed : BOOLEAN]
NoState == [live |-> FALSE, remaining |-> 0, failed |-> FALSE]

Tasks == JobIds \X (Keys \X Slots)

TypeOK ==
  /\ mu \in Workers \cup {Caller, None}
  /\ tasks \in Seq(Tasks)
  /\ table \in [JobIds -> JobState]
  /\ results \in Seq([job : JobIds, ok : BOOLEAN])
  /\ rows \in SUBSET JobIds
  /\ pending \in 0..Cardinality(JobIds)
  /\ stop \in BOOLEAN
  /\ desc \in [JobIds -> Workload \cup {None}]
  /\ task \in [Workers -> Tasks \cup {None}]
  /\ good \in [Workers -> BOOLEAN]
  /\ pcW \in [Workers -> {"enter", "block", "waiting", "io", "settle", "log", "publish", "exit"}]
  /\ fin \in JobIds \cup {None}
  /\ pcC \in {"ready", "emptyRow", "emptyResult", "notify", "drain", "stopNotify", "join", "gone"}
  /\ disk \in [Slots -> Keys \cup {Blank}] /\ misread \in SUBSET Keys

Init ==
  /\ mu = None /\ tasks = << >> /\ table = [j \in JobIds |-> NoState]
  /\ results = << >> /\ rows = {} /\ pending = 0 /\ stop = FALSE
  /\ desc = [j \in JobIds |-> None]
  /\ task = [w \in Workers |-> None] /\ good = [w \in Workers |-> FALSE]
  /\ pcW = [w \in Workers |-> "enter"]
  /\ fin = None /\ pcC = "ready"
  /\ disk = [s \in Slots |-> Blank] /\ misread = {}

Woken == [w \in Workers |-> IF pcW[w] = "waiting" THEN "enter" ELSE pcW[w]]

-----------------------------------------------------------------------------
(* The caller's thread *)

Submitted(j, d) ==
  /\ pcC = "ready" /\ mu = None /\ desc[j] = None
  /\ desc' = [desc EXCEPT ![j] = d]
  /\ pending' = pending + 1

\* A job without blocks is finished within the same critical section.
SubmitEmpty(j, d) ==
  /\ Submitted(j, d) /\ d.xfers = << >>
  /\ mu' = Caller /\ fin' = j /\ pcC' = "emptyRow"
  /\ UNCHANGED <<tasks, table, results, rows, stop, workers, contents>>

EmptyRow ==
  /\ pcC = "emptyRow"
  /\ rows' = rows \cup {fin}
  /\ pcC' = "emptyResult"
  /\ UNCHANGED <<mu, tasks, table, results, pending, stop, desc, workers, fin, contents>>

\* The early return comes before the notify of the workers.
EmptyResult ==
  /\ pcC = "emptyResult"
  /\ results' = Append(results, [job |-> fin, ok |-> TRUE])
  /\ pending' = pending - 1
  /\ mu' = None /\ fin' = None /\ pcC' = "ready"
  /\ UNCHANGED <<tasks, table, rows, stop, desc, workers, contents>>

\* Mutation: the count of blocks left starts one short.
SubmitBlocksShort(j, d) ==
  /\ Submitted(j, d) /\ d.xfers # << >>
  /\ table' = [table EXCEPT ![j] =
       [live |-> TRUE, remaining |-> Len(d.xfers) - 1, failed |-> FALSE]]
  /\ tasks' = tasks \o [n \in DOMAIN d.xfers |-> <<j, d.xfers[n]>>]
  /\ pcC' = "notify"
  /\ UNCHANGED <<mu, results, rows, stop, workers, fin, contents>>

SubmitBlocks(j, d) ==
  /\ Submitted(j, d) /\ d.xfers # << >>
  /\ table' = [table EXCEPT ![j] =
       [live |-> TRUE, remaining |-> Len(d.xfers), failed |-> FALSE]]
  /\ tasks' = tasks \o [n \in DOMAIN d.xfers |-> <<j, d.xfers[n]>>]
  /\ pcC' = "notify"
  /\ UNCHANGED <<mu, results, rows, stop, workers, fin, contents>>

\* Mutation: the workers are not notified.
NotifyNobody ==
  /\ pcC = "notify"
  /\ pcC' = "ready"
  /\ UNCHANGED <<mu, books, workers, fin, contents>>

\* notify_all, after mu_ has been released.
Notify ==
  /\ pcC = "notify"
  /\ pcW' = Woken
  /\ pcC' = "ready"
  /\ UNCHANGED <<mu, books, task, good, fin, contents>>

Poll ==
  LET n == IF Len(results) < PollMax THEN Len(results) ELSE PollMax IN
  /\ pcC = "ready" /\ mu = None /\ results # << >>
  /\ results' = SubSeq(results, n + 1, Len(results))
  /\ UNCHANGED <<mu, tasks, table, rows, pending, stop, desc, workers, fin, pcC, contents>>

DrainRecords ==
  /\ pcC = "ready" /\ mu = None
  /\ rows' = {}
  /\ UNCHANGED <<mu, tasks, table, results, pending, stop, desc, workers, fin, pcC, contents>>

DrainCall ==
  /\ pcC = "ready"
  /\ pcC' = "drain"
  /\ UNCHANGED <<mu, books, workers, fin, contents>>

DrainReturn ==
  /\ pcC = "drain" /\ mu = None /\ pending = 0
  /\ pcC' = "ready"
  /\ UNCHANGED <<mu, books, workers, fin, contents>>

\* The destructor raises stop_ without taking mu_ ...
Destroy ==
  /\ pcC = "ready"
  /\ stop' = TRUE
  /\ pcC' = "stopNotify"
  /\ UNCHANGED <<mu, tasks, table, results, rows, pending, desc, workers, fin, contents>>

\* ... notifies ...
StopNotify ==
  /\ pcC = "stopNotify"
  /\ pcW' = Woken
  /\ pcC' = "join"
  /\ UNCHANGED <<mu, books, task, good, fin, contents>>

\* ... and waits for every worker to end.
Join ==
  /\ pcC = "join" /\ \A w \in Workers : pcW[w] = "exit"
  /\ pcC' = "gone"
  /\ UNCHANGED <<mu, books, workers, fin, contents>>

-----------------------------------------------------------------------------
(* A worker *)

Goes(w, to) == pcW' = [pcW EXCEPT ![w] = to]

TakeTask(w) ==
  /\ pcW[w] = "enter" /\ mu = None /\ tasks # << >>
  /\ task' = [task EXCEPT ![w] = Head(tasks)]
  /\ tasks' = Tail(tasks)
  /\ Goes(w, "io")
  /\ UNCHANGED <<mu, table, results, rows, pending, stop, desc, good, fin, pcC, contents>>

\* Mutation: the predicate of the wait forgets stop_.
FindNothingStopped(w) ==
  /\ pcW[w] = "enter" /\ mu = None /\ tasks = << >>
  /\ mu' = w
  /\ Goes(w, "block")
  /\ UNCHANGED <<books, task, good, fin, pcC, contents>>

\* The predicate of the wait is false: the worker is about to wait.
FindNothing(w) ==
  /\ pcW[w] = "enter" /\ mu = None /\ tasks = << >> /\ ~stop
  /\ mu' = w
  /\ Goes(w, "block")
  /\ UNCHANGED <<books, task, good, fin, pcC, contents>>

\* Releasing mu_ and waiting are one.
Block(w) ==
  /\ pcW[w] = "block"
  /\ mu' = None
  /\ Goes(w, "waiting")
  /\ UNCHANGED <<books, task, good, fin, pcC, contents>>

\* A condition variable may wake a waiting thread for no reason.
WakeSpuriously(w) ==
  /\ pcW[w] = "waiting"
  /\ Goes(w, "enter")
  /\ UNCHANGED <<mu, books, task, good, fin, pcC, contents>>

\* Stopped and nothing left to do.
Exit(w) ==
  /\ pcW[w] = "enter" /\ mu = None /\ tasks = << >> /\ stop
  /\ Goes(w, "exit")
  /\ UNCHANGED <<mu, books, task, good, fin, pcC, contents>>

\* pwrite or pread of one block, without mu_: the whole block, or an error or
\* a short transfer, which may have written something.
TransferOne(w) ==
  LET j == task[w][1]
      k == task[w][2][1]
      s == task[w][2][2]
  IN
  /\ pcW[w] = "io"
  /\ \E ok \in BOOLEAN :
       /\ good' = [good EXCEPT ![w] = ok]
       /\ \/ /\ desc[j].op = "store" /\ UNCHANGED misread
             /\ \E c \in IF ok THEN {k} ELSE {k, Blank, disk[s]} : disk' = [disk EXCEPT ![s] = c]
          \/ /\ desc[j].op = "load" /\ UNCHANGED disk
             /\ misread' = IF ok /\ disk[s] # k THEN misread \cup {k} ELSE misread
  /\ Goes(w, "settle")
  /\ UNCHANGED <<mu, books, task, fin, pcC>>

\* Mutation: each block decides the verdict anew.
VerdictSoFarLast(w) == ~good[w]

\* failed is never taken back.
VerdictSoFar(w) == table[task[w][1]].failed \/ ~good[w]

\* Under mu_: count the block off; the last one finishes the job.
Settle(w) ==
  LET j == task[w][1] IN
  /\ pcW[w] = "settle" /\ mu = None
  /\ table' = [table EXCEPT ![j].remaining = @ - 1, ![j].failed = VerdictSoFar(w)]
  /\ task' = [task EXCEPT ![w] = None]
  /\ \/ table[j].remaining = 1 /\ mu' = w /\ fin' = j /\ Goes(w, "log")
     \/ table[j].remaining # 1 /\ Goes(w, "enter") /\ UNCHANGED <<mu, fin>>
  /\ UNCHANGED <<tasks, results, rows, pending, stop, desc, good, pcC, contents>>

LogRow(w) ==
  /\ pcW[w] = "log"
  /\ rows' = rows \cup {fin}
  /\ Goes(w, "publish")
  /\ UNCHANGED <<mu, tasks, table, results, pending, stop, desc, task, good, fin, pcC, contents>>

Publish(w) ==
  /\ pcW[w] = "publish"
  /\ results' = Append(results, [job |-> fin, ok |-> ~table[fin].failed])
  /\ table' = [table EXCEPT ![fin] = NoState]
  /\ pending' = pending - 1
  /\ fin' = None /\ mu' = None
  /\ Goes(w, "enter")
  /\ UNCHANGED <<tasks, rows, stop, desc, task, good, pcC, contents>>

Worker(w) ==
  \/ TakeTask(w) \/ FindNothing(w) \/ Block(w) \/ Exit(w)
  \/ TransferOne(w)
  \/ Settle(w) \/ LogRow(w) \/ Publish(w)

-----------------------------------------------------------------------------
\* After the destructor the engine is gone.
Gone == pcC = "gone" /\ UNCHANGED vars

Next ==
  \/ \E j \in JobIds, d \in Workload : SubmitEmpty(j, d) \/ SubmitBlocks(j, d)
  \/ EmptyRow \/ EmptyResult \/ Notify
  \/ Poll \/ DrainRecords \/ DrainCall \/ DrainReturn
  \/ Destroy \/ StopNotify \/ Join
  \/ \E w \in Workers : Worker(w) \/ WakeSpuriously(w)
  \/ Gone

Spec == Init /\ [][Next]_vars

\* Threads do not stall, those that wait for mu_ get it in the end, and a
\* caller that is free keeps polling.
CallerReturns == EmptyRow \/ EmptyResult \/ Notify \/ DrainReturn \/ StopNotify \/ Join

Fairness ==
  /\ SF_vars(CallerReturns) /\ SF_vars(Poll)
  /\ \A w \in Workers : SF_vars(Worker(w))

LiveSpec == Spec /\ Fairness

-----------------------------------------------------------------------------
(* Properties *)

TasksOf(j) == {tasks[i][2] : i \in {n \in DOMAIN tasks : tasks[n][1] = j}}
Held(j) == {w \in Workers : pcW[w] \in {"io", "settle"} /\ task[w][1] = j}

\* A job's count of blocks left is the number of its tasks queued or in some
\* worker's hands, so exactly one worker finds it at zero; pending_jobs_
\* counts the jobs in the table and the one being finished on the spot.
BlocksCountedOnce ==
  /\ TypeOK
  /\ \A j \in JobIds :
       table[j].remaining = Cardinality({n \in DOMAIN tasks : tasks[n][1] = j})
                            + Cardinality(Held(j))
  /\ pending = Cardinality({j \in JobIds : table[j].live})
               + (IF pcC \in {"emptyRow", "emptyResult"} THEN 1 ELSE 0)

InResults(j) == \E i \in DOMAIN results : results[i].job = j

Publishing(j) ==
  fin = j /\ (pcC = "emptyResult" \/ \E w \in Workers : pcW[w] = "publish")

Stage(j) ==
  IF InResults(j) THEN "done"
  ELSE IF Publishing(j) THEN "logged"
  ELSE IF table[j].live \/ fin = j THEN "running"
  ELSE "none"

Unmoved(j) == TasksOf(j) \cup {task[w][2] : w \in {v \in Held(j) : pcW[v] = "io"}}

HasFailed(j) ==
  \/ table[j].failed
  \/ \E w \in Held(j) : pcW[w] = "settle" /\ ~good[w]
  \/ \E i \in DOMAIN results : results[i].job = j /\ ~results[i].ok

JobView ==
  [j \in JobIds |->
     IF Stage(j) = "none"
     THEN [stage |-> "none", op |-> "load", left |-> {}, failed |-> FALSE]
     ELSE [stage |-> Stage(j), op |-> desc[j].op, left |-> Unmoved(j), failed |-> HasFailed(j)]]

Engine == INSTANCE BlockEngine WITH
  job <- JobView, records <- rows, ResultCap <- Cardinality(JobIds)

\* This engine keeps the promises TierManager relies on as well.
ImplementsEngine == Engine!EngineSpec

AllAnswered == \A j \in JobIds : desc[j] # None => Stage(j) = "none"

\* While the caller keeps polling, every job is answered (each is submitted
\* once, so it is enough that all are, again and again): drain returns and no
\* wake-up of the workers is lost.
EveryJobFinishes == []<>(AllAnswered \/ pcC \in {"join", "gone"})

\* The destructor's join comes to an end (pool_tier_engine.cpp:77-78) unless the
\* notification, sent without mu_, fell between a worker's look at stop_ and
\* its wait: a worker not caught there ends by itself.
JoinEndsIfHeard ==
  (pcC = "join" /\ \A w \in Workers : pcW[w] \notin {"block", "waiting"}) ~> pcC = "gone"
=============================================================================
