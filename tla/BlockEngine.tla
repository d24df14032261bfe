---------------------------- MODULE BlockEngine ----------------------------
(***************************************************************************)
(* What the disk tier's engine promises to the scheduler thread, whichever *)
(* engine is plugged in (KvTierEngine over io_uring, PoolTierEngine over a *)
(* thread pool): it accepts or refuses a job, moves every block of an      *)
(* accepted job between primary memory and one disk slot, in any order,    *)
(* writes the job's row in the ledger of records, and only then makes its  *)
(* single result available to poll.                                        *)
(*                                                                         *)
(* A block's content is the key it is stored under (KV blocks are          *)
(* addressed by content); Blank stands for bytes that are no key's block   *)
(* (the zeros of a prewarmed file, the remains of a short write).          *)
(***************************************************************************)
EXTENDS Integers, FiniteSets

CONSTANTS
  Keys,       \* OffloadKey values
  Slots,      \* disk slots of one block each
  JobIds,     \* job ids, each used for at most one job
  Blank,      \* content of a slot that holds no key's block
  ResultCap,  \* results the engine can hold before they are polled
  PollMax     \* results one poll returns at most

ASSUME FiniteAssumption == IsFiniteSet(Keys) /\ IsFiniteSet(Slots) /\ IsFiniteSet(JobIds)
ASSUME BlankAssumption == Blank \notin Keys
ASSUME CapAssumption == ResultCap \in Nat \ {0} /\ PollMax \in Nat \ {0}

VARIABLES
  job,      \* engine's view of each job
  records,  \* ledger rows not yet taken by drain_records
  disk,     \* content of each slot
  misread   \* keys some load asked for and got another content (history)

engineVars == <<job, records, disk, misread>>

Ops == {"store", "load"}

\* none: not in the engine; running: blocks left to move or in flight;
\* logged: all blocks settled, row written; done: result waiting for poll.
Stages == {"none", "running", "logged", "done"}

Xfers == Keys \X Slots

JobState ==
  [stage : Stages, op : Ops, left : SUBSET Xfers, failed : BOOLEAN]

NoJob == [stage |-> "none", op |-> "load", left |-> {}, failed |-> FALSE]

EngineTypeOK ==
  /\ job \in [JobIds -> JobState]
  /\ records \in SUBSET JobIds
  /\ disk \in [Slots -> Keys \cup {Blank}]
  /\ misread \in SUBSET Keys

EngineInit ==
  /\ job = [j \in JobIds |-> NoJob]
  /\ records = {}
  /\ disk = [s \in Slots |-> Blank]
  /\ misread = {}

Done == {j \in JobIds : job[j].stage = "done"}

\* Mutation: a job counts as pending until its result is polled.
PendingUntilPolled == {j \in JobIds : job[j].stage # "none"}

\* pending_jobs_: accepted and its result not out yet.
Pending == {j \in JobIds : job[j].stage \in {"running", "logged"}}

-----------------------------------------------------------------------------
(* The scheduler thread's calls *)

\* submit of a job that the entry ring takes.
Accept(j, op, xs) ==
  /\ job[j].stage = "none"
  /\ job' = [job EXCEPT
       ![j] = [stage |-> "running", op |-> op, left |-> xs, failed |-> FALSE]]
  /\ UNCHANGED <<records, disk, misread>>

\* poll returns every finished job, or PollMax of them when there are more.
Pollable(B) ==
  /\ B \subseteq Done
  /\ \/ B = Done /\ Cardinality(B) <= PollMax
     \/ Cardinality(B) = PollMax

Poll(B) ==
  /\ Pollable(B)
  /\ job' = [j \in JobIds |-> IF j \in B THEN NoJob ELSE job[j]]

\* Mutation: a failed block does not fail its job.
VerdictOptimistic(j) == job[j].left = {}

\* What a polled job reports: success only if no block of it failed.
Verdict(j) == ~job[j].failed

-----------------------------------------------------------------------------
(* The engine's own steps *)

Moved(j, x, bad) ==
  job' = [job EXCEPT ![j].left = @ \ {x}, ![j].failed = @ \/ bad]

WriteBlock(j, x) ==
  /\ job[j].stage = "running" /\ job[j].op = "store" /\ x \in job[j].left
  /\ Moved(j, x, FALSE)
  /\ disk' = [disk EXCEPT ![x[2]] = x[1]]
  /\ UNCHANGED <<records, misread>>

ReadBlock(j, x) ==
  /\ job[j].stage = "running" /\ job[j].op = "load" /\ x \in job[j].left
  /\ Moved(j, x, FALSE)
  /\ misread' = IF disk[x[2]] = x[1] THEN misread ELSE misread \cup {x[1]}
  /\ UNCHANGED <<records, disk>>

\* An errno or a short transfer.  A short write may leave the old content,
\* the whole block, or neither.
FailBlock(j, x) ==
  /\ job[j].stage = "running" /\ x \in job[j].left
  /\ Moved(j, x, TRUE)
  /\ \/ disk' = disk
     \/ /\ job[j].op = "store"
        /\ \E c \in {x[1], Blank} : disk' = [disk EXCEPT ![x[2]] = c]
  /\ UNCHANGED <<records, misread>>

\* The row goes into the ledger before the result goes out.
Log(j) ==
  /\ job[j].stage = "running" /\ job[j].left = {}
  /\ job' = [job EXCEPT ![j].stage = "logged"]
  /\ records' = records \cup {j}
  /\ UNCHANGED <<disk, misread>>

Publish(j) ==
  /\ job[j].stage = "logged"
  /\ Cardinality(Done) < ResultCap
  /\ job' = [job EXCEPT ![j].stage = "done"]
  /\ UNCHANGED <<records, disk, misread>>

EngineStep(j) ==
  \/ \E x \in job[j].left : WriteBlock(j, x) \/ ReadBlock(j, x) \/ FailBlock(j, x)
  \/ Log(j)
  \/ Publish(j)

\* An engine being destroyed reports a job it never started as failed.
GiveUp(j) ==
  /\ job[j].stage = "running"
  /\ job' = [job EXCEPT ![j].stage = "logged", ![j].left = {}, ![j].failed = TRUE]
  /\ records' = records \cup {j}
  /\ UNCHANGED <<disk, misread>>

\* drain_records swaps the ledger out.
TakeRecords == records' = {}

-----------------------------------------------------------------------------
(* The engine alone, its caller free to submit anything and to destroy it *)

\* Any direction and any transfers, named by what the step makes of the job.
AcceptAny(j) ==
  \E new \in {job'[j]} :
    /\ new.op \in Ops /\ new.left \in SUBSET Xfers
    /\ Accept(j, new.op, new.left)

EngineNext ==
  \E j \in JobIds :
    \/ AcceptAny(j)
    \/ EngineStep(j)
    \/ GiveUp(j)
    \/ \E B \in SUBSET JobIds : Poll(B) /\ UNCHANGED <<records, disk, misread>>
    \/ TakeRecords /\ UNCHANGED <<job, disk, misread>>

EngineSpec == EngineInit /\ [][EngineNext]_engineVars
=============================================================================
