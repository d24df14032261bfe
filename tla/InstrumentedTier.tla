-------------------------- MODULE InstrumentedTier --------------------------
(***************************************************************************)
(* InstrumentedTier (instrumentation.py): the observer the experiments put *)
(* around a secondary tier.  It passes every call on and keeps its own     *)
(* ledger: which jobs were accepted and not completed, which completed and *)
(* how.  It raises when the tier answers a job twice or a job it never     *)
(* got, and refuses to shut down over pending jobs.                        *)
(*                                                                         *)
(* A tier is a value: what the inner tier holds (up, working, finished)    *)
(* and the ledger (pending, completed, dropped).  JobWave and the          *)
(* harnesses make steps of these operators.  Time stamps, event texts and  *)
(* lookup bookkeeping are left out; dropped stands for _dropped_events > 0.*)
(***************************************************************************)
EXTENDS Integers, FiniteSets, SequencesExt

Result == [id : Nat, ok : BOOLEAN]

Tier ==
  [up : BOOLEAN,             \* the inner tier runs: it was not shut down
   working : SUBSET Nat,     \* jobs its threads have not finished
   finished : Seq(Result),   \* results it has not handed out
   pending : SUBSET Nat,     \* _pending
   completed : SUBSET Result,\* _completed
   dropped : BOOLEAN]        \* _dropped_events > 0

NewTier ==
  [up |-> TRUE, working |-> {}, finished |-> <<>>,
   pending |-> {}, completed |-> {}, dropped |-> FALSE]

NoTier == [NewTier EXCEPT !.up = FALSE]

\* _submit refuses a job id it has seen
Known(t, j) == j \in t.pending \/ \E r \in t.completed : r.id = j

\* _submit when the inner tier takes the job; when it raises the entry is
\* deleted again and the tier is as before
Submit(t, j) ==
  [t EXCEPT !.pending = @ \cup {j}, !.working = @ \cup {j}]

\* One round of the loop in get_finished_jobs: poll is the ledger so far, and
\* whether an earlier result of the batch raised, which ends the loop.
Observe(poll, r) ==
  IF poll.raised THEN poll
  ELSE IF r.id \notin poll.tier.pending THEN [poll EXCEPT !.raised = TRUE]
  ELSE [poll EXCEPT !.tier.pending = @ \ {r.id},
                    !.tier.completed = @ \cup {r}]

\* get_finished_jobs: the inner tier hands out its results first, so what
\* follows a bad one is lost
GetFinishedJobs(t) ==
  FoldLeft(Observe, [tier |-> [t EXCEPT !.finished = <<>>], raised |-> FALSE],
           t.finished)

\* drain_jobs returns when the inner tier's threads hold nothing
Drained(t) == t.working = {}

\* shutdown raises over pending jobs, and then leaves the inner tier running
MayShutDown(t) == t.pending = {}

\* assert_job_accounting
Accounted(t) == t.pending = {}

Outcome(t, j) == \E r \in t.completed : r.id = j /\ r.ok

\* The ledger agrees with the inner tier: a job is pending or has one outcome,
\* and a pending job is still inside, unless a bad batch was lost.
LedgerAgrees(t, lost) ==
  /\ t.working \subseteq t.pending
  /\ lost \/ t.pending \subseteq t.working \cup {r.id : r \in ToSet(t.finished)}
  /\ \A r, s \in t.completed : r.id = s.id => r = s
  /\ \A r \in t.completed : r.id \notin t.pending
=============================================================================
