---------------------------- MODULE NoiseCampaign ----------------------------
(***************************************************************************)
(* The two campaigns that measure how noisy a machine is before anything   *)
(* is compared on it.  The native harness (native_fs_noise.py) stores,     *)
(* looks up and loads a dataset of its own through a tier in each run; the *)
(* fio harness (fio_device_noise.py) writes and reads one preallocated     *)
(* file with a fio process each.  A run returns a result or raises; main   *)
(* goes on either way, counts the raises, and judges the results.          *)
(***************************************************************************)
EXTENDS Campaign, NoiseGate

CONSTANTS
  Repetitions,  \* workload.repetitions_per_window
  RunGate,      \* gate
  Values        \* bound: what a metric may measure

NRuns == NWindows * Repetitions

ASSUME NoiseAssumption ==
  /\ Repetitions \in Nat \ {0}
  /\ RunGate.minimumValid = NRuns
  /\ Values \subseteq Nat \ {0}

VARIABLES
  failures,  \* runs that raised
  values     \* the metrics of the valid runs

runVars == <<at, good, left, evidence>>
runsVars == <<harness, results, failures, done, kept, values, verdict, exit>>
noiseVars == <<waveVars, runVars, runsVars>>

Native == harness = "native"
Fio == harness = "fio"
RunWindow(k) == (k - 1) \div Repetitions

NoiseInit ==
  /\ harness \in {"native", "fio"}
  /\ tier = NoTier /\ pc = "start" /\ raised = FALSE /\ stage = "store" /\ first = 1
  /\ here \in Dirs
  /\ files = [d \in Dirs |-> [c \in Chunks |-> "absent"]]
  /\ memory = [c \in Chunks |-> "right"]
  /\ faults = 0 /\ harm = {}
  /\ at = 0 /\ good = TRUE /\ left = {} /\ evidence = {}
  /\ results = <<>> /\ failures = 0 /\ done = {} /\ kept = {}
  /\ values = <<>> /\ verdict = "none" /\ exit = "none"

Tierless == UNCHANGED <<tier, raised, stage, first, here, files, memory>>
Outside == UNCHANGED <<harness, values, verdict, exit>>

\* _validate_environment, or the version of fio: main returns 2
WrongEnvironment == Fault /\ pc' = "end" /\ exit' = "environment" /\ UNCHANGED kept

\* main up to its loop
StartNative ==
  /\ Native /\ pc = "start"
  /\ \/ pc' = "runs" /\ UNCHANGED <<faults, kept, exit>>
     \/ WrongEnvironment
  /\ Tierless
  /\ UNCHANGED <<harm, runVars, harness, results, failures, done, values, verdict>>

\* _run_fio and _direction_metrics: fio exits with an error or what it says
\* makes no sense; or its error and byte counts are right, or wrong.
FioOutcomes == {"right", "wrong", "raises"}

\* fio's main also lays its file out and writes it once; if that does not go
\* right the file is removed and main raises.
PrepareFile ==
  /\ Fio /\ pc = "start"
  /\ \/ WrongEnvironment
     \/ \E outcome \in FioOutcomes :
          /\ FaultIf(outcome # "right")
          /\ IF outcome = "right" THEN pc' = "runs" /\ kept' = {0} /\ UNCHANGED exit
             ELSE pc' = "end" /\ exit' = "raised" /\ kept' = IF Retain THEN {0} ELSE {}
  /\ Tierless
  /\ UNCHANGED <<harm, runVars, harness, results, failures, done, values, verdict>>

\* What main does with a run: keep its result, or count that it raised
Returned(status) ==
  /\ results' = Append(results, [window |-> RunWindow(at), status |-> status])
  /\ UNCHANGED failures
RunRaised == failures' = failures + 1 /\ UNCHANGED results
-----------------------------------------------------------------------------
(* native_fs_noise.py: _run_one *)

\* Up to its try block; a failure there leaves no result file, but perhaps the
\* data directory.
StartRun ==
  /\ Native /\ pc = "runs" /\ at < NRuns
  /\ at' = at + 1 /\ evidence' = {} /\ harm' = {} /\ left' = {} /\ good' = TRUE
  /\ \/ /\ tier' = NewTier
        /\ WaveFrom("store", 1)
        /\ files' = [d \in Dirs |-> [c \in Chunks |-> "absent"]]
        /\ memory' = [c \in Chunks |-> "right"]
        /\ kept' = kept \cup {at'}
        /\ UNCHANGED <<faults, failures>>
     \/ /\ Fault /\ failures' = failures + 1
        /\ kept' \in {kept, kept \cup {at'}}
        /\ UNCHANGED <<tier, pc, stage, first, files, memory>>
  /\ Outside
  /\ UNCHANGED <<raised, here, results, done>>

\* The lookup inside the try block, the file summary, and a clean buffer; the
\* loads have job ids of their own (from 1_000_001 there).
LookupAndClear ==
  /\ Native /\ pc = "waved" /\ stage = "store"
  /\ \/ \E present \in BOOLEAN :
          /\ FaultIf(~present /\ Whole(here))
          /\ good' = (AllSuccess /\ present /\ Whole(here))
          /\ memory' = [c \in Chunks |-> "zero"]
          /\ WaveFrom("load", first + NChunks)
          /\ UNCHANGED raised
     \/ Fault /\ Raise /\ UNCHANGED <<good, memory, stage, first>>
  /\ Outside
  /\ UNCHANGED <<tier, here, files, harm, at, left, evidence, results, failures, done, kept>>

\* assert_job_accounting raises, the other checks are put into the result.
CheckRun ==
  /\ Native /\ pc = "waved" /\ stage = "load"
  /\ good' = (good /\ AllSuccess /\ BytesRight
                /\ Cardinality(tier.completed) = 2 * NChunks)
  /\ harm' = harm \cup BytesHarm
  /\ IF Accounted(tier) THEN pc' = "close" /\ UNCHANGED raised ELSE Raise
  /\ Outside
  /\ UNCHANGED <<tier, stage, first, here, files, memory, faults, at, left, evidence,
                 results, failures, done, kept>>

\* Mutation: the status the checks gave it.
RunStatusAsChecked(clean) == StatusIf(good)

RunStatus(clean) == StatusIf(good /\ ~tier.dropped /\ clean)

\* The finally block: shut down, judge again and write the result or failure
CloseRun ==
  /\ Native
  /\ \E clean \in BOOLEAN :
       /\ CloseTier(clean)
       /\ left' = IF clean THEN {} ELSE {here}
       /\ evidence' = {IF raised THEN "failure" ELSE RunStatus(clean)}
                        \cup (IF clean THEN {} ELSE {"shutdown_failure"})
       /\ harm' = IF clean THEN harm ELSE harm \cup {<<"tier", "left">>}
  /\ tier' = NoTier /\ pc' = "remove"
  /\ Outside
  /\ UNCHANGED <<raised, stage, first, here, files, memory, at, good,
                 results, failures, done, kept>>

\* and last the data, and DONE.  If the removal raises so does the run: its
\* result file stays, but there is no DONE and no result for main.
RemoveData ==
  /\ Native /\ pc = "remove"
  /\ \E removed \in BOOLEAN :
       /\ Retain => removed
       /\ FaultIf(~removed)
       /\ kept' = IF removed /\ ~Retain THEN kept \ {at} ELSE kept
       /\ IF raised \/ ~removed THEN RunRaised /\ UNCHANGED done
          ELSE \E status \in Statuses \cap evidence :
                 /\ Returned(status)
                 /\ done' = IF status = "PASS" THEN done \cup {at} ELSE done
  /\ pc' = "runs" /\ raised' = FALSE
  /\ Outside
  /\ UNCHANGED <<tier, stage, first, here, files, memory, harm, at, good, left, evidence>>
-----------------------------------------------------------------------------
(* fio_device_noise.py: _run_one *)

\* A write and a read by fio.  A run that raises, also over a file it cannot
\* write, leaves a failure file, perhaps beside a passing result, or nothing.
FioRun ==
  /\ Fio /\ pc = "runs" /\ at < NRuns
  /\ at' = at + 1 /\ harm' = {} /\ good' = TRUE
  /\ \E write, read \in FioOutcomes, unwritten \in BOOLEAN :
       LET right == write = "right" /\ read = "right"
           status == StatusIf(right)
       IN
       /\ FaultIf(~right \/ unwritten)
       /\ IF "raises" \in {write, read} \/ unwritten
          THEN /\ evidence' \in {{}, {"failure"}} \cup (IF right THEN {{"PASS", "failure"}} ELSE {})
               /\ failures' = failures + 1
               /\ UNCHANGED <<results, done>>
          ELSE /\ evidence' = {status}
               /\ results' = Append(results, [window |-> RunWindow(at'), status |-> status])
               /\ done' = IF right THEN done \cup {at'} ELSE done
               /\ UNCHANGED failures
  /\ Tierless /\ Outside
  /\ UNCHANGED <<pc, left, kept>>
-----------------------------------------------------------------------------
\* The end of main.  WARN leaves a DONE and still exits 1.  Metrics of a kind
\* are measured alike here, which keeps their number down.
Measured(valid) ==
  {[m \in MetricNames |-> [k \in DOMAIN valid |-> f[Kind(m)][k]]] :
     f \in [{"throughput", "sojourn_p95"} -> [DOMAIN valid -> Values]]}

JudgeRuns ==
  /\ pc = "runs" /\ at = NRuns
  /\ \E v \in IF Enough(results, RunGate) THEN Measured(ValidRuns(results)) ELSE {<<>>} :
       values' = v /\ verdict' \in CampaignVerdicts(results, v, RunGate)
  /\ done' = IF verdict' \in {"PASS", "WARN"} THEN done \cup {0} ELSE done
  /\ exit' = IF verdict' = "PASS" THEN "0" ELSE "1"
  /\ kept' = IF Retain THEN kept ELSE kept \ {0}
  /\ pc' = "end"
  /\ Tierless
  /\ UNCHANGED <<faults, harm, runVars, harness, results, failures>>

RunsEnded == pc = "end" /\ UNCHANGED noiseVars

RunInWave == Native /\ WaveStep /\ UNCHANGED <<runVars, runsVars>>

NoiseNext ==
  \/ RunInWave
  \/ StartNative \/ StartRun \/ LookupAndClear \/ CheckRun \/ CloseRun \/ RemoveData
  \/ PrepareFile \/ FioRun
  \/ JudgeRuns \/ RunsEnded

NoiseSpec == NoiseInit /\ [][NoiseNext]_noiseVars
-----------------------------------------------------------------------------
NoiseTypeOK ==
  /\ WaveTypeOK
  /\ pc \in {"start", "runs", "submit", "poll", "drained", "waved", "close", "remove", "end"}
  /\ harness \in {"native", "fio"}
  /\ at \in 0..NRuns /\ good \in BOOLEAN /\ left \subseteq Dirs
  /\ evidence \subseteq Statuses \cup {"failure", "shutdown_failure"}
  /\ results \in Seq([window : 0..(NWindows - 1), status : Statuses])
  /\ failures \in 0..NRuns /\ done \subseteq 0..NRuns /\ kept \subseteq 0..NRuns
  /\ verdict \in {"none", "PASS", "WARN", "FAIL"}
  /\ exit \in {"none", "0", "1", "environment", "raised"}

\* A native run has a DONE file only if every job of both waves succeeded, its
\* bytes and files are right, no event was dropped, its tier was shut down, its
\* data removed, and its only evidence is a passing result.
DoneRunIsSound ==
  Native /\ at # 0 /\ at \in done =>
    harm = {} /\ left = {} /\ evidence = {"PASS"} /\ (Retain \/ at \notin kept)

\* The observer's ledger agrees with the tier through both waves.  Runs that
\* raised are in no result the gate reads; a verdict that is not FAIL still
\* means that none raised: all runs are DONE, in every window as many as the
\* configuration says.
RunsAccountedFor ==
  Native \/ Fio =>
    /\ NoiseTypeOK
    /\ LedgerAgrees(tier, raised)
    /\ 0 \in done =>
         /\ failures = 0 /\ done = 0..NRuns
         /\ \A w \in 0..(NWindows - 1) :
              Cardinality({k \in DOMAIN results : results[k].window = w}) = Repetitions

\* Runs that all measure alike are never called noisy, whatever the bootstrap
\* draws; a metric twice as high in all runs of one window as in all runs of
\* another is never let through.
GateTellsNoise ==
  (Native \/ Fio) /\ verdict # "none" /\ failures = 0 /\ NValid(results) = NRuns =>
    /\ (\A m \in MetricNames : Cardinality(ToSet(values[m])) = 1) => verdict = "PASS"
    /\ (\E m \in MetricNames, v, w \in 0..(NWindows - 1) :
          \A j, k \in 1..NRuns : RunWindow(j) = v /\ RunWindow(k) = w =>
             values[m][j] >= 2 * values[m][k]) => verdict = "FAIL"
=============================================================================
