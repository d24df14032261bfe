--------------------------- MODULE PairedCampaign ---------------------------
(***************************************************************************)
(* The paired A/A campaign of paired_fs_aa.py: windows of pairs, each pair *)
(* one dataset stored and then loaded through two arms, A and B, in orders *)
(* that are balanced in every window, and a verdict on the noise between   *)
(* the arms.  An arm is prepared (its dataset is stored through a tier of  *)
(* its own) and measured (looked up and loaded through another tier on the *)
(* same directory); what it leaves behind is its result file.              *)
(*                                                                         *)
(* The harness is one thread; the tiers' threads run beside it (JobWave).  *)
(* Directories other than the pair's, time, configuration fields that only *)
(* describe, and the texts of the files are left out.                      *)
(***************************************************************************)
EXTENDS Campaign, PairedStats

CONSTANTS
  PairsPerWindow,     \* pairing.pairs_per_window
  WarmupPasses,       \* workload.warmup_passes
  MeasurementPasses,  \* workload.measurement_passes
  Gate,               \* gate
  Effects             \* bound: effects a pair may measure

Arms == {"A", "B"}
NPairs == NWindows * PairsPerWindow

\* What _load_config accepts
Accepted ==
  /\ Arms \subseteq Dirs
  /\ PairsPerWindow \in Nat \ {0} /\ PairsPerWindow % 2 = 0
  /\ Gate.required = NPairs
  /\ MeasurementPasses \in Nat \ {0} /\ WarmupPasses \in Nat
  /\ Effects \subseteq Int
  /\ \A limit \in {Gate.bias, Gate.floor, Gate.window, Gate.position} :
       limit.max[1] <= limit.pass[1] /\ limit.pass[2] <= limit.max[2]

ASSUME ConfigAccepted == Accepted

VARIABLES
  schedule,  \* the pairs to run
  loop,      \* which loop over the arms it is in
  todo,      \* arms that loop has not come to
  pass,      \* waves of this stage begun
  preps,     \* preparations: the status of each prepared arm
  runs,      \* runs: the status of each measured arm
  failed,    \* failures is not empty
  effects    \* measured effect of each complete pair

armVars == <<pass, good>>
pairVars == <<at, loop, todo, preps, runs, failed, left, evidence>>
campaignVars == <<harness, schedule, results, done, kept, effects, verdict, exit>>
vars == <<waveVars, armVars, pairVars, campaignVars>>

Orders == {"AB", "BA"}
Evidence == Arms \X {"prepare", "load"} \X {"result", "failure"}
PairResult ==
  [window : 0..(NWindows - 1), load : Orders, status : Statuses,
   a : Statuses \cup {"MISSING"}, b : Statuses \cup {"MISSING"}]

ArmsOf(order) == IF order = "AB" THEN <<"A", "B">> ELSE <<"B", "A">>
Status(f, arm) == IF arm \in DOMAIN f THEN f[arm] ELSE "MISSING"
With(f, arm, s) == [a \in DOMAIN f \cup {arm} |-> IF a = arm THEN s ELSE f[a]]
BothPass(f) == \A arm \in Arms : Status(f, arm) = "PASS"
Item(k) == schedule[k]

\* _make_schedule: store and load orders are shuffled apart
Schedules ==
  {[k \in 1..NPairs |-> [window |-> WindowOf(k, PairsPerWindow), store |-> s[k], load |-> l[k]]] :
     s \in BalancedOrders(NWindows, PairsPerWindow), l \in BalancedOrders(NWindows, PairsPerWindow)}

\* This harness, not one of NoiseCampaign's
Paired == harness = "paired"

Init ==
  /\ Paired
  /\ tier = NoTier /\ pc = "start" /\ raised = FALSE /\ stage = "store" /\ first = 1
  /\ here = "A"
  /\ files = [d \in Dirs |-> [c \in Chunks |-> "absent"]]
  /\ memory = [c \in Chunks |-> "zero"]
  /\ faults = 0 /\ harm = {}
  /\ pass = 0 /\ good = TRUE
  /\ at = 0 /\ loop = "prepare" /\ todo = <<>>
  /\ preps = <<>> /\ runs = <<>> /\ failed = FALSE /\ left = {} /\ evidence = {}
  /\ schedule \in Schedules
  /\ results = <<>> /\ done = {} /\ kept = {}
  /\ effects = <<>> /\ verdict = "none" /\ exit = "none"

\* main up to its loop: the environment must match and the disk have room
Start ==
  /\ pc = "start"
  /\ \/ pc' = "pairs" /\ kept' = {0} /\ UNCHANGED <<faults, exit>>
     \/ \E code \in {"environment", "no space"} :
          Fault /\ pc' = "end" /\ exit' = code /\ UNCHANGED kept
  /\ UNCHANGED <<tier, raised, stage, first, here, files, memory, harm, armVars, pairVars,
                 harness, schedule, results, done, effects, verdict>>

\* _run_pair up to its loops
StartPair ==
  /\ pc = "pairs" /\ at < NPairs
  /\ pc' = "arms" /\ at' = at + 1
  /\ loop' = "prepare" /\ todo' = ArmsOf(Item(at + 1).store)
  /\ preps' = <<>> /\ runs' = <<>> /\ failed' = FALSE /\ left' = {} /\ evidence' = {}
  /\ files' = [d \in Dirs |-> [c \in Chunks |-> "absent"]]
  /\ harm' = {}
  /\ UNCHANGED <<tier, raised, stage, first, here, memory, faults, armVars, campaignVars>>

\* _prepare_arm up to its try block; a failure here leaves no file
PrepareArm ==
  /\ pc = "arms" /\ loop = "prepare" /\ todo # <<>>
  /\ todo' = Tail(todo)
  /\ \/ /\ tier' = NewTier /\ here' = Head(todo)
        /\ WaveFrom("store", 1)
        /\ memory' = [c \in Chunks |-> "right"]
        /\ pass' = 1 /\ good' = TRUE
        /\ UNCHANGED <<failed, faults>>
     \/ /\ Fault /\ failed' = TRUE
        /\ UNCHANGED <<tier, here, pc, stage, first, memory, armVars>>
  /\ UNCHANGED <<raised, files, harm, at, loop, preps, runs, left, evidence, campaignVars>>

LoadArms ==
  /\ pc = "arms" /\ loop = "prepare" /\ todo = <<>>
  /\ loop' = "load" /\ todo' = ArmsOf(Item(at).load)
  /\ UNCHANGED <<waveVars, armVars, at, preps, runs, failed, left, evidence, campaignVars>>

\* Mutation: any arm that has a preparation will do.
PreparedSomehow(arm) == arm \in DOMAIN preps

\* An arm that was not prepared, or not well, is not measured.
Prepared(arm) == Status(preps, arm) = "PASS"

SkipArm ==
  /\ pc = "arms" /\ loop = "load" /\ todo # <<>>
  /\ ~Prepared(Head(todo))
  /\ todo' = Tail(todo)
  /\ UNCHANGED <<waveVars, armVars, at, loop, preps, runs, failed, left, evidence, campaignVars>>

\* _lookup_all: every key is there, or not (the load goes on, and the check
\* fails after it).
LookupAll == good' \in BOOLEAN /\ FaultIf(~good')

\* _measure_arm up to its try block.  If its lookup raises there is no finally
\* block yet, and nobody shuts the tier down.
MeasureArm ==
  /\ pc = "arms" /\ loop = "load" /\ todo # <<>>
  /\ Prepared(Head(todo))
  /\ todo' = Tail(todo) /\ here' = Head(todo)
  /\ memory' = [c \in Chunks |-> "zero"]
  /\ \/ /\ tier' = NewTier
        /\ IF WarmupPasses = 0 THEN Raise /\ UNCHANGED <<stage, first>>
           ELSE WaveFrom("warmup", 1) /\ UNCHANGED raised
        /\ pass' = 1
        /\ LookupAll
        /\ UNCHANGED <<failed, left, harm>>
     \/ /\ Fault /\ failed' = TRUE
        /\ left' = left \cup {Head(todo)} /\ harm' = harm \cup {<<"tier", "left">>}
        /\ UNCHANGED <<tier, pc, raised, stage, first, armVars>>
  /\ UNCHANGED <<files, at, loop, preps, runs, evidence, campaignVars>>
-----------------------------------------------------------------------------
(* After a wave *)

\* _prepare_arm: its checks
CheckStore ==
  /\ pc = "waved" /\ stage = "store"
  /\ good' = (AllSuccess /\ Whole(here) /\ Accounted(tier))
  /\ pc' = "close"
  /\ UNCHANGED <<tier, raised, stage, first, here, files, memory, faults, harm, pass,
                 pairVars, campaignVars>>

NextWave(s) == WaveFrom(s, first + NChunks) /\ UNCHANGED raised

\* What a warmup wave returns is not looked at, only the bytes after the last.
CheckWarmup ==
  /\ pc = "waved" /\ stage = "warmup"
  /\ IF pass < WarmupPasses THEN NextWave("warmup") /\ pass' = pass + 1
     ELSE IF BytesRight THEN NextWave("load") /\ pass' = 1
     ELSE Raise /\ UNCHANGED <<stage, first, pass>>
  /\ UNCHANGED <<tier, here, files, memory, faults, harm, good, pairVars, campaignVars>>

\* The checks of the arm come after its last measured wave; one of them is
\* that the waves took long enough.
CheckLoad ==
  /\ pc = "waved" /\ stage = "load"
  /\ \/ /\ pass < MeasurementPasses
        /\ NextWave("load") /\ pass' = pass + 1
        /\ good' = (good /\ AllSuccess)
        /\ UNCHANGED <<faults, harm>>
     \/ /\ pass = MeasurementPasses
        /\ \E long \in BOOLEAN :
             /\ FaultIf(~long)
             /\ good' = (good /\ AllSuccess /\ long /\ BytesRight /\ Whole(here) /\ Accounted(tier))
        /\ harm' = harm \cup BytesHarm
        /\ pc' = "close" /\ UNCHANGED <<raised, stage, first, pass>>
  /\ UNCHANGED <<tier, here, files, memory, pairVars, campaignVars>>

\* Mutation: the status the checks gave it.
ArmStatusAsChecked(clean) == StatusIf(good)

\* A result is judged again by whether events were dropped and the tier shut
\* down.
ArmStatus(clean) == StatusIf(good /\ ~tier.dropped /\ clean)

\* The finally block; an exception leaves a failure file instead of a result.
CloseArm ==
  \E clean \in BOOLEAN :
    /\ CloseTier(clean)
    /\ IF raised
       THEN failed' = TRUE /\ UNCHANGED <<preps, runs>>
       ELSE /\ UNCHANGED failed
            /\ preps' = IF loop = "prepare" THEN With(preps, here, ArmStatus(clean)) ELSE preps
            /\ runs' = IF loop = "load" THEN With(runs, here, ArmStatus(clean)) ELSE runs
    /\ evidence' = evidence \cup {<<here, loop, IF raised THEN "failure" ELSE "result">>}
    /\ left' = IF clean THEN left ELSE left \cup {here}
    /\ harm' = IF clean THEN harm ELSE harm \cup {<<"tier", "left">>}
    /\ tier' = NoTier /\ pc' = "arms" /\ raised' = FALSE
    /\ UNCHANGED <<stage, first, here, files, memory, armVars, at, loop, todo, campaignVars>>
-----------------------------------------------------------------------------
(* After the arms *)

\* The rest of _run_pair: remove the data, judge the pair, write its files.
\* The gap between the arms is known when both were measured.
FinishPair ==
  /\ pc = "arms" /\ loop = "load" /\ todo = <<>>
  /\ \E removed \in BOOLEAN, near \in BOOLEAN :
       /\ Retain => removed
       /\ FaultIf(~removed \/ ~near)
       /\ LET ok == BothPass(preps) /\ BothPass(runs) /\ ~failed /\ near /\ removed IN
            /\ results' = Append(results,
                 [window |-> Item(at).window, load |-> Item(at).load,
                  status |-> StatusIf(ok),
                  a |-> Status(runs, "A"), b |-> Status(runs, "B")])
            /\ done' = IF ok THEN done \cup {at} ELSE done
       /\ kept' = IF Retain \/ ~removed THEN kept \cup {at} ELSE kept
  /\ pc' = "pairs"
  /\ UNCHANGED <<tier, raised, stage, first, here, files, memory, harm, armVars, pairVars,
                 harness, schedule, effects, verdict, exit>>

\* The end of main: the verdict, the campaign's DONE, and its data directory
\* if it is empty.
Judge ==
  /\ pc = "pairs" /\ at = NPairs
  /\ \E e \in IF NComplete(results) = Gate.required
              THEN [1..NPairs -> Effects] ELSE {<<>>} :
       effects' = e /\ verdict' \in AAVerdicts(results, e, Gate)
  /\ IF verdict' \in {"PASS", "CONDITIONAL"}
     THEN done' = done \cup {0} /\ exit' = "0"
     ELSE exit' = "1" /\ UNCHANGED done
  /\ kept' = IF kept = {0} THEN {} ELSE kept
  /\ pc' = "end"
  /\ UNCHANGED <<tier, raised, stage, first, here, files, memory, faults, harm, armVars,
                 pairVars, harness, schedule, results>>

Ended == pc = "end" /\ UNCHANGED vars

InWave == WaveStep /\ UNCHANGED <<armVars, pairVars, campaignVars>>

Working ==
  \/ InWave
  \/ Start \/ StartPair \/ PrepareArm \/ LoadArms \/ SkipArm \/ MeasureArm
  \/ CheckStore \/ CheckWarmup \/ CheckLoad \/ CloseArm \/ FinishPair

Next == Working \/ Judge \/ Ended

\* Up to its verdict, the campaign takes some step when it can: neither the
\* harness nor all of the tier's threads stop for good.  drain_jobs has no time
\* limit, so the threads are needed.
Fairness == WF_vars(Working)

Spec == Init /\ [][Next]_vars /\ Fairness
-----------------------------------------------------------------------------
TypeOK ==
  /\ Paired /\ WaveTypeOK /\ here \in Arms
  /\ pc \in {"start", "pairs", "arms", "submit", "poll", "drained", "waved", "close", "end"}
  /\ pass \in 0..(WarmupPasses + MeasurementPasses) /\ good \in BOOLEAN
  /\ at \in 0..NPairs /\ loop \in {"prepare", "load"} /\ todo \in Seq(Arms)
  /\ DOMAIN preps \subseteq Arms /\ DOMAIN runs \subseteq Arms
  /\ failed \in BOOLEAN /\ left \subseteq Arms /\ evidence \subseteq Evidence
  /\ schedule \in Schedules
  /\ results \in Seq(PairResult) /\ done \subseteq 0..NPairs /\ kept \subseteq 0..NPairs
  /\ effects \in Seq(Effects)
  /\ verdict \in {"none", "PASS", "CONDITIONAL", "FAIL"}
  /\ exit \in {"none", "0", "1", "environment", "no space"}

\* A pair has a DONE file only if nothing went wrong in it that its checks are
\* there for: every stored and every measured job succeeded, the bytes after
\* the last pass and the files are right, no event was
\* dropped, both tiers of both arms were shut down, each left its result and no
\* failure, and the data is gone.  What a warmup wave returns is not checked.
DonePairIsSound ==
  Paired /\ at \in done =>
    /\ harm \subseteq {<<"warmup", "failed">>}
    /\ left = {} /\ (Retain \/ at \notin kept)
    /\ evidence = Arms \X {"prepare", "load"} \X {"result"}

\* The observer's ledger agrees with the tier under it through every wave, and
\* an arm is never measured over a directory that its first tier, never shut
\* down, may still touch.
TiersAccountedFor ==
  Paired =>
    /\ TypeOK
    /\ LedgerAgrees(tier, raised)
    /\ tier.up /\ loop = "load" => here \notin left

\* A verdict that lets the machine be used rests on all pairs of the schedule,
\* each DONE, half of every window measured in either order, none twice, and
\* leaves no data behind; the exit code says the same.
VerdictRestsOnEvidence ==
  Paired =>
    /\ exit = "0" <=> verdict \in {"PASS", "CONDITIONAL"}
    /\ exit = "0" =>
         /\ done = 0..NPairs /\ Len(results) = NPairs
         /\ Retain \/ kept = {}
         /\ \A w \in 0..(NWindows - 1) :
              2 * Cardinality({k \in DOMAIN results : results[k].window = w /\ results[k].load = "AB"})
                = Cardinality({k \in DOMAIN results : results[k].window = w})

\* Whatever the resampling draws, an arm that is better in every pair, or one
\* position that is better by more than its limit in every pair, is refused.
BiasRefused ==
  Paired /\ exit = "0" =>
    /\ \E k \in DOMAIN effects : effects[k] <= 0
    /\ \E k \in DOMAIN effects : effects[k] >= 0
    /\ \E k \in DOMAIN effects :
         Within(2 * (IF schedule[k].load = "AB" THEN effects[k] ELSE -effects[k]), Gate.position.max)

\* The campaign comes to its verdict whatever jobs, tiers and timeouts do, an
\* interrupted arm included, as long as the tiers finish their jobs.
ReachesVerdict == Paired => <>(pc = "end" \/ (pc = "pairs" /\ at = NPairs))
=============================================================================
