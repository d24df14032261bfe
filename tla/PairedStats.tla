----------------------------- MODULE PairedStats -----------------------------
(***************************************************************************)
(* The statistics of paired_stats.py: balanced pair orders and the verdict *)
(* on a paired A/A campaign.  The effect of a pair is an integer, the log  *)
(* of B's throughput over A's; medians are doubled, so a limit on them is  *)
(* in halves of that unit.  A limit L on |expm1(x)| is an interval of x    *)
(* that is not symmetric: log(1 - L) below and log(1 + L) above.           *)
(*                                                                         *)
(* Resampling draws at random: a criterion that depends on the draw has a  *)
(* set of possible outcomes, those of the draws that may come up.          *)
(***************************************************************************)
EXTENDS NoiseGate

\* balanced_pair_orders: a shuffle of as many AB as BA in each window.  The
\* k-th pair of the sequence is in window WindowOf(k, perWindow).
WindowOf(k, perWindow) == (k - 1) \div perWindow
BalancedOrders(windows, perWindow) ==
  {s \in [1..(windows * perWindow) -> {"AB", "BA"}] :
     \A w \in 0..(windows - 1) :
       2 * Cardinality({k \in DOMAIN s : WindowOf(k, perWindow) = w /\ s[k] = "AB"}) = perWindow}

\* _bounded_status of abs(expm1(x)); a limit is [pass |-> interval, max |-> interval]
Within(x, interval) == interval[1] <= x /\ x <= interval[2]
BoundedStatus(x, limit) ==
  IF Within(x, limit.pass) THEN "PASS"
  ELSE IF Within(x, limit.max) THEN "CONDITIONAL" ELSE "FAIL"

\* The sequences that take their k-th member from choices[k]
Draws(choices) ==
  FoldLeft(LAMBDA drawn, S : {Append(s, x) : s \in drawn, x \in S}, {<<>>}, choices)

\* What rng.choice may draw for a pair: an effect of its own window
Group(effects, windows, k) == ToSet(InWindow(effects, windows, windows[k]))

\* _stratified_bootstrap_median_ci: the medians that resamples may have
BootstrapMedians(effects, windows) ==
  {Median2(s) : s \in Draws([k \in DOMAIN effects |-> Group(effects, windows, k)])}

\* Mutation: only the upper end is compared with zero.
ZeroOutcomesOneSided(effects, windows) ==
  {IF 0 <= m THEN "PASS" ELSE "FAIL" : m \in BootstrapMedians(effects, windows)}

\* aa_ci_contains_zero, for an interval between two of these medians
ZeroOutcomes(effects, windows) ==
  LET ms == BootstrapMedians(effects, windows) IN
    {IF ci[1] <= 0 /\ 0 <= ci[2] THEN "PASS" ELSE "FAIL" :
       ci \in {p \in ms \X ms : p[1] <= p[2]}}

\* _sign_flip_medians: every assignment of signs to the effects, and the median
\* under each
SignFlips(effects) ==
  FoldLeft(LAMBDA rows, e : [n \in 1..(2 * Len(rows)) |->
                               Append(rows[(n + 1) \div 2], IF n % 2 = 0 THEN e ELSE -e)],
           << <<>> >>, effects)
SignFlipMedians(effects) ==
  LET rows == SignFlips(effects) IN [n \in DOMAIN rows |-> Median2(rows[n])]

\* The noise floor, the 95% point of their magnitudes, times 20.  With more
\* assignments than samples it is that of a random choice of them.
NoiseFloors(effects, samples) ==
  LET medians == SignFlipMedians(effects)
      sizes == [n \in DOMAIN medians |-> Magnitude(medians[n])]
  IN IF 2 ^ Len(effects) <= samples THEN {Percentile(sizes, 19, 20)}
     ELSE {20 * x : x \in ToSet(sizes)}

FloorStatus(floor, limit) ==
  IF floor <= 20 * limit.pass[2] THEN "PASS"
  ELSE IF floor <= 20 * limit.max[2] THEN "CONDITIONAL" ELSE "FAIL"

\* _detection_power against minimum_power: the target effect on top of noise
\* of the measured sizes is found in all, in none or in some of the simulations
SimulatedMedians(effects, windows, target) ==
  {Median2(s) :
     s \in Draws([k \in DOMAIN effects |->
                    {target + g * e : g \in {-1, 1}, e \in Group(effects, windows, k)}])}
PowerOutcomes(effects, windows, target, floor) ==
  {IF 20 * x > floor THEN "PASS" ELSE "FAIL" : x \in SimulatedMedians(effects, windows, target)}

\* position_effects: the arm that ran second over the one that ran first
PositionEffect(effects, orders) ==
  Median2([k \in DOMAIN effects |-> IF orders[k] = "AB" THEN effects[k] ELSE -effects[k]])

\* maximum_absolute_window_effect, of the doubled window medians
WindowStatuses(effects, windows, limit) ==
  {BoundedStatus(Median2(InWindow(effects, windows, w)), limit) : w \in ToSet(windows)}

Overall(statuses) ==
  IF "FAIL" \in statuses THEN "FAIL"
  ELSE IF "CONDITIONAL" \in statuses THEN "CONDITIONAL" ELSE "PASS"

\* The criteria that do not depend on a draw
FixedStatuses(effects, windows, orders, gate) ==
  {BoundedStatus(Median2(effects), gate.bias),
   BoundedStatus(PositionEffect(effects, orders), gate.position)}
    \cup WindowStatuses(effects, windows, gate.window)

\* paired_median_noise_floor and minimum_effect_detection_power
NoiseStatuses(effects, windows, gate) ==
  UNION {{{FloorStatus(floor, gate.floor), power} :
            power \in PowerOutcomes(effects, windows, gate.target, floor)} :
           floor \in NoiseFloors(effects, gate.samples)}

\* Mutation: a pair is complete when both its arms are.
CompleteByArms(p) == p.a = "PASS" /\ p.b = "PASS"

\* A complete pair: it passed, and so did both its arms.
Complete(p) == p.status = "PASS" /\ p.a = "PASS" /\ p.b = "PASS"
CompletePairs(results) == SelectSeq(results, Complete)
NComplete(results) == Cardinality({k \in DOMAIN results : Complete(results[k])})

\* evaluate_aa_campaign: the verdicts it may reach on the pair results, each
\* [window, load, status, a, b]; effects[k] is that of the k-th complete pair
AAVerdicts(results, effects, gate) ==
  LET complete == CompletePairs(results)
      windows == [k \in DOMAIN complete |-> complete[k].window]
      orders == [k \in DOMAIN complete |-> complete[k].load]
  IN IF NComplete(results) # gate.required THEN {"FAIL"}
     ELSE {Overall(FixedStatuses(effects, windows, orders, gate) \cup {zero} \cup noise) :
             zero \in ZeroOutcomes(effects, windows),
             noise \in NoiseStatuses(effects, windows, gate)}
=============================================================================
