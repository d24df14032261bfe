------------------------------ MODULE NoiseGate ------------------------------
(***************************************************************************)
(* The statistics of noise_gate.py: percentile, the description of one     *)
(* metric over the valid runs, and the verdict on a noise campaign.        *)
(*                                                                         *)
(* Measured values are positive integers, a quotient is a pair             *)
(* <<numerator, denominator>>, medians are kept doubled.  The bootstrap    *)
(* draws at random: its interval may be any whose ends are medians of      *)
(* resamples, so a criterion on it has a set of possible outcomes.         *)
(***************************************************************************)
EXTENDS Integers, FiniteSets, SequencesExt

Ordered(values) == SortSeq(values, <)

\* percentile(values, num / den), times den
Percentile(values, num, den) ==
  LET s == Ordered(values)
      position == (Len(s) - 1) * num
      low == position \div den
      rest == position % den
  IN IF rest = 0 THEN den * s[low + 1]
     ELSE (den - rest) * s[low + 1] + rest * s[low + 2]

\* statistics.median, doubled
Median2(values) ==
  LET s == Ordered(values)
      n == Len(s)
  IN s[(n + 1) \div 2] + s[n \div 2 + 1]

Magnitude(x) == IF x < 0 THEN -x ELSE x

AtMost(q, limit) == q[1] * limit[2] <= limit[1] * q[2]

\* _criterion; a limit is [pass |-> quotient, fail |-> quotient]
Criterion(q, limit) ==
  IF AtMost(q, limit.pass) THEN "PASS"
  ELSE IF AtMost(q, limit.fail) THEN "WARN" ELSE "FAIL"

\* 1.4826 * mad / abs(median)
RobustCv(values) ==
  LET m == Median2(values)
      mad4 == Median2([k \in DOMAIN values |-> Magnitude(2 * values[k] - m)])
  IN <<14826 * mad4, 20000 * Magnitude(m)>>

ResampleMedians(values) ==
  {Median2(s) : s \in [DOMAIN values -> ToSet(values)]}

\* relative_ci_halfwidth for every interval the bootstrap may give
CiHalfwidths(values) ==
  {<<ci[2] - ci[1], 2 * Magnitude(Median2(values))>> :
     ci \in {p \in ResampleMedians(values) \X ResampleMedians(values) : p[1] <= p[2]}}

InWindow(values, windows, w) ==
  LET ks == SelectSeq([k \in DOMAIN values |-> k], LAMBDA k : windows[k] = w)
  IN [n \in DOMAIN ks |-> values[ks[n]]]

\* Mutation: the ratio upside down.
WindowRatioInverted(values, windows) ==
  LET ms == {Median2(InWindow(values, windows, w)) : w \in ToSet(windows)}
  IN <<CHOOSE x \in ms : \A y \in ms : x <= y, CHOOSE x \in ms : \A y \in ms : y <= x>>

\* window_max_min_ratio
WindowRatio(values, windows) ==
  LET ms == {Median2(InWindow(values, windows, w)) : w \in ToSet(windows)}
  IN <<CHOOSE x \in ms : \A y \in ms : y <= x, CHOOSE x \in ms : \A y \in ms : x <= y>>

\* metric_specs: each metric and the limits it is held to
Kind(metric) ==
  IF metric \in {"store_throughput", "load_throughput"} THEN "throughput" ELSE "sojourn_p95"
MetricNames == {"store_throughput", "load_throughput", "store_p95", "load_p95"}

\* The outcomes a metric may have on the three criteria
MetricOutcomes(values, windows, limits) ==
  {{Criterion(RobustCv(values), limits.cv), Criterion(ci, limits.ci),
    Criterion(WindowRatio(values, windows), limits.ratio)} : ci \in CiHalfwidths(values)}

Worst(statuses) ==
  IF "FAIL" \in statuses THEN "FAIL"
  ELSE IF "WARN" \in statuses THEN "WARN" ELSE "PASS"

\* evaluate_campaign: the verdicts it may reach on the results of the runs
\* that returned one, each [window, status], with values[metric][k] measured
\* in the k-th valid run
ValidRuns(results) == SelectSeq(results, LAMBDA r : r.status = "PASS")

NValid(results) == Cardinality({k \in DOMAIN results : results[k].status = "PASS"})

\* Mutation: as many valid runs as there are results.
EnoughOfResults(results, gate) == NValid(results) = Len(results)

Enough(results, gate) ==
  NValid(results) >= gate.minimumValid /\ NValid(results) = Len(results)

CampaignVerdicts(results, values, gate) ==
  LET valid == ValidRuns(results)
      windows == [k \in DOMAIN valid |-> valid[k].window]
      Outcomes(metric) == MetricOutcomes(values[metric], windows, gate[Kind(metric)])
  IN IF ~Enough(results, gate) THEN {"FAIL"}
     ELSE {Worst(a \cup b \cup c \cup d) :
             a \in Outcomes("store_throughput"), b \in Outcomes("load_throughput"),
             c \in Outcomes("store_p95"), d \in Outcomes("load_p95")}
=============================================================================
