----------------------------- MODULE MCCampaigns -----------------------------
(***************************************************************************)
(* The three harnesses of campaigns for TLC: a behaviour is a campaign of  *)
(* one of them, two windows of two pairs or runs, two jobs a wave, and one *)
(* fault in the paired campaign, two in the others.  Limits of the paired  *)
(* gate are intervals of doubled logs, those of the noise gate quotients.  *)
(***************************************************************************)
EXTENDS PairedCampaign, NoiseCampaign

CONSTANT PairedFaults  \* bound: MaxFaults in a paired campaign

ConstDirs == Arms
ConstEffects == {-2, 0, 1}
ConstValues == {4, 5, 10}

Around(p, m) == [pass |-> <<-p, p>>, max |-> <<-(m + 1), m>>]
ConstGate ==
  [required |-> NWindows * PairsPerWindow, samples |-> 16, target |-> 2,
   bias |-> Around(1, 2), floor |-> Around(3, 4), window |-> Around(1, 2), position |-> Around(1, 1)]

Percent(p, f) == [pass |-> <<p, 100>>, fail |-> <<f, 100>>]
ConstRunGate ==
  [minimumValid |-> NWindows * Repetitions,
   throughput |-> [cv |-> Percent(10, 30), ci |-> Percent(15, 60), ratio |-> Percent(110, 150)],
   sojourn_p95 |-> [cv |-> Percent(20, 50), ci |-> Percent(25, 80), ratio |-> Percent(120, 190)]]

\* What one harness has and the others do not
pairedOnly == <<pass, loop, todo, preps, runs, failed, schedule, effects>>
noiseOnly == <<failures, values>>
allVars == <<vars, noiseOnly>>

PairedAlone == failures = 0 /\ values = <<>>
NoiseAlone ==
  /\ here = "A"
  /\ pass = 0 /\ loop = "prepare" /\ todo = <<>> /\ preps = <<>> /\ runs = <<>>
  /\ failed = FALSE /\ schedule = <<>> /\ effects = <<>>

CampaignsInit == (Init /\ PairedAlone) \/ (NoiseInit /\ NoiseAlone)

CampaignsNext ==
  \/ Paired /\ Next /\ faults' <= PairedFaults /\ UNCHANGED noiseOnly
  \/ (Native \/ Fio) /\ UNCHANGED pairedOnly /\ NoiseNext

\* Fairness of the paired campaign's steps, as in its module
CampaignsSpec ==
  /\ CampaignsInit /\ [][CampaignsNext]_allVars
  /\ WF_allVars(Paired /\ Working /\ faults' <= PairedFaults /\ UNCHANGED noiseOnly)
=============================================================================
