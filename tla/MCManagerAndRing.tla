--------------------------- MODULE MCManagerAndRing ---------------------------
(***************************************************************************)
(* What the scheduler's thread runs and what it reaches the engine by, for *)
(* TLC: a behaviour is one of TierManager, with an engine as it promises   *)
(* to be, or one of the ring that carries jobs to it and results back.     *)
(***************************************************************************)
EXTENDS TierManager, SpscQueue

VARIABLE part  \* "manager" or "ring"

bothVars == <<vars, ringVars, part>>

BothInit == part \in {"manager", "ring"} /\ Init /\ RingInit

BothNext ==
  \/ part = "manager" /\ UNCHANGED <<ringVars, part>> /\ Next
  \/ part = "ring" /\ UNCHANGED <<vars, part>> /\ RingNext

OfManager(A) == part = "manager" /\ A
OfRing(A) == part = "ring" /\ A

\* Fairness and RingFairness, each where its part runs
BothSpec ==
  /\ BothInit /\ [][BothNext]_bothVars
  /\ SF_vars(OfManager(HasPendingWork /\ \E B \in SUBSET JobIds : BeginHarvest(B)))
  /\ WF_vars(OfManager(DrainReturn))
  /\ WF_vars(OfManager(closing /\ \E B \in SUBSET JobIds : BeginHarvest(B)))
  /\ WF_vars(OfManager(EndHarvest))
  /\ \A j \in JobIds : WF_vars(OfManager(HarvestOne(j))) /\ WF_vars(OfManager(EngineRuns(j)))
  /\ WF_ringVars(OfRing(Push))
  /\ WF_ringVars(OfRing(Pop))
  /\ SF_ringVars(OfRing(AcquireHead(Pushed)))
=============================================================================
