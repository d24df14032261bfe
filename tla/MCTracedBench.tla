----------------------------- MODULE MCTracedBench -----------------------------
EXTENDS TracedBench

MCPhases == <<"prime", "mixed">>
MCFlows  == <<"churn">>
================================================================================
