------------------------------ MODULE TracedBench ------------------------------
(* One group of the end-to-end benchmark of projects/project5_vllm_disk_tier:  *)
(* the client that sends the load (bench/long_context_ttft.py), the probes in  *)
(* the server that write the request map and the tier-job ledger               *)
(* (request_trace.py, sched_ledger.py), the stop of the server and the audit   *)
(* that joins the files (bench/trace_join_audit.py), in the order of           *)
(* run_e2e_overnight.sh.  vLLM and the OpenAI client are external.             *)
EXTENDS Integers, Sequences, FiniteSets, Functions

CONSTANTS
  Phases,        \* the --phases sequence: "prime", "churn", "revisit", "mixed"
  Sessions,      \* --sessions
  Churn,         \* --churn
  Waves,         \* --mixed-waves
  Concurrency,   \* the @N of revisit and mixed
  FlowNames,     \* the background flows of a mixed phase, in tagging order
  MaxFlow,       \* bound: requests of one flow
  MaxJobs,       \* bound: tier jobs
  MaxFaults      \* bound: faults

ASSUME BenchAssumption ==
  /\ Phases \in Seq({"prime", "churn", "revisit", "mixed"}) \ {<<>>}
  /\ FlowNames \in {<<"churn">>, <<"churn", "probe">>}
  /\ {Sessions, Churn, Waves, Concurrency, MaxFlow} \subseteq Nat \ {0}
  /\ {MaxJobs, MaxFaults} \subseteq Nat

VARIABLES
  main,      \* the client's main thread: [pc, step, wave]; for "tag" and "extend", wave counts flows
  flow,      \* thread of a flow -> "off", "check", "sent", "dead", "done"
  kept,      \* thread of a flow -> its samples
  tagged,    \* how many of them carry phase, round and run
  out,       \* the samples to be written: [req, tagged]
  status,    \* request -> "unsent", "sent", "running", "text", "blank", "failed"
  maps,      \* request -> its rows in the request map
  foreign,   \* requests that reached the server without their ID
  server,    \* "up", "stopping", "stopped", "killed"
  jobs,      \* the tier jobs submitted: [req, local, done]
  pending,   \* jobs stashed by the ledger, not recorded yet
  returned,  \* jobs whose results the tier handed back, not recorded yet
  engineRows, ledger,   \* job -> its rows in the tier's records, in the ledger
  audit,     \* "none", "PASS", "FAIL"
  faults

clientVars == <<main, flow, kept, tagged, out>>
jobVars    == <<jobs, pending, returned, engineRows, ledger>>
vars == <<clientVars, status, maps, foreign, server, jobVars, audit, faults>>

Steps    == DOMAIN Phases
Mixed    == {s \in Steps : Phases[s] = "mixed"}
Threads  == Mixed \X DOMAIN FlowNames
\* The requests of one phase, numbered within the main thread (flow 0) or a flow.
MainSize(s) == CASE Phases[s] = "churn" -> Churn
                 [] Phases[s] = "mixed" -> Waves * Sessions
                 [] OTHER -> Sessions
Requests == (UNION {{<<s, 0, n>> : n \in 1..MainSize(s)} : s \in Steps})
              \cup {<<t[1], t[2], n>> : t \in Threads, n \in 1..MaxFlow}

Fault == faults < MaxFaults /\ faults' = faults + 1

Init ==
  /\ main = [pc |-> "send", step |-> 1, wave |-> 1]
  /\ flow = [t \in Threads |-> IF t[1] = 1 THEN "check" ELSE "off"]
  /\ kept = [t \in Threads |-> <<>>]
  /\ tagged = [t \in Threads |-> 0]
  /\ out = <<>>
  /\ status = [r \in Requests |-> "unsent"]
  /\ maps = [r \in Requests |-> 0]
  /\ foreign = {}
  /\ server = "up"
  /\ jobs = <<>> /\ pending = {} /\ returned = {}
  /\ engineRows = [j \in 1..MaxJobs |-> 0]
  /\ ledger = [j \in 1..MaxJobs |-> 0]
  /\ audit = "none"
  /\ faults = 0

--------------------------------------------------------------------------------
(* The client's main thread.                                                   *)

Alive == main.pc \notin {"written", "raised"}

\* The batch in hand: a phase, or one wave of a mixed phase.
BatchSize == IF main.step \in Mixed THEN Sessions ELSE MainSize(main.step)
Member(i) == <<main.step, 0, IF main.step \in Mixed THEN (main.wave - 1) * Sessions + i ELSE i>>
Batch == {Member(i) : i \in 1..BatchSize}
In(R, states) == {r \in R : status[r] \in states}
InFlight(R)   == In(R, {"sent", "running"})

\* prime and churn send one request after another, as does revisit at
\* concurrency 1; revisit above it and the waves go through a thread pool.
Pooled == Phases[main.step] = "mixed"
            \/ (Phases[main.step] = "revisit" /\ Concurrency > 1)

MainSend ==
  /\ main.pc = "send"
  /\ Cardinality(InFlight(Batch)) < IF Pooled THEN Concurrency ELSE 1
  /\ Pooled \/ In(Batch, {"failed"}) = {}
  /\ \E r \in In(Batch, {"unsent"}) :
       /\ \A q \in In(Batch, {"unsent"}) : r[3] <= q[3]
       /\ status' = [status EXCEPT ![r] = "sent"]
  /\ UNCHANGED <<clientVars, maps, foreign, server, jobVars, audit, faults>>

\* The next phase; a mixed one starts its flows.
Enter(s) ==
  /\ main' = [pc |-> IF s \in Steps THEN "send" ELSE "report", step |-> s, wave |-> 1]
  /\ flow' = [t \in Threads |-> IF t[1] = s THEN "check" ELSE flow[t]]

\* run_and_report of a phase whose requests all came back; the samples of a
\* wave, tagged at once, join the others when the phase ends.
Collect ==
  /\ main.pc = "send"
  /\ In(Batch, {"text", "blank"}) = Batch
  /\ out' = out \o [i \in 1..BatchSize |-> [req |-> Member(i), tagged |-> TRUE]]
  /\ IF main.step \notin Mixed THEN Enter(main.step + 1)
     ELSE /\ main' = IF main.wave < Waves THEN [main EXCEPT !.wave = @ + 1]
                     ELSE [main EXCEPT !.pc = "join"]
          /\ flow' = flow
  /\ UNCHANGED <<kept, tagged, status, maps, foreign, server, jobVars, audit, faults>>

\* A request that raised ends the client, once the pool's others are back.
MainRaises ==
  /\ main.pc = "send"
  /\ In(Batch, {"failed"}) # {} /\ InFlight(Batch) = {}
  /\ main' = [main EXCEPT !.pc = "raised"]
  /\ UNCHANGED <<flow, kept, tagged, out, status, maps, foreign, server, jobVars, audit, faults>>

FlowsEnded == \A t \in Threads : t[1] = main.step => flow[t] \in {"dead", "done"}

\* th.join(timeout=60) of every flow; causes of death are printed, no more.
LeaveJoin ==
  /\ main.pc = "join"
  /\ main' = [main EXCEPT !.pc = "tag", !.wave = 1]
  /\ UNCHANGED <<flow, kept, tagged, out, status, maps, foreign, server, jobVars, audit, faults>>
\* Mutation: th.join() without a timeout.
JoinWithoutTimeout == FALSE /\ LeaveJoin

JoinFlows    == FlowsEnded /\ LeaveJoin
JoinTimesOut == ~FlowsEnded /\ LeaveJoin

NextFlow ==
  IF main.wave = Len(FlowNames) THEN Enter(main.step + 1)
  ELSE main' = [main EXCEPT !.pc = "tag", !.wave = @ + 1] /\ flow' = flow

\* The samples of one flow are tagged, then copied: two loops over a list the
\* flow may still append to.  A probe without samples is passed over.
TagFlow ==
  /\ main.pc = "tag"
  /\ LET t == <<main.step, main.wave>>
     IN /\ tagged' = [tagged EXCEPT ![t] = Len(kept[t])]
        /\ IF FlowNames[main.wave] = "probe" /\ kept[t] = <<>> THEN NextFlow
           ELSE main' = [main EXCEPT !.pc = "extend"] /\ flow' = flow
  /\ UNCHANGED <<kept, out, status, maps, foreign, server, jobVars, audit, faults>>

ExtendFlow ==
  /\ main.pc = "extend"
  /\ LET t == <<main.step, main.wave>>
     IN out' = out \o [i \in DOMAIN kept[t] |-> [req |-> kept[t][i], tagged |-> i <= tagged[t]]]
  /\ NextFlow
  /\ UNCHANGED <<kept, tagged, status, maps, foreign, server, jobVars, audit, faults>>

\* The merged report reads the round of every sample, the ratio averages the
\* TTFT of every prime and revisit sample: a missing one raises.
Rounded == \A i \in DOMAIN out : out[i].tagged
Timed   == \A i \in DOMAIN out :
             LET r == out[i].req
             IN r[2] = 0 /\ Phases[r[1]] # "churn" => status[r] = "text"
Report ==
  /\ main.pc = "report"
  /\ main' = [main EXCEPT !.pc =
                IF Rounded /\ ("prime" \in Range(Phases) => Timed) THEN "written" ELSE "raised"]
  /\ UNCHANGED <<flow, kept, tagged, out, status, maps, foreign, server, jobVars, audit, faults>>

\* The runner's timeout kills the client.
BenchTimesOut ==
  /\ Alive /\ Fault
  /\ main' = [main EXCEPT !.pc = "raised"]
  /\ UNCHANGED <<flow, kept, tagged, out, status, maps, foreign, server, jobVars, audit>>

MainStep == MainSend \/ Collect \/ MainRaises \/ JoinFlows \/ JoinTimesOut \/ TagFlow \/ ExtendFlow \/ Report

--------------------------------------------------------------------------------
(* The flows of a mixed phase: one request after another until stop is set,    *)
(* daemon threads that go with the process.                                    *)

Stop(t) == main.step > t[1] \/ main.pc \in {"join", "tag", "extend"}
Current(t) == <<t[1], t[2], Len(kept[t]) + 1>>

FlowSends(t) ==
  /\ Alive /\ flow[t] = "check" /\ ~Stop(t)
  /\ Len(kept[t]) < MaxFlow
  /\ status' = [status EXCEPT ![Current(t)] = "sent"]
  /\ flow' = [flow EXCEPT ![t] = "sent"]
  /\ UNCHANGED <<main, kept, tagged, out, maps, foreign, server, jobVars, audit, faults>>

FlowKeeps(t) ==
  /\ Alive /\ flow[t] = "sent" /\ status[Current(t)] \in {"text", "blank"}
  /\ kept' = [kept EXCEPT ![t] = Append(@, Current(t))]
  /\ flow' = [flow EXCEPT ![t] = "check"]
  /\ UNCHANGED <<main, tagged, out, status, maps, foreign, server, jobVars, audit, faults>>

FlowEnds(t) ==
  /\ Alive
  /\ \/ flow[t] = "check" /\ Stop(t) /\ flow' = [flow EXCEPT ![t] = "done"]
     \/ flow[t] = "sent" /\ status[Current(t)] = "failed" /\ flow' = [flow EXCEPT ![t] = "dead"]
  /\ UNCHANGED <<main, kept, tagged, out, status, maps, foreign, server, jobVars, audit, faults>>

FlowStep(t) == FlowSends(t) \/ FlowKeeps(t) \/ FlowEnds(t)

--------------------------------------------------------------------------------
(* The server, as the client and the two probes see it.                        *)

\* assign_request_id under the probe: a row of the map, unless the ID is not
\* one of ours because the header got lost.
Arrive(r) ==
  /\ server = "up" /\ status[r] = "sent"
  /\ status' = [status EXCEPT ![r] = "running"]
  /\ \/ maps' = [maps EXCEPT ![r] = @ + 1] /\ UNCHANGED <<foreign, faults>>
     \/ Fault /\ foreign' = foreign \cup {r} /\ maps' = maps
  /\ UNCHANGED <<clientVars, server, jobVars, audit>>

\* The SDK sends a request again after a broken connection, under the same ID.
Resend(r) ==
  /\ server = "up" /\ Alive /\ status[r] = "running" /\ r \notin foreign
  /\ Fault /\ maps' = [maps EXCEPT ![r] = @ + 1]
  /\ UNCHANGED <<clientVars, status, foreign, server, jobVars, audit>>

Answer(r) ==
  /\ server = "up" /\ Alive /\ status[r] = "running"
  /\ \/ status' = [status EXCEPT ![r] = "text"] /\ UNCHANGED faults
     \/ Fault /\ status' = [status EXCEPT ![r] = "blank"]
  /\ UNCHANGED <<clientVars, maps, foreign, server, jobVars, audit>>

\* one_request raises: no connection, a broken stream, two response IDs.
Fail(r) ==
  /\ Alive /\ status[r] \in {"sent", "running"}
  /\ Fault /\ status' = [status EXCEPT ![r] = "failed"]
  /\ UNCHANGED <<clientVars, maps, foreign, server, jobVars, audit>>

\* w_submit_load, w_submit_store: the job is stashed, then handed to the tier,
\* which answers some at once, without the engine.
SubmitJob(r) ==
  /\ server = "up" /\ status[r] \in {"running", "text", "blank"} /\ Len(jobs) < MaxJobs
  /\ \E local \in BOOLEAN : jobs' = Append(jobs, [req |-> r, local |-> local, done |-> local])
  /\ pending' = pending \cup {Len(jobs) + 1}
  /\ UNCHANGED <<clientVars, status, maps, foreign, server, returned, engineRows, ledger, audit, faults>>

FinishJob(j) ==
  /\ server \in {"up", "stopping"} /\ j \in DOMAIN jobs /\ ~jobs[j].done
  /\ jobs' = [jobs EXCEPT ![j].done = TRUE]
  /\ UNCHANGED <<clientVars, status, maps, foreign, server, pending, returned, engineRows, ledger, audit, faults>>

\* Results the tier has not handed back yet: the ones still stashed.
Ready == {j \in DOMAIN jobs : jobs[j].done /\ j \in pending \ returned}
WithRows(file, S) == [j \in DOMAIN file |-> file[j] + IF j \in S THEN 1 ELSE 0]
OfEngine(S) == {j \in S : ~jobs[j].local}

\* The tier's get_finished_jobs: the engine's rows are on disk, or could not be
\* written, before the results go back to the ledger's wrapper.
Poll ==
  /\ server \in {"up", "stopping"} /\ returned = {} /\ Ready # {}
  /\ returned' = Ready
  /\ \/ engineRows' = WithRows(engineRows, OfEngine(Ready)) /\ UNCHANGED faults
     \/ Fault /\ engineRows' = engineRows
  /\ UNCHANGED <<clientVars, status, maps, foreign, server, jobs, pending, ledger, audit>>

Record(j) ==
  /\ server \in {"up", "stopping"} /\ j \in returned
  /\ returned' = returned \ {j} /\ pending' = pending \ {j}
  /\ ledger' = WithRows(ledger, {j} \cap pending)
  /\ UNCHANGED <<clientVars, status, maps, foreign, server, jobs, engineRows, audit, faults>>

ServerStep(r) == Arrive(r) \/ Resend(r) \/ Answer(r) \/ Fail(r) \/ SubmitJob(r)
JobStep == Poll \/ \E j \in 1..MaxJobs : FinishJob(j) \/ Record(j)

--------------------------------------------------------------------------------
(* The group ends: stop_serve, then the audit.                                 *)

StopServe ==
  /\ ~Alive /\ server = "up" /\ server' = "stopping"
  /\ UNCHANGED <<clientVars, status, maps, foreign, jobVars, audit, faults>>

\* Mutation: the shutdown harvests past the ledger's wrapper.
ShutDownUnwrapped ==
  /\ server = "stopping" /\ returned = {}
  /\ \A j \in DOMAIN jobs : jobs[j].done
  /\ server' = "stopped"
  /\ engineRows' = WithRows(engineRows, OfEngine(Ready))
  /\ UNCHANGED <<clientVars, status, maps, foreign, jobs, pending, returned, ledger, audit, faults>>

\* The tier's shutdown: drain, then one last harvest through the wrapped method.
ShutDown ==
  /\ server = "stopping" /\ returned = {}
  /\ \A j \in DOMAIN jobs : jobs[j].done
  /\ server' = "stopped"
  /\ engineRows' = WithRows(engineRows, OfEngine(Ready))
  /\ ledger' = WithRows(ledger, Ready)
  /\ pending' = pending \ Ready
  /\ UNCHANGED <<clientVars, status, maps, foreign, jobs, returned, audit, faults>>

\* INT and TERM were not enough, or did not run the tier's shutdown: SIGKILL.
Kill ==
  /\ server = "stopping" /\ Fault /\ server' = "killed"
  /\ UNCHANGED <<clientVars, status, maps, foreign, jobVars, audit>>

Sampled(r)  == Cardinality({i \in DOMAIN out : out[i].req = r})
Recorded    == {j \in DOMAIN jobs : ledger[j] > 0}
\* Mutation: an audit that does not go back from the map to the samples.
SamplesInMap ==
  \A r \in Requests : Sampled(r) > 0 => Sampled(r) = 1 /\ r \notin foreign /\ maps[r] = 1

\* Every sample has its ID once, its own response ID and one row in the map;
\* every row of the map has its sample.
SamplesJoin ==
  \A r \in Requests :
    /\ Sampled(r) > 0 => Sampled(r) = 1 /\ r \notin foreign /\ maps[r] = 1
    /\ maps[r] > 0 => Sampled(r) > 0
\* A job of the ledger is there once and belongs to a sample and to a row of the
\* map; a row of the engine's records belongs to a job of the ledger.
JobsJoin ==
  \A j \in DOMAIN jobs :
    /\ j \in Recorded => ledger[j] = 1 /\ jobs[j].req \notin foreign
                           /\ Sampled(jobs[j].req) > 0 /\ maps[jobs[j].req] > 0
    /\ engineRows[j] > 0 => j \in Recorded
AuditGroup == IF SamplesJoin /\ JobsJoin THEN "PASS" ELSE "FAIL"

Audit ==
  /\ main.pc = "written" /\ server \in {"stopped", "killed"} /\ audit = "none"
  /\ audit' = AuditGroup
  /\ UNCHANGED <<clientVars, status, maps, foreign, server, jobVars, faults>>

Next ==
  \/ MainStep
  \/ \E t \in Threads : FlowStep(t)
  \/ \E r \in Requests : ServerStep(r)
  \/ JobStep
  \/ BenchTimesOut \/ StopServe \/ ShutDown \/ Kill \/ Audit

\* Threads are scheduled, the server answers the main thread's requests and
\* finishes its jobs; nothing is asked of it for the flows.
Fairness ==
  /\ WF_vars(MainStep)
  /\ \A r \in {q \in Requests : q[2] = 0} : WF_vars(Arrive(r)) /\ WF_vars(Answer(r))
  /\ \A t \in Threads : WF_vars(FlowStep(t))
  /\ WF_vars(JobStep) /\ WF_vars(StopServe) /\ WF_vars(ShutDown) /\ WF_vars(Audit)

Spec == Init /\ [][Next]_vars /\ Fairness

--------------------------------------------------------------------------------
(* Properties.                                                                 *)

TypeOK ==
  /\ main \in [pc: {"send", "join", "tag", "extend", "report", "written", "raised"},
               step: 1..(Len(Phases) + 1), wave: Nat \ {0}]
  /\ flow \in [Threads -> {"off", "check", "sent", "dead", "done"}]
  /\ \A t \in Threads : tagged[t] <= Len(kept[t]) /\ Range(kept[t]) \subseteq Requests
  /\ \A i \in DOMAIN out : out[i] \in [req: Requests, tagged: BOOLEAN]
  /\ status \in [Requests -> {"unsent", "sent", "running", "text", "blank", "failed"}]
  /\ maps \in [Requests -> 0..(MaxFaults + 1)] /\ foreign \subseteq Requests
  /\ server \in {"up", "stopping", "stopped", "killed"}
  /\ jobs \in Seq([req: Requests, local: BOOLEAN, done: BOOLEAN])
  /\ returned \subseteq pending /\ pending \subseteq DOMAIN jobs
  /\ audit \in {"none", "PASS", "FAIL"} /\ faults \in 0..MaxFaults

\* A request in the map came back and is one tagged sample; a sample of a request
\* that lost its ID is none.
Joined(r) ==
  /\ maps[r] = 1 /\ r \notin foreign /\ status[r] \in {"text", "blank"}
  /\ \E i \in DOMAIN out : out[i] = [req |-> r, tagged |-> TRUE]
                            /\ \A k \in DOMAIN out : out[k].req = r => k = i
RequestsJoined == \A r \in Requests : maps[r] > 0 \/ r \in {o.req : o \in Range(out)} => Joined(r)

\* The audit says PASS only if every request in the map, those of flows the join
\* gave up on included, is one complete sample; and after a clean stop exactly
\* if, besides, every job submitted, those harvested by the shutdown included,
\* is one row of the ledger and names such a sample.
AuditTellsJoins ==
  /\ TypeOK
  /\ audit = "PASS" => RequestsJoined
  /\ audit # "none" /\ server = "stopped" =>
       (audit = "PASS" <=> /\ RequestsJoined
                           /\ \A j \in DOMAIN jobs : ledger[j] = 1 /\ Joined(jobs[j].req))

\* Data is thrown away only for a reason: without a fault, and with every flow's
\* last request back before its samples are copied, the bench writes its samples
\* and the audit accepts them.
Late(t) == flow[t] = "sent" \/ \E i \in DOMAIN kept[t] : [req |-> kept[t][i], tagged |-> TRUE] \notin Range(out)
UndisturbedPasses ==
  audit = "FAIL" \/ main.pc = "raised" => faults > 0 \/ \E t \in Threads : Late(t)

\* The group comes to an end, an error or a verdict, even if the last request of
\* a flow never returns.
GroupEnds == <>(main.pc = "raised" \/ audit # "none")

================================================================================
