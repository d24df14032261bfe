------------------------- MODULE TracedBench_proofs -------------------------
(***************************************************************************)
(* Proofs about TracedBench for any sequence of phases, any number of      *)
(* sessions, waves, requests, jobs and faults: a verdict of the audit      *)
(* means what it says, and a group in which nothing went wrong is not      *)
(* thrown away.                                                            *)
(***************************************************************************)
EXTENDS TracedBench, FiniteSetTheorems, SequenceTheorems, TLAPS

-----------------------------------------------------------------------------
(* The inductive invariant *)

\* The types the proofs need beside those of TypeOK
Typed ==
  /\ kept \in [Threads -> Seq(Requests)] /\ tagged \in [Threads -> Nat]
  /\ out \in Seq([req : Requests, tagged : BOOLEAN])
  /\ engineRows \in [1..MaxJobs -> Nat] /\ ledger \in [1..MaxJobs -> Nat]
  /\ Len(jobs) <= MaxJobs

\* Where the main thread may be
MainInv ==
  /\ main.pc = "send" => main.step \in Steps /\ main.wave <= (IF main.step \in Mixed THEN Waves ELSE 1)
  /\ main.pc \in {"join", "tag", "extend"} => main.step \in Mixed
  /\ main.pc \in {"tag", "extend"} => main.wave \in DOMAIN FlowNames
  /\ main.pc \in {"report", "written"} => main.step = Len(Phases) + 1

Unseen(r) == status[r] \in {"unsent", "sent"}
Back(r) == status[r] \in {"text", "blank"}

\* What the server knows of a request: nothing before it arrived; more than one
\* row, none, an empty answer or none only for a fault.
RequestInv ==
  \A r \in Requests :
    /\ Unseen(r) => maps[r] = 0 /\ r \notin foreign
    /\ maps[r] <= faults + 1
    /\ faults = 0 => /\ r \notin foreign /\ status[r] \notin {"failed", "blank"}
                     /\ status[r] \in {"running", "text"} => maps[r] = 1

\* A flow has kept its requests in order, and sent at most one more.
FlowInv ==
  \A t \in Threads :
    /\ t[1] > main.step => flow[t] = "off"
    /\ Len(kept[t]) <= MaxFlow
    /\ \A i \in DOMAIN kept[t] : kept[t][i] = <<t[1], t[2], i>> /\ Back(kept[t][i])
    /\ flow[t] = "sent" => Len(kept[t]) < MaxFlow
    /\ flow[t] = "dead" => faults > 0
    /\ \A n \in (Len(kept[t]) + 1)..MaxFlow :
         status[<<t[1], t[2], n>>] # "unsent" => n = Len(kept[t]) + 1 /\ flow[t] \in {"sent", "dead"}

\* The main thread has the samples of this request of its own.
Collected(s, n) ==
  \/ s < main.step
  \/ s = main.step /\ s \in Mixed /\ (main.pc = "send" => n <= (main.wave - 1) * Sessions)

\* It has copied the samples of this flow.
Copied(t) ==
  \/ t[1] < main.step
  \/ t[1] = main.step /\ main.pc \in {"tag", "extend"} /\ t[2] < main.wave

\* A request is one sample, of one that came back; a flow's is one it kept,
\* tagged if the tagging loop saw it.
OutInv ==
  /\ \A i, k \in DOMAIN out : out[i].req = out[k].req => i = k
  /\ \A i \in DOMAIN out :
       LET r == out[i].req
           t == <<r[1], r[2]>>
       IN /\ Back(r)
          /\ r[2] = 0 => out[i].tagged
          /\ r[2] # 0 => /\ t \in Threads /\ r[3] \in DOMAIN kept[t]
                         /\ out[i].tagged <=> r[3] <= tagged[t]

\* It is so far one of the requests collected or copied, and of those the main
\* thread collected none is missing.
CollectInv ==
  main.pc # "raised" =>
    /\ \A i \in DOMAIN out :
         LET r == out[i].req IN IF r[2] = 0 THEN Collected(r[1], r[3]) ELSE Copied(<<r[1], r[2]>>)
    /\ \A r \in Requests :
         r[2] = 0 /\ Collected(r[1], r[3]) => \E i \in DOMAIN out : out[i].req = r

\* A job is stashed or recorded, once; its row in the records of the engine is
\* there only when the ledger's is or is about to be.
JobInv ==
  /\ \A j \in 1..MaxJobs :
       /\ ledger[j] = IF j \in DOMAIN jobs \ pending THEN 1 ELSE 0
       /\ engineRows[j] > 0 => j \in DOMAIN jobs /\ (j \in pending => j \in returned)
  /\ \A j \in DOMAIN jobs : ~Unseen(jobs[j].req)
  /\ server = "stopped" => pending = {}
  /\ server = "killed" => faults > 0

\* How the client and the audit came to their ends
EndInv ==
  /\ main.pc = "written" => Rounded
  /\ main.pc = "raised" /\ faults = 0 => \E t \in Threads : Late(t)
  /\ server # "up" => ~Alive
  /\ audit # "none" => main.pc = "written" /\ server \in {"stopped", "killed"} /\ audit = AuditGroup

BenchInv ==
  /\ TypeOK /\ Typed
  /\ MainInv /\ RequestInv /\ FlowInv /\ OutInv /\ CollectInv /\ JobInv /\ EndInv
-----------------------------------------------------------------------------
(* Phases, threads and requests *)

LEMMA Config ==
  /\ Phases \in Seq({"prime", "churn", "revisit", "mixed"})
  /\ Steps = 1..Len(Phases) /\ Len(Phases) \in Nat \ {0} /\ Mixed \subseteq Steps
  /\ DOMAIN FlowNames = 1..Len(FlowNames) /\ Len(FlowNames) \in {1, 2}
  /\ Sessions \in Nat \ {0} /\ Churn \in Nat \ {0} /\ Waves \in Nat \ {0}
  /\ Concurrency \in Nat \ {0} /\ MaxFlow \in Nat \ {0} /\ MaxJobs \in Nat /\ MaxFaults \in Nat
<1>1. Phases \in Seq({"prime", "churn", "revisit", "mixed"})
  BY BenchAssumption
<1>2. Steps = 1..Len(Phases) /\ Len(Phases) \in Nat \ {0} /\ Mixed \subseteq Steps
  BY <1>1, BenchAssumption DEF Steps, Mixed
<1>3. DOMAIN FlowNames = 1..Len(FlowNames) /\ Len(FlowNames) \in {1, 2}
  BY BenchAssumption
<1> QED
  BY <1>1, <1>2, <1>3, BenchAssumption

LEMMA SizeFacts ==
  ASSUME NEW s \in Steps
  PROVE  /\ MainSize(s) \in Nat
         /\ s \in Mixed => MainSize(s) = Waves * Sessions
<1>1. Phases[s] \in {"prime", "churn", "revisit", "mixed"}
  BY Config
<1>2. Waves * Sessions \in Nat
  BY Config
<1>3. CASE Phases[s] = "churn"
  BY <1>3, Config DEF MainSize, Mixed
<1>4. CASE Phases[s] = "mixed"
  BY <1>2, <1>4, Config DEF MainSize, Mixed
<1>5. CASE Phases[s] \in {"prime", "revisit"}
  BY <1>5, Config DEF MainSize, Mixed
<1> QED
  BY <1>1, <1>3, <1>4, <1>5

LEMMA ThreadFacts ==
  ASSUME NEW t \in Threads
  PROVE  /\ t = <<t[1], t[2]>> /\ t[1] \in Mixed /\ t[1] \in Steps /\ t[1] \in Nat
         /\ t[2] \in DOMAIN FlowNames /\ t[2] \in Nat \ {0}
<1>1. t = <<t[1], t[2]>> /\ t[1] \in Mixed /\ t[2] \in DOMAIN FlowNames
  BY DEF Threads
<1>2. t[1] \in Steps /\ t[1] \in Nat
  BY <1>1, Config
<1>3. t[2] \in Nat \ {0}
  BY <1>1, Config
<1> QED
  BY <1>1, <1>2, <1>3

\* A request is of the main thread or of a flow.
LEMMA RequestKinds ==
  /\ \A s \in Steps : \A n \in 1..MainSize(s) : <<s, 0, n>> \in Requests
  /\ \A t \in Threads, n \in 1..MaxFlow : <<t[1], t[2], n>> \in Requests
  /\ \A r \in Requests :
       \/ \E s \in Steps : \E n \in 1..MainSize(s) : r = <<s, 0, n>>
       \/ \E t \in Threads, n \in 1..MaxFlow : r = <<t[1], t[2], n>>
<1> DEFINE M == {{<<s, 0, n>> : n \in 1..MainSize(s)} : s \in Steps}
           F == {<<t[1], t[2], n>> : t \in Threads, n \in 1..MaxFlow}
<1>1. Requests = (UNION M) \cup F
  BY DEF Requests
<1>2. ASSUME NEW s \in Steps, NEW n \in 1..MainSize(s) PROVE <<s, 0, n>> \in UNION M
  <2>1. {<<s, 0, m>> : m \in 1..MainSize(s)} \in M
    OBVIOUS
  <2>2. <<s, 0, n>> \in {<<s, 0, m>> : m \in 1..MainSize(s)}
    OBVIOUS
  <2> QED
    BY <2>1, <2>2
<1>3. ASSUME NEW r \in UNION M PROVE \E s \in Steps : \E n \in 1..MainSize(s) : r = <<s, 0, n>>
  <2>1. PICK R \in M : r \in R
    OBVIOUS
  <2>2. PICK s \in Steps : R = {<<s, 0, n>> : n \in 1..MainSize(s)}
    BY <2>1
  <2> QED
    BY <2>1, <2>2
<1>4. \A t \in Threads, n \in 1..MaxFlow : <<t[1], t[2], n>> \in F
  OBVIOUS
<1>5. ASSUME NEW r \in F PROVE \E t \in Threads, n \in 1..MaxFlow : r = <<t[1], t[2], n>>
  OBVIOUS
<1> HIDE DEF M, F
<1>6. ASSUME NEW s \in Steps, NEW n \in 1..MainSize(s) PROVE <<s, 0, n>> \in Requests
  BY <1>1, <1>2
<1>7. \A t \in Threads, n \in 1..MaxFlow : <<t[1], t[2], n>> \in Requests
  BY <1>1, <1>4
<1>8. ASSUME NEW r \in Requests
      PROVE  \/ \E s \in Steps : \E n \in 1..MainSize(s) : r = <<s, 0, n>>
             \/ \E t \in Threads, n \in 1..MaxFlow : r = <<t[1], t[2], n>>
  <2>1. CASE r \in UNION M
    BY <1>3, <2>1
  <2>2. CASE r \in F
    BY <1>5, <2>2
  <2> QED
    BY <1>1, <2>1, <2>2
<1> QED
  BY <1>6, <1>7, <1>8

LEMMA RequestFacts ==
  /\ \A s \in Steps : \A n \in 1..MainSize(s) : <<s, 0, n>> \in Requests
  /\ \A t \in Threads, n \in 1..MaxFlow : <<t[1], t[2], n>> \in Requests
  /\ \A r \in Requests :
       /\ r = <<r[1], r[2], r[3]>> /\ r[1] \in Steps /\ r[3] \in Nat \ {0}
       /\ r[2] = 0 => r[3] <= MainSize(r[1])
       /\ r[2] # 0 => <<r[1], r[2]>> \in Threads /\ r[3] \in 1..MaxFlow
<1>1. ASSUME NEW r \in Requests
      PROVE  /\ r = <<r[1], r[2], r[3]>> /\ r[1] \in Steps /\ r[3] \in Nat \ {0}
             /\ r[2] = 0 => r[3] <= MainSize(r[1])
             /\ r[2] # 0 => <<r[1], r[2]>> \in Threads /\ r[3] \in 1..MaxFlow
  <2>1. CASE \E s \in Steps : \E n \in 1..MainSize(s) : r = <<s, 0, n>>
    <3>1. PICK s \in Steps : \E n \in 1..MainSize(s) : r = <<s, 0, n>>
      BY <2>1
    <3>2. PICK n \in 1..MainSize(s) : r = <<s, 0, n>>
      BY <3>1
    <3>3. n \in Nat \ {0} /\ n <= MainSize(s)
      BY SizeFacts
    <3> QED
      BY <3>2, <3>3
  <2>2. CASE \E t \in Threads, n \in 1..MaxFlow : r = <<t[1], t[2], n>>
    <3>1. PICK t \in Threads, n \in 1..MaxFlow : r = <<t[1], t[2], n>>
      BY <2>2
    <3>2. n \in Nat \ {0}
      BY Config
    <3> QED
      BY <3>1, <3>2, ThreadFacts
  <2> QED
    BY <2>1, <2>2, RequestKinds
<1> QED
  BY <1>1, RequestKinds

\* The place of a wave's requests among those of its phase
LEMMA WavePlace ==
  ASSUME NEW w \in Nat \ {0}
  PROVE  /\ (w - 1) * Sessions \in Nat /\ w * Sessions = (w - 1) * Sessions + Sessions
         /\ w <= Waves => w * Sessions <= Waves * Sessions
  BY Config

\* A batch is of the main thread's requests, none of them collected before.
LEMMA BatchFacts ==
  ASSUME TypeOK, MainInv, main.pc = "send"
  PROVE  /\ main.step \in Steps /\ main.step \in Nat /\ BatchSize \in Nat
         /\ \A i \in 1..BatchSize :
              /\ Member(i) \in Requests /\ Member(i)[1] = main.step /\ Member(i)[2] = 0
              /\ ~Collected(main.step, Member(i)[3])
              /\ \A k \in 1..BatchSize : Member(k) = Member(i) => k = i
<1>1. main.step \in Steps /\ main.wave \in Nat \ {0} /\ main.wave <= (IF main.step \in Mixed THEN Waves ELSE 1)
  BY DEF TypeOK, MainInv
<1>2. main.step \in Nat
  BY <1>1, Config
<1>3. CASE main.step \in Mixed
  <2>1. BatchSize = Sessions /\ Sessions \in Nat
    BY <1>3, Config DEF BatchSize
  <2> DEFINE b == (main.wave - 1) * Sessions
  <2>2. b \in Nat /\ b + Sessions <= Waves * Sessions
    BY <1>1, <1>3, WavePlace, Config
  <2>3. \A i : Member(i) = <<main.step, 0, b + i>>
    BY <1>3 DEF Member
  <2> HIDE DEF b
  <2>4. ASSUME NEW i \in 1..Sessions
        PROVE  Member(i) \in Requests /\ b + i > b
    <3>1. b + i \in 1..(Waves * Sessions) /\ b + i > b
      BY <2>1, <2>2, Config
    <3> QED
      BY <1>1, <1>3, <2>3, <3>1, SizeFacts, RequestFacts
  <2>5. ASSUME NEW i \in 1..Sessions
        PROVE  ~Collected(main.step, Member(i)[3])
    <3>1. Member(i)[3] = b + i /\ b + i > b /\ i \in Nat
      BY <2>1, <2>3, <2>4
    <3> QED
      BY <1>2, <2>2, <3>1 DEF Collected, b
  <2>6. \A i, k \in 1..Sessions : Member(k) = Member(i) => k = i
    BY <2>1, <2>2, <2>3
  <2> QED
    BY <1>1, <1>2, <2>1, <2>3, <2>4, <2>5, <2>6
<1>4. CASE main.step \notin Mixed
  <2>1. BatchSize = MainSize(main.step) /\ MainSize(main.step) \in Nat
    BY <1>1, <1>4, SizeFacts DEF BatchSize
  <2>2. \A i : Member(i) = <<main.step, 0, i>>
    BY <1>4 DEF Member
  <2>3. ~Collected(main.step, 0) /\ \A n : ~Collected(main.step, n)
    BY <1>2, <1>4 DEF Collected
  <2> QED
    BY <1>1, <1>2, <2>1, <2>2, <2>3, RequestFacts
<1> QED
  BY <1>3, <1>4

-----------------------------------------------------------------------------
(* What an action does not disturb *)

LEMMA FaultFacts ==
  ASSUME TypeOK
  PROVE  /\ faults \in Nat /\ MaxFaults \in Nat
         /\ Fault => faults' \in 0..MaxFaults /\ faults' > faults /\ faults' # 0
  BY Config DEF TypeOK, Fault

\* The elements of the sequences
LEMMA SampleTypes ==
  ASSUME Typed
  PROVE  /\ Len(out) \in Nat /\ DOMAIN out = 1..Len(out)
         /\ \A i \in DOMAIN out : out[i] \in [req : Requests, tagged : BOOLEAN] /\ out[i].req \in Requests
<1> DEFINE Sample == [req : Requests, tagged : BOOLEAN]
<1>1. out \in Seq(Sample)
  BY DEF Typed
<1>2. \A o \in Sample : o.req \in Requests
  OBVIOUS
<1> HIDE DEF Sample
<1>3. Len(out) \in Nat /\ DOMAIN out = 1..Len(out) /\ \A i \in DOMAIN out : out[i] \in Sample
  BY <1>1
<1> QED
  BY <1>2, <1>3 DEF Sample

LEMMA JobTypes ==
  ASSUME TypeOK
  PROVE  /\ Len(jobs) \in Nat /\ DOMAIN jobs = 1..Len(jobs)
         /\ \A j \in DOMAIN jobs : jobs[j] \in [req : Requests, local : BOOLEAN, done : BOOLEAN]
                                    /\ jobs[j].req \in Requests
<1> DEFINE Job == [req : Requests, local : BOOLEAN, done : BOOLEAN]
<1>1. jobs \in Seq(Job)
  BY DEF TypeOK
<1>2. \A x \in Job : x.req \in Requests
  OBVIOUS
<1> HIDE DEF Job
<1>3. Len(jobs) \in Nat /\ DOMAIN jobs = 1..Len(jobs) /\ \A j \in DOMAIN jobs : jobs[j] \in Job
  BY <1>1
<1> QED
  BY <1>2, <1>3 DEF Job

\* The status of one request moves on.
LEMMA StatusMoves ==
  ASSUME TypeOK, NEW r \in Requests, NEW v \in {"sent", "running", "text", "blank", "failed"},
         status' = [status EXCEPT ![r] = v], ~Back(r), v = "sent" => status[r] = "unsent"
  PROVE  /\ status' \in [Requests -> {"unsent", "sent", "running", "text", "blank", "failed"}]
         /\ status'[r] = v /\ \A q \in Requests : q # r => status'[q] = status[q]
         /\ \A q \in Requests : Back(q) => Back(q)'
         /\ \A q \in Requests : ~Unseen(q) => ~Unseen(q)'
<1>1. status \in [Requests -> {"unsent", "sent", "running", "text", "blank", "failed"}]
  BY DEF TypeOK
<1>2. /\ status' \in [Requests -> {"unsent", "sent", "running", "text", "blank", "failed"}]
      /\ status'[r] = v /\ \A q \in Requests : q # r => status'[q] = status[q]
  BY <1>1
<1>3. \A q \in Requests : Back(q) => Back(q)'
  BY <1>2 DEF Back
<1>4. ASSUME NEW q \in Requests, ~Unseen(q) PROVE ~Unseen(q)'
  BY <1>2, <1>4 DEF Unseen
<1> QED
  BY <1>2, <1>3, <1>4

LEMMA RequestKept ==
  ASSUME TypeOK, RequestInv, faults' \in Nat, faults' >= faults,
         status' = status, maps' = maps, foreign' = foreign
  PROVE  RequestInv'
<1>1. \A r \in Requests : maps[r] \in Nat
  BY Config DEF TypeOK
<1>2. faults \in Nat
  BY FaultFacts
<1> SUFFICES ASSUME NEW r \in Requests
             PROVE  /\ Unseen(r)' => maps'[r] = 0 /\ r \notin foreign'
                    /\ maps'[r] <= faults' + 1
                    /\ faults' = 0 => /\ r \notin foreign' /\ status'[r] \notin {"failed", "blank"}
                                      /\ status'[r] \in {"running", "text"} => maps'[r] = 1
  BY DEF RequestInv
<1>3. /\ Unseen(r) => maps[r] = 0 /\ r \notin foreign
      /\ maps[r] <= faults + 1
      /\ faults = 0 => /\ r \notin foreign /\ status[r] \notin {"failed", "blank"}
                       /\ status[r] \in {"running", "text"} => maps[r] = 1
  BY DEF RequestInv
<1>4. Unseen(r)' <=> Unseen(r)
  BY DEF Unseen
<1>5. faults' = 0 => faults = 0
  BY <1>2
<1> QED
  BY <1>1, <1>2, <1>3, <1>4, <1>5

LEMMA FlowKept ==
  ASSUME TypeOK, Typed, FlowInv, flow' = flow, kept' = kept, faults' \in Nat, faults' >= faults,
         main'.step >= main.step, main'.step \in Nat,
         \A r \in Requests : r[2] # 0 /\ status[r] = "unsent" => status'[r] = "unsent",
         \A r \in Requests : Back(r) => Back(r)'
  PROVE  FlowInv'
<1> SUFFICES ASSUME NEW t \in Threads
             PROVE  /\ t[1] > main'.step => flow'[t] = "off"
                    /\ Len(kept'[t]) <= MaxFlow
                    /\ \A i \in DOMAIN kept'[t] : kept'[t][i] = <<t[1], t[2], i>> /\ Back(kept[t][i])'
                    /\ flow'[t] = "sent" => Len(kept'[t]) < MaxFlow
                    /\ flow'[t] = "dead" => faults' > 0
                    /\ \A n \in (Len(kept'[t]) + 1)..MaxFlow :
                         status'[<<t[1], t[2], n>>] # "unsent" =>
                           n = Len(kept'[t]) + 1 /\ flow'[t] \in {"sent", "dead"}
  BY DEF FlowInv, Back
<1>1. /\ t[1] > main.step => flow[t] = "off"
      /\ Len(kept[t]) <= MaxFlow
      /\ \A i \in DOMAIN kept[t] : kept[t][i] = <<t[1], t[2], i>> /\ Back(kept[t][i])
      /\ flow[t] = "sent" => Len(kept[t]) < MaxFlow
      /\ flow[t] = "dead" => faults > 0
      /\ \A n \in (Len(kept[t]) + 1)..MaxFlow :
           status[<<t[1], t[2], n>>] # "unsent" => n = Len(kept[t]) + 1 /\ flow[t] \in {"sent", "dead"}
  BY DEF FlowInv
<1>2. main.step \in Nat /\ faults \in Nat /\ t[1] \in Nat /\ t[2] # 0 /\ MaxFlow \in Nat
  BY FaultFacts, ThreadFacts, Config DEF TypeOK
<1>3. t[1] > main'.step => flow'[t] = "off"
  BY <1>1, <1>2
<1>4. kept[t] \in Seq(Requests) /\ Len(kept[t]) \in Nat /\ DOMAIN kept[t] = 1..Len(kept[t])
  BY DEF Typed
<1>5. \A i \in DOMAIN kept[t] : kept[t][i] \in Requests
  BY <1>4
<1>6. \A i \in DOMAIN kept[t] : Back(kept[t][i])'
  BY <1>1, <1>5
<1>7. ASSUME NEW n \in (Len(kept[t]) + 1)..MaxFlow, status'[<<t[1], t[2], n>>] # "unsent"
      PROVE  n = Len(kept[t]) + 1 /\ flow[t] \in {"sent", "dead"}
  <2>1. n \in 1..MaxFlow
    BY <1>2, <1>4
  <2>2. <<t[1], t[2], n>> \in Requests
    BY <2>1, RequestFacts
  <2>3. status[<<t[1], t[2], n>>] # "unsent"
    BY <1>2, <1>7, <2>2
  <2> QED
    BY <1>1, <2>3
<1> QED
  BY <1>1, <1>2, <1>3, <1>6, <1>7

\* Samples are not touched when a flow keeps more and requests come back.
LEMMA OutKept ==
  ASSUME Typed, OutInv, out' = out, tagged' = tagged,
         \A t \in Threads : DOMAIN kept[t] \subseteq DOMAIN kept'[t],
         \A r \in Requests : Back(r) => Back(r)'
  PROVE  OutInv'
<1>1. \A i, k \in DOMAIN out' : out'[i].req = out'[k].req => i = k
  BY DEF OutInv
<1>2. ASSUME NEW i \in DOMAIN out
      PROVE  /\ Back(out[i].req)'
             /\ out[i].req[2] = 0 => out[i].tagged
             /\ out[i].req[2] # 0 =>
                  /\ <<out[i].req[1], out[i].req[2]>> \in Threads
                  /\ out[i].req[3] \in DOMAIN kept'[<<out[i].req[1], out[i].req[2]>>]
                  /\ out[i].tagged <=> out[i].req[3] <= tagged[<<out[i].req[1], out[i].req[2]>>]
  <2>1. out[i] \in [req : Requests, tagged : BOOLEAN] /\ out[i].req \in Requests
    BY SampleTypes
  <2>2. /\ Back(out[i].req)
        /\ out[i].req[2] = 0 => out[i].tagged
        /\ out[i].req[2] # 0 =>
             /\ <<out[i].req[1], out[i].req[2]>> \in Threads
             /\ out[i].req[3] \in DOMAIN kept[<<out[i].req[1], out[i].req[2]>>]
             /\ out[i].tagged <=> out[i].req[3] <= tagged[<<out[i].req[1], out[i].req[2]>>]
    BY DEF OutInv
  <2> QED
    BY <2>1, <2>2
<1> QED
  BY <1>1, <1>2 DEF OutInv, Back

\* Where the main thread stands decides what it has collected and copied.
LEMMA CollectKept ==
  ASSUME CollectInv, out' = out, main'.pc # "raised" => main.pc # "raised",
         main'.pc # "raised" =>
           /\ \A s \in Steps, n \in Nat \ {0} : Collected(s, n)' <=> Collected(s, n)
           /\ \A t \in Threads : Copied(t) => Copied(t)',
         Typed, OutInv
  PROVE  CollectInv'
<1> SUFFICES ASSUME main'.pc # "raised"
             PROVE  /\ \A i \in DOMAIN out :
                         IF out[i].req[2] = 0 THEN Collected(out[i].req[1], out[i].req[3])'
                         ELSE Copied(<<out[i].req[1], out[i].req[2]>>)'
                    /\ \A r \in Requests :
                         r[2] = 0 /\ Collected(r[1], r[3])' => \E i \in DOMAIN out : out[i].req = r
  BY DEF CollectInv, Collected, Copied
<1>1. \A i \in DOMAIN out :
        IF out[i].req[2] = 0 THEN Collected(out[i].req[1], out[i].req[3])
        ELSE Copied(<<out[i].req[1], out[i].req[2]>>)
  BY DEF CollectInv
<1>2. \A r \in Requests : r[2] = 0 /\ Collected(r[1], r[3]) => \E i \in DOMAIN out : out[i].req = r
  BY DEF CollectInv
<1>3. \A r \in Requests : r[1] \in Steps /\ r[3] \in Nat \ {0}
  BY RequestFacts
<1>4. \A i \in DOMAIN out : out[i].req \in Requests
  BY SampleTypes
<1>5. ASSUME NEW i \in DOMAIN out
      PROVE  IF out[i].req[2] = 0 THEN Collected(out[i].req[1], out[i].req[3])'
             ELSE Copied(<<out[i].req[1], out[i].req[2]>>)'
  <2>1. CASE out[i].req[2] = 0
    BY <1>1, <1>3, <1>4, <2>1
  <2>2. CASE out[i].req[2] # 0
    <3>1. <<out[i].req[1], out[i].req[2]>> \in Threads
      BY <2>2 DEF OutInv
    <3> QED
      BY <1>1, <2>2, <3>1
  <2> QED
    BY <2>1, <2>2
<1> QED
  BY <1>2, <1>3, <1>5

LEMMA JobKept ==
  ASSUME JobInv, TypeOK, UNCHANGED jobVars, server' = server \/ server' = "stopping",
         faults' \in Nat, faults' >= faults,
         \A r \in Requests : ~Unseen(r) => ~Unseen(r)'
  PROVE  JobInv'
<1>1. jobs' = jobs /\ pending' = pending /\ returned' = returned /\ engineRows' = engineRows /\ ledger' = ledger
  BY DEF jobVars
<1> USE <1>1
<1>2. \A j \in DOMAIN jobs : jobs[j].req \in Requests
  BY JobTypes
<1>3. \A j \in DOMAIN jobs : ~Unseen(jobs[j].req)'
  BY <1>2 DEF JobInv
<1>4. faults \in Nat
  BY FaultFacts
<1>5. server' = "killed" => faults' > 0
  BY <1>4 DEF JobInv
<1>6. server' = "stopped" => pending' = {}
  BY <1>1 DEF JobInv
<1> QED
  BY <1>1, <1>3, <1>5, <1>6 DEF JobInv, Unseen

\* While the client lives it has no end yet, and the server is up.
LEMMA EndAlive ==
  ASSUME TypeOK, EndInv, Alive, Alive', server' = server, audit' = audit
  PROVE  EndInv' /\ server = "up" /\ audit = "none"
<1>1. main.pc \notin {"written", "raised"} /\ main'.pc \notin {"written", "raised"}
  BY DEF Alive
<1>2. server = "up" /\ audit = "none"
  BY <1>1 DEF EndInv
<1> QED
  BY <1>1, <1>2 DEF EndInv

LEMMA EndServer ==
  ASSUME TypeOK, EndInv, UNCHANGED clientVars, audit' = audit, server' = server,
         server \in {"up", "stopping"}, faults' \in Nat, faults' >= faults
  PROVE  EndInv'
<1>1. main' = main /\ flow' = flow /\ kept' = kept /\ out' = out
  BY DEF clientVars
<1>2. audit = "none"
  BY DEF EndInv
<1>3. faults \in Nat
  BY FaultFacts
<1>4. main'.pc = "written" => Rounded'
  BY <1>1 DEF EndInv, Rounded
<1>5. main'.pc = "raised" /\ faults' = 0 => \E t \in Threads : Late(t)'
  BY <1>1, <1>3 DEF EndInv, Late
<1>6. server' # "up" => ~Alive'
  BY <1>1 DEF EndInv, Alive
<1> QED
  BY <1>2, <1>4, <1>5, <1>6 DEF EndInv

-----------------------------------------------------------------------------
(* The server *)

\* A step of the server leaves what the client is doing.
LEMMA ClientKeeps ==
  ASSUME BenchInv, UNCHANGED clientVars, faults' \in Nat, faults' >= faults,
         \A r \in Requests : r[2] # 0 /\ status[r] = "unsent" => status'[r] = "unsent",
         \A r \in Requests : Back(r) => Back(r)'
  PROVE  MainInv' /\ FlowInv' /\ OutInv' /\ CollectInv'
<1>1. TypeOK /\ Typed /\ MainInv /\ FlowInv /\ OutInv /\ CollectInv
  BY DEF BenchInv
<1>2. main' = main /\ flow' = flow /\ kept' = kept /\ tagged' = tagged /\ out' = out
  BY DEF clientVars
<1>3. MainInv'
  BY <1>1, <1>2 DEF MainInv
<1>4. FlowInv'
  <2>1. main'.step >= main.step /\ main'.step \in Nat
    BY <1>1, <1>2, Config DEF TypeOK
  <2> QED
    BY <1>1, <1>2, <2>1, FlowKept
<1>5. OutInv'
  BY <1>1, <1>2, OutKept
<1>6. CollectInv'
  <2>1. \A s \in Steps, n \in Nat : Collected(s, n)' <=> Collected(s, n)
    BY <1>2 DEF Collected
  <2>2. \A t \in Threads : Copied(t) => Copied(t)'
    BY <1>2 DEF Copied
  <2> QED
    BY <1>1, <1>2, <2>1, <2>2, CollectKept
<1> QED
  BY <1>3, <1>4, <1>5, <1>6

LEMMA ServerKeeps ==
  ASSUME BenchInv, UNCHANGED clientVars, audit' = audit, server' = server, server \in {"up", "stopping"},
         faults' \in Nat, faults' >= faults,
         \A r \in Requests : r[2] # 0 /\ status[r] = "unsent" => status'[r] = "unsent",
         \A r \in Requests : Back(r) => Back(r)'
  PROVE  MainInv' /\ FlowInv' /\ OutInv' /\ CollectInv' /\ EndInv'
  BY ClientKeeps, EndServer DEF BenchInv

LEMMA ArriveKeeps ==
  ASSUME BenchInv, NEW r \in Requests, Arrive(r)
  PROVE  BenchInv'
<1>1. TypeOK /\ Typed /\ RequestInv /\ JobInv
  BY DEF BenchInv
<1>2. /\ server = "up" /\ status[r] = "sent" /\ status' = [status EXCEPT ![r] = "running"]
      /\ \/ maps' = [maps EXCEPT ![r] = @ + 1] /\ UNCHANGED <<foreign, faults>>
         \/ Fault /\ foreign' = foreign \cup {r} /\ maps' = maps
      /\ UNCHANGED clientVars /\ server' = server /\ UNCHANGED jobVars /\ audit' = audit
  BY DEF Arrive
<1>3. /\ faults' \in 0..MaxFaults /\ faults' \in Nat /\ faults' >= faults /\ faults \in Nat
      /\ Fault => faults' # 0
  BY <1>1, <1>2, FaultFacts, Config DEF TypeOK
<1>4. maps \in [Requests -> 0..(MaxFaults + 1)] /\ foreign \subseteq Requests /\ MaxFaults \in Nat
  BY <1>1, Config DEF TypeOK
<1>5. maps[r] = 0 /\ r \notin foreign
  BY <1>1, <1>2 DEF RequestInv, Unseen
<1>6. ~Back(r) /\ status[r] # "unsent"
  BY <1>2 DEF Back
<1>7. /\ status' \in [Requests -> {"unsent", "sent", "running", "text", "blank", "failed"}]
      /\ status'[r] = "running" /\ \A q \in Requests : q # r => status'[q] = status[q]
      /\ \A q \in Requests : Back(q) => Back(q)'
      /\ \A q \in Requests : ~Unseen(q) => ~Unseen(q)'
  BY <1>1, <1>2, <1>6, StatusMoves
<1>8. maps' \in [Requests -> 0..(MaxFaults + 1)] /\ foreign' \subseteq Requests
  BY <1>2, <1>4, <1>5
<1>9. TypeOK'
  BY <1>1, <1>2, <1>3, <1>7, <1>8 DEF TypeOK, clientVars, jobVars
<1>10. Typed'
  BY <1>1, <1>2 DEF Typed, clientVars, jobVars
<1>11. RequestInv'
  <2> SUFFICES ASSUME NEW q \in Requests
               PROVE  /\ Unseen(q)' => maps'[q] = 0 /\ q \notin foreign'
                      /\ maps'[q] <= faults' + 1
                      /\ faults' = 0 => /\ q \notin foreign' /\ status'[q] \notin {"failed", "blank"}
                                        /\ status'[q] \in {"running", "text"} => maps'[q] = 1
    BY DEF RequestInv
  <2>1. /\ Unseen(q) => maps[q] = 0 /\ q \notin foreign
        /\ maps[q] <= faults + 1
        /\ faults = 0 => /\ q \notin foreign /\ status[q] \notin {"failed", "blank"}
                         /\ status[q] \in {"running", "text"} => maps[q] = 1
    BY <1>1 DEF RequestInv
  <2>2. CASE q = r
    <3>1. ~Unseen(q)' /\ status'[q] = "running"
      BY <1>7, <2>2 DEF Unseen
    <3> QED
      BY <1>2, <1>3, <1>4, <1>5, <2>2, <3>1
  <2>3. CASE q # r
    <3>1. Unseen(q)' <=> Unseen(q)
      BY <1>7, <2>3 DEF Unseen
    <3>2. maps'[q] = maps[q] /\ (q \in foreign' <=> q \in foreign) /\ maps[q] \in Nat
      BY <1>2, <1>4, <2>3
    <3> QED
      BY <1>3, <1>7, <2>1, <2>3, <3>1, <3>2
  <2> QED
    BY <2>2, <2>3
<1>12. JobInv'
  BY <1>1, <1>2, <1>3, <1>7, JobKept
<1>13. \A q \in Requests : q[2] # 0 /\ status[q] = "unsent" => status'[q] = "unsent"
  BY <1>6, <1>7
<1>14. MainInv' /\ FlowInv' /\ OutInv' /\ CollectInv' /\ EndInv'
  BY <1>2, <1>3, <1>7, <1>13, ServerKeeps
<1> QED
  BY <1>9, <1>10, <1>11, <1>12, <1>14 DEF BenchInv

LEMMA ResendKeeps ==
  ASSUME BenchInv, NEW r \in Requests, Resend(r)
  PROVE  BenchInv'
<1>1. TypeOK /\ Typed /\ RequestInv /\ JobInv
  BY DEF BenchInv
<1>2. /\ server = "up" /\ status[r] = "running" /\ Fault /\ maps' = [maps EXCEPT ![r] = @ + 1]
      /\ UNCHANGED clientVars /\ status' = status /\ foreign' = foreign
      /\ server' = server /\ UNCHANGED jobVars /\ audit' = audit
  BY DEF Resend
<1>3. /\ faults' \in 0..MaxFaults /\ faults' \in Nat /\ faults' > faults /\ faults' = faults + 1
      /\ faults \in Nat /\ faults' # 0
  BY <1>1, <1>2, FaultFacts, Config DEF Fault
<1>4. maps \in [Requests -> 0..(MaxFaults + 1)] /\ MaxFaults \in Nat
  BY <1>1, Config DEF TypeOK
<1>5. \A q \in Requests : maps[q] <= faults + 1
  BY <1>1 DEF RequestInv
<1>6. /\ maps' \in [Requests -> 0..(MaxFaults + 1)]
      /\ \A q \in Requests : maps'[q] <= faults' + 1 /\ (q # r => maps'[q] = maps[q])
  <2>1. maps[r] + 1 \in 0..(MaxFaults + 1) /\ maps[r] + 1 <= faults' + 1
    BY <1>3, <1>4, <1>5
  <2>2. \A q \in Requests : maps[q] <= faults' + 1
    BY <1>3, <1>4, <1>5
  <2> QED
    BY <1>2, <1>4, <2>1, <2>2
<1>7. TypeOK'
  BY <1>1, <1>2, <1>3, <1>6 DEF TypeOK, clientVars, jobVars
<1>8. Typed'
  BY <1>1, <1>2 DEF Typed, clientVars, jobVars
<1>9. RequestInv'
  <2> SUFFICES ASSUME NEW q \in Requests
               PROVE  /\ Unseen(q)' => maps'[q] = 0 /\ q \notin foreign'
                      /\ maps'[q] <= faults' + 1
    BY <1>3 DEF RequestInv
  <2>1. Unseen(q) => maps[q] = 0 /\ q \notin foreign
    BY <1>1 DEF RequestInv
  <2>2. Unseen(q)' => Unseen(q) /\ q # r
    BY <1>2 DEF Unseen
  <2> QED
    BY <1>2, <1>6, <2>1, <2>2
<1>10. JobInv'
  BY <1>1, <1>2, <1>3, JobKept DEF Unseen
<1>11. MainInv' /\ FlowInv' /\ OutInv' /\ CollectInv' /\ EndInv'
  BY <1>2, <1>3, ServerKeeps DEF Back
<1> QED
  BY <1>7, <1>8, <1>9, <1>10, <1>11 DEF BenchInv

\* A request that comes back or fails
LEMMA EndedKeeps ==
  ASSUME BenchInv, NEW r \in Requests, NEW v \in {"text", "blank", "failed"},
         Alive, status[r] \in {"sent", "running"}, status' = [status EXCEPT ![r] = v],
         IF v = "text" THEN faults' = faults /\ status[r] = "running" ELSE Fault,
         UNCHANGED <<clientVars, maps, foreign, server, jobVars, audit>>
  PROVE  BenchInv'
<1>1. TypeOK /\ Typed /\ RequestInv /\ JobInv /\ EndInv
  BY DEF BenchInv
<1>2. /\ UNCHANGED clientVars /\ maps' = maps /\ foreign' = foreign
      /\ server' = server /\ UNCHANGED jobVars /\ audit' = audit
  OBVIOUS
<1>3. /\ faults' \in 0..MaxFaults /\ faults' \in Nat /\ faults' >= faults /\ faults \in Nat
      /\ v # "text" => faults' # 0
  BY <1>1, FaultFacts, Config DEF TypeOK
<1>4. server = "up"
  BY <1>1 DEF EndInv
<1>5. ~Back(r) /\ status[r] # "unsent"
  BY DEF Back
<1>6. /\ status' \in [Requests -> {"unsent", "sent", "running", "text", "blank", "failed"}]
      /\ status'[r] = v /\ \A q \in Requests : q # r => status'[q] = status[q]
      /\ \A q \in Requests : Back(q) => Back(q)'
      /\ \A q \in Requests : ~Unseen(q) => ~Unseen(q)'
  BY <1>1, <1>5, StatusMoves
<1>7. TypeOK'
  BY <1>1, <1>2, <1>3, <1>6 DEF TypeOK, clientVars, jobVars
<1>8. Typed'
  BY <1>1, <1>2 DEF Typed, clientVars, jobVars
<1>9. RequestInv'
  <2> SUFFICES ASSUME NEW q \in Requests
               PROVE  /\ Unseen(q)' => maps'[q] = 0 /\ q \notin foreign'
                      /\ maps'[q] <= faults' + 1
                      /\ faults' = 0 => /\ q \notin foreign' /\ status'[q] \notin {"failed", "blank"}
                                        /\ status'[q] \in {"running", "text"} => maps'[q] = 1
    BY DEF RequestInv
  <2>1. /\ Unseen(q) => maps[q] = 0 /\ q \notin foreign
        /\ maps[q] <= faults + 1
        /\ faults = 0 => /\ q \notin foreign /\ status[q] \notin {"failed", "blank"}
                         /\ status[q] \in {"running", "text"} => maps[q] = 1
    BY <1>1 DEF RequestInv
  <2>2. Unseen(q)' => Unseen(q)
    BY <1>6 DEF Unseen
  <2>3. maps[q] \in Nat
    BY <1>1, Config DEF TypeOK
  <2>4. faults' = 0 => faults = 0 /\ v = "text" /\ status[r] = "running"
    BY <1>3
  <2> QED
    BY <1>2, <1>3, <1>6, <2>1, <2>2, <2>3, <2>4
<1>10. JobInv'
  BY <1>1, <1>2, <1>3, <1>6, JobKept
<1>11. \A q \in Requests : q[2] # 0 /\ status[q] = "unsent" => status'[q] = "unsent"
  BY <1>5, <1>6
<1>12. MainInv' /\ FlowInv' /\ OutInv' /\ CollectInv' /\ EndInv'
  BY <1>2, <1>3, <1>4, <1>6, <1>11, ServerKeeps
<1> QED
  BY <1>7, <1>8, <1>9, <1>10, <1>12 DEF BenchInv

LEMMA AnswerKeeps ==
  ASSUME BenchInv, NEW r \in Requests, Answer(r)
  PROVE  BenchInv'
<1>1. CASE status' = [status EXCEPT ![r] = "text"] /\ UNCHANGED faults
  BY <1>1, EndedKeeps DEF Answer
<1>2. CASE Fault /\ status' = [status EXCEPT ![r] = "blank"]
  BY <1>2, EndedKeeps DEF Answer
<1> QED
  BY <1>1, <1>2 DEF Answer

LEMMA FailKeeps ==
  ASSUME BenchInv, NEW r \in Requests, Fail(r)
  PROVE  BenchInv'
  BY EndedKeeps DEF Fail

-----------------------------------------------------------------------------
(* The tier jobs *)

LEMMA RowsFacts ==
  ASSUME NEW file \in [1..MaxJobs -> Nat], NEW X
  PROVE  /\ WithRows(file, X) \in [1..MaxJobs -> Nat]
         /\ \A j \in 1..MaxJobs : WithRows(file, X)[j] = file[j] + IF j \in X THEN 1 ELSE 0
  BY DEF WithRows

\* A step of the tier disturbs its jobs only.
LEMMA JobsOnly ==
  ASSUME BenchInv, UNCHANGED <<clientVars, status, maps, foreign, server, audit>>,
         server \in {"up", "stopping"}, faults' \in 0..MaxFaults, faults' >= faults,
         jobs' \in Seq([req : Requests, local : BOOLEAN, done : BOOLEAN]), Len(jobs') <= MaxJobs,
         returned' \subseteq pending', pending' \subseteq DOMAIN jobs',
         engineRows' \in [1..MaxJobs -> Nat], ledger' \in [1..MaxJobs -> Nat],
         \A j \in 1..MaxJobs :
           /\ ledger'[j] = IF j \in DOMAIN jobs' \ pending' THEN 1 ELSE 0
           /\ engineRows'[j] > 0 => j \in DOMAIN jobs' /\ (j \in pending' => j \in returned'),
         \A j \in DOMAIN jobs' : ~Unseen(jobs'[j].req)
  PROVE  BenchInv'
<1>1. TypeOK /\ Typed /\ RequestInv
  BY DEF BenchInv
<1>2. /\ UNCHANGED clientVars /\ status' = status /\ maps' = maps /\ foreign' = foreign
      /\ server' = server /\ audit' = audit /\ faults' \in Nat
  BY Config
<1>3. TypeOK'
  BY <1>1, <1>2 DEF TypeOK, clientVars
<1>4. Typed'
  BY <1>1, <1>2 DEF Typed, clientVars
<1>5. RequestInv'
  BY <1>1, <1>2, RequestKept
<1>6. JobInv'
  BY <1>2 DEF JobInv, Unseen
<1>7. MainInv' /\ FlowInv' /\ OutInv' /\ CollectInv' /\ EndInv'
  BY <1>2, ServerKeeps DEF Back
<1> QED
  BY <1>3, <1>4, <1>5, <1>6, <1>7 DEF BenchInv

\* What the steps of the tier start from
LEMMA JobFacts ==
  ASSUME BenchInv
  PROVE  /\ jobs \in Seq([req : Requests, local : BOOLEAN, done : BOOLEAN])
         /\ Len(jobs) \in Nat /\ DOMAIN jobs = 1..Len(jobs) /\ Len(jobs) <= MaxJobs /\ MaxJobs \in Nat
         /\ DOMAIN jobs \subseteq 1..MaxJobs
         /\ returned \subseteq pending /\ pending \subseteq DOMAIN jobs
         /\ engineRows \in [1..MaxJobs -> Nat] /\ ledger \in [1..MaxJobs -> Nat]
         /\ \A j \in 1..MaxJobs :
              /\ ledger[j] = IF j \in DOMAIN jobs \ pending THEN 1 ELSE 0
              /\ engineRows[j] > 0 => j \in DOMAIN jobs /\ (j \in pending => j \in returned)
         /\ \A j \in DOMAIN jobs : jobs[j].req \in Requests /\ ~Unseen(jobs[j].req)
         /\ faults \in 0..MaxFaults /\ faults \in Nat
         /\ Fault => faults' \in 0..MaxFaults /\ faults' >= faults
<1>1. TypeOK /\ Typed /\ JobInv
  BY DEF BenchInv
<1>2. Len(jobs) \in Nat /\ DOMAIN jobs = 1..Len(jobs) /\ \A j \in DOMAIN jobs : jobs[j].req \in Requests
  BY <1>1, JobTypes
<1>3. Len(jobs) <= MaxJobs /\ MaxJobs \in Nat
  BY <1>1, Config DEF Typed
<1>4. DOMAIN jobs \subseteq 1..MaxJobs
  BY <1>2, <1>3
<1>5. faults \in 0..MaxFaults /\ faults \in Nat
  BY <1>1, FaultFacts DEF TypeOK
<1>6. Fault => faults' \in 0..MaxFaults /\ faults' >= faults
  BY <1>1, <1>5, FaultFacts
<1> QED
  BY <1>1, <1>2, <1>3, <1>4, <1>5, <1>6 DEF TypeOK, Typed, JobInv

LEMMA SubmitJobKeeps ==
  ASSUME BenchInv, NEW r \in Requests, SubmitJob(r)
  PROVE  BenchInv'
<1> DEFINE Job == [req : Requests, local : BOOLEAN, done : BOOLEAN]
<1>1. /\ server = "up" /\ status[r] \in {"running", "text", "blank"} /\ Len(jobs) < MaxJobs
      /\ pending' = pending \cup {Len(jobs) + 1} /\ returned' = returned /\ engineRows' = engineRows
      /\ ledger' = ledger /\ faults' = faults
      /\ UNCHANGED <<clientVars, status, maps, foreign, server, audit>>
  BY DEF SubmitJob
<1>2. PICK local \in BOOLEAN : jobs' = Append(jobs, [req |-> r, local |-> local, done |-> local])
  BY DEF SubmitJob
<1> DEFINE new == [req |-> r, local |-> local, done |-> local]
<1>3. new \in Job /\ jobs' = Append(jobs, new) /\ new.req = r /\ jobs \in Seq(Job)
  BY <1>2, JobFacts
<1> HIDE DEF Job, new
<1>4. /\ jobs' \in Seq(Job) /\ Len(jobs') = Len(jobs) + 1 /\ DOMAIN jobs' = 1..(Len(jobs) + 1)
      /\ jobs'[Len(jobs) + 1] = new /\ \A j \in DOMAIN jobs : jobs'[j] = jobs[j]
  BY <1>3, JobFacts
<1>5. Len(jobs') <= MaxJobs /\ DOMAIN jobs' = DOMAIN jobs \cup {Len(jobs) + 1} /\ Len(jobs) + 1 \notin DOMAIN jobs
  BY <1>1, <1>4, JobFacts
<1>6. returned' \subseteq pending' /\ pending' \subseteq DOMAIN jobs'
  BY <1>1, <1>5, JobFacts
<1>7. ASSUME NEW j \in 1..MaxJobs
      PROVE  /\ ledger'[j] = IF j \in DOMAIN jobs' \ pending' THEN 1 ELSE 0
             /\ engineRows'[j] > 0 => j \in DOMAIN jobs' /\ (j \in pending' => j \in returned')
  <2>1. j \in DOMAIN jobs' \ pending' <=> j \in DOMAIN jobs \ pending
    BY <1>1, <1>5
  <2>2. ledger[j] = IF j \in DOMAIN jobs \ pending THEN 1 ELSE 0
    BY JobFacts
  <2>3. engineRows[j] > 0 => j \in DOMAIN jobs /\ (j \in pending => j \in returned)
    BY JobFacts
  <2>4. ledger'[j] = IF j \in DOMAIN jobs' \ pending' THEN 1 ELSE 0
    BY <1>1, <2>1, <2>2
  <2> QED
    BY <1>1, <1>5, <2>3, <2>4
<1>8. ASSUME NEW j \in DOMAIN jobs' PROVE ~Unseen(jobs'[j].req)
  <2>1. CASE j \in DOMAIN jobs
    BY <1>4, <2>1, JobFacts
  <2>2. CASE j = Len(jobs) + 1
    BY <1>1, <1>3, <1>4, <2>2 DEF Unseen
  <2> QED
    BY <1>5, <2>1, <2>2
<1>9. faults' \in 0..MaxFaults /\ faults' >= faults
  BY <1>1, JobFacts
<1>10. engineRows' \in [1..MaxJobs -> Nat] /\ ledger' \in [1..MaxJobs -> Nat]
  BY <1>1, JobFacts
<1> QED
  BY <1>1, <1>4, <1>5, <1>6, <1>7, <1>8, <1>9, <1>10, JobsOnly DEF Job

LEMMA FinishJobKeeps ==
  ASSUME BenchInv, NEW j \in 1..MaxJobs, FinishJob(j)
  PROVE  BenchInv'
<1> DEFINE Job == [req : Requests, local : BOOLEAN, done : BOOLEAN]
<1>1. /\ server \in {"up", "stopping"} /\ j \in DOMAIN jobs /\ jobs' = [jobs EXCEPT ![j].done = TRUE]
      /\ pending' = pending /\ returned' = returned /\ engineRows' = engineRows
      /\ ledger' = ledger /\ faults' = faults
      /\ UNCHANGED <<clientVars, status, maps, foreign, server, audit>>
  BY DEF FinishJob
<1> DEFINE new == [jobs[j] EXCEPT !.done = TRUE]
<1>2. jobs[j] \in Job
  BY <1>1, JobTypes DEF BenchInv
<1>3. new \in Job /\ new.req = jobs[j].req /\ jobs' = [jobs EXCEPT ![j] = new] /\ jobs \in Seq(Job)
  BY <1>1, <1>2, JobFacts
<1> HIDE DEF Job, new
<1>4. /\ jobs' \in Seq(Job) /\ Len(jobs') = Len(jobs) /\ DOMAIN jobs' = DOMAIN jobs
      /\ \A i \in DOMAIN jobs : jobs'[i] = IF i = j THEN new ELSE jobs[i]
  <2>1. j \in 1..Len(jobs) /\ DOMAIN jobs = 1..Len(jobs)
    BY <1>1, JobFacts
  <2>2. [jobs EXCEPT ![j] = new] \in Seq(Job) /\ Len([jobs EXCEPT ![j] = new]) = Len(jobs)
    BY <1>3, <2>1, ExceptSeq
  <2>3. \A i \in DOMAIN jobs : [jobs EXCEPT ![j] = new][i] = IF i = j THEN new ELSE jobs[i]
    OBVIOUS
  <2> QED
    BY <1>3, <2>1, <2>2, <2>3
<1>5. \A i \in DOMAIN jobs' : ~Unseen(jobs'[i].req)
  BY <1>1, <1>3, <1>4, JobFacts
<1>6. faults' \in 0..MaxFaults /\ faults' >= faults
  BY <1>1, JobFacts
<1>7. Len(jobs') <= MaxJobs /\ returned' \subseteq pending' /\ pending' \subseteq DOMAIN jobs'
      /\ engineRows' \in [1..MaxJobs -> Nat] /\ ledger' \in [1..MaxJobs -> Nat]
  BY <1>1, <1>4, JobFacts
<1>8. \A i \in 1..MaxJobs :
        /\ ledger'[i] = IF i \in DOMAIN jobs' \ pending' THEN 1 ELSE 0
        /\ engineRows'[i] > 0 => i \in DOMAIN jobs' /\ (i \in pending' => i \in returned')
  BY <1>1, <1>4, JobFacts
<1> QED
  BY <1>1, <1>4, <1>5, <1>6, <1>7, <1>8, JobsOnly DEF Job

LEMMA PollKeeps ==
  ASSUME BenchInv, Poll
  PROVE  BenchInv'
<1>1. /\ server \in {"up", "stopping"} /\ returned = {} /\ returned' = Ready
      /\ \/ engineRows' = WithRows(engineRows, OfEngine(Ready)) /\ faults' = faults
         \/ Fault /\ engineRows' = engineRows
      /\ jobs' = jobs /\ pending' = pending /\ ledger' = ledger
      /\ UNCHANGED <<clientVars, status, maps, foreign, server, audit>>
  BY DEF Poll
<1>2. OfEngine(Ready) \subseteq Ready /\ Ready \subseteq pending
  BY DEF OfEngine, Ready
<1>3. faults' \in 0..MaxFaults /\ faults' >= faults
  BY <1>1, JobFacts
<1>4. /\ engineRows' \in [1..MaxJobs -> Nat]
      /\ \A j \in 1..MaxJobs : engineRows'[j] > 0 => engineRows[j] > 0 \/ j \in Ready
  <2>1. engineRows \in [1..MaxJobs -> Nat]
    BY JobFacts
  <2>2. CASE engineRows' = engineRows
    BY <2>1, <2>2
  <2>3. CASE engineRows' = WithRows(engineRows, OfEngine(Ready))
    <3>1. /\ engineRows' \in [1..MaxJobs -> Nat]
          /\ \A j \in 1..MaxJobs : engineRows'[j] = engineRows[j] + IF j \in OfEngine(Ready) THEN 1 ELSE 0
      <4>1. PICK X : X = OfEngine(Ready)
        OBVIOUS
      <4>2. engineRows' = WithRows(engineRows, X)
        BY <2>3, <4>1
      <4> HIDE <4>1
      <4>3. /\ WithRows(engineRows, X) \in [1..MaxJobs -> Nat]
            /\ \A j \in 1..MaxJobs : WithRows(engineRows, X)[j] = engineRows[j] + IF j \in X THEN 1 ELSE 0
        BY <2>1, RowsFacts
      <4> QED
        BY <4>1, <4>2, <4>3
    <3>2. \A j \in 1..MaxJobs : engineRows[j] \in Nat
      BY <2>1
    <3> QED
      BY <1>2, <3>1, <3>2
  <2> QED
    BY <1>1, <2>2, <2>3
<1>5. \A j \in 1..MaxJobs :
        /\ ledger'[j] = IF j \in DOMAIN jobs' \ pending' THEN 1 ELSE 0
        /\ engineRows'[j] > 0 => j \in DOMAIN jobs' /\ (j \in pending' => j \in returned')
  BY <1>1, <1>2, <1>4, JobFacts
<1>6. \A i \in DOMAIN jobs' : ~Unseen(jobs'[i].req)
  BY <1>1, JobFacts
<1>7. /\ jobs' \in Seq([req : Requests, local : BOOLEAN, done : BOOLEAN]) /\ Len(jobs') <= MaxJobs
      /\ returned' \subseteq pending' /\ pending' \subseteq DOMAIN jobs'
      /\ ledger' \in [1..MaxJobs -> Nat]
  BY <1>1, <1>2, JobFacts
<1> QED
  BY <1>1, <1>3, <1>4, <1>5, <1>6, <1>7, JobsOnly

LEMMA RecordKeeps ==
  ASSUME BenchInv, NEW j \in 1..MaxJobs, Record(j)
  PROVE  BenchInv'
<1>1. /\ server \in {"up", "stopping"} /\ j \in returned
      /\ returned' = returned \ {j} /\ pending' = pending \ {j}
      /\ ledger' = WithRows(ledger, {j} \cap pending)
      /\ jobs' = jobs /\ engineRows' = engineRows /\ faults' = faults
      /\ UNCHANGED <<clientVars, status, maps, foreign, server, audit>>
  BY DEF Record
<1>2. j \in pending /\ j \in DOMAIN jobs /\ {j} \cap pending = {j}
  BY <1>1, JobFacts
<1>3. /\ ledger' \in [1..MaxJobs -> Nat]
      /\ \A i \in 1..MaxJobs : ledger'[i] = ledger[i] + IF i \in {j} THEN 1 ELSE 0
  BY <1>1, <1>2, JobFacts, RowsFacts
<1>4. ASSUME NEW i \in 1..MaxJobs
      PROVE  /\ ledger'[i] = IF i \in DOMAIN jobs' \ pending' THEN 1 ELSE 0
             /\ engineRows'[i] > 0 => i \in DOMAIN jobs' /\ (i \in pending' => i \in returned')
  <2>1. ledger[i] = IF i \in DOMAIN jobs \ pending THEN 1 ELSE 0
    BY JobFacts
  <2>2. engineRows[i] > 0 => i \in DOMAIN jobs /\ (i \in pending => i \in returned)
    BY JobFacts
  <2>3. ledger'[i] = IF i \in DOMAIN jobs' \ pending' THEN 1 ELSE 0
    <3>1. CASE i = j
      <4>1. ledger[i] = 0 /\ ledger'[i] = ledger[i] + 1
        BY <1>2, <1>3, <2>1, <3>1
      <4> QED
        BY <1>1, <1>2, <3>1, <4>1
    <3>2. CASE i # j
      <4>1. ledger'[i] = ledger[i] + 0 /\ ledger[i] \in Nat
        BY <1>3, <3>2, JobFacts
      <4> QED
        BY <1>1, <2>1, <3>2, <4>1
    <3> QED
      BY <3>1, <3>2
  <2> QED
    BY <1>1, <2>2, <2>3
<1>5. \A i \in DOMAIN jobs' : ~Unseen(jobs'[i].req)
  BY <1>1, JobFacts
<1>6. /\ jobs' \in Seq([req : Requests, local : BOOLEAN, done : BOOLEAN]) /\ Len(jobs') <= MaxJobs
      /\ returned' \subseteq pending' /\ pending' \subseteq DOMAIN jobs'
      /\ engineRows' \in [1..MaxJobs -> Nat] /\ faults' \in 0..MaxFaults /\ faults' >= faults
  BY <1>1, JobFacts
<1> QED
  BY <1>1, <1>3, <1>4, <1>5, <1>6, JobsOnly

-----------------------------------------------------------------------------
(* The end of the group *)

LEMMA StopServeKeeps ==
  ASSUME BenchInv, StopServe
  PROVE  BenchInv'
<1>1. TypeOK /\ Typed /\ RequestInv /\ JobInv /\ EndInv
  BY DEF BenchInv
<1>2. /\ ~Alive /\ server = "up" /\ server' = "stopping"
      /\ UNCHANGED clientVars /\ status' = status /\ maps' = maps /\ foreign' = foreign
      /\ UNCHANGED jobVars /\ audit' = audit /\ faults' = faults
  BY DEF StopServe
<1>3. faults' \in Nat /\ faults' >= faults
  BY <1>1, <1>2, FaultFacts
<1>4. TypeOK' /\ Typed'
  BY <1>1, <1>2 DEF TypeOK, Typed, clientVars, jobVars
<1>5. RequestInv'
  BY <1>1, <1>2, <1>3, RequestKept
<1>6. JobInv'
  BY <1>1, <1>2, <1>3, JobKept DEF Unseen
<1>7. MainInv' /\ FlowInv' /\ OutInv' /\ CollectInv'
  BY <1>2, <1>3, ClientKeeps DEF Back
<1>8. EndInv'
  BY <1>1, <1>2 DEF EndInv, Alive, Rounded, Late, clientVars
<1> QED
  BY <1>4, <1>5, <1>6, <1>7, <1>8 DEF BenchInv

\* The last harvest records every job that is still stashed.
LEMMA ShutDownKeeps ==
  ASSUME BenchInv, ShutDown
  PROVE  BenchInv'
<1>1. TypeOK /\ Typed /\ RequestInv /\ JobInv /\ EndInv
  BY DEF BenchInv
<1>2. /\ server = "stopping" /\ returned = {} /\ \A j \in DOMAIN jobs : jobs[j].done
      /\ server' = "stopped" /\ engineRows' = WithRows(engineRows, OfEngine(Ready))
      /\ ledger' = WithRows(ledger, Ready) /\ pending' = pending \ Ready
      /\ UNCHANGED clientVars /\ status' = status /\ maps' = maps /\ foreign' = foreign
      /\ jobs' = jobs /\ returned' = returned /\ audit' = audit /\ faults' = faults
  BY DEF ShutDown
<1>3. faults' \in Nat /\ faults' >= faults
  BY <1>1, <1>2, FaultFacts
<1>4. Ready = pending /\ pending' = {} /\ returned' = {}
  BY <1>2, JobFacts DEF Ready
<1>5. /\ ledger' \in [1..MaxJobs -> Nat]
      /\ \A j \in 1..MaxJobs : ledger'[j] = ledger[j] + IF j \in pending THEN 1 ELSE 0
  BY <1>2, <1>4, JobFacts, RowsFacts
<1>6. /\ engineRows' \in [1..MaxJobs -> Nat]
      /\ \A j \in 1..MaxJobs : engineRows'[j] > 0 => j \in DOMAIN jobs
  <2>1. PICK X : X = OfEngine(Ready)
    OBVIOUS
  <2>2. engineRows' = WithRows(engineRows, X) /\ engineRows \in [1..MaxJobs -> Nat]
    BY <1>2, <2>1, JobFacts
  <2>3. X \subseteq DOMAIN jobs
    BY <1>4, <2>1, JobFacts DEF OfEngine
  <2> HIDE <2>1
  <2>4. /\ WithRows(engineRows, X) \in [1..MaxJobs -> Nat]
        /\ \A j \in 1..MaxJobs : WithRows(engineRows, X)[j] = engineRows[j] + IF j \in X THEN 1 ELSE 0
    BY <2>2, RowsFacts
  <2>5. \A j \in 1..MaxJobs : engineRows[j] \in Nat /\ (engineRows[j] > 0 => j \in DOMAIN jobs)
    BY <2>2, JobFacts
  <2> QED
    BY <2>2, <2>3, <2>4, <2>5
<1>7. ASSUME NEW j \in 1..MaxJobs PROVE ledger'[j] = IF j \in DOMAIN jobs THEN 1 ELSE 0
  <2>1. ledger[j] = IF j \in DOMAIN jobs \ pending THEN 1 ELSE 0
    BY JobFacts
  <2>2. CASE j \in pending
    <3>1. ledger[j] = 0 /\ ledger'[j] = ledger[j] + 1 /\ j \in DOMAIN jobs
      BY <1>5, <2>1, <2>2, JobFacts
    <3> QED
      BY <3>1
  <2>3. CASE j \notin pending
    <3>1. ledger'[j] = ledger[j] + 0 /\ ledger[j] \in Nat
      BY <1>5, <2>3, JobFacts
    <3> QED
      BY <2>1, <2>3, <3>1
  <2> QED
    BY <2>2, <2>3
<1>8. TypeOK' /\ Typed'
  <2>1. TypeOK'
    BY <1>1, <1>2, <1>4 DEF TypeOK, clientVars
  <2>2. Typed'
    BY <1>1, <1>2, <1>5, <1>6 DEF Typed, clientVars
  <2> QED
    BY <2>1, <2>2
<1>9. RequestInv'
  BY <1>1, <1>2, <1>3, RequestKept
<1>10. JobInv'
  <2>1. \A j \in DOMAIN jobs : ~Unseen(jobs[j].req)'
    BY <1>1, <1>2 DEF JobInv, Unseen
  <2> QED
    BY <1>2, <1>4, <1>6, <1>7, <2>1 DEF JobInv, Unseen
<1>11. MainInv' /\ FlowInv' /\ OutInv' /\ CollectInv'
  BY <1>2, <1>3, ClientKeeps DEF Back
<1>12. EndInv'
  BY <1>1, <1>2 DEF EndInv, Alive, Rounded, Late, clientVars
<1> QED
  BY <1>8, <1>9, <1>10, <1>11, <1>12 DEF BenchInv

LEMMA KillKeeps ==
  ASSUME BenchInv, Kill
  PROVE  BenchInv'
<1>1. TypeOK /\ Typed /\ RequestInv /\ JobInv /\ EndInv
  BY DEF BenchInv
<1>2. /\ server = "stopping" /\ Fault /\ server' = "killed"
      /\ UNCHANGED clientVars /\ status' = status /\ maps' = maps /\ foreign' = foreign
      /\ UNCHANGED jobVars /\ audit' = audit
  BY DEF Kill
<1>3. faults' \in Nat /\ faults' >= faults /\ faults' # 0 /\ faults' \in 0..MaxFaults
  BY <1>1, <1>2, FaultFacts
<1>4. TypeOK' /\ Typed'
  BY <1>1, <1>2, <1>3 DEF TypeOK, Typed, clientVars, jobVars
<1>5. RequestInv'
  BY <1>1, <1>2, <1>3, RequestKept
<1>6. JobInv'
  <2>1. jobs' = jobs /\ pending' = pending /\ returned' = returned /\ engineRows' = engineRows /\ ledger' = ledger
    BY <1>2 DEF jobVars
  <2>2. server' = "killed" => faults' > 0
    BY <1>3
  <2>3. server' # "stopped"
    BY <1>2
  <2>4. \A j \in DOMAIN jobs : ~Unseen(jobs[j].req)'
    BY <1>1, <1>2, <2>1 DEF JobInv, Unseen
  <2> QED
    BY <1>1, <2>1, <2>2, <2>3, <2>4 DEF JobInv, Unseen
<1>7. MainInv' /\ FlowInv' /\ OutInv' /\ CollectInv'
  BY <1>2, <1>3, ClientKeeps DEF Back
<1>8. EndInv'
  BY <1>1, <1>2, <1>3 DEF EndInv, Alive, Rounded, clientVars
<1> QED
  BY <1>4, <1>5, <1>6, <1>7, <1>8 DEF BenchInv

LEMMA AuditKeeps ==
  ASSUME BenchInv, Audit
  PROVE  BenchInv'
<1>1. TypeOK /\ Typed /\ RequestInv /\ JobInv /\ EndInv
  BY DEF BenchInv
<1>2. /\ main.pc = "written" /\ server \in {"stopped", "killed"} /\ audit' = AuditGroup
      /\ UNCHANGED clientVars /\ status' = status /\ maps' = maps /\ foreign' = foreign
      /\ server' = server /\ UNCHANGED jobVars /\ faults' = faults
  BY DEF Audit
<1>3. faults' \in Nat /\ faults' >= faults
  BY <1>1, <1>2, FaultFacts
<1>4. AuditGroup \in {"PASS", "FAIL"}
  BY DEF AuditGroup
<1>5. TypeOK' /\ Typed'
  <2>1. TypeOK'
    BY <1>1, <1>2, <1>4 DEF TypeOK, clientVars, jobVars
  <2>2. Typed'
    BY <1>1, <1>2 DEF Typed, clientVars, jobVars
  <2> QED
    BY <2>1, <2>2
<1>6. RequestInv'
  BY <1>1, <1>2, <1>3, RequestKept
<1>7. JobInv'
  BY <1>1, <1>2, <1>3, JobKept DEF Unseen
<1>8. MainInv' /\ FlowInv' /\ OutInv' /\ CollectInv'
  BY <1>2, <1>3, ClientKeeps DEF Back
<1>9. EndInv'
  <2>1. AuditGroup' = AuditGroup
    BY <1>2 DEF AuditGroup, SamplesJoin, JobsJoin, Recorded, Sampled, clientVars, jobVars
  <2>2. main' = main /\ flow' = flow /\ kept' = kept /\ out' = out
    BY <1>2 DEF clientVars
  <2>3. main'.pc = "written" => Rounded'
    BY <1>1, <2>2 DEF EndInv, Rounded
  <2>4. server' # "up" => ~Alive'
    BY <1>2, <2>2 DEF Alive
  <2> QED
    BY <1>2, <2>1, <2>2, <2>3, <2>4 DEF EndInv
<1> QED
  BY <1>5, <1>6, <1>7, <1>8, <1>9 DEF BenchInv

-----------------------------------------------------------------------------
(* The flows *)

\* The steps of a flow, while the main thread stays where it is
LEMMA FlowsOnly ==
  ASSUME BenchInv, Alive, UNCHANGED <<main, tagged, out, maps, foreign, server, jobVars, audit, faults>>,
         flow' \in [Threads -> {"off", "check", "sent", "dead", "done"}],
         kept' \in [Threads -> Seq(Requests)], FlowInv',
         \A t \in Threads : DOMAIN kept[t] \subseteq DOMAIN kept'[t] /\ Len(kept'[t]) >= Len(kept[t]),
         status' \in [Requests -> {"unsent", "sent", "running", "text", "blank", "failed"}],
         \A r \in Requests : status'[r] = status[r] \/ (status[r] = "unsent" /\ status'[r] = "sent")
  PROVE  BenchInv'
<1>1. TypeOK /\ Typed /\ MainInv /\ RequestInv /\ OutInv /\ CollectInv /\ JobInv /\ EndInv
  BY DEF BenchInv
<1>2. /\ main' = main /\ tagged' = tagged /\ out' = out /\ maps' = maps /\ foreign' = foreign
      /\ server' = server /\ UNCHANGED jobVars /\ audit' = audit /\ faults' = faults
  OBVIOUS
<1>3. \A r \in Requests : (Back(r) => Back(r)') /\ (Unseen(r)' <=> Unseen(r))
  BY DEF Back, Unseen
<1>4. TypeOK'
  <2>1. \A t \in Threads : tagged[t] <= Len(kept'[t]) /\ Range(kept'[t]) \subseteq Requests
    <3> SUFFICES ASSUME NEW t \in Threads
                 PROVE  tagged[t] <= Len(kept'[t]) /\ Range(kept'[t]) \subseteq Requests
      OBVIOUS
    <3>1. tagged[t] <= Len(kept[t]) /\ tagged[t] \in Nat /\ kept[t] \in Seq(Requests) /\ kept'[t] \in Seq(Requests)
      BY <1>1 DEF TypeOK, Typed
    <3>2. Len(kept[t]) \in Nat /\ Len(kept'[t]) \in Nat
      BY <3>1
    <3>3. Range(kept'[t]) \subseteq Requests
      BY <3>1 DEF Range
    <3> QED
      BY <3>1, <3>2, <3>3
  <2> QED
    BY <1>1, <1>2, <2>1 DEF TypeOK, jobVars
<1>5. Typed'
  BY <1>1, <1>2 DEF Typed, jobVars
<1>6. MainInv'
  BY <1>1, <1>2 DEF MainInv
<1>7. RequestInv'
  <2> SUFFICES ASSUME NEW q \in Requests
               PROVE  /\ Unseen(q)' => maps'[q] = 0 /\ q \notin foreign'
                      /\ maps'[q] <= faults' + 1
                      /\ faults' = 0 => /\ q \notin foreign' /\ status'[q] \notin {"failed", "blank"}
                                        /\ status'[q] \in {"running", "text"} => maps'[q] = 1
    BY DEF RequestInv
  <2>1. /\ Unseen(q) => maps[q] = 0 /\ q \notin foreign
        /\ maps[q] <= faults + 1
        /\ faults = 0 => /\ q \notin foreign /\ status[q] \notin {"failed", "blank"}
                         /\ status[q] \in {"running", "text"} => maps[q] = 1
    BY <1>1 DEF RequestInv
  <2> QED
    BY <1>2, <1>3, <2>1
<1>8. OutInv'
  BY <1>1, <1>2, <1>3, OutKept
<1>9. CollectInv'
  <2>1. \A s \in Steps, n \in Nat : Collected(s, n)' <=> Collected(s, n)
    BY <1>2 DEF Collected
  <2>2. \A t \in Threads : Copied(t) => Copied(t)'
    BY <1>2 DEF Copied
  <2> QED
    BY <1>1, <1>2, <2>1, <2>2, CollectKept
<1>10. JobInv'
  <2>1. faults' \in Nat /\ faults' >= faults
    BY <1>1, <1>2, FaultFacts
  <2> QED
    BY <1>1, <1>2, <1>3, <2>1, JobKept
<1>11. EndInv'
  <2>1. Alive'
    BY <1>2 DEF Alive
  <2> QED
    BY <1>1, <1>2, <2>1, EndAlive
<1> QED
  BY <1>4, <1>5, <1>6, <1>7, <1>8, <1>9, <1>10, <1>11 DEF BenchInv

\* The state of one flow, opened up
LEMMA FlowFacts ==
  ASSUME TypeOK, Typed, FlowInv, NEW t \in Threads
  PROVE  /\ kept[t] \in Seq(Requests) /\ Len(kept[t]) \in Nat /\ DOMAIN kept[t] = 1..Len(kept[t])
         /\ Len(kept[t]) <= MaxFlow /\ MaxFlow \in Nat
         /\ t = <<t[1], t[2]>> /\ t[1] \in Nat /\ t[2] # 0
         /\ Len(kept[t]) < MaxFlow => Current(t) \in Requests
         /\ t[1] > main.step => flow[t] = "off"
         /\ \A i \in DOMAIN kept[t] : kept[t][i] = <<t[1], t[2], i>> /\ Back(kept[t][i])
         /\ flow[t] = "sent" => Len(kept[t]) < MaxFlow
         /\ flow[t] = "dead" => faults > 0
         /\ \A n \in (Len(kept[t]) + 1)..MaxFlow :
              status[<<t[1], t[2], n>>] # "unsent" => n = Len(kept[t]) + 1 /\ flow[t] \in {"sent", "dead"}
<1>1. kept[t] \in Seq(Requests) /\ Len(kept[t]) \in Nat /\ DOMAIN kept[t] = 1..Len(kept[t])
  BY DEF Typed
<1>2. Len(kept[t]) <= MaxFlow /\ MaxFlow \in Nat
  BY Config DEF FlowInv
<1>3. t = <<t[1], t[2]>> /\ t[1] \in Nat /\ t[2] # 0
  BY ThreadFacts
<1>4. Len(kept[t]) < MaxFlow => Current(t) \in Requests
  BY <1>1, <1>2, RequestFacts DEF Current
<1> QED
  BY <1>1, <1>2, <1>3, <1>4 DEF FlowInv

\* Two flows do not share a request.
LEMMA FlowsApart ==
  ASSUME NEW t \in Threads, NEW u \in Threads, NEW m, NEW n, <<t[1], t[2], m>> = <<u[1], u[2], n>>
  PROVE  t = u /\ m = n
  BY ThreadFacts

LEMMA FlowSendsKeeps ==
  ASSUME BenchInv, NEW t \in Threads, FlowSends(t)
  PROVE  BenchInv'
<1>1. TypeOK /\ Typed /\ MainInv /\ FlowInv
  BY DEF BenchInv
<1>2. /\ Alive /\ flow[t] = "check" /\ Len(kept[t]) < MaxFlow
      /\ status' = [status EXCEPT ![Current(t)] = "sent"] /\ flow' = [flow EXCEPT ![t] = "sent"]
      /\ UNCHANGED <<main, kept, tagged, out, maps, foreign, server, jobVars, audit, faults>>
  BY DEF FlowSends
<1> DEFINE c == Current(t)
<1>3. c \in Requests /\ c = <<t[1], t[2], Len(kept[t]) + 1>> /\ Len(kept[t]) + 1 \in (Len(kept[t]) + 1)..MaxFlow
  BY <1>1, <1>2, FlowFacts DEF Current
<1>4. status[c] = "unsent"
  BY <1>1, <1>2, <1>3, FlowFacts
<1> HIDE DEF c
<1>5. status' = [status EXCEPT ![c] = "sent"]
  BY <1>2 DEF c
<1>6. /\ status' \in [Requests -> {"unsent", "sent", "running", "text", "blank", "failed"}]
      /\ status'[c] = "sent" /\ \A q \in Requests : q # c => status'[q] = status[q]
      /\ \A q \in Requests : Back(q) => Back(q)'
  BY <1>1, <1>3, <1>4, <1>5, StatusMoves DEF Back
<1>7. /\ flow' \in [Threads -> {"off", "check", "sent", "dead", "done"}]
      /\ flow'[t] = "sent" /\ \A u \in Threads : u # t => flow'[u] = flow[u]
  BY <1>1, <1>2 DEF TypeOK
<1>8. ASSUME NEW u \in Threads
      PROVE  /\ u[1] > main'.step => flow'[u] = "off"
             /\ Len(kept'[u]) <= MaxFlow
             /\ \A i \in DOMAIN kept'[u] : kept'[u][i] = <<u[1], u[2], i>> /\ Back(kept[u][i])'
             /\ flow'[u] = "sent" => Len(kept'[u]) < MaxFlow
             /\ flow'[u] = "dead" => faults' > 0
             /\ \A n \in (Len(kept'[u]) + 1)..MaxFlow :
                  status'[<<u[1], u[2], n>>] # "unsent" =>
                    n = Len(kept'[u]) + 1 /\ flow'[u] \in {"sent", "dead"}
  <2>1. kept'[u] = kept[u] /\ main' = main /\ faults' = faults /\ kept' = kept
    BY <1>2
  <2>2. u[1] > main.step => flow'[u] = "off"
    <3>1. flow[u] = "off" => u # t
      BY <1>2
    <3> QED
      BY <1>1, <1>7, <3>1, FlowFacts
  <2>3. \A i \in DOMAIN kept[u] : kept[u][i] \in Requests /\ kept[u][i] = <<u[1], u[2], i>> /\ Back(kept[u][i])
    BY <1>1, FlowFacts
  <2>4. \A i \in DOMAIN kept[u] : Back(kept[u][i])'
    BY <1>6, <2>1, <2>3
  <2>5. ASSUME NEW n \in (Len(kept[u]) + 1)..MaxFlow, status'[<<u[1], u[2], n>>] # "unsent"
        PROVE  n = Len(kept[u]) + 1 /\ flow'[u] \in {"sent", "dead"}
    <3>1. n \in 1..MaxFlow
      BY <1>1, FlowFacts
    <3>2. <<u[1], u[2], n>> \in Requests
      BY <3>1, RequestFacts
    <3>3. CASE u = t
      <4>1. CASE n = Len(kept[u]) + 1
        BY <1>7, <3>3, <4>1
      <4>2. CASE n # Len(kept[u]) + 1
        <5>1. <<u[1], u[2], n>> # c
          BY <1>3, <3>3, <4>2
        <5>2. status[<<u[1], u[2], n>>] # "unsent"
          BY <1>6, <2>5, <3>2, <5>1
        <5> QED
          BY <1>1, <4>2, <5>2, FlowFacts
      <4> QED
        BY <4>1, <4>2
    <3>4. CASE u # t
      <4>1. <<u[1], u[2], n>> # c
        BY <1>3, <3>4, FlowsApart
      <4>2. status[<<u[1], u[2], n>>] # "unsent"
        BY <1>6, <2>5, <3>2, <4>1
      <4> QED
        BY <1>1, <1>7, <3>4, <4>2, FlowFacts
    <3> QED
      BY <3>3, <3>4
  <2>6. flow'[u] = "sent" => Len(kept[u]) < MaxFlow
    BY <1>1, <1>2, <1>7, FlowFacts
  <2>7. flow'[u] = "dead" => faults > 0
    BY <1>1, <1>7, FlowFacts
  <2>8. Len(kept[u]) <= MaxFlow
    BY <1>1, FlowFacts
  <2> QED
    BY <2>1, <2>2, <2>3, <2>4, <2>5, <2>6, <2>7, <2>8
<1>9. FlowInv'
  BY <1>8 DEF FlowInv, Back
<1>10. kept' \in [Threads -> Seq(Requests)]
  BY <1>1, <1>2 DEF Typed
<1>11. \A u \in Threads : DOMAIN kept[u] \subseteq DOMAIN kept'[u] /\ Len(kept'[u]) >= Len(kept[u])
  BY <1>1, <1>2, FlowFacts
<1>12. \A r \in Requests : status'[r] = status[r] \/ (status[r] = "unsent" /\ status'[r] = "sent")
  BY <1>4, <1>6
<1> QED
  BY <1>2, <1>6, <1>7, <1>9, <1>10, <1>11, <1>12, FlowsOnly

LEMMA FlowKeepsKeeps ==
  ASSUME BenchInv, NEW t \in Threads, FlowKeeps(t)
  PROVE  BenchInv'
<1>1. TypeOK /\ Typed /\ MainInv /\ FlowInv
  BY DEF BenchInv
<1>2. /\ Alive /\ flow[t] = "sent" /\ status[Current(t)] \in {"text", "blank"}
      /\ kept' = [kept EXCEPT ![t] = Append(@, Current(t))] /\ flow' = [flow EXCEPT ![t] = "check"]
      /\ UNCHANGED <<main, tagged, out, status, maps, foreign, server, jobVars, audit, faults>>
  BY DEF FlowKeeps
<1> DEFINE c == Current(t)
<1>3. c \in Requests /\ c = <<t[1], t[2], Len(kept[t]) + 1>> /\ Back(c) /\ Len(kept[t]) < MaxFlow
  BY <1>1, <1>2, FlowFacts DEF Current, Back
<1> HIDE DEF c
<1>4. /\ kept' \in [Threads -> Seq(Requests)]
      /\ kept'[t] = Append(kept[t], c) /\ \A u \in Threads : u # t => kept'[u] = kept[u]
  <2>1. kept \in [Threads -> Seq(Requests)] /\ Append(kept[t], c) \in Seq(Requests)
    BY <1>1, <1>3 DEF Typed
  <2> QED
    BY <1>2, <2>1 DEF c
<1>5. /\ Len(kept'[t]) = Len(kept[t]) + 1 /\ DOMAIN kept'[t] = 1..(Len(kept[t]) + 1)
      /\ kept'[t][Len(kept[t]) + 1] = c /\ \A i \in DOMAIN kept[t] : kept'[t][i] = kept[t][i]
  BY <1>1, <1>3, <1>4, FlowFacts
<1>6. /\ flow' \in [Threads -> {"off", "check", "sent", "dead", "done"}]
      /\ flow'[t] = "check" /\ \A u \in Threads : u # t => flow'[u] = flow[u]
  BY <1>1, <1>2 DEF TypeOK
<1>7. main' = main /\ faults' = faults /\ status' = status /\ \A r : Back(r)' <=> Back(r)
  BY <1>2 DEF Back
<1>8. ASSUME NEW u \in Threads
      PROVE  /\ u[1] > main'.step => flow'[u] = "off"
             /\ Len(kept'[u]) <= MaxFlow
             /\ \A i \in DOMAIN kept'[u] : kept'[u][i] = <<u[1], u[2], i>> /\ status'[kept'[u][i]] \in {"text", "blank"}
             /\ flow'[u] = "sent" => Len(kept'[u]) < MaxFlow
             /\ flow'[u] = "dead" => faults' > 0
             /\ \A n \in (Len(kept'[u]) + 1)..MaxFlow :
                  status'[<<u[1], u[2], n>>] # "unsent" =>
                    n = Len(kept'[u]) + 1 /\ flow'[u] \in {"sent", "dead"}
  <2>1. CASE u # t
    BY <1>1, <1>4, <1>6, <1>7, <2>1 DEF FlowInv, Back
  <2>2. CASE u = t
    <3>1. ~(t[1] > main.step)
      BY <1>1, <1>2, FlowFacts
    <3>2. Len(kept'[t]) <= MaxFlow /\ Len(kept'[t]) = Len(kept[t]) + 1 /\ Len(kept[t]) \in Nat
      BY <1>1, <1>3, <1>5, FlowFacts
    <3>3. ASSUME NEW i \in DOMAIN kept'[t]
          PROVE  kept'[t][i] = <<t[1], t[2], i>> /\ status'[kept'[t][i]] \in {"text", "blank"}
      <4>1. CASE i = Len(kept[t]) + 1
        BY <1>3, <1>5, <1>7, <4>1 DEF Back
      <4>2. CASE i # Len(kept[t]) + 1
        <5>1. i \in DOMAIN kept[t]
          BY <1>1, <1>5, <4>2, FlowFacts
        <5>2. kept[t][i] = <<t[1], t[2], i>> /\ Back(kept[t][i])
          BY <1>1, <5>1, FlowFacts
        <5> QED
          BY <1>5, <1>7, <5>1, <5>2 DEF Back
      <4> QED
        BY <4>1, <4>2
    <3>4. ASSUME NEW n \in (Len(kept'[t]) + 1)..MaxFlow PROVE status'[<<t[1], t[2], n>>] = "unsent"
      <4>1. n \in (Len(kept[t]) + 1)..MaxFlow /\ n # Len(kept[t]) + 1
        BY <3>2, Config
      <4> QED
        BY <1>1, <1>7, <4>1, FlowFacts
    <3> QED
      BY <1>6, <1>7, <2>2, <3>1, <3>2, <3>3, <3>4
  <2> QED
    BY <2>1, <2>2
<1>9. FlowInv'
  BY <1>8 DEF FlowInv, Back
<1>10. \A u \in Threads : DOMAIN kept[u] \subseteq DOMAIN kept'[u] /\ Len(kept'[u]) >= Len(kept[u])
  <2> SUFFICES ASSUME NEW u \in Threads
               PROVE  DOMAIN kept[u] \subseteq DOMAIN kept'[u] /\ Len(kept'[u]) >= Len(kept[u])
    OBVIOUS
  <2>1. Len(kept[u]) \in Nat /\ DOMAIN kept[u] = 1..Len(kept[u])
    BY <1>1, FlowFacts
  <2> QED
    BY <1>4, <1>5, <2>1
<1>11. status' \in [Requests -> {"unsent", "sent", "running", "text", "blank", "failed"}]
  BY <1>1, <1>7 DEF TypeOK
<1>12. \A r \in Requests : status'[r] = status[r] \/ (status[r] = "unsent" /\ status'[r] = "sent")
  BY <1>7
<1>13. UNCHANGED <<main, tagged, out, maps, foreign, server, jobVars, audit, faults>>
  BY <1>2
<1>14. Alive
  BY <1>2
<1> QED
  BY <1>4, <1>6, <1>9, <1>10, <1>11, <1>12, <1>13, <1>14, FlowsOnly

LEMMA FlowEndsKeeps ==
  ASSUME BenchInv, NEW t \in Threads, FlowEnds(t)
  PROVE  BenchInv'
<1>1. TypeOK /\ Typed /\ MainInv /\ FlowInv /\ RequestInv
  BY DEF BenchInv
<1>2. /\ Alive
      /\ \/ flow[t] = "check" /\ flow' = [flow EXCEPT ![t] = "done"]
         \/ flow[t] = "sent" /\ status[Current(t)] = "failed" /\ flow' = [flow EXCEPT ![t] = "dead"]
      /\ UNCHANGED <<main, kept, tagged, out, status, maps, foreign, server, jobVars, audit, faults>>
  BY DEF FlowEnds
<1>3. PICK v \in {"done", "dead"} : flow' = [flow EXCEPT ![t] = v] /\ flow[t] \in {"check", "sent"}
                                      /\ (flow[t] = "sent" => v = "dead") /\ (v = "dead" => status[Current(t)] = "failed" /\ flow[t] = "sent")
  BY <1>2
<1>4. /\ flow' \in [Threads -> {"off", "check", "sent", "dead", "done"}]
      /\ flow'[t] = v /\ \A u \in Threads : u # t => flow'[u] = flow[u]
  BY <1>1, <1>3 DEF TypeOK
<1>5. v = "dead" => faults > 0
  <2>1. v = "dead" => Current(t) \in Requests
    BY <1>1, <1>3, FlowFacts
  <2>2. v = "dead" => faults # 0
    BY <1>1, <1>3, <2>1 DEF RequestInv
  <2> QED
    BY <1>1, <2>2, FaultFacts
<1>6. main' = main /\ faults' = faults /\ status' = status /\ kept' = kept
  BY <1>2
<1>7. ASSUME NEW u \in Threads
      PROVE  /\ u[1] > main'.step => flow'[u] = "off"
             /\ Len(kept'[u]) <= MaxFlow
             /\ \A i \in DOMAIN kept'[u] : kept'[u][i] = <<u[1], u[2], i>> /\ status'[kept'[u][i]] \in {"text", "blank"}
             /\ flow'[u] = "sent" => Len(kept'[u]) < MaxFlow
             /\ flow'[u] = "dead" => faults' > 0
             /\ \A n \in (Len(kept'[u]) + 1)..MaxFlow :
                  status'[<<u[1], u[2], n>>] # "unsent" =>
                    n = Len(kept'[u]) + 1 /\ flow'[u] \in {"sent", "dead"}
  <2>1. CASE u # t
    BY <1>1, <1>4, <1>6, <2>1 DEF FlowInv, Back
  <2>2. CASE u = t
    <3>1. ~(t[1] > main.step)
      BY <1>1, <1>3, FlowFacts
    <3> QED
      BY <1>1, <1>3, <1>4, <1>5, <1>6, <2>2, <3>1 DEF FlowInv, Back
  <2> QED
    BY <2>1, <2>2
<1>8. FlowInv'
  BY <1>7 DEF FlowInv, Back
<1>9. kept' \in [Threads -> Seq(Requests)]
  BY <1>1, <1>6 DEF Typed
<1>10. \A u \in Threads : DOMAIN kept[u] \subseteq DOMAIN kept'[u] /\ Len(kept'[u]) >= Len(kept[u])
  BY <1>1, <1>6, FlowFacts
<1>11. status' \in [Requests -> {"unsent", "sent", "running", "text", "blank", "failed"}]
  BY <1>1, <1>6 DEF TypeOK
<1>12. \A r \in Requests : status'[r] = status[r] \/ (status[r] = "unsent" /\ status'[r] = "sent")
  BY <1>6
<1>13. UNCHANGED <<main, tagged, out, maps, foreign, server, jobVars, audit, faults>>
  BY <1>2
<1>14. Alive
  BY <1>2
<1> QED
  BY <1>4, <1>8, <1>9, <1>10, <1>11, <1>12, <1>13, <1>14, FlowsOnly

-----------------------------------------------------------------------------
(* The main thread *)

LEMMA MainSendKeeps ==
  ASSUME BenchInv, MainSend
  PROVE  BenchInv'
<1>1. TypeOK /\ Typed /\ MainInv /\ FlowInv
  BY DEF BenchInv
<1>2. /\ main.pc = "send"
      /\ UNCHANGED clientVars /\ maps' = maps /\ foreign' = foreign /\ server' = server
      /\ UNCHANGED jobVars /\ audit' = audit /\ faults' = faults
  BY DEF MainSend
<1>3. PICK r \in In(Batch, {"unsent"}) : status' = [status EXCEPT ![r] = "sent"]
  BY DEF MainSend
<1>4. r \in Requests /\ r[2] = 0 /\ status[r] = "unsent"
  <2>1. PICK i \in 1..BatchSize : r = Member(i)
    BY <1>3 DEF In, Batch
  <2> QED
    BY <1>1, <1>2, <1>3, <2>1, BatchFacts DEF In
<1>5. /\ status' \in [Requests -> {"unsent", "sent", "running", "text", "blank", "failed"}]
      /\ status'[r] = "sent" /\ \A q \in Requests : q # r => status'[q] = status[q]
      /\ \A q \in Requests : Back(q) => Back(q)'
  BY <1>1, <1>3, <1>4, StatusMoves DEF Back
<1>6. /\ main' = main /\ flow' = flow /\ kept' = kept /\ tagged' = tagged /\ out' = out
  BY <1>2 DEF clientVars
<1>7. FlowInv'
  <2>1. main'.step >= main.step /\ main'.step \in Nat /\ faults' \in Nat /\ faults' >= faults
    BY <1>1, <1>2, <1>6, FaultFacts, Config DEF TypeOK
  <2>2. \A q \in Requests : q[2] # 0 /\ status[q] = "unsent" => status'[q] = "unsent"
    BY <1>4, <1>5
  <2> QED
    BY <1>1, <1>5, <1>6, <2>1, <2>2, FlowKept
<1>8. flow' \in [Threads -> {"off", "check", "sent", "dead", "done"}] /\ kept' \in [Threads -> Seq(Requests)]
  BY <1>1, <1>6 DEF TypeOK, Typed
<1>9. \A u \in Threads : DOMAIN kept[u] \subseteq DOMAIN kept'[u] /\ Len(kept'[u]) >= Len(kept[u])
  BY <1>1, <1>6, FlowFacts
<1>10. \A q \in Requests : status'[q] = status[q] \/ (status[q] = "unsent" /\ status'[q] = "sent")
  BY <1>4, <1>5
<1>11. UNCHANGED <<main, tagged, out, maps, foreign, server, jobVars, audit, faults>>
  BY <1>2, <1>6
<1>12. Alive
  BY <1>2 DEF Alive
<1> QED
  BY <1>5, <1>7, <1>8, <1>9, <1>10, <1>11, <1>12, FlowsOnly

\* The fields of the main thread's state
LEMMA MainTypes ==
  ASSUME TypeOK
  PROVE  /\ main.step \in 1..(Len(Phases) + 1) /\ main.step \in Nat /\ main.wave \in Nat \ {0}
         /\ \A p \in {"send", "join", "tag", "extend", "report", "written", "raised"}, w \in Nat \ {0} :
              LET m == [main EXCEPT !.pc = p, !.wave = w]
              IN /\ m \in [pc : {"send", "join", "tag", "extend", "report", "written", "raised"},
                           step : 1..(Len(Phases) + 1), wave : Nat \ {0}]
                 /\ m.pc = p /\ m.wave = w /\ m.step = main.step
         /\ \A p \in {"send", "join", "tag", "extend", "report", "written", "raised"} :
              LET m == [main EXCEPT !.pc = p]
              IN /\ m \in [pc : {"send", "join", "tag", "extend", "report", "written", "raised"},
                           step : 1..(Len(Phases) + 1), wave : Nat \ {0}]
                 /\ m.pc = p /\ m.wave = main.wave /\ m.step = main.step
<1> DEFINE P == {"send", "join", "tag", "extend", "report", "written", "raised"}
           I == 1..(Len(Phases) + 1)
           W == Nat \ {0}
<1>1. main \in [pc : P, step : I, wave : W]
  BY DEF TypeOK
<1>2. \A i \in I : i \in Nat
  BY Config
<1> HIDE DEF P, I, W
<1>3. main.step \in I /\ main.wave \in W
  BY <1>1
<1>4. ASSUME NEW p \in P, NEW w \in W
      PROVE  /\ [main EXCEPT !.pc = p, !.wave = w] \in [pc : P, step : I, wave : W]
             /\ [main EXCEPT !.pc = p, !.wave = w].pc = p
             /\ [main EXCEPT !.pc = p, !.wave = w].wave = w
             /\ [main EXCEPT !.pc = p, !.wave = w].step = main.step
  BY <1>1
<1>5. ASSUME NEW p \in P
      PROVE  /\ [main EXCEPT !.pc = p] \in [pc : P, step : I, wave : W]
             /\ [main EXCEPT !.pc = p].pc = p
             /\ [main EXCEPT !.pc = p].wave = main.wave
             /\ [main EXCEPT !.pc = p].step = main.step
  BY <1>1
<1>6. main.step \in I /\ main.step \in Nat /\ main.wave \in W
  BY <1>2, <1>3
<1>7. \A p \in P, w \in W :
        LET m == [main EXCEPT !.pc = p, !.wave = w]
        IN /\ m \in [pc : P, step : I, wave : W]
           /\ m.pc = p /\ m.wave = w /\ m.step = main.step
  BY <1>4
<1>8. \A p \in P :
        LET m == [main EXCEPT !.pc = p]
        IN /\ m \in [pc : P, step : I, wave : W]
           /\ m.pc = p /\ m.wave = main.wave /\ m.step = main.step
  BY <1>5
<1> QED
  BY <1>6, <1>7, <1>8 DEF P, I, W

\* The main thread moves on, perhaps over new samples.
LEMMA MainOnly ==
  ASSUME BenchInv, Alive, UNCHANGED <<kept, status, maps, foreign, server, jobVars, audit>>,
         faults' \in 0..MaxFaults, faults' >= faults,
         main' \in [pc : {"send", "join", "tag", "extend", "report", "written", "raised"},
                    step : 1..(Len(Phases) + 1), wave : Nat \ {0}],
         flow' \in [Threads -> {"off", "check", "sent", "dead", "done"}],
         tagged' \in [Threads -> Nat], \A t \in Threads : tagged'[t] <= Len(kept[t]),
         out' \in Seq([req : Requests, tagged : BOOLEAN]),
         MainInv', FlowInv', OutInv', CollectInv', Alive' \/ EndInv'
  PROVE  BenchInv'
<1>1. TypeOK /\ Typed /\ RequestInv /\ JobInv /\ EndInv
  BY DEF BenchInv
<1>2. /\ kept' = kept /\ status' = status /\ maps' = maps /\ foreign' = foreign
      /\ server' = server /\ UNCHANGED jobVars /\ audit' = audit /\ faults' \in Nat
  BY Config
<1>3. \A i \in DOMAIN out' : out'[i] \in [req : Requests, tagged : BOOLEAN]
  <2> DEFINE Sample == [req : Requests, tagged : BOOLEAN]
  <2> HIDE DEF Sample
  <2>1. out' \in Seq(Sample)
    BY DEF Sample
  <2>2. \A i \in DOMAIN out' : out'[i] \in Sample
    BY <2>1
  <2> QED
    BY <2>2 DEF Sample
<1>4. TypeOK'
  BY <1>1, <1>2, <1>3 DEF TypeOK, jobVars
<1>5. Typed'
  BY <1>1, <1>2 DEF Typed, jobVars
<1>6. RequestInv'
  BY <1>1, <1>2, RequestKept
<1>7. JobInv'
  BY <1>1, <1>2, JobKept DEF Unseen
<1>8. EndInv'
  BY <1>1, <1>2, EndAlive
<1> QED
  BY <1>4, <1>5, <1>6, <1>7, <1>8 DEF BenchInv

\* The client gives up.
LEMMA RaisedKeeps ==
  ASSUME BenchInv, Alive, main' = [main EXCEPT !.pc = "raised"],
         UNCHANGED <<flow, kept, tagged, out, status, maps, foreign, server, jobVars, audit>>,
         faults' \in 0..MaxFaults, faults' >= faults,
         faults' = 0 => \E t \in Threads : Late(t)
  PROVE  BenchInv'
<1>1. TypeOK /\ Typed /\ MainInv /\ FlowInv /\ OutInv /\ CollectInv /\ EndInv
  BY DEF BenchInv
<1>2. /\ flow' = flow /\ kept' = kept /\ tagged' = tagged /\ out' = out /\ status' = status
      /\ server' = server /\ audit' = audit /\ faults' \in Nat
  BY Config
<1>3. /\ main' \in [pc : {"send", "join", "tag", "extend", "report", "written", "raised"},
                    step : 1..(Len(Phases) + 1), wave : Nat \ {0}]
      /\ main'.pc = "raised" /\ main'.step = main.step /\ main.step \in Nat
  BY <1>1, MainTypes
<1>4. MainInv'
  BY <1>3 DEF MainInv
<1>5. FlowInv'
  BY <1>1, <1>2, <1>3, FlowKept DEF Back
<1>6. OutInv'
  BY <1>1, <1>2, OutKept DEF Back
<1>7. CollectInv'
  BY <1>3 DEF CollectInv
<1>8. EndInv'
  <2>1. server = "up" /\ audit = "none"
    BY <1>1 DEF EndInv, Alive
  <2>2. faults' = 0 => \E t \in Threads : Late(t)'
    BY <1>2 DEF Late
  <2> QED
    BY <1>2, <1>3, <2>1, <2>2 DEF EndInv
<1>9. /\ flow' \in [Threads -> {"off", "check", "sent", "dead", "done"}]
      /\ tagged' \in [Threads -> Nat] /\ \A t \in Threads : tagged'[t] <= Len(kept[t])
      /\ out' \in Seq([req : Requests, tagged : BOOLEAN])
  BY <1>1, <1>2 DEF TypeOK, Typed
<1> QED
  BY <1>3, <1>4, <1>5, <1>6, <1>7, <1>8, <1>9, MainOnly

LEMMA MainRaisesKeeps ==
  ASSUME BenchInv, MainRaises
  PROVE  BenchInv'
<1>1. TypeOK /\ MainInv /\ RequestInv
  BY DEF BenchInv
<1>2. /\ main.pc = "send" /\ In(Batch, {"failed"}) # {} /\ faults' = faults
      /\ main' = [main EXCEPT !.pc = "raised"]
      /\ UNCHANGED <<flow, kept, tagged, out, status, maps, foreign, server, jobVars, audit>>
  BY DEF MainRaises
<1>3. PICK r \in Batch : status[r] = "failed"
  BY <1>2 DEF In
<1>4. r \in Requests
  BY <1>1, <1>2, BatchFacts DEF Batch
<1>5. faults # 0
  BY <1>1, <1>3, <1>4 DEF RequestInv
<1>6. Alive /\ faults' \in 0..MaxFaults /\ faults' >= faults
  BY <1>1, <1>2 DEF Alive, TypeOK
<1> QED
  BY <1>2, <1>5, <1>6, RaisedKeeps

LEMMA BenchTimesOutKeeps ==
  ASSUME BenchInv, BenchTimesOut
  PROVE  BenchInv'
<1>1. faults' \in 0..MaxFaults /\ faults' >= faults /\ faults' # 0
  BY FaultFacts DEF BenchInv, BenchTimesOut
<1> QED
  BY <1>1, RaisedKeeps DEF BenchTimesOut

\* A sample without its tags belongs to a flow that was late.
LEMMA UntaggedLate ==
  ASSUME Typed, FlowInv, OutInv, NEW i \in DOMAIN out, ~out[i].tagged
  PROVE  \E t \in Threads : Late(t)
<1> DEFINE r == out[i].req
           t == <<r[1], r[2]>>
<1>1. out[i] \in [req : Requests, tagged : BOOLEAN] /\ r \in Requests
  BY SampleTypes
<1>2. r = <<r[1], r[2], r[3]>>
  BY <1>1, RequestFacts
<1>3. r[2] # 0 /\ t \in Threads /\ r[3] \in DOMAIN kept[t]
  BY DEF OutInv
<1>4. kept[t][r[3]] = <<t[1], t[2], r[3]>>
  BY <1>3 DEF FlowInv
<1>5. kept[t][r[3]] = r
  BY <1>2, <1>4
<1>6. ASSUME [req |-> r, tagged |-> TRUE] \in Range(out) PROVE FALSE
  <2>1. PICK k \in DOMAIN out : out[k] = [req |-> r, tagged |-> TRUE]
    BY <1>6 DEF Range
  <2>2. out[k].req = out[i].req
    BY <2>1
  <2>3. k = i
    BY <2>2 DEF OutInv
  <2> QED
    BY <2>1, <2>3
<1> HIDE DEF r, t
<1>7. Late(t)
  BY <1>3, <1>5, <1>6 DEF Late
<1> QED
  BY <1>3, <1>7

LEMMA ReportKeeps ==
  ASSUME BenchInv, Report
  PROVE  BenchInv'
<1>1. TypeOK /\ Typed /\ MainInv /\ RequestInv /\ FlowInv /\ OutInv /\ CollectInv /\ EndInv
  BY DEF BenchInv
<1>2. /\ main.pc = "report" /\ faults' = faults
      /\ UNCHANGED <<flow, kept, tagged, out, status, maps, foreign, server, jobVars, audit>>
      /\ main' = [main EXCEPT !.pc =
                    IF Rounded /\ ("prime" \in Range(Phases) => Timed) THEN "written" ELSE "raised"]
  BY DEF Report
<1>3. Alive /\ faults' \in 0..MaxFaults /\ faults' >= faults
  BY <1>1, <1>2 DEF Alive, TypeOK
<1>4. CASE Rounded /\ ("prime" \in Range(Phases) => Timed)
  <2>1. /\ flow' = flow /\ kept' = kept /\ tagged' = tagged /\ out' = out /\ status' = status
        /\ server' = server /\ audit' = audit /\ faults' \in Nat
    BY <1>1, <1>2, FaultFacts
  <2>2. main' = [main EXCEPT !.pc = "written"]
    BY <1>2, <1>4
  <2>3. /\ main' \in [pc : {"send", "join", "tag", "extend", "report", "written", "raised"},
                      step : 1..(Len(Phases) + 1), wave : Nat \ {0}]
        /\ main'.pc = "written" /\ main'.step = main.step /\ main.step \in Nat
    BY <1>1, <2>2, MainTypes
  <2>4. MainInv'
    BY <1>1, <1>2, <2>3 DEF MainInv
  <2>5. FlowInv'
    BY <1>1, <1>3, <2>1, <2>3, FlowKept DEF Back
  <2>6. OutInv'
    BY <1>1, <2>1, OutKept DEF Back
  <2>7. CollectInv'
    <3>1. main.step \notin Mixed
      BY <1>1, <1>2, Config DEF MainInv
    <3>2. \A s \in Steps, n \in Nat \ {0} : Collected(s, n)' <=> Collected(s, n)
      BY <1>2, <2>3, <3>1 DEF Collected
    <3>3. \A t \in Threads : Copied(t) => Copied(t)'
      BY <1>2, <2>3 DEF Copied
    <3> QED
      BY <1>1, <1>2, <2>1, <3>2, <3>3, CollectKept
  <2>8. EndInv'
    <3>1. server = "up" /\ audit = "none"
      BY <1>1, <1>2 DEF EndInv, Alive
    <3>2. Rounded'
      BY <1>4, <2>1 DEF Rounded
    <3> QED
      BY <2>1, <2>3, <3>1, <3>2 DEF EndInv
  <2>9. /\ flow' \in [Threads -> {"off", "check", "sent", "dead", "done"}]
        /\ tagged' \in [Threads -> Nat] /\ \A t \in Threads : tagged'[t] <= Len(kept[t])
        /\ out' \in Seq([req : Requests, tagged : BOOLEAN])
    BY <1>1, <2>1 DEF TypeOK, Typed
  <2> QED
    BY <1>2, <1>3, <2>3, <2>4, <2>5, <2>6, <2>7, <2>8, <2>9, MainOnly
<1>5. CASE ~(Rounded /\ ("prime" \in Range(Phases) => Timed))
  <2>1. main' = [main EXCEPT !.pc = "raised"]
    BY <1>2, <1>5
  <2>2. ~Rounded => \E t \in Threads : Late(t)
    BY <1>1, UntaggedLate DEF Rounded
  <2>3. ASSUME ~Timed PROVE faults # 0
    <3>1. PICK i \in DOMAIN out : status[out[i].req] # "text"
      BY <2>3 DEF Timed
    <3>2. out[i].req \in Requests /\ Back(out[i].req)
      BY <1>1, SampleTypes DEF OutInv
    <3>3. status[out[i].req] = "blank"
      BY <3>1, <3>2 DEF Back
    <3> QED
      BY <1>1, <3>2, <3>3 DEF RequestInv
  <2>4. faults' = 0 => \E t \in Threads : Late(t)
    BY <1>2, <1>5, <2>2, <2>3
  <2> QED
    BY <1>2, <1>3, <2>1, <2>4, RaisedKeeps
<1> QED
  BY <1>4, <1>5

LEMMA LeaveJoinKeeps ==
  ASSUME BenchInv, LeaveJoin
  PROVE  BenchInv'
<1>1. TypeOK /\ Typed /\ MainInv /\ FlowInv /\ OutInv /\ CollectInv
  BY DEF BenchInv
<1>2. /\ main.pc = "join" /\ main' = [main EXCEPT !.pc = "tag", !.wave = 1] /\ faults' = faults
      /\ UNCHANGED <<flow, kept, tagged, out, status, maps, foreign, server, jobVars, audit>>
  BY DEF LeaveJoin
<1>3. Alive /\ faults' \in 0..MaxFaults /\ faults' >= faults /\ faults' \in Nat
  BY <1>1, <1>2, FaultFacts DEF Alive, TypeOK
<1>4. /\ main' \in [pc : {"send", "join", "tag", "extend", "report", "written", "raised"},
                    step : 1..(Len(Phases) + 1), wave : Nat \ {0}]
      /\ main'.pc = "tag" /\ main'.wave = 1 /\ main'.step = main.step /\ main.step \in Nat
  <2>1. PICK w \in Nat \ {0} : w = 1
    OBVIOUS
  <2>2. main' = [main EXCEPT !.pc = "tag", !.wave = w]
    BY <1>2, <2>1
  <2> HIDE <2>1
  <2>3. /\ main' \in [pc : {"send", "join", "tag", "extend", "report", "written", "raised"},
                      step : 1..(Len(Phases) + 1), wave : Nat \ {0}]
        /\ main'.pc = "tag" /\ main'.wave = w /\ main'.step = main.step
    BY <1>1, <2>2, MainTypes
  <2> QED
    BY <1>1, <2>1, <2>3, MainTypes
<1>5. main.step \in Mixed
  BY <1>1, <1>2 DEF MainInv
<1>6. MainInv'
  BY <1>4, <1>5, Config DEF MainInv
<1>7. FlowInv'
  BY <1>1, <1>2, <1>3, <1>4, FlowKept DEF Back
<1>8. OutInv'
  BY <1>1, <1>2, OutKept DEF Back
<1>9. CollectInv'
  <2>1. \A s \in Steps, n \in Nat \ {0} : Collected(s, n)' <=> Collected(s, n)
    BY <1>2, <1>4 DEF Collected
  <2>2. \A t \in Threads : Copied(t) => Copied(t)'
    BY <1>2, <1>4 DEF Copied
  <2> QED
    BY <1>1, <1>2, <2>1, <2>2, CollectKept
<1>10. Alive'
  BY <1>4 DEF Alive
<1>11. /\ flow' \in [Threads -> {"off", "check", "sent", "dead", "done"}]
       /\ tagged' \in [Threads -> Nat] /\ \A t \in Threads : tagged'[t] <= Len(kept[t])
       /\ out' \in Seq([req : Requests, tagged : BOOLEAN])
  BY <1>1, <1>2 DEF TypeOK, Typed
<1> QED
  BY <1>2, <1>3, <1>4, <1>6, <1>7, <1>8, <1>9, <1>10, <1>11, MainOnly

\* The next phase: what was collected and copied of this one counts as whole.
LEMMA EnterMoves ==
  ASSUME TypeOK, Typed, MainInv, FlowInv, main.step \in Steps, Enter(main.step + 1),
         kept' = kept, status' = status, faults' = faults
  PROVE  /\ main' \in [pc : {"send", "join", "tag", "extend", "report", "written", "raised"},
                       step : 1..(Len(Phases) + 1), wave : Nat \ {0}]
         /\ flow' \in [Threads -> {"off", "check", "sent", "dead", "done"}]
         /\ MainInv' /\ FlowInv' /\ Alive'
         /\ \A s \in Steps, n \in Nat \ {0} : Collected(s, n)' <=> s <= main.step
         /\ \A t \in Threads : Copied(t)' <=> t[1] <= main.step
<1>1. main.step \in Nat /\ Steps = 1..Len(Phases) /\ Len(Phases) \in Nat /\ Mixed \subseteq Steps
  BY MainTypes, Config
<1> DEFINE p == IF main.step + 1 \in Steps THEN "send" ELSE "report"
<1>2. main' = [pc |-> p, step |-> main.step + 1, wave |-> 1]
  BY DEF Enter
<1>3. p \in {"send", "report"} /\ main.step + 1 \in 1..(Len(Phases) + 1)
  BY <1>1
<1>4. main'.pc = p /\ main'.step = main.step + 1 /\ main'.wave = 1
  BY <1>2
<1>5. main' \in [pc : {"send", "join", "tag", "extend", "report", "written", "raised"},
                 step : 1..(Len(Phases) + 1), wave : Nat \ {0}]
  BY <1>2, <1>3
<1>6. main'.pc = "send" => main'.step \in Steps
  BY <1>4
<1>7. main'.pc = "report" => main'.step = Len(Phases) + 1
  BY <1>1, <1>4
<1>8. /\ flow' \in [Threads -> {"off", "check", "sent", "dead", "done"}]
      /\ \A t \in Threads : flow'[t] = IF t[1] = main.step + 1 THEN "check" ELSE flow[t]
  BY DEF Enter, TypeOK
<1>9. MainInv'
  <2>1. main'.wave <= (IF main'.step \in Mixed THEN Waves ELSE 1)
    BY <1>4, Config
  <2> QED
    BY <1>3, <1>4, <1>6, <1>7, <2>1 DEF MainInv
<1>10. FlowInv'
  <2> SUFFICES ASSUME NEW t \in Threads
               PROVE  /\ t[1] > main'.step => flow'[t] = "off"
                      /\ Len(kept[t]) <= MaxFlow
                      /\ \A i \in DOMAIN kept[t] : kept[t][i] = <<t[1], t[2], i>> /\ Back(kept[t][i])
                      /\ flow'[t] = "sent" => Len(kept[t]) < MaxFlow
                      /\ flow'[t] = "dead" => faults > 0
                      /\ \A n \in (Len(kept[t]) + 1)..MaxFlow :
                           status[<<t[1], t[2], n>>] # "unsent" =>
                             n = Len(kept[t]) + 1 /\ flow'[t] \in {"sent", "dead"}
    BY DEF FlowInv, Back
  <2>1. t[1] \in Nat /\ (t[1] > main.step => flow[t] = "off")
    BY FlowFacts
  <2>2. CASE t[1] = main.step + 1
    <3>1. flow[t] = "off" /\ flow'[t] = "check" /\ ~(t[1] > main'.step)
      BY <1>1, <1>4, <1>8, <2>1, <2>2
    <3> QED
      BY <3>1 DEF FlowInv
  <2>3. CASE t[1] # main.step + 1
    <3>1. flow'[t] = flow[t] /\ (t[1] > main'.step => t[1] > main.step)
      BY <1>1, <1>4, <1>8, <2>1, <2>3
    <3> QED
      BY <2>1, <3>1 DEF FlowInv
  <2> QED
    BY <2>2, <2>3
<1>11. Alive'
  BY <1>3, <1>4 DEF Alive
<1>12. ASSUME NEW s \in Steps, NEW n \in Nat \ {0} PROVE Collected(s, n)' <=> s <= main.step
  <2>1. Collected(s, n)' <=> \/ s < main'.step
                             \/ s = main'.step /\ s \in Mixed /\ (main'.pc = "send" => n <= (main'.wave - 1) * Sessions)
    BY DEF Collected
  <2>2. s = main'.step => main'.pc = "send"
    BY <1>4
  <2>3. (1 - 1) * Sessions = 0 /\ s \in Nat
    BY <1>1, Config
  <2> QED
    BY <1>1, <1>4, <2>1, <2>2, <2>3
<1>13. ASSUME NEW t \in Threads PROVE Copied(t)' <=> t[1] <= main.step
  <2>1. t[1] \in Nat
    BY ThreadFacts
  <2> QED
    BY <1>1, <1>3, <1>4, <2>1 DEF Copied
<1> QED
  BY <1>5, <1>8, <1>9, <1>10, <1>11, <1>12, <1>13

\* The next flow: the one at hand has been copied.
LEMMA NextFlowMoves ==
  ASSUME TypeOK, Typed, MainInv, FlowInv, main.pc \in {"tag", "extend"}, NextFlow,
         kept' = kept, status' = status, faults' = faults
  PROVE  /\ main' \in [pc : {"send", "join", "tag", "extend", "report", "written", "raised"},
                       step : 1..(Len(Phases) + 1), wave : Nat \ {0}]
         /\ flow' \in [Threads -> {"off", "check", "sent", "dead", "done"}]
         /\ MainInv' /\ FlowInv' /\ Alive'
         /\ \A s \in Steps, n \in Nat \ {0} : Collected(s, n)' <=> Collected(s, n)
         /\ \A t \in Threads : Copied(t)' <=> Copied(t) \/ t = <<main.step, main.wave>>
<1>1. /\ main.step \in Mixed /\ main.step \in Steps /\ main.step \in Nat
      /\ main.wave \in DOMAIN FlowNames /\ main.wave \in Nat \ {0}
      /\ DOMAIN FlowNames = 1..Len(FlowNames) /\ Len(FlowNames) \in Nat
  <2>1. main.step \in Mixed /\ main.wave \in DOMAIN FlowNames
    BY DEF MainInv
  <2>2. Mixed \subseteq Steps /\ DOMAIN FlowNames = 1..Len(FlowNames) /\ Len(FlowNames) \in Nat
    BY Config
  <2>3. main.step \in Nat /\ main.wave \in Nat \ {0}
    BY MainTypes
  <2> QED
    BY <2>1, <2>2, <2>3
<1>2. \A t \in Threads : /\ t[1] \in Nat /\ t[2] \in Nat /\ t[2] <= Len(FlowNames)
                         /\ t = <<main.step, main.wave>> <=> t[1] = main.step /\ t[2] = main.wave
  BY <1>1, ThreadFacts
<1>3. \A s \in Steps, n \in Nat \ {0} : s \in Nat /\ (Collected(s, n) <=> s <= main.step)
  BY <1>1, Config DEF Collected
<1>4. CASE main.wave = Len(FlowNames)
  <2>1. Enter(main.step + 1)
    BY <1>4 DEF NextFlow
  <2>2. /\ main' \in [pc : {"send", "join", "tag", "extend", "report", "written", "raised"},
                      step : 1..(Len(Phases) + 1), wave : Nat \ {0}]
        /\ flow' \in [Threads -> {"off", "check", "sent", "dead", "done"}]
        /\ MainInv' /\ FlowInv' /\ Alive'
        /\ \A s \in Steps, n \in Nat \ {0} : Collected(s, n)' <=> s <= main.step
        /\ \A t \in Threads : Copied(t)' <=> t[1] <= main.step
    BY <1>1, <2>1, EnterMoves
  <2>3. ASSUME NEW t \in Threads PROVE t[1] <= main.step <=> Copied(t) \/ t = <<main.step, main.wave>>
    BY <1>1, <1>2, <1>4 DEF Copied
  <2> QED
    BY <1>3, <2>2, <2>3
<1>5. CASE main.wave # Len(FlowNames)
  <2>1. main' = [main EXCEPT !.pc = "tag", !.wave = main.wave + 1] /\ flow' = flow
    BY <1>5 DEF NextFlow
  <2>2. PICK w \in Nat \ {0} : w = main.wave + 1
    BY <1>1
  <2>3. main' = [main EXCEPT !.pc = "tag", !.wave = w]
    BY <2>1, <2>2
  <2>4. w \in DOMAIN FlowNames
    BY <1>1, <1>5, <2>2
  <2> HIDE <2>1, <2>2
  <2>5. /\ main' \in [pc : {"send", "join", "tag", "extend", "report", "written", "raised"},
                      step : 1..(Len(Phases) + 1), wave : Nat \ {0}]
        /\ main'.pc = "tag" /\ main'.wave = w /\ main'.step = main.step
    BY <2>3, MainTypes
  <2>6. MainInv'
    BY <1>1, <2>4, <2>5 DEF MainInv
  <2>7. FlowInv'
    BY <1>1, <2>1, <2>5, FaultFacts, FlowKept DEF Back
  <2>8. Alive'
    BY <2>5 DEF Alive
  <2>9. \A s \in Steps, n \in Nat \ {0} : Collected(s, n)' <=> s <= main.step
    BY <1>1, <1>3, <2>5 DEF Collected
  <2>10. \A t \in Threads : Copied(t)' <=> Copied(t) \/ t = <<main.step, main.wave>>
    BY <1>1, <1>2, <2>2, <2>5 DEF Copied
  <2>11. flow' \in [Threads -> {"off", "check", "sent", "dead", "done"}]
    BY <2>1 DEF TypeOK
  <2> QED
    BY <1>3, <2>5, <2>6, <2>7, <2>8, <2>9, <2>10, <2>11
<1> QED
  BY <1>4, <1>5

-----------------------------------------------------------------------------
(* Samples are added *)

\* New samples of requests the main thread now has, none of them there before
LEMMA OutGrows ==
  ASSUME BenchInv, NEW new \in Seq([req : Requests, tagged : BOOLEAN]), out' = out \o new,
         kept' = kept, status' = status, main.pc # "raised",
         \A t \in Threads : Copied(t) => tagged'[t] = tagged[t],
         \A i, k \in DOMAIN new : new[i].req = new[k].req => i = k,
         \A i \in DOMAIN new :
           LET r == new[i].req
           IN /\ Back(r)
              /\ IF r[2] = 0
                 THEN new[i].tagged /\ ~Collected(r[1], r[3]) /\ Collected(r[1], r[3])'
                 ELSE LET t == <<r[1], r[2]>>
                      IN /\ t \in Threads /\ r[3] \in DOMAIN kept[t]
                         /\ new[i].tagged <=> r[3] <= tagged'[t]
                         /\ ~Copied(t) /\ Copied(t)',
         \A s \in Steps, n \in Nat \ {0} : Collected(s, n) => Collected(s, n)',
         \A t \in Threads : Copied(t) => Copied(t)',
         \A r \in Requests : r[2] = 0 /\ Collected(r[1], r[3])' =>
           Collected(r[1], r[3]) \/ \E i \in DOMAIN new : new[i].req = r
  PROVE  out' \in Seq([req : Requests, tagged : BOOLEAN]) /\ OutInv' /\ CollectInv'
<1> DEFINE Sample == [req : Requests, tagged : BOOLEAN]
<1>1. TypeOK /\ Typed /\ OutInv /\ CollectInv
  BY DEF BenchInv
<1>2. \A x \in Sample : x.req \in Requests
  OBVIOUS
<1>3. out \in Seq(Sample) /\ new \in Seq(Sample)
  BY <1>1 DEF Typed
<1> HIDE DEF Sample
<1>4. /\ out' \in Seq(Sample)
      /\ DOMAIN out = 1..Len(out) /\ DOMAIN new = 1..Len(new) /\ DOMAIN out' = 1..(Len(out) + Len(new))
      /\ Len(out) \in Nat /\ Len(new) \in Nat
      /\ \A i \in DOMAIN out : out'[i] = out[i]
      /\ \A k \in DOMAIN new : Len(out) + k \in DOMAIN out' /\ out'[Len(out) + k] = new[k]
  BY <1>3
<1>5. \A i \in DOMAIN out' : i \in DOMAIN out \/ \E k \in DOMAIN new : i = Len(out) + k
  <2> SUFFICES ASSUME NEW i \in DOMAIN out', i \notin DOMAIN out
               PROVE  \E k \in DOMAIN new : i = Len(out) + k
    OBVIOUS
  <2>1. i - Len(out) \in DOMAIN new /\ i = Len(out) + (i - Len(out))
    BY <1>4
  <2> QED
    BY <2>1
<1>6. \A i \in DOMAIN out : out[i].req \in Requests
  BY <1>1, SampleTypes
<1>7. \A k \in DOMAIN new : new[k].req \in Requests
  BY <1>2, <1>3
<1>8. \A r \in Requests : r[1] \in Steps /\ r[3] \in Nat \ {0}
  BY RequestFacts
<1>9. \A i \in DOMAIN out :
        IF out[i].req[2] = 0 THEN Collected(out[i].req[1], out[i].req[3])
        ELSE Copied(<<out[i].req[1], out[i].req[2]>>) /\ <<out[i].req[1], out[i].req[2]>> \in Threads
  BY <1>1 DEF CollectInv, OutInv
<1>10. ASSUME NEW i \in DOMAIN out, NEW k \in DOMAIN new PROVE out[i].req # new[k].req
  <2>1. IF new[k].req[2] = 0 THEN ~Collected(new[k].req[1], new[k].req[3])
        ELSE ~Copied(<<new[k].req[1], new[k].req[2]>>)
    OBVIOUS
  <2> QED
    BY <1>9, <2>1
<1>11. \A i, k \in DOMAIN out' : out'[i].req = out'[k].req => i = k
  <2> SUFFICES ASSUME NEW i \in DOMAIN out', NEW k \in DOMAIN out', out'[i].req = out'[k].req
               PROVE  i = k
    OBVIOUS
  <2>1. CASE i \in DOMAIN out /\ k \in DOMAIN out
    BY <1>1, <1>4, <2>1 DEF OutInv
  <2>2. CASE i \in DOMAIN out /\ k \notin DOMAIN out
    BY <1>4, <1>5, <1>10, <2>2
  <2>3. CASE i \notin DOMAIN out /\ k \in DOMAIN out
    BY <1>4, <1>5, <1>10, <2>3
  <2>4. CASE i \notin DOMAIN out /\ k \notin DOMAIN out
    <3>1. PICK a \in DOMAIN new : i = Len(out) + a
      BY <1>5, <2>4
    <3>2. PICK b \in DOMAIN new : k = Len(out) + b
      BY <1>5, <2>4
    <3>3. new[a].req = new[b].req
      BY <1>4, <3>1, <3>2
    <3> QED
      BY <3>1, <3>2, <3>3
  <2> QED
    BY <2>1, <2>2, <2>3, <2>4
<1>12. ASSUME NEW i \in DOMAIN out', NEW r \in Requests, r = out'[i].req
       PROVE  /\ Back(r)
              /\ r[2] = 0 => out'[i].tagged
              /\ r[2] # 0 => /\ <<r[1], r[2]>> \in Threads /\ r[3] \in DOMAIN kept[<<r[1], r[2]>>]
                             /\ out'[i].tagged <=> r[3] <= tagged'[<<r[1], r[2]>>]
              /\ IF r[2] = 0 THEN Collected(r[1], r[3])' ELSE Copied(<<r[1], r[2]>>)'
  <2>1. CASE i \in DOMAIN out
    <3>1. out[i].req = r /\ out'[i] = out[i]
      BY <1>4, <1>12, <2>1
    <3>2. /\ Back(r)
          /\ r[2] = 0 => out[i].tagged
          /\ r[2] # 0 => /\ <<r[1], r[2]>> \in Threads /\ r[3] \in DOMAIN kept[<<r[1], r[2]>>]
                         /\ out[i].tagged <=> r[3] <= tagged[<<r[1], r[2]>>]
      BY <1>1, <2>1, <3>1 DEF OutInv
    <3>3. IF r[2] = 0 THEN Collected(r[1], r[3]) ELSE Copied(<<r[1], r[2]>>)
      BY <1>9, <2>1, <3>1
    <3>4. CASE r[2] = 0
      BY <1>8, <3>1, <3>2, <3>3, <3>4
    <3>5. CASE r[2] # 0
      BY <3>1, <3>2, <3>3, <3>5
    <3> QED
      BY <3>4, <3>5
  <2>2. CASE i \notin DOMAIN out
    <3>1. PICK k \in DOMAIN new : i = Len(out) + k
      BY <1>5, <2>2
    <3>2. out'[i] = new[k] /\ new[k].req = r
      BY <1>4, <1>12, <3>1
    <3>3. CASE r[2] = 0
      BY <3>2, <3>3
    <3>4. CASE r[2] # 0
      BY <3>2, <3>4
    <3> QED
      BY <3>3, <3>4
  <2> QED
    BY <2>1, <2>2
<1>13. \A i \in DOMAIN out' : out'[i].req \in Requests
  BY <1>4, <1>5, <1>6, <1>7
<1>14. \A r : Back(r)' <=> Back(r)
  BY DEF Back
<1>15. OutInv'
  BY <1>11, <1>12, <1>13, <1>14 DEF OutInv, Back
<1>16. ASSUME NEW r \in Requests, r[2] = 0, Collected(r[1], r[3])'
       PROVE  \E i \in DOMAIN out' : out'[i].req = r
  <2>1. CASE Collected(r[1], r[3])
    <3>1. PICK i \in DOMAIN out : out[i].req = r
      BY <1>1, <1>16, <2>1 DEF CollectInv
    <3>2. i \in DOMAIN out' /\ out'[i].req = r
      BY <1>4, <3>1
    <3> QED
      BY <3>2
  <2>2. CASE \E k \in DOMAIN new : new[k].req = r
    <3>1. PICK k \in DOMAIN new : new[k].req = r
      BY <2>2
    <3>2. Len(out) + k \in DOMAIN out' /\ out'[Len(out) + k].req = r
      BY <1>4, <3>1
    <3> QED
      BY <3>2
  <2> QED
    BY <1>16, <2>1, <2>2
<1>17. CollectInv'
  BY <1>12, <1>13, <1>16 DEF CollectInv, Collected, Copied
<1> QED
  BY <1>4, <1>15, <1>17 DEF Sample

\* The flow at hand when its samples are tagged and copied
LEMMA FlowAtHand ==
  ASSUME BenchInv, main.pc \in {"tag", "extend"}
  PROVE  LET t == <<main.step, main.wave>>
         IN /\ t \in Threads /\ ~Copied(t)
            /\ kept[t] \in Seq(Requests) /\ Len(kept[t]) \in Nat /\ DOMAIN kept[t] = 1..Len(kept[t])
            /\ \A i \in DOMAIN kept[t] : kept[t][i] = <<main.step, main.wave, i>> /\ Back(kept[t][i])
            /\ main.wave # 0 /\ main.wave \in DOMAIN FlowNames
<1> DEFINE t == <<main.step, main.wave>>
<1>1. TypeOK /\ Typed /\ MainInv /\ FlowInv
  BY DEF BenchInv
<1>2. main.step \in Mixed /\ main.wave \in DOMAIN FlowNames
  BY <1>1 DEF MainInv
<1>3. t \in Threads /\ t[1] = main.step /\ t[2] = main.wave
  BY <1>2 DEF Threads
<1>4. main.step \in Nat /\ main.wave \in Nat \ {0}
  BY <1>1, MainTypes
<1>5. ~Copied(t)
  BY <1>3, <1>4 DEF Copied
<1> HIDE DEF t
<1>6. /\ kept[t] \in Seq(Requests) /\ Len(kept[t]) \in Nat /\ DOMAIN kept[t] = 1..Len(kept[t])
      /\ \A i \in DOMAIN kept[t] : kept[t][i] = <<main.step, main.wave, i>> /\ Back(kept[t][i])
  BY <1>1, <1>3, FlowFacts
<1> QED
  BY <1>2, <1>3, <1>4, <1>5, <1>6 DEF t

LEMMA TagFlowKeeps ==
  ASSUME BenchInv, TagFlow
  PROVE  BenchInv'
<1> DEFINE t == <<main.step, main.wave>>
<1>1. TypeOK /\ Typed /\ MainInv /\ FlowInv /\ OutInv /\ CollectInv
  BY DEF BenchInv
<1>2. /\ main.pc = "tag" /\ tagged' = [tagged EXCEPT ![t] = Len(kept[t])]
      /\ NextFlow \/ (main' = [main EXCEPT !.pc = "extend"] /\ flow' = flow)
      /\ kept' = kept /\ out' = out /\ status' = status /\ faults' = faults
      /\ UNCHANGED <<maps, foreign, server, jobVars, audit>>
  BY DEF TagFlow
<1>3. t \in Threads /\ ~Copied(t) /\ Len(kept[t]) \in Nat
  BY <1>1, <1>2, FlowAtHand
<1> HIDE DEF t
<1>4. /\ tagged' \in [Threads -> Nat]
      /\ \A u \in Threads : tagged'[u] = IF u = t THEN Len(kept[t]) ELSE tagged[u]
  BY <1>1, <1>2, <1>3 DEF Typed
<1>5. \A u \in Threads : tagged'[u] <= Len(kept[u])
  <2>1. \A u \in Threads : tagged[u] <= Len(kept[u])
    BY <1>1 DEF TypeOK
  <2> QED
    BY <1>3, <1>4, <2>1
<1>6. /\ main' \in [pc : {"send", "join", "tag", "extend", "report", "written", "raised"},
                    step : 1..(Len(Phases) + 1), wave : Nat \ {0}]
      /\ flow' \in [Threads -> {"off", "check", "sent", "dead", "done"}]
      /\ MainInv' /\ FlowInv' /\ Alive'
      /\ \A s \in Steps, n \in Nat \ {0} : Collected(s, n)' <=> Collected(s, n)
      /\ \A u \in Threads : Copied(u) => Copied(u)'
  <2>1. CASE NextFlow
    BY <1>1, <1>2, <2>1, NextFlowMoves
  <2>2. CASE main' = [main EXCEPT !.pc = "extend"] /\ flow' = flow
    <3>1. /\ main' \in [pc : {"send", "join", "tag", "extend", "report", "written", "raised"},
                        step : 1..(Len(Phases) + 1), wave : Nat \ {0}]
          /\ main'.pc = "extend" /\ main'.wave = main.wave /\ main'.step = main.step /\ main.step \in Nat
      BY <1>1, <2>2, MainTypes
    <3>2. MainInv'
      BY <1>1, <1>2, <3>1 DEF MainInv
    <3>3. FlowInv'
      BY <1>1, <1>2, <2>2, <3>1, FaultFacts, FlowKept DEF Back
    <3>4. Alive'
      BY <3>1 DEF Alive
    <3>5. \A s \in Steps, n \in Nat \ {0} : Collected(s, n)' <=> Collected(s, n)
      BY <1>2, <3>1 DEF Collected
    <3>6. \A u \in Threads : Copied(u) => Copied(u)'
      BY <1>2, <3>1 DEF Copied
    <3>7. flow' \in [Threads -> {"off", "check", "sent", "dead", "done"}]
      BY <1>1, <2>2 DEF TypeOK
    <3> QED
      BY <3>1, <3>2, <3>3, <3>4, <3>5, <3>6, <3>7
  <2> QED
    BY <1>2, <2>1, <2>2
<1>7. out' \in Seq([req : Requests, tagged : BOOLEAN]) /\ OutInv' /\ CollectInv'
  <2> DEFINE Sample == [req : Requests, tagged : BOOLEAN]
             new == <<>>
  <2>1. out \in Seq(Sample)
    BY <1>1 DEF Typed
  <2> HIDE DEF Sample
  <2>2. out' = out \o new /\ new \in Seq(Sample) /\ DOMAIN new = {}
    BY <1>2, <2>1, ConcatEmptySeq
  <2>3. \A u \in Threads : Copied(u) => tagged'[u] = tagged[u]
    BY <1>3, <1>4
  <2>4. \A r \in Requests : r[2] = 0 /\ Collected(r[1], r[3])' => Collected(r[1], r[3])
    BY <1>6, RequestFacts
  <2> HIDE DEF new
  <2>5. main.pc # "raised"
    BY <1>2
  <2> QED
    BY <1>2, <1>6, <2>2, <2>3, <2>4, <2>5, OutGrows DEF Sample
<1>8. Alive /\ faults' \in 0..MaxFaults /\ faults' >= faults
  BY <1>1, <1>2 DEF Alive, TypeOK
<1> QED
  BY <1>2, <1>4, <1>5, <1>6, <1>7, <1>8, MainOnly

LEMMA ExtendFlowKeeps ==
  ASSUME BenchInv, ExtendFlow
  PROVE  BenchInv'
<1>1. PICK t : t = <<main.step, main.wave>>
  OBVIOUS
<1>2. PICK new : new = [i \in DOMAIN kept[t] |-> [req |-> kept[t][i], tagged |-> i <= tagged[t]]]
  OBVIOUS
<1>3. TypeOK /\ Typed /\ MainInv /\ FlowInv /\ OutInv /\ CollectInv
  BY DEF BenchInv
<1>4. /\ main.pc = "extend" /\ out' = out \o new /\ NextFlow
      /\ kept' = kept /\ tagged' = tagged /\ status' = status /\ faults' = faults
      /\ UNCHANGED <<maps, foreign, server, jobVars, audit>>
  BY <1>1, <1>2 DEF ExtendFlow
<1>5. /\ t \in Threads /\ ~Copied(t) /\ t[1] = main.step /\ t[2] = main.wave /\ main.wave # 0
      /\ kept[t] \in Seq(Requests) /\ Len(kept[t]) \in Nat /\ DOMAIN kept[t] = 1..Len(kept[t])
      /\ \A i \in DOMAIN kept[t] : kept[t][i] = <<t[1], t[2], i>> /\ Back(kept[t][i])
  BY <1>3, <1>4, <1>1, FlowAtHand
<1>6. /\ main' \in [pc : {"send", "join", "tag", "extend", "report", "written", "raised"},
                    step : 1..(Len(Phases) + 1), wave : Nat \ {0}]
      /\ flow' \in [Threads -> {"off", "check", "sent", "dead", "done"}]
      /\ MainInv' /\ FlowInv' /\ Alive'
      /\ \A s \in Steps, n \in Nat \ {0} : Collected(s, n)' <=> Collected(s, n)
      /\ \A u \in Threads : Copied(u)' <=> Copied(u) \/ u = t
  BY <1>3, <1>4, <1>1, NextFlowMoves
<1>7. /\ new \in Seq([req : Requests, tagged : BOOLEAN]) /\ DOMAIN new = DOMAIN kept[t]
      /\ \A i \in DOMAIN new : new[i].req = <<t[1], t[2], i>> /\ (new[i].tagged <=> i <= tagged[t])
  <2> DEFINE Sample == [req : Requests, tagged : BOOLEAN]
  <2>1. \A i \in 1..Len(kept[t]) : kept[t][i] \in Requests
    BY <1>5
  <2>2. \A i \in 1..Len(kept[t]) : [req |-> kept[t][i], tagged |-> i <= tagged[t]] \in Sample
    BY <2>1
  <2>3. DOMAIN new = 1..Len(kept[t])
    BY <1>5, <1>2
  <2>4. \A i \in 1..Len(kept[t]) : new[i] = [req |-> kept[t][i], tagged |-> i <= tagged[t]]
    BY <1>5, <1>2
  <2>5. ASSUME NEW i \in 1..Len(kept[t])
        PROVE  new[i].req = <<t[1], t[2], i>> /\ (new[i].tagged <=> i <= tagged[t])
    <3>1. PICK b : b = (i <= tagged[t])
      OBVIOUS
    <3>2. new[i] = [req |-> kept[t][i], tagged |-> b]
      BY <2>4, <3>1, Zenon
    <3>3. new[i].req = kept[t][i] /\ new[i].tagged = b
      BY <3>2
    <3>4. kept[t][i] = <<t[1], t[2], i>>
      BY <1>5
    <3>5. new[i].tagged <=> i <= tagged[t]
      BY <3>1, <3>3, Zenon
    <3> QED
      BY <3>3, <3>4, <3>5
  <2> HIDE DEF Sample
  <2>6. new \in [1..Len(kept[t]) -> Sample]
    BY <1>5, <1>2, <2>2
  <2>7. new \in Seq(Sample)
    BY <1>5, <2>6
  <2> QED
    BY <1>5, <2>3, <2>5, <2>7 DEF Sample
<1>8. ASSUME NEW i \in DOMAIN new
      PROVE  LET r == new[i].req
             IN /\ Back(r)
                /\ IF r[2] = 0
                   THEN new[i].tagged /\ ~Collected(r[1], r[3]) /\ Collected(r[1], r[3])'
                   ELSE LET u == <<r[1], r[2]>>
                        IN /\ u \in Threads /\ r[3] \in DOMAIN kept[u]
                           /\ new[i].tagged <=> r[3] <= tagged'[u]
                           /\ ~Copied(u) /\ Copied(u)'
  <2>1. new[i].req = <<t[1], t[2], i>> /\ t[2] # 0 /\ <<t[1], t[2]>> = t /\ Back(new[i].req)
    <3>1. i \in DOMAIN kept[t] /\ new[i].req = <<t[1], t[2], i>>
      BY <1>7
    <3>2. kept[t][i] = <<t[1], t[2], i>> /\ Back(kept[t][i])
      BY <1>5, <3>1
    <3>3. <<t[1], t[2]>> = t /\ t[2] # 0
      BY <1>5, ThreadFacts
    <3> QED
      BY <3>1, <3>2, <3>3
  <2> DEFINE r == new[i].req
  <2>2. r[1] = t[1] /\ r[2] = t[2] /\ r[3] = i /\ <<r[1], r[2]>> = t
    BY <2>1
  <2>3. Copied(t)' /\ ~Copied(t) /\ t \in Threads /\ i \in DOMAIN kept[t]
    BY <1>5, <1>6, <1>7
  <2>4. new[i].tagged <=> i <= tagged'[t]
    BY <1>4, <1>7
  <2> QED
    BY <2>1, <2>2, <2>3, <2>4
<1>9. \A i, k \in DOMAIN new : new[i].req = new[k].req => i = k
  BY <1>7
<1>10. \A r \in Requests : r[2] = 0 /\ Collected(r[1], r[3])' => Collected(r[1], r[3])
  BY <1>6, RequestFacts
<1>11. out' \in Seq([req : Requests, tagged : BOOLEAN]) /\ OutInv' /\ CollectInv'
  <2>1. main.pc # "raised" /\ \A u \in Threads : Copied(u) => tagged'[u] = tagged[u]
    BY <1>4
  <2> QED
    BY <1>4, <1>6, <1>7, <1>8, <1>9, <1>10, <2>1, OutGrows
<1>12. Alive /\ faults' \in 0..MaxFaults /\ faults' >= faults
  BY <1>3, <1>4 DEF Alive, TypeOK
<1>13. tagged' \in [Threads -> Nat] /\ \A u \in Threads : tagged'[u] <= Len(kept[u])
  BY <1>3, <1>4 DEF TypeOK, Typed
<1> QED
  BY <1>4, <1>6, <1>11, <1>12, <1>13, MainOnly

\* What the main thread has once it collected the batch at hand
LEMMA CollectMoves ==
  ASSUME BenchInv, Collect
  PROVE  /\ main' \in [pc : {"send", "join", "tag", "extend", "report", "written", "raised"},
                       step : 1..(Len(Phases) + 1), wave : Nat \ {0}]
         /\ flow' \in [Threads -> {"off", "check", "sent", "dead", "done"}]
         /\ MainInv' /\ FlowInv' /\ Alive'
         /\ \A s \in Steps, n \in Nat \ {0} : Collected(s, n) => Collected(s, n)'
         /\ \A i \in 1..BatchSize : \A r \in Requests : r = Member(i) => Collected(r[1], r[3])'
         /\ \A r \in Requests : r[2] = 0 /\ Collected(r[1], r[3])' =>
              Collected(r[1], r[3]) \/ \E i \in 1..BatchSize : r = Member(i)
         /\ \A t \in Threads : Copied(t) => Copied(t)'
<1>1. TypeOK /\ Typed /\ MainInv /\ FlowInv
  BY DEF BenchInv
<1>2. /\ main.pc = "send" /\ kept' = kept /\ status' = status /\ faults' = faults
      /\ IF main.step \notin Mixed THEN Enter(main.step + 1)
         ELSE /\ main' = IF main.wave < Waves THEN [main EXCEPT !.wave = main.wave + 1]
                         ELSE [main EXCEPT !.pc = "join"]
              /\ flow' = flow
  BY DEF Collect
<1>3. /\ main.step \in Steps /\ main.step \in Nat /\ main.wave \in Nat \ {0}
      /\ main.wave <= (IF main.step \in Mixed THEN Waves ELSE 1)
  BY <1>1, <1>2, MainTypes DEF MainInv
<1>4. \A s \in Steps : s \in Nat
  BY Config
<1>5. \A r \in Requests :
        /\ r = <<r[1], r[2], r[3]>> /\ r[1] \in Steps /\ r[3] \in Nat \ {0}
        /\ r[2] = 0 => r[3] <= MainSize(r[1])
  BY RequestFacts
<1>6. CASE main.step \notin Mixed
  <2>1. /\ main' \in [pc : {"send", "join", "tag", "extend", "report", "written", "raised"},
                      step : 1..(Len(Phases) + 1), wave : Nat \ {0}]
        /\ flow' \in [Threads -> {"off", "check", "sent", "dead", "done"}]
        /\ MainInv' /\ FlowInv' /\ Alive'
        /\ \A s \in Steps, n \in Nat \ {0} : Collected(s, n)' <=> s <= main.step
        /\ \A t \in Threads : Copied(t)' <=> t[1] <= main.step
    BY <1>1, <1>2, <1>3, <1>6, EnterMoves
  <2>2. \A s \in Steps : \A n : Collected(s, n) <=> s < main.step
    BY <1>6 DEF Collected
  <2>3. \A i : Member(i) = <<main.step, 0, i>> /\ BatchSize = MainSize(main.step)
    BY <1>6 DEF Member, BatchSize
  <2>4. ASSUME NEW r \in Requests, r[2] = 0, Collected(r[1], r[3])', ~Collected(r[1], r[3])
        PROVE  \E i \in 1..BatchSize : r = Member(i)
    <3>1. r[1] = main.step
      BY <1>3, <1>4, <1>5, <2>1, <2>2, <2>4
    <3>2. r[3] \in 1..BatchSize
      BY <1>3, <1>5, <2>3, <2>4, <3>1, SizeFacts
    <3>3. r = Member(r[3])
      BY <1>5, <2>3, <2>4, <3>1
    <3> QED
      BY <3>2, <3>3
  <2>5. \A i \in 1..BatchSize : \A r \in Requests : r = Member(i) => Collected(r[1], r[3])'
    BY <1>3, <1>5, <2>1, <2>3
  <2>6. \A t \in Threads : Copied(t) => Copied(t)'
    BY <1>2, <1>3, <2>1, ThreadFacts DEF Copied
  <2>7. \A s \in Steps, n \in Nat \ {0} : Collected(s, n) => Collected(s, n)'
    BY <1>3, <1>4, <2>1, <2>2
  <2> QED
    BY <2>1, <2>4, <2>5, <2>6, <2>7
<1>7. CASE main.step \in Mixed
  <2>1. PICK w : w = main.wave + 1
    OBVIOUS
  <2>2. PICK p \in {"send", "join"}, v \in Nat \ {0} :
          /\ main' \in [pc : {"send", "join", "tag", "extend", "report", "written", "raised"},
                        step : 1..(Len(Phases) + 1), wave : Nat \ {0}]
          /\ main'.pc = p /\ main'.wave = v /\ main'.step = main.step
          /\ IF main.wave < Waves THEN p = "send" /\ v = main.wave + 1 ELSE p = "join" /\ v = main.wave
    <3>1. CASE main.wave < Waves
      <4>1. w \in Nat \ {0} /\ main' = [main EXCEPT !.wave = w]
        BY <1>2, <1>3, <1>7, <2>1, <3>1
      <4>2. main \in [pc : {"send", "join", "tag", "extend", "report", "written", "raised"},
                      step : 1..(Len(Phases) + 1), wave : Nat \ {0}]
        BY <1>1 DEF TypeOK
      <4>3. /\ main' \in [pc : {"send", "join", "tag", "extend", "report", "written", "raised"},
                          step : 1..(Len(Phases) + 1), wave : Nat \ {0}]
            /\ main'.pc = "send" /\ main'.wave = w /\ main'.step = main.step
        <5> DEFINE PP == {"send", "join", "tag", "extend", "report", "written", "raised"}
                   I == 1..(Len(Phases) + 1)
                   W == Nat \ {0}
        <5> HIDE DEF PP, I, W
        <5>1. main \in [pc : PP, step : I, wave : W] /\ w \in W
          BY <4>1, <4>2 DEF PP, I, W
        <5>2. /\ main' \in [pc : PP, step : I, wave : W]
              /\ main'.pc = main.pc /\ main'.wave = w /\ main'.step = main.step
          BY <4>1, <5>1
        <5> QED
          BY <1>2, <5>2 DEF PP, I, W
      <4> QED
        BY <2>1, <3>1, <4>1, <4>3
    <3>2. CASE ~(main.wave < Waves)
      <4>1. main' = [main EXCEPT !.pc = "join"]
        BY <1>2, <1>7, <3>2
      <4> QED
        BY <1>1, <1>3, <3>2, <4>1, MainTypes
    <3> QED
      BY <3>1, <3>2
  <2>3. flow' = flow
    BY <1>2, <1>7
  <2>4. MainInv'
    BY <1>3, <1>7, <2>2, Config DEF MainInv
  <2>5. FlowInv'
    BY <1>1, <1>2, <1>3, <2>2, <2>3, FaultFacts, FlowKept DEF Back
  <2>6. Alive'
    BY <2>2 DEF Alive
  <2>7. flow' \in [Threads -> {"off", "check", "sent", "dead", "done"}]
    BY <1>1, <2>3 DEF TypeOK
  <2>8. \A t \in Threads : Copied(t) => Copied(t)'
    BY <1>2, <2>2 DEF Copied
  <2>9. PICK b \in Nat : b = (main.wave - 1) * Sessions
    BY <1>3, WavePlace
  <2>10. /\ \A i : Member(i) = <<main.step, 0, b + i>>
         /\ BatchSize = Sessions /\ Sessions \in Nat \ {0}
         /\ main.wave * Sessions = b + Sessions
    BY <1>3, <1>7, <2>9, WavePlace, Config DEF Member, BatchSize
  <2>11. PICK st \in Steps : st = main.step
    BY <1>3
  <2>12. \A n : Collected(st, n) <=> n <= b
    BY <1>2, <1>3, <1>7, <2>9, <2>11 DEF Collected
  <2>13. \A s \in Steps : \A n : s # main.step => (Collected(s, n)' <=> Collected(s, n))
    BY <2>2 DEF Collected
  <2>14. ASSUME NEW n \in 1..MainSize(main.step)
         PROVE  Collected(st, n)' => n <= b + Sessions
    <3>1. MainSize(main.step) = Waves * Sessions /\ Waves * Sessions \in Nat
      BY <1>3, <1>7, SizeFacts
    <3>2. CASE main.wave < Waves
      BY <1>3, <2>2, <2>10, <2>11, <3>2 DEF Collected
    <3>3. CASE ~(main.wave < Waves)
      <4>1. main.wave = Waves
        BY <1>3, <1>7, <3>3, Config
      <4>2. n <= Waves * Sessions
        BY <3>1
      <4>3. Waves * Sessions = b + Sessions
        BY <2>10, <4>1
      <4> QED
        BY <4>2, <4>3
    <3> QED
      BY <3>2, <3>3
  <2>15. \A n \in Nat : n <= b + Sessions => Collected(st, n)'
    <3>1. CASE main.wave < Waves
      BY <1>3, <1>7, <2>2, <2>10, <2>11, <3>1 DEF Collected
    <3>2. CASE ~(main.wave < Waves)
      BY <1>7, <2>2, <2>11, <3>2 DEF Collected
    <3> QED
      BY <3>1, <3>2
  <2>16. ASSUME NEW s \in Steps, NEW n \in Nat \ {0}, Collected(s, n) PROVE Collected(s, n)'
    <3>1. CASE s = main.step
      BY <2>10, <2>12, <2>15, <2>16, <2>11, <3>1
    <3>2. CASE s # main.step
      BY <2>13, <2>16, <3>2
    <3> QED
      BY <3>1, <3>2
  <2>17. ASSUME NEW i \in 1..BatchSize, NEW r \in Requests, r = Member(i) PROVE Collected(r[1], r[3])'
    <3>1. r[1] = main.step /\ r[3] = b + i /\ b + i \in Nat /\ b + i <= b + Sessions
      BY <2>10, <2>17
    <3> QED
      BY <2>15, <2>11, <3>1
  <2>18. ASSUME NEW r \in Requests, r[2] = 0, Collected(r[1], r[3])', ~Collected(r[1], r[3])
         PROVE  \E i \in 1..BatchSize : r = Member(i)
    <3>1. r[1] = main.step
      BY <1>5, <2>13, <2>18
    <3>2. r[3] <= b + Sessions /\ ~(r[3] <= b)
      BY <1>3, <1>5, <2>12, <2>14, <2>18, <2>11, <3>1, SizeFacts
    <3>3. r[3] - b \in 1..BatchSize /\ b + (r[3] - b) = r[3]
      BY <1>5, <2>10, <3>2
    <3>4. r = Member(r[3] - b)
      BY <1>5, <2>10, <2>18, <3>1, <3>3
    <3> QED
      BY <3>3, <3>4
  <2> QED
    BY <2>2, <2>4, <2>5, <2>6, <2>7, <2>8, <2>16, <2>17, <2>18
<1> QED
  BY <1>6, <1>7

LEMMA CollectKeeps ==
  ASSUME BenchInv, Collect
  PROVE  BenchInv'
<1>1. PICK new : new = [i \in 1..BatchSize |-> [req |-> Member(i), tagged |-> TRUE]]
  OBVIOUS
<1>2. TypeOK /\ Typed /\ MainInv
  BY DEF BenchInv
<1>3. /\ main.pc = "send" /\ In(Batch, {"text", "blank"}) = Batch /\ out' = out \o new
      /\ kept' = kept /\ tagged' = tagged /\ status' = status /\ faults' = faults
      /\ UNCHANGED <<maps, foreign, server, jobVars, audit>>
  BY <1>1 DEF Collect
<1>4. /\ BatchSize \in Nat
      /\ \A i \in 1..BatchSize :
           /\ Member(i) \in Requests /\ Member(i)[1] = main.step /\ Member(i)[2] = 0
           /\ ~Collected(main.step, Member(i)[3])
           /\ \A k \in 1..BatchSize : Member(k) = Member(i) => k = i
  BY <1>2, <1>3, BatchFacts
<1>5. \A i \in 1..BatchSize : Back(Member(i))
  <2> SUFFICES ASSUME NEW i \in 1..BatchSize PROVE Back(Member(i))
    OBVIOUS
  <2>1. Member(i) \in Batch
    BY DEF Batch
  <2>2. Member(i) \in In(Batch, {"text", "blank"})
    BY <1>3, <2>1
  <2> QED
    BY <2>2 DEF In, Back
<1>6. /\ main' \in [pc : {"send", "join", "tag", "extend", "report", "written", "raised"},
                    step : 1..(Len(Phases) + 1), wave : Nat \ {0}]
      /\ flow' \in [Threads -> {"off", "check", "sent", "dead", "done"}]
      /\ MainInv' /\ FlowInv' /\ Alive'
      /\ \A s \in Steps, n \in Nat \ {0} : Collected(s, n) => Collected(s, n)'
      /\ \A i \in 1..BatchSize : \A r \in Requests : r = Member(i) => Collected(r[1], r[3])'
      /\ \A r \in Requests : r[2] = 0 /\ Collected(r[1], r[3])' =>
           Collected(r[1], r[3]) \/ \E i \in 1..BatchSize : r = Member(i)
      /\ \A t \in Threads : Copied(t) => Copied(t)'
  BY CollectMoves
<1>7. /\ new \in Seq([req : Requests, tagged : BOOLEAN]) /\ DOMAIN new = 1..BatchSize
      /\ \A i \in 1..BatchSize : new[i].req = Member(i) /\ new[i].tagged
  <2> DEFINE Sample == [req : Requests, tagged : BOOLEAN]
  <2>1. \A i \in 1..BatchSize : [req |-> Member(i), tagged |-> TRUE] \in Sample
    BY <1>4
  <2>2. \A i \in 1..BatchSize : new[i].req = Member(i) /\ new[i].tagged
    BY <1>1
  <2> HIDE DEF Sample
  <2>3. new \in [1..BatchSize -> Sample] /\ DOMAIN new = 1..BatchSize
    BY <1>1, <2>1
  <2>4. new \in Seq(Sample)
    BY <1>4, <2>3
  <2> QED
    BY <2>2, <2>3, <2>4 DEF Sample
<1>8. ASSUME NEW i \in DOMAIN new
      PROVE  LET r == new[i].req
             IN /\ Back(r)
                /\ IF r[2] = 0
                   THEN new[i].tagged /\ ~Collected(r[1], r[3]) /\ Collected(r[1], r[3])'
                   ELSE LET u == <<r[1], r[2]>>
                        IN /\ u \in Threads /\ r[3] \in DOMAIN kept[u]
                           /\ new[i].tagged <=> r[3] <= tagged'[u]
                           /\ ~Copied(u) /\ Copied(u)'
  <2>1. PICK r \in Requests : r = new[i].req
    BY <1>4, <1>7
  <2>2. r = Member(i) /\ r[1] = main.step /\ r[2] = 0 /\ ~Collected(r[1], r[3]) /\ Back(r) /\ new[i].tagged
    BY <1>4, <1>5, <1>7, <2>1
  <2>3. Collected(r[1], r[3])'
    BY <1>6, <1>7, <2>2
  <2> QED
    BY <2>1, <2>2, <2>3
<1>9. \A i, k \in DOMAIN new : new[i].req = new[k].req => i = k
  BY <1>4, <1>7
<1>10. \A r \in Requests : r[2] = 0 /\ Collected(r[1], r[3])' =>
         Collected(r[1], r[3]) \/ \E i \in DOMAIN new : new[i].req = r
  BY <1>6, <1>7
<1>11. out' \in Seq([req : Requests, tagged : BOOLEAN]) /\ OutInv' /\ CollectInv'
  <2>1. main.pc # "raised" /\ \A u \in Threads : Copied(u) => tagged'[u] = tagged[u]
    BY <1>3
  <2> QED
    BY <1>3, <1>6, <1>7, <1>8, <1>9, <1>10, <2>1, OutGrows
<1>12. Alive /\ faults' \in 0..MaxFaults /\ faults' >= faults
  BY <1>2, <1>3 DEF Alive, TypeOK
<1>13. tagged' \in [Threads -> Nat] /\ \A u \in Threads : tagged'[u] <= Len(kept[u])
  BY <1>2, <1>3 DEF TypeOK, Typed
<1> QED
  BY <1>3, <1>6, <1>11, <1>12, <1>13, MainOnly

-----------------------------------------------------------------------------
(* The inductive invariant holds throughout *)

LEMMA BenchStart ==
  ASSUME Init
  PROVE  BenchInv
<1>1. /\ main = [pc |-> "send", step |-> 1, wave |-> 1]
      /\ flow = [t \in Threads |-> IF t[1] = 1 THEN "check" ELSE "off"]
      /\ kept = [t \in Threads |-> <<>>] /\ tagged = [t \in Threads |-> 0] /\ out = <<>>
      /\ status = [r \in Requests |-> "unsent"] /\ maps = [r \in Requests |-> 0] /\ foreign = {}
      /\ server = "up" /\ jobs = <<>> /\ pending = {} /\ returned = {}
      /\ engineRows = [j \in 1..MaxJobs |-> 0] /\ ledger = [j \in 1..MaxJobs |-> 0]
      /\ audit = "none" /\ faults = 0
  BY DEF Init
<1>2. /\ main.pc = "send" /\ main.step = 1 /\ main.wave = 1
      /\ Len(Phases) \in Nat /\ 1 \in Steps /\ 1 \in 1..(Len(Phases) + 1)
  BY <1>1, Config
<1>3. main \in [pc : {"send", "join", "tag", "extend", "report", "written", "raised"},
                step : 1..(Len(Phases) + 1), wave : Nat \ {0}]
  BY <1>1, <1>2
<1>4. \A t \in Threads : /\ flow[t] = IF t[1] = 1 THEN "check" ELSE "off"
                         /\ kept[t] = <<>> /\ Len(kept[t]) = 0 /\ DOMAIN kept[t] = {} /\ tagged[t] = 0
  BY <1>1
<1>5. \A r \in Requests : status[r] = "unsent" /\ maps[r] = 0
  BY <1>1
<1>6. DOMAIN out = {} /\ DOMAIN jobs = {} /\ Len(jobs) = 0
  BY <1>1
<1>7. MaxJobs \in Nat /\ MaxFaults \in Nat /\ MaxFlow \in Nat
  BY Config
<1>8. TypeOK
  <2>1. flow \in [Threads -> {"off", "check", "sent", "dead", "done"}]
    BY <1>1
  <2>2. \A t \in Threads : tagged[t] <= Len(kept[t]) /\ Range(kept[t]) \subseteq Requests
    BY <1>4 DEF Range
  <2>3. status \in [Requests -> {"unsent", "sent", "running", "text", "blank", "failed"}]
    BY <1>1
  <2>4. maps \in [Requests -> 0..(MaxFaults + 1)]
    BY <1>1, <1>7
  <2>5. jobs \in Seq([req : Requests, local : BOOLEAN, done : BOOLEAN])
    BY <1>1
  <2> QED
    BY <1>1, <1>3, <1>6, <1>7, <2>1, <2>2, <2>3, <2>4, <2>5 DEF TypeOK
<1>9. Typed
  <2>1. kept \in [Threads -> Seq(Requests)]
    BY <1>1
  <2>2. out \in Seq([req : Requests, tagged : BOOLEAN])
    BY <1>1
  <2>3. tagged \in [Threads -> Nat] /\ engineRows \in [1..MaxJobs -> Nat] /\ ledger \in [1..MaxJobs -> Nat]
    BY <1>1
  <2> QED
    BY <1>6, <1>7, <2>1, <2>2, <2>3 DEF Typed
<1>10. MainInv
  BY <1>2, Config DEF MainInv
<1>11. RequestInv
  BY <1>1, <1>5 DEF RequestInv
<1>12. FlowInv
  <2> SUFFICES ASSUME NEW t \in Threads
               PROVE  /\ t[1] > main.step => flow[t] = "off"
                      /\ Len(kept[t]) <= MaxFlow
                      /\ \A i \in DOMAIN kept[t] : kept[t][i] = <<t[1], t[2], i>> /\ Back(kept[t][i])
                      /\ flow[t] \notin {"sent", "dead"}
                      /\ \A n \in (Len(kept[t]) + 1)..MaxFlow : status[<<t[1], t[2], n>>] = "unsent"
    BY DEF FlowInv
  <2>1. \A n \in (Len(kept[t]) + 1)..MaxFlow : <<t[1], t[2], n>> \in Requests
    BY <1>4, <1>7, RequestFacts
  <2> QED
    BY <1>2, <1>4, <1>5, <1>7, <2>1, ThreadFacts
<1>13. OutInv
  BY <1>6 DEF OutInv
<1>14. CollectInv
  <2>1. \A s \in Steps, n \in Nat \ {0} : ~Collected(s, n)
    <3> SUFFICES ASSUME NEW s \in Steps, NEW n \in Nat \ {0} PROVE ~Collected(s, n)
      OBVIOUS
    <3>1. (1 - 1) * Sessions = 0 /\ ~(s < 1)
      BY Config
    <3> QED
      BY <1>2, <3>1 DEF Collected
  <2> QED
    BY <1>6, <2>1, RequestFacts DEF CollectInv
<1>15. JobInv
  BY <1>1, <1>6 DEF JobInv
<1>16. EndInv
  BY <1>1, <1>2 DEF EndInv, Alive
<1> QED
  BY <1>8, <1>9, <1>10, <1>11, <1>12, <1>13, <1>14, <1>15, <1>16 DEF BenchInv

LEMMA NextKeeps ==
  ASSUME BenchInv, [Next]_vars
  PROVE  BenchInv'
<1>1. CASE MainStep
  <2>1. CASE JoinFlows \/ JoinTimesOut
    BY <2>1, LeaveJoinKeeps DEF JoinFlows, JoinTimesOut
  <2> QED
    BY <1>1, <2>1, MainSendKeeps, CollectKeeps, MainRaisesKeeps, TagFlowKeeps, ExtendFlowKeeps, ReportKeeps
       DEF MainStep
<1>2. ASSUME NEW t \in Threads, FlowStep(t) PROVE BenchInv'
  BY <1>2, FlowSendsKeeps, FlowKeepsKeeps, FlowEndsKeeps DEF FlowStep
<1>3. ASSUME NEW r \in Requests, ServerStep(r) PROVE BenchInv'
  BY <1>3, ArriveKeeps, ResendKeeps, AnswerKeeps, FailKeeps, SubmitJobKeeps DEF ServerStep
<1>4. CASE JobStep
  BY <1>4, PollKeeps, FinishJobKeeps, RecordKeeps DEF JobStep
<1>5. CASE BenchTimesOut
  BY <1>5, BenchTimesOutKeeps
<1>6. CASE StopServe
  BY <1>6, StopServeKeeps
<1>7. CASE ShutDown
  BY <1>7, ShutDownKeeps
<1>8. CASE Kill
  BY <1>8, KillKeeps
<1>9. CASE Audit
  BY <1>9, AuditKeeps
<1>10. CASE UNCHANGED vars
  <2>1. UNCHANGED <<clientVars, status, maps, foreign, server, jobVars, audit, faults>>
    BY <1>10 DEF vars
  <2>2. main' = main /\ flow' = flow /\ kept' = kept /\ tagged' = tagged /\ out' = out
    BY <2>1 DEF clientVars
  <2>3. jobs' = jobs /\ pending' = pending /\ returned' = returned /\ engineRows' = engineRows /\ ledger' = ledger
    BY <2>1 DEF jobVars
  <2>4. status' = status /\ maps' = maps /\ foreign' = foreign /\ server' = server /\ audit' = audit /\ faults' = faults
    BY <2>1
  <2>5. (TypeOK /\ Typed)'
    BY <2>2, <2>3, <2>4 DEF BenchInv, TypeOK, Typed
  <2>6. (MainInv /\ RequestInv /\ FlowInv)'
    BY <2>2, <2>3, <2>4 DEF BenchInv, MainInv, RequestInv, FlowInv, Unseen, Back
  <2>7. (OutInv /\ CollectInv)'
    BY <2>2, <2>3, <2>4 DEF BenchInv, OutInv, CollectInv, Collected, Copied, Back
  <2>8. JobInv'
    BY <2>2, <2>3, <2>4 DEF BenchInv, JobInv, Unseen
  <2>9. AuditGroup' = AuditGroup /\ Rounded' = Rounded /\ Alive' = Alive /\ \A t : Late(t)' = Late(t)
    BY <2>2, <2>3, <2>4 DEF AuditGroup, SamplesJoin, JobsJoin, Recorded, Sampled, Rounded, Alive, Late
  <2>10. EndInv'
    BY <2>2, <2>4, <2>9 DEF BenchInv, EndInv
  <2> QED
    BY <2>5, <2>6, <2>7, <2>8, <2>10 DEF BenchInv
<1> QED
  BY <1>1, <1>2, <1>3, <1>4, <1>5, <1>6, <1>7, <1>8, <1>9, <1>10 DEF Next

THEOREM BenchInvariant == Spec => []BenchInv
<1>1. Init => BenchInv
  BY BenchStart
<1>2. BenchInv /\ [Next]_vars => BenchInv'
  BY NextKeeps
<1> QED
  BY <1>1, <1>2, PTL DEF Spec

-----------------------------------------------------------------------------
(* What the audit says *)

\* A request is at most one sample.
LEMMA SampledFacts ==
  ASSUME OutInv, NEW r
  PROVE  /\ Sampled(r) \in {0, 1}
         /\ Sampled(r) > 0 <=> \E i \in DOMAIN out : out[i].req = r
<1> DEFINE I == {i \in DOMAIN out : out[i].req = r}
<1>1. CASE \E i \in DOMAIN out : out[i].req = r
  <2>1. PICK i \in DOMAIN out : out[i].req = r
    BY <1>1
  <2>2. I = {i}
    BY <2>1 DEF OutInv
  <2>3. Cardinality(I) = 1
    BY <2>2, FS_Singleton
  <2> QED
    BY <1>1, <2>3 DEF Sampled
<1>2. CASE ~\E i \in DOMAIN out : out[i].req = r
  <2>1. I = {}
    BY <1>2
  <2>2. Cardinality(I) = 0
    BY <2>1, FS_EmptySet
  <2> QED
    BY <1>2, <2>2 DEF Sampled
<1> QED
  BY <1>1, <1>2

\* In a group whose samples were written, a sample is a complete one if the map
\* has its request once.
LEMMA JoinedFacts ==
  ASSUME BenchInv, main.pc = "written", NEW r \in Requests
  PROVE  Joined(r) <=> maps[r] = 1 /\ r \notin foreign /\ Sampled(r) > 0
<1>1. Typed /\ OutInv /\ EndInv
  BY DEF BenchInv
<1>2. ASSUME Joined(r) PROVE maps[r] = 1 /\ r \notin foreign /\ Sampled(r) > 0
  <2>1. PICK i \in DOMAIN out : out[i] = [req |-> r, tagged |-> TRUE]
    BY <1>2 DEF Joined
  <2>2. out[i].req = r
    BY <2>1
  <2> QED
    BY <1>1, <1>2, <2>2, SampledFacts DEF Joined
<1>3. ASSUME maps[r] = 1, r \notin foreign, Sampled(r) > 0 PROVE Joined(r)
  <2>1. PICK i \in DOMAIN out : out[i].req = r
    BY <1>1, <1>3, SampledFacts
  <2>2. Back(r) /\ \A k \in DOMAIN out : out[k].req = r => k = i
    BY <1>1, <2>1 DEF OutInv
  <2>3. out[i] \in [req : Requests, tagged : BOOLEAN] /\ out[i].tagged
    BY <1>1, SampleTypes DEF EndInv, Rounded
  <2>4. out[i].tagged = TRUE
    BY <2>3
  <2>5. out[i] = [req |-> r, tagged |-> TRUE]
    BY <2>1, <2>3, <2>4
  <2> QED
    BY <1>3, <2>2, <2>5 DEF Joined, Back
<1> QED
  BY <1>2, <1>3

LEMMA SamplesFacts ==
  ASSUME BenchInv, NEW r
  PROVE  r \in {o.req : o \in Range(out)} <=> Sampled(r) > 0
  BY SampledFacts DEF BenchInv, Range

\* The samples join exactly when every request in the map or sampled is a
\* complete sample.
LEMMA JoinFacts ==
  ASSUME BenchInv, main.pc = "written"
  PROVE  SamplesJoin <=> RequestsJoined
<1>1. \A r \in Requests : Joined(r) <=> maps[r] = 1 /\ r \notin foreign /\ Sampled(r) > 0
  BY JoinedFacts
<1>2. \A r \in Requests : maps[r] \in Nat
  BY Config DEF BenchInv, TypeOK
<1>3. \A r : (r \in {o.req : o \in Range(out)} <=> Sampled(r) > 0) /\ Sampled(r) \in {0, 1}
  BY SamplesFacts, SampledFacts DEF BenchInv
<1>4. SamplesJoin <=> \A r \in Requests : (Sampled(r) > 0 => r \notin foreign /\ maps[r] = 1) /\ (maps[r] > 0 => Sampled(r) > 0)
  BY <1>3 DEF SamplesJoin
<1>5. RequestsJoined <=> \A r \in Requests : maps[r] > 0 \/ Sampled(r) > 0 => maps[r] = 1 /\ r \notin foreign /\ Sampled(r) > 0
  BY <1>1, <1>3 DEF RequestsJoined
<1> QED
  BY <1>2, <1>4, <1>5

LEMMA AuditMeans ==
  ASSUME BenchInv
  PROVE  AuditTellsJoins
<1>1. TypeOK /\ JobInv /\ EndInv
  BY DEF BenchInv
<1>2. ASSUME audit # "none"
      PROVE  main.pc = "written" /\ (audit = "PASS" <=> SamplesJoin /\ JobsJoin)
  <2>1. main.pc = "written" /\ audit = AuditGroup
    BY <1>1, <1>2 DEF EndInv
  <2> QED
    BY <2>1 DEF AuditGroup
<1>3. audit = "PASS" => RequestsJoined
  BY <1>2, JoinFacts
<1>4. ASSUME audit # "none", server = "stopped"
      PROVE  audit = "PASS" <=> RequestsJoined /\ \A j \in DOMAIN jobs : ledger[j] = 1 /\ Joined(jobs[j].req)
  <2>1. DOMAIN jobs \subseteq 1..MaxJobs /\ pending = {}
    BY <1>1, <1>4, JobFacts DEF JobInv
  <2>2. \A j \in DOMAIN jobs : ledger[j] = 1 /\ jobs[j].req \in Requests
    BY <2>1, JobFacts
  <2>3. \A j \in DOMAIN jobs :
          Joined(jobs[j].req) <=> /\ maps[jobs[j].req] = 1 /\ jobs[j].req \notin foreign
                                  /\ Sampled(jobs[j].req) > 0
    BY <1>2, <1>4, <2>2, JoinedFacts
  <2>4. JobsJoin <=> \A j \in DOMAIN jobs : /\ jobs[j].req \notin foreign
                                            /\ Sampled(jobs[j].req) > 0 /\ maps[jobs[j].req] > 0
    BY <2>2 DEF JobsJoin, Recorded
  <2>5. ASSUME SamplesJoin, NEW j \in DOMAIN jobs, Sampled(jobs[j].req) > 0 PROVE maps[jobs[j].req] = 1
    BY <2>2, <2>5 DEF SamplesJoin
  <2>6. SamplesJoin => (JobsJoin <=> \A j \in DOMAIN jobs : Joined(jobs[j].req))
    BY <2>3, <2>4, <2>5
  <2> QED
    BY <1>2, <1>4, <2>2, <2>6, JoinFacts
<1> QED
  BY <1>1, <1>3, <1>4 DEF AuditTellsJoins

\* A verdict of the audit means what it says: PASS only if every request of the
\* map is one complete, tagged sample; after a clean stop exactly if every tier
\* job, too, is in the ledger once and belongs to such a sample.
THEOREM AuditTellsTheJoins == Spec => []AuditTellsJoins
<1>1. BenchInv => AuditTellsJoins
  BY AuditMeans
<1> QED
  BY <1>1, BenchInvariant, PTL

-----------------------------------------------------------------------------
(* What is thrown away *)

\* Without a fault and a late flow, every request the map knows is a sample.
LEMMA NothingLost ==
  ASSUME BenchInv, main.pc = "written", faults = 0, ~\E t \in Threads : Late(t),
         NEW r \in Requests, ~Unseen(r)
  PROVE  Sampled(r) > 0 /\ maps[r] = 1 /\ r \notin foreign
<1>1. TypeOK /\ Typed /\ MainInv /\ RequestInv /\ FlowInv /\ OutInv /\ CollectInv
  BY DEF BenchInv
<1>2. status[r] \in {"running", "text"}
  BY <1>1 DEF RequestInv, TypeOK, Unseen
<1>3. maps[r] = 1 /\ r \notin foreign
  BY <1>1, <1>2 DEF RequestInv
<1>4. /\ r = <<r[1], r[2], r[3]>> /\ r[1] \in Steps /\ r[3] \in Nat \ {0}
      /\ r[2] # 0 => <<r[1], r[2]>> \in Threads /\ r[3] \in 1..MaxFlow
  BY RequestFacts
<1>5. CASE r[2] = 0
  <2>1. main.step = Len(Phases) + 1
    BY <1>1 DEF MainInv
  <2>2. r[1] < main.step
    BY <1>4, <2>1, Config
  <2>3. Collected(r[1], r[3])
    BY <2>2 DEF Collected
  <2>4. \E i \in DOMAIN out : out[i].req = r
    BY <1>1, <1>5, <2>3 DEF CollectInv
  <2> QED
    BY <1>1, <1>3, <2>4, SampledFacts
<1>6. CASE r[2] # 0
  <2>1. PICK t \in Threads : t = <<r[1], r[2]>>
    BY <1>4, <1>6
  <2>2. flow[t] \notin {"sent", "dead"}
    BY <1>1, <2>1 DEF Late, FlowInv
  <2>3. r = <<t[1], t[2], r[3]>> /\ status[r] # "unsent"
    BY <1>2, <1>4, <2>1
  <2>4. r[3] \in DOMAIN kept[t]
    <3>1. r[3] \notin (Len(kept[t]) + 1)..MaxFlow
      BY <1>1, <2>2, <2>3, FlowFacts
    <3> QED
      BY <1>1, <1>4, <1>6, <3>1, FlowFacts
  <2>5. kept[t][r[3]] = r
    BY <1>1, <2>3, <2>4, FlowFacts
  <2>6. [req |-> r, tagged |-> TRUE] \in Range(out)
    BY <2>1, <2>4, <2>5 DEF Late
  <2>7. PICK i \in DOMAIN out : out[i] = [req |-> r, tagged |-> TRUE]
    BY <2>6 DEF Range
  <2>8. out[i].req = r
    BY <2>7
  <2> QED
    BY <1>1, <1>3, <2>8, SampledFacts
<1> QED
  BY <1>5, <1>6

LEMMA RejectedForReason ==
  ASSUME BenchInv
  PROVE  UndisturbedPasses
<1> SUFFICES ASSUME audit = "FAIL" \/ main.pc = "raised", faults = 0, ~\E t \in Threads : Late(t)
             PROVE  FALSE
  BY FaultFacts DEF UndisturbedPasses, BenchInv
<1>1. TypeOK /\ RequestInv /\ OutInv /\ JobInv /\ EndInv
  BY DEF BenchInv
<1>2. main.pc # "raised"
  BY <1>1 DEF EndInv
<1>3. main.pc = "written" /\ server \in {"stopped", "killed"} /\ ~(SamplesJoin /\ JobsJoin)
  BY <1>1, <1>2 DEF EndInv, AuditGroup
<1>4. server = "stopped" /\ pending = {}
  BY <1>1, <1>3 DEF JobInv
<1>5. \A r \in Requests : ~Unseen(r) => Sampled(r) > 0 /\ maps[r] = 1 /\ r \notin foreign
  BY <1>3, NothingLost
<1>6. SamplesJoin
  <2> SUFFICES ASSUME NEW r \in Requests
               PROVE  /\ Sampled(r) > 0 => Sampled(r) = 1 /\ r \notin foreign /\ maps[r] = 1
                      /\ maps[r] > 0 => Sampled(r) > 0
    BY DEF SamplesJoin
  <2>1. maps[r] > 0 => ~Unseen(r)
    BY <1>1 DEF RequestInv
  <2>2. Sampled(r) > 0 => ~Unseen(r)
    BY <1>1, SampledFacts DEF OutInv, Back, Unseen
  <2>3. Sampled(r) > 0 => Sampled(r) = 1
    BY <1>1, SampledFacts
  <2> QED
    BY <1>5, <2>1, <2>2, <2>3
<1>7. JobsJoin
  <2> SUFFICES ASSUME NEW j \in DOMAIN jobs
               PROVE  /\ ledger[j] = 1 /\ jobs[j].req \notin foreign
                      /\ Sampled(jobs[j].req) > 0 /\ maps[jobs[j].req] > 0
    BY DEF JobsJoin, Recorded
  <2>1. jobs[j].req \in Requests /\ ~Unseen(jobs[j].req) /\ ledger[j] = 1
    BY <1>4, JobFacts
  <2> QED
    BY <1>5, <2>1
<1> QED
  BY <1>3, <1>6, <1>7

\* A group is thrown away only for a reason: the client raised or the audit said
\* FAIL only after a fault, or when a flow's last request came back too late.
THEOREM UndisturbedGroupPasses == Spec => []UndisturbedPasses
<1>1. BenchInv => UndisturbedPasses
  BY RejectedForReason
<1> QED
  BY <1>1, BenchInvariant, PTL
=============================================================================
