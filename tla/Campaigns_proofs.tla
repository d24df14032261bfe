--------------------------- MODULE Campaigns_proofs ---------------------------
(***************************************************************************)
(* Proofs about the campaigns, for any number of windows, pairs or runs,   *)
(* jobs and passes and any number of things going wrong.  First what a     *)
(* wave of jobs keeps (WaveSafe) and what its steps may do to the unit of  *)
(* work around it (WaveEffect); then, each with an inductive invariant of  *)
(* its own, PairedCampaign (CampaignInv) and NoiseCampaign (NoiseInv).     *)
(* Proofs about the one cite no assumption of the other.                   *)
(***************************************************************************)
EXTENDS PairedCampaign, NoiseCampaign, ListLemmas

InArm == pc \in {"submit", "poll", "drained", "waved", "close"}

\* The ledger also knows of every result but one with the id 0, which is no
\* job's, and holds no result of a job that is still worked on.
Known0(t, j) == j = 0 \/ Known(t, j)
LedgerKnows ==
  /\ 0 \notin tier.pending
  /\ \A r \in ToSet(tier.finished) : r.id \notin tier.working /\ Known0(tier, r.id)

\* There is a tier exactly while an arm or run is in hand, and it works only
\* for the wave in hand, of which nothing is left when the wave is over.
WaveShape ==
  /\ first >= 1 /\ (stage = "store" => first = 1)
  /\ tier.up <=> InArm
  /\ raised => pc \in {"close", "remove"}
  /\ tier.working \subseteq WaveIds
  /\ pc \in {"submit", "drained", "waved"} \/ (pc = "close" /\ ~raised) => tier.working = {}
  /\ pc = "waved" => tier.finished = <<>>

WaveSafe == WaveTypeOK /\ LedgerAgrees(tier, raised) /\ LedgerKnows /\ WaveShape

\* The checks of the wave in hand are going to fail.
FailedJob == \E j \in WaveIds : [id |-> j, ok |-> FALSE] \in tier.completed \cup ToSet(tier.finished)
LostFile ==
  \E c \in Chunks : files[here][c] # "whole" /\ \A j \in tier.working : ChunkOf(j) # c
WaveFails ==
  \/ pc \in {"poll", "drained", "waved"} /\ stage # "warmup" /\ FailedJob
  \/ pc \in {"poll", "drained", "waved"} /\ stage = "store" /\ LostFile

\* What a step of the wave may do to the arm or run: any harm it does shows, as
\* an exception, as dropped events or in the checks of the wave.
WaveEffect ==
  /\ UNCHANGED <<stage, first, here>>
  /\ InArm /\ InArm' /\ (pc = "close" => pc' = "close")
  /\ raised => raised'
  /\ tier.dropped => tier'.dropped
  /\ WaveFails => raised' \/ WaveFails'
  /\ harm \subseteq harm'
  /\ \A h \in harm' :
       h \in harm \/ (stage = "warmup" /\ h = <<"warmup", "failed">>)
         \/ raised' \/ tier'.dropped \/ WaveFails'
-----------------------------------------------------------------------------
(* The observer *)

\* The tier with other results to hand out
LEMMA Refilled ==
  ASSUME NEW t \in Tier, NEW f \in Seq(Result)
  PROVE  LET u == [t EXCEPT !.finished = f]
         IN /\ u \in Tier /\ u.finished = f
            /\ u.up = t.up /\ u.working = t.working /\ u.pending = t.pending
            /\ u.completed = t.completed /\ u.dropped = t.dropped
BY DEF Tier

LEMMA SubmitType ==
  ASSUME NEW t \in Tier, NEW j \in Nat
  PROVE  Submit(t, j) \in Tier
  BY DEF Submit, Tier

\* A wave submitted job by job
LEMMA SubmitFold ==
  ASSUME NEW t \in Tier, NEW n \in Nat, NEW q \in [1..n -> Nat]
  PROVE  \E p \in [0..n -> Tier] :
           /\ p[0] = t /\ p[n] = FoldLeft(Submit, t, q)
           /\ \A k \in 0..(n - 1) : p[k + 1] = Submit(p[k], q[k + 1])
<1> DEFINE R(it, s) == Submit(it[s \ {Max(s)}], q[Max(s)])
           F(it) == [s \in SUBSET (DOMAIN q) |-> IF s = {} THEN t ELSE R(it, s)]
           f == CHOOSE it : it = F(it)
<1>1. FoldLeft(Submit, t, q) = f[DOMAIN q]
  BY Zenon DEF FoldLeft, MapThenFoldSet
<1>2. DOMAIN q = 1..n
  OBVIOUS
<1> DEFINE r == [x \in Tier \X (1..n) |-> Submit(x[1], q[x[2]])]
<1>3. r \in [Tier \X (1..n) -> Tier]
  BY SubmitType
<1>4. \A u \in Tier, i \in 1..n : r[<<u, i>>] = Submit(u, q[i])
  OBVIOUS
<1> HIDE DEF r
<1>5. PICK g \in [SUBSET (1..n) -> Tier] : FoldsUp(g, n, t, r)
  BY <1>3, FoldExists
<1>6. g = F(g)
  <2>1. ASSUME NEW s \in SUBSET (1..n), s # {} PROVE r[<<g[s \ {Max(s)}], Max(s)>>] = R(g, s)
    <3>1. Max(s) \in 1..n
      BY <2>1, GreatestUpTo
    <3>2. g[s \ {Max(s)}] \in Tier
      OBVIOUS
    <3> QED
      BY <1>4, <3>1, <3>2
  <2> HIDE DEF R
  <2>2. g = [s \in SUBSET (1..n) |-> IF s = {} THEN t ELSE R(g, s)]
    BY <1>5, <2>1 DEF FoldsUp
  <2> QED
    BY <1>2, <2>2
<1>7. f = F(f)
  <2> HIDE DEF R
  <2> QED
    BY <1>6, Zenon
<1>8. \A s \in SUBSET (1..n) : f[s] = IF s = {} THEN t ELSE R(f, s)
  <2> HIDE DEF R, f
  <2> QED
    BY <1>2, <1>7
<1> HIDE DEF f
<1> DEFINE p == [k \in 0..n |-> f[1..k]]
<1>9. \A k \in 0..(n - 1) : p[k + 1] = Submit(p[k], q[k + 1])
  <2> SUFFICES ASSUME NEW k \in 0..(n - 1) PROVE f[1..k + 1] = Submit(f[1..k], q[k + 1])
    BY SMT
  <2> HIDE DEF p
  <2> QED
    BY <1>8, UpToLast
<1>10. p[0] = t /\ p[n] = FoldLeft(Submit, t, q)
  <2>1. 1..0 = {} /\ {} \in SUBSET (1..n) /\ 0 \in 0..n /\ n \in 0..n
    OBVIOUS
  <2> QED
    BY <1>1, <1>2, <1>8, <2>1
<1> HIDE DEF p
<1> DEFINE U == {k \in 0..n : p[k] \in Tier}
<1>11. \A k \in 0..n : k \in U
  <2>1. 0 \in U
    BY <1>10
  <2>2. \A k \in 0..(n - 1) : k \in U => k + 1 \in U
    BY <1>9, SubmitType
  <2> HIDE DEF U
  <2> QED
    BY <2>1, <2>2, UpTo
<1>12. p \in [0..n -> Tier]
  BY <1>11 DEF p
<1> QED
  BY <1>9, <1>10, <1>12

\* What get_finished_jobs keeps while it goes through a batch
Polls == [tier : Tier, raised : BOOLEAN]

LEMMA ObserveType ==
  ASSUME NEW p \in Polls, NEW r \in Result
  PROVE  Observe(p, r) \in Polls
BY DEF Observe, Polls, Tier, Result

\* A batch observed result by result
LEMMA ObserveFold ==
  ASSUME NEW t \in Polls, NEW n \in Nat, NEW q \in [1..n -> Result]
  PROVE  \E p \in [0..n -> Polls] :
           /\ p[0] = t /\ p[n] = FoldLeft(Observe, t, q)
           /\ \A k \in 0..(n - 1) : p[k + 1] = Observe(p[k], q[k + 1])
<1> DEFINE R(it, s) == Observe(it[s \ {Max(s)}], q[Max(s)])
           F(it) == [s \in SUBSET (DOMAIN q) |-> IF s = {} THEN t ELSE R(it, s)]
           f == CHOOSE it : it = F(it)
<1>1. FoldLeft(Observe, t, q) = f[DOMAIN q]
  BY Zenon DEF FoldLeft, MapThenFoldSet
<1>2. DOMAIN q = 1..n
  OBVIOUS
<1> DEFINE r == [x \in Polls \X (1..n) |-> Observe(x[1], q[x[2]])]
<1>3. r \in [Polls \X (1..n) -> Polls]
  BY ObserveType
<1>4. \A u \in Polls, i \in 1..n : r[<<u, i>>] = Observe(u, q[i])
  OBVIOUS
<1> HIDE DEF r
<1>5. PICK g \in [SUBSET (1..n) -> Polls] : FoldsUp(g, n, t, r)
  BY <1>3, FoldExists
<1>6. g = F(g)
  <2>1. ASSUME NEW s \in SUBSET (1..n), s # {} PROVE r[<<g[s \ {Max(s)}], Max(s)>>] = R(g, s)
    <3>1. Max(s) \in 1..n
      BY <2>1, GreatestUpTo
    <3>2. g[s \ {Max(s)}] \in Polls
      OBVIOUS
    <3> QED
      BY <1>4, <3>1, <3>2
  <2> HIDE DEF R
  <2>2. g = [s \in SUBSET (1..n) |-> IF s = {} THEN t ELSE R(g, s)]
    BY <1>5, <2>1 DEF FoldsUp
  <2> QED
    BY <1>2, <2>2
<1>7. f = F(f)
  <2> HIDE DEF R
  <2> QED
    BY <1>6, Zenon
<1>8. \A s \in SUBSET (1..n) : f[s] = IF s = {} THEN t ELSE R(f, s)
  <2> HIDE DEF R, f
  <2> QED
    BY <1>2, <1>7
<1> HIDE DEF f
<1> DEFINE p == [k \in 0..n |-> f[1..k]]
<1>9. \A k \in 0..(n - 1) : p[k + 1] = Observe(p[k], q[k + 1])
  <2> SUFFICES ASSUME NEW k \in 0..(n - 1) PROVE f[1..k + 1] = Observe(f[1..k], q[k + 1])
    BY SMT
  <2> HIDE DEF p
  <2> QED
    BY <1>8, UpToLast
<1>10. p[0] = t /\ p[n] = FoldLeft(Observe, t, q)
  <2>1. 1..0 = {} /\ {} \in SUBSET (1..n) /\ 0 \in 0..n /\ n \in 0..n
    OBVIOUS
  <2> QED
    BY <1>1, <1>2, <1>8, <2>1
<1> HIDE DEF p
<1> DEFINE U == {k \in 0..n : p[k] \in Polls}
<1>11. \A k \in 0..n : k \in U
  <2>1. 0 \in U
    BY <1>10
  <2>2. \A k \in 0..(n - 1) : k \in U => k + 1 \in U
    BY <1>9, ObserveType
  <2> HIDE DEF U
  <2> QED
    BY <2>1, <2>2, UpTo
<1>12. p \in [0..n -> Polls]
  BY <1>11 DEF p
<1> QED
  BY <1>9, <1>10, <1>12

\* What a poll of the tier does: without an exception it completes exactly
\* the jobs of the batch; with one, some of them.
LEMMA PollResult ==
  ASSUME NEW t \in Tier,
         \A r, s \in t.completed : r.id = s.id => r = s,
         \A r \in t.completed : r.id \notin t.pending
  PROVE  LET poll == GetFinishedJobs(t)
             u == poll.tier
         IN /\ u \in Tier /\ poll.raised \in BOOLEAN
            /\ u.up = t.up /\ u.working = t.working /\ u.dropped = t.dropped /\ u.finished = <<>>
            /\ u.pending \subseteq t.pending
            /\ \A j \in t.pending : j \in u.pending \/ \E r \in ToSet(t.finished) : r.id = j
            /\ t.completed \subseteq u.completed
            /\ u.completed \subseteq t.completed \cup ToSet(t.finished)
            /\ \A r, s \in u.completed : r.id = s.id => r = s
            /\ \A r \in u.completed : r.id \notin u.pending
            /\ ~poll.raised => \A r \in ToSet(t.finished) : r \in u.completed
            /\ t.finished = <<>> => u = t /\ ~poll.raised
<1> DEFINE q == t.finished
           n == Len(t.finished)
           b == [tier |-> [t EXCEPT !.finished = <<>>], raised |-> FALSE]
<1>1. n \in Nat /\ q \in [1..n -> Result] /\ DOMAIN q = 1..n /\ b \in Polls
  <2>1. q \in Seq(Result)
    BY DEF Tier
  <2>a. <<>> \in Seq(Result)
    OBVIOUS
  <2>2. [t EXCEPT !.finished = <<>>] \in Tier
    BY <2>a, Refilled
  <2> QED
    BY <2>1, <2>2 DEF Polls
<1>2. b.tier.up = t.up /\ b.tier.working = t.working /\ b.tier.dropped = t.dropped
      /\ b.tier.finished = <<>> /\ b.tier.pending = t.pending /\ b.tier.completed = t.completed
      /\ b.raised = FALSE
  BY DEF Tier
<1>3. ToSet(q) = {q[i] : i \in 1..n}
  BY <1>1 DEF ToSet
<1>4. GetFinishedJobs(t) = FoldLeft(Observe, b, q)
  BY DEF GetFinishedJobs
<1> HIDE DEF q, n, b
<1>5. PICK p \in [0..n -> Polls] :
        /\ p[0] = b /\ p[n] = FoldLeft(Observe, b, q)
        /\ \A k \in 0..(n - 1) : p[k + 1] = Observe(p[k], q[k + 1])
  BY <1>1, ObserveFold
<1> DEFINE Kept(v) ==
             /\ v.up = t.up /\ v.working = t.working /\ v.dropped = t.dropped /\ v.finished = <<>>
             /\ v.pending \subseteq t.pending /\ t.completed \subseteq v.completed
             /\ \A r, s \in v.completed : r.id = s.id => r = s
             /\ \A r \in v.completed : r.id \notin v.pending
           Seen(v, k) ==
             /\ \A j \in t.pending : j \in v.pending \/ \E i \in 1..k : q[i].id = j
             /\ \A r \in v.completed : r \in t.completed \/ \E i \in 1..k : r = q[i]
           All(w, k) == ~w.raised => \A i \in 1..k : q[i] \in w.tier.completed
           U == {k \in 0..n : Kept(p[k].tier) /\ Seen(p[k].tier, k) /\ All(p[k], k)}
<1>6. 0 \in U
  <2>1. 0 \in 0..n
    BY <1>1
  <2>2. Kept(b.tier) /\ Seen(b.tier, 0) /\ All(b, 0)
    BY <1>2
  <2> HIDE DEF Kept, Seen, All
  <2> QED
    BY <1>5, <2>1, <2>2
<1>7. ASSUME NEW k \in 0..(n - 1), k \in U PROVE k + 1 \in U
  <2>1. k + 1 \in 0..n /\ k + 1 \in 1..n /\ k \in 0..n /\ 1..k + 1 = 1..k \cup {k + 1}
    BY <1>1
  <2> DEFINE v == p[k]
             r == q[k + 1]
             w == p[k + 1]
  <2>2. v \in Polls /\ v.tier \in Tier /\ v.raised \in BOOLEAN /\ r \in Result /\ w = Observe(v, r)
    BY <1>1, <1>5, <2>1 DEF Polls
  <2>3. Kept(v.tier) /\ Seen(v.tier, k) /\ All(v, k)
    BY <1>7
  <2> HIDE DEF v, w
  <2>4. CASE v.raised
    <3>1. w = v
      BY <2>2, <2>4 DEF Observe
    <3>2. Seen(w.tier, k + 1) /\ All(w, k + 1)
      BY <2>1, <2>3, <2>4, <3>1
    <3> HIDE DEF Kept, Seen, All
    <3> QED
      BY <2>1, <2>3, <3>1, <3>2 DEF w
  <2>5. CASE ~v.raised /\ r.id \notin v.tier.pending
    <3>1. w.tier = v.tier /\ w.raised
      BY <2>2, <2>5 DEF Observe, Polls
    <3>2. Seen(w.tier, k + 1) /\ All(w, k + 1)
      BY <2>1, <2>3, <3>1
    <3> HIDE DEF Kept, Seen, All
    <3> QED
      BY <2>1, <2>3, <3>1, <3>2 DEF w
  <2>6. CASE ~v.raised /\ r.id \in v.tier.pending
    <3> DEFINE x == v.tier
               y == w.tier
    <3>1. /\ y.up = x.up /\ y.working = x.working /\ y.dropped = x.dropped /\ y.finished = x.finished
          /\ y.pending = x.pending \ {r.id} /\ y.completed = x.completed \cup {r} /\ w.raised = v.raised
      BY <2>2, <2>6 DEF Observe, Polls, Tier
    <3> HIDE DEF x, y
    <3>2. Kept(x) /\ Seen(x, k) /\ (\A i \in 1..k : q[i] \in x.completed) /\ r.id \in x.pending
      BY <2>3, <2>6 DEF x
    <3>3. Kept(y)
      <4>1. \A d \in x.completed : d.id # r.id
        BY <3>2
      <4>2. \A d, e \in y.completed : d.id = e.id => d = e
        <5> SUFFICES ASSUME NEW d \in y.completed, NEW e \in y.completed, d.id = e.id PROVE d = e
          OBVIOUS
        <5>1. (d = r \/ d \in x.completed) /\ (e = r \/ e \in x.completed)
          BY <3>1
        <5> QED
          BY <3>2, <4>1, <5>1
      <4>3. \A d \in y.completed : d.id \notin y.pending
        BY <3>1, <3>2
      <4> QED
        BY <3>1, <3>2, <4>2, <4>3
    <3>4. Seen(y, k + 1)
      <4>1. ASSUME NEW j \in t.pending PROVE j \in y.pending \/ \E i \in 1..k + 1 : q[i].id = j
        BY <2>1, <3>1, <3>2
      <4>2. ASSUME NEW d \in y.completed PROVE d \in t.completed \/ \E i \in 1..k + 1 : d = q[i]
        BY <2>1, <3>1, <3>2
      <4> QED
        BY <4>1, <4>2
    <3>5. \A i \in 1..k + 1 : q[i] \in y.completed
      BY <2>1, <3>1, <3>2
    <3>6. Kept(w.tier) /\ Seen(w.tier, k + 1) /\ All(w, k + 1)
      BY <3>3, <3>4, <3>5 DEF y
    <3> HIDE DEF Kept, Seen, All
    <3> QED
      BY <2>1, <3>6 DEF w
  <2> QED
    BY <2>2, <2>4, <2>5, <2>6
<1>8. n \in U
  <2> HIDE DEF U
  <2>1. \A k \in 0..(n - 1) : k \in U => k + 1 \in U
    BY <1>7
  <2>2. n \in Nat /\ n \in 0..n
    BY <1>1
  <2>3. \A k \in 0..n : k \in U
    BY <1>6, <2>1, <2>2, UpTo
  <2> QED
    BY <2>2, <2>3
<1> DEFINE u == p[n].tier
<1>9. GetFinishedJobs(t) = p[n]
  BY <1>4, <1>5
<1>10. Kept(u) /\ Seen(u, n) /\ All(p[n], n) /\ p[n] \in Polls
  BY <1>1, <1>5, <1>8
<1>11. u \in Tier /\ p[n].raised \in BOOLEAN
  BY <1>10 DEF Polls
<1>12. /\ \A j \in t.pending : j \in u.pending \/ \E r \in ToSet(q) : r.id = j
       /\ u.completed \subseteq t.completed \cup ToSet(q)
       /\ ~p[n].raised => \A r \in ToSet(q) : r \in u.completed
  BY <1>3, <1>10
<1>13. q = <<>> => u = t /\ ~p[n].raised
  <2> SUFFICES ASSUME q = <<>> PROVE u = t /\ ~p[n].raised
    OBVIOUS
  <2>1. n = 0
    BY DEF n, q
  <2>2. b.tier = t
    BY DEF b, q, Tier
  <2> QED
    BY <1>2, <1>5, <2>1, <2>2
<1> HIDE DEF u, U
<1> QED
  BY <1>9, <1>10, <1>11, <1>12, <1>13, Zenon DEF u, q

\* What submitting a wave, or a part of it, does
Submitted(t, q) == FoldLeft(Submit, t, q)

LEMMA SubmitResult ==
  ASSUME NEW t \in Tier, NEW n \in Nat, NEW q \in [1..n -> Nat]
  PROVE  LET u == Submitted(t, q)
         IN /\ u \in Tier
            /\ u.up = t.up /\ u.finished = t.finished /\ u.completed = t.completed /\ u.dropped = t.dropped
            /\ u.pending = t.pending \cup {q[k] : k \in 1..n}
            /\ u.working = t.working \cup {q[k] : k \in 1..n}
<1>1. PICK p \in [0..n -> Tier] :
        /\ p[0] = t /\ p[n] = FoldLeft(Submit, t, q)
        /\ \A k \in 0..(n - 1) : p[k + 1] = Submit(p[k], q[k + 1])
  BY SubmitFold
<1> DEFINE Done(u, k) ==
             /\ u.up = t.up /\ u.finished = t.finished /\ u.completed = t.completed /\ u.dropped = t.dropped
             /\ u.pending = t.pending \cup {q[i] : i \in 1..k}
             /\ u.working = t.working \cup {q[i] : i \in 1..k}
           U == {k \in 0..n : Done(p[k], k)}
<1>2. 0 \in U
  BY <1>1
<1>3. ASSUME NEW k \in 0..(n - 1), k \in U PROVE k + 1 \in U
  <2>1. k + 1 \in 0..n /\ k \in 0..n /\ 1..k + 1 = 1..k \cup {k + 1} /\ k + 1 \in 1..n
    OBVIOUS
  <2> DEFINE v == p[k]
             w == p[k + 1]
             j == q[k + 1]
  <2>2. v \in Tier /\ w = Submit(v, j)
    BY <1>1, <2>1
  <2>3. Done(v, k)
    BY <1>3
  <2> HIDE DEF v, w
  <2>4. /\ w.up = v.up /\ w.finished = v.finished /\ w.completed = v.completed /\ w.dropped = v.dropped
        /\ w.pending = v.pending \cup {j} /\ w.working = v.working \cup {j}
    BY <2>2 DEF Submit, Tier
  <2>5. {q[i] : i \in 1..k + 1} = {q[i] : i \in 1..k} \cup {j}
    BY <2>1
  <2> HIDE DEF j
  <2>6. Done(w, k + 1)
    BY <2>3, <2>4, <2>5
  <2> HIDE DEF Done
  <2> QED
    BY <2>1, <2>6 DEF w
<1> HIDE DEF U
<1>a. \A k \in 0..(n - 1) : k \in U => k + 1 \in U
  BY <1>3
<1>b. \A k \in 0..n : k \in U
  BY <1>2, <1>a, UpTo
<1>4. n \in 0..n /\ n \in U
  BY <1>b
<1>5. Done(p[n], n) /\ p[n] \in Tier
  BY <1>4 DEF U
<1>6. p[n] = Submitted(t, q)
  BY <1>1, Zenon DEF Submitted
<1> QED
  BY <1>5, <1>6

LEMMA AppendedSet ==
  ASSUME NEW E, NEW q \in Seq(E), NEW e \in E
  PROVE  Append(q, e) \in Seq(E) /\ ToSet(Append(q, e)) = ToSet(q) \cup {e}
<1> DEFINE a == Append(q, e)
           n == Len(q)
<1>1. a \in Seq(E) /\ Len(a) = n + 1 /\ n \in Nat
      /\ \A i \in 1..n + 1 : a[i] = IF i \in 1..n THEN q[i] ELSE e
  OBVIOUS
<1>2. DOMAIN a = 1..n + 1 /\ DOMAIN q = 1..n
  BY <1>1
<1> HIDE DEF a
<1>3. ToSet(a) \subseteq ToSet(q) \cup {e}
  BY <1>1, <1>2 DEF ToSet
<1>4. ToSet(q) \subseteq ToSet(a)
  BY <1>1, <1>2 DEF ToSet
<1>5. e \in ToSet(a)
  <2>1. n + 1 \in 1..n + 1 /\ a[n + 1] = e
    BY <1>1
  <2> QED
    BY <1>2, <2>1 DEF ToSet
<1> QED
  BY <1>1, <1>3, <1>4, <1>5 DEF a

\* The tier when a job ends, or something else comes as a result
WithResult(t, w, e) == [t EXCEPT !.working = w, !.finished = Append(t.finished, e)]

LEMMA ResultAdded ==
  ASSUME NEW t \in Tier, NEW e \in Result, NEW w \in SUBSET t.working, NEW u,
         u = WithResult(t, w, e)
  PROVE  /\ u \in Tier
         /\ u.working = w /\ ToSet(u.finished) = ToSet(t.finished) \cup {e}
         /\ u.up = t.up /\ u.pending = t.pending /\ u.completed = t.completed /\ u.dropped = t.dropped
<1> DEFINE f == Append(t.finished, e)
<1>1. t.finished \in Seq(Result) /\ w \in SUBSET Nat
  BY DEF Tier
<1>2. f \in Seq(Result) /\ ToSet(f) = ToSet(t.finished) \cup {e}
  BY <1>1, AppendedSet
<1> HIDE DEF f
<1>a. u = [t EXCEPT !.working = w, !.finished = f]
  BY Zenon DEF f, WithResult
<1>3. u \in Tier /\ u.working = w /\ u.finished = f
      /\ u.up = t.up /\ u.pending = t.pending /\ u.completed = t.completed /\ u.dropped = t.dropped
  BY <1>1, <1>2, <1>a DEF Tier
<1> QED
  BY <1>2, <1>3 DEF f

LEMMA TierFacts ==
  /\ NewTier \in Tier /\ NoTier \in Tier /\ NewTier.up = TRUE /\ NoTier.up = FALSE
  /\ \A t \in {NewTier, NoTier} :
       /\ t.working = {} /\ t.finished = <<>> /\ t.pending = {} /\ t.completed = {} /\ t.dropped = FALSE
       /\ ToSet(t.finished) = {}
<1>1. <<>> \in Seq(Result) /\ ToSet(<<>>) = {}
  BY DEF ToSet
<1>2. NewTier \in Tier /\ NewTier.up = TRUE
  BY <1>1 DEF NewTier, Tier
<1>3. /\ NewTier.working = {} /\ NewTier.finished = <<>> /\ NewTier.pending = {}
      /\ NewTier.completed = {} /\ NewTier.dropped = FALSE
  BY DEF NewTier
<1>4. /\ NoTier \in Tier /\ NoTier.up = FALSE
      /\ NoTier.working = NewTier.working /\ NoTier.finished = NewTier.finished
      /\ NoTier.pending = NewTier.pending /\ NoTier.completed = NewTier.completed
      /\ NoTier.dropped = NewTier.dropped
  BY <1>2 DEF NoTier, Tier
<1> QED
  BY <1>1, <1>2, <1>3, <1>4

\* The ledger of a tier that has done nothing yet
LEMMA FreshLedger ==
  ASSUME tier' \in {NewTier, NoTier}
  PROVE  LedgerAgrees(tier, raised)' /\ LedgerKnows'
BY TierFacts DEF LedgerAgrees, LedgerKnows

-----------------------------------------------------------------------------
(* The steps of the wave *)

\* A job of the wave moves a chunk of its own.
LEMMA ChunkFacts ==
  /\ \A j \in WaveIds : first \in Nat => ChunkOf(j) \in Chunks
  /\ first = 1 => \A i, j \in WaveIds : ChunkOf(i) = ChunkOf(j) => i = j
<1> DEFINE n == NChunks
<1>1. n \in Nat /\ n >= 1
  BY WaveAssumption
<1> HIDE DEF n
<1>2. ASSUME NEW j \in WaveIds, first \in Nat PROVE ChunkOf(j) \in Chunks
  <2>1. j \in Int
    BY <1>2 DEF WaveIds
  <2>2. (j - 1) % n \in 0..(n - 1)
    BY <1>1, <2>1
  <2>3. ChunkOf(j) = ((j - 1) % n) + 1
    BY DEF ChunkOf, n
  <2> QED
    BY <1>1, <2>2, <2>3 DEF Chunks, n
<1>3. ASSUME first = 1, NEW j \in WaveIds PROVE ChunkOf(j) = j
  <2>1. j \in 1..n
    BY <1>3, <1>1 DEF WaveIds, n
  <2>2. (j - 1) % n = j - 1
    BY <1>1, <2>1
  <2> QED
    BY <2>1, <2>2 DEF ChunkOf, n
<1> QED
  BY <1>2, <1>3

\* What WaveSafe says, in one place
LEMMA SafeWave ==
  ASSUME WaveSafe
  PROVE  /\ tier \in Tier /\ raised \in BOOLEAN /\ stage \in Stages /\ first \in Nat /\ here \in Dirs
         /\ files \in [Dirs -> [Chunks -> FileStates]] /\ memory \in [Chunks -> MemoryStates]
         /\ faults \in 0..MaxFaults /\ harm \subseteq Harms
         /\ LedgerAgrees(tier, raised) /\ LedgerKnows /\ WaveShape
         /\ tier.working \subseteq WaveIds /\ tier.working \subseteq tier.pending /\ 0 \notin tier.working
         /\ \A j \in WaveIds : j \in Nat
<1>1. tier \in Tier /\ first \in Nat
  BY DEF WaveSafe, WaveTypeOK
<1>2. LedgerAgrees(tier, raised) /\ LedgerKnows /\ WaveShape
  BY DEF WaveSafe
<1>3. tier.working \subseteq WaveIds /\ tier.working \subseteq tier.pending /\ 0 \notin tier.working
  BY <1>2 DEF LedgerAgrees, LedgerKnows, WaveShape
<1>4. \A j \in WaveIds : j \in Nat
  BY <1>1 DEF WaveIds
<1> QED
  BY <1>1, <1>2, <1>3, <1>4 DEF WaveSafe, WaveTypeOK

LEMMA JobEndsStep ==
  ASSUME WaveSafe, JobEnds
  PROVE  WaveSafe' /\ WaveEffect
<1>1. PICK j \in tier.working, ok \in BOOLEAN :
        /\ tier.up
        /\ tier' = [tier EXCEPT !.working = @ \ {j}, !.finished = Append(@, [id |-> j, ok |-> ok])]
        /\ IF stage = "store" THEN StoreEnds(ChunkOf(j), ok) ELSE LoadEnds(ChunkOf(j), ok)
        /\ UNCHANGED <<pc, raised, stage, first, here>>
  BY DEF JobEnds
<1> DEFINE e == [id |-> j, ok |-> ok]
           c == ChunkOf(j)
<1>2. tier \in Tier /\ first \in Nat /\ j \in WaveIds /\ j \in Nat /\ j \in tier.pending /\ j # 0
  BY SafeWave
<1>3. /\ tier' \in Tier
      /\ tier'.working = tier.working \ {j} /\ ToSet(tier'.finished) = ToSet(tier.finished) \cup {e}
      /\ tier'.up = tier.up /\ tier'.pending = tier.pending /\ tier'.completed = tier.completed
      /\ tier'.dropped = tier.dropped
  <2>1. tier.working \ {j} \in SUBSET tier.working
    OBVIOUS
  <2>2. tier' = WithResult(tier, tier.working \ {j}, e)
    BY <1>1, Zenon DEF WithResult
  <2>3. e \in Result
    BY <1>2 DEF Result
  <2> HIDE DEF e
  <2> QED
    BY <1>2, <2>1, <2>2, <2>3, ResultAdded
<1>4. c \in Chunks
  BY <1>2, ChunkFacts
<1>5. pc \in {"poll", "close"} /\ (pc = "close" => raised) /\ InArm /\ InArm'
  <2>1. InArm
    BY <1>1 DEF WaveSafe, WaveShape
  <2>2. tier.working # {}
    BY <1>1
  <2> QED
    BY <1>1, <2>1, <2>2 DEF WaveSafe, WaveShape, InArm
<1> HIDE DEF e, c
<1>6. WaveTypeOK'
  <2>1. files' \in [Dirs -> [Chunks -> FileStates]]
    <3>1. files \in [Dirs -> [Chunks -> FileStates]] /\ here \in Dirs
      BY DEF WaveSafe, WaveTypeOK
    <3>2. files' = files \/ \E g \in FileStates : files' = [files EXCEPT ![here][c] = g]
      BY <1>1 DEF StoreEnds, LoadEnds, c
    <3> QED
      BY <1>4, <3>1, <3>2
  <2>2. memory' \in [Chunks -> MemoryStates]
    BY <1>1, <1>4 DEF WaveSafe, WaveTypeOK, StoreEnds, LoadEnds, c
  <2>3. faults' \in 0..MaxFaults
    <3>1. faults' = faults \/ (faults < MaxFaults /\ faults' = faults + 1)
      BY <1>1 DEF StoreEnds, LoadEnds, FaultIf, Fault
    <3>2. faults \in 0..MaxFaults /\ MaxFaults \in Nat
      BY WaveAssumption DEF WaveSafe, WaveTypeOK
    <3> QED
      BY <3>1, <3>2
  <2>4. harm' \subseteq Harms
    <3>1. stage \in Stages /\ harm \subseteq Harms
      BY DEF WaveSafe, WaveTypeOK
    <3>2. \A h \in harm' : h \in harm \/ h = <<stage, "failed">> \/ h = <<"lost", "file">>
      BY <1>1 DEF StoreEnds, LoadEnds
    <3>3. <<stage, "failed">> \in Harms /\ <<"lost", "file">> \in Harms
      BY <3>1 DEF Harms
    <3> QED
      BY <3>1, <3>2, <3>3
  <2>5. raised' \in BOOLEAN /\ stage' \in Stages /\ first' \in Nat /\ here' \in Dirs
    BY <1>1 DEF WaveSafe, WaveTypeOK
  <2> QED
    BY <1>3, <2>1, <2>2, <2>3, <2>4, <2>5 DEF WaveTypeOK
<1>7. LedgerAgrees(tier, raised)' /\ LedgerKnows'
  <2>1. LedgerAgrees(tier, raised) /\ LedgerKnows
    BY DEF WaveSafe
  <2>2. e.id = j
    BY DEF e
  <2>3. LedgerAgrees(tier, raised)'
    BY <1>1, <1>3, <2>1, <2>2 DEF LedgerAgrees
  <2>4. LedgerKnows'
    BY <1>1, <1>2, <1>3, <2>1, <2>2 DEF LedgerAgrees, LedgerKnows, Known0, Known
  <2> QED
    BY <2>3, <2>4
<1>8. WaveShape'
  BY <1>1, <1>3, <1>5 DEF WaveSafe, WaveShape, InArm, WaveIds
<1>9. WaveEffect
  <2>1. harm \subseteq harm' /\ \A h \in harm' : h \in harm \/ (h = <<stage, "failed">> /\ ~ok)
                                               \/ (h = <<"lost", "file">> /\ stage = "store" /\ files'[here][c] # "whole")
    <3>1. stage = "store" => \E g \in FileStates :
             /\ files' = [files EXCEPT ![here][c] = g]
             /\ harm' = harm \cup (IF ~ok THEN {<<stage, "failed">>} ELSE {})
                    \cup (IF ok /\ g # "whole" THEN {<<"lost", "file">>} ELSE {})
      BY <1>1 DEF StoreEnds, c
    <3>2. stage # "store" => harm' = harm \cup (IF ~ok THEN {<<stage, "failed">>} ELSE {})
      BY <1>1 DEF LoadEnds
    <3>3. files \in [Dirs -> [Chunks -> FileStates]] /\ here \in Dirs
      BY DEF WaveSafe, WaveTypeOK
    <3>4. CASE stage = "store"
      <4>1. PICK g \in FileStates :
             /\ files' = [files EXCEPT ![here][c] = g]
             /\ harm' = harm \cup (IF ~ok THEN {<<stage, "failed">>} ELSE {})
                    \cup (IF ok /\ g # "whole" THEN {<<"lost", "file">>} ELSE {})
        BY <3>1, <3>4
      <4>2. files'[here][c] = g
        BY <1>4, <3>3, <4>1
      <4> QED
        BY <3>4, <4>1, <4>2
    <3> QED
      BY <3>2, <3>4
  <2>2. stage = "store" => \A i \in WaveIds : ChunkOf(i) = c => i = j
    BY <1>2, ChunkFacts DEF WaveSafe, WaveShape, c
  <2>3. tier.working \subseteq WaveIds
    BY SafeWave
  <2>4. \A d \in Chunks : d # c => files'[here][d] = files[here][d]
    <3>1. files \in [Dirs -> [Chunks -> FileStates]] /\ here \in Dirs
      BY DEF WaveSafe, WaveTypeOK
    <3> QED
      BY <1>1, <1>4, <3>1 DEF StoreEnds, LoadEnds, c
  <2>5. WaveFails => WaveFails'
    <3>1. FailedJob => FailedJob'
      BY <1>1, <1>3 DEF FailedJob, WaveIds
    <3>2. ASSUME stage = "store", LostFile PROVE LostFile'
      <4>1. PICK d \in Chunks : files[here][d] # "whole" /\ \A i \in tier.working : ChunkOf(i) # d
        BY <3>2 DEF LostFile
      <4>2. d # c
        BY <1>1, <4>1 DEF c
      <4>3. files'[here'][d] # "whole" /\ \A i \in tier'.working : ChunkOf(i) # d
        BY <1>1, <1>3, <2>4, <4>1, <4>2
      <4> QED
        BY <4>3 DEF LostFile
    <3> QED
      BY <1>1, <3>1, <3>2 DEF WaveFails
  <2>6. ASSUME pc = "poll", NEW h \in harm', h \notin harm, ~(stage = "warmup" /\ h = <<"warmup", "failed">>)
        PROVE  WaveFails'
    <3>1. CASE h = <<stage, "failed">> /\ ~ok
      <4>1. stage # "warmup"
        BY <2>6, <3>1
      <4>2. e = [id |-> j, ok |-> FALSE]
        BY <3>1 DEF e
      <4>3. FailedJob'
        BY <1>1, <1>2, <1>3, <4>2 DEF FailedJob, WaveIds
      <4> QED
        BY <1>1, <2>6, <4>1, <4>3 DEF WaveFails
    <3>2. CASE stage = "store" /\ files'[here][c] # "whole"
      <4>1. \A i \in tier'.working : ChunkOf(i) # c
        BY <1>3, <2>2, <2>3, <3>2
      <4>2. LostFile'
        BY <1>1, <1>4, <3>2, <4>1 DEF LostFile
      <4> QED
        BY <1>1, <2>6, <3>2, <4>2 DEF WaveFails
    <3> QED
      BY <2>1, <2>6, <3>1, <3>2
  <2>7. tier'.dropped = tier.dropped /\ raised' = raised /\ pc' = pc
    BY <1>1, <1>3
  <2> HIDE DEF WaveFails
  <2> QED
    BY <1>1, <1>5, <2>1, <2>5, <2>6, <2>7 DEF WaveEffect
<1> QED
  BY <1>6, <1>7, <1>8, <1>9 DEF WaveSafe

\* A step of the wave that does no harm keeps every sign of harm done.
LEMMA HarmKept ==
  ASSUME UNCHANGED <<stage, first, here, harm>>, InArm, InArm', pc = "close" => pc' = "close",
         raised => raised', tier.dropped => tier'.dropped, WaveFails => raised' \/ WaveFails'
  PROVE  WaveEffect
BY Zenon DEF WaveEffect

\* One more thing that goes wrong
LEMMA FaultType ==
  ASSUME faults \in 0..MaxFaults, Fault \/ faults' = faults
  PROVE  faults' \in 0..MaxFaults
BY WaveAssumption DEF Fault

LEMMA StrayResultStep ==
  ASSUME WaveSafe, StrayResult
  PROVE  WaveSafe' /\ WaveEffect
<1>1. PICK id \in {0} \cup {r.id : r \in tier.completed \cup ToSet(tier.finished)} :
        tier' = [tier EXCEPT !.finished = Append(@, [id |-> id, ok |-> TRUE])]
  BY DEF StrayResult
<1>2. /\ tier.up /\ pc \in {"poll", "drained"} /\ Fault
      /\ UNCHANGED <<pc, raised, stage, first, here, files, memory, harm>>
  BY DEF StrayResult
<1> DEFINE e == [id |-> id, ok |-> TRUE]
           f == Append(tier.finished, e)
<1>3. tier \in Tier /\ tier.finished \in Seq(Result) /\ tier.completed \subseteq Result
  BY SafeWave DEF Tier
<1>4. ToSet(tier.finished) \subseteq Result
  BY <1>3 DEF ToSet
<1>5. id \in Nat /\ e \in Result
  BY <1>3, <1>4 DEF Result
<1>6. f \in Seq(Result) /\ ToSet(f) = ToSet(tier.finished) \cup {e}
  <2> HIDE DEF e
  <2> QED
    BY <1>3, <1>5, AppendedSet
<1>a. tier' = [tier EXCEPT !.finished = f]
  BY <1>1, Zenon
<1>7. e.id = id
  OBVIOUS
<1> HIDE DEF e, f
<1>8. /\ tier' \in Tier
      /\ tier'.working = tier.working /\ ToSet(tier'.finished) = ToSet(tier.finished) \cup {e}
      /\ tier'.up = tier.up /\ tier'.pending = tier.pending /\ tier'.completed = tier.completed
      /\ tier'.dropped = tier.dropped
  BY <1>3, <1>6, <1>a, Refilled
<1>9. Known0(tier, id) /\ id \notin tier.working
  <2>1. LedgerAgrees(tier, raised) /\ LedgerKnows
    BY SafeWave
  <2>2. \/ id = 0
        \/ \E r \in tier.completed : id = r.id
        \/ \E r \in ToSet(tier.finished) : id = r.id
    BY <1>1
  <2> QED
    BY <2>1, <2>2 DEF LedgerAgrees, LedgerKnows, Known0, Known
<1>10. InArm /\ InArm'
  BY <1>2 DEF InArm
<1>11. WaveTypeOK'
  BY <1>2, <1>8, SafeWave, FaultType DEF WaveTypeOK
<1>12. LedgerAgrees(tier, raised)' /\ LedgerKnows'
  <2>1. LedgerAgrees(tier, raised) /\ LedgerKnows
    BY SafeWave
  <2>2. LedgerAgrees(tier, raised)'
    BY <1>2, <1>8, <2>1 DEF LedgerAgrees
  <2>3. LedgerKnows'
    BY <1>7, <1>8, <1>9, <2>1 DEF LedgerKnows, Known0, Known
  <2> QED
    BY <2>2, <2>3
<1>13. WaveShape'
  BY <1>2, <1>8, <1>10, SafeWave DEF WaveShape, InArm, WaveIds
<1>14. WaveEffect
  <2>1. WaveFails => WaveFails'
    BY <1>2, <1>8 DEF WaveFails, FailedJob, LostFile, WaveIds
  <2> QED
    BY <1>2, <1>8, <1>10, <2>1, HarmKept
<1> QED
  BY <1>2, <1>10, <1>11, <1>12, <1>13, <1>14 DEF WaveSafe

LEMMA EventsDroppedStep ==
  ASSUME WaveSafe, EventsDropped
  PROVE  WaveSafe' /\ WaveEffect
<1>1. /\ pc = "poll" /\ tier' = [tier EXCEPT !.dropped = TRUE] /\ Fault
      /\ harm' = harm \cup {<<"events", "dropped">>}
      /\ UNCHANGED <<pc, raised, stage, first, here, files, memory>>
  BY DEF EventsDropped
<1>2. /\ tier' \in Tier
      /\ tier'.working = tier.working /\ tier'.finished = tier.finished
      /\ tier'.up = tier.up /\ tier'.pending = tier.pending /\ tier'.completed = tier.completed
      /\ tier'.dropped = TRUE
  BY <1>1, SafeWave DEF Tier
<1>3. InArm /\ InArm'
  BY <1>1 DEF InArm
<1>4. WaveTypeOK'
  <2>1. <<"events", "dropped">> \in Harms
    BY DEF Harms
  <2> QED
    BY <1>1, <1>2, <2>1, SafeWave, FaultType DEF WaveTypeOK
<1>5. LedgerAgrees(tier, raised)' /\ LedgerKnows'
  BY <1>1, <1>2, SafeWave DEF LedgerAgrees, LedgerKnows, Known0, Known
<1>6. WaveShape'
  BY <1>1, <1>2, <1>3, SafeWave DEF WaveShape, InArm, WaveIds
<1>7. WaveEffect
  BY <1>1, <1>2, <1>3 DEF WaveEffect, WaveFails, FailedJob, LostFile, WaveIds
<1> QED
  BY <1>1, <1>3, <1>4, <1>5, <1>6, <1>7 DEF WaveSafe

LEMMA SubmitWaveStep ==
  ASSUME WaveSafe, SubmitWave
  PROVE  WaveSafe' /\ WaveEffect
<1>1. PICK n \in 0..NChunks :
        /\ \A j \in first..(first + n - 1) : ~Known(tier, j)
        /\ tier' = FoldLeft(Submit, tier, [k \in 1..n |-> first + k - 1])
        /\ IF n = NChunks THEN pc' = "poll" /\ UNCHANGED <<raised, faults>>
           ELSE Raise /\ FaultIf(~Known(tier, first + n))
  BY DEF SubmitWave
<1>2. pc = "submit" /\ UNCHANGED <<stage, first, here, files, memory, harm>>
  BY DEF SubmitWave
<1> DEFINE q == [k \in 1..n |-> first + k - 1]
           ids == {q[k] : k \in 1..n}
<1>3. tier \in Tier /\ first \in Nat /\ first >= 1 /\ n \in Nat /\ n <= NChunks /\ NChunks \in Nat
  BY SafeWave, WaveAssumption DEF WaveSafe, WaveShape
<1>4. q \in [1..n -> Nat]
  BY <1>3
<1>5. ids = first..(first + n - 1)
  <2>1. \A k \in 1..n : q[k] \in first..(first + n - 1)
    BY <1>3
  <2>2. \A j \in first..(first + n - 1) : j - first + 1 \in 1..n /\ j = q[j - first + 1]
    BY <1>3
  <2> HIDE DEF q
  <2> QED
    BY <2>1, <2>2
<1> HIDE DEF q, ids
<1>6. /\ tier' \in Tier
      /\ tier'.up = tier.up /\ tier'.finished = tier.finished /\ tier'.completed = tier.completed
      /\ tier'.dropped = tier.dropped
      /\ tier'.pending = tier.pending \cup ids /\ tier'.working = tier.working \cup ids
  <2>1. tier' = Submitted(tier, q)
    BY <1>1, Zenon DEF Submitted, q
  <2> QED
    BY <1>3, <1>4, <2>1, SubmitResult DEF ids
<1>7. \A j \in ids : ~Known(tier, j) /\ j # 0 /\ j \in WaveIds
  BY <1>1, <1>3, <1>5 DEF WaveIds
<1>8. InArm /\ InArm' /\ pc' \in {"poll", "close"} /\ (pc' = "close" => raised') /\ (pc' = "poll" => ~raised')
  <2>1. ~raised
    BY <1>2, SafeWave DEF WaveShape
  <2> QED
    BY <1>1, <1>2, <2>1 DEF InArm, Raise
<1>9. WaveTypeOK'
  <2>1. Fault \/ faults' = faults
    BY <1>1 DEF FaultIf
  <2>2. raised' \in BOOLEAN
    BY <1>1, SafeWave DEF Raise
  <2> QED
    BY <1>2, <1>6, <2>1, <2>2, SafeWave, FaultType DEF WaveTypeOK
<1>10. LedgerAgrees(tier, raised)' /\ LedgerKnows'
  <2>1. LedgerAgrees(tier, raised) /\ LedgerKnows /\ ~raised
    BY <1>2, SafeWave DEF WaveShape
  <2>2. LedgerAgrees(tier, raised)'
    BY <1>6, <1>7, <2>1 DEF LedgerAgrees, Known
  <2>3. LedgerKnows'
    <3>1. ASSUME NEW r \in ToSet(tier.finished) PROVE r.id \notin ids
      BY <1>7, <2>1 DEF LedgerKnows, Known0
    <3> QED
      BY <1>6, <1>7, <2>1, <3>1 DEF LedgerKnows, Known0, Known
  <2> QED
    BY <2>2, <2>3
<1>11. WaveShape'
  BY <1>2, <1>6, <1>7, <1>8, SafeWave DEF WaveShape, InArm, WaveIds
<1>12. WaveEffect
  <2>1. ~WaveFails
    BY <1>2 DEF WaveFails
  <2>2. ~raised
    BY <1>2, SafeWave DEF WaveShape
  <2> QED
    BY <1>2, <1>6, <1>8, <2>1, <2>2, HarmKept
<1> QED
  BY <1>2, <1>8, <1>9, <1>10, <1>11, <1>12 DEF WaveSafe

LEMMA PollWaveStep ==
  ASSUME WaveSafe, PollWave
  PROVE  WaveSafe' /\ WaveEffect
<1> DEFINE poll == GetFinishedJobs(tier)
<1>1. /\ pc = "poll" /\ tier' = poll.tier /\ (IF poll.raised THEN Raise ELSE UNCHANGED <<pc, raised>>)
      /\ UNCHANGED <<stage, first, here, files, memory, faults, harm>>
  BY DEF PollWave
<1>2. LedgerAgrees(tier, raised) /\ LedgerKnows /\ tier \in Tier /\ ~raised /\ tier.up
  BY <1>1, SafeWave DEF WaveShape, InArm
<1>3. /\ tier' \in Tier /\ poll.raised \in BOOLEAN
      /\ tier'.up = tier.up /\ tier'.working = tier.working /\ tier'.dropped = tier.dropped
      /\ tier'.finished = <<>> /\ tier'.pending \subseteq tier.pending
      /\ \A j \in tier.pending : j \in tier'.pending \/ \E r \in ToSet(tier.finished) : r.id = j
      /\ tier.completed \subseteq tier'.completed
      /\ \A r, s \in tier'.completed : r.id = s.id => r = s
      /\ \A r \in tier'.completed : r.id \notin tier'.pending
      /\ ~poll.raised => \A r \in ToSet(tier.finished) : r \in tier'.completed
  <2>1. /\ \A r, s \in tier.completed : r.id = s.id => r = s
        /\ \A r \in tier.completed : r.id \notin tier.pending
    BY <1>2 DEF LedgerAgrees
  <2>2. /\ poll.tier \in Tier /\ poll.raised \in BOOLEAN
        /\ poll.tier.up = tier.up /\ poll.tier.working = tier.working /\ poll.tier.dropped = tier.dropped
        /\ poll.tier.finished = <<>> /\ poll.tier.pending \subseteq tier.pending
    BY <1>2, <2>1, PollResult
  <2>3. /\ \A j \in tier.pending : j \in poll.tier.pending \/ \E r \in ToSet(tier.finished) : r.id = j
        /\ tier.completed \subseteq poll.tier.completed
    BY <1>2, <2>1, PollResult
  <2>4. /\ \A r, s \in poll.tier.completed : r.id = s.id => r = s
        /\ \A r \in poll.tier.completed : r.id \notin poll.tier.pending
    BY <1>2, <2>1, PollResult
  <2>5. ~poll.raised => \A r \in ToSet(tier.finished) : r \in poll.tier.completed
    BY <1>2, <2>1, PollResult
  <2> HIDE DEF poll
  <2> QED
    BY <1>1, <2>2, <2>3, <2>4, <2>5
<1> HIDE DEF poll
<1>4. ToSet(tier'.finished) = {}
  BY <1>3 DEF ToSet
<1>5. pc' \in {"poll", "close"} /\ (pc' = "close" => raised') /\ (pc' = "poll" => ~raised')
      /\ (poll.raised <=> raised') /\ raised' \in BOOLEAN /\ InArm /\ InArm'
  <2>1. raised = FALSE /\ InArm
    BY <1>1, <1>2, SafeWave DEF InArm
  <2>2. CASE poll.raised
    BY <1>1, <2>1, <2>2 DEF InArm, Raise
  <2>3. CASE ~poll.raised
    BY <1>1, <2>1, <2>3 DEF InArm
  <2> QED
    BY <2>2, <2>3
<1>6. WaveTypeOK'
  BY <1>1, <1>3, <1>5, SafeWave DEF WaveTypeOK
<1>7. LedgerAgrees(tier, raised)' /\ LedgerKnows'
  <2>1. tier'.working \subseteq tier'.pending
    <3> SUFFICES ASSUME NEW j \in tier.working, j \notin tier'.pending PROVE FALSE
      BY <1>3
    <3>1. \E r \in ToSet(tier.finished) : r.id = j
      BY <1>2, <1>3 DEF LedgerAgrees
    <3> QED
      BY <1>2, <3>1 DEF LedgerKnows
  <2>2. raised' \/ tier'.pending \subseteq tier'.working \cup {r.id : r \in ToSet(tier'.finished)}
    <3> SUFFICES ASSUME ~poll.raised, NEW j \in tier'.pending, j \notin tier.working PROVE FALSE
      BY <1>3, <1>5
    <3>1. PICK r \in ToSet(tier.finished) : r.id = j
      BY <1>2, <1>3 DEF LedgerAgrees
    <3>2. r \in tier'.completed
      BY <1>3
    <3> QED
      BY <1>3, <3>1, <3>2
  <2>3. LedgerAgrees(tier, raised)'
    BY <1>3, <2>1, <2>2 DEF LedgerAgrees
  <2>4. LedgerKnows'
    BY <1>2, <1>3, <1>4 DEF LedgerKnows
  <2> QED
    BY <2>3, <2>4
<1>8. WaveShape'
  BY <1>1, <1>3, <1>5, SafeWave DEF WaveShape, InArm, WaveIds
<1>9. WaveEffect
  <2>1. ASSUME ~raised', FailedJob PROVE FailedJob'
    <3>1. PICK j \in WaveIds : [id |-> j, ok |-> FALSE] \in tier.completed \cup ToSet(tier.finished)
      BY <2>1 DEF FailedJob
    <3>2. [id |-> j, ok |-> FALSE] \in tier'.completed
      BY <1>3, <1>5, <2>1, <3>1
    <3> QED
      BY <1>1, <3>2 DEF FailedJob, WaveIds
  <2>2. LostFile => LostFile'
    BY <1>1, <1>3 DEF LostFile
  <2>3. WaveFails => raised' \/ WaveFails'
    BY <1>1, <1>5, <2>1, <2>2 DEF WaveFails
  <2> QED
    BY <1>1, <1>2, <1>3, <1>5, <2>3, HarmKept
<1> QED
  BY <1>1, <1>5, <1>6, <1>7, <1>8, <1>9 DEF WaveSafe

LEMMA GiveUpStep ==
  ASSUME WaveSafe, GiveUp
  PROVE  WaveSafe' /\ WaveEffect
<1>1. /\ pc = "poll" /\ pc' = "close" /\ raised' = TRUE /\ Fault
      /\ UNCHANGED <<tier, stage, first, here, files, memory, harm>>
  BY DEF GiveUp, Raise
<1>2. InArm /\ InArm'
  BY <1>1 DEF InArm
<1>3. WaveTypeOK'
  BY <1>1, SafeWave, FaultType DEF WaveTypeOK
<1>4. LedgerAgrees(tier, raised)' /\ LedgerKnows'
  BY <1>1, SafeWave DEF LedgerAgrees, LedgerKnows, Known0, Known
<1>5. WaveShape'
  BY <1>1, <1>2, SafeWave DEF WaveShape, InArm, WaveIds
<1>6. WaveEffect
  BY <1>1, <1>2, HarmKept
<1> QED
  BY <1>1, <1>2, <1>3, <1>4, <1>5, <1>6 DEF WaveSafe

LEMMA DrainWaveStep ==
  ASSUME WaveSafe, DrainWave
  PROVE  WaveSafe' /\ WaveEffect
<1>1. /\ pc = "poll" /\ pc' = "drained" /\ tier.working = {}
      /\ UNCHANGED <<tier, raised, stage, first, here, files, memory, faults, harm>>
  BY DEF DrainWave, Drained
<1>2. InArm /\ InArm'
  BY <1>1 DEF InArm
<1>3. WaveTypeOK'
  BY <1>1, SafeWave DEF WaveTypeOK
<1>4. LedgerAgrees(tier, raised)' /\ LedgerKnows'
  BY <1>1, SafeWave DEF LedgerAgrees, LedgerKnows, Known0, Known
<1>5. WaveShape'
  BY <1>1, <1>2, SafeWave DEF WaveShape, InArm, WaveIds
<1>6. WaveEffect
  <2>1. WaveFails => WaveFails'
    BY <1>1 DEF WaveFails, FailedJob, LostFile, WaveIds
  <2> QED
    BY <1>1, <1>2, <2>1, HarmKept
<1> QED
  BY <1>1, <1>2, <1>3, <1>4, <1>5, <1>6 DEF WaveSafe

LEMMA CheckWaveStep ==
  ASSUME WaveSafe, CheckWave
  PROVE  WaveSafe' /\ WaveEffect
<1> DEFINE poll == GetFinishedJobs(tier)
<1>1. /\ pc = "drained" /\ tier' = poll.tier
      /\ (IF tier.finished # <<>> THEN Raise ELSE pc' = "waved" /\ UNCHANGED raised)
      /\ UNCHANGED <<stage, first, here, files, memory, faults, harm>>
  BY DEF CheckWave
<1>2. LedgerAgrees(tier, raised) /\ LedgerKnows /\ tier \in Tier /\ ~raised /\ tier.up /\ tier.working = {}
  BY <1>1, SafeWave DEF WaveShape, InArm
<1>3. /\ tier' \in Tier
      /\ tier'.up = tier.up /\ tier'.working = {} /\ tier'.dropped = tier.dropped
      /\ tier'.finished = <<>> /\ tier'.pending \subseteq tier.pending
      /\ \A r, s \in tier'.completed : r.id = s.id => r = s
      /\ \A r \in tier'.completed : r.id \notin tier'.pending
      /\ tier.finished = <<>> => tier' = tier
  BY <1>1, <1>2, PollResult DEF LedgerAgrees
<1> HIDE DEF poll
<1>4. ToSet(tier'.finished) = {}
  BY <1>3 DEF ToSet
<1>5. pc' \in {"waved", "close"} /\ (pc' = "close" => raised') /\ (pc' = "waved" => ~raised' /\ tier' = tier)
      /\ raised' \in BOOLEAN /\ InArm /\ InArm'
  <2>1. raised = FALSE /\ InArm
    BY <1>1, <1>2, SafeWave DEF InArm
  <2>2. CASE tier.finished # <<>>
    BY <1>1, <2>1, <2>2 DEF InArm, Raise
  <2>3. CASE tier.finished = <<>>
    BY <1>1, <1>3, <2>1, <2>3 DEF InArm
  <2> QED
    BY <2>2, <2>3
<1>6. WaveTypeOK'
  BY <1>1, <1>3, <1>5, SafeWave DEF WaveTypeOK
<1>7. LedgerAgrees(tier, raised)' /\ LedgerKnows'
  <2>1. raised' \/ tier'.pending \subseteq tier'.working \cup {r.id : r \in ToSet(tier'.finished)}
    BY <1>2, <1>3, <1>5 DEF LedgerAgrees
  <2>2. LedgerAgrees(tier, raised)'
    BY <1>3, <2>1 DEF LedgerAgrees
  <2>3. LedgerKnows'
    BY <1>2, <1>3, <1>4 DEF LedgerKnows
  <2> QED
    BY <2>2, <2>3
<1>8. WaveShape'
  BY <1>1, <1>3, <1>5, SafeWave DEF WaveShape, InArm, WaveIds
<1>9. WaveEffect
  <2>1. WaveFails => raised' \/ WaveFails'
    BY <1>1, <1>5 DEF WaveFails, FailedJob, LostFile, WaveIds
  <2> QED
    BY <1>1, <1>2, <1>3, <1>5, <2>1, HarmKept
<1> QED
  BY <1>1, <1>5, <1>6, <1>7, <1>8, <1>9 DEF WaveSafe

LEMMA WaveStepSafe ==
  ASSUME WaveSafe, WaveStep
  PROVE  WaveSafe' /\ WaveEffect
BY JobEndsStep, StrayResultStep, EventsDroppedStep, SubmitWaveStep, PollWaveStep, GiveUpStep,
   DrainWaveStep, CheckWaveStep DEF WaveStep


\* A wave that is over: its checks see what failed.
LEMMA WaveOver ==
  ASSUME WaveSafe, pc = "waved"
  PROVE  /\ ~raised /\ tier.up /\ tier.working = {} /\ tier.finished = <<>>
         /\ FailedJob => ~AllSuccess
         /\ LostFile => ~Whole(here)
<1>1. ~raised /\ tier.up /\ tier.working = {} /\ tier.finished = <<>>
  BY SafeWave DEF WaveShape, InArm
<1>2. ToSet(tier.finished) = {}
  BY <1>1, TierFacts DEF ToSet
<1>3. ASSUME FailedJob PROVE ~AllSuccess
  <2>1. PICK j \in WaveIds : [id |-> j, ok |-> FALSE] \in tier.completed
    BY <1>2, <1>3 DEF FailedJob
  <2>2. \A r \in tier.completed : r.id = j => r.ok = FALSE
    BY <2>1, SafeWave DEF LedgerAgrees
  <2> QED
    BY <2>1, <2>2 DEF AllSuccess, Outcome
<1>4. LostFile => ~Whole(here)
  BY DEF LostFile, Whole
<1> QED
  BY <1>1, <1>3, <1>4

-----------------------------------------------------------------------------
(* Counting units *)

\* As many as there are: all of them.
LEMMA AllOf ==
  ASSUME NEW n \in Nat, NEW C \in SUBSET (1..n), Cardinality(C) = n
  PROVE  C = 1..n
<1>1. IsFiniteSet(1..n) /\ Cardinality(1..n) = n
  <2>1. Cardinality(1..n) = IF 1 > n THEN 0 ELSE n - 1 + 1
    BY FS_Interval
  <2>2. IsFiniteSet(1..n)
    BY FS_Interval
  <2> QED
    BY <2>1, <2>2
<1> QED
  BY <1>1, FS_Subset

\* Unit k of a windows of b units is in one of them, and which one its place
\* tells.
LEMMA WindowPlace ==
  ASSUME NEW a \in Nat \ {0}, NEW b \in Nat \ {0}, NEW k \in 1..a * b
  PROVE  /\ (k - 1) \div b \in 0..(a - 1)
         /\ \A w \in 0..(a - 1) : (k - 1) \div b = w <=> k \in w * b + 1..w * b + b
<1> DEFINE q == (k - 1) \div b
           r == (k - 1) % b
<1>1. a \in Nat /\ b \in Nat /\ a >= 1 /\ b >= 1 /\ k \in Nat /\ k >= 1 /\ k <= a * b
  <2>1. a * b \in Nat
    OBVIOUS
  <2> QED
    BY <2>1
<1>2. q \in Nat /\ r \in 0..(b - 1) /\ k - 1 = b * q + r
  BY <1>1
<1> HIDE DEF q, r
<1>3. ASSUME NEW w \in Nat, w < q PROVE w * b + b <= b * q
  <2>1. PICK d \in Nat : q = w + 1 + d
    <3>1. q - w - 1 \in Nat
      BY <1>2, <1>3
    <3> QED
      BY <3>1, <1>2
  <2>2. b * q = w * b + b + b * d /\ b * d >= 0
    BY <1>1, <2>1
  <2> QED
    BY <1>1, <1>2, <2>2
<1>4. ASSUME NEW w \in Nat, q < w PROVE b * q + b <= w * b
  <2>1. PICK d \in Nat : w = q + 1 + d
    <3>1. w - q - 1 \in Nat
      BY <1>2, <1>4
    <3> QED
      BY <3>1, <1>2
  <2>2. w * b = b * q + b + b * d /\ b * d >= 0
    BY <1>1, <1>2, <2>1
  <2> QED
    BY <1>1, <1>2, <2>2
<1>5. q <= a - 1
  <2> SUFFICES ASSUME a - 1 < q PROVE FALSE
    BY <1>1, <1>2
  <2>1. (a - 1) * b + b <= b * q
    BY <1>1, <1>3
  <2>2. (a - 1) * b + b = a * b
    BY <1>1
  <2> QED
    BY <1>1, <1>2, <2>1, <2>2
<1>6. ASSUME NEW w \in 0..(a - 1) PROVE q = w <=> k \in w * b + 1..w * b + b
  <2>1. w \in Nat /\ w * b \in Nat /\ b * q \in Nat
    BY <1>1, <1>2
  <2>2. CASE q = w
    <3>1. b * q = w * b
      BY <1>1, <2>2
    <3> QED
      BY <1>1, <1>2, <2>1, <2>2, <3>1
  <2>3. CASE w < q
    BY <1>1, <1>2, <1>3, <2>1, <2>3
  <2>4. CASE q < w
    BY <1>1, <1>2, <1>4, <2>1, <2>4
  <2> QED
    BY <1>2, <2>1, <2>2, <2>3, <2>4
<1>7. q \in 0..(a - 1)
  BY <1>1, <1>2, <1>5
<1> QED
  BY <1>6, <1>7 DEF q

\* and a window has b of them.
LEMMA WindowSize ==
  ASSUME NEW a \in Nat \ {0}, NEW b \in Nat \ {0}, NEW w \in 0..(a - 1)
  PROVE  Cardinality({k \in 1..a * b : (k - 1) \div b = w}) = b
<1> DEFINE W == {k \in 1..a * b : (k - 1) \div b = w}
           lo == w * b
<1>1. lo \in Nat /\ b >= 1 /\ lo + b <= a * b
  <2>1. w \in Nat /\ a - 1 - w \in Nat
    OBVIOUS
  <2>2. a * b = w * b + b + (a - 1 - w) * b /\ (a - 1 - w) * b >= 0 /\ w * b \in Nat
    BY <2>1
  <2> QED
    BY <2>2
<1>2. W = lo + 1..lo + b
  <2>1. \A k \in 1..a * b : k \in W <=> k \in lo + 1..lo + b
    BY WindowPlace
  <2>2. lo + 1..lo + b \subseteq 1..a * b
    BY <1>1
  <2> HIDE DEF lo
  <2> QED
    BY <2>1, <2>2
<1> HIDE DEF lo, W
<1>3. Cardinality(lo + 1..lo + b) = IF lo + 1 > lo + b THEN 0 ELSE (lo + b) - (lo + 1) + 1
  BY <1>1, FS_Interval
<1>4. Cardinality(W) = b
  BY <1>1, <1>2, <1>3
<1> QED
  BY <1>4 DEF W

-----------------------------------------------------------------------------
(* The paired campaign: its inductive invariant *)

\* A wave of stores is of the loop that prepares.
WaveInv ==
  /\ WaveShape
  /\ pc \in {"submit", "poll", "drained", "waved"} => (stage = "store" <=> loop = "prepare")

\* Each loop comes to an arm once.  A directory whose tier was left open is
\* not measured: its arm is not prepared, or was measured already.  Nothing is
\* said against an arm that is being prepared before its checks.
ArmsInv ==
  /\ IsInjective(todo)
  /\ loop = "prepare" =>
       /\ runs = <<>>
       /\ \A a \in ToSet(todo) : a \notin DOMAIN preps /\ a \notin left
  /\ loop = "load" => \A a \in ToSet(todo) : a \notin DOMAIN runs
  /\ \A a \in left : Status(preps, a) = "PASS" => loop = "load" /\ a \notin ToSet(todo)
  /\ InArm =>
       /\ here \notin ToSet(todo) /\ here \notin left
       /\ here \notin (IF loop = "prepare" THEN DOMAIN preps ELSE DOMAIN runs)
       /\ loop = "prepare" /\ pc # "close" => good

\* What the files of the pair say so far
EvidenceInv ==
  /\ \A a \in Arms :
       /\ <<a, "prepare", "result">> \in evidence <=> a \in DOMAIN preps
       /\ <<a, "load", "result">> \in evidence <=> a \in DOMAIN runs
  /\ \A e \in evidence : e[3] = "failure" => failed
  /\ preps \in [DOMAIN preps -> Statuses] /\ runs \in [DOMAIN runs -> Statuses]

\* The pair is lost already.
Lost ==
  \/ failed
  \/ \E a \in DOMAIN preps : preps[a] = "FAIL"
  \/ \E a \in DOMAIN runs : runs[a] = "FAIL"

\* No harm goes unnoticed: the pair is lost, or the arm in hand is, or will be
\* when its checks are made.
HarmInv ==
  /\ harm \subseteq {<<"warmup", "failed">>} \/ Lost
       \/ (InArm /\ (raised \/ ~good \/ tier.dropped \/ WaveFails))
  /\ left # {} => <<"tier", "left">> \in harm

\* The pairs so far, and what the campaign has said of them
PairsInv ==
  /\ pc \in {"start", "pairs", "end"} => Len(results) = at
  /\ pc \notin {"start", "pairs", "end"} => Len(results) = at - 1
  /\ pc = "start" => at = 0
  /\ done \subseteq 0..Len(results) /\ kept \subseteq 0..Len(results)
  /\ \A k \in 1..Len(results) :
       /\ results[k].window = schedule[k].window /\ results[k].load = schedule[k].load
       /\ results[k].status = "PASS" => k \in done
       /\ k \in done => Retain \/ k \notin kept
  /\ pc # "end" => 0 \notin done /\ exit = "none" /\ verdict = "none"
  /\ pc \notin {"start", "end"} => 0 \in kept
  /\ 0 \in done => at = NPairs

CampaignInv ==
  /\ TypeOK
  /\ LedgerAgrees(tier, raised) /\ LedgerKnows
  /\ WaveInv /\ ArmsInv /\ EvidenceInv /\ HarmInv /\ PairsInv
  /\ DonePairIsSound
  /\ VerdictRestsOnEvidence
-----------------------------------------------------------------------------
(* The paired campaign: its configuration *)

USE DEF Paired

LEMMA Config ==
  /\ Arms \subseteq Dirs /\ NChunks \in Nat \ {0} /\ MaxFaults \in Nat
  /\ NWindows \in Nat \ {0} /\ PairsPerWindow \in Nat \ {0}
  /\ Gate.required = NPairs /\ Retain \in BOOLEAN
  /\ WarmupPasses \in Nat /\ MeasurementPasses \in Nat \ {0}
  /\ Effects \subseteq Int
BY ConfigAccepted, CampaignAssumption, WaveAssumption DEF Accepted

LEMMA PairCount == NPairs \in Nat /\ NPairs >= 1
<1> DEFINE a == NWindows
           b == PairsPerWindow
<1>1. a \in Nat /\ b \in Nat /\ a >= 1 /\ b >= 1
  BY Config
<1> HIDE DEF a, b
<1>2. a * b \in Nat /\ a * b >= 1
  BY <1>1
<1> QED
  BY <1>2 DEF NPairs, a, b

\* What a schedule is: every pair in its window, half of a window's loads in
\* either order.
LEMMA ScheduleFacts ==
  ASSUME schedule \in Schedules
  PROVE  /\ \A k \in 1..NPairs :
              /\ schedule[k].window = WindowOf(k, PairsPerWindow)
              /\ schedule[k].window \in 0..(NWindows - 1)
              /\ schedule[k].store \in Orders /\ schedule[k].load \in Orders
         /\ \A w \in 0..(NWindows - 1) :
              2 * Cardinality({k \in 1..NPairs : schedule[k].window = w /\ schedule[k].load = "AB"})
                = Cardinality({k \in 1..NPairs : schedule[k].window = w})
<1> DEFINE P == PairsPerWindow
<1>1. PICK s \in BalancedOrders(NWindows, P), l \in BalancedOrders(NWindows, P) :
        schedule = [k \in 1..NPairs |-> [window |-> WindowOf(k, P), store |-> s[k], load |-> l[k]]]
  BY DEF Schedules
<1>2. \A o \in BalancedOrders(NWindows, P) : o \in [1..NPairs -> {"AB", "BA"}]
  BY DEF BalancedOrders, NPairs
<1>3. \A k \in 1..NPairs :
        /\ schedule[k].window = WindowOf(k, P) /\ schedule[k].load = l[k]
        /\ schedule[k].store \in Orders /\ schedule[k].load \in Orders
  BY <1>1, <1>2 DEF Orders
<1>4. \A k \in 1..NPairs : schedule[k].window \in 0..(NWindows - 1)
  <2>1. \A k \in 1..NWindows * P : WindowOf(k, P) \in 0..(NWindows - 1)
    BY Config, WindowPlace DEF WindowOf
  <2> QED
    BY <1>3, <2>1 DEF NPairs
<1>5. ASSUME NEW w \in 0..(NWindows - 1)
      PROVE  2 * Cardinality({k \in 1..NPairs : schedule[k].window = w /\ schedule[k].load = "AB"})
               = Cardinality({k \in 1..NPairs : schedule[k].window = w})
  <2> DEFINE W == {k \in 1..NPairs : schedule[k].window = w}
             H == {k \in 1..NPairs : schedule[k].window = w /\ schedule[k].load = "AB"}
  <2>1. DOMAIN l = 1..NPairs
    BY <1>2
  <2>2. 2 * Cardinality({k \in DOMAIN l : WindowOf(k, P) = w /\ l[k] = "AB"}) = P
    BY DEF BalancedOrders
  <2>3. H = {k \in DOMAIN l : WindowOf(k, P) = w /\ l[k] = "AB"}
    BY <1>3, <2>1
  <2>4. W = {k \in 1..NWindows * P : (k - 1) \div P = w}
    BY <1>3 DEF WindowOf, NPairs
  <2>5. Cardinality(W) = P
    BY <2>4, Config, WindowSize
  <2> QED
    BY <2>2, <2>3, <2>5
<1> QED
  BY <1>3, <1>4, <1>5

-----------------------------------------------------------------------------
(* The paired campaign: what a step of the wave leaves alone *)

ArmPcs == {"arms", "submit", "poll", "drained", "waved", "close"}

\* A step inside a pair says nothing of the campaign, and the pair in hand has
\* no DONE file yet.
LEMMA PairStep ==
  ASSUME PairsInv, DonePairIsSound, VerdictRestsOnEvidence, TypeOK,
         UNCHANGED campaignVars, at' = at, pc \in ArmPcs, pc' \in ArmPcs
  PROVE  PairsInv' /\ DonePairIsSound' /\ VerdictRestsOnEvidence'
<1> USE DEF campaignVars, ArmPcs
<1>1. PairsInv'
  BY DEF PairsInv
<1>2. VerdictRestsOnEvidence'
  BY DEF VerdictRestsOnEvidence
<1>3. at \notin done'
  <2>1. Len(results) = at - 1 /\ done \subseteq 0..Len(results)
    BY DEF PairsInv
  <2>2. at \in 0..NPairs
    BY DEF TypeOK
  <2>3. at \in Nat
    BY <2>2, PairCount
  <2> QED
    BY <2>1, <2>3
<1>4. DonePairIsSound'
  BY <1>3 DEF DonePairIsSound
<1> QED
  BY <1>1, <1>2, <1>4

\* A step of the wave changes the wave only.
LEMMA WaveOnly ==
  ASSUME CampaignInv, UNCHANGED <<armVars, pairVars, campaignVars>>, UNCHANGED <<here, stage>>,
         InArm, InArm', pc = "close" => pc' = "close"
  PROVE  /\ WaveTypeOK' => TypeOK'
         /\ ArmsInv' /\ EvidenceInv' /\ PairsInv' /\ DonePairIsSound' /\ VerdictRestsOnEvidence'
<1> USE DEF armVars, pairVars
<1>1. PairsInv' /\ DonePairIsSound' /\ VerdictRestsOnEvidence'
  <2>1. pc \in ArmPcs /\ pc' \in ArmPcs
    BY DEF InArm, ArmPcs
  <2> QED
    BY <2>1, PairStep DEF CampaignInv
<1>2. ArmsInv'
  BY DEF CampaignInv, ArmsInv, Status
<1>3. EvidenceInv'
  BY DEF CampaignInv, EvidenceInv
<1>4. ASSUME WaveTypeOK' PROVE TypeOK'
  BY <1>4 DEF CampaignInv, TypeOK, campaignVars, InArm
<1> QED
  BY <1>1, <1>2, <1>3, <1>4

LEMMA CampaignSafe == CampaignInv => WaveSafe
BY DEF CampaignInv, TypeOK, WaveSafe, WaveInv

\* The wave's own facts, for the steps of the paired campaign
LEMMA WaveFacts ==
  ASSUME CampaignInv
  PROVE  tier \in Tier /\ tier.working \subseteq tier.pending
BY CampaignSafe, SafeWave

LEMMA WaveParts ==
  ASSUME CampaignInv
  PROVE  /\ raised \in BOOLEAN /\ stage \in Stages /\ first \in Nat /\ here \in Dirs /\ here \in Arms
         /\ files \in [Dirs -> [Chunks -> FileStates]] /\ memory \in [Chunks -> MemoryStates]
         /\ faults \in 0..MaxFaults /\ harm \subseteq Harms
         /\ LedgerAgrees(tier, raised) /\ LedgerKnows /\ WaveInv
BY CampaignSafe, SafeWave DEF CampaignInv, TypeOK

LEMMA InWaveStep ==
  ASSUME CampaignInv, InWave
  PROVE  CampaignInv'
<1>1. WaveSafe' /\ WaveEffect /\ UNCHANGED <<armVars, pairVars, campaignVars>>
  BY CampaignSafe, WaveStepSafe DEF InWave
<1>2. UNCHANGED <<stage, here>> /\ InArm /\ InArm' /\ (pc = "close" => pc' = "close")
  BY <1>1 DEF WaveEffect
<1>3. /\ WaveTypeOK' => TypeOK'
      /\ ArmsInv' /\ EvidenceInv' /\ PairsInv' /\ DonePairIsSound' /\ VerdictRestsOnEvidence'
  BY <1>1, <1>2, WaveOnly
<1>4. WaveInv'
  BY <1>1, <1>2 DEF WaveSafe, CampaignInv, WaveInv, InArm, pairVars
<1>5. HarmInv'
  <2>1. Lost => Lost'
    BY <1>1 DEF Lost, pairVars
  <2>2. HarmInv /\ UNCHANGED <<good, left>>
    BY <1>1 DEF CampaignInv, armVars, pairVars
  <2> HIDE DEF Lost, WaveFails
  <2> QED
    BY <1>1, <1>2, <2>1, <2>2 DEF HarmInv, WaveEffect
<1> QED
  BY <1>1, <1>3, <1>4, <1>5 DEF WaveSafe, CampaignInv

-----------------------------------------------------------------------------
(* The paired campaign: the steps of the harness *)

\* What CampaignInv says of the pair and of the campaign, in one place
LEMMA PairParts ==
  ASSUME CampaignInv
  PROVE  /\ WaveTypeOK /\ TypeOK
         /\ pc \in {"start", "pairs", "arms", "submit", "poll", "drained", "waved", "close", "end"}
         /\ pass \in 0..(WarmupPasses + MeasurementPasses) /\ good \in BOOLEAN
         /\ at \in Nat /\ at <= NPairs /\ loop \in {"prepare", "load"} /\ todo \in Seq(Arms)
         /\ DOMAIN preps \subseteq Arms /\ DOMAIN runs \subseteq Arms
         /\ failed \in BOOLEAN /\ left \subseteq Arms /\ evidence \subseteq Evidence
         /\ schedule \in Schedules
         /\ ArmsInv /\ EvidenceInv /\ HarmInv /\ PairsInv
         /\ DonePairIsSound /\ VerdictRestsOnEvidence
<1>1. at \in Nat /\ at <= NPairs
  <2>1. at \in 0..NPairs
    BY DEF CampaignInv, TypeOK
  <2> QED
    BY <2>1, PairCount
<1>2. WaveTypeOK /\ TypeOK
  BY DEF CampaignInv, TypeOK
<1>3. /\ pc \in {"start", "pairs", "arms", "submit", "poll", "drained", "waved", "close", "end"}
      /\ pass \in 0..(WarmupPasses + MeasurementPasses) /\ good \in BOOLEAN
      /\ loop \in {"prepare", "load"} /\ todo \in Seq(Arms)
      /\ DOMAIN preps \subseteq Arms /\ DOMAIN runs \subseteq Arms
      /\ failed \in BOOLEAN /\ left \subseteq Arms /\ evidence \subseteq Evidence
      /\ schedule \in Schedules
  BY <1>2 DEF TypeOK
<1> QED
  BY <1>1, <1>2, <1>3 DEF CampaignInv

LEMMA InitInv == Init => CampaignInv
<1> SUFFICES ASSUME Init PROVE CampaignInv
  OBVIOUS
<1> USE DEF Init
<1>1. TypeOK
  <2>1. WaveTypeOK
    <3>1. files \in [Dirs -> [Chunks -> FileStates]] /\ memory \in [Chunks -> MemoryStates]
      BY DEF FileStates, MemoryStates
    <3>2. here \in Dirs /\ faults \in 0..MaxFaults /\ stage \in Stages /\ tier \in Tier
      BY TierFacts, Config DEF Stages, Arms
    <3> QED
      BY <3>1, <3>2 DEF WaveTypeOK
  <2>2. <<>> \in Seq(Arms) /\ <<>> \in Seq(PairResult) /\ <<>> \in Seq(Effects)
    OBVIOUS
  <2>3. 0 \in 0..(WarmupPasses + MeasurementPasses) /\ 0 \in 0..NPairs
    BY Config, PairCount
  <2>4. DOMAIN preps \subseteq Arms /\ DOMAIN runs \subseteq Arms
    OBVIOUS
  <2>5. /\ pass \in 0..(WarmupPasses + MeasurementPasses) /\ at \in 0..NPairs /\ todo \in Seq(Arms)
        /\ results \in Seq(PairResult) /\ effects \in Seq(Effects) /\ schedule \in Schedules
    BY <2>2, <2>3
  <2> QED
    BY <2>1, <2>4, <2>5 DEF TypeOK, Arms
<1>2. LedgerAgrees(tier, raised) /\ LedgerKnows
  BY TierFacts DEF LedgerAgrees, LedgerKnows
<1>3. WaveInv
  BY TierFacts DEF WaveInv, WaveShape, InArm
<1>4. ArmsInv
  BY DEF ArmsInv, InArm, ToSet, IsInjective
<1>5. EvidenceInv
  BY DEF EvidenceInv
<1>6. HarmInv /\ PairsInv /\ DonePairIsSound /\ VerdictRestsOnEvidence
  BY DEF HarmInv, PairsInv, DonePairIsSound, VerdictRestsOnEvidence
<1> QED
  BY <1>1, <1>2, <1>3, <1>4, <1>5, <1>6 DEF CampaignInv

LEMMA StartStep ==
  ASSUME CampaignInv, Start
  PROVE  CampaignInv'
<1>1. /\ pc = "start"
      /\ \/ pc' = "pairs" /\ kept' = {0} /\ UNCHANGED <<faults, exit>>
         \/ Fault /\ pc' = "end" /\ exit' \in {"environment", "no space"} /\ UNCHANGED kept
      /\ UNCHANGED <<tier, raised, stage, first, here, files, memory, harm, armVars, pairVars,
                 harness, schedule, results, done, effects, verdict>>
  BY DEF Start
<1> USE DEF armVars, pairVars
<1>2. at = 0 /\ Len(results) = 0 /\ done = {} /\ 0 \in 0..NPairs
  <2>1. at = 0 /\ Len(results) = at /\ done \subseteq 0..Len(results) /\ 0 \notin done
    BY <1>1, PairParts DEF PairsInv
  <2>2. 0..0 = {0}
    OBVIOUS
  <2> QED
    BY <2>1, <2>2, PairCount
<1>3. TypeOK'
  <2>1. WaveTypeOK'
    <3>1. Fault \/ faults' = faults
      BY <1>1
    <3> QED
      BY <1>1, <3>1, WaveFacts, WaveParts, FaultType DEF WaveTypeOK
  <2>2. /\ pc' \in {"pairs", "end"} /\ (kept' = {0} \/ kept' = kept)
        /\ exit' \in {"environment", "no space", exit}
    BY <1>1
  <2>3. TypeOK
    BY PairParts
  <2> QED
    BY <1>1, <1>2, <2>1, <2>2, <2>3 DEF TypeOK
<1>4. LedgerAgrees(tier, raised)' /\ LedgerKnows'
  BY <1>1, WaveParts DEF LedgerAgrees, LedgerKnows, Known0, Known
<1>5. ~InArm /\ ~InArm'
  BY <1>1 DEF InArm
<1>6. WaveInv'
  BY <1>1, <1>5, WaveParts DEF WaveInv, WaveShape, WaveIds
<1>7. ArmsInv' /\ EvidenceInv' /\ HarmInv'
  BY <1>1, <1>5, PairParts DEF ArmsInv, Status, EvidenceInv, HarmInv, Lost
<1>8. PairsInv' /\ DonePairIsSound'
  <2>1. PairsInv'
    <3>1. results' = results /\ done' = {} /\ at' = 0 /\ Len(results') = 0
      BY <1>1, <1>2
    <3>2. 1..Len(results') = {} /\ 0..Len(results') = {0}
      BY <3>1
    <3>3. kept' \subseteq {0} /\ (pc' = "pairs" => kept' = {0} /\ exit' = exit)
      <4>1. kept \subseteq 0..Len(results) /\ 0..Len(results) = {0}
        BY <1>1, <3>1, <3>2, PairParts DEF PairsInv
      <4> QED
        BY <1>1, <4>1
    <3>4. exit = "none" /\ verdict' = "none" /\ pc' \in {"pairs", "end"}
      BY <1>1, PairParts DEF PairsInv
    <3> QED
      BY <3>1, <3>2, <3>3, <3>4 DEF PairsInv
  <2>2. at' \notin done'
    BY <1>1, <1>2
  <2> QED
    BY <2>1, <2>2 DEF DonePairIsSound
<1>9. VerdictRestsOnEvidence'
  <2>1. verdict = "none" /\ exit = "none"
    BY <1>1, PairParts DEF PairsInv
  <2> QED
    BY <1>1, <2>1 DEF VerdictRestsOnEvidence
<1> QED
  BY <1>3, <1>4, <1>6, <1>7, <1>8, <1>9 DEF CampaignInv

LEMMA OrderOfArms ==
  ASSUME NEW o
  PROVE  ArmsOf(o) \in Seq(Arms) /\ IsInjective(ArmsOf(o)) /\ ToSet(ArmsOf(o)) = Arms
<1>1. ASSUME NEW a \in Arms, NEW b \in Arms, a # b
      PROVE  <<a, b>> \in Seq(Arms) /\ IsInjective(<<a, b>>) /\ ToSet(<<a, b>>) = {a, b}
  <2>1. DOMAIN <<a, b>> = {1, 2} /\ <<a, b>>[1] = a /\ <<a, b>>[2] = b
    OBVIOUS
  <2>2. IsInjective(<<a, b>>)
    BY <1>1, <2>1 DEF IsInjective
  <2> QED
    BY <2>1, <2>2 DEF ToSet
<1>2. "A" \in Arms /\ "B" \in Arms /\ "A" # "B" /\ Arms = {"A", "B"} /\ Arms = {"B", "A"}
  BY DEF Arms
<1>3. /\ <<"A", "B">> \in Seq(Arms) /\ IsInjective(<<"A", "B">>) /\ ToSet(<<"A", "B">>) = {"A", "B"}
      /\ <<"B", "A">> \in Seq(Arms) /\ IsInjective(<<"B", "A">>) /\ ToSet(<<"B", "A">>) = {"B", "A"}
  BY <1>1, <1>2
<1> QED
  BY <1>2, <1>3 DEF ArmsOf

LEMMA StartPairStep ==
  ASSUME CampaignInv, StartPair
  PROVE  CampaignInv'
<1>1. /\ pc = "pairs" /\ at < NPairs
      /\ pc' = "arms" /\ at' = at + 1
      /\ loop' = "prepare" /\ todo' = ArmsOf(Item(at + 1).store)
      /\ preps' = <<>> /\ runs' = <<>> /\ failed' = FALSE /\ left' = {} /\ evidence' = {}
      /\ files' = [d \in Dirs |-> [c \in Chunks |-> "absent"]]
      /\ harm' = {}
      /\ UNCHANGED <<tier, raised, stage, first, here, memory, faults, armVars, campaignVars>>
  BY DEF StartPair
<1> USE DEF armVars, campaignVars
<1>2. todo' \in Seq(Arms) /\ IsInjective(todo')
  BY <1>1, OrderOfArms
<1>3. at \in Nat /\ at + 1 \in 0..NPairs /\ Len(results) = at /\ done \subseteq 0..at /\ kept \subseteq 0..at
  BY <1>1, PairParts, PairCount DEF PairsInv
<1>4. TypeOK'
  <2>1. WaveTypeOK'
    BY <1>1, WaveFacts, WaveParts DEF WaveTypeOK, FileStates
  <2>2. TypeOK
    BY PairParts
  <2>3. DOMAIN preps' \subseteq Arms /\ DOMAIN runs' \subseteq Arms
    BY <1>1
  <2>4. at' \in 0..NPairs
    BY <1>1, <1>3
  <2> QED
    BY <1>1, <1>2, <2>1, <2>2, <2>3, <2>4 DEF TypeOK
<1>5. LedgerAgrees(tier, raised)' /\ LedgerKnows'
  BY <1>1, WaveParts DEF LedgerAgrees, LedgerKnows, Known0, Known
<1>6. ~InArm /\ ~InArm'
  BY <1>1 DEF InArm
<1>7. WaveInv'
  BY <1>1, <1>6, WaveParts DEF WaveInv, WaveShape, WaveIds
<1>8. DOMAIN preps' = {} /\ DOMAIN runs' = {}
  BY <1>1
<1>9. ArmsInv'
  BY <1>1, <1>2, <1>6, <1>8 DEF ArmsInv
<1>10. EvidenceInv'
  BY <1>1, <1>8 DEF EvidenceInv
<1>11. HarmInv'
  BY <1>1 DEF HarmInv
<1>12. at + 1 \notin done /\ at + 1 # 0
  BY <1>3
<1>13. PairsInv'
  BY <1>1, <1>3, PairParts DEF PairsInv
<1>14. DonePairIsSound' /\ VerdictRestsOnEvidence'
  BY <1>1, <1>12, PairParts DEF DonePairIsSound, VerdictRestsOnEvidence
<1> QED
  BY <1>4, <1>5, <1>7, <1>9, <1>10, <1>11, <1>13, <1>14 DEF CampaignInv

\* The first of the arms to come, and those after it
LEMMA NextArm ==
  ASSUME todo \in Seq(Arms), IsInjective(todo), todo # <<>>
  PROVE  /\ Head(todo) \in Arms /\ Tail(todo) \in Seq(Arms) /\ IsInjective(Tail(todo))
         /\ Head(todo) \in ToSet(todo) /\ ToSet(Tail(todo)) = ToSet(todo) \ {Head(todo)}
<1> DEFINE n == Len(todo)
           u == Tail(todo)
<1>1. n \in Nat /\ n >= 1 /\ DOMAIN todo = 1..n /\ Head(todo) = todo[1] /\ todo[1] \in Arms
  OBVIOUS
<1>2. u \in Seq(Arms) /\ Len(u) = n - 1 /\ DOMAIN u = 1..n - 1 /\ \A i \in 1..n - 1 : u[i] = todo[i + 1]
  BY <1>1
<1>3. \A i, j \in 1..n : todo[i] = todo[j] => i = j
  BY <1>1 DEF IsInjective
<1> HIDE DEF u, n
<1>4. IsInjective(u)
  <2>1. \A i, j \in 1..n - 1 : u[i] = u[j] => i = j
    <3> SUFFICES ASSUME NEW i \in 1..n - 1, NEW j \in 1..n - 1, u[i] = u[j] PROVE i = j
      OBVIOUS
    <3>1. i + 1 \in 1..n /\ j + 1 \in 1..n /\ todo[i + 1] = todo[j + 1]
      BY <1>1, <1>2
    <3> QED
      BY <1>3, <3>1
  <2> QED
    BY <1>2, <2>1 DEF IsInjective
<1>5. ToSet(u) = ToSet(todo) \ {Head(todo)}
  <2>1. \A i \in 1..n - 1 : u[i] \in ToSet(todo) /\ u[i] # Head(todo)
    <3> TAKE i \in 1..n - 1
    <3>1. i + 1 \in 1..n /\ 1 \in 1..n /\ i + 1 # 1 /\ u[i] = todo[i + 1]
      BY <1>1, <1>2
    <3> QED
      BY <1>1, <1>3, <3>1 DEF ToSet
  <2>2. \A i \in 1..n : todo[i] = Head(todo) \/ todo[i] \in ToSet(u)
    <3> TAKE i \in 1..n
    <3>1. i = 1 \/ (i - 1 \in 1..n - 1 /\ u[i - 1] = todo[i])
      BY <1>1, <1>2
    <3> QED
      BY <1>1, <1>2, <3>1 DEF ToSet
  <2>3. ToSet(u) = {u[i] : i \in 1..n - 1} /\ ToSet(todo) = {todo[i] : i \in 1..n}
    BY <1>1, <1>2 DEF ToSet
  <2>4. ToSet(u) \subseteq ToSet(todo) \ {Head(todo)}
    BY <2>1, <2>3
  <2>5. ToSet(todo) \ {Head(todo)} \subseteq ToSet(u)
    BY <2>2, <2>3
  <2> QED
    BY <2>4, <2>5
<1>6. Head(todo) \in ToSet(todo)
  BY <1>1 DEF ToSet
<1> QED
  BY <1>1, <1>2, <1>4, <1>5, <1>6 DEF u

\* What a step between the arms of a pair has to show
LEMMA ArmStep ==
  ASSUME CampaignInv, UNCHANGED campaignVars, at' = at, pc \in ArmPcs, pc' \in ArmPcs,
         WaveTypeOK', here' \in Arms, pass' \in 0..(WarmupPasses + MeasurementPasses), good' \in BOOLEAN,
         loop' \in {"prepare", "load"}, todo' \in Seq(Arms),
         DOMAIN preps' \subseteq Arms, DOMAIN runs' \subseteq Arms, failed' \in BOOLEAN,
         left' \subseteq Arms, evidence' \subseteq Evidence,
         LedgerAgrees(tier, raised)', LedgerKnows',
         WaveInv', ArmsInv', EvidenceInv', HarmInv'
  PROVE  CampaignInv'
<1>1. PairsInv' /\ DonePairIsSound' /\ VerdictRestsOnEvidence'
  BY PairStep, PairParts
<1>2. TypeOK'
  BY PairParts DEF TypeOK, campaignVars, ArmPcs
<1> QED
  BY <1>1, <1>2 DEF CampaignInv

LEMMA PrepareArmStep ==
  ASSUME CampaignInv, PrepareArm
  PROVE  CampaignInv'
<1>1. /\ pc = "arms" /\ loop = "prepare" /\ todo # <<>> /\ todo' = Tail(todo)
      /\ UNCHANGED <<raised, files, harm, at, loop, preps, runs, left, evidence, campaignVars>>
      /\ \/ /\ tier' = NewTier /\ here' = Head(todo) /\ pc' = "submit" /\ stage' = "store" /\ first' = 1
            /\ memory' = [c \in Chunks |-> "right"] /\ pass' = 1 /\ good' = TRUE
            /\ UNCHANGED <<failed, faults>>
         \/ /\ Fault /\ failed' = TRUE
            /\ UNCHANGED <<tier, here, pc, stage, first, memory, pass, good>>
  BY DEF PrepareArm, WaveFrom, armVars
<1>2. /\ Head(todo) \in Arms /\ todo' \in Seq(Arms) /\ IsInjective(todo') /\ Head(todo) \in ToSet(todo)
      /\ ToSet(todo') = ToSet(todo) \ {Head(todo)}
  BY <1>1, PairParts, NextArm DEF ArmsInv
<1>3. ~tier.up /\ ~InArm /\ (HarmInv /\ harm # {} => harm \subseteq {<<"warmup", "failed">>} \/ Lost)
  BY <1>1, WaveParts DEF WaveInv, WaveShape, InArm, HarmInv
<1>4. Lost => Lost'
  BY <1>1 DEF Lost
<1>5. EvidenceInv'
  BY <1>1, PairParts DEF EvidenceInv
<1>6. CASE tier' = NewTier /\ here' = Head(todo) /\ pc' = "submit" /\ stage' = "store" /\ first' = 1
           /\ memory' = [c \in Chunks |-> "right"] /\ pass' = 1 /\ good' = TRUE
           /\ UNCHANGED <<failed, faults>>
  <2>1. WaveTypeOK'
    BY <1>1, <1>2, <1>6, WaveParts, TierFacts, Config DEF WaveTypeOK, MemoryStates, Stages
  <2>2. LedgerAgrees(tier, raised)' /\ LedgerKnows'
    BY <1>6, FreshLedger
  <2>3. ~raised
    BY <1>1, WaveParts DEF WaveInv, WaveShape
  <2>4. WaveInv'
    BY <1>1, <1>6, <2>3, TierFacts DEF WaveInv, WaveShape, InArm
  <2>5. ArmsInv'
    BY <1>1, <1>2, <1>6, PairParts DEF ArmsInv, InArm, Status
  <2>6. HarmInv'
    BY <1>1, <1>3, <1>4, PairParts DEF HarmInv
  <2>7. 1 \in 0..(WarmupPasses + MeasurementPasses)
    BY Config
  <2> QED
    BY <1>1, <1>2, <1>5, <1>6, <2>1, <2>2, <2>4, <2>5, <2>6, <2>7, PairParts, WaveParts, ArmStep DEF ArmPcs
<1>7. CASE Fault /\ failed' = TRUE /\ UNCHANGED <<tier, here, pc, stage, first, memory, pass, good>>
  <2>1. WaveTypeOK'
    BY <1>1, <1>7, WaveFacts, WaveParts, FaultType DEF WaveTypeOK
  <2>2. LedgerAgrees(tier, raised)' /\ LedgerKnows'
    BY <1>1, <1>7, WaveParts DEF LedgerAgrees, LedgerKnows, Known0, Known
  <2>3. WaveInv'
    BY <1>1, <1>7, WaveParts DEF WaveInv, WaveShape, InArm, WaveIds
  <2>4. ArmsInv'
    BY <1>1, <1>2, <1>7, PairParts DEF ArmsInv, InArm, Status
  <2>5. HarmInv'
    BY <1>1, <1>7, PairParts DEF HarmInv, Lost
  <2> QED
    BY <1>1, <1>2, <1>5, <1>7, <2>1, <2>2, <2>3, <2>4, <2>5, PairParts, WaveParts, ArmStep DEF ArmPcs
<1> QED
  BY <1>1, <1>6, <1>7

LEMMA LoadArmsStep ==
  ASSUME CampaignInv, LoadArms
  PROVE  CampaignInv'
<1>1. /\ pc = "arms" /\ loop = "prepare" /\ todo = <<>>
      /\ loop' = "load" /\ todo' = ArmsOf(Item(at).load)
      /\ UNCHANGED <<waveVars, armVars, at, preps, runs, failed, left, evidence, campaignVars>>
  BY DEF LoadArms
<1> USE DEF waveVars, armVars
<1>2. todo' \in Seq(Arms) /\ IsInjective(todo')
  BY <1>1, OrderOfArms
<1>3. ~InArm /\ ~InArm'
  BY <1>1 DEF InArm
<1>4. WaveTypeOK'
  BY <1>1, WaveFacts, WaveParts DEF WaveTypeOK
<1>5. LedgerAgrees(tier, raised)' /\ LedgerKnows'
  BY <1>1, WaveParts DEF LedgerAgrees, LedgerKnows, Known0, Known
<1>6. WaveInv'
  BY <1>1, <1>3, WaveParts DEF WaveInv, WaveShape, WaveIds
<1>7. ArmsInv'
  <2>1. DOMAIN runs' = {}
    BY <1>1, PairParts DEF ArmsInv
  <2>2. \A a \in left : Status(preps, a) # "PASS"
    BY <1>1, PairParts DEF ArmsInv
  <2> QED
    BY <1>1, <1>2, <1>3, <2>1, <2>2 DEF ArmsInv, Status
<1>8. EvidenceInv' /\ HarmInv'
  BY <1>1, <1>3, PairParts DEF EvidenceInv, HarmInv, Lost
<1> QED
  BY <1>1, <1>2, <1>4, <1>5, <1>6, <1>7, <1>8, PairParts, WaveParts, ArmStep DEF ArmPcs

LEMMA SkipArmStep ==
  ASSUME CampaignInv, SkipArm
  PROVE  CampaignInv'
<1>1. /\ pc = "arms" /\ loop = "load" /\ todo # <<>> /\ todo' = Tail(todo)
      /\ UNCHANGED <<waveVars, armVars, at, loop, preps, runs, failed, left, evidence, campaignVars>>
  BY DEF SkipArm
<1> USE DEF waveVars, armVars
<1>2. /\ Head(todo) \in Arms /\ todo' \in Seq(Arms) /\ IsInjective(todo') /\ Head(todo) \in ToSet(todo)
      /\ ToSet(todo') = ToSet(todo) \ {Head(todo)}
  BY <1>1, PairParts, NextArm DEF ArmsInv
<1>3. ~InArm /\ ~InArm'
  BY <1>1 DEF InArm
<1>4. WaveTypeOK'
  BY <1>1, WaveFacts, WaveParts DEF WaveTypeOK
<1>5. LedgerAgrees(tier, raised)' /\ LedgerKnows'
  BY <1>1, WaveParts DEF LedgerAgrees, LedgerKnows, Known0, Known
<1>6. WaveInv'
  BY <1>1, <1>3, WaveParts DEF WaveInv, WaveShape, WaveIds
<1>7. ArmsInv'
  BY <1>1, <1>2, <1>3, PairParts DEF ArmsInv, Status
<1>8. EvidenceInv' /\ HarmInv'
  BY <1>1, <1>3, PairParts DEF EvidenceInv, HarmInv, Lost
<1> QED
  BY <1>1, <1>2, <1>4, <1>5, <1>6, <1>7, <1>8, PairParts, WaveParts, ArmStep DEF ArmPcs

LEMMA MeasureArmStep ==
  ASSUME CampaignInv, MeasureArm
  PROVE  CampaignInv'
<1>1. /\ pc = "arms" /\ loop = "load" /\ todo # <<>> /\ todo' = Tail(todo) /\ here' = Head(todo)
      /\ Status(preps, Head(todo)) = "PASS"
      /\ memory' = [c \in Chunks |-> "zero"]
      /\ UNCHANGED <<files, at, loop, preps, runs, evidence, campaignVars>>
  BY DEF MeasureArm, Prepared
<1>2. \/ /\ tier' = NewTier /\ pass' = 1 /\ good' \in BOOLEAN /\ (Fault \/ faults' = faults)
         /\ UNCHANGED <<failed, left, harm>>
         /\ \/ pc' = "close" /\ raised' = TRUE /\ UNCHANGED <<stage, first>>
            \/ pc' = "submit" /\ stage' = "warmup" /\ first' = 1 /\ UNCHANGED raised
      \/ /\ Fault /\ failed' = TRUE /\ left' = left \cup {Head(todo)}
         /\ harm' = harm \cup {<<"tier", "left">>}
         /\ UNCHANGED <<tier, pc, raised, stage, first, pass, good>>
  BY DEF MeasureArm, Raise, WaveFrom, LookupAll, FaultIf, armVars
<1>3. /\ Head(todo) \in Arms /\ todo' \in Seq(Arms) /\ IsInjective(todo') /\ Head(todo) \in ToSet(todo)
      /\ ToSet(todo') = ToSet(todo) \ {Head(todo)}
  BY <1>1, PairParts, NextArm DEF ArmsInv
<1>4. ~tier.up /\ ~InArm /\ ~raised /\ (harm \subseteq {<<"warmup", "failed">>} \/ Lost)
  BY <1>1, PairParts, WaveParts DEF WaveInv, WaveShape, InArm, HarmInv
<1>5. EvidenceInv'
  <2>1. failed => failed'
    BY <1>2
  <2> QED
    BY <1>1, <2>1, PairParts DEF EvidenceInv
<1>6. Head(todo) \notin left /\ Head(todo) \notin DOMAIN runs
  BY <1>1, <1>3, PairParts DEF ArmsInv
<1>7. here' \in Dirs /\ memory' \in [Chunks -> MemoryStates]
  BY <1>1, <1>3, Config DEF MemoryStates
<1>8. CASE /\ tier' = NewTier /\ pass' = 1 /\ good' \in BOOLEAN /\ (Fault \/ faults' = faults)
           /\ UNCHANGED <<failed, left, harm>>
           /\ \/ pc' = "close" /\ raised' = TRUE /\ UNCHANGED <<stage, first>>
              \/ pc' = "submit" /\ stage' = "warmup" /\ first' = 1 /\ UNCHANGED raised
  <2>1. WaveTypeOK'
    <3>1. raised' \in BOOLEAN /\ stage' \in Stages /\ first' \in Nat
      <4>1. raised \in BOOLEAN /\ stage \in Stages /\ first \in Nat /\ "warmup" \in Stages
        BY WaveParts DEF Stages
      <4>2. CASE pc' = "close" /\ raised' = TRUE /\ UNCHANGED <<stage, first>>
        BY <4>1, <4>2
      <4>3. CASE pc' = "submit" /\ stage' = "warmup" /\ first' = 1 /\ UNCHANGED raised
        BY <4>1, <4>3
      <4> QED
        BY <1>8, <4>2, <4>3
    <3>2. faults' \in 0..MaxFaults /\ tier' \in Tier
      BY <1>8, WaveParts, TierFacts, FaultType
    <3> QED
      BY <1>1, <1>7, <1>8, <3>1, <3>2, WaveParts DEF WaveTypeOK
  <2>2. LedgerAgrees(tier, raised)' /\ LedgerKnows'
    BY <1>8, FreshLedger
  <2>3. InArm' /\ (raised' => pc' = "close") /\ (pc' = "submit" => stage' # "store")
    BY <1>4, <1>8 DEF InArm
  <2>4. WaveInv'
    <3>1. tier'.up = TRUE /\ tier'.working = {} /\ tier'.finished = <<>>
      BY <1>8, TierFacts
    <3>2. first' >= 1 /\ (stage' = "store" => first' = 1)
      BY <1>8, WaveParts DEF WaveInv, WaveShape
    <3>3. pc' \in {"submit", "close"} /\ loop' = "load"
      BY <1>1, <1>8
    <3> QED
      BY <2>3, <3>1, <3>2, <3>3 DEF WaveInv, WaveShape
  <2>5. ArmsInv'
    BY <1>1, <1>3, <1>6, <1>8, PairParts DEF ArmsInv, InArm, Status
  <2>6. HarmInv'
    <3>1. Lost => Lost'
      BY <1>1, <1>8 DEF Lost
    <3> HIDE DEF Lost
    <3> QED
      BY <1>1, <1>4, <1>8, <3>1, PairParts DEF HarmInv
  <2>7. 1 \in 0..(WarmupPasses + MeasurementPasses)
    BY Config
  <2> QED
    BY <1>1, <1>3, <1>5, <1>8, <2>1, <2>2, <2>4, <2>5, <2>6, <2>7, PairParts, WaveParts, ArmStep DEF ArmPcs
<1>9. CASE /\ Fault /\ failed' = TRUE /\ left' = left \cup {Head(todo)}
           /\ harm' = harm \cup {<<"tier", "left">>}
           /\ UNCHANGED <<tier, pc, raised, stage, first, pass, good>>
  <2>1. WaveTypeOK'
    <3>1. <<"tier", "left">> \in Harms
      BY DEF Harms
    <3> QED
      BY <1>1, <1>7, <1>9, <3>1, WaveFacts, WaveParts, FaultType DEF WaveTypeOK
  <2>2. LedgerAgrees(tier, raised)' /\ LedgerKnows'
    BY <1>1, <1>9, WaveParts DEF LedgerAgrees, LedgerKnows, Known0, Known
  <2>3. WaveInv'
    BY <1>1, <1>9, WaveParts DEF WaveInv, WaveShape, InArm, WaveIds
  <2>4. ArmsInv'
    BY <1>1, <1>3, <1>9, PairParts DEF ArmsInv, InArm, Status
  <2>5. HarmInv'
    BY <1>9 DEF HarmInv, Lost
  <2>6. left' \subseteq Arms
    BY <1>3, <1>9, PairParts
  <2> QED
    BY <1>1, <1>3, <1>5, <1>9, <2>1, <2>2, <2>3, <2>4, <2>5, <2>6, PairParts, WaveParts, ArmStep DEF ArmPcs
<1> QED
  BY <1>2, <1>8, <1>9

LEMMA PairKept ==
  ASSUME CampaignInv, UNCHANGED pairVars, here' = here, InArm, InArm',
         pc' # "close" /\ loop = "prepare" => good'
  PROVE  ArmsInv' /\ EvidenceInv'
BY PairParts DEF ArmsInv, EvidenceInv, Status, pairVars

LEMMA WavedFacts ==
  ASSUME CampaignInv, pc = "waved"
  PROVE  /\ ~raised /\ tier.up /\ tier.working = {} /\ tier.finished = <<>>
         /\ stage = "store" <=> loop = "prepare"
         /\ FailedJob => ~AllSuccess
         /\ LostFile => ~Whole(here)
BY CampaignSafe, WaveOver, WaveParts DEF WaveInv

\* What the checks after a wave may do: on to the finally block, or to another
\* wave, with whatever went wrong told.
LEMMA CheckedStep ==
  ASSUME CampaignInv, pc = "waved", UNCHANGED <<tier, here, files, memory, pairVars, campaignVars>>,
         pass' \in 0..(WarmupPasses + MeasurementPasses), good' \in BOOLEAN,
         Fault \/ faults' = faults,
         \/ pc' = "close" /\ raised' \in BOOLEAN /\ UNCHANGED <<stage, first>>
         \/ /\ pc' = "submit" /\ raised' = raised /\ first' = first + NChunks
            /\ stage # "store" /\ stage' \in Stages \ {"store"},
         harm' \subseteq Harms, harm \subseteq harm',
         \/ raised' \/ ~good'
         \/ good /\ harm' = harm /\ (stage # "warmup" => ~FailedJob) /\ (stage = "store" => ~LostFile)
  PROVE  CampaignInv'
<1> USE DEF pairVars
<1>1. /\ ~raised /\ tier.up /\ tier.working = {} /\ tier.finished = <<>>
      /\ stage = "store" <=> loop = "prepare"
  BY WavedFacts
<1>2. InArm /\ InArm'
  BY DEF InArm
<1>3. ArmsInv' /\ EvidenceInv'
  BY <1>1, <1>2, PairKept
<1>4. WaveTypeOK'
  <2>1. raised' \in BOOLEAN /\ stage' \in Stages /\ first' \in Nat
    BY WaveParts, Config
  <2>2. faults' \in 0..MaxFaults /\ tier' \in Tier
    BY WaveFacts, WaveParts, FaultType
  <2> QED
    BY <2>1, <2>2, WaveParts DEF WaveTypeOK
<1>5. LedgerAgrees(tier, raised)' /\ LedgerKnows'
  BY <1>1, WaveParts DEF LedgerAgrees, LedgerKnows, Known0, Known
<1>6. WaveInv'
  <2>1. first' >= 1 /\ (stage' = "store" => first' = 1)
    BY WaveParts, Config DEF WaveInv, WaveShape
  <2> QED
    BY <1>1, <1>2, <2>1 DEF WaveInv, WaveShape
<1>7. HarmInv'
  <2>1. Lost => Lost'
    BY DEF Lost
  <2>2. HarmInv /\ (WaveFails => (stage # "warmup" /\ FailedJob) \/ (stage = "store" /\ LostFile))
    BY PairParts DEF WaveFails
  <2> HIDE DEF Lost, WaveFails
  <2> QED
    BY <1>1, <1>2, <2>1, <2>2 DEF HarmInv
<1> QED
  BY <1>3, <1>4, <1>5, <1>6, <1>7, PairParts, WaveParts, ArmStep DEF ArmPcs

LEMMA CheckStoreStep ==
  ASSUME CampaignInv, CheckStore
  PROVE  CampaignInv'
<1>1. /\ pc = "waved" /\ stage = "store" /\ pc' = "close"
      /\ good' = (AllSuccess /\ Whole(here) /\ Accounted(tier))
      /\ UNCHANGED <<tier, raised, stage, first, here, files, memory, faults, harm, pass,
                 pairVars, campaignVars>>
  BY DEF CheckStore
<1>2. good' \in BOOLEAN
  BY <1>1 DEF AllSuccess, Whole, Accounted
<1>3. good
  BY <1>1, PairParts, WavedFacts DEF ArmsInv, InArm
<1>4. ~good' \/ (~FailedJob /\ ~LostFile)
  BY <1>1, WavedFacts
<1> QED
  BY <1>1, <1>2, <1>3, <1>4, PairParts, WaveParts, CheckedStep

LEMMA CheckWarmupStep ==
  ASSUME CampaignInv, CheckWarmup
  PROVE  CampaignInv'
<1>1. /\ pc = "waved" /\ stage = "warmup"
      /\ UNCHANGED <<tier, here, files, memory, faults, harm, good, pairVars, campaignVars>>
      /\ \/ /\ pc' = "submit" /\ stage' \in {"warmup", "load"} /\ first' = first + NChunks /\ UNCHANGED raised
            /\ (pass < WarmupPasses /\ pass' = pass + 1) \/ pass' = 1
         \/ pc' = "close" /\ raised' = TRUE /\ UNCHANGED <<stage, first, pass>>
  BY DEF CheckWarmup, NextWave, WaveFrom, Raise
<1>2. pass' \in 0..(WarmupPasses + MeasurementPasses)
  <2>1. WarmupPasses \in Nat /\ MeasurementPasses \in Nat /\ MeasurementPasses >= 1
        /\ pass \in 0..(WarmupPasses + MeasurementPasses)
    BY Config, PairParts
  <2>2. pass' = pass \/ (pass < WarmupPasses /\ pass' = pass + 1) \/ pass' = 1
    BY <1>1
  <2> QED
    BY <2>1, <2>2
<1>3. \/ pc' = "close" /\ raised' \in BOOLEAN /\ UNCHANGED <<stage, first>>
      \/ /\ pc' = "submit" /\ raised' = raised /\ first' = first + NChunks
         /\ stage # "store" /\ stage' \in Stages \ {"store"}
  BY <1>1 DEF Stages
<1> QED
  BY <1>1, <1>2, <1>3, PairParts, WaveParts, CheckedStep

LEMMA CheckLoadStep ==
  ASSUME CampaignInv, CheckLoad
  PROVE  CampaignInv'
<1>1. /\ pc = "waved" /\ stage = "load"
      /\ UNCHANGED <<tier, here, files, memory, pairVars, campaignVars>>
  BY DEF CheckLoad
<1>2. CASE /\ pass < MeasurementPasses /\ NextWave("load") /\ pass' = pass + 1
           /\ good' = (good /\ AllSuccess) /\ UNCHANGED <<faults, harm>>
  <2>1. pass' \in 0..(WarmupPasses + MeasurementPasses)
    <3>1. WarmupPasses \in Nat /\ MeasurementPasses \in Nat /\ pass \in 0..(WarmupPasses + MeasurementPasses)
      BY Config, PairParts
    <3> QED
      BY <1>2, <3>1
  <2>2. good' \in BOOLEAN
    BY <1>2, PairParts DEF AllSuccess
  <2>3. ~good' \/ (good /\ ~FailedJob)
    BY <1>1, <1>2, WavedFacts
  <2>4. /\ pc' = "submit" /\ raised' = raised /\ first' = first + NChunks
        /\ stage # "store" /\ stage' \in Stages \ {"store"}
    BY <1>1, <1>2 DEF NextWave, WaveFrom, Stages
  <2> QED
    BY <1>1, <1>2, <2>1, <2>2, <2>3, <2>4, PairParts, WaveParts, CheckedStep
<1>3. CASE /\ pass = MeasurementPasses
           /\ \E long \in BOOLEAN :
                /\ FaultIf(~long)
                /\ good' = (good /\ AllSuccess /\ long /\ BytesRight /\ Whole(here) /\ Accounted(tier))
           /\ harm' = harm \cup BytesHarm
           /\ pc' = "close" /\ UNCHANGED <<raised, stage, first, pass>>
  <2>1. PICK long \in BOOLEAN :
          /\ FaultIf(~long)
          /\ good' = (good /\ AllSuccess /\ long /\ BytesRight /\ Whole(here) /\ Accounted(tier))
    BY <1>3
  <2>2. good' \in BOOLEAN
    BY <2>1, PairParts DEF AllSuccess, BytesRight, Whole, Accounted
  <2>3. ~good' \/ (good /\ ~FailedJob /\ harm' = harm)
    BY <1>1, <1>3, <2>1, WavedFacts DEF BytesHarm
  <2>4. Fault \/ faults' = faults
    BY <2>1 DEF FaultIf
  <2>5. harm' \subseteq Harms /\ harm \subseteq harm'
    BY <1>3, WaveParts DEF BytesHarm, Harms
  <2> QED
    BY <1>1, <1>3, <2>2, <2>3, <2>4, <2>5, PairParts, WaveParts, CheckedStep
<1> QED
  BY <1>2, <1>3 DEF CheckLoad

LEMMA WithFacts ==
  ASSUME NEW f, NEW arm, NEW s
  PROVE  /\ DOMAIN With(f, arm, s) = DOMAIN f \cup {arm}
         /\ With(f, arm, s)[arm] = s
         /\ \A x \in DOMAIN f : x # arm => With(f, arm, s)[x] = f[x]
BY DEF With

\* An arm closed.  What it is told of is its file, and its status if it has a
\* result.
LEMMA CloseArmStep ==
  ASSUME CampaignInv, CloseArm
  PROVE  CampaignInv'
<1>1. PICK clean \in BOOLEAN :
        /\ CloseTier(clean)
        /\ IF raised
           THEN failed' = TRUE /\ UNCHANGED <<preps, runs>>
           ELSE /\ UNCHANGED failed
                /\ preps' = IF loop = "prepare" THEN With(preps, here, ArmStatus(clean)) ELSE preps
                /\ runs' = IF loop = "load" THEN With(runs, here, ArmStatus(clean)) ELSE runs
        /\ evidence' = evidence \cup {<<here, loop, IF raised THEN "failure" ELSE "result">>}
        /\ left' = IF clean THEN left ELSE left \cup {here}
        /\ harm' = IF clean THEN harm ELSE harm \cup {<<"tier", "left">>}
        /\ tier' = NoTier /\ pc' = "arms" /\ raised' = FALSE
        /\ UNCHANGED <<stage, first, here, files, memory, armVars, at, loop, todo, campaignVars>>
  BY DEF CloseArm
<1> DEFINE s == ArmStatus(clean)
<1>2. pc = "close" /\ (Fault \/ faults' = faults)
  BY <1>1 DEF CloseTier, FaultIf
<1>3. s \in Statuses /\ (~good \/ tier.dropped \/ ~clean => s = "FAIL") /\ s # "MISSING"
  BY DEF ArmStatus, StatusIf, Statuses
<1> HIDE DEF s
<1>4. InArm /\ ~InArm'
  BY <1>1, <1>2 DEF InArm
<1>5. here \in Arms /\ loop \in {"prepare", "load"} /\ raised \in BOOLEAN
  BY WaveParts, PairParts, Config DEF Arms
<1>6. /\ here \notin ToSet(todo) /\ here \notin left
      /\ loop = "prepare" => here \notin DOMAIN preps
      /\ loop = "load" => here \notin DOMAIN runs
  BY <1>4, PairParts DEF ArmsInv
<1>7. \/ /\ raised /\ failed' = TRUE /\ preps' = preps /\ runs' = runs
         /\ evidence' = evidence \cup {<<here, loop, "failure">>}
      \/ /\ ~raised /\ failed' = failed /\ loop = "prepare" /\ runs' = runs
         /\ DOMAIN preps' = DOMAIN preps \cup {here} /\ preps'[here] = s
         /\ preps' = [x \in DOMAIN preps \cup {here} |-> IF x = here THEN s ELSE preps[x]]
         /\ evidence' = evidence \cup {<<here, loop, "result">>}
      \/ /\ ~raised /\ failed' = failed /\ loop = "load" /\ preps' = preps
         /\ DOMAIN runs' = DOMAIN runs \cup {here} /\ runs'[here] = s
         /\ runs' = [x \in DOMAIN runs \cup {here} |-> IF x = here THEN s ELSE runs[x]]
         /\ evidence' = evidence \cup {<<here, loop, "result">>}
  <2>1. CASE raised
    BY <1>1, <2>1
  <2>2. CASE ~raised /\ loop = "prepare"
    BY <1>1, <2>2 DEF With, s
  <2>3. CASE ~raised /\ loop = "load"
    BY <1>1, <2>3 DEF With, s
  <2> QED
    BY <1>5, <2>1, <2>2, <2>3
<1>8. WaveTypeOK'
  <2>1. <<"tier", "left">> \in Harms
    BY DEF Harms
  <2>2. harm' \subseteq Harms
    BY <1>1, <2>1, WaveParts
  <2>3. faults' \in 0..MaxFaults
    BY <1>2, WaveParts, FaultType
  <2> QED
    BY <1>1, <2>2, <2>3, WaveParts, TierFacts DEF WaveTypeOK
<1>9. LedgerAgrees(tier, raised)' /\ LedgerKnows'
  BY <1>1, FreshLedger
<1>10. WaveInv'
  <2>1. tier'.up = FALSE /\ tier'.working = {}
    BY <1>1, TierFacts
  <2> QED
    BY <1>1, <1>4, <2>1, WaveParts DEF WaveInv, WaveShape
<1>11. ArmsInv'
  <2>1. ArmsInv
    BY PairParts
  <2>2. \A a \in left' : a \in left \/ (a = here /\ ~clean)
    BY <1>1
  <2>3. \A a : a # here => Status(preps', a) = Status(preps, a)
    BY <1>7 DEF Status
  <2>4. loop = "prepare" /\ ~clean => Status(preps', here) # "PASS"
    BY <1>3, <1>6, <1>7 DEF Status
  <2>5. ASSUME NEW a \in left', Status(preps', a) = "PASS" PROVE loop = "load" /\ a \notin ToSet(todo)
    <3>1. CASE a = here
      BY <1>5, <1>6, <2>2, <2>4, <2>5, <3>1
    <3>2. CASE a # here
      BY <2>1, <2>2, <2>3, <2>5, <3>2 DEF ArmsInv
    <3> QED
      BY <3>1, <3>2
  <2>6. loop = "prepare" =>
          /\ runs' = <<>>
          /\ \A a \in ToSet(todo) : a \notin DOMAIN preps' /\ a \notin left'
    BY <1>6, <1>7, <2>1, <2>2 DEF ArmsInv
  <2>7. loop = "load" => \A a \in ToSet(todo) : a \notin DOMAIN runs'
    BY <1>6, <1>7, <2>1 DEF ArmsInv
  <2> QED
    BY <1>1, <1>4, <2>1, <2>5, <2>6, <2>7 DEF ArmsInv
<1>12. EvidenceInv' /\ DOMAIN preps' \subseteq Arms /\ DOMAIN runs' \subseteq Arms
  <2>1. EvidenceInv /\ DOMAIN preps \subseteq Arms /\ DOMAIN runs \subseteq Arms
    BY PairParts
  <2>2. CASE /\ raised /\ failed' = TRUE /\ preps' = preps /\ runs' = runs
             /\ evidence' = evidence \cup {<<here, loop, "failure">>}
    BY <2>1, <2>2 DEF EvidenceInv
  <2>3. CASE /\ ~raised /\ failed' = failed /\ loop = "prepare" /\ runs' = runs
             /\ preps' = [x \in DOMAIN preps \cup {here} |-> IF x = here THEN s ELSE preps[x]]
             /\ evidence' = evidence \cup {<<here, loop, "result">>}
    <3>1. preps' \in [DOMAIN preps' -> Statuses] /\ DOMAIN preps' = DOMAIN preps \cup {here}
      BY <1>3, <2>1, <2>3 DEF EvidenceInv
    <3> QED
      BY <1>5, <2>1, <2>3, <3>1 DEF EvidenceInv
  <2>4. CASE /\ ~raised /\ failed' = failed /\ loop = "load" /\ preps' = preps
             /\ runs' = [x \in DOMAIN runs \cup {here} |-> IF x = here THEN s ELSE runs[x]]
             /\ evidence' = evidence \cup {<<here, loop, "result">>}
    <3>1. runs' \in [DOMAIN runs' -> Statuses] /\ DOMAIN runs' = DOMAIN runs \cup {here}
      BY <1>3, <2>1, <2>4 DEF EvidenceInv
    <3> QED
      BY <1>5, <2>1, <2>4, <3>1 DEF EvidenceInv
  <2> QED
    BY <1>7, <2>2, <2>3, <2>4
<1>13. HarmInv'
  <2>1. Lost => Lost'
    BY <1>6, <1>7 DEF Lost
  <2>2. raised \/ ~good \/ tier.dropped \/ ~clean => Lost'
    BY <1>3, <1>7 DEF Lost
  <2>3. ~WaveFails
    BY <1>2 DEF WaveFails
  <2>4. clean => harm' = harm /\ left' = left
    BY <1>1
  <2>5. ~clean => <<"tier", "left">> \in harm'
    BY <1>1
  <2>6. HarmInv
    BY PairParts
  <2> HIDE DEF Lost
  <2> QED
    BY <2>1, <2>2, <2>3, <2>4, <2>5, <2>6 DEF HarmInv
<1>14. failed' \in BOOLEAN /\ left' \subseteq Arms /\ evidence' \subseteq Evidence
  <2>1. <<here, loop, "failure">> \in Evidence /\ <<here, loop, "result">> \in Evidence
    BY <1>5 DEF Evidence
  <2> QED
    BY <1>1, <1>5, <1>7, <2>1, PairParts
<1> QED
  BY <1>1, <1>2, <1>8, <1>9, <1>10, <1>11, <1>12, <1>13, <1>14, PairParts, WaveParts, ArmStep DEF ArmPcs, armVars

\* A pair that passes its checks was not harmed, and left what it should.
LEMMA SoundPair ==
  ASSUME CampaignInv, pc = "arms", BothPass(preps), BothPass(runs), ~failed
  PROVE  /\ harm \subseteq {<<"warmup", "failed">>} /\ left = {}
         /\ evidence = Arms \X {"prepare", "load"} \X {"result"}
<1>1. DOMAIN preps = Arms /\ DOMAIN runs = Arms
      /\ \A a \in Arms : preps[a] = "PASS" /\ runs[a] = "PASS"
  <2>1. \A a \in Arms : a \in DOMAIN preps /\ preps[a] = "PASS" /\ a \in DOMAIN runs /\ runs[a] = "PASS"
    BY DEF BothPass, Status
  <2>2. DOMAIN preps \subseteq Arms /\ DOMAIN runs \subseteq Arms
    BY PairParts
  <2> QED
    BY <2>1, <2>2
<1>2. ~Lost /\ ~InArm
  BY <1>1 DEF Lost, InArm
<1>3. harm \subseteq {<<"warmup", "failed">>} /\ left = {}
  <2>1. harm \subseteq {<<"warmup", "failed">>} /\ (left # {} => <<"tier", "left">> \in harm)
    BY <1>2, PairParts DEF HarmInv
  <2> QED
    BY <2>1
<1>4. evidence = Arms \X {"prepare", "load"} \X {"result"}
  <2>1. evidence \subseteq Arms \X {"prepare", "load"} \X {"result", "failure"}
    BY PairParts DEF Evidence
  <2>2. \A e \in evidence : e[3] # "failure"
    BY PairParts DEF EvidenceInv
  <2>3. \A a \in Arms : <<a, "prepare", "result">> \in evidence /\ <<a, "load", "result">> \in evidence
    BY <1>1, PairParts DEF EvidenceInv
  <2>4. \A e \in evidence : e \in Arms \X {"prepare", "load"} \X {"result"}
    BY <2>1, <2>2
  <2>5. \A e \in Arms \X {"prepare", "load"} \X {"result"} : e \in evidence
    <3> TAKE e \in Arms \X {"prepare", "load"} \X {"result"}
    <3>1. PICK a \in Arms, l \in {"prepare", "load"} : e = <<a, l, "result">>
      OBVIOUS
    <3> QED
      BY <2>3, <3>1
  <2> QED
    BY <2>4, <2>5
<1> QED
  BY <1>3, <1>4

LEMMA FinishPairStep ==
  ASSUME CampaignInv, FinishPair
  PROVE  CampaignInv'
<1>1. PICK removed \in BOOLEAN, near \in BOOLEAN :
        /\ Retain => removed
        /\ FaultIf(~removed \/ ~near)
        /\ LET ok == BothPass(preps) /\ BothPass(runs) /\ ~failed /\ near /\ removed IN
             /\ results' = Append(results,
                  [window |-> Item(at).window, load |-> Item(at).load,
                   status |-> StatusIf(ok),
                   a |-> Status(runs, "A"), b |-> Status(runs, "B")])
             /\ done' = IF ok THEN done \cup {at} ELSE done
        /\ kept' = IF Retain \/ ~removed THEN kept \cup {at} ELSE kept
  BY DEF FinishPair
<1>2. /\ pc = "arms" /\ pc' = "pairs"
      /\ UNCHANGED <<tier, raised, stage, first, here, files, memory, harm, armVars, pairVars,
                     harness, schedule, effects, verdict, exit>>
  BY DEF FinishPair
<1> USE DEF armVars, pairVars
<1> DEFINE ok == BothPass(preps) /\ BothPass(runs) /\ ~failed /\ near /\ removed
           r == [window |-> Item(at).window, load |-> Item(at).load,
                 status |-> StatusIf(ok),
                 a |-> Status(runs, "A"), b |-> Status(runs, "B")]
<1>3. /\ results' = Append(results, r) /\ done' = (IF ok THEN done \cup {at} ELSE done)
      /\ r.window = schedule[at].window /\ r.load = schedule[at].load /\ (r.status = "PASS" <=> ok)
  BY <1>1 DEF Item, StatusIf
<1>4. /\ at \in Nat /\ at >= 1 /\ at <= NPairs /\ Len(results) = at - 1 /\ results \in Seq(PairResult)
      /\ done \subseteq 0..at - 1 /\ kept \subseteq 0..at - 1
  <2>1. at \in Nat /\ at <= NPairs /\ Len(results) = at - 1
    BY <1>2, PairParts DEF PairsInv
  <2>2. results \in Seq(PairResult)
    BY PairParts DEF TypeOK
  <2>3. done \subseteq 0..Len(results) /\ kept \subseteq 0..Len(results)
    BY PairParts DEF PairsInv
  <2>4. Len(results) \in Nat
    BY <2>2
  <2> QED
    BY <2>1, <2>2, <2>3, <2>4
<1>5. r \in PairResult
  <2>1. at \in 1..NPairs
    BY <1>4, PairCount
  <2>2. schedule[at].window \in 0..(NWindows - 1) /\ schedule[at].load \in Orders
    BY <2>1, PairParts, ScheduleFacts
  <2>3. \A a \in Arms : Status(runs, a) \in Statuses \cup {"MISSING"}
    BY PairParts DEF EvidenceInv, Status
  <2>4. Status(runs, "A") \in Statuses \cup {"MISSING"} /\ Status(runs, "B") \in Statuses \cup {"MISSING"}
    BY <2>3 DEF Arms
  <2> HIDE DEF ok
  <2>5. StatusIf(ok) \in Statuses
    BY DEF StatusIf, Statuses
  <2> QED
    BY <2>2, <2>4, <2>5 DEF PairResult, Item
<1> HIDE DEF ok, r
<1>6. /\ results' \in Seq(PairResult) /\ Len(results') = at
      /\ \A k \in 1..at - 1 : results'[k] = results[k]
      /\ results'[at] = r
  BY <1>3, <1>4, <1>5
<1>7. /\ done' \subseteq done \cup {at} /\ (at \in done' <=> ok) /\ done \subseteq done'
      /\ kept' \subseteq kept \cup {at} /\ kept \subseteq kept' /\ (ok /\ at \in kept' => Retain)
  BY <1>1, <1>3, <1>4 DEF ok
<1>8. ~InArm /\ ~InArm'
  BY <1>2 DEF InArm
<1>9. TypeOK'
  <2>1. WaveTypeOK'
    <3>1. Fault \/ faults' = faults
      BY <1>1 DEF FaultIf
    <3> QED
      BY <1>2, <3>1, WaveFacts, WaveParts, FaultType DEF WaveTypeOK
  <2>2. done' \subseteq 0..NPairs /\ kept' \subseteq 0..NPairs
    BY <1>4, <1>7, PairCount
  <2>3. TypeOK
    BY PairParts
  <2> QED
    BY <1>2, <1>6, <2>1, <2>2, <2>3 DEF TypeOK
<1>10. LedgerAgrees(tier, raised)' /\ LedgerKnows'
  BY <1>2, WaveParts DEF LedgerAgrees, LedgerKnows, Known0, Known
<1>11. WaveInv'
  BY <1>2, <1>8, WaveParts DEF WaveInv, WaveShape, WaveIds
<1>12. ArmsInv' /\ EvidenceInv'
  BY <1>2, <1>8, PairParts DEF ArmsInv, Status, EvidenceInv
<1>13. HarmInv'
  BY <1>2, <1>8, PairParts DEF HarmInv, Lost
<1>14. PairsInv'
  <2>1. PairsInv /\ at' = at /\ schedule' = schedule /\ exit' = exit /\ verdict' = verdict
    BY <1>2, PairParts
  <2>2. ASSUME NEW k \in 1..at
        PROVE  /\ results'[k].window = schedule[k].window /\ results'[k].load = schedule[k].load
               /\ results'[k].status = "PASS" => k \in done'
               /\ k \in done' => Retain \/ k \notin kept'
    <3>1. CASE k = at
      BY <1>3, <1>6, <1>7, <3>1
    <3>2. CASE k # at
      <4>1. k \in 1..at - 1 /\ k \in 1..Len(results)
        BY <1>4, <3>2
      <4> QED
        BY <1>6, <1>7, <2>1, <3>2, <4>1 DEF PairsInv
    <3> QED
      BY <3>1, <3>2
  <2>3. done' \subseteq 0..at /\ kept' \subseteq 0..at
    BY <1>4, <1>7
  <2>4. 0 \notin done' /\ exit = "none" /\ verdict = "none" /\ 0 \in kept'
    BY <1>2, <1>4, <1>7, <2>1 DEF PairsInv
  <2> QED
    BY <1>2, <1>6, <2>1, <2>2, <2>3, <2>4 DEF PairsInv
<1>15. DonePairIsSound'
  <2>1. ASSUME ok PROVE /\ harm \subseteq {<<"warmup", "failed">>} /\ left = {}
                        /\ evidence = Arms \X {"prepare", "load"} \X {"result"}
    BY <1>2, <2>1, SoundPair DEF ok
  <2> QED
    BY <1>2, <1>7, <2>1 DEF DonePairIsSound
<1>16. VerdictRestsOnEvidence'
  <2>1. exit' = "none" /\ verdict' = "none"
    BY <1>2, PairParts DEF PairsInv
  <2> QED
    BY <2>1 DEF VerdictRestsOnEvidence
<1> QED
  BY <1>9, <1>10, <1>11, <1>12, <1>13, <1>14, <1>15, <1>16 DEF CampaignInv

\* A verdict on other than the required number of complete pairs fails.
LEMMA VerdictFacts ==
  ASSUME NEW r, NEW e, NEW g, NEW v \in AAVerdicts(r, e, g)
  PROVE  v \in {"PASS", "CONDITIONAL", "FAIL"} /\ (v # "FAIL" => NComplete(r) = g.required)
<1>1. CASE NComplete(r) # g.required
  <2>1. AAVerdicts(r, e, g) = {"FAIL"}
    BY <1>1 DEF AAVerdicts
  <2> QED
    BY <2>1
<1>2. CASE NComplete(r) = g.required
  <2> DEFINE windows == [k \in DOMAIN CompletePairs(r) |-> CompletePairs(r)[k].window]
             orders == [k \in DOMAIN CompletePairs(r) |-> CompletePairs(r)[k].load]
             F == FixedStatuses(e, windows, orders, g)
             Z == ZeroOutcomes(e, windows)
             N == NoiseStatuses(e, windows, g)
  <2>a. AAVerdicts(r, e, g) = IF NComplete(r) # g.required THEN {"FAIL"}
                              ELSE {Overall(F \cup {zero} \cup noise) : zero \in Z, noise \in N}
    BY DEF AAVerdicts
  <2> HIDE DEF F, Z, N
  <2>1. \E zero \in Z, noise \in N : v = Overall(F \cup {zero} \cup noise)
    BY <1>2, <2>a
  <2>2. \A statuses : Overall(statuses) \in {"PASS", "CONDITIONAL", "FAIL"}
    BY DEF Overall
  <2> QED
    BY <1>2, <2>1, <2>2
<1> QED
  BY <1>1, <1>2

\* As many complete pairs as pairs: all are complete.
LEMMA AllComplete ==
  ASSUME NEW r, NEW n \in Nat, DOMAIN r = 1..n, NComplete(r) = n
  PROVE  \A k \in 1..n : Complete(r[k])
<1> DEFINE C == {k \in DOMAIN r : Complete(r[k])}
<1>1. C \in SUBSET (1..n) /\ Cardinality(C) = n
  BY DEF NComplete
<1> HIDE DEF C
<1>2. C = 1..n
  BY <1>1, AllOf
<1> QED
  BY <1>2 DEF C

LEMMA JudgeStep ==
  ASSUME CampaignInv, Judge
  PROVE  CampaignInv'
<1>1. /\ pc = "pairs" /\ at = NPairs /\ pc' = "end"
      /\ UNCHANGED <<tier, raised, stage, first, here, files, memory, faults, harm, armVars,
                     pairVars, harness, schedule, results>>
      /\ kept' = IF kept = {0} THEN {} ELSE kept
  BY DEF Judge
<1>2. PICK e \in IF NComplete(results) = Gate.required THEN [1..NPairs -> Effects] ELSE {<<>>} :
        effects' = e /\ verdict' \in AAVerdicts(results, e, Gate)
  BY DEF Judge
<1>3. \/ verdict' \in {"PASS", "CONDITIONAL"} /\ done' = done \cup {0} /\ exit' = "0"
      \/ verdict' \notin {"PASS", "CONDITIONAL"} /\ exit' = "1" /\ done' = done
  BY DEF Judge
<1> USE DEF armVars, pairVars
<1>4. verdict' \in {"PASS", "CONDITIONAL", "FAIL"} /\ (verdict' # "FAIL" => NComplete(results) = NPairs)
  BY <1>2, VerdictFacts, Config
<1>5. /\ Len(results) = NPairs /\ results \in Seq(PairResult) /\ NPairs \in Nat /\ NPairs >= 1
      /\ done \subseteq 0..NPairs /\ kept \subseteq 0..NPairs /\ 0 \in kept
  BY <1>1, PairParts, PairCount DEF PairsInv, TypeOK
<1>6. ~InArm /\ ~InArm'
  BY <1>1 DEF InArm
<1>7. TypeOK'
  <2>1. WaveTypeOK'
    BY <1>1, WaveFacts, WaveParts DEF WaveTypeOK
  <2>2. effects' \in Seq(Effects)
    <3>1. e \in [1..NPairs -> Effects] \/ e = <<>>
      BY <1>2
    <3>2. <<>> \in Seq(Effects) /\ [1..NPairs -> Effects] \subseteq Seq(Effects)
      BY <1>5
    <3> QED
      BY <1>2, <3>1, <3>2
  <2>3. done' \subseteq 0..NPairs /\ kept' \subseteq 0..NPairs
    BY <1>1, <1>3, <1>5
  <2>4. TypeOK
    BY PairParts
  <2>5. exit' \in {"0", "1"}
    BY <1>3
  <2> QED
    BY <1>1, <1>4, <2>1, <2>2, <2>3, <2>4, <2>5 DEF TypeOK
<1>8. LedgerAgrees(tier, raised)' /\ LedgerKnows'
  BY <1>1, WaveParts DEF LedgerAgrees, LedgerKnows, Known0, Known
<1>9. WaveInv'
  BY <1>1, <1>6, WaveParts DEF WaveInv, WaveShape, WaveIds
<1>10. ArmsInv' /\ EvidenceInv'
  BY <1>1, <1>6, PairParts DEF ArmsInv, Status, EvidenceInv
<1>11. HarmInv'
  BY <1>1, <1>6, PairParts DEF HarmInv, Lost
<1>12. PairsInv'
  <2>1. PairsInv
    BY PairParts
  <2>2. \A k \in 1..Len(results) :
          /\ results[k].window = schedule[k].window /\ results[k].load = schedule[k].load
          /\ results[k].status = "PASS" => k \in done'
          /\ k \in done' => Retain \/ k \notin kept'
    <3> TAKE k \in 1..Len(results)
    <3>1. k # 0 /\ (k \in done' <=> k \in done) /\ (k \in kept' => k \in kept)
      BY <1>1, <1>3, <1>5
    <3> QED
      BY <2>1, <3>1 DEF PairsInv
  <2>3. done' \subseteq 0..NPairs /\ kept' \subseteq 0..NPairs
    BY <1>1, <1>3, <1>5
  <2> QED
    BY <1>1, <1>5, <2>2, <2>3 DEF PairsInv
<1>13. DonePairIsSound'
  <2>1. at \in done' => at \in done
    BY <1>1, <1>3, <1>5
  <2>2. at \in kept' => at \in kept
    BY <1>1
  <2> QED
    BY <1>1, <2>1, <2>2, PairParts DEF DonePairIsSound
<1>14. VerdictRestsOnEvidence'
  <2>1. exit' = "0" <=> verdict' \in {"PASS", "CONDITIONAL"}
    BY <1>3
  <2>2. ASSUME exit' = "0"
        PROVE  done' = 0..NPairs /\ (Retain \/ kept' = {})
    <3>1. DOMAIN results = 1..NPairs
      BY <1>5
    <3>2. \A k \in 1..NPairs : results[k].status = "PASS"
      BY <1>4, <1>5, <2>1, <2>2, <3>1, AllComplete DEF Complete
    <3>3. \A k \in 1..NPairs : k \in done /\ (Retain \/ k \notin kept)
      BY <1>5, <3>2, PairParts DEF PairsInv
    <3>4. done' = done \cup {0}
      BY <1>3, <2>2
    <3>5. 0..NPairs \subseteq done'
      BY <1>5, <3>3, <3>4
    <3>6. done' \subseteq 0..NPairs
      BY <1>5, <3>4
    <3>7. ASSUME ~Retain, NEW k \in kept
          PROVE  k = 0
      <4>1. k \in 0..NPairs
        BY <1>5, <3>7
      <4>2. k \notin 1..NPairs
        BY <3>3, <3>7
      <4> QED
        BY <1>5, <4>1, <4>2
    <3> QED
      BY <1>1, <3>5, <3>6, <3>7
  <2>3. \A w \in 0..(NWindows - 1) :
          2 * Cardinality({k \in DOMAIN results : results[k].window = w /\ results[k].load = "AB"})
            = Cardinality({k \in DOMAIN results : results[k].window = w})
    <3> TAKE w \in 0..(NWindows - 1)
    <3>1. DOMAIN results = 1..NPairs
      BY <1>5
    <3>2. \A k \in 1..NPairs : results[k].window = schedule[k].window /\ results[k].load = schedule[k].load
      BY <1>5, PairParts DEF PairsInv
    <3>3. /\ {k \in DOMAIN results : results[k].window = w /\ results[k].load = "AB"}
               = {k \in 1..NPairs : schedule[k].window = w /\ schedule[k].load = "AB"}
          /\ {k \in DOMAIN results : results[k].window = w} = {k \in 1..NPairs : schedule[k].window = w}
      BY <3>1, <3>2
    <3> QED
      BY <3>3, PairParts, ScheduleFacts
  <2> QED
    BY <1>1, <1>5, <2>1, <2>2, <2>3 DEF VerdictRestsOnEvidence
<1> QED
  BY <1>7, <1>8, <1>9, <1>10, <1>11, <1>12, <1>13, <1>14 DEF CampaignInv

LEMMA SameState ==
  ASSUME CampaignInv, UNCHANGED vars
  PROVE  CampaignInv'
<1> USE DEF vars, waveVars, armVars, pairVars, campaignVars
<1>1. TypeOK'
  <2>1. WaveTypeOK'
    BY WaveFacts, WaveParts DEF WaveTypeOK
  <2>2. TypeOK
    BY PairParts
  <2> QED
    BY <2>1, <2>2 DEF TypeOK
<1>2. LedgerAgrees(tier, raised)' /\ LedgerKnows'
  BY WaveParts DEF LedgerAgrees, LedgerKnows, Known0, Known
<1>3. WaveInv'
  BY WaveParts DEF WaveInv, WaveShape, WaveIds, InArm
<1>4. ArmsInv' /\ EvidenceInv'
  BY PairParts DEF ArmsInv, Status, EvidenceInv, InArm
<1>5. HarmInv'
  <2>1. (Lost => Lost') /\ (WaveFails => WaveFails') /\ (InArm => InArm')
    BY DEF Lost, WaveFails, FailedJob, LostFile, WaveIds, InArm
  <2> HIDE DEF Lost, WaveFails, InArm
  <2> QED
    BY <2>1, PairParts DEF HarmInv
<1>6. PairsInv' /\ DonePairIsSound' /\ VerdictRestsOnEvidence'
  BY PairParts DEF PairsInv, DonePairIsSound, VerdictRestsOnEvidence
<1> QED
  BY <1>1, <1>2, <1>3, <1>4, <1>5, <1>6 DEF CampaignInv

LEMMA NextInv == CampaignInv /\ [Next]_vars => CampaignInv'
<1> SUFFICES ASSUME CampaignInv, [Next]_vars PROVE CampaignInv'
  OBVIOUS
<1>1. CASE Working
  BY <1>1, InWaveStep, StartStep, StartPairStep, PrepareArmStep, LoadArmsStep, SkipArmStep, MeasureArmStep,
     CheckStoreStep, CheckWarmupStep, CheckLoadStep, CloseArmStep, FinishPairStep DEF Working
<1>2. CASE Judge
  BY <1>2, JudgeStep
<1>3. CASE Ended
  BY <1>3, SameState DEF Ended
<1>4. CASE UNCHANGED vars
  BY <1>4, SameState
<1> QED
  BY <1>1, <1>2, <1>3, <1>4 DEF Next
-----------------------------------------------------------------------------
(* The paired campaign: the theorems *)

\* CampaignInv holds in every state the campaign can reach.
THEOREM CampaignInvariant == Spec => []CampaignInv
<1>1. Init => CampaignInv
  BY InitInv
<1>2. CampaignInv /\ [Next]_vars => CampaignInv'
  BY NextInv
<1> QED
  BY <1>1, <1>2, PTL DEF Spec

\* Through every wave, whatever comes twice, late or never, the observer's
\* ledger (instrumentation.py) agrees with the tier under it, and no arm is
\* measured over a directory a tier left open may still touch.
THEOREM LedgerMatchesTier == Spec => []TiersAccountedFor
<1>1. CampaignInv => TiersAccountedFor
  <2> SUFFICES ASSUME CampaignInv PROVE TiersAccountedFor
    OBVIOUS
  <2>1. tier.up => here \notin left
    BY PairParts, WaveParts DEF WaveInv, WaveShape, ArmsInv
  <2> QED
    BY <2>1, PairParts, WaveParts DEF TiersAccountedFor
<1> QED
  BY <1>1, CampaignInvariant, PTL

\* The DONE file of a pair (_run_pair) says what it stands for.
THEOREM DoneFilesAreEarned == Spec => []DonePairIsSound
<1>1. CampaignInv => DonePairIsSound
  BY DEF CampaignInv
<1> QED
  BY <1>1, CampaignInvariant, PTL

\* A verdict that lets the machine be used (main, evaluate_aa_campaign) rests on
\* every pair of a balanced schedule.
THEOREM VerdictsAreEarned == Spec => []VerdictRestsOnEvidence
<1>1. CampaignInv => VerdictRestsOnEvidence
  BY DEF CampaignInv
<1> QED
  BY <1>1, CampaignInvariant, PTL
-----------------------------------------------------------------------------
(* The noise campaigns: their inductive invariant *)

\* A noise run in hand is harmed only if an exception, its checks so far,
\* dropped events or the checks of the wave will tell; once it is closed its
\* files tell.
RunPcs == {"submit", "poll", "drained", "waved", "close", "remove"}
RunHarmInv ==
  /\ stage # "warmup"
  /\ Fio => pc \in {"start", "runs", "end"}
  /\ pc = "remove" => tier = NoTier
  /\ pc \in {"submit", "poll", "drained", "waved"} /\ stage = "store" => good
  /\ InArm => harm = {} \/ raised \/ ~good \/ tier.dropped \/ WaveFails
  /\ pc = "remove" /\ ~raised /\ "PASS" \in evidence =>
       harm = {} /\ left = {} /\ evidence = {"PASS"}

\* Every run so far returned a result or raised.  While none has raised the
\* k-th result is that of run k.
RunsInv ==
  /\ pc \in RunPcs => Len(results) + failures = at - 1 /\ at \notin done
  /\ pc \notin RunPcs => Len(results) + failures = at
  /\ pc = "start" => at = 0
  /\ done \subseteq 0..at
  /\ pc # "end" => 0 \notin done /\ exit = "none" /\ verdict = "none"
  /\ failures = 0 =>
       \A k \in 1..Len(results) :
         results[k].window = RunWindow(k) /\ (results[k].status = "PASS" => k \in done)

NoiseInv ==
  /\ NoiseTypeOK /\ LedgerAgrees(tier, raised) /\ LedgerKnows /\ WaveShape
  /\ RunHarmInv /\ RunsInv
  /\ DoneRunIsSound
  /\ 0 \in done => failures = 0 /\ done = 0..NRuns /\ at = NRuns
-----------------------------------------------------------------------------
(* The noise campaigns: a run *)

LEMMA NoiseConfig ==
  /\ NRuns \in Nat /\ NRuns >= 1 /\ NRuns = NWindows * Repetitions
  /\ NWindows \in Nat \ {0} /\ Repetitions \in Nat \ {0} /\ RunGate.minimumValid = NRuns
  /\ NChunks \in Nat \ {0} /\ MaxFaults \in Nat /\ Retain \in BOOLEAN
<1> DEFINE a == NWindows
           b == Repetitions
<1>1. a \in Nat /\ b \in Nat /\ a >= 1 /\ b >= 1
  BY NoiseAssumption, CampaignAssumption
<1> HIDE DEF a, b
<1>2. a * b \in Nat /\ a * b >= 1
  BY <1>1
<1> QED
  BY <1>1, <1>2, NoiseAssumption, CampaignAssumption, WaveAssumption DEF NRuns, a, b

LEMMA NoiseSafe == NoiseInv => WaveSafe
BY DEF NoiseInv, NoiseTypeOK, WaveSafe

NoisePcs == {"start", "runs", "submit", "poll", "drained", "waved", "close", "remove", "end"}
RunEvidence == Statuses \cup {"failure", "shutdown_failure"}
RunResult == [window : 0..(NWindows - 1), status : Statuses]

\* What NoiseInv says, in one place
LEMMA RunParts ==
  ASSUME NoiseInv
  PROVE  /\ tier \in Tier /\ raised \in BOOLEAN /\ stage \in Stages /\ first \in Nat /\ here \in Dirs
         /\ files \in [Dirs -> [Chunks -> FileStates]] /\ memory \in [Chunks -> MemoryStates]
         /\ faults \in 0..MaxFaults /\ harm \subseteq Harms
         /\ LedgerAgrees(tier, raised) /\ LedgerKnows /\ WaveShape
         /\ pc \in NoisePcs /\ harness \in {"native", "fio"}
         /\ at \in Nat /\ at <= NRuns /\ good \in BOOLEAN /\ left \subseteq Dirs /\ evidence \subseteq RunEvidence
         /\ results \in Seq(RunResult) /\ failures \in Nat /\ Len(results) \in Nat
         /\ done \subseteq 0..NRuns /\ kept \subseteq 0..NRuns
         /\ RunHarmInv /\ RunsInv /\ DoneRunIsSound /\ NoiseTypeOK
<1>1. NoiseTypeOK /\ RunHarmInv /\ RunsInv /\ DoneRunIsSound
  BY DEF NoiseInv
<1>2. at \in 0..NRuns /\ failures \in 0..NRuns /\ results \in Seq(RunResult)
  BY <1>1 DEF NoiseTypeOK, RunResult
<1>3. at \in Nat /\ at <= NRuns /\ failures \in Nat /\ Len(results) \in Nat
  BY <1>2, NoiseConfig
<1> QED
  BY <1>1, <1>2, <1>3, NoiseSafe, SafeWave DEF NoiseTypeOK, NoisePcs, RunEvidence

\* A step inside a run says nothing of the campaign, and the run in hand has no
\* DONE file yet.
LEMMA RunStep ==
  ASSUME NoiseInv, UNCHANGED runsVars, at' = at, pc \in RunPcs, pc' \in RunPcs,
         WaveTypeOK', good' \in BOOLEAN, left' \subseteq Dirs, evidence' \subseteq RunEvidence,
         LedgerAgrees(tier, raised)', LedgerKnows', WaveShape', RunHarmInv'
  PROVE  NoiseInv'
<1> USE DEF runsVars
<1>1. pc' \in NoisePcs /\ pc # "start" /\ pc' # "start" /\ pc # "end" /\ pc' # "end"
  BY DEF NoisePcs, RunPcs
<1>2. NoiseTypeOK'
  BY <1>1, RunParts DEF NoiseTypeOK, NoisePcs, RunEvidence
<1>3. RunsInv'
  BY <1>1, RunParts DEF RunsInv, RunWindow
<1>4. at \notin done /\ 0 \notin done
  BY <1>1, RunParts DEF RunsInv
<1>5. DoneRunIsSound'
  BY <1>4 DEF DoneRunIsSound
<1> QED
  BY <1>2, <1>3, <1>4, <1>5 DEF NoiseInv

LEMMA RunInWaveStep ==
  ASSUME NoiseInv, RunInWave
  PROVE  NoiseInv'
<1>1. WaveSafe' /\ WaveEffect /\ UNCHANGED <<runVars, runsVars>> /\ Native
  BY NoiseSafe, WaveStepSafe DEF RunInWave
<1>2. InArm /\ InArm' /\ (pc = "close" => pc' = "close") /\ stage' = stage /\ stage # "warmup"
  BY <1>1, RunParts DEF WaveEffect, RunHarmInv
<1>3. pc \in RunPcs /\ pc' \in RunPcs
  BY <1>2 DEF InArm, RunPcs
<1>4. RunHarmInv'
  <2>1. harm = {} \/ raised \/ ~good \/ tier.dropped \/ WaveFails
    BY <1>2, RunParts DEF RunHarmInv
  <2>2. harm' = {} \/ raised' \/ ~good' \/ tier'.dropped \/ WaveFails'
    <3> HIDE DEF WaveFails
    <3> QED
      BY <1>1, <1>2, <2>1 DEF WaveEffect, runVars
  <2>3. pc \in {"submit", "poll", "drained", "waved"} \/ pc = "close"
    BY <1>2 DEF InArm
  <2>4. pc' # "remove" /\ (pc' \in {"submit", "poll", "drained", "waved"} /\ stage' = "store" => good')
    <3>1. pc \in {"submit", "poll", "drained", "waved"} /\ stage = "store" => good
      BY RunParts DEF RunHarmInv
    <3> QED
      BY <1>1, <1>2, <2>3, <3>1 DEF InArm, runVars
  <2>5. Native'
    BY <1>1 DEF Native, runsVars
  <2> HIDE DEF WaveFails
  <2> QED
    BY <1>2, <2>2, <2>4, <2>5 DEF RunHarmInv, Native, Fio
<1> QED
  BY <1>1, <1>3, <1>4, RunParts, RunStep DEF WaveSafe, runVars

LEMMA LookupAndClearStep ==
  ASSUME NoiseInv, LookupAndClear
  PROVE  NoiseInv'
<1>1. /\ Native /\ pc = "waved" /\ stage = "store"
      /\ UNCHANGED <<tier, here, files, harm, at, left, evidence, runsVars>>
  BY DEF LookupAndClear, Outside, runsVars
<1>2. \/ /\ good' \in BOOLEAN /\ (good' => AllSuccess /\ Whole(here))
         /\ (Fault \/ faults' = faults) /\ memory' = [c \in Chunks |-> "zero"]
         /\ pc' = "submit" /\ stage' = "load" /\ first' = first + NChunks /\ UNCHANGED raised
      \/ /\ Fault /\ pc' = "close" /\ raised' = TRUE /\ UNCHANGED <<good, memory, stage, first>>
  BY DEF LookupAndClear, FaultIf, WaveFrom, Raise, AllSuccess, Whole
<1>3. /\ ~raised /\ tier.up /\ tier.working = {} /\ tier.finished = <<>>
      /\ FailedJob => ~AllSuccess
      /\ LostFile => ~Whole(here)
  BY <1>1, NoiseSafe, WaveOver
<1>4. /\ WaveTypeOK' /\ good' \in BOOLEAN
  <2>1. raised' \in BOOLEAN /\ stage' \in Stages /\ first' \in Nat /\ memory' \in [Chunks -> MemoryStates]
    <3>1. raised \in BOOLEAN /\ "load" \in Stages /\ stage \in Stages /\ first \in Nat /\ first + NChunks \in Nat
      BY RunParts, NoiseConfig DEF Stages
    <3>2. memory \in [Chunks -> MemoryStates] /\ [c \in Chunks |-> "zero"] \in [Chunks -> MemoryStates]
      BY RunParts DEF MemoryStates
    <3>3. raised' \in {raised, TRUE} /\ stage' \in {stage, "load"} /\ first' \in {first, first + NChunks}
          /\ memory' \in {memory, [c \in Chunks |-> "zero"]}
      BY <1>2
    <3> QED
      BY <3>1, <3>2, <3>3
  <2>2. faults' \in 0..MaxFaults
    BY <1>2, RunParts, FaultType
  <2> QED
    BY <1>1, <1>2, <2>1, <2>2, RunParts DEF WaveTypeOK
<1>5. LedgerAgrees(tier, raised)' /\ LedgerKnows'
  BY <1>1, <1>3, RunParts DEF LedgerAgrees, LedgerKnows, Known0, Known
<1>6. WaveShape'
  <2>1. first' >= 1 /\ (stage' = "store" => first' = 1)
    BY <1>1, <1>2, RunParts, NoiseConfig DEF WaveShape
  <2>2. InArm' /\ pc' \in {"submit", "close"} /\ (raised' => pc' = "close")
    BY <1>2, <1>3 DEF InArm
  <2> QED
    BY <1>1, <1>3, <2>1, <2>2 DEF WaveShape
<1>7. RunHarmInv'
  <2>1. harm = {} \/ ~good \/ tier.dropped \/ WaveFails
    BY <1>1, <1>3, RunParts DEF RunHarmInv, InArm
  <2>2. good
    BY <1>1, RunParts DEF RunHarmInv
  <2>3. WaveFails => ~AllSuccess \/ ~Whole(here)
    BY <1>3 DEF WaveFails
  <2>4. harm' = {} \/ raised' \/ ~good' \/ tier'.dropped
    <3> HIDE DEF WaveFails
    <3> QED
      BY <1>1, <1>2, <2>1, <2>2, <2>3
  <2>5. pc' \in {"submit", "close"} /\ stage' # "warmup" /\ (pc' = "submit" => stage' = "load")
    BY <1>1, <1>2
  <2> HIDE DEF WaveFails
  <2> QED
    BY <1>1, <2>4, <2>5 DEF RunHarmInv, Native, Fio, runsVars
<1>8. pc \in RunPcs /\ pc' \in RunPcs
  BY <1>1, <1>2 DEF RunPcs
<1> QED
  BY <1>1, <1>4, <1>5, <1>6, <1>7, <1>8, RunParts, RunStep

LEMMA CheckRunStep ==
  ASSUME NoiseInv, CheckRun
  PROVE  NoiseInv'
<1>1. /\ Native /\ pc = "waved" /\ stage = "load"
      /\ UNCHANGED <<tier, stage, first, here, files, memory, faults, at, left, evidence, runsVars>>
      /\ harm' = harm \cup BytesHarm
      /\ pc' = "close" /\ raised' \in BOOLEAN
  <2>1. raised \in BOOLEAN
    BY RunParts
  <2> QED
    BY <2>1 DEF CheckRun, Outside, runsVars, Raise
<1>2. good' \in BOOLEAN /\ (good' => good /\ AllSuccess /\ BytesRight)
  BY RunParts DEF CheckRun, AllSuccess, BytesRight
<1>3. /\ ~raised /\ tier.up /\ tier.working = {} /\ tier.finished = <<>>
      /\ FailedJob => ~AllSuccess
  BY <1>1, NoiseSafe, WaveOver
<1>4. WaveTypeOK'
  <2>1. harm' \subseteq Harms
    BY <1>1, RunParts DEF BytesHarm, Harms
  <2> QED
    BY <1>1, <2>1, RunParts DEF WaveTypeOK
<1>5. LedgerAgrees(tier, raised)' /\ LedgerKnows'
  BY <1>1, <1>3, RunParts DEF LedgerAgrees, LedgerKnows, Known0, Known
<1>6. WaveShape'
  BY <1>1, <1>3, RunParts DEF WaveShape, InArm, WaveIds
<1>7. RunHarmInv'
  <2>1. harm = {} \/ ~good \/ tier.dropped \/ WaveFails
    BY <1>1, <1>3, RunParts DEF RunHarmInv, InArm
  <2>2. WaveFails => ~AllSuccess
    BY <1>1, <1>3 DEF WaveFails
  <2>3. harm' = {} \/ raised' \/ ~good' \/ tier'.dropped
    <3> HIDE DEF WaveFails
    <3> QED
      BY <1>1, <1>2, <2>1, <2>2 DEF BytesHarm
  <2> HIDE DEF WaveFails
  <2> QED
    BY <1>1, <2>3 DEF RunHarmInv, Native, Fio, runsVars
<1>8. pc \in RunPcs /\ pc' \in RunPcs
  BY <1>1 DEF RunPcs
<1> QED
  BY <1>1, <1>2, <1>4, <1>5, <1>6, <1>7, <1>8, RunParts, RunStep

\* A run closed: only one that was not harmed says PASS.
LEMMA CloseRunStep ==
  ASSUME NoiseInv, CloseRun
  PROVE  NoiseInv'
<1>1. PICK clean \in BOOLEAN :
        /\ CloseTier(clean)
        /\ left' = IF clean THEN {} ELSE {here}
        /\ evidence' = {IF raised THEN "failure" ELSE RunStatus(clean)}
                         \cup (IF clean THEN {} ELSE {"shutdown_failure"})
        /\ harm' = IF clean THEN harm ELSE harm \cup {<<"tier", "left">>}
  BY DEF CloseRun
<1>2. /\ Native /\ tier' = NoTier /\ pc' = "remove"
      /\ UNCHANGED <<raised, stage, first, here, files, memory, at, good, runsVars>>
  BY DEF CloseRun, Outside, runsVars
<1>3. pc = "close" /\ (Fault \/ faults' = faults)
  BY <1>1 DEF CloseTier, FaultIf
<1>4. RunStatus(clean) \in Statuses /\ (RunStatus(clean) = "PASS" => good /\ ~tier.dropped /\ clean)
  BY DEF RunStatus, StatusIf, Statuses
<1>5. WaveTypeOK'
  <2>1. harm' \subseteq Harms
    BY <1>1, RunParts DEF Harms
  <2>2. faults' \in 0..MaxFaults
    BY <1>3, RunParts, FaultType
  <2> QED
    BY <1>2, <2>1, <2>2, RunParts, TierFacts DEF WaveTypeOK
<1>6. LedgerAgrees(tier, raised)' /\ LedgerKnows'
  BY <1>2, FreshLedger
<1>7. WaveShape'
  BY <1>2, TierFacts, RunParts DEF WaveShape, InArm
<1>8. left' \subseteq Dirs /\ evidence' \subseteq RunEvidence
  BY <1>1, <1>4, RunParts DEF RunEvidence
<1>9. RunHarmInv'
  <2>1. harm = {} \/ raised \/ ~good \/ tier.dropped
    BY <1>3, RunParts DEF RunHarmInv, InArm, WaveFails
  <2>2. ASSUME ~raised', "PASS" \in evidence'
        PROVE  harm' = {} /\ left' = {} /\ evidence' = {"PASS"}
    <3>1. ~raised
      BY <1>2, <2>2
    <3>2. RunStatus(clean) = "PASS"
      BY <1>1, <2>2, <3>1
    <3> QED
      BY <1>1, <1>4, <2>1, <3>1, <3>2
  <2>3. stage' # "warmup"
    BY <1>2, RunParts DEF RunHarmInv
  <2>4. Native' /\ ~InArm'
    BY <1>2 DEF Native, runsVars, InArm
  <2> QED
    BY <1>2, <2>2, <2>3, <2>4 DEF RunHarmInv, Native, Fio
<1>10. pc \in RunPcs /\ pc' \in RunPcs
  BY <1>2, <1>3 DEF RunPcs
<1> QED
  BY <1>2, <1>5, <1>6, <1>7, <1>8, <1>9, <1>10, RunParts, RunStep

-----------------------------------------------------------------------------
(* The noise campaigns: between the runs *)

BetweenPcs == {"start", "runs", "end"}

\* While no run is in hand nothing happens to the wave.
LEMMA QuietWave ==
  ASSUME NoiseInv, UNCHANGED <<tier, raised, stage, first, here, files, memory, harness>>,
         harm' \in {harm, {}}, Fault \/ faults' = faults, pc \in BetweenPcs, pc' \in BetweenPcs
  PROVE  WaveTypeOK' /\ LedgerAgrees(tier, raised)' /\ LedgerKnows' /\ WaveShape' /\ RunHarmInv'
<1> USE DEF BetweenPcs
<1>1. ~InArm /\ ~InArm' /\ ~raised
  BY RunParts DEF InArm, WaveShape
<1>2. WaveTypeOK'
  BY RunParts, FaultType DEF WaveTypeOK
<1>3. LedgerAgrees(tier, raised)' /\ LedgerKnows'
  BY RunParts DEF LedgerAgrees, LedgerKnows, Known0, Known
<1>4. WaveShape'
  BY <1>1, RunParts DEF WaveShape, WaveIds
<1>5. RunHarmInv'
  BY <1>1, RunParts DEF RunHarmInv, Native, Fio
<1> QED
  BY <1>2, <1>3, <1>4, <1>5

LEMMA StartStepOfRuns ==
  ASSUME NoiseInv, StartNative \/ PrepareFile
  PROVE  NoiseInv'
<1>1. /\ pc = "start" /\ pc' \in {"runs", "end"} /\ (Fault \/ faults' = faults)
      /\ UNCHANGED <<tier, raised, stage, first, here, files, memory, harness>>
      /\ UNCHANGED <<harm, at, good, left, evidence, results, failures, done, values, verdict>>
      /\ kept' \in {kept, {0}, {}} /\ exit' \in {exit, "environment", "raised"}
      /\ pc' = "runs" => exit' = exit
  BY DEF StartNative, PrepareFile, WrongEnvironment, Tierless, runVars, FaultIf
<1>2. WaveTypeOK' /\ LedgerAgrees(tier, raised)' /\ LedgerKnows' /\ WaveShape' /\ RunHarmInv'
  BY <1>1, QuietWave DEF BetweenPcs
<1>3. NoiseTypeOK'
  <2>1. 0 \in 0..NRuns
    BY NoiseConfig
  <2>2. exit' \in {"none", "0", "1", "environment", "raised"} /\ kept' \subseteq 0..NRuns
    BY <1>1, <2>1, RunParts DEF NoiseTypeOK
  <2> QED
    BY <1>1, <1>2, <2>2, RunParts DEF NoiseTypeOK
<1>4. at = 0 /\ 0 \notin done
  BY <1>1, RunParts DEF RunsInv
<1>5. RunsInv'
  BY <1>1, RunParts DEF RunsInv, RunPcs, RunWindow
<1>6. DoneRunIsSound'
  BY <1>1, <1>4 DEF DoneRunIsSound
<1> QED
  BY <1>1, <1>2, <1>3, <1>4, <1>5, <1>6 DEF NoiseInv

\* The result of a run is kept in its place, if no run before it raised.
LEMMA ResultKept ==
  ASSUME NoiseInv, NEW k \in 1..NRuns, NEW status \in Statuses,
         results' = Append(results, [window |-> RunWindow(k), status |-> status]),
         failures' = failures, Len(results) + failures = k - 1,
         done \subseteq done', status = "PASS" => k \in done'
  PROVE  /\ results' \in Seq(RunResult) /\ Len(results') + failures' = k
         /\ failures' = 0 =>
              \A i \in 1..Len(results') :
                results'[i].window = RunWindow(i) /\ (results'[i].status = "PASS" => i \in done')
<1> DEFINE r == [window |-> RunWindow(k), status |-> status]
           n == Len(results)
<1>1. results \in Seq(RunResult) /\ n \in Nat /\ failures \in Nat /\ k \in Nat
  BY RunParts, NoiseConfig
<1>2. r \in RunResult /\ r.window = RunWindow(k) /\ r.status = status
  <2>1. RunWindow(k) \in 0..(NWindows - 1)
    BY NoiseConfig, WindowPlace DEF RunWindow
  <2> QED
    BY <2>1 DEF RunResult
<1> HIDE DEF r
<1>3. /\ results' \in Seq(RunResult) /\ Len(results') = n + 1
      /\ \A i \in 1..n : results'[i] = results[i]
      /\ results'[n + 1] = r
  <2>1. results' = Append(results, r)
    BY DEF r
  <2> QED
    BY <1>1, <1>2, <2>1
<1>4. ASSUME failures' = 0, NEW i \in 1..Len(results')
      PROVE  results'[i].window = RunWindow(i) /\ (results'[i].status = "PASS" => i \in done')
  <2>1. n + 1 = k /\ failures = 0
    BY <1>1, <1>4
  <2>2. CASE i = n + 1
    BY <1>2, <1>3, <2>1, <2>2
  <2>3. CASE i # n + 1
    <3>1. i \in 1..n
      BY <1>1, <1>3, <2>3
    <3> QED
      BY <1>3, <2>1, <3>1, RunParts DEF RunsInv
  <2> QED
    BY <2>2, <2>3
<1> QED
  BY <1>1, <1>3, <1>4

LEMMA FioRunStep ==
  ASSUME NoiseInv, FioRun
  PROVE  NoiseInv'
<1>1. /\ Fio /\ pc = "runs" /\ at < NRuns /\ at' = at + 1 /\ pc' = pc
      /\ UNCHANGED <<tier, raised, stage, first, here, files, memory, harness>>
      /\ UNCHANGED <<left, kept, values, verdict, exit>>
      /\ harm' = {} /\ good' = TRUE
  BY DEF FioRun, Tierless, Outside
<1>2. PICK write \in FioOutcomes, read \in FioOutcomes, unwritten \in BOOLEAN :
       LET right == write = "right" /\ read = "right"
           status == StatusIf(right)
       IN
       /\ FaultIf(~right \/ unwritten)
       /\ IF "raises" \in {write, read} \/ unwritten
          THEN /\ evidence' \in {{}, {"failure"}} \cup (IF right THEN {{"PASS", "failure"}} ELSE {})
               /\ failures' = failures + 1
               /\ UNCHANGED <<results, done>>
          ELSE /\ evidence' = {status}
               /\ results' = Append(results, [window |-> RunWindow(at'), status |-> status])
               /\ done' = IF right THEN done \cup {at'} ELSE done
               /\ UNCHANGED failures
  BY DEF FioRun
<1> DEFINE right == write = "right" /\ read = "right"
           status == StatusIf(right)
           k == at + 1
<1>3. Fault \/ faults' = faults
  BY <1>2 DEF FaultIf
<1>4. /\ at \in Nat /\ failures \in Nat /\ Len(results) \in Nat /\ Len(results) + failures = at
      /\ done \subseteq 0..at /\ 0 \notin done /\ NRuns \in Nat
  BY <1>1, RunParts, NoiseConfig DEF RunsInv, RunPcs
<1>5. status \in Statuses /\ (status = "PASS" <=> right)
  BY DEF StatusIf, Statuses
<1>6. \/ /\ failures' = failures + 1 /\ results' = results /\ done' = done
         /\ evidence' \in {{}, {"failure"}, {"PASS", "failure"}}
      \/ /\ failures' = failures /\ results' = Append(results, [window |-> RunWindow(k), status |-> status])
         /\ done' \in {done, done \cup {k}} /\ (status = "PASS" => k \in done') /\ evidence' = {status}
  BY <1>1, <1>2, <1>5
<1> HIDE DEF right, status
<1>7. k \in 1..NRuns /\ k # 0 /\ k - 1 = at /\ k \in 0..NRuns
  BY <1>1, <1>4
<1>8. /\ results' \in Seq(RunResult) /\ failures' \in 0..NRuns /\ Len(results') + failures' = k
      /\ failures' = 0 =>
           \A i \in 1..Len(results') :
             results'[i].window = RunWindow(i) /\ (results'[i].status = "PASS" => i \in done')
  <2>1. CASE failures' = failures + 1 /\ results' = results /\ done' = done
    BY <1>1, <1>4, <2>1, RunParts
  <2>2. CASE /\ failures' = failures /\ results' = Append(results, [window |-> RunWindow(k), status |-> status])
             /\ done' \in {done, done \cup {k}} /\ (status = "PASS" => k \in done')
    <3>1. done \subseteq done' /\ Len(results) + failures = k - 1
      BY <1>4, <2>2
    <3> HIDE DEF k
    <3>2. /\ results' \in Seq(RunResult) /\ Len(results') + failures' = k
          /\ failures' = 0 =>
               \A i \in 1..Len(results') :
                 results'[i].window = RunWindow(i) /\ (results'[i].status = "PASS" => i \in done')
      BY <1>5, <1>7, <2>2, <3>1, ResultKept
    <3>3. failures' \in 0..NRuns
      BY <1>1, <1>4, <2>2
    <3> QED
      BY <3>2, <3>3
  <2> QED
    BY <1>6, <2>1, <2>2
<1>9. done' \subseteq 0..k /\ 0 \notin done' /\ done' \subseteq 0..NRuns
  <2>1. done' \subseteq done \cup {k}
    BY <1>6
  <2>2. done \subseteq 0..k /\ k \in 0..k /\ 0..k \subseteq 0..NRuns
    BY <1>4, <1>7
  <2> QED
    BY <1>4, <1>7, <2>1, <2>2
<1>10. evidence' \subseteq RunEvidence
  BY <1>5, <1>6 DEF RunEvidence, Statuses
<1>11. WaveTypeOK' /\ LedgerAgrees(tier, raised)' /\ LedgerKnows' /\ WaveShape' /\ RunHarmInv'
  BY <1>1, <1>3, QuietWave DEF BetweenPcs
<1> HIDE DEF k
<1>12. at' = k
  BY <1>1 DEF k
<1>13. NoiseTypeOK'
  BY <1>1, <1>7, <1>8, <1>9, <1>10, <1>11, <1>12, RunParts DEF NoiseTypeOK, RunEvidence, RunResult
<1>14. RunsInv'
  <2>1. pc' = "runs" /\ exit' = exit /\ verdict' = verdict /\ exit = "none" /\ verdict = "none"
    BY <1>1, RunParts DEF RunsInv
  <2> QED
    BY <1>8, <1>9, <1>12, <2>1 DEF RunsInv, RunPcs, RunWindow
<1>15. DoneRunIsSound'
  BY <1>1 DEF DoneRunIsSound, Native, Fio
<1> QED
  BY <1>9, <1>11, <1>13, <1>14, <1>15 DEF NoiseInv

LEMMA StartRunStep ==
  ASSUME NoiseInv, StartRun
  PROVE  NoiseInv'
<1>1. /\ Native /\ pc = "runs" /\ at < NRuns /\ at' = at + 1
      /\ evidence' = {} /\ harm' = {} /\ left' = {} /\ good' = TRUE
      /\ UNCHANGED <<harness, values, verdict, exit, raised, here, results, done>>
  BY DEF StartRun, Outside
<1>2. \/ /\ tier' = NewTier /\ pc' = "submit" /\ stage' = "store" /\ first' = 1
         /\ files' = [d \in Dirs |-> [c \in Chunks |-> "absent"]]
         /\ memory' = [c \in Chunks |-> "right"]
         /\ kept' = kept \cup {at'} /\ UNCHANGED <<faults, failures>>
      \/ /\ Fault /\ failures' = failures + 1 /\ kept' \in {kept, kept \cup {at'}}
         /\ UNCHANGED <<tier, pc, stage, first, files, memory>>
  BY DEF StartRun, WaveFrom
<1>3. /\ at \in Nat /\ failures \in Nat /\ Len(results) \in Nat /\ Len(results) + failures = at
      /\ done \subseteq 0..at /\ 0 \notin done /\ NRuns \in Nat /\ exit = "none" /\ verdict = "none"
  BY <1>1, RunParts, NoiseConfig DEF RunsInv, RunPcs
<1>4. /\ at' \in 0..NRuns /\ at' # 0 /\ at' \notin done /\ done \subseteq 0..at' /\ kept' \subseteq 0..NRuns
  <2>1. at' \in 0..NRuns /\ at' # 0 /\ at' \notin done /\ done \subseteq 0..at'
    BY <1>1, <1>3
  <2> QED
    BY <1>2, <2>1, RunParts
<1>5. DoneRunIsSound'
  BY <1>1, <1>4 DEF DoneRunIsSound
<1>6. CASE /\ tier' = NewTier /\ pc' = "submit" /\ stage' = "store" /\ first' = 1
           /\ files' = [d \in Dirs |-> [c \in Chunks |-> "absent"]]
           /\ memory' = [c \in Chunks |-> "right"] /\ UNCHANGED <<faults, failures>>
  <2>1. WaveTypeOK'
    <3>1. files' \in [Dirs -> [Chunks -> FileStates]] /\ memory' \in [Chunks -> MemoryStates]
      BY <1>6 DEF FileStates, MemoryStates
    <3> QED
      BY <1>1, <1>6, <3>1, RunParts, TierFacts DEF WaveTypeOK, Stages
  <2>2. LedgerAgrees(tier, raised)' /\ LedgerKnows'
    BY <1>6, FreshLedger
  <2>3. ~raised
    BY <1>1, RunParts DEF WaveShape
  <2>4. WaveShape'
    BY <1>1, <1>6, <2>3, TierFacts DEF WaveShape, InArm
  <2>5. RunHarmInv'
    BY <1>1, <1>6 DEF RunHarmInv, Native, Fio
  <2>6. NoiseTypeOK'
    BY <1>1, <1>4, <1>6, <2>1, RunParts DEF NoiseTypeOK
  <2>7. RunsInv'
    BY <1>1, <1>3, <1>4, <1>6, RunParts DEF RunsInv, RunPcs, RunWindow
  <2> QED
    BY <1>1, <1>3, <1>5, <2>1, <2>2, <2>4, <2>5, <2>6, <2>7 DEF NoiseInv
<1>7. CASE Fault /\ failures' = failures + 1 /\ UNCHANGED <<tier, pc, stage, first, files, memory>>
  <2>1. WaveTypeOK' /\ LedgerAgrees(tier, raised)' /\ LedgerKnows' /\ WaveShape' /\ RunHarmInv'
    BY <1>1, <1>7, QuietWave DEF BetweenPcs
  <2>2. failures' \in 0..NRuns /\ failures' # 0 /\ Len(results) + failures' = at'
    BY <1>1, <1>3, <1>7
  <2>3. NoiseTypeOK'
    BY <1>1, <1>4, <1>7, <2>1, <2>2, RunParts DEF NoiseTypeOK
  <2>4. RunsInv'
    BY <1>1, <1>3, <1>4, <1>7, <2>2 DEF RunsInv, RunPcs
  <2> QED
    BY <1>1, <1>3, <1>5, <2>1, <2>3, <2>4 DEF NoiseInv
<1> QED
  BY <1>2, <1>6, <1>7

\* The data removed, or not: with a DONE file it is.
LEMMA RemoveDataStep ==
  ASSUME NoiseInv, RemoveData
  PROVE  NoiseInv'
<1>1. PICK removed \in BOOLEAN :
       /\ FaultIf(~removed)
       /\ kept' = IF removed /\ ~Retain THEN kept \ {at} ELSE kept
       /\ IF raised \/ ~removed THEN RunRaised /\ UNCHANGED done
          ELSE \E status \in Statuses \cap evidence :
                 /\ Returned(status)
                 /\ done' = IF status = "PASS" THEN done \cup {at} ELSE done
  BY DEF RemoveData
<1>2. /\ Native /\ pc = "remove" /\ pc' = "runs" /\ raised' = FALSE
      /\ UNCHANGED <<tier, stage, first, here, files, memory, harm, at, good, left, evidence>>
      /\ UNCHANGED <<harness, values, verdict, exit>>
  BY DEF RemoveData, Outside
<1>3. /\ at \in Nat /\ at <= NRuns /\ failures \in Nat /\ Len(results) \in Nat /\ NRuns \in Nat
      /\ Len(results) + failures = at - 1 /\ at \notin done
      /\ done \subseteq 0..at /\ 0 \notin done /\ exit = "none" /\ verdict = "none"
  BY <1>2, RunParts, NoiseConfig DEF RunsInv, RunPcs
<1>4. at \in 1..NRuns /\ at # 0 /\ at \in 0..at
  BY <1>3
<1>5. tier = NoTier /\ tier' = NoTier
  BY <1>2, RunParts DEF RunHarmInv
<1>6. ~InArm /\ ~InArm'
  BY <1>2 DEF InArm
<1>7. WaveTypeOK'
  <2>1. Fault \/ faults' = faults
    BY <1>1 DEF FaultIf
  <2> QED
    BY <1>2, <2>1, RunParts, FaultType DEF WaveTypeOK
<1>8. LedgerAgrees(tier, raised)' /\ LedgerKnows'
  BY <1>5, FreshLedger
<1>9. WaveShape'
  BY <1>2, <1>6, RunParts DEF WaveShape, WaveIds
<1>10. RunHarmInv'
  BY <1>2, <1>6, RunParts DEF RunHarmInv, Native, Fio
<1>11. kept' \subseteq kept
  BY <1>1
<1>12. CASE failures' = failures + 1 /\ results' = results /\ done' = done
  <2>1. failures' \in 0..NRuns /\ failures' # 0 /\ Len(results) + failures' = at
    BY <1>3, <1>12
  <2>2. NoiseTypeOK'
    BY <1>2, <1>7, <1>11, <1>12, <2>1, RunParts DEF NoiseTypeOK
  <2>3. RunsInv'
    BY <1>2, <1>3, <1>12, <2>1 DEF RunsInv, RunPcs
  <2>4. DoneRunIsSound'
    BY <1>2, <1>3, <1>12 DEF DoneRunIsSound
  <2> QED
    BY <1>3, <1>8, <1>9, <1>10, <1>12, <2>2, <2>3, <2>4 DEF NoiseInv
<1>13. ASSUME ~raised, removed, NEW status \in Statuses \cap evidence, Returned(status),
              done' = IF status = "PASS" THEN done \cup {at} ELSE done
       PROVE  NoiseInv'
  <2>1. /\ results' = Append(results, [window |-> RunWindow(at), status |-> status])
        /\ failures' = failures
    BY <1>13 DEF Returned
  <2>2. done \subseteq done' /\ (status = "PASS" => at \in done') /\ (at \in done' => status = "PASS")
        /\ done' \subseteq 0..at /\ 0 \notin done' /\ done' \subseteq 0..NRuns
    BY <1>3, <1>4, <1>13
  <2>3. /\ results' \in Seq(RunResult) /\ Len(results') + failures' = at
        /\ failures' = 0 =>
             \A i \in 1..Len(results') :
               results'[i].window = RunWindow(i) /\ (results'[i].status = "PASS" => i \in done')
    BY <1>3, <1>4, <1>13, <2>1, <2>2, ResultKept
  <2>4. NoiseTypeOK'
    BY <1>2, <1>7, <1>11, <2>1, <2>2, <2>3, RunParts DEF NoiseTypeOK, RunResult
  <2>5. RunsInv'
    BY <1>2, <1>3, <2>2, <2>3 DEF RunsInv, RunPcs, RunWindow
  <2>6. DoneRunIsSound'
    <3>1. status = "PASS" => harm = {} /\ left = {} /\ evidence = {"PASS"}
      BY <1>2, <1>13, RunParts DEF RunHarmInv
    <3>2. Retain \/ at \notin kept'
      BY <1>1, <1>13
    <3> QED
      BY <1>2, <2>2, <3>1, <3>2 DEF DoneRunIsSound
  <2> QED
    BY <1>8, <1>9, <1>10, <2>2, <2>4, <2>5, <2>6 DEF NoiseInv
<1> QED
  BY <1>1, <1>12, <1>13 DEF RunRaised

\* A verdict that is not FAIL has enough valid runs, and no others.
LEMMA NoiseVerdict ==
  ASSUME NEW r, NEW e, NEW g, NEW v \in CampaignVerdicts(r, e, g)
  PROVE  v \in {"PASS", "WARN", "FAIL"} /\ (v # "FAIL" => Enough(r, g))
<1>1. \A statuses : Worst(statuses) \in {"PASS", "WARN", "FAIL"}
  BY DEF Worst
<1>2. CASE ~Enough(r, g)
  <2>1. CampaignVerdicts(r, e, g) = {"FAIL"}
    BY <1>2 DEF CampaignVerdicts
  <2> QED
    BY <2>1
<1>3. CASE Enough(r, g)
  <2> DEFINE valid == ValidRuns(r)
             windows == [k \in DOMAIN valid |-> valid[k].window]
             S == MetricOutcomes(e["store_throughput"], windows, g[Kind("store_throughput")])
             L == MetricOutcomes(e["load_throughput"], windows, g[Kind("load_throughput")])
             P == MetricOutcomes(e["store_p95"], windows, g[Kind("store_p95")])
             Q == MetricOutcomes(e["load_p95"], windows, g[Kind("load_p95")])
  <2>1. CampaignVerdicts(r, e, g) =
          {Worst(a \cup b \cup c \cup d) : a \in S, b \in L, c \in P, d \in Q}
    BY <1>3 DEF CampaignVerdicts
  <2> HIDE DEF S, L, P, Q
  <2>2. \E a \in S, b \in L, c \in P, d \in Q : v = Worst(a \cup b \cup c \cup d)
    BY <2>1
  <2> QED
    BY <1>1, <1>3, <2>2
<1> QED
  BY <1>2, <1>3

LEMMA JudgeRunsStep ==
  ASSUME NoiseInv, JudgeRuns
  PROVE  NoiseInv'
<1>1. /\ pc = "runs" /\ at = NRuns /\ pc' = "end"
      /\ UNCHANGED <<tier, raised, stage, first, here, files, memory, harness>>
      /\ UNCHANGED <<faults, harm, at, good, left, evidence, results, failures>>
      /\ kept' \subseteq kept
  BY DEF JudgeRuns, Tierless, runVars
<1>2. PICK v \in IF Enough(results, RunGate) THEN Measured(ValidRuns(results)) ELSE {<<>>} :
        verdict' \in CampaignVerdicts(results, v, RunGate)
  BY DEF JudgeRuns
<1>3. \/ verdict' \in {"PASS", "WARN"} /\ done' = done \cup {0}
      \/ verdict' \notin {"PASS", "WARN"} /\ done' = done
  BY DEF JudgeRuns
<1>4. exit' \in {"0", "1"}
  BY DEF JudgeRuns
<1>5. verdict' \in {"PASS", "WARN", "FAIL"} /\ (verdict' # "FAIL" => Enough(results, RunGate))
  BY <1>2, NoiseVerdict
<1>6. /\ failures \in Nat /\ Len(results) \in Nat /\ Len(results) + failures = NRuns /\ NRuns \in Nat
      /\ NRuns # 0 /\ done \subseteq 0..NRuns /\ 0 \notin done /\ results \in Seq(RunResult)
  BY <1>1, RunParts, NoiseConfig DEF RunsInv, RunPcs
<1>7. WaveTypeOK' /\ LedgerAgrees(tier, raised)' /\ LedgerKnows' /\ WaveShape' /\ RunHarmInv'
  BY <1>1, QuietWave DEF BetweenPcs
<1>8. done' \subseteq 0..NRuns /\ done \subseteq done' /\ (\A k \in done' : k # 0 => k \in done)
  <2>1. 0 \in 0..NRuns
    BY <1>6
  <2>2. done \subseteq 0..NRuns
    BY <1>6
  <2> QED
    BY <1>3, <2>1, <2>2
<1>9. NoiseTypeOK'
  BY <1>1, <1>4, <1>5, <1>7, <1>8, RunParts DEF NoiseTypeOK
<1>10. RunsInv'
  BY <1>1, <1>6, <1>8, RunParts DEF RunsInv, RunPcs, RunWindow
<1>11. DoneRunIsSound'
  BY <1>1, <1>8, RunParts DEF DoneRunIsSound, Native
<1>12. ASSUME 0 \in done' PROVE failures' = 0 /\ done' = 0..NRuns /\ at' = NRuns
  <2>1. Enough(results, RunGate) /\ done' = done \cup {0}
    BY <1>3, <1>5, <1>6, <1>12
  <2> DEFINE C == {k \in DOMAIN results : results[k].status = "PASS"}
  <2>2. DOMAIN results = 1..Len(results) /\ C \in SUBSET (1..Len(results))
    BY <1>6
  <2>3. Cardinality(C) >= NRuns /\ Cardinality(C) = Len(results)
    BY <2>1, NoiseConfig DEF Enough, NValid
  <2>4. Len(results) = NRuns /\ failures = 0
    BY <1>6, <2>3
  <2> HIDE DEF C
  <2>5. C = 1..NRuns
    BY <1>6, <2>2, <2>3, <2>4, AllOf
  <2>6. \A k \in 1..NRuns : k \in done
    BY <2>4, <2>5, RunParts DEF RunsInv, C
  <2>7. done' = 0..NRuns
    <3>1. \A k \in 0..NRuns : k = 0 \/ k \in 1..NRuns
      BY <1>6
    <3>2. 0..NRuns \subseteq done'
      BY <2>1, <2>6, <3>1
    <3> QED
      BY <1>8, <3>2
  <2> QED
    BY <1>1, <2>4, <2>7
<1> QED
  BY <1>7, <1>9, <1>10, <1>11, <1>12 DEF NoiseInv

LEMMA NoiseInitInv == NoiseInit => NoiseInv
<1> SUFFICES ASSUME NoiseInit PROVE NoiseInv
  OBVIOUS
<1> USE DEF NoiseInit
<1>1. WaveTypeOK
  <2>1. files \in [Dirs -> [Chunks -> FileStates]] /\ memory \in [Chunks -> MemoryStates]
    BY DEF FileStates, MemoryStates
  <2>2. here \in Dirs /\ faults \in 0..MaxFaults /\ stage \in Stages /\ tier \in Tier
    BY TierFacts, WaveAssumption DEF Stages
  <2> QED
    BY <2>1, <2>2 DEF WaveTypeOK
<1>2. NoiseTypeOK
  <2>1. 0 \in 0..NRuns /\ <<>> \in Seq([window : 0..(NWindows - 1), status : Statuses])
    BY NoiseConfig
  <2> QED
    BY <1>1, <2>1 DEF NoiseTypeOK
<1>3. LedgerAgrees(tier, raised) /\ LedgerKnows
  BY TierFacts DEF LedgerAgrees, LedgerKnows
<1>4. WaveShape
  BY TierFacts DEF WaveShape, InArm
<1>5. RunHarmInv
  BY DEF RunHarmInv, InArm
<1>6. RunsInv /\ DoneRunIsSound
  BY DEF RunsInv, RunPcs, DoneRunIsSound
<1> QED
  BY <1>2, <1>3, <1>4, <1>5, <1>6 DEF NoiseInv

LEMMA NoiseSameState ==
  ASSUME NoiseInv, UNCHANGED noiseVars
  PROVE  NoiseInv'
<1> USE DEF noiseVars, waveVars, runVars, runsVars
<1>1. NoiseTypeOK'
  <2>1. WaveTypeOK'
    BY RunParts DEF WaveTypeOK
  <2> QED
    BY <2>1, RunParts DEF NoiseTypeOK
<1>2. LedgerAgrees(tier, raised)' /\ LedgerKnows'
  BY RunParts DEF LedgerAgrees, LedgerKnows, Known0, Known
<1>3. WaveShape'
  BY RunParts DEF WaveShape, WaveIds, InArm
<1>4. RunHarmInv'
  <2>1. (WaveFails => WaveFails') /\ (InArm' => InArm)
    BY DEF WaveFails, FailedJob, LostFile, WaveIds, InArm
  <2> HIDE DEF WaveFails, InArm
  <2> QED
    BY <2>1, RunParts DEF RunHarmInv, Native, Fio
<1>5. RunsInv' /\ DoneRunIsSound'
  BY RunParts DEF RunsInv, RunWindow, DoneRunIsSound, Native
<1> QED
  BY <1>1, <1>2, <1>3, <1>4, <1>5 DEF NoiseInv

LEMMA NoiseNextInv == NoiseInv /\ [NoiseNext]_noiseVars => NoiseInv'
<1> SUFFICES ASSUME NoiseInv, [NoiseNext]_noiseVars PROVE NoiseInv'
  OBVIOUS
<1>1. CASE RunInWave \/ LookupAndClear \/ CheckRun \/ CloseRun
  BY <1>1, RunInWaveStep, LookupAndClearStep, CheckRunStep, CloseRunStep
<1>2. CASE StartNative \/ PrepareFile \/ StartRun \/ RemoveData \/ FioRun
  BY <1>2, StartStepOfRuns, StartRunStep, RemoveDataStep, FioRunStep
<1>3. CASE JudgeRuns
  BY <1>3, JudgeRunsStep
<1>4. CASE RunsEnded \/ UNCHANGED noiseVars
  BY <1>4, NoiseSameState DEF RunsEnded
<1> QED
  BY <1>1, <1>2, <1>3, <1>4 DEF NoiseNext
-----------------------------------------------------------------------------
(* The noise campaigns: the theorems *)

\* NoiseInv holds in every state either noise harness can reach.
THEOREM NoiseInvariant == NoiseSpec => []NoiseInv
<1>1. NoiseInit => NoiseInv
  BY NoiseInitInv
<1>2. NoiseInv /\ [NoiseNext]_noiseVars => NoiseInv'
  BY NoiseNextInv
<1> QED
  BY <1>1, <1>2, PTL DEF NoiseSpec

\* The DONE file of a native run (_run_one) says what it stands for.
THEOREM DoneRunsAreEarned == NoiseSpec => []DoneRunIsSound
<1>1. NoiseInv => DoneRunIsSound
  BY DEF NoiseInv
<1> QED
  BY <1>1, NoiseInvariant, PTL

\* Through both waves of a native run the observer's ledger agrees with the
\* tier, and the DONE file of a campaign (main) means that no run raised, every
\* run is DONE, and every window has its number of results.
THEOREM NoRunPassedOver == NoiseSpec => []RunsAccountedFor
<1>1. NoiseInv => RunsAccountedFor
  <2> SUFFICES ASSUME NoiseInv PROVE RunsAccountedFor
    OBVIOUS
  <2>1. ASSUME 0 \in done, NEW w \in 0..(NWindows - 1)
        PROVE  Cardinality({k \in DOMAIN results : results[k].window = w}) = Repetitions
    <3>1. failures = 0 /\ at = NRuns /\ pc = "end"
      BY <2>1, RunParts DEF NoiseInv, RunsInv
    <3>2. Len(results) = NRuns
      BY <3>1, RunParts, NoiseConfig DEF RunsInv, RunPcs
    <3>3. DOMAIN results = 1..NRuns
      BY <3>2, RunParts
    <3>4. \A k \in 1..NRuns : results[k].window = RunWindow(k)
      BY <3>1, <3>2, RunParts DEF RunsInv
    <3>5. {k \in DOMAIN results : results[k].window = w}
            = {k \in 1..NWindows * Repetitions : (k - 1) \div Repetitions = w}
      BY <3>3, <3>4, NoiseConfig DEF RunWindow
    <3> QED
      BY <2>1, <3>5, NoiseConfig, WindowSize
  <2> QED
    BY <2>1 DEF NoiseInv, RunsAccountedFor
<1> QED
  BY <1>1, NoiseInvariant, PTL
=============================================================================
