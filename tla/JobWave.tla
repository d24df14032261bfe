------------------------------- MODULE JobWave -------------------------------
(***************************************************************************)
(* One wave of jobs through an instrumented tier, as both native harnesses *)
(* run it (_run_job_wave of paired_fs_aa.py, _run_transfer_phase of        *)
(* native_fs_noise.py): submit every job, poll until each has a result or  *)
(* the time is up, drain, and look for results nobody asked for.  The      *)
(* tier's threads work on their own between those calls; what they move is *)
(* the files of a directory and the chunks of a buffer, one of each a job. *)
(*                                                                         *)
(* Everything that goes wrong is counted: at most MaxFaults times a job    *)
(* fails, a result is wrong or comes twice, a call raises or times out.    *)
(***************************************************************************)
EXTENDS InstrumentedTier

CONSTANTS
  Dirs,       \* data directories
  NChunks,    \* jobs of a wave: blocks_per_job blocks each
  MaxFaults   \* bound: things that go wrong in a campaign

ASSUME WaveAssumption == NChunks \in Nat \ {0} /\ MaxFaults \in Nat

VARIABLES
  tier,     \* the tier of the arm or run at hand
  pc,       \* where the harness is
  raised,   \* an exception is on its way through the finally block
  stage,    \* what the wave is for
  first,    \* its first job id
  here,     \* the directory of the tier
  files,    \* what each directory holds for a chunk
  memory,   \* what the buffer holds for a chunk
  faults,   \* things that went wrong so far
  harm      \* what went wrong in the pair or run at hand (history)

waveVars == <<tier, pc, raised, stage, first, here, files, memory, faults, harm>>

Chunks == 1..NChunks
FileStates == {"absent", "tmp", "whole"}
MemoryStates == {"zero", "right", "wrong"}
Stages == {"store", "warmup", "load"}
WaveIds == first..(first + NChunks - 1)
ChunkOf(j) == ((j - 1) % NChunks) + 1

Harms ==
  (Stages \X {"failed"})
    \cup {<<"wrong", "bytes">>, <<"lost", "file">>, <<"events", "dropped">>,
          <<"tier", "left">>}

WaveTypeOK ==
  /\ tier \in Tier
  /\ raised \in BOOLEAN
  /\ stage \in Stages
  /\ first \in Nat
  /\ here \in Dirs
  /\ files \in [Dirs -> [Chunks -> FileStates]]
  /\ memory \in [Chunks -> MemoryStates]
  /\ faults \in 0..MaxFaults
  /\ harm \subseteq Harms

Fault == faults < MaxFaults /\ faults' = faults + 1
FaultIf(b) == IF b THEN Fault ELSE UNCHANGED faults
Whole(dir) == \A c \in Chunks : files[dir][c] = "whole"
BytesRight == \A c \in Chunks : memory[c] = "right"
BytesHarm == IF BytesRight THEN {} ELSE {<<"wrong", "bytes">>}
-----------------------------------------------------------------------------
(* The inner tier's threads *)

\* A store leaves the whole file, or fails and leaves none or a temporary one,
\* or says it is done and has lost it.
StoreEnds(c, ok) ==
  \E f \in FileStates :
    /\ ok => f # "tmp"
    /\ ~ok => f # "whole"
    /\ FaultIf(f # "whole")
    /\ files' = [files EXCEPT ![here][c] = f]
    /\ harm' = harm \cup (IF ~ok THEN {<<stage, "failed">>} ELSE {})
                    \cup (IF ok /\ f # "whole" THEN {<<"lost", "file">>} ELSE {})
    /\ UNCHANGED memory

\* A load brings the file's bytes, or fails and leaves the chunk as it was,
\* or brings other bytes.
LoadEnds(c, ok) ==
  \E m \in MemoryStates \ {"zero"} :
    /\ ok => files[here][c] = "whole"
    /\ ~ok => m = "wrong"
    /\ FaultIf(m = "wrong" /\ files[here][c] = "whole")
    /\ memory' = IF ok THEN [memory EXCEPT ![c] = m] ELSE memory
    /\ harm' = harm \cup (IF ~ok THEN {<<stage, "failed">>} ELSE {})
    /\ UNCHANGED files

JobEnds ==
  \E j \in tier.working, ok \in BOOLEAN :
    /\ tier.up
    /\ tier' = [tier EXCEPT !.working = @ \ {j},
                            !.finished = Append(@, [id |-> j, ok |-> ok])]
    /\ IF stage = "store" THEN StoreEnds(ChunkOf(j), ok) ELSE LoadEnds(ChunkOf(j), ok)
    /\ UNCHANGED <<pc, raised, stage, first, here>>

\* A result of a job that already has one, or of a job never submitted (0).
StrayResult ==
  /\ tier.up /\ pc \in {"poll", "drained"}
  /\ \E id \in {0} \cup {r.id : r \in tier.completed \cup ToSet(tier.finished)} :
       tier' = [tier EXCEPT !.finished = Append(@, [id |-> id, ok |-> TRUE])]
  /\ Fault
  /\ UNCHANGED <<pc, raised, stage, first, here, files, memory, harm>>

\* The observer's event list is full: further events are counted, not kept.
EventsDropped ==
  /\ tier.up /\ ~tier.dropped /\ pc = "poll"
  /\ tier' = [tier EXCEPT !.dropped = TRUE]
  /\ harm' = harm \cup {<<"events", "dropped">>}
  /\ Fault
  /\ UNCHANGED <<pc, raised, stage, first, here, files, memory>>
-----------------------------------------------------------------------------
(* The harness *)

\* What a wave is started with
WaveFrom(s, id) == pc' = "submit" /\ stage' = s /\ first' = id

\* An exception inside the try block: on to the finally block
Raise == pc' = "close" /\ raised' = TRUE

\* Every job in order; if one raises, those before it stay pending.
SubmitWave ==
  /\ pc = "submit"
  /\ \E n \in 0..NChunks :
       /\ \A j \in first..(first + n - 1) : ~Known(tier, j)
       /\ tier' = FoldLeft(Submit, tier, [k \in 1..n |-> first + k - 1])
       /\ IF n = NChunks THEN pc' = "poll" /\ UNCHANGED <<raised, faults>>
          ELSE Raise /\ FaultIf(~Known(tier, first + n))
  /\ UNCHANGED <<stage, first, here, files, memory, harm>>

\* The loop goes on while results are missing.
Missing == {j \in WaveIds : ~\E r \in tier.completed : r.id = j}

\* Mutation: the poll's exception is swallowed and the loop goes on.
PollWaveSwallows ==
  /\ pc = "poll" /\ Missing # {}
  /\ tier.finished # <<>>
  /\ tier' = GetFinishedJobs(tier).tier
  /\ UNCHANGED <<pc, raised, stage, first, here, files, memory, faults, harm>>

PollWave ==
  /\ pc = "poll" /\ Missing # {}
  /\ tier.finished # <<>>
  /\ LET poll == GetFinishedJobs(tier) IN
       /\ tier' = poll.tier
       /\ IF poll.raised THEN Raise ELSE UNCHANGED <<pc, raised>>
  /\ UNCHANGED <<stage, first, here, files, memory, faults, harm>>

\* TimeoutError; an interrupt in the loop does the same.
GiveUp ==
  /\ pc = "poll" /\ Missing # {}
  /\ Fault /\ Raise
  /\ UNCHANGED <<tier, stage, first, here, files, memory, harm>>

DrainWave ==
  /\ pc = "poll" /\ Missing = {}
  /\ Drained(tier)
  /\ pc' = "drained"
  /\ UNCHANGED <<tier, raised, stage, first, here, files, memory, faults, harm>>

\* get_finished_jobs after the drain: any result at all raises
CheckWave ==
  /\ pc = "drained"
  /\ LET poll == GetFinishedJobs(tier) IN
       /\ tier' = poll.tier
       /\ IF tier.finished # <<>> THEN Raise ELSE pc' = "waved" /\ UNCHANGED raised
  /\ UNCHANGED <<stage, first, here, files, memory, faults, harm>>

\* all_success of the wave
AllSuccess == \A j \in WaveIds : Outcome(tier, j)

\* The try block in the finally block: with jobs pending, drain the inner tier
\* and collect what it has; then shut down, unless one of these raised.
LastPoll ==
  IF tier.pending # {} THEN GetFinishedJobs(tier) ELSE [tier |-> tier, raised |-> FALSE]

CloseTier(clean) ==
  /\ pc = "close"
  /\ tier.pending # {} => Drained(tier)
  /\ LET may == ~LastPoll.raised /\ MayShutDown(LastPoll.tier) IN
       /\ clean => may
       /\ FaultIf(may /\ ~clean)

WaveStep ==
  \/ JobEnds \/ StrayResult \/ EventsDropped
  \/ SubmitWave \/ PollWave \/ GiveUp \/ DrainWave \/ CheckWave
=============================================================================
