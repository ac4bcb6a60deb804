--------------------------- MODULE PipelineProofs ---------------------------
(* Theorems about the acquisition pipeline, for any companies, query        *)
(* results, workers, jobs and bounds.                                       *)
EXTENDS Pipeline, LeasingProofs, SequenceTheorems

USE NoJobAssumption, PhasesAssumption, MaxAttemptsAssumption, BoundsAssumption,
    PipelineAssumption

StageNames == {"PLANNING", "DISCOVERING", "ENRICHING", "VERIFYING", "SCORING", "QUALIFYING"}
Looped == {"DISCOVERING"} \union Recorded
Checkpoints == [phase : StageNames, index : Nat, companies : Seq(Companies)]

-----------------------------------------------------------------------------
(* The inductive invariant.                                                 *)

Qualified(j, c) == c \in Rejected \/ leads[j][c] > 0

\* What the tables hold for a handler, or a row, with checkpoint c: everything c
\* claims was done.  Nothing in it depends on who holds the lease.
Evidence(j, c) ==
  /\ c.phase # "PLANNING" => "allowed" \in decisions[j]
  /\ \A p \in Recorded : Rank(c.phase) > Rank(p) =>
       \A i \in 1 .. Len(c.companies) : <<p, c.companies[i]>> \in done[j]
  /\ c.phase \in Recorded =>
       \A i \in 1 .. Len(c.companies) : i <= c.index => <<c.phase, c.companies[i]>> \in done[j]
  /\ c.phase = "QUALIFYING" =>
       \A i \in 1 .. Len(c.companies) : i <= c.index => Qualified(j, c.companies[i])

Through(c) == c.phase = "QUALIFYING" /\ c.index >= Len(c.companies)

\* Where a handler stands, against its checkpoint.
AtInv(w) ==
  /\ at[w] \in {"phase", "policy", "saveplan"} => ck[w].phase = "PLANNING"
  /\ at[w] = "saveplan" => "allowed" \in decisions[Job(w)]
  /\ at[w] \in {"check", "apply", "unit", "beat", "save"} =>
       ck[w].phase \in Looped /\ ck[w].index < Units(Job(w), ck[w])
  /\ at[w] \in {"beat", "save"} /\ ck[w].phase \in Recorded =>
       <<ck[w].phase, ck[w].companies[ck[w].index + 1]>> \in done[Job(w)]
  /\ at[w] = "nextphase" => ck[w].phase \in Looped /\ ck[w].index >= Units(Job(w), ck[w])
  /\ at[w] = "qualify" => ck[w].phase = "QUALIFYING" /\ ck[w].index < Len(ck[w].companies)
  /\ at[w] = "apply" => cancelRequested[Job(w)]
  /\ at[w] \in {"publish", "ready"} => cancelRequested[Job(w)] \/ Through(ck[w])

\* A handler against the row it works on: the owner is at the saved stage, and
\* whoever reached the last stage knows the final list of companies.
RowInv(w) ==
  /\ Fenced(w) => saved[Job(w)].phase = ck[w].phase
  /\ ck[w].phase = "QUALIFYING" =>
       /\ saved[Job(w)].phase = "QUALIFYING"
       /\ saved[Job(w)].companies = ck[w].companies
  /\ Fenced(w) /\ pc[w] = "handle" /\ at[w] \in {"publish", "ready"} => Through(ck[w])

WorkInv == \A w \in Workers : Working(w) => Evidence(Job(w), ck[w]) /\ AtInv(w) /\ RowInv(w)

SavedInv == \A j \in Jobs : Evidence(j, saved[j])

\* A campaign that is shown, and a job that is ready, are at the last stage.
ShownInv ==
  /\ \A j \in Jobs : campaign[j] = "READY_FOR_REVIEW" /\ ~cancelRequested[j] =>
       /\ saved[j].phase = "QUALIFYING"
       /\ \A i \in 1 .. Len(saved[j].companies) : Qualified(j, saved[j].companies[i])
  /\ \A j \in Jobs : state[j] = "READY_FOR_REVIEW" =>
       /\ saved[j].phase = "QUALIFYING"
       /\ \A i \in 1 .. Len(saved[j].companies) : Qualified(j, saved[j].companies[i])

CheckpointsOK == ck \in [Workers -> Checkpoints] /\ saved \in [Jobs -> Checkpoints]

-----------------------------------------------------------------------------
(* The stages.                                                              *)

(* The stages and their order.                                               *)
LEMMA StageFacts ==
  /\ Range(Stages) = StageNames
  /\ Rank("PLANNING") = 1 /\ Rank("DISCOVERING") = 2 /\ Rank("ENRICHING") = 3
  /\ Rank("VERIFYING") = 4 /\ Rank("SCORING") = 5 /\ Rank("QUALIFYING") = 6
<1>1. DOMAIN Stages = 1 .. 6
  BY DEF Stages
<1>2. /\ Stages[1] = "PLANNING" /\ Stages[2] = "DISCOVERING" /\ Stages[3] = "ENRICHING"
      /\ Stages[4] = "VERIFYING" /\ Stages[5] = "SCORING" /\ Stages[6] = "QUALIFYING"
  BY DEF Stages
<1>3. \A i \in 1 .. 6 : i \in {1, 2, 3, 4, 5, 6}
  OBVIOUS
<1>4. Range(Stages) = StageNames
  BY <1>1, <1>2, <1>3 DEF Range, StageNames
<1>5. \A p : (\E i \in 1 .. 6 : Stages[i] = p) => Rank(p) \in 1 .. 6 /\ Stages[Rank(p)] = p
  BY <1>1 DEF Rank
<1>6. \A k \in 1 .. 6 : Rank(Stages[k]) = k
  <2> SUFFICES ASSUME NEW k \in 1 .. 6 PROVE Rank(Stages[k]) = k
    OBVIOUS
  <2>1. Rank(Stages[k]) \in 1 .. 6 /\ Stages[Rank(Stages[k])] = Stages[k]
    BY <1>5
  <2>2. \A h, i \in 1 .. 6 : Stages[h] = Stages[i] => h = i
    BY <1>2, <1>3
  <2>3. QED
    BY <2>1, <2>2
<1>7. QED
  BY <1>2, <1>4, <1>6

\* The successor of every stage that has a loop.
LEMMA NextStageFacts ==
  /\ NextStage("DISCOVERING") = "ENRICHING"
  /\ NextStage("ENRICHING") = "VERIFYING"
  /\ NextStage("VERIFYING") = "SCORING"
  /\ NextStage("SCORING") = "QUALIFYING"
BY StageFacts DEF NextStage, Stages

-----------------------------------------------------------------------------
(* The runtime below the handlers.                                          *)

\* A handler starts, or goes on, in one of two ways.
LEMMA HandlerBegins ==
  ASSUME TypeOK, [Next]_vars, NEW w \in Workers, pc'[w] = "handle",
         \A j \in Jobs : ~ClaimNext(w, j)
  PROVE  pc[w] = "handle" \/ FinishCancelled(w)
<1> USE DEF TypeOK
<1>1. ASSUME NEW j \in Jobs, CreateJob(j) \/ RequestCancel(j) \/ Elapse(j)
      PROVE  pc[w] = "handle"
  BY <1>1 DEF CreateJob, RequestCancel, Elapse
<1>2. ASSUME NEW v \in Workers,
             ReclaimRead(v) \/ ReclaimWrite(v) \/ WakeParked(v) \/ ClaimNothing(v)
             \/ Heartbeat(v) \/ LeaseLost(v) \/ ApplyCancellation(v) \/ Crash(v) \/ Restart(v)
      PROVE  pc[w] = "handle"
  BY <1>2 DEF ReclaimRead, ReclaimWrite, WakeParked, ClaimNothing, Heartbeat, LeaseLost,
              NextCycle, ApplyCancellation, Crash, Restart
<1>3. ASSUME NEW v \in Workers, NEW j \in Jobs, ClaimNext(v, j)
      PROVE  pc[w] = "handle"
  BY <1>3 DEF ClaimNext
<1>4. ASSUME NEW v \in Workers, NEW s, SetPhase(v, s) \/ SaveCheckpoint(v, s) \/ Complete(v, s)
                                         \/ Park(v) \/ Fail(v)
      PROVE  pc[w] = "handle"
  BY <1>4 DEF SetPhase, SaveCheckpoint, Complete, Park, Fail, NextCycle
<1>5. ASSUME NEW v \in Workers, FinishCancelled(v)
      PROVE  pc[w] = "handle" \/ FinishCancelled(w)
  BY <1>5 DEF FinishCancelled
<1>6. CASE UNCHANGED vars
  BY <1>6 DEF vars
<1>7. QED
  BY <1>1, <1>2, <1>3, <1>4, <1>5, <1>6 DEF Next, WorkerStep, HandlerEnds

\* A worker that passes its fence after a step either claimed in that step or
\* passed it before: nobody else gives it the lease.
LEMMA StillOwner ==
  ASSUME TypeOK, FenceInv, [Next]_vars, NEW w \in Workers, Working(w)',
         \A j \in Jobs : ~ClaimNext(w, j)
  PROVE  /\ Working(w)
         /\ Job(w)' = Job(w)
         /\ Fenced(w)' => Fenced(w)
<1>1. CASE \E v \in Workers, s \in ActiveStates : SaveCheckpoint(v, s)
  BY <1>1 DEF SaveCheckpoint, Working, Fenced, Job, TypeOK
<1>2. CASE \E v \in Workers, j \in Jobs : ClaimNext(v, j)
  <2>1. PICK v \in Workers, j \in Jobs : ClaimNext(v, j)
    BY <1>2
  <2>2. Working(w) /\ ctx'[w] = ctx[w]
    BY <2>1 DEF ClaimNext, Working, TypeOK
  <2>3. ctx[w].job \in Jobs /\ ctx[w].token \in 1 .. issued
    BY <2>2 DEF FenceInv
  <2>7. token'[j] = issued + 1 /\ issued \in Nat
    BY <2>1 DEF ClaimNext, TypeOK
  <2>4. Fenced(w)' => ctx[w].job # j
    BY <2>2, <2>3, <2>7 DEF Fenced
  <2>5. Fenced(w)' => Fenced(w)
    BY <2>1, <2>2, <2>3, <2>4 DEF ClaimNext, Fenced, TypeOK
  <2>6. QED
    BY <2>2, <2>5 DEF Job
<1>3. CASE /\ \A v \in Workers, s \in ActiveStates : ~SaveCheckpoint(v, s)
           /\ \A v \in Workers, j \in Jobs : ~ClaimNext(v, j)
  <2>1. Loosens
    BY <1>3, OtherActionsLoosen
  <2>2. Working(w) /\ ctx'[w] = ctx[w]
    BY <2>1 DEF Loosens
  <2>3. ctx[w].job \in Jobs /\ ctx[w].token # 0
    BY <2>2 DEF FenceInv
  <2>4. QED
    BY <2>1, <2>2, <2>3 DEF Loosens, Fenced, Job
<1>4. QED
  BY <1>1, <1>2, <1>3

\* A handler that owns its lease after a step was running before it.
LEMMA StillHandles ==
  ASSUME TypeOK, FenceInv, [Next]_vars, NEW w \in Workers, pc'[w] = "handle", Fenced(w)',
         \A j \in Jobs : ~ClaimNext(w, j)
  PROVE  pc[w] = "handle"
<1>1. FinishCancelled(w) => FALSE
  <2> SUFFICES ASSUME FinishCancelled(w) PROVE FALSE
    OBVIOUS
  <2>1. Working(w) /\ ctx'[w] = ctx[w]
    BY DEF FinishCancelled, Working
  <2>2. ctx[w].job \in Jobs /\ ctx[w].token # 0
    BY <2>1 DEF FenceInv
  <2>3. token'[ctx[w].job] = 0 \/ (~Fenced(w) /\ token' = token /\ version' = version)
    BY <2>2 DEF FinishCancelled, ReleaseAs, TypeOK
  <2>4. QED
    BY <2>1, <2>2, <2>3 DEF Fenced
<1>2. QED
  BY <1>1, HandlerBegins

\* The handler of the lease's owner is never left with a row in CANCELLING: who
\* moves it there stops handling, and gives the lease up before it goes on.
NoOwnerCancels ==
  \A w \in Workers : pc[w] = "handle" /\ Fenced(w) => state[ctx[w].job] # "CANCELLING"

(* Nobody claims a job that is being cancelled, so its owner never works on it. *)
LEMMA NoOwnerCancelsStep ==
  ASSUME TypeOK, FenceInv, LeaseShape, NoOwnerCancels, [Next]_vars
  PROVE  NoOwnerCancels'
<1> SUFFICES ASSUME NEW w \in Workers, pc'[w] = "handle", Fenced(w)'
             PROVE  state'[ctx'[w].job] # "CANCELLING"
  BY DEF NoOwnerCancels
<1>1. CASE \E j \in Jobs : ClaimNext(w, j)
  BY <1>1 DEF ClaimNext, TypeOK
<1>2. CASE \A j \in Jobs : ~ClaimNext(w, j)
  <2>1. Working(w) /\ ctx'[w].job = ctx[w].job /\ Fenced(w)
    BY <1>2, StillOwner DEF Working, Job
  <2>0. pc[w] = "handle"
    BY <1>2, StillHandles
  <2> DEFINE j == ctx[w].job
  <2>2. j \in Jobs /\ state[j] \in ActiveStates /\ ctx[w].token # 0
    BY <2>1, OwnerIsActive DEF FenceInv
  <2>3. pc[w] = "handle" => state[j] # "CANCELLING"
    BY <2>1 DEF NoOwnerCancels
  <2> USE DEF TypeOK
  <2>4. ASSUME NEW i \in Jobs, CreateJob(i) \/ RequestCancel(i) \/ Elapse(i)
        PROVE  state'[j] # "CANCELLING" \/ (state'[j] = state[j] /\ pc[w] = "handle")
    BY <2>2, <2>4 DEF CreateJob, RequestCancel, Elapse
  <2>5. ASSUME NEW v \in Workers, ReclaimRead(v) \/ ReclaimWrite(v)
        PROVE  state'[j] # "CANCELLING" \/ (state'[j] = state[j] /\ pc[w] = "handle")
    <3>1. pc[w] = "handle"
      BY <2>5 DEF ReclaimRead, ReclaimWrite
    <3>2. CASE ReclaimRead(v)
      BY <3>1, <3>2 DEF ReclaimRead, jobVars
    <3>3. CASE ReclaimWrite(v)
      <4>1. state'[j] \in {"FAILED", "QUEUED", state[j]}
        BY <2>2, <3>3 DEF ReclaimWrite
      <4>2. QED
        BY <3>1, <4>1
    <3>4. QED
      BY <2>5, <3>2, <3>3
  <2>6. ASSUME NEW v \in Workers, WakeParked(v) \/ ClaimNothing(v) \/ LeaseLost(v) \/ Crash(v)
                                    \/ Restart(v) \/ Heartbeat(v)
        PROVE  state'[j] # "CANCELLING" \/ (state'[j] = state[j] /\ pc[w] = "handle")
    <3>1. CASE WakeParked(v)
      BY <2>2, <3>1 DEF WakeParked
    <3>2. CASE ClaimNothing(v) \/ LeaseLost(v) \/ Crash(v) \/ Restart(v) \/ Heartbeat(v)
      <4>1. state' = state
        BY <3>2 DEF ClaimNothing, LeaseLost, Crash, Restart, Heartbeat, jobVars
      <4>2. pc[w] = "handle"
        BY <3>2 DEF ClaimNothing, LeaseLost, NextCycle, Crash, Restart, Heartbeat
      <4>3. QED
        BY <4>1, <4>2
    <3>3. QED
      BY <2>6, <3>1, <3>2
  <2>7. ASSUME NEW v \in Workers, NEW i \in Jobs, ClaimNext(v, i)
        PROVE  state'[j] # "CANCELLING" \/ (state'[j] = state[j] /\ pc[w] = "handle")
    BY <1>2, <2>2, <2>7 DEF ClaimNext
  <2>8. ASSUME NEW v \in Workers, NEW s \in Phases, SetPhase(v, s)
        PROVE  state'[j] # "CANCELLING" \/ (state'[j] = state[j] /\ pc[w] = "handle")
    BY <2>2, <2>8 DEF SetPhase
  <2>9. ASSUME NEW v \in Workers, NEW s \in ActiveStates, SaveCheckpoint(v, s)
        PROVE  state'[j] # "CANCELLING" \/ (state'[j] = state[j] /\ pc[w] = "handle")
    <3>1. pc'[w] = pc[w] /\ s \in Phases \union {state[ctx[v].job]}
      BY <2>9 DEF SaveCheckpoint
    <3>2. state'[j] = state[j] \/ (ctx[v].job = j /\ state'[j] = s)
      BY <2>2, <2>9 DEF SaveCheckpoint
    <3>3. QED
      BY <3>1, <3>2
  <2>10. ASSUME NEW v \in Workers, NEW s \in HandlerOutcomes, Park(v) \/ Complete(v, s) \/ Fail(v)
         PROVE  state'[j] # "CANCELLING" \/ (state'[j] = state[j] /\ pc[w] = "handle")
    BY <2>2, <2>10 DEF Park, Complete, Fail, ReleaseAs, NextCycle, HandlerOutcomes
  <2>11. ASSUME NEW v \in Workers, ApplyCancellation(v)
         PROVE  state'[j] # "CANCELLING" \/ (state'[j] = state[j] /\ pc[w] = "handle")
    <3>1. v # w /\ pc'[w] = pc[w] /\ Working(v) /\ Fenced(v)
      BY <2>11 DEF ApplyCancellation, CancelApplies, Working
    <3>2. ctx[v].job # j
      BY <2>1, <3>1 DEF FenceInv, Fenced
    <3>3. QED
      BY <2>2, <2>11, <3>1, <3>2 DEF ApplyCancellation
  <2>12. ASSUME NEW v \in Workers, FinishCancelled(v)
         PROVE  state'[j] # "CANCELLING" \/ (state'[j] = state[j] /\ pc[w] = "handle")
    BY <2>2, <2>0, <2>12 DEF FinishCancelled, ReleaseAs
  <2>13. CASE UNCHANGED vars
    BY <2>13, <2>1, <2>3 DEF vars, jobVars
  <2>14. PICK p \in Phases, s \in HandlerOutcomes : TRUE
    BY DEF HandlerOutcomes
  <2>15. QED
    BY <2>1, <2>3, <2>4, <2>5, <2>6, <2>7, <2>8, <2>9, <2>10, <2>11, <2>12, <2>13, <2>14
       DEF Next, WorkerStep, HandlerEnds
<1>3. QED
  BY <1>1, <1>2

RuntimeInv == TypeOK /\ FenceInv /\ LeaseShape /\ NoOwnerCancels

(* The runtime's invariants hold at first.                                   *)
LEMMA RuntimeInit == Init => RuntimeInv
<1>1. Init => TypeOK
  BY DEF Init, TypeOK, JobStates, NoCtx, NoReap, Reaps
<1>2. Init => LeaseShape /\ NoOwnerCancels
  BY DEF Init, LeaseShape, ActiveStates, NoOwnerCancels
<1>3. QED
  BY <1>1, <1>2, FenceInit DEF RuntimeInv

(* The runtime's invariants are kept by its steps.                           *)
LEMMA RuntimeStep ==
  ASSUME RuntimeInv, [Next]_vars
  PROVE  RuntimeInv'
<1>1. TypeOK'
  BY TypeStep DEF RuntimeInv
<1>2. FenceInv'
  BY <1>1, FenceStep DEF RuntimeInv
<1>3. QED
  BY <1>1, <1>2, ShapeStep, NoOwnerCancelsStep DEF RuntimeInv

\* Every step of the pipeline is, below the handler, a step of the runtime.
LEMMA PipelineStepIsRuntimeStep ==
  ASSUME RuntimeInv, [PipelineNext]_allVars
  PROVE  [Next]_vars
<1>1. CASE UNCHANGED allVars
  BY <1>1 DEF allVars
<1>2. CASE Runtime
  BY <1>2 DEF Runtime, Maintenance, Next, WorkerStep
<1>3. ASSUME NEW w \in Workers, Wake(w) \/ Claim(w) \/ WorkerCrash(w)
      PROVE  [Next]_vars
  BY <1>3 DEF Wake, Claim, WorkerCrash, Next, WorkerStep
<1>4. ASSUME NEW w \in Workers, HandlerStep(w)
      PROVE  [Next]_vars
  <2>1. ASSUME NEW s \in Phases \union {state[ctx[w].job]}, SaveCheckpoint(w, s)
        PROVE  s \in ActiveStates
    BY <2>1, OwnerIsActive DEF SaveCheckpoint, RuntimeInv, Working, ActiveStates
  <2>2. CASE EnterPlanning(w)
    <3>1. SetPhase(w, "PLANNING") /\ "PLANNING" \in Phases
      BY <2>2 DEF EnterPlanning
    <3>2. WorkerStep(w)
      BY <3>1, Zenon DEF WorkerStep
    <3>3. QED
      BY <3>2 DEF Next
  <2>3. CASE SavePlan(w) \/ SaveUnit(w) \/ SavePhase(w)
    <3>1. \E s : SaveCheckpoint(w, s)
      BY <2>3 DEF SavePlan, SaveUnit, SavePhase, SaveAs
    <3>2. QED
      BY <2>1, <3>1 DEF SaveCheckpoint, Next, WorkerStep
  <2>4. CASE Apply(w) \/ FinishCancel(w) \/ Beat(w)
    BY <2>4 DEF Apply, FinishCancel, Beat, Next, WorkerStep
  <2>5. CASE Return(w) \/ Lost(w)
    BY <2>5 DEF Return, Lost, Next, WorkerStep, HandlerEnds, HandlerOutcomes
  <2>6. CASE \/ PlanPolicy(w) \/ CheckCancel(w) \/ Unit(w) \/ UnitRaises(w)
             \/ QualifyOne(w) \/ QualifyRejects(w) \/ Publish(w)
    BY <2>6 DEF PlanPolicy, CheckCancel, Unit, UnitRaises, QualifyOne, QualifyRejects, Publish
  <2>7. QED
    BY <1>4, <2>2, <2>3, <2>4, <2>5, <2>6 DEF HandlerStep
<1>5. QED
  BY <1>1, <1>2, <1>3, <1>4 DEF PipelineNext

\* So what is proved of the runtime holds below the pipeline.
LEMMA RuntimeInvariant == PipelineSpec => []RuntimeInv
<1>1. PipelineInit => Init
  BY DEF PipelineInit
<1>2. QED
  BY <1>1, RuntimeInit, RuntimeStep, PipelineStepIsRuntimeStep, PTL DEF PipelineSpec

(* The pipeline implements the job runtime it runs on: every behaviour of    *)
(* PipelineSpec is one of Leasing's Spec.                                    *)
THEOREM PipelineImplementsRuntime == PipelineSpec => Spec
<1>1. PipelineInit => Init
  BY DEF PipelineInit
<1>2. QED
  BY <1>1, RuntimeInvariant, PipelineStepIsRuntimeStep, PTL DEF PipelineSpec, Spec

-----------------------------------------------------------------------------
(* Types.                                                                   *)

\* A listing of finitely many companies is a sequence of them.
LEMMA ListingType ==
  ASSUME NEW found \in Seq(Companies), NEW S, S \subseteq Range(found),
         NEW s \in Listings(found, S)
  PROVE  s \in Seq(Companies)
<1>1. found \in [1 .. Len(found) -> Companies] /\ Len(found) \in Nat
  BY LenProperties
<1>2. found \in Surjection(1 .. Len(found), Range(found))
  BY <1>1 DEF Surjection, Range
<1>3. IsFiniteSet(1 .. Len(found))
  BY <1>1, FS_Interval
<1>4. IsFiniteSet(Range(found))
  BY <1>2, <1>3, FS_Surjection
<1>5. Cardinality(S) \in Nat
  BY <1>4, FS_Subset, FS_CardinalityType
<1>6. s \in [1 .. Cardinality(S) -> Companies]
  <2>1. s \in [1 .. Cardinality(S) -> S]
    BY DEF Listings, SetToSeqs
  <2>2. S \subseteq Companies
    BY <1>1 DEF Range
  <2>3. QED
    BY <2>1, <2>2
<1>7. QED
  BY <1>5, <1>6, SeqDef

\* A handler that is inside a loop is at one of the loop's elements.
LEMMA AtAnElement ==
  ASSUME NEW w \in Workers, ck[w] \in Checkpoints, ck[w].phase # "DISCOVERING",
         ck[w].index < Units(Job(w), ck[w])
  PROVE  /\ ck[w].index + 1 \in 1 .. Len(ck[w].companies)
         /\ ck[w].companies[ck[w].index + 1] \in Companies
<1>1. ck[w].index \in Nat /\ ck[w].companies \in Seq(Companies)
  BY DEF Checkpoints
<1>2. Len(ck[w].companies) \in Nat
  BY <1>1, LenProperties
<1>3. ck[w].index + 1 \in 1 .. Len(ck[w].companies)
  BY <1>1, <1>2 DEF Units
<1>4. QED
  BY <1>1, <1>3, ElementOfSeq

(* The checkpoint a run begins with, and the one it leaves planning with.    *)
LEMMA NewCheckpointType ==
  /\ NewCheckpoint \in Checkpoints
  /\ [NewCheckpoint EXCEPT !.phase = "DISCOVERING"] \in Checkpoints
BY EmptySeq DEF NewCheckpoint, Checkpoints, StageNames

\* Where a handler with checkpoint c goes on, stage by stage.
LEMMA ResumeCases ==
  ASSUME NEW j \in Jobs, NEW c \in Checkpoints
  PROVE  \/ c.phase = "PLANNING" /\ Resume(j, c) = "phase"
         \/ /\ c.phase \in Looped /\ c.index < Units(j, c)
            /\ Resume(j, c) \in {"check", "unit"}
         \/ /\ c.phase \in Looped /\ c.index >= Units(j, c)
            /\ Resume(j, c) = "nextphase"
         \/ /\ c.phase = "QUALIFYING" /\ c.index < Len(c.companies)
            /\ Resume(j, c) = "qualify"
         \/ Through(c) /\ Resume(j, c) \in {"publish", "partial"}
<1>1. c.phase \in StageNames /\ c.index \in Nat /\ c.companies \in Seq(Companies)
  BY DEF Checkpoints
<1>2. Len(c.companies) \in Nat /\ Len(Results[j]) \in Nat
  BY <1>1, LenProperties
<1>3. Units(j, c) \in Nat
  BY <1>2 DEF Units
<1>4. CASE c.phase = "PLANNING"
  BY <1>4 DEF Resume
<1>5. CASE c.phase = "QUALIFYING"
  BY <1>1, <1>2, <1>5 DEF Resume, Through, Units, Outcome
<1>6. CASE c.phase \in Looped
  <2>1. Resume(j, c) = IF c.index >= Units(j, c) THEN "nextphase"
                       ELSE IF c.phase \in CancelChecked THEN "check" ELSE "unit"
    BY <1>6 DEF Resume, Looped, Recorded
  <2>2. QED
    BY <1>1, <1>3, <1>6, <2>1
<1>7. QED
  BY <1>1, <1>4, <1>5, <1>6 DEF StageNames, Looped, Recorded

AtLabels == {"idle", "phase", "policy", "saveplan", "check", "apply", "unit", "beat", "save",
             "nextphase", "qualify", "publish", "ready", "partial", "raise"}

(* An attempt resumes at a label of the handler.                             *)
LEMMA ResumeType ==
  ASSUME NEW j \in Jobs, NEW c \in Checkpoints
  PROVE  Resume(j, c) \in AtLabels
BY ResumeCases, Zenon DEF AtLabels

\* The workers' places and checkpoints are well typed after every step.
PlacesOK == at \in [Workers -> AtLabels] /\ CheckpointsOK

(* Labels and checkpoints keep their types.                                  *)
LEMMA PlacesStep ==
  ASSUME RuntimeInv, PlacesOK, WorkInv, [PipelineNext]_allVars
  PROVE  PlacesOK'
<1> USE DEF PlacesOK, CheckpointsOK
<1>0. \A w \in Workers : Working(w) => Job(w) \in Jobs
  BY DEF RuntimeInv, FenceInv, Job
<1>1. ASSUME UNCHANGED <<at, ck, saved>>
      PROVE  PlacesOK'
  BY <1>1
<1>2. ASSUME NEW w \in Workers, NEW l \in AtLabels, Goto(w, l), UNCHANGED <<ck, saved>>
      PROVE  PlacesOK'
  BY <1>2 DEF Goto
<1>3. ASSUME NEW w \in Workers, Stop(w), saved' = saved
      PROVE  PlacesOK'
  <2>1. "idle" \in AtLabels
    BY DEF AtLabels
  <2>2. QED
    BY <1>3, <2>1, NewCheckpointType DEF Stop, Goto
<1>4. ASSUME NEW w \in Workers, NEW j \in Jobs, NEW c \in Checkpoints, Goto(w, Resume(j, c)),
             ck' = [ck EXCEPT ![w] = c], saved' = saved \/ saved' = [saved EXCEPT ![j] = c]
      PROVE  PlacesOK'
  <2>1. Resume(j, c) \in AtLabels
    BY ResumeType
  <2>2. QED
    BY <1>4, <2>1 DEF Goto
<1>5. ASSUME NEW w \in Workers, NEW c \in Checkpoints, NEW s, SaveAs(w, c, s)
      PROVE  PlacesOK'
  <2>1. Job(w) \in Jobs
    BY <1>0, <1>5 DEF SaveAs, SaveCheckpoint, Working
  <2>2. QED
    BY <1>4, <1>5, <2>1 DEF SaveAs
<1>6. ASSUME NEW w \in Workers, HandlerStep(w)
      PROVE  PlacesOK'
  <2> DEFINE next == [ck[w] EXCEPT !.index = @ + 1]
  <2>0. ck[w] \in Checkpoints /\ next \in Checkpoints
    <3>1. ck[w] \in Checkpoints
      OBVIOUS
    <3>2. ck[w].index + 1 \in Nat
      BY <3>1 DEF Checkpoints
    <3>3. QED
      BY <3>1, <3>2 DEF Checkpoints
  <2>1. CASE \/ EnterPlanning(w) \/ PlanPolicy(w) \/ CheckCancel(w) \/ Apply(w) \/ UnitRaises(w)
             \/ Beat(w) \/ Publish(w)
    <3>1. \E l \in AtLabels : Goto(w, l)
      BY <2>1 DEF EnterPlanning, PlanPolicy, CheckCancel, Apply, UnitRaises, Beat, Publish,
                  Outcome, AtLabels
    <3>2. UNCHANGED <<ck, saved>>
      BY <2>1 DEF EnterPlanning, PlanPolicy, CheckCancel, Apply, UnitRaises, Beat, Publish
    <3>3. QED
      BY <1>2, <3>1, <3>2
  <2>2. CASE SavePlan(w)
    BY <1>5, <2>2, NewCheckpointType DEF SavePlan
  <2>3. CASE SaveUnit(w)
    BY <1>5, <2>0, <2>3 DEF SaveUnit
  <2>4. CASE SavePhase(w)
    <3> DEFINE c == [ck[w] EXCEPT !.phase = NextStage(ck[w].phase), !.index = 0]
    <3>1. Working(w) /\ ck[w].phase \in Looped
      BY <2>4 DEF SavePhase, Running, Working, WorkInv, AtInv
    <3>2. NextStage(ck[w].phase) \in StageNames
      BY <3>1, NextStageFacts DEF Looped, Recorded, StageNames
    <3>3. c \in Checkpoints
      BY <2>0, <3>2 DEF Checkpoints
    <3>4. QED
      BY <1>5, <2>4, <3>3 DEF SavePhase
  <2>5. CASE FinishCancel(w)
    BY <1>1, <2>5 DEF FinishCancel, pipelineVars
  <2>6. CASE Unit(w)
    <3>1. Working(w) /\ at[w] = "unit" /\ Job(w) \in Jobs
      BY <1>0, <2>6 DEF Unit, Running, Working
    <3>2. \E l \in AtLabels : Goto(w, l)
      BY <2>6 DEF Unit, AtLabels
    <3>3. saved' = saved
      BY <2>6 DEF Unit
    <3>4. ck' \in [Workers -> Checkpoints]
      <4>1. CASE ck' = ck
        BY <4>1
      <4>2. CASE Discover(w)
        <5> DEFINE found == Results[Job(w)][ck[w].index + 1]
        <5>1. ck[w].index + 1 \in 1 .. Len(Results[Job(w)])
          <6>1. ck[w].index < Units(Job(w), ck[w]) /\ ck[w].phase = "DISCOVERING"
            BY <3>1, <4>2 DEF Discover, WorkInv, AtInv
          <6>2. Results[Job(w)] \in Seq(Seq(Companies)) /\ ck[w].index \in Nat
            BY <3>1, <2>0 DEF Checkpoints
          <6>3. Len(Results[Job(w)]) \in Nat
            BY <6>2, LenProperties
          <6>4. QED
            BY <6>1, <6>2, <6>3 DEF Units
        <5>2. found \in Seq(Companies)
          BY <3>1, <5>1, ElementOfSeq
        <5>3. PICK s \in Listings(found, {c \in Range(found) \ raw[Job(w)] : visited[c] = NoJob}) :
                ck' = [ck EXCEPT ![w].companies = @ \o s]
          BY <4>2 DEF Discover
        <5>4. s \in Seq(Companies)
          BY <5>2, <5>3, ListingType
        <5>5. ck[w].companies \o s \in Seq(Companies)
          BY <2>0, <5>4, ConcatProperties DEF Checkpoints
        <5>6. QED
          BY <2>0, <5>3, <5>5 DEF Checkpoints
      <4>3. QED
        BY <2>6, <4>1, <4>2 DEF Unit, SearchFails, Record
    <3>5. QED
      BY <3>2, <3>3, <3>4 DEF Goto
  <2>7. CASE QualifyOne(w) \/ QualifyRejects(w)
    <3>1. Job(w) \in Jobs
      BY <1>0, <2>7 DEF QualifyOne, QualifyRejects, Running, Working
    <3>2. Goto(w, Resume(Job(w), next)) /\ ck' = [ck EXCEPT ![w] = next] /\ saved' = saved
      BY <2>7 DEF QualifyOne, QualifyRejects
    <3>3. QED
      BY <1>4, <2>0, <3>1, <3>2
  <2>8. CASE Return(w) \/ Lost(w)
    BY <1>3, <2>8 DEF Return, Lost
  <2>9. QED
    BY <1>6, <2>1, <2>2, <2>3, <2>4, <2>5, <2>6, <2>7, <2>8 DEF HandlerStep
<1>7. ASSUME NEW w \in Workers, Claim(w)
      PROVE  PlacesOK'
  BY <1>4, <1>7 DEF Claim
<1>8. ASSUME NEW w \in Workers, WorkerCrash(w)
      PROVE  PlacesOK'
  BY <1>3, <1>8 DEF WorkerCrash
<1>9. CASE Runtime \/ (\E w \in Workers : Wake(w)) \/ UNCHANGED allVars
  BY <1>1, <1>9 DEF Runtime, Wake, allVars, pipelineVars
<1>10. QED
  BY <1>6, <1>7, <1>8, <1>9 DEF PipelineNext

\* The tables are well typed after every step.
TablesOK ==
  /\ raw \in [Jobs -> SUBSET Companies]
  /\ visited \in [Companies -> Jobs \union {NoJob}]
  /\ done \in [Jobs -> SUBSET (Recorded \X Companies)]
  /\ leads \in [Jobs -> [Companies -> Nat]]
  /\ decisions \in [Jobs -> SUBSET {"refused", "allowed"}]
  /\ campaign \in [Jobs -> {"DRAFT", "READY_FOR_REVIEW"}]
  /\ crashes \in 0 .. MaxCrashes

\* A unit of work runs for a job, on a query of its plan or a company of its list.
LEMMA UnitElements ==
  ASSUME RuntimeInv, PlacesOK, WorkInv, NEW w \in Workers, Unit(w)
  PROVE  /\ Job(w) \in Jobs
         /\ Discover(w) => Results[Job(w)][ck[w].index + 1] \in Seq(Companies)
         /\ Record(w) => /\ ck[w].index + 1 \in 1 .. Len(ck[w].companies)
                         /\ ck[w].companies[ck[w].index + 1] \in Companies
<1>1. Working(w) /\ at[w] = "unit"
  BY DEF Unit, Running, Working
<1>2. Job(w) \in Jobs /\ ck[w] \in Checkpoints /\ ck[w].index < Units(Job(w), ck[w])
  BY <1>1 DEF RuntimeInv, FenceInv, Job, PlacesOK, CheckpointsOK, WorkInv, AtInv
<1>3. ASSUME Discover(w)
      PROVE  Results[Job(w)][ck[w].index + 1] \in Seq(Companies)
  <2>1. Results[Job(w)] \in Seq(Seq(Companies)) /\ ck[w].index \in Nat
    BY <1>2 DEF Checkpoints
  <2>2. Len(Results[Job(w)]) \in Nat
    BY <2>1, LenProperties
  <2>3. ck[w].index + 1 \in 1 .. Len(Results[Job(w)])
    BY <1>2, <1>3, <2>1, <2>2 DEF Units, Discover
  <2>4. QED
    BY <2>1, <2>3, ElementOfSeq
<1>4. ASSUME Record(w)
      PROVE  /\ ck[w].index + 1 \in 1 .. Len(ck[w].companies)
             /\ ck[w].companies[ck[w].index + 1] \in Companies
  <2>1. ck[w].phase # "DISCOVERING"
    BY <1>4 DEF Record, Recorded
  <2>2. QED
    BY <1>2, <2>1, AtAnElement
<1>5. QED
  BY <1>2, <1>3, <1>4

\* So does a qualification.
LEMMA QualifyElements ==
  ASSUME RuntimeInv, PlacesOK, WorkInv, NEW w \in Workers, Running(w, "qualify")
  PROVE  /\ Job(w) \in Jobs
         /\ ck[w].phase = "QUALIFYING"
         /\ ck[w].index + 1 \in 1 .. Len(ck[w].companies)
         /\ ck[w].companies[ck[w].index + 1] \in Companies
<1>1. Working(w) /\ at[w] = "qualify"
  BY DEF Running, Working
<1>2. Job(w) \in Jobs /\ ck[w] \in Checkpoints /\ ck[w].phase = "QUALIFYING"
      /\ ck[w].index < Units(Job(w), ck[w])
  BY <1>1 DEF RuntimeInv, FenceInv, Job, PlacesOK, CheckpointsOK, WorkInv, AtInv, Units
<1>3. QED
  BY <1>2, AtAnElement

\* Every action but these leaves the business tables alone.
LEMMA BusinessSteps ==
  ASSUME [PipelineNext]_allVars,
         \A w \in Workers : ~PlanPolicy(w) /\ ~Unit(w) /\ ~QualifyOne(w) /\ ~Publish(w)
  PROVE  UNCHANGED Business
<1> USE DEF Business
<1>1. ASSUME NEW w \in Workers, HandlerStep(w)
      PROVE  UNCHANGED Business
  <2>1. CASE EnterPlanning(w) \/ SavePlan(w) \/ SaveUnit(w) \/ SavePhase(w) \/ QualifyRejects(w)
    BY <2>1 DEF EnterPlanning, SavePlan, SaveUnit, SavePhase, SaveAs, QualifyRejects
  <2>2. CASE CheckCancel(w) \/ Apply(w) \/ UnitRaises(w) \/ Beat(w) \/ Return(w) \/ Lost(w)
    BY <2>2 DEF CheckCancel, Apply, UnitRaises, Beat, Return, Lost
  <2>3. CASE FinishCancel(w)
    BY <2>3 DEF FinishCancel, pipelineVars
  <2>4. QED
    BY <1>1, <2>1, <2>2, <2>3 DEF HandlerStep
<1>2. QED
  BY <1>1 DEF PipelineNext, Runtime, Wake, Claim, WorkerCrash, pipelineVars, allVars

(* The tables of the pipeline keep their types.                              *)
LEMMA TablesStep ==
  ASSUME RuntimeInv, PlacesOK, WorkInv, TablesOK, [PipelineNext]_allVars
  PROVE  TablesOK'
<1>1. crashes' \in 0 .. MaxCrashes
  <2>1. crashes' = crashes \/ (crashes < MaxCrashes /\ crashes' = crashes + 1)
    BY DEF PipelineNext, HandlerStep, Runtime, Wake, Claim, WorkerCrash, pipelineVars, allVars,
           EnterPlanning, PlanPolicy, SavePlan, SaveUnit, SavePhase, SaveAs, CheckCancel, Apply,
           FinishCancel, Unit, UnitRaises, Beat, QualifyOne, QualifyRejects, Publish, Return, Lost
  <2>2. QED
    BY <2>1 DEF TablesOK
<1>2. ASSUME NEW w \in Workers, PlanPolicy(w)
      PROVE  TablesOK'
  <2>1. Job(w) \in Jobs
    BY <1>2 DEF PlanPolicy, Running, Working, RuntimeInv, FenceInv, Job
  <2>2. QED
    BY <1>1, <1>2, <2>1 DEF PlanPolicy, TablesOK
<1>3. ASSUME NEW w \in Workers, Unit(w)
      PROVE  TablesOK'
  <2>1. Job(w) \in Jobs
    BY <1>3, UnitElements
  <2>2. CASE Discover(w)
    <3>1. Range(Results[Job(w)][ck[w].index + 1]) \subseteq Companies
      BY <1>3, <2>2, UnitElements, RangeOfSeq, Zenon
    <3>2. raw' \in [Jobs -> SUBSET Companies] /\ visited' \in [Companies -> Jobs \union {NoJob}]
      BY <2>1, <2>2, <3>1 DEF Discover, TablesOK
    <3>3. QED
      BY <1>1, <1>3, <2>2, <3>2 DEF Discover, Unit, TablesOK
  <2>3. CASE Record(w)
    <3>1. done' \in [Jobs -> SUBSET (Recorded \X Companies)]
      <4> DEFINE c == ck[w].companies[ck[w].index + 1]
      <4>1. c \in Companies /\ ck[w].phase \in Recorded
        BY <1>3, <2>3, UnitElements DEF Record
      <4>2. done' = [done EXCEPT ![Job(w)] = @ \union {<<ck[w].phase, c>>}]
        BY <2>3 DEF Record
      <4> HIDE DEF c
      <4>3. QED
        BY <2>1, <4>1, <4>2 DEF TablesOK
    <3>2. QED
      BY <1>1, <1>3, <2>3, <3>1 DEF Record, Unit, TablesOK
  <2>4. CASE SearchFails(w)
    BY <1>1, <1>3, <2>4 DEF SearchFails, Unit, TablesOK
  <2>5. QED
    BY <1>3, <2>2, <2>3, <2>4 DEF Unit
<1>4. ASSUME NEW w \in Workers, QualifyOne(w)
      PROVE  TablesOK'
  <2> DEFINE c == ck[w].companies[ck[w].index + 1]
             n == IF c \in Unreached THEN leads[Job(w)][c] + 1 ELSE 1
  <2>1. Job(w) \in Jobs /\ c \in Companies
    BY <1>4, QualifyElements DEF QualifyOne
  <2>2. leads[Job(w)] \in [Companies -> Nat] /\ n \in Nat
    BY <2>1 DEF TablesOK
  <2>3. leads' = [leads EXCEPT ![Job(w)] = [@ EXCEPT ![c] = n]]
    BY <1>4 DEF QualifyOne
  <2>4. leads' \in [Jobs -> [Companies -> Nat]]
    <3> HIDE DEF c, n
    <3> QED
      BY <2>1, <2>2, <2>3 DEF TablesOK
  <2>5. QED
    BY <1>1, <1>4, <2>4 DEF QualifyOne, TablesOK
<1>5. ASSUME NEW w \in Workers, Publish(w)
      PROVE  TablesOK'
  BY <1>1, <1>5 DEF Publish, TablesOK
<1>6. CASE UNCHANGED Business
  BY <1>1, <1>6 DEF Business, TablesOK
<1>7. QED
  BY <1>2, <1>3, <1>4, <1>5, <1>6, BusinessSteps

-----------------------------------------------------------------------------
(* What only grows.                                                         *)

\* Policy decisions, records, qualified companies and cancellation requests are
\* never taken back.
Grow ==
  /\ \A j \in Jobs : cancelRequested[j] => cancelRequested'[j]
  /\ \A j \in Jobs : decisions[j] \subseteq decisions'[j] /\ done[j] \subseteq done'[j]
  /\ \A j \in Jobs, c \in Companies : leads[j][c] > 0 => leads'[j][c] > 0

(* A request to cancel is not taken back.                                    *)
LEMMA CancelKept ==
  ASSUME TypeOK, [Next]_vars, NEW j \in Jobs, cancelRequested[j]
  PROVE  cancelRequested'[j]
<1>1. ASSUME NEW i \in Jobs, CreateJob(i) \/ RequestCancel(i) \/ Elapse(i)
      PROVE  cancelRequested'[j]
  BY <1>1 DEF CreateJob, RequestCancel, Elapse, TypeOK
<1>2. ASSUME NEW w \in Workers, WorkerStep(w)
      PROVE  cancelRequested' = cancelRequested
  BY <1>2 DEF WorkerStep, HandlerEnds, ReclaimRead, ReclaimWrite, WakeParked,
              ClaimNext, ClaimNothing, Heartbeat, SetPhase, SaveCheckpoint, Park, Complete, Fail,
              LeaseLost, ApplyCancellation, FinishCancelled, Crash, Restart, jobVars
<1>3. QED
  BY <1>1, <1>2 DEF Next, vars, jobVars

(* What the evidence of a checkpoint rests on is never removed.              *)
LEMMA GrowStep ==
  ASSUME RuntimeInv, PlacesOK, WorkInv, TablesOK, [PipelineNext]_allVars
  PROVE  Grow
<1>1. \A j \in Jobs : cancelRequested[j] => cancelRequested'[j]
  BY CancelKept, PipelineStepIsRuntimeStep DEF RuntimeInv
<1>2. CASE UNCHANGED Business
  BY <1>1, <1>2 DEF Business, Grow
<1>3. ASSUME NEW w \in Workers, PlanPolicy(w)
      PROVE  Grow
  BY <1>1, <1>3 DEF PlanPolicy, Grow, TablesOK
<1>4. ASSUME NEW w \in Workers, Unit(w)
      PROVE  Grow
  <2>1. UNCHANGED <<leads, decisions>>
    BY <1>4 DEF Unit
  <2>2. done' = done \/ \E S : done' = [done EXCEPT ![Job(w)] = @ \union S]
    BY <1>4 DEF Unit, Discover, SearchFails, Record
  <2>3. \A j \in Jobs : done[j] \subseteq done'[j]
    <3>1. ASSUME NEW S, NEW i, done' = [done EXCEPT ![i] = @ \union S], NEW j \in Jobs
          PROVE  done[j] \subseteq done'[j]
      BY <3>1 DEF TablesOK
    <3>2. QED
      BY <2>2, <3>1
  <2>4. QED
    BY <1>1, <2>1, <2>3 DEF Grow
<1>5. ASSUME NEW w \in Workers, QualifyOne(w)
      PROVE  Grow
  <2> DEFINE c == ck[w].companies[ck[w].index + 1]
             n == IF c \in Unreached THEN leads[Job(w)][c] + 1 ELSE 1
  <2>1. Job(w) \in Jobs /\ c \in Companies
    BY <1>5, QualifyElements DEF QualifyOne
  <2>2. leads[Job(w)][c] \in Nat /\ n \in Nat /\ n > 0
    BY <2>1 DEF TablesOK
  <2>3. leads' = [leads EXCEPT ![Job(w)] = [@ EXCEPT ![c] = n]] /\ UNCHANGED <<decisions, done>>
    BY <1>5 DEF QualifyOne
  <2> HIDE DEF c, n
  <2>4. QED
    BY <1>1, <2>1, <2>2, <2>3 DEF Grow, TablesOK
<1>6. ASSUME NEW w \in Workers, Publish(w)
      PROVE  Grow
  BY <1>1, <1>6 DEF Publish, Grow
<1>7. QED
  BY <1>2, <1>3, <1>4, <1>5, <1>6, BusinessSteps

\* So the evidence for a checkpoint stays.
LEMMA EvidenceKept ==
  ASSUME NEW j \in Jobs, NEW c \in Checkpoints, Evidence(j, c), Grow
  PROVE  Evidence(j, c)'
<1>1. decisions[j] \subseteq decisions'[j] /\ done[j] \subseteq done'[j]
  BY DEF Grow
<1>2. \A i \in 1 .. Len(c.companies) : c.companies[i] \in Companies
  BY ElementOfSeq DEF Checkpoints
<1>3. \A i \in 1 .. Len(c.companies) :
        Qualified(j, c.companies[i]) => Qualified(j, c.companies[i])'
  BY <1>2 DEF Grow, Qualified
<1>4. QED
  BY <1>1, <1>3 DEF Evidence

-----------------------------------------------------------------------------
(* Checkpoints are written by the owner of the lease, and never once the    *)
(* last stage is saved.                                                     *)

Saves(w) == SavePlan(w) \/ SaveUnit(w) \/ SavePhase(w)

(* A worker that saves passes the fence of its job.                          *)
LEMMA SavesAreFenced ==
  ASSUME RuntimeInv, PlacesOK, WorkInv, NEW w \in Workers, Saves(w)
  PROVE  /\ Working(w) /\ Fenced(w) /\ Job(w) \in Jobs
         /\ Working(w)' /\ Job(w)' = Job(w)
         /\ saved' = [saved EXCEPT ![Job(w)] = ck'[w]]
         /\ saved[Job(w)].phase # "QUALIFYING"
         /\ state[Job(w)] # "READY_FOR_REVIEW"
<1>1. PICK c, s : SaveAs(w, c, s)
  BY DEF Saves, SavePlan, SaveUnit, SavePhase
<1>2. Working(w) /\ Fenced(w)
  BY <1>1 DEF SaveAs, SaveCheckpoint, Working
<1>3. Job(w) \in Jobs /\ state[Job(w)] \in ActiveStates
  BY <1>2, OwnerIsActive DEF RuntimeInv, Job
<1>4. Working(w)' /\ Job(w)' = Job(w)
  BY <1>1, <1>2 DEF SaveAs, SaveCheckpoint, Working, Job, RuntimeInv, TypeOK
<1>5. AtInv(w) /\ RowInv(w) /\ at[w] \in {"saveplan", "save", "nextphase"}
  BY <1>2 DEF WorkInv, Saves, SavePlan, SaveUnit, SavePhase, Running
<1>6. ck[w].phase # "QUALIFYING"
  BY <1>5 DEF AtInv, Looped, Recorded
<1>7. saved[Job(w)].phase # "QUALIFYING"
  BY <1>2, <1>5, <1>6 DEF RowInv
<1>8. saved' = [saved EXCEPT ![Job(w)] = ck'[w]]
  BY <1>1 DEF SaveAs, PlacesOK, CheckpointsOK
<1>9. state[Job(w)] # "READY_FOR_REVIEW"
  BY <1>3 DEF ActiveStates
<1>10. QED
  BY <1>2, <1>3, <1>4, <1>7, <1>9, <1>8

\* No other action writes one.
LEMMA SavedChanges ==
  ASSUME [PipelineNext]_allVars, saved' # saved
  PROVE  \E w \in Workers : Saves(w)
<1>1. ASSUME NEW w \in Workers, HandlerStep(w), ~Saves(w)
      PROVE  saved' = saved
  BY <1>1 DEF HandlerStep, Saves, EnterPlanning, PlanPolicy, CheckCancel, Apply, FinishCancel,
              pipelineVars, Unit, UnitRaises, Beat, QualifyOne, QualifyRejects, Publish, Return, Lost
<1>2. QED
  BY <1>1 DEF PipelineNext, Runtime, Wake, Claim, WorkerCrash, pipelineVars, allVars

\* A worker's handler is where it was before another worker's step.
LEMMA OthersStandStill ==
  ASSUME PlacesOK, NEW w \in Workers, Claim(w) \/ HandlerStep(w) \/ WorkerCrash(w),
         NEW v \in Workers, v # w
  PROVE  at'[v] = at[v] /\ ck'[v] = ck[v]
<1> USE DEF PlacesOK, CheckpointsOK, Goto, Stop
<1>1. CASE Claim(w) \/ WorkerCrash(w)
  BY <1>1 DEF Claim, WorkerCrash
<1>2. CASE \/ EnterPlanning(w) \/ PlanPolicy(w) \/ CheckCancel(w) \/ Apply(w) \/ UnitRaises(w)
           \/ Beat(w) \/ Publish(w)
  BY <1>2 DEF EnterPlanning, PlanPolicy, CheckCancel, Apply, UnitRaises, Beat, Publish
<1>3. CASE SavePlan(w) \/ SaveUnit(w) \/ SavePhase(w)
  BY <1>3 DEF SavePlan, SaveUnit, SavePhase, SaveAs
<1>4. CASE FinishCancel(w)
  BY <1>4 DEF FinishCancel, pipelineVars
<1>5. CASE Unit(w)
  <2>1. at'[v] = at[v]
    BY <1>5 DEF Unit
  <2>2. CASE Discover(w)
    BY <2>1, <2>2 DEF Discover
  <2>3. CASE SearchFails(w) \/ Record(w)
    BY <2>1, <2>3 DEF SearchFails, Record
  <2>4. QED
    BY <1>5, <2>2, <2>3 DEF Unit
<1>6. CASE QualifyOne(w) \/ QualifyRejects(w)
  BY <1>6 DEF QualifyOne, QualifyRejects
<1>7. CASE Return(w) \/ Lost(w)
  BY <1>7 DEF Return, Lost
<1>8. QED
  BY <1>1, <1>2, <1>3, <1>4, <1>5, <1>6, <1>7 DEF HandlerStep

-----------------------------------------------------------------------------
(* The handlers keep the invariant.                                         *)

HandlerInv(w) == Evidence(Job(w), ck[w]) /\ AtInv(w) /\ RowInv(w)

\* The steps of everyone else keep it for a handler that stands still.
LEMMA StandingStill ==
  ASSUME RuntimeInv, PlacesOK, WorkInv, [PipelineNext]_allVars, Grow,
         NEW v \in Workers, Working(v)', \A j \in Jobs : ~ClaimNext(v, j), ~Saves(v),
         at'[v] = at[v], ck'[v] = ck[v]
  PROVE  HandlerInv(v)'
<1>0. [Next]_vars
  BY PipelineStepIsRuntimeStep
<1>1. /\ Working(v) /\ Job(v)' = Job(v)
      /\ Fenced(v)' => Fenced(v)
      /\ Fenced(v)' /\ pc'[v] = "handle" => pc[v] = "handle"
  BY <1>0, StillOwner, StillHandles DEF RuntimeInv
<1>2. Job(v) \in Jobs /\ ck[v] \in Checkpoints
  BY <1>1 DEF RuntimeInv, FenceInv, Job, PlacesOK, CheckpointsOK
<1>3. Evidence(Job(v), ck[v]) /\ AtInv(v) /\ RowInv(v)
  BY <1>1 DEF WorkInv
<1>4. Evidence(Job(v), ck[v])'
  <2>1. \A j \in Jobs, c \in Checkpoints : Evidence(j, c) => Evidence(j, c)'
    BY EvidenceKept
  <2>2. QED
    BY <1>1, <1>2, <1>3, <2>1 DEF Evidence, Qualified
<1>5. AtInv(v)'
  <2>1. decisions[Job(v)] \subseteq decisions'[Job(v)] /\ done[Job(v)] \subseteq done'[Job(v)]
        /\ (cancelRequested[Job(v)] => cancelRequested'[Job(v)])
    BY <1>2 DEF Grow
  <2>2. Units(Job(v), ck[v])' = Units(Job(v), ck[v])
    BY <1>1 DEF Units
  <2>3. QED
    BY <1>1, <1>3, <2>1, <2>2 DEF AtInv, Through
<1>6. saved'[Job(v)] = saved[Job(v)] \/
        (saved[Job(v)].phase # "QUALIFYING" /\ ~Fenced(v))
  <2> SUFFICES ASSUME saved'[Job(v)] # saved[Job(v)]
               PROVE  saved[Job(v)].phase # "QUALIFYING" /\ ~Fenced(v)
    OBVIOUS
  <2>1. PICK w \in Workers : Saves(w)
    BY SavedChanges
  <2>2. Working(w) /\ Fenced(w) /\ Job(w) = Job(v) /\ saved[Job(w)].phase # "QUALIFYING"
    BY <1>2, <2>1, SavesAreFenced DEF PlacesOK, CheckpointsOK
  <2>3. w # v
    BY <2>1
  <2>4. ~Fenced(v)
    BY <1>1, <2>2, <2>3 DEF RuntimeInv, FenceInv, Fenced, Job
  <2>5. QED
    BY <2>2, <2>4
<1>7. RowInv(v)'
  BY <1>1, <1>3, <1>6 DEF RowInv, Through
<1>8. QED
  BY <1>4, <1>5, <1>7 DEF HandlerInv

\* A handler that goes on from a checkpoint with evidence is well placed.
LEMMA WellResumed ==
  ASSUME NEW w \in Workers, NEW j \in Jobs, NEW c \in Checkpoints,
         Job(w)' = j, ck'[w] = c, at'[w] = Resume(j, c), Evidence(j, c)',
         saved'[j].phase = c.phase,
         c.phase = "QUALIFYING" => saved'[j].companies = c.companies
  PROVE  HandlerInv(w)'
<1>1. Evidence(Job(w), ck[w])'
  BY DEF Evidence, Qualified
<1>2. AtInv(w)'
  <2>1. Units(Job(w), ck[w])' = Units(j, c)
    BY DEF Units
  <2>2. QED
    BY <2>1, ResumeCases DEF AtInv, Through, Looped, Recorded
<1>3. RowInv(w)'
  BY ResumeCases DEF RowInv, Through
<1>4. QED
  BY <1>1, <1>2, <1>3 DEF HandlerInv

(* A claim resumes from a checkpoint whose evidence is there.                *)
LEMMA ClaimKeeps ==
  ASSUME RuntimeInv, PlacesOK, SavedInv, Grow, NEW w \in Workers, Claim(w)
  PROVE  HandlerInv(w)'
<1>1. PICK j \in Jobs : /\ ClaimNext(w, j)
                        /\ ck' = [ck EXCEPT ![w] = saved[j]]
                        /\ Goto(w, Resume(j, saved[j]))
                        /\ saved' = saved
  BY DEF Claim
<1>2. saved[j] \in Checkpoints
  BY DEF PlacesOK, CheckpointsOK
<1>3. Job(w)' = j
  BY <1>1 DEF ClaimNext, Job, RuntimeInv, TypeOK
<1>4. ck'[w] = saved[j] /\ at'[w] = Resume(j, saved[j])
  BY <1>1 DEF Goto, PlacesOK, CheckpointsOK
<1>5. \A c \in Checkpoints : Evidence(j, c) => Evidence(j, c)'
  BY EvidenceKept
<1>6. Evidence(j, saved[j])
  BY DEF SavedInv
<1> DEFINE c == saved[j]
<1>7. \A d \in Checkpoints : d = c => HandlerInv(w)'
  <2> SUFFICES ASSUME NEW d \in Checkpoints, d = c PROVE HandlerInv(w)'
    OBVIOUS
  <2>1. Evidence(j, d)'
    BY <1>5, <1>6 DEF Evidence, Qualified
  <2>2. QED
    BY <1>1, <1>3, <1>4, <2>1, WellResumed
<1>8. QED
  BY <1>2, <1>7

\* What a stage's loop leaves behind is what the next checkpoint needs.
LEMMA SavedEvidence ==
  ASSUME RuntimeInv, PlacesOK, WorkInv, NEW w \in Workers, NEW c \in Checkpoints,
         \/ SavePlan(w) /\ c = [NewCheckpoint EXCEPT !.phase = "DISCOVERING"]
         \/ SaveUnit(w) /\ c = [ck[w] EXCEPT !.index = @ + 1]
         \/ SavePhase(w) /\ c = [ck[w] EXCEPT !.phase = NextStage(@), !.index = 0]
  PROVE  Evidence(Job(w), c)
<1> DEFINE j == Job(w)
<1>1. Saves(w) /\ Working(w) /\ j \in Jobs
  BY SavesAreFenced DEF Saves
<1>2. Evidence(j, ck[w]) /\ AtInv(w) /\ ck[w] \in Checkpoints
  BY <1>1 DEF WorkInv, PlacesOK, CheckpointsOK
<1>3. ck[w].index \in Nat /\ Len(ck[w].companies) \in Nat
  BY <1>2, LenProperties DEF Checkpoints
<1> USE StageFacts DEF Recorded
<1>4. CASE SavePlan(w) /\ c = [NewCheckpoint EXCEPT !.phase = "DISCOVERING"]
  <2>1. "allowed" \in decisions[j] /\ c.phase = "DISCOVERING"
    BY <1>2, <1>4 DEF SavePlan, Running, AtInv, NewCheckpoint
  <2>2. QED
    BY <2>1 DEF Evidence
<1>5. CASE SaveUnit(w) /\ c = [ck[w] EXCEPT !.index = @ + 1]
  <2>1. /\ c.phase = ck[w].phase /\ c.companies = ck[w].companies /\ c.index = ck[w].index + 1
        /\ ck[w].phase \in Looped /\ ck[w].index < Units(j, ck[w])
    BY <1>2, <1>5 DEF SaveUnit, Running, AtInv, Checkpoints
  <2>2. CASE c.phase = "DISCOVERING"
    BY <1>2, <2>1, <2>2 DEF Evidence
  <2>3. CASE c.phase \in Recorded
    <3>1. <<c.phase, c.companies[c.index]>> \in done[j]
      <4>1. at[w] = "save" /\ AtInv(w)
        BY <1>2, <1>5 DEF SaveUnit, Running
      <4>2. <<ck[w].phase, ck[w].companies[ck[w].index + 1]>> \in done[j]
        BY <2>1, <2>3, <4>1 DEF AtInv
      <4>3. QED  BY <2>1, <4>2
    <3>2. \A i \in 1 .. Len(c.companies) : i <= c.index => i <= ck[w].index \/ i = c.index
      <4>1. \A i \in Int : i <= ck[w].index + 1 => i <= ck[w].index \/ i = ck[w].index + 1
        BY <1>3
      <4>2. QED  BY <2>1, <4>1
    <3>3. QED
      BY <1>2, <2>1, <2>3, <3>1, <3>2 DEF Evidence
  <2>4. QED
    BY <2>1, <2>2, <2>3 DEF Looped
<1>6. CASE SavePhase(w) /\ c = [ck[w] EXCEPT !.phase = NextStage(@), !.index = 0]
  <2>1. /\ c.phase = NextStage(ck[w].phase) /\ c.companies = ck[w].companies /\ c.index = 0
        /\ ck[w].phase \in Looped /\ ck[w].index >= Units(j, ck[w])
    BY <1>2, <1>6 DEF SavePhase, Running, AtInv, Checkpoints
  <2>2. "allowed" \in decisions[j]
    BY <1>2, <2>1 DEF Evidence, Looped
  <2>3. CASE ck[w].phase = "DISCOVERING"
    BY <1>3, <2>1, <2>2, <2>3, NextStageFacts DEF Evidence
  <2>4. CASE ck[w].phase \in Recorded
    <3>1. \A i \in 1 .. Len(c.companies) : <<ck[w].phase, c.companies[i]>> \in done[j]
      BY <1>2, <1>3, <2>1, <2>4 DEF Evidence, Units
    <3>2. \A p \in Recorded : Rank(c.phase) > Rank(p) => Rank(ck[w].phase) > Rank(p) \/ p = ck[w].phase
      BY <2>1, <2>4, NextStageFacts
    <3>3. \A i \in 1 .. Len(c.companies) : ~(i <= c.index)
      BY <1>3, <2>1
    <3>4. QED
      BY <1>2, <2>1, <2>2, <3>1, <3>2, <3>3 DEF Evidence
  <2>5. QED
    BY <2>1, <2>3, <2>4 DEF Looped
<1>7. QED
  BY <1>4, <1>5, <1>6

(* What is saved has its evidence there.                                     *)
LEMMA SaveKeeps ==
  ASSUME RuntimeInv, PlacesOK, PlacesOK', WorkInv, Grow, NEW w \in Workers, Saves(w)
  PROVE  HandlerInv(w)'
<1> DEFINE j == Job(w)
<1>1. Working(w) /\ j \in Jobs /\ Job(w)' = j /\ saved' = [saved EXCEPT ![j] = ck'[w]]
  BY SavesAreFenced
<1>2. ck'[w] \in Checkpoints
  BY DEF PlacesOK, CheckpointsOK
<1>3. PICK c : /\ ck' = [ck EXCEPT ![w] = c]
               /\ Goto(w, Resume(j, c))
               /\ \/ SavePlan(w) /\ c = [NewCheckpoint EXCEPT !.phase = "DISCOVERING"]
                  \/ SaveUnit(w) /\ c = [ck[w] EXCEPT !.index = @ + 1]
                  \/ SavePhase(w) /\ c = [ck[w] EXCEPT !.phase = NextStage(@), !.index = 0]
  <2>1. CASE SavePlan(w)
    BY <2>1 DEF SavePlan, SaveAs
  <2>2. CASE SaveUnit(w)
    BY <2>2 DEF SaveUnit, SaveAs
  <2>3. CASE SavePhase(w)
    BY <2>3 DEF SavePhase, SaveAs
  <2>4. QED
    BY <2>1, <2>2, <2>3 DEF Saves
<1>4. ck'[w] = c /\ at'[w] = Resume(j, c) /\ c \in Checkpoints
  BY <1>2, <1>3 DEF PlacesOK, CheckpointsOK, Goto
<1>5. Evidence(j, c)
  BY <1>3, <1>4, SavedEvidence
<1>6. saved'[j] = c
  BY <1>1, <1>4 DEF PlacesOK, CheckpointsOK
<1>7. \A i \in Jobs, d \in Checkpoints : i = j /\ d = c => HandlerInv(w)'
  <2> SUFFICES ASSUME NEW i \in Jobs, NEW d \in Checkpoints, i = j, d = c PROVE HandlerInv(w)'
    OBVIOUS
  <2>1. Evidence(i, d)
    BY <1>5
  <2>2. Evidence(i, d)'
    BY <2>1, EvidenceKept
  <2>3. QED
    BY <1>1, <1>4, <1>6, <2>2, WellResumed
<1>8. QED
  BY <1>1, <1>4, <1>7

\* Qualifying one company, or turning it down, is one step of the last stage.
LEMMA QualifyKeeps ==
  ASSUME RuntimeInv, PlacesOK, WorkInv, TablesOK, Grow, NEW w \in Workers,
         QualifyOne(w) \/ QualifyRejects(w)
  PROVE  HandlerInv(w)'
<1> DEFINE j == Job(w)
           x == ck[w].companies[ck[w].index + 1]
           c == [ck[w] EXCEPT !.index = @ + 1]
<1>1. Running(w, "qualify") /\ UNCHANGED <<vars, saved>> /\ ck' = [ck EXCEPT ![w] = c]
      /\ Goto(w, Resume(j, c))
  BY DEF QualifyOne, QualifyRejects
<1>2. /\ Working(w) /\ j \in Jobs /\ Job(w)' = j /\ x \in Companies
      /\ ck[w].phase = "QUALIFYING" /\ ck[w].index + 1 \in 1 .. Len(ck[w].companies)
  BY <1>1, QualifyElements DEF Running, Working, Job, vars
<1>3. HandlerInv(w) /\ ck[w] \in Checkpoints
  BY <1>2 DEF WorkInv, HandlerInv, PlacesOK, CheckpointsOK
<1>4. ck[w].index \in Nat /\ Len(ck[w].companies) \in Nat
  BY <1>3, LenProperties DEF Checkpoints
<1>5. c \in Checkpoints /\ c.phase = ck[w].phase /\ c.companies = ck[w].companies
      /\ c.index = ck[w].index + 1
  BY <1>3, <1>4 DEF Checkpoints
<1>6. ASSUME NEW i \in Jobs, NEW y \in Companies, i = j, y = x
      PROVE  Qualified(i, y)'
  <2>1. CASE QualifyRejects(w)
    BY <1>6, <2>1 DEF QualifyRejects, Qualified
  <2>2. CASE QualifyOne(w)
    <3> DEFINE n == IF y \in Unreached THEN leads[i][y] + 1 ELSE 1
    <3>1. leads' = [leads EXCEPT ![i] = [@ EXCEPT ![y] = n]]
      BY <1>6, <2>2 DEF QualifyOne
    <3>2. leads[i] \in [Companies -> Nat]
      BY DEF TablesOK
    <3>3. n \in Nat /\ n > 0
      BY <3>2
    <3>4. leads'[i][y] = n
      <4> HIDE DEF n
      <4> QED
        BY <3>1, <3>2 DEF TablesOK
    <3>5. QED
      BY <3>3, <3>4 DEF Qualified
  <2>3. QED
    BY <2>1, <2>2
<1>7. \A i \in Jobs, d \in Checkpoints : i = j /\ d = c => HandlerInv(w)'
  <2> SUFFICES ASSUME NEW i \in Jobs, NEW d \in Checkpoints, i = j, d = c PROVE HandlerInv(w)'
    OBVIOUS
  <2>1. Evidence(i, ck[w]) /\ ck[w].phase = "QUALIFYING"
    BY <1>2, <1>3 DEF HandlerInv
  <2>2. \A e \in Checkpoints : Evidence(i, e) => Evidence(i, e)'
    BY EvidenceKept
  <2>3. \A k \in 1 .. Len(d.companies) : k <= d.index => Qualified(i, d.companies[k])'
    <3> SUFFICES ASSUME NEW k \in 1 .. Len(d.companies), k <= d.index
                 PROVE  Qualified(i, d.companies[k])'
      OBVIOUS
    <3>1. CASE k = d.index
      BY <1>2, <1>5, <1>6, <3>1
    <3>2. CASE k # d.index
      <4>1. k <= ck[w].index /\ k \in 1 .. Len(ck[w].companies)
        BY <1>4, <1>5, <3>2
      <4>2. \A e \in Checkpoints : e = ck[w] => Qualified(i, e.companies[k])'
        BY <2>1, <2>2, <4>1 DEF Evidence
      <4>3. QED
        BY <1>3, <1>5, <4>2 DEF Qualified
    <3>3. QED
      BY <3>1, <3>2
  <2>4. Evidence(i, d)'
    <3>1. \A e \in Checkpoints : e = ck[w] => Evidence(i, e)'
      BY <2>1, <2>2
    <3>2. QED
      BY <1>3, <1>5, <2>1, <2>3, <3>1 DEF Evidence, Recorded
  <2>5. ck'[w] = d /\ at'[w] = Resume(i, d)
    BY <1>1 DEF PlacesOK, CheckpointsOK, Goto
  <2>6. saved'[i].phase = d.phase /\ saved'[i].companies = d.companies
    BY <1>1, <1>2, <1>3, <1>5 DEF HandlerInv, RowInv
  <2>7. QED
    BY <1>2, <2>4, <2>5, <2>6, WellResumed
<1>8. QED
  BY <1>2, <1>5, <1>7

\* The actions that move a handler on without touching its checkpoint.
MovesOn(w) ==
  \/ EnterPlanning(w) \/ PlanPolicy(w) \/ CheckCancel(w) \/ Apply(w)
  \/ UnitRaises(w) \/ Beat(w) \/ Publish(w)

(* A worker that moves on keeps its job, and no job is claimed or saved.     *)
LEMMA MoveOnFrame ==
  ASSUME RuntimeInv, NEW w \in Workers, MovesOn(w) \/ Unit(w)
  PROVE  /\ Working(w) /\ pc[w] = "handle" /\ Job(w) \in Jobs
         /\ \A j \in Jobs : ~ClaimNext(w, j)
         /\ saved' = saved
         /\ MovesOn(w) => ck' = ck
<1>1. pc[w] = "handle"
  BY DEF MovesOn, EnterPlanning, PlanPolicy, CheckCancel, Apply, UnitRaises, Beat, Publish, Unit,
         Running
<1>2. saved' = saved /\ (MovesOn(w) => ck' = ck)
  BY DEF MovesOn, EnterPlanning, PlanPolicy, CheckCancel, Apply, UnitRaises, Beat, Publish, Unit
<1>3. Working(w) /\ Job(w) \in Jobs
  BY <1>1 DEF Working, RuntimeInv, FenceInv, Job
<1>4. QED
  BY <1>1, <1>2, <1>3 DEF ClaimNext

(* A worker that moves on has earned the label it goes to.                   *)
LEMMA MoveOnAt ==
  ASSUME RuntimeInv, PlacesOK, TablesOK, Grow, NEW w \in Workers, HandlerInv(w), MovesOn(w),
         Job(w)' = Job(w)
  PROVE  AtInv(w)'
<1>1. Job(w) \in Jobs /\ ck' = ck
  BY MoveOnFrame
<1>2. AtInv(w)
  BY DEF HandlerInv
<1>3. /\ Units(Job(w), ck[w])' = Units(Job(w), ck[w])
      /\ decisions[Job(w)] \subseteq decisions'[Job(w)] /\ done[Job(w)] \subseteq done'[Job(w)]
      /\ cancelRequested[Job(w)] => cancelRequested'[Job(w)]
  BY <1>1 DEF Units, Grow
<1> USE DEF PlacesOK, AtInv, Goto, Running
<1>4. CASE EnterPlanning(w)
  <2>1. at[w] = "phase" /\ at'[w] = "policy"
    BY <1>4 DEF EnterPlanning
  <2>2. QED
    BY <1>1, <1>2, <2>1
<1>5. CASE PlanPolicy(w)
  <2>1. PICK d \in {"refused", "allowed"} :
          /\ decisions' = [decisions EXCEPT ![Job(w)] = @ \union {d}]
          /\ at'[w] = IF d = "refused" \/ Results[Job(w)] = <<>> THEN "raise" ELSE "saveplan"
          /\ at[w] = "policy"
    BY <1>5 DEF PlanPolicy
  <2>2. d \in decisions'[Job(w)]
    BY <1>1, <2>1 DEF TablesOK
  <2>3. at'[w] = "raise" \/ (at'[w] = "saveplan" /\ "allowed" \in decisions'[Job(w)])
    BY <2>1, <2>2
  <2>4. QED
    BY <1>1, <1>2, <2>1, <2>3
<1>6. CASE CheckCancel(w)
  <2>1. at[w] = "check" /\ (at'[w] = "unit" \/ (at'[w] = "apply" /\ cancelRequested[Job(w)]))
    BY <1>6 DEF CheckCancel
  <2>2. QED
    BY <1>1, <1>2, <1>3, <2>1
<1>7. CASE Apply(w)
  <2>1. at[w] = "apply" /\ at'[w] \in {"publish", "partial"}
    BY <1>7 DEF Apply, Outcome
  <2>2. QED
    BY <1>1, <1>2, <1>3, <2>1
<1>8. CASE UnitRaises(w)
  <2>1. at'[w] = "raise"
    BY <1>8 DEF UnitRaises
  <2>2. QED
    BY <2>1
<1>9. CASE Beat(w)
  <2>1. at[w] = "beat" /\ at'[w] = "save"
    BY <1>9 DEF Beat
  <2>2. QED
    BY <1>1, <1>2, <1>3, <2>1
<1>10. CASE Publish(w)
  <2>1. at[w] = "publish" /\ at'[w] = "ready"
    BY <1>10 DEF Publish
  <2>2. QED
    BY <1>1, <1>2, <1>3, <2>1 DEF Through
<1>11. QED
  BY <1>4, <1>5, <1>6, <1>7, <1>8, <1>9, <1>10 DEF MovesOn

\* The owner comes to the end through the last stage only: a cancellation it
\* asks about and cannot apply means that it is not the owner.
LEMMA OwnerEndsThrough ==
  ASSUME RuntimeInv, PlacesOK, NEW w \in Workers, HandlerInv(w), MovesOn(w),
         Fenced(w), pc'[w] = "handle", at'[w] \in {"publish", "ready"}
  PROVE  Through(ck[w])
<1>1. pc[w] = "handle" /\ Job(w) \in Jobs
  BY MoveOnFrame
<1>2. AtInv(w) /\ RowInv(w)
  BY DEF HandlerInv
<1> USE DEF PlacesOK, Goto, Running
<1>3. CASE Apply(w)
  <2>1. cancelRequested[Job(w)]
    BY <1>2, <1>3 DEF Apply, AtInv
  <2>2. ~ApplyCancellation(w)
    BY DEF ApplyCancellation, RuntimeInv, TypeOK
  <2>3. ~CancelApplies(w)
    BY <1>3, <2>2 DEF Apply
  <2>4. state[ctx[w].job] = "CANCELLING"
    BY <2>1, <2>3 DEF CancelApplies, Job
  <2>5. QED
    BY <1>1, <2>4 DEF RuntimeInv, NoOwnerCancels
<1>4. CASE Publish(w)
  BY <1>1, <1>2, <1>4 DEF Publish, RowInv
<1>5. CASE EnterPlanning(w) \/ PlanPolicy(w) \/ CheckCancel(w) \/ UnitRaises(w) \/ Beat(w)
  <2>1. at'[w] \in {"policy", "raise", "saveplan", "apply", "unit", "save"}
    BY <1>5 DEF EnterPlanning, PlanPolicy, CheckCancel, UnitRaises, Beat
  <2>2. QED
    BY <2>1
<1>6. QED
  BY <1>3, <1>4, <1>5 DEF MovesOn

(* A worker that moves on keeps the evidence of its checkpoint.              *)
LEMMA MoveOnKeeps ==
  ASSUME RuntimeInv, PlacesOK, WorkInv, TablesOK, Grow, [PipelineNext]_allVars,
         NEW w \in Workers, MovesOn(w), Working(w)'
  PROVE  HandlerInv(w)'
<1>1. Working(w) /\ Job(w) \in Jobs /\ saved' = saved /\ ck' = ck
  BY MoveOnFrame
<1>2. Job(w)' = Job(w) /\ (Fenced(w)' => Fenced(w))
  BY MoveOnFrame, PipelineStepIsRuntimeStep, StillOwner DEF RuntimeInv
<1>3. HandlerInv(w) /\ ck[w] \in Checkpoints
  BY <1>1 DEF WorkInv, HandlerInv, PlacesOK, CheckpointsOK
<1>4. Evidence(Job(w), ck[w])'
  <2>1. \A j \in Jobs, c \in Checkpoints : Evidence(j, c) => Evidence(j, c)'
    BY EvidenceKept
  <2>2. QED
    BY <1>1, <1>2, <1>3, <2>1 DEF Evidence, Qualified, HandlerInv
<1>5. AtInv(w)'
  BY <1>2, <1>3, MoveOnAt
<1>6. RowInv(w)'
  <2>1. Fenced(w)' /\ pc'[w] = "handle" /\ at'[w] \in {"publish", "ready"} => Through(ck[w])
    BY <1>2, <1>3, OwnerEndsThrough
  <2>2. QED
    BY <1>1, <1>2, <1>3, <2>1 DEF RowInv, HandlerInv, Through
<1>7. QED
  BY <1>4, <1>5, <1>6 DEF HandlerInv

\* A unit of work: the results of one query ingested, or one company recorded.
LEMMA UnitKeeps ==
  ASSUME RuntimeInv, PlacesOK, WorkInv, TablesOK, Grow, [PipelineNext]_allVars,
         NEW w \in Workers, Unit(w)
  PROVE  HandlerInv(w)'
<1> DEFINE j == Job(w)
<1>1. Working(w) /\ j \in Jobs /\ saved' = saved /\ UNCHANGED vars /\ decisions' = decisions
  BY MoveOnFrame DEF Unit
<1>2. Job(w)' = j /\ (Fenced(w)' <=> Fenced(w)) /\ pc' = pc
  BY <1>1 DEF Job, Fenced, vars, jobVars
<1>3. HandlerInv(w) /\ ck[w] \in Checkpoints /\ at[w] = "unit"
  BY <1>1 DEF WorkInv, HandlerInv, PlacesOK, CheckpointsOK, Unit, Running
<1>4. ck[w].phase \in Looped /\ ck[w].index < Units(j, ck[w])
  BY <1>3 DEF HandlerInv, AtInv
<1>5. at'[w] \in {"beat", "save"}
  BY DEF Unit, Goto, PlacesOK
<1>6. CASE ck[w].phase = "DISCOVERING"
  <2>1. ~Record(w)
    BY <1>6 DEF Record, Recorded
  <2>2. ck'[w].phase = "DISCOVERING" /\ ck'[w].index = ck[w].index
    <3>1. CASE SearchFails(w)
      BY <1>6, <3>1 DEF SearchFails
    <3>2. CASE Discover(w)
      BY <1>3, <1>6, <3>2 DEF Discover, PlacesOK, CheckpointsOK, Checkpoints
    <3>3. QED
      BY <2>1, <3>1, <3>2 DEF Unit
  <2>3. "allowed" \in decisions[j]
    BY <1>3, <1>6 DEF HandlerInv, Evidence
  <2>4. Evidence(Job(w), ck[w])'
    BY <1>1, <1>2, <2>2, <2>3, StageFacts DEF Evidence, Recorded
  <2>5. AtInv(w)'
    BY <1>2, <1>4, <1>5, <1>6, <2>2 DEF AtInv, Units, Looped, Recorded
  <2>6. RowInv(w)'
    BY <1>1, <1>2, <1>3, <1>5, <1>6, <2>2 DEF HandlerInv, RowInv
  <2>7. QED
    BY <2>4, <2>5, <2>6 DEF HandlerInv
<1>7. CASE ck[w].phase \in Recorded
  <2>1. Record(w) /\ ck' = ck
    BY <1>7 DEF Unit, Discover, SearchFails, Record, Recorded
  <2>2. Evidence(Job(w), ck[w])'
    <3>1. \A i \in Jobs, c \in Checkpoints : Evidence(i, c) => Evidence(i, c)'
      BY EvidenceKept
    <3>2. QED
      BY <1>1, <1>2, <1>3, <2>1, <3>1 DEF Evidence, Qualified, HandlerInv
  <2>3. <<ck[w].phase, ck[w].companies[ck[w].index + 1]>> \in done'[j]
    BY <1>1, <2>1 DEF Record, TablesOK
  <2>4. Units(Job(w), ck[w])' = Units(j, ck[w])
    BY <1>2, <2>1 DEF Units
  <2>5. AtInv(w)'
    BY <1>2, <1>4, <1>5, <2>1, <2>3, <2>4 DEF AtInv
  <2>6. RowInv(w)'
    BY <1>1, <1>2, <1>3, <1>5, <2>1 DEF HandlerInv, RowInv
  <2>7. QED
    BY <2>2, <2>5, <2>6 DEF HandlerInv
<1>8. QED
  BY <1>4, <1>6, <1>7 DEF Looped

\* The runtime's claim happens in the pipeline's only.
LEMMA OnlyClaimsClaim ==
  ASSUME TypeOK, [PipelineNext]_allVars, NEW v \in Workers, ~Claim(v)
  PROVE  \A j \in Jobs : ~ClaimNext(v, j)
<1> SUFFICES ASSUME NEW j \in Jobs, ClaimNext(v, j) PROVE FALSE
  OBVIOUS
<1>1. issued' # issued /\ pc[v] = "claim" /\ pc'[v] = "handle"
  BY DEF ClaimNext, TypeOK
<1>2. ASSUME NEW w \in Workers, Claim(w)
      PROVE  w = v
  <2>1. pc' = [pc EXCEPT ![w] = "handle"]
    BY <1>2 DEF Claim, ClaimNext
  <2>2. QED
    BY <1>1, <2>1 DEF TypeOK
<1>3. ASSUME NEW w \in Workers, HandlerStep(w)
      PROVE  issued' = issued
  <2>1. CASE EnterPlanning(w) \/ SavePlan(w) \/ SaveUnit(w) \/ SavePhase(w)
    BY <2>1 DEF EnterPlanning, SetPhase, SavePlan, SaveUnit, SavePhase, SaveAs, SaveCheckpoint
  <2>2. CASE Apply(w) \/ FinishCancel(w) \/ Beat(w)
    BY <2>2 DEF Apply, ApplyCancellation, FinishCancel, FinishCancelled, Beat, Heartbeat, vars
  <2>3. CASE Return(w) \/ Lost(w)
    BY <2>3 DEF Return, Complete, Fail, Lost, LeaseLost
  <2>4. CASE \/ PlanPolicy(w) \/ CheckCancel(w) \/ Unit(w) \/ UnitRaises(w) \/ QualifyOne(w)
             \/ QualifyRejects(w) \/ Publish(w)
    BY <2>4 DEF PlanPolicy, CheckCancel, Unit, UnitRaises, QualifyOne, QualifyRejects, Publish, vars
  <2>5. QED
    BY <1>3, <2>1, <2>2, <2>3, <2>4 DEF HandlerStep
<1>4. Runtime => issued' = issued
  BY DEF Runtime, Maintenance, CreateJob, RequestCancel, Elapse, ReclaimRead, ReclaimWrite,
         ClaimNothing, Restart
<1>5. \A w \in Workers : Wake(w) \/ WorkerCrash(w) => issued' = issued
  BY DEF Wake, WakeParked, WorkerCrash, Crash
<1>6. UNCHANGED allVars => issued' = issued
  BY DEF allVars, vars
<1>7. QED
  BY <1>1, <1>2, <1>3, <1>4, <1>5, <1>6 DEF PipelineNext

(* What the handlers hold keeps its evidence in every step.                  *)
LEMMA WorkStep ==
  ASSUME RuntimeInv, PlacesOK, PlacesOK', WorkInv, SavedInv, TablesOK, Grow, [PipelineNext]_allVars
  PROVE  WorkInv'
<1> SUFFICES ASSUME NEW v \in Workers, Working(v)' PROVE HandlerInv(v)'
  BY DEF WorkInv, HandlerInv
<1>1. CASE Claim(v)
  BY <1>1, ClaimKeeps
<1>2. CASE HandlerStep(v) /\ ~FinishCancel(v)
  <2>1. CASE Saves(v)
    BY <2>1, SaveKeeps
  <2>2. CASE QualifyOne(v) \/ QualifyRejects(v)
    BY <2>2, QualifyKeeps
  <2>3. CASE MovesOn(v)
    BY <2>3, MoveOnKeeps
  <2>4. CASE Unit(v)
    BY <2>4, UnitKeeps
  <2>5. ~Return(v) /\ ~Lost(v)
    BY DEF Return, Lost, Complete, Fail, LeaseLost, NextCycle, Working, RuntimeInv, TypeOK
  <2>6. QED
    BY <1>2, <2>1, <2>2, <2>3, <2>4, <2>5 DEF HandlerStep, Saves, MovesOn
<1>3. CASE ~Claim(v) /\ (~HandlerStep(v) \/ FinishCancel(v))
  <2>1. ~WorkerCrash(v)
    BY DEF WorkerCrash, Crash, Working, RuntimeInv, TypeOK
  <2>2. ~Saves(v)
    <3>1. HandlerStep(v) => FinishCancel(v)
      BY <1>3
    <3>2. FinishCancel(v) => pc[v] = "cancelling"
      BY DEF FinishCancel, FinishCancelled
    <3>3. Saves(v) => pc[v] = "handle" /\ HandlerStep(v)
      BY DEF Saves, HandlerStep, SavePlan, SaveUnit, SavePhase, Running
    <3>4. QED
      BY <3>1, <3>2, <3>3
  <2>3. at'[v] = at[v] /\ ck'[v] = ck[v]
    <3>1. CASE FinishCancel(v)
      BY <3>1 DEF FinishCancel, pipelineVars
    <3>2. CASE Runtime \/ (\E w \in Workers : Wake(w)) \/ UNCHANGED allVars
      BY <3>2 DEF Runtime, Wake, allVars, pipelineVars
    <3>3. CASE \E w \in Workers \ {v} : Claim(w) \/ HandlerStep(w) \/ WorkerCrash(w)
      BY <3>3, OthersStandStill
    <3>4. QED
      BY <1>3, <2>1, <3>1, <3>2, <3>3 DEF PipelineNext
  <2>4. \A j \in Jobs : ~ClaimNext(v, j)
    BY <1>3, OnlyClaimsClaim DEF RuntimeInv
  <2>5. QED
    BY <2>2, <2>3, <2>4, StandingStill
<1>4. QED
  BY <1>1, <1>2, <1>3

-----------------------------------------------------------------------------
(* The rows keep the invariant.                                             *)

(* What the rows hold keeps its evidence in every step.                      *)
LEMMA SavedStep ==
  ASSUME RuntimeInv, PlacesOK, PlacesOK', WorkInv, WorkInv', SavedInv, Grow, [PipelineNext]_allVars
  PROVE  SavedInv'
<1> SUFFICES ASSUME NEW j \in Jobs PROVE Evidence(j, saved[j])'
  BY DEF SavedInv
<1>1. \A c \in Checkpoints : Evidence(j, c) => Evidence(j, c)'
  BY EvidenceKept
<1>2. CASE saved'[j] = saved[j]
  <2>1. saved[j] \in Checkpoints /\ Evidence(j, saved[j])
    BY DEF PlacesOK, CheckpointsOK, SavedInv
  <2>2. QED
    BY <1>1, <1>2, <2>1 DEF Evidence, Qualified
<1>3. CASE saved'[j] # saved[j]
  <2>1. PICK w \in Workers : Saves(w)
    BY <1>3, SavedChanges
  <2>2. Working(w)' /\ Job(w)' = j /\ saved'[j] = ck'[w]
    BY <1>3, <2>1, SavesAreFenced DEF PlacesOK, CheckpointsOK
  <2>3. Evidence(Job(w), ck[w])'
    BY <2>2 DEF WorkInv
  <2>4. QED
    BY <2>2, <2>3 DEF Evidence, Qualified
<1>4. QED
  BY <1>2, <1>3

\* A job becomes ready for review by its handler's return only.
LEMMA ReadyByReturn ==
  ASSUME RuntimeInv, [PipelineNext]_allVars, NEW j \in Jobs,
         state[j] # "READY_FOR_REVIEW", state'[j] = "READY_FOR_REVIEW"
  PROVE  \E w \in Workers : Return(w) /\ Running(w, "ready") /\ Fenced(w) /\ Job(w) = j
<1> USE DEF RuntimeInv, TypeOK
<1>1. ASSUME NEW i \in Jobs, CreateJob(i) \/ RequestCancel(i) \/ Elapse(i)
      PROVE  FALSE
  BY <1>1 DEF CreateJob, RequestCancel, Elapse
<1>2. ASSUME NEW w \in Workers, Maintenance(w) \/ WakeParked(w)
      PROVE  FALSE
  <2>1. CASE ReclaimRead(w)
    BY <2>1 DEF ReclaimRead, jobVars
  <2>2. CASE ReclaimWrite(w)
    BY <2>2 DEF ReclaimWrite
  <2>3. CASE WakeParked(w)
    BY <2>3 DEF WakeParked
  <2>4. CASE ClaimNothing(w) \/ Restart(w)
    BY <2>4 DEF ClaimNothing, Restart, jobVars
  <2>5. QED
    BY <1>2, <2>1, <2>2, <2>3, <2>4 DEF Maintenance
<1>3. ASSUME NEW w \in Workers, Claim(w) \/ WorkerCrash(w)
      PROVE  FALSE
  BY <1>3 DEF Claim, ClaimNext, WorkerCrash, Crash, jobVars
<1>4. ASSUME NEW w \in Workers, HandlerStep(w)
      PROVE  Return(w) /\ Running(w, "ready") /\ Fenced(w) /\ Job(w) = j
  <2>1. CASE EnterPlanning(w) \/ Apply(w) \/ FinishCancel(w) \/ Beat(w)
    BY <2>1 DEF EnterPlanning, SetPhase, Apply, ApplyCancellation, FinishCancel, FinishCancelled,
                ReleaseAs, Beat, Heartbeat, vars, jobVars
  <2>2. CASE SavePlan(w) \/ SaveUnit(w) \/ SavePhase(w)
    <3>1. PICK s : SaveCheckpoint(w, s)
      BY <2>2 DEF SavePlan, SaveUnit, SavePhase, SaveAs
    <3>2. s \in Phases \union {state[ctx[w].job]} /\ state' = [state EXCEPT ![ctx[w].job] = s]
      BY <3>1 DEF SaveCheckpoint
    <3>3. QED
      BY <3>2
  <2>3. CASE Lost(w)
    BY <2>3 DEF Lost, LeaseLost, jobVars
  <2>4. CASE Return(w)
    <3>1. CASE Running(w, "ready") /\ Complete(w, "READY_FOR_REVIEW")
      <4>1. Fenced(w) /\ state' = [state EXCEPT ![ctx[w].job] = "READY_FOR_REVIEW"]
        BY <3>1 DEF Complete, ReleaseAs
      <4>2. QED
        BY <2>4, <3>1, <4>1 DEF Job
    <3>2. CASE Running(w, "partial") /\ Complete(w, "PARTIAL_SUCCESS")
      BY <3>2 DEF Complete, ReleaseAs
    <3>3. CASE Running(w, "raise") /\ Fail(w)
      BY <3>3 DEF Fail, ReleaseAs
    <3>4. QED
      BY <2>4, <3>1, <3>2, <3>3 DEF Return
  <2>5. CASE \/ PlanPolicy(w) \/ CheckCancel(w) \/ Unit(w) \/ UnitRaises(w) \/ QualifyOne(w)
             \/ QualifyRejects(w) \/ Publish(w)
    BY <2>5 DEF PlanPolicy, CheckCancel, Unit, UnitRaises, QualifyOne, QualifyRejects, Publish,
                vars, jobVars
  <2>6. QED
    BY <1>4, <2>1, <2>2, <2>3, <2>4, <2>5 DEF HandlerStep
<1>5. UNCHANGED allVars => FALSE
  BY DEF allVars, vars, jobVars
<1>6. QED
  BY <1>1, <1>2, <1>3, <1>4, <1>5 DEF PipelineNext, Runtime, Wake

\* The final list of companies of a run, as its handler knows it at the end.
LEMMA ThroughMeansQualified ==
  ASSUME PlacesOK, NEW w \in Workers, Job(w) \in Jobs, HandlerInv(w), Through(ck[w])
  PROVE  /\ saved[Job(w)].phase = "QUALIFYING"
         /\ \A i \in 1 .. Len(saved[Job(w)].companies) :
              Qualified(Job(w), saved[Job(w)].companies[i])
<1>1. ck[w].index \in Nat /\ Len(ck[w].companies) \in Nat
  BY LenProperties DEF PlacesOK, CheckpointsOK, Checkpoints
<1>2. \A i \in 1 .. Len(ck[w].companies) : i <= ck[w].index
  BY <1>1 DEF Through
<1>3. QED
  BY <1>2 DEF Through, HandlerInv, Evidence, RowInv

(* What is shown for review stays complete.                                  *)
LEMMA ShownStep ==
  ASSUME RuntimeInv, PlacesOK, WorkInv, TablesOK, ShownInv, Grow, [PipelineNext]_allVars
  PROVE  ShownInv'
<1> DEFINE AllQualified(j) ==
      /\ saved[j].phase = "QUALIFYING"
      /\ \A i \in 1 .. Len(saved[j].companies) : Qualified(j, saved[j].companies[i])
<1>1. ASSUME NEW j \in Jobs, AllQualified(j), saved'[j] = saved[j]
      PROVE  AllQualified(j)'
  <2>1. \A i \in 1 .. Len(saved[j].companies) : saved[j].companies[i] \in Companies
    BY ElementOfSeq DEF PlacesOK, CheckpointsOK, Checkpoints
  <2>2. QED
    BY <1>1, <2>1 DEF Grow, Qualified
<1>2. ASSUME NEW j \in Jobs, saved'[j] # saved[j]
      PROVE  saved[j].phase # "QUALIFYING" /\ \A w \in Workers : ~Publish(w) /\ ~Return(w)
  <2>1. PICK w \in Workers : Saves(w)
    BY <1>2, SavedChanges
  <2>2. saved[j].phase # "QUALIFYING"
    BY <1>2, <2>1, SavesAreFenced DEF PlacesOK, CheckpointsOK
  <2>3. \A v \in Workers : Publish(v) \/ Return(v) => saved' = saved
    BY DEF Publish, Return
  <2>4. QED
    BY <1>2, <2>2, <2>3
<1>3. ASSUME NEW w \in Workers, Job(w) \in Jobs, HandlerInv(w), Through(ck[w])
      PROVE  AllQualified(Job(w))
  BY <1>3, ThroughMeansQualified
<1>4. ASSUME NEW j \in Jobs, campaign'[j] = "READY_FOR_REVIEW", ~cancelRequested'[j]
      PROVE  AllQualified(j)'
  <2>1. ~cancelRequested[j]
    BY <1>4 DEF Grow
  <2>2. CASE campaign[j] = "READY_FOR_REVIEW"
    BY <1>1, <1>2, <2>1, <2>2 DEF ShownInv
  <2>3. CASE campaign[j] # "READY_FOR_REVIEW"
    <3>1. PICK w \in Workers : Publish(w)
      <4>1. ~ UNCHANGED campaign
        BY <1>4, <2>3
      <4>2. QED
        BY <4>1, BusinessSteps DEF Business, PlanPolicy, Unit, QualifyOne
    <3>2. Working(w) /\ Job(w) \in Jobs /\ HandlerInv(w) /\ at[w] = "publish"
      BY <3>1, MoveOnFrame DEF MovesOn, WorkInv, HandlerInv, Publish, Running
    <3>3. Job(w) = j
      BY <1>4, <2>3, <3>1 DEF Publish, TablesOK
    <3>4. Through(ck[w])
      BY <2>1, <3>2, <3>3 DEF HandlerInv, AtInv
    <3>5. AllQualified(j)
      BY <1>3, <3>2, <3>3, <3>4
    <3>6. QED
      BY <1>1, <1>2, <3>1, <3>5
  <2>4. QED
    BY <2>2, <2>3
<1>5. ASSUME NEW j \in Jobs, state'[j] = "READY_FOR_REVIEW"
      PROVE  AllQualified(j)'
  <2>1. CASE state[j] = "READY_FOR_REVIEW"
    BY <1>1, <1>2, <2>1 DEF ShownInv
  <2>2. CASE state[j] # "READY_FOR_REVIEW"
    <3>1. PICK w \in Workers : Return(w) /\ Running(w, "ready") /\ Fenced(w) /\ Job(w) = j
      BY <1>5, <2>2, ReadyByReturn
    <3>2. Working(w) /\ HandlerInv(w)
      BY <3>1 DEF Running, Working, WorkInv, HandlerInv
    <3>3. Through(ck[w])
      BY <3>1, <3>2 DEF HandlerInv, RowInv, Running
    <3>4. AllQualified(j)
      BY <1>3, <3>1, <3>2, <3>3
    <3>5. QED
      BY <1>1, <1>2, <3>1, <3>4
  <2>3. QED
    BY <2>1, <2>2
<1>6. QED
  BY <1>4, <1>5 DEF ShownInv

\* Whatever works for a campaign works from a checkpoint that passed the gate.
LEMMA GateStep ==
  ASSUME RuntimeInv, PlacesOK, WorkInv, TablesOK, PolicyGate, Grow, [PipelineNext]_allVars
  PROVE  PolicyGate'
<1> SUFFICES ASSUME NEW j \in Jobs, "allowed" \notin decisions'[j]
             PROVE  raw'[j] = {} /\ done'[j] = {} /\ leads'[j] = NoLeads
  BY DEF PolicyGate, NoLeads
<1>1. raw[j] = {} /\ done[j] = {} /\ leads[j] = NoLeads /\ "allowed" \notin decisions[j]
  BY DEF PolicyGate, Grow
<1>2. ASSUME NEW w \in Workers, Unit(w) \/ QualifyOne(w)
      PROVE  Job(w) # j
  <2>1. Working(w) /\ Job(w) \in Jobs
    BY <1>2 DEF Unit, QualifyOne, Running, Working, RuntimeInv, FenceInv, Job
  <2>2. Evidence(Job(w), ck[w]) /\ AtInv(w) /\ at[w] \in {"unit", "qualify"}
    BY <1>2, <2>1 DEF WorkInv, Unit, QualifyOne, Running
  <2>3. ck[w].phase # "PLANNING"
    BY <2>2 DEF AtInv, Looped, Recorded
  <2>4. QED
    BY <1>1, <2>2, <2>3 DEF Evidence
<1>3. ASSUME NEW w \in Workers, Unit(w) \/ QualifyOne(w)
      PROVE  raw'[j] = raw[j] /\ done'[j] = done[j] /\ leads'[j] = leads[j]
  <2>1. Job(w) # j
    BY <1>2, <1>3
  <2>2. CASE Unit(w)
    BY <2>1, <2>2 DEF Unit, Discover, SearchFails, Record, TablesOK
  <2>3. CASE QualifyOne(w)
    <3>1. \E x : leads' = [leads EXCEPT ![Job(w)] = x]
      BY <2>3 DEF QualifyOne
    <3>2. QED
      BY <2>1, <2>3, <3>1 DEF QualifyOne, TablesOK
  <2>4. QED
    BY <1>3, <2>2, <2>3
<1>4. CASE \A w \in Workers : ~Unit(w) /\ ~QualifyOne(w)
  <2>1. raw' = raw /\ done' = done /\ leads' = leads
    <3>1. \A w \in Workers : PlanPolicy(w) \/ Publish(w) => raw' = raw /\ done' = done /\ leads' = leads
      BY DEF PlanPolicy, Publish
    <3>2. QED
      BY <1>4, <3>1, BusinessSteps DEF Business
  <2>2. QED
    BY <1>1, <2>1
<1>5. QED
  BY <1>1, <1>3, <1>4

-----------------------------------------------------------------------------
(* The invariant, and what it is for.                                       *)

RunInv == PlacesOK /\ TablesOK /\ WorkInv /\ SavedInv /\ ShownInv /\ PolicyGate

(* The invariant of runs holds at first.                                     *)
LEMMA RunInit == PipelineInit => RunInv
<1> SUFFICES ASSUME PipelineInit PROVE RunInv
  OBVIOUS
<1>1. PlacesOK
  BY NewCheckpointType DEF PipelineInit, PlacesOK, CheckpointsOK, AtLabels
<1>2. TablesOK
  BY DEF PipelineInit, TablesOK, NoLeads
<1>3. WorkInv
  BY DEF PipelineInit, Init, WorkInv, Working
<1>4. SavedInv
  BY StageFacts DEF PipelineInit, SavedInv, Evidence, NewCheckpoint, Recorded
<1>5. ShownInv
  BY DEF PipelineInit, Init, ShownInv
<1>6. PolicyGate
  BY DEF PipelineInit, PolicyGate
<1>7. QED
  BY <1>1, <1>2, <1>3, <1>4, <1>5, <1>6 DEF RunInv

(* The invariant of runs is kept by every step.                              *)
LEMMA RunStep ==
  ASSUME RuntimeInv, RunInv, [PipelineNext]_allVars
  PROVE  RunInv'
<1> USE DEF RunInv
<1>1. PlacesOK' /\ TablesOK' /\ Grow
  BY PlacesStep, TablesStep, GrowStep
<1>2. WorkInv'
  BY <1>1, WorkStep
<1>3. SavedInv' /\ ShownInv' /\ PolicyGate'
  BY <1>1, <1>2, SavedStep, ShownStep, GateStep
<1>4. QED
  BY <1>1, <1>2, <1>3

(* The invariant of runs holds throughout.                                   *)
LEMMA RunInvariant == PipelineSpec => []RunInv
BY RunInit, RunStep, RuntimeInvariant, PTL DEF PipelineSpec

(* No stage of a campaign runs, by owner or zombie, before an allowing       *)
(* policy decision was committed for it.                                     *)
THEOREM NothingRunsUngated == PipelineSpec => []PolicyGate
<1>1. RunInv => PolicyGate
  BY DEF RunInv
<1>2. QED
  BY <1>1, RunInvariant, PTL

(* Whatever attempts a job took: a stage is entered only when the one before *)
(* it is complete, a job is ready only when every company of its checkpoint  *)
(* went through every stage, and a campaign is shown only with its leads.    *)
THEOREM RunsAreSound == PipelineSpec => []RunIsSound
<1>1. RuntimeInv /\ RunInv => RunIsSound
  <2> SUFFICES ASSUME RuntimeInv, RunInv PROVE RunIsSound
    OBVIOUS
  <2>1. \A j \in Jobs : saved[j] \in Checkpoints
    BY DEF RunInv, PlacesOK, CheckpointsOK
  <2>2. ASSUME NEW j \in Jobs, NEW c \in Range(saved[j].companies)
        PROVE  \E i \in 1 .. Len(saved[j].companies) : c = saved[j].companies[i]
    <3>1. DOMAIN saved[j].companies = 1 .. Len(saved[j].companies)
      BY <2>1, LenProperties DEF Checkpoints
    <3>2. QED
      BY <2>2, <3>1 DEF Range
  <2>3. PipelineTypeOK
    BY StageFacts DEF RuntimeInv, RunInv, PlacesOK, CheckpointsOK, Checkpoints, TablesOK, AtLabels,
                      PipelineTypeOK
  <2>4. StagesInOrder
    <3> SUFFICES ASSUME NEW j \in Jobs, NEW p \in Recorded, Rank(saved[j].phase) > Rank(p),
                        NEW c \in Range(saved[j].companies)
                 PROVE  <<p, c>> \in done[j]
      BY DEF StagesInOrder
    <3>1. PICK i \in 1 .. Len(saved[j].companies) : c = saved[j].companies[i]
      BY <2>2
    <3>2. QED
      BY <3>1 DEF RunInv, SavedInv, Evidence
  <2>5. ReadyIsProcessed
    <3> SUFFICES ASSUME NEW j \in Jobs, state[j] = "READY_FOR_REVIEW",
                        NEW c \in Range(saved[j].companies)
                 PROVE  Recorded \X {c} \subseteq done[j] /\ (c \in Rejected \/ leads[j][c] > 0)
      BY DEF ReadyIsProcessed
    <3>1. saved[j].phase = "QUALIFYING"
          /\ \A i \in 1 .. Len(saved[j].companies) : Qualified(j, saved[j].companies[i])
      BY DEF RunInv, ShownInv
    <3>2. \A p \in Recorded : {p} \X Range(saved[j].companies) \subseteq done[j]
      BY <2>4, <3>1, StageFacts DEF StagesInOrder, Recorded
    <3>3. PICK i \in 1 .. Len(saved[j].companies) : c = saved[j].companies[i]
      BY <2>2
    <3>4. c \in Rejected \/ leads[j][c] > 0
      BY <3>1, <3>3 DEF Qualified
    <3>5. QED
      BY <3>2, <3>4
  <2>6. PublishedIsComplete
    <3> SUFFICES ASSUME NEW j \in Jobs, campaign[j] = "READY_FOR_REVIEW", ~cancelRequested[j],
                        NEW c \in Range(saved[j].companies)
                 PROVE  c \in Rejected \/ leads[j][c] > 0
      BY DEF PublishedIsComplete
    <3>1. PICK i \in 1 .. Len(saved[j].companies) : c = saved[j].companies[i]
      BY <2>2
    <3>2. QED
      BY <3>1 DEF RunInv, ShownInv, Qualified
  <2>7. QED
    BY <2>3, <2>4, <2>5, <2>6 DEF RunIsSound
<1>2. QED
  BY <1>1, RunInvariant, RuntimeInvariant, PTL

(* Below the pipeline too, a job is given up, or waits, with its attempts    *)
(* exactly accounted for, ...                                                *)
THEOREM PipelineAttemptsAreExact == PipelineSpec => []BudgetExact
BY PipelineImplementsRuntime, AttemptsAreExact, PTL

(* ... a finished job stays finished unless a reaper overtakes it, ...       *)
THEOREM PipelineDoneStaysDone == PipelineSpec => DoneUnlessOvertaken
BY PipelineImplementsRuntime, DoneStaysDone, PTL

(* ... and the table behaves as JobLifecycle says.                           *)
THEOREM PipelineImplementsLifecycle == PipelineSpec => LifecycleSpec
BY PipelineImplementsRuntime, ImplementsLifecycle, PTL

=============================================================================
