--------------------------- MODULE LeasingProofs ---------------------------
(* Theorems about the job runtime, for any jobs, workers and bounds.         *)
EXTENDS Leasing, FiniteSetTheorems, TLAPS

USE NoJobAssumption, PhasesAssumption, MaxAttemptsAssumption, BatchAssumption,
    BoundsAssumption

(* A checkpoint counts one unit in the worker's context and keeps its type.  *)
LEMMA UnitsType ==
  ASSUME NEW R, R = [job : Jobs \union {NoJob}, token : Nat, version : Nat, units : Nat],
         NEW f \in [Workers -> R], NEW w \in Workers
  PROVE  [f EXCEPT ![w].units = @ + 1] \in [Workers -> R]
<1>1. PICK r \in R : r = f[w]
  OBVIOUS
<1>2. PICK c : c = [r EXCEPT !.units = @ + 1]
  OBVIOUS
<1>3. c \in R
  BY <1>1, <1>2
<1>4. [f EXCEPT ![w].units = @ + 1] = [f EXCEPT ![w] = c]
  BY <1>1, <1>2
<1>5. [f EXCEPT ![w] = c] \in [Workers -> R]
  BY <1>3
<1>6. QED  BY <1>4, <1>5

(* A step of the runtime keeps the columns and the workers' local state well *)
(* typed.                                                                    *)
LEMMA TypeStep ==
  ASSUME TypeOK, [Next]_vars
  PROVE  TypeOK'
<1> USE DEF TypeOK, JobStates, ActiveStates, TerminalStates, NextCycle, ReleaseAs,
            NoCtx, jobVars
<1>0. NoReap \in Reaps
  BY DEF NoReap, Reaps
<1>1. ASSUME NEW j \in Jobs, CreateJob(j) \/ RequestCancel(j) \/ Elapse(j)
      PROVE  TypeOK'
  <2>1. CASE CreateJob(j)
    BY <2>1 DEF CreateJob
  <2>2. CASE RequestCancel(j)
    <3>1. timer' = timer \/ timer' = [timer EXCEPT ![j] = "running"]
      BY <2>2 DEF RequestCancel
    <3>2. timer' \in [Jobs -> {"off", "running", "elapsed"}]
      BY <3>1
    <3>3. QED  BY <2>2, <3>2 DEF RequestCancel
  <2>3. CASE Elapse(j)
    BY <2>3 DEF Elapse
  <2>4. QED  BY <1>1, <2>1, <2>2, <2>3
<1>3. ASSUME NEW w \in Workers, ReclaimRead(w)
      PROVE  TypeOK'
  BY <1>3 DEF ReclaimRead, Reapable
<1>4. ASSUME NEW w \in Workers, ReclaimWrite(w)
      PROVE  TypeOK'
  <2>1. reap[w].failed \in SUBSET Jobs /\ reap[w].requeued \in SUBSET Jobs
    BY DEF Reaps
  <2>2. /\ state' \in [Jobs -> JobStates] /\ token' \in [Jobs -> Nat]
        /\ timer' \in [Jobs -> {"off", "running", "elapsed"}]
    BY <1>4, <2>1 DEF ReclaimWrite
  <2>3. overtaken' \subseteq Jobs
    BY <1>4, <2>1 DEF ReclaimWrite, Outdated
  <2>4. QED
    BY <1>0, <1>4, <2>2, <2>3 DEF ReclaimWrite
<1>5. ASSUME NEW w \in Workers, WakeParked(w)
      PROVE  TypeOK'
  BY <1>5 DEF WakeParked
<1>6. ASSUME NEW w \in Workers, NEW j \in Jobs, ClaimNext(w, j)
      PROVE  TypeOK'
  BY <1>6 DEF ClaimNext
<1>7. ASSUME NEW w \in Workers, ClaimNothing(w) \/ LeaseLost(w) \/ Crash(w) \/ Restart(w)
      PROVE  TypeOK'
  <2>1. NoCtx \in [job : Jobs \union {NoJob}, token : Nat, version : Nat, units : Nat]
    OBVIOUS
  <2>2. CASE ClaimNothing(w)
    BY <2>2 DEF ClaimNothing
  <2>3. CASE LeaseLost(w)
    BY <2>1, <2>3 DEF LeaseLost
  <2>4. CASE Crash(w)
    BY <1>0, <2>1, <2>4 DEF Crash
  <2>5. CASE Restart(w)
    BY <2>5 DEF Restart
  <2>6. QED  BY <1>7, <2>2, <2>3, <2>4, <2>5
<1>8. ASSUME NEW w \in Workers, Heartbeat(w)
      PROVE  TypeOK'
  BY <1>8 DEF Heartbeat
<1>9. ASSUME NEW w \in Workers, NEW s \in Phases, SetPhase(w, s)
      PROVE  TypeOK'
  BY <1>9 DEF SetPhase
<1>10. ASSUME NEW w \in Workers, NEW s \in ActiveStates, SaveCheckpoint(w, s)
       PROVE  TypeOK'
  <2>1. ctx' = [ctx EXCEPT ![w].units = @ + 1]
    BY <1>10 DEF SaveCheckpoint
  <2>2. PICK R : R = [job : Jobs \union {NoJob}, token : Nat, version : Nat, units : Nat]
    OBVIOUS
  <2>3. ctx \in [Workers -> R]
    BY <2>2
  <2>4. [ctx EXCEPT ![w].units = @ + 1] \in [Workers -> R]
    BY <2>2, <2>3, UnitsType, Zenon
  <2>5. ctx' \in [Workers -> [job : Jobs \union {NoJob}, token : Nat,
                             version : Nat, units : Nat]]
    BY <2>1, <2>2, <2>4, Zenon
  <2>6. ctx[w].units + 1 \in Nat
    OBVIOUS
  <2>7. QED
    BY <1>10, <2>5, <2>6 DEF SaveCheckpoint
<1>11. ASSUME NEW w \in Workers, Park(w)
       PROVE  TypeOK'
  <2>1. ctx[w].job \in Jobs
    BY <1>11 DEF Park, Fenced
  <2>2. (IF attempts[ctx[w].job] = 0 THEN 0 ELSE attempts[ctx[w].job] - 1) \in Nat
    BY <2>1
  <2>3. attempts' \in [Jobs -> Nat]
    BY <1>11, <2>1, <2>2 DEF Park
  <2>4. QED
    BY <1>11, <2>3 DEF Park
<1>12. ASSUME NEW w \in Workers, NEW s \in HandlerOutcomes, Complete(w, s)
       PROVE  TypeOK'
  BY <1>12 DEF Complete, HandlerOutcomes
<1>13. ASSUME NEW w \in Workers, Fail(w)
       PROVE  TypeOK'
  BY <1>13 DEF Fail
<1>14. ASSUME NEW w \in Workers, ApplyCancellation(w)
       PROVE  TypeOK'
  <2>1. state' \in [Jobs -> JobStates] /\ timer' \in [Jobs -> {"off", "running", "elapsed"}]
    BY <1>14 DEF ApplyCancellation
  <2>2. pc' \in [Workers -> {"reclaim", "reaping", "wake", "claim", "handle",
                            "cancelling", "dead"}]
    BY <1>14 DEF ApplyCancellation
  <2>3. UNCHANGED <<token, version, attempts, cancelRequested, checkpoint, issued, ctx, reap,
                  overtaken>>
    BY <1>14 DEF ApplyCancellation
  <2>4. QED
    BY <2>1, <2>2, <2>3
<1>15. ASSUME NEW w \in Workers, FinishCancelled(w)
       PROVE  TypeOK'
  <2>1. state' \in [Jobs -> JobStates] /\ token' \in [Jobs -> Nat]
    BY <1>15 DEF FinishCancelled
  <2>2. timer' \in [Jobs -> {"off", "running", "elapsed"}]
    BY <1>15 DEF FinishCancelled
  <2>3. pc' \in [Workers -> {"reclaim", "reaping", "wake", "claim", "handle",
                            "cancelling", "dead"}]
    BY <1>15 DEF FinishCancelled
  <2>4. QED
    BY <1>15, <2>1, <2>2, <2>3 DEF FinishCancelled
<1>16. CASE UNCHANGED vars
  BY <1>16 DEF vars
<1>17. QED
  BY <1>1, <1>3, <1>4, <1>5, <1>6, <1>7, <1>8, <1>9, <1>10, <1>11, <1>12,
     <1>13, <1>14, <1>15, <1>16 DEF Next, WorkerStep, HandlerEnds

(* Type correctness of the columns and of the workers' local state.          *)
THEOREM TypeCorrect == Spec => []TypeOK
<1>1. Init => TypeOK
  BY DEF Init, TypeOK, JobStates, NoCtx, NoReap, Reaps
<1>2. QED
  BY <1>1, TypeStep, PTL DEF Spec

-----------------------------------------------------------------------------
(* Fencing.  A lease token is issued once, to one worker, for one job; every *)
(* later step either leaves that pair alone or takes the token off the row.  *)

FenceInv ==
  /\ \A j \in Jobs : token[j] <= issued
  /\ \A i, j \in Jobs : token[i] # 0 /\ token[i] = token[j] => i = j
  /\ \A w \in Workers : Working(w) => ctx[w].job \in Jobs /\ ctx[w].token \in 1..issued
  /\ \A w \in Workers, j \in Jobs : Working(w) /\ token[j] = ctx[w].token
       => j = ctx[w].job /\ version[j] = ctx[w].version
  /\ \A v, w \in Workers : Working(v) /\ Working(w) /\ ctx[v].token = ctx[w].token => v = w
  /\ \A w \in Workers : Working(w) /\ Fenced(w)
       => ctx[w].units = checkpoint[ctx[w].job]

\* The steps that issue no token and record no progress.
Loosens ==
  /\ UNCHANGED <<version, checkpoint, issued>>
  /\ \A j \in Jobs : token'[j] \in {token[j], 0}
  /\ \A w \in Workers : Working(w)' => Working(w) /\ ctx'[w] = ctx[w]

LEMMA LoosensKeepsFenceInv ==
  ASSUME TypeOK, TypeOK', FenceInv, Loosens
  PROVE  FenceInv'
<1>1. \A w \in Workers : Working(w)' => Working(w) /\ ctx'[w] = ctx[w] /\ ctx[w].token # 0
  BY DEF Loosens, FenceInv, TypeOK
<1>2. \A w \in Workers : Working(w)' /\ Fenced(w)' => Fenced(w)
  BY <1>1 DEF Loosens, Fenced, TypeOK
<1>3. (\A j \in Jobs : token[j] <= issued)'
  <2> SUFFICES ASSUME NEW j \in Jobs PROVE token'[j] <= issued'
    OBVIOUS
  <2>1. token'[j] \in {token[j], 0} /\ issued' = issued
    BY DEF Loosens
  <2>2. token[j] <= issued /\ 0 <= issued
    BY DEF FenceInv, TypeOK
  <2>3. QED
    BY <2>1, <2>2
<1>4. (\A i, j \in Jobs : token[i] # 0 /\ token[i] = token[j] => i = j)'
  BY DEF FenceInv, Loosens, TypeOK
<1>5. (\A w \in Workers : Working(w) => ctx[w].job \in Jobs /\ ctx[w].token \in 1..issued)'
  BY <1>1 DEF FenceInv, Loosens
<1>6. (\A w \in Workers, j \in Jobs : Working(w) /\ token[j] = ctx[w].token
         => j = ctx[w].job /\ version[j] = ctx[w].version)'
  BY <1>1 DEF FenceInv, Loosens, TypeOK
<1>7. (\A v, w \in Workers : Working(v) /\ Working(w) /\ ctx[v].token = ctx[w].token => v = w)'
  BY <1>1 DEF FenceInv
<1>8. (\A w \in Workers : Working(w) /\ Fenced(w) => ctx[w].units = checkpoint[ctx[w].job])'
  BY <1>1, <1>2 DEF FenceInv, Loosens
<1>9. QED
  BY <1>3, <1>4, <1>5, <1>6, <1>7, <1>8 DEF FenceInv

LEMMA ClaimKeepsFenceInv ==
  ASSUME TypeOK, TypeOK', FenceInv, NEW w \in Workers, NEW j \in Jobs, ClaimNext(w, j)
  PROVE  FenceInv'
<1>1. /\ issued' = issued + 1 /\ checkpoint' = checkpoint
      /\ token'[j] = issued + 1 /\ version'[j] = version[j] + 1
      /\ \A i \in Jobs \ {j} : token'[i] = token[i] /\ version'[i] = version[i]
  BY DEF ClaimNext, TypeOK
<1>2. /\ ctx'[w].job = j /\ ctx'[w].token = issued + 1
      /\ ctx'[w].version = version[j] + 1 /\ ctx'[w].units = checkpoint[j]
      /\ \A v \in Workers \ {w} : ctx'[v] = ctx[v] /\ (Working(v)' => Working(v))
  BY DEF ClaimNext, TypeOK, Working
<1>3. \A v \in Workers \ {w} : Working(v)'
        => ctx'[v].job \in Jobs /\ ctx'[v].token \in 1..issued
  BY <1>2 DEF FenceInv
<1>4. (\A i \in Jobs : token[i] <= issued)'
  <2> SUFFICES ASSUME NEW i \in Jobs PROVE token'[i] <= issued'
    OBVIOUS
  <2>1. token[i] <= issued /\ token[i] \in Nat /\ issued \in Nat
    BY DEF FenceInv, TypeOK
  <2>2. QED
    BY <1>1, <2>1
<1>0. issued \in Nat /\ \A i \in Jobs : token[i] \in Nat /\ token[i] <= issued
  BY DEF FenceInv, TypeOK
<1>5. (\A i, k \in Jobs : token[i] # 0 /\ token[i] = token[k] => i = k)'
  BY <1>0, <1>1 DEF FenceInv
<1>6. (\A v \in Workers : Working(v) => ctx[v].job \in Jobs /\ ctx[v].token \in 1..issued)'
  BY <1>0, <1>1, <1>2, <1>3
<1>7. (\A v \in Workers, i \in Jobs : Working(v) /\ token[i] = ctx[v].token
         => i = ctx[v].job /\ version[i] = ctx[v].version)'
  <2> SUFFICES ASSUME NEW v \in Workers, NEW i \in Jobs, Working(v)', token'[i] = ctx'[v].token
               PROVE  i = ctx'[v].job /\ version'[i] = ctx'[v].version
    OBVIOUS
  <2>1. CASE v = w
    BY <2>1, <1>0, <1>1, <1>2
  <2>2. CASE v # w
    <3>1. Working(v) /\ ctx'[v] = ctx[v] /\ ctx[v].token \in 1..issued
      BY <2>2, <1>2, <1>3
    <3>2. i # j
      BY <3>1, <1>0, <1>1
    <3>3. QED
      BY <3>1, <3>2, <1>1 DEF FenceInv
  <2>3. QED
    BY <2>1, <2>2
<1>8. (\A u, v \in Workers : Working(u) /\ Working(v) /\ ctx[u].token = ctx[v].token => u = v)'
  <2> SUFFICES ASSUME NEW u \in Workers, NEW v \in Workers, Working(u)', Working(v)',
                      ctx'[u].token = ctx'[v].token
               PROVE  u = v
    OBVIOUS
  <2>1. \A x \in Workers \ {w} : Working(x)' => ctx'[x].token # ctx'[w].token
    BY <1>2, <1>3 DEF TypeOK
  <2>2. CASE u = w \/ v = w
    BY <2>1, <2>2
  <2>3. CASE u # w /\ v # w
    BY <2>3, <1>2 DEF FenceInv
  <2>4. QED
    BY <2>2, <2>3
<1>9. (\A v \in Workers : Working(v) /\ Fenced(v) => ctx[v].units = checkpoint[ctx[v].job])'
  <2> SUFFICES ASSUME NEW v \in Workers, Working(v)', Fenced(v)'
               PROVE  ctx'[v].units = checkpoint'[ctx'[v].job]
    OBVIOUS
  <2>1. CASE v = w
    BY <2>1, <1>1, <1>2
  <2>2. CASE v # w
    <3>1. ctx'[v] = ctx[v] /\ Working(v) /\ ctx[v].job # j
      BY <2>2, <1>1, <1>2, <1>3 DEF Fenced, TypeOK
    <3>2. Fenced(v)
      BY <3>1, <1>1 DEF Fenced
    <3>3. QED
      BY <3>1, <3>2, <1>1 DEF FenceInv
  <2>3. QED
    BY <2>1, <2>2
<1>10. QED
  BY <1>4, <1>5, <1>6, <1>7, <1>8, <1>9 DEF FenceInv

LEMMA CheckpointKeepsFenceInv ==
  ASSUME TypeOK, TypeOK', FenceInv, NEW w \in Workers, NEW s, SaveCheckpoint(w, s)
  PROVE  FenceInv'
<1> DEFINE j == ctx[w].job
<1>1. /\ UNCHANGED <<token, version, issued, pc>> /\ j \in Jobs
      /\ checkpoint'[j] = ctx[w].units + 1
      /\ \A i \in Jobs \ {j} : checkpoint'[i] = checkpoint[i]
  BY DEF SaveCheckpoint, Fenced, TypeOK
<1>2. /\ ctx'[w].job = j /\ ctx'[w].token = ctx[w].token /\ ctx'[w].version = ctx[w].version
      /\ ctx'[w].units = ctx[w].units + 1
      /\ \A v \in Workers \ {w} : ctx'[v] = ctx[v]
  BY DEF SaveCheckpoint, TypeOK
<1>3. \A v \in Workers : Working(v)' = Working(v) /\ Fenced(v)' = Fenced(v)
                          /\ ctx'[v].job = ctx[v].job /\ ctx'[v].token = ctx[v].token
                          /\ ctx'[v].version = ctx[v].version
  BY <1>1, <1>2 DEF Working, Fenced
<1>4. Working(w) /\ Fenced(w)
  BY DEF SaveCheckpoint, Working
<1>5. \A v \in Workers \ {w} : Working(v) /\ Fenced(v) => ctx[v].job # j
  BY <1>4 DEF FenceInv, Fenced
<1>6. (\A v \in Workers : Working(v) /\ Fenced(v) => ctx[v].units = checkpoint[ctx[v].job])'
  <2> SUFFICES ASSUME NEW v \in Workers, Working(v), Fenced(v)
               PROVE  ctx'[v].units = checkpoint'[ctx'[v].job]
    BY <1>3
  <2>1. CASE v = w
    BY <2>1, <1>1, <1>2
  <2>2. CASE v # w
    BY <2>2, <1>1, <1>2, <1>5 DEF FenceInv, Fenced
  <2>3. QED
    BY <2>1, <2>2
<1>7. QED
  BY <1>1, <1>3, <1>6 DEF FenceInv

(* Every other action is of the loosening kind.                              *)
LEMMA OtherActionsLoosen ==
  ASSUME TypeOK, FenceInv, [Next]_vars,
         \A w \in Workers, j \in Jobs : ~ClaimNext(w, j),
         \A w \in Workers, s \in ActiveStates : ~SaveCheckpoint(w, s)
  PROVE  Loosens
<1> USE DEF Loosens, Working, TypeOK, jobVars
<1>1. ASSUME NEW j \in Jobs, CreateJob(j) \/ RequestCancel(j) \/ Elapse(j)
      PROVE  Loosens
  BY <1>1 DEF CreateJob, RequestCancel, Elapse
<1>2. ASSUME NEW w \in Workers, ReclaimRead(w) \/ ReclaimWrite(w)
      PROVE  Loosens
  <2>1. UNCHANGED <<version, checkpoint, issued, ctx>>
    BY <1>2 DEF ReclaimRead, ReclaimWrite
  <2>2. \A j \in Jobs : token'[j] \in {token[j], 0}
    BY <1>2 DEF ReclaimRead, ReclaimWrite
  <2>3. \A v \in Workers : Working(v)' => Working(v)
    BY <1>2 DEF ReclaimRead, ReclaimWrite
  <2>4. QED
    BY <2>1, <2>2, <2>3
<1>3. ASSUME NEW w \in Workers, WakeParked(w) \/ ClaimNothing(w) \/ Restart(w)
      PROVE  Loosens
  BY <1>3 DEF WakeParked, ClaimNothing, Restart
<1>4. ASSUME NEW w \in Workers, LeaseLost(w) \/ Crash(w)
      PROVE  Loosens
  BY <1>4 DEF LeaseLost, Crash, NextCycle
<1>5. ASSUME NEW w \in Workers, NEW s \in Phases, Heartbeat(w) \/ SetPhase(w, s)
      PROVE  Loosens
  BY <1>5 DEF Heartbeat, SetPhase
<1>6. ASSUME NEW w \in Workers, NEW s \in HandlerOutcomes, Park(w) \/ Complete(w, s) \/ Fail(w)
      PROVE  Loosens
  <2>1. UNCHANGED <<version, checkpoint, issued>>
    BY <1>6 DEF Park, Complete, Fail
  <2>2. token' = [token EXCEPT ![ctx[w].job] = 0] /\ NextCycle(w)
    BY <1>6 DEF Park, Complete, Fail, ReleaseAs
  <2>3. QED
    BY <2>1, <2>2 DEF NextCycle
<1>7. ASSUME NEW w \in Workers, ApplyCancellation(w) \/ FinishCancelled(w)
      PROVE  Loosens
  BY <1>7 DEF ApplyCancellation, FinishCancelled, ReleaseAs
<1>8. CASE UNCHANGED vars
  BY <1>8 DEF vars
<1>9. QED
  <2>1. PICK s \in HandlerOutcomes : TRUE
    BY DEF HandlerOutcomes
  <2>2. PICK t \in Phases : TRUE
    OBVIOUS
  <2>3. QED
    BY <1>1, <1>2, <1>3, <1>4, <1>5, <1>6, <1>7, <1>8, <2>1, <2>2
       DEF Next, WorkerStep, HandlerEnds

LEMMA FenceStep ==
  ASSUME TypeOK, TypeOK', FenceInv, [Next]_vars
  PROVE  FenceInv'
BY ClaimKeepsFenceInv, CheckpointKeepsFenceInv, OtherActionsLoosen, LoosensKeepsFenceInv

LEMMA FenceInit == Init => FenceInv
BY DEF Init, FenceInv, Working

THEOREM FenceInvariant == Spec => []FenceInv
BY TypeCorrect, FenceInit, FenceStep, PTL DEF Spec

(* Of all the workers that believe they run a job, at most one passes the    *)
(* fence: OneOwner holds for any number of workers, jobs and crashes.        *)
THEOREM FencingExcludes == Spec => []OneOwner
<1>1. FenceInv => OneOwner
  BY DEF FenceInv, OneOwner, Fenced
<1>2. QED
  BY <1>1, FenceInvariant, PTL

(* No attempt, however late, writes an older checkpoint over a newer one.    *)
THEOREM CheckpointsNeverRegress == Spec => ProgressKept
<1>1. TypeOK /\ FenceInv /\ [Next]_vars
        => [\A j \in Jobs : checkpoint'[j] >= checkpoint[j]]_vars
  <2> SUFFICES ASSUME TypeOK, FenceInv, [Next]_vars, NEW j \in Jobs
               PROVE  checkpoint'[j] >= checkpoint[j]
    OBVIOUS
  <2>1. CASE \E w \in Workers, s \in ActiveStates : SaveCheckpoint(w, s)
    <3>1. PICK w \in Workers, s \in ActiveStates : SaveCheckpoint(w, s)
      BY <2>1
    <3>2. ctx[w].units = checkpoint[ctx[w].job] /\ ctx[w].job \in Jobs
      BY <3>1 DEF SaveCheckpoint, FenceInv, Working
    <3>3. QED
      BY <3>1, <3>2 DEF SaveCheckpoint, TypeOK
  <2>2. CASE \E w \in Workers, i \in Jobs : ClaimNext(w, i)
    BY <2>2 DEF ClaimNext, TypeOK
  <2>3. CASE /\ \A w \in Workers, s \in ActiveStates : ~SaveCheckpoint(w, s)
             /\ \A w \in Workers, i \in Jobs : ~ClaimNext(w, i)
    BY <2>3, OtherActionsLoosen DEF Loosens, TypeOK
  <2>4. QED
    BY <2>1, <2>2, <2>3
<1>2. QED
  BY <1>1, TypeCorrect, FenceInvariant, PTL DEF Spec, ProgressKept

-----------------------------------------------------------------------------
(* The shape of a row.                                                       *)

\* LeaseShape for one row, and the frame under which it is kept.
RowShape(j) ==
  /\ state[j] \in ActiveStates <=> token[j] # 0
  /\ timer[j] # "off" <=> state[j] \in ActiveStates \union {"WAITING_FOR_CAPACITY"}

LEMMA ShapeStep ==
  ASSUME TypeOK, FenceInv, LeaseShape, [Next]_vars
  PROVE  LeaseShape'
<1> SUFFICES ASSUME NEW j \in Jobs PROVE RowShape(j)'
  BY DEF LeaseShape, RowShape
<1>0. RowShape(j) /\ token[j] \in Nat
  BY DEF LeaseShape, RowShape, TypeOK
<1> USE DEF RowShape, ActiveStates, TypeOK, JobStates, TerminalStates
<1>1. \A w \in Workers : Working(w) => ctx[w].job \in Jobs /\ ctx[w].token # 0
  BY DEF FenceInv
<1>2. ASSUME NEW i \in Jobs, CreateJob(i) \/ RequestCancel(i) \/ Elapse(i)
      PROVE  RowShape(j)'
  BY <1>0, <1>2 DEF CreateJob, RequestCancel, Elapse
<1>3. ASSUME NEW w \in Workers, ReclaimRead(w) \/ ReclaimWrite(w)
      PROVE  RowShape(j)'
  <2>1. CASE ReclaimRead(w)
    BY <1>0, <2>1 DEF ReclaimRead, jobVars
  <2>2. CASE ReclaimWrite(w)
    BY <1>0, <2>2 DEF ReclaimWrite
  <2>3. QED
    BY <1>3, <2>1, <2>2
<1>4. ASSUME NEW w \in Workers, WakeParked(w)
      PROVE  RowShape(j)'
  BY <1>0, <1>4 DEF WakeParked, Wakeable
<1>5. ASSUME NEW w \in Workers, ClaimNothing(w) \/ LeaseLost(w) \/ Crash(w) \/ Restart(w)
      PROVE  RowShape(j)'
  BY <1>0, <1>5 DEF ClaimNothing, LeaseLost, Crash, Restart, jobVars
<1>6. ASSUME NEW w \in Workers, NEW i \in Jobs, ClaimNext(w, i)
      PROVE  RowShape(j)'
  BY <1>0, <1>6 DEF ClaimNext
<1>7. ASSUME NEW w \in Workers, Heartbeat(w)
      PROVE  RowShape(j)'
  BY <1>0, <1>1, <1>7 DEF Heartbeat, Beats, Working
<1>8. ASSUME NEW w \in Workers, NEW s \in Phases, SetPhase(w, s)
      PROVE  RowShape(j)'
  BY <1>0, <1>1, <1>8 DEF SetPhase, Working, Fenced
<1>9. ASSUME NEW w \in Workers, NEW s \in ActiveStates, SaveCheckpoint(w, s)
      PROVE  RowShape(j)'
  BY <1>0, <1>1, <1>9 DEF SaveCheckpoint, Working, Fenced
<1>10. ASSUME NEW w \in Workers, Park(w)
       PROVE  RowShape(j)'
  BY <1>0, <1>10 DEF Park, ReleaseAs
<1>11. ASSUME NEW w \in Workers, NEW s \in HandlerOutcomes, Complete(w, s)
       PROVE  RowShape(j)'
  BY <1>0, <1>11 DEF Complete, ReleaseAs, HandlerOutcomes
<1>12. ASSUME NEW w \in Workers, Fail(w)
       PROVE  RowShape(j)'
  BY <1>0, <1>12 DEF Fail, ReleaseAs
<1>13. ASSUME NEW w \in Workers, ApplyCancellation(w)
       PROVE  RowShape(j)'
  BY <1>0, <1>1, <1>13 DEF ApplyCancellation, CancelApplies, Working, Fenced
<1>14. ASSUME NEW w \in Workers, FinishCancelled(w)
       PROVE  RowShape(j)'
  BY <1>0, <1>14 DEF FinishCancelled, ReleaseAs
<1>15. CASE UNCHANGED vars
  BY <1>0, <1>15 DEF vars, jobVars
<1>16. QED
  BY <1>2, <1>3, <1>4, <1>5, <1>6, <1>7, <1>8, <1>9, <1>10, <1>11, <1>12, <1>13,
     <1>14, <1>15 DEF Next, WorkerStep, HandlerEnds

(* Whatever interleaves, every leased row has its token, its expiry and an   *)
(* active state together: the reaper can always take it back.                *)
THEOREM LeasesAreWhole == Spec => []LeaseShape
<1>1. Init => LeaseShape
  BY DEF Init, LeaseShape, ActiveStates
<1>2. QED
  BY <1>1, ShapeStep, TypeCorrect, FenceInvariant, PTL DEF Spec

-----------------------------------------------------------------------------
(* Attempts and finality, but for the rows a reaper overwrites after they     *)
(* changed.                                                                  *)

(* LIMIT never lets an exhausted job through to the requeueing statement: if *)
(* the first statement was cut off, nothing is left of the batch.            *)
LEMMA ReapableBudget ==
  ASSUME TypeOK, NEW r \in Reapable
  PROVE  /\ r.failed \subseteq Exhausted
         /\ r.requeued \subseteq Expired \ Exhausted
<1>1. IsFiniteSet(Exhausted) /\ IsFiniteSet(Expired) /\ Exhausted \subseteq Expired
  BY JobsAssumption, FS_Subset DEF Exhausted, Expired
<1>2. r.failed \subseteq Exhausted /\ r.requeued \subseteq Expired \ r.failed
  BY DEF Reapable, Limited
<1>3. IsFiniteSet(r.failed) /\ IsFiniteSet(r.requeued) /\ IsFiniteSet(Expired \ r.failed)
  BY <1>1, <1>2, FS_Subset, FS_Difference
<1>4. CASE Cardinality(Exhausted) <= Batch
  BY <1>2, <1>4 DEF Reapable, Limited
<1>5. CASE ~(Cardinality(Exhausted) <= Batch)
  <2>1. Cardinality(r.failed) = Batch
    BY <1>5 DEF Reapable, Limited
  <2>2. r.requeued \in Limited(Expired \ r.failed, 0)
    BY <2>1 DEF Reapable
  <2>3. Cardinality(r.requeued) = 0
    <3>1. Cardinality(Expired \ r.failed) \in Nat
      BY <1>3, FS_CardinalityType
    <3>2. IF Cardinality(Expired \ r.failed) <= 0 THEN r.requeued = Expired \ r.failed
                                                  ELSE Cardinality(r.requeued) = 0
      BY <2>2 DEF Limited
    <3>3. QED
      BY <3>1, <3>2
  <2>4. r.requeued = {}
    BY <2>3, <1>3, FS_EmptySet
  <2>5. QED
    BY <1>2, <2>4
<1>6. QED
  BY <1>4, <1>5

\* What an open reap holds: its two halves are told apart by the attempts it saw.
ReapInv ==
  \A w \in Workers :
    /\ reap[w].failed \subseteq reap[w].spent
    /\ reap[w].requeued \intersect reap[w].spent = {}

LEMMA ReapStep ==
  ASSUME TypeOK, ReapInv, [Next]_vars
  PROVE  ReapInv'
<1> SUFFICES ASSUME NEW v \in Workers
             PROVE  /\ reap'[v].failed \subseteq reap'[v].spent
                    /\ reap'[v].requeued \intersect reap'[v].spent = {}
  BY DEF ReapInv
<1>1. CASE reap'[v] = reap[v]
  BY <1>1 DEF ReapInv
<1>2. CASE reap'[v] = NoReap
  BY <1>2 DEF NoReap
<1>3. ASSUME NEW r \in Reapable, reap'[v] = r
      PROVE  /\ reap'[v].failed \subseteq reap'[v].spent
             /\ reap'[v].requeued \intersect reap'[v].spent = {}
  <2>1. r.failed \subseteq Exhausted /\ r.requeued \subseteq Expired \ Exhausted
    BY ReapableBudget
  <2>2. r.spent = (r.failed \union r.requeued) \intersect Exhausted
    BY DEF Reapable
  <2>3. QED
    BY <1>3, <2>1, <2>2
<1>4. ASSUME NEW w \in Workers, ReclaimRead(w) \/ ReclaimWrite(w) \/ Crash(w)
      PROVE  reap'[v] = reap[v] \/ reap'[v] = NoReap \/ \E r \in Reapable : reap'[v] = r
  BY <1>4 DEF ReclaimRead, ReclaimWrite, Crash, TypeOK
<1>5. ASSUME ~ \E w \in Workers : ReclaimRead(w) \/ ReclaimWrite(w) \/ Crash(w)
      PROVE  reap' = reap
  BY <1>5 DEF Next, WorkerStep, HandlerEnds, CreateJob, RequestCancel, Elapse, WakeParked,
              ClaimNext, ClaimNothing, Heartbeat, SetPhase, SaveCheckpoint, Park, Complete, Fail,
              LeaseLost, ApplyCancellation, FinishCancelled, Restart, vars
<1>6. QED
  BY <1>1, <1>2, <1>3, <1>4, <1>5

RowBudget(j) ==
  /\ attempts[j] <= MaxAttempts
  /\ state[j] = "ABSENT" => attempts[j] < MaxAttempts
  /\ j \notin overtaken =>
       /\ state[j] \in {"QUEUED", "WAITING_FOR_CAPACITY"} => attempts[j] < MaxAttempts
       /\ state[j] = "FAILED" => attempts[j] = MaxAttempts

BudgetInv == \A j \in Jobs : RowBudget(j)

LEMMA Squeeze ==
  ASSUME NEW a \in Nat, a <= MaxAttempts, a >= MaxAttempts
  PROVE  a = MaxAttempts
OBVIOUS

LEMMA BudgetStep ==
  ASSUME TypeOK, FenceInv, LeaseShape, ReapInv, BudgetInv, [Next]_vars
  PROVE  BudgetInv'
<1> SUFFICES ASSUME NEW j \in Jobs PROVE RowBudget(j)'
  BY DEF BudgetInv
<1>0. RowBudget(j) /\ attempts[j] \in Nat /\ state[j] \in JobStates
  BY DEF BudgetInv, TypeOK
<1> USE DEF RowBudget, ActiveStates, JobStates, TerminalStates, TypeOK
<1>2. ASSUME NEW i \in Jobs, CreateJob(i) \/ RequestCancel(i) \/ Elapse(i)
      PROVE  RowBudget(j)'
  BY <1>0, <1>2 DEF CreateJob, RequestCancel, Elapse
<1>3. ASSUME NEW w \in Workers, ReclaimWrite(w)
      PROVE  RowBudget(j)'
  <2> DEFINE r == reap[w]
  <2>1. /\ attempts' = attempts
        /\ state' = [i \in Jobs |-> IF i \in r.failed THEN "FAILED"
                                    ELSE IF i \in r.requeued THEN "QUEUED" ELSE state[i]]
        /\ overtaken' = overtaken \union Outdated(r)
    BY <1>3 DEF ReclaimWrite
  <2>2. r.failed \subseteq r.spent /\ r.requeued \intersect r.spent = {}
    BY DEF ReapInv
  <2>3. CASE j \in Outdated(r)
    BY <1>0, <2>1, <2>3
  <2>4. CASE j \in r.failed /\ j \notin Outdated(r)
    <3>1. attempts[j] >= MaxAttempts
      BY <2>2, <2>4 DEF Outdated, Exhausted
    <3>2. attempts[j] = MaxAttempts
      BY <1>0, <3>1, Squeeze
    <3>3. state'[j] = "FAILED" /\ attempts'[j] = attempts[j]
      BY <2>1, <2>4
    <3>4. QED
      BY <3>2, <3>3
  <2>5. CASE j \in r.requeued /\ j \notin r.failed /\ j \notin Outdated(r)
    <3>1. j \in Expired /\ j \notin Exhausted
      BY <2>2, <2>5 DEF Outdated
    <3>2. state'[j] = "QUEUED" /\ attempts'[j] = attempts[j]
      BY <2>1, <2>5
    <3>3. QED
      BY <1>0, <3>1, <3>2 DEF Exhausted
  <2>6. CASE j \notin r.requeued /\ j \notin r.failed
    BY <1>0, <2>1, <2>6
  <2>7. QED
    BY <2>3, <2>4, <2>5, <2>6
<1>4. ASSUME NEW w \in Workers, WakeParked(w)
      PROVE  RowBudget(j)'
  BY <1>0, <1>4 DEF WakeParked, Wakeable
<1>5. ASSUME NEW w \in Workers, ClaimNothing(w) \/ LeaseLost(w) \/ Crash(w) \/ Restart(w)
                                 \/ Heartbeat(w) \/ ReclaimRead(w)
      PROVE  RowBudget(j)'
  BY <1>0, <1>5 DEF ClaimNothing, LeaseLost, Crash, Restart, Heartbeat, ReclaimRead, jobVars
<1>6. ASSUME NEW w \in Workers, NEW i \in Jobs, ClaimNext(w, i)
      PROVE  RowBudget(j)'
  BY <1>0, <1>6 DEF ClaimNext, Claimable
<1>7. ASSUME NEW w \in Workers, NEW s \in Phases, SetPhase(w, s)
      PROVE  RowBudget(j)'
  BY <1>0, <1>7 DEF SetPhase
<1>8. ASSUME NEW w \in Workers, NEW s \in ActiveStates, SaveCheckpoint(w, s)
      PROVE  RowBudget(j)'
  BY <1>0, <1>8 DEF SaveCheckpoint
<1>9. ASSUME NEW w \in Workers, Park(w)
      PROVE  RowBudget(j)'
  <2>1. CASE j = ctx[w].job
    <3>1. state'[j] = "WAITING_FOR_CAPACITY"
      BY <1>9, <2>1 DEF Park, ReleaseAs
    <3>2. attempts'[j] = IF attempts[j] = 0 THEN 0 ELSE attempts[j] - 1
      BY <1>9, <2>1 DEF Park
    <3>3. attempts'[j] < MaxAttempts
      BY <1>0, <3>2
    <3>4. QED
      BY <3>1, <3>3, <1>0, <3>2
  <2>2. CASE j # ctx[w].job
    BY <1>0, <1>9, <2>2 DEF Park, ReleaseAs
  <2>3. QED
    BY <2>1, <2>2
<1>10. ASSUME NEW w \in Workers, NEW s \in HandlerOutcomes, Complete(w, s)
       PROVE  RowBudget(j)'
  BY <1>0, <1>10 DEF Complete, ReleaseAs, HandlerOutcomes
<1>11. ASSUME NEW w \in Workers, Fail(w)
       PROVE  RowBudget(j)'
  <2>1. attempts' = attempts
    BY <1>11 DEF Fail
  <2>2. CASE j # ctx[w].job
    BY <1>0, <1>11, <2>1, <2>2 DEF Fail, ReleaseAs
  <2>3. CASE j = ctx[w].job /\ attempts[j] >= MaxAttempts
    <3>1. state'[j] = "FAILED"
      BY <1>11, <2>3 DEF Fail, ReleaseAs
    <3>2. attempts[j] = MaxAttempts
      BY <1>0, <2>3, Squeeze
    <3>3. QED
      BY <2>1, <3>1, <3>2
  <2>4. CASE j = ctx[w].job /\ ~(attempts[j] >= MaxAttempts)
    <3>1. state'[j] = "QUEUED"
      BY <1>11, <2>4 DEF Fail, ReleaseAs
    <3>2. QED
      BY <1>0, <2>1, <2>4, <3>1
  <2>5. QED
    BY <2>2, <2>3, <2>4
<1>12. ASSUME NEW w \in Workers, ApplyCancellation(w) \/ FinishCancelled(w)
       PROVE  RowBudget(j)'
  BY <1>0, <1>12 DEF ApplyCancellation, FinishCancelled, ReleaseAs
<1>13. CASE UNCHANGED vars
  BY <1>0, <1>13 DEF vars, jobVars
<1>14. QED
  BY <1>2, <1>3, <1>4, <1>5, <1>6, <1>7, <1>8, <1>9, <1>10, <1>11, <1>12, <1>13
     DEF Next, WorkerStep, HandlerEnds

(* No job is run more often than its budget.  But for the rows a reaper has  *)
(* overtaken, no job waits in the queue, or parked, with its attempts used   *)
(* up (it would wait for ever: claim_next and the reaper both skip it), and  *)
(* none is given up with an attempt left.                                    *)
THEOREM AttemptsAreExact == Spec => []BudgetExact
<1>1. Init => BudgetInv /\ ReapInv
  BY DEF Init, BudgetInv, RowBudget, ReapInv, NoReap
<1>2. BudgetInv => BudgetExact
  BY DEF BudgetInv, RowBudget, BudgetExact
<1>3. /\ TypeOK /\ FenceInv /\ LeaseShape /\ ReapInv /\ BudgetInv /\ [Next]_vars
      => BudgetInv' /\ ReapInv'
  BY BudgetStep, ReapStep
<1>4. QED
  BY <1>1, <1>2, <1>3, TypeCorrect, FenceInvariant, LeasesAreWhole, PTL DEF Spec

\* A worker that passes the fence works on a row in an active state.
LEMMA OwnerIsActive ==
  ASSUME TypeOK, FenceInv, LeaseShape, NEW w \in Workers, Working(w), Fenced(w)
  PROVE  ctx[w].job \in Jobs /\ state[ctx[w].job] \in ActiveStates
<1>1. ctx[w].job \in Jobs /\ ctx[w].token # 0 /\ token[ctx[w].job] = ctx[w].token
  BY DEF FenceInv, Fenced
<1>2. QED
  BY <1>1 DEF LeaseShape

LEMMA FinalStep ==
  ASSUME TypeOK, FenceInv, LeaseShape, [Next]_vars,
         NEW j \in Jobs, state[j] \in TerminalStates, j \notin overtaken'
  PROVE  state'[j] = state[j]
<1>1. state[j] \notin ActiveStates \union {"ABSENT", "QUEUED", "WAITING_FOR_CAPACITY"}
  BY DEF TerminalStates, ActiveStates
<1>2. \A w \in Workers : Working(w) /\ Fenced(w) => ctx[w].job # j
  BY <1>1, OwnerIsActive
<1> USE DEF TypeOK
<1>3. ASSUME NEW i \in Jobs, CreateJob(i) \/ RequestCancel(i) \/ Elapse(i)
      PROVE  state'[j] = state[j]
  BY <1>1, <1>3 DEF CreateJob, RequestCancel, Elapse
<1>4. ASSUME NEW w \in Workers, ReclaimWrite(w)
      PROVE  state'[j] = state[j]
  BY <1>1, <1>4 DEF ReclaimWrite, Outdated, Expired
<1>5. ASSUME NEW w \in Workers, WakeParked(w)
      PROVE  state'[j] = state[j]
  BY <1>1, <1>5 DEF WakeParked, Wakeable
<1>6. ASSUME NEW w \in Workers, ClaimNothing(w) \/ LeaseLost(w) \/ Crash(w) \/ Restart(w)
                                 \/ Heartbeat(w) \/ ReclaimRead(w)
      PROVE  state'[j] = state[j]
  BY <1>6 DEF ClaimNothing, LeaseLost, Crash, Restart, Heartbeat, ReclaimRead, jobVars
<1>7. ASSUME NEW w \in Workers, NEW i \in Jobs, ClaimNext(w, i)
      PROVE  state'[j] = state[j]
  BY <1>1, <1>7 DEF ClaimNext, Claimable
<1>8. ASSUME NEW w \in Workers, NEW s \in JobStates,
             SetPhase(w, s) \/ SaveCheckpoint(w, s) \/ Park(w) \/ Complete(w, s) \/ Fail(w)
             \/ ApplyCancellation(w)
      PROVE  state'[j] = state[j]
  BY <1>2, <1>8 DEF SetPhase, SaveCheckpoint, Park, Complete, Fail, ApplyCancellation, CancelApplies,
                    ReleaseAs, Working
<1>9. ASSUME NEW w \in Workers, FinishCancelled(w)
      PROVE  state'[j] = state[j]
  BY <1>2, <1>9 DEF FinishCancelled, ReleaseAs, Working
<1>11. CASE UNCHANGED vars
  BY <1>11 DEF vars, jobVars
<1>12. Phases \union ActiveStates \union HandlerOutcomes \subseteq JobStates
  BY DEF JobStates, ActiveStates, TerminalStates, HandlerOutcomes
<1>13. PICK t \in JobStates : TRUE
  BY DEF JobStates
<1>14. QED
  BY <1>3, <1>4, <1>5, <1>6, <1>7, <1>8, <1>9, <1>11, <1>12, <1>13
     DEF Next, WorkerStep, HandlerEnds

(* A reaper that writes over what has changed is the only way out of a       *)
(* terminal state.                                                           *)
THEOREM DoneStaysDone == Spec => DoneUnlessOvertaken
<1>1. TypeOK /\ FenceInv /\ LeaseShape /\ [Next]_vars
        => [\A j \in Jobs : state[j] \in TerminalStates /\ j \notin overtaken'
                             => state'[j] = state[j]]_vars
  BY FinalStep
<1>2. QED
  BY <1>1, TypeCorrect, FenceInvariant, LeasesAreWhole, PTL DEF Spec, DoneUnlessOvertaken

-----------------------------------------------------------------------------
(* The runtime implements JobLifecycle.                                      *)

Phase(j) == LifecyclePhase(state[j])

LEMMA PhaseOfState ==
  /\ LifecyclePhase("ABSENT") = "absent"
  /\ \A s \in {"QUEUED", "WAITING_FOR_CAPACITY"} : LifecyclePhase(s) = "waiting"
  /\ \A s \in ActiveStates : LifecyclePhase(s) = "running"
  /\ \A s \in TerminalStates : LifecyclePhase(s) = "done"
BY DEF LifecyclePhase, ActiveStates, TerminalStates

\* The jobs some reaper has read and not written yet.
Doubted == UNION {reap[w].failed \union reap[w].requeued : w \in Workers}

\* A step that moves no job to another phase, starts none, records nothing and
\* leaves the reapers alone.
LEMMA LifecycleStutter ==
  ASSUME TypeOK, UNCHANGED <<version, checkpoint, reap>>,
         \A j \in Jobs : Phase(j)' = Phase(j)
  PROVE  UNCHANGED Lifecycle!vars
BY DEF Lifecycle!vars, Phase

\* A step that takes one running job out of that phase.
LEMMA LifecycleRelease ==
  ASSUME TypeOK, UNCHANGED <<version, checkpoint, reap>>,
         NEW j \in Jobs, Phase(j) = "running", Phase(j)' \in {"waiting", "done"},
         \A i \in Jobs \ {j} : Phase(i)' = Phase(i)
  PROVE  Lifecycle!Next
<1>1. Lifecycle!Release(j)
  BY DEF Lifecycle!Release, Phase
<1>2. QED
  BY <1>1 DEF Lifecycle!Next

\* A step that changes at most the reap of w: jobs come into doubt only while
\* they run.
LEMMA LifecycleDoubt ==
  ASSUME TypeOK, UNCHANGED <<version, checkpoint, state>>, NEW w \in Workers,
         NEW r \in Reaps, reap' = [reap EXCEPT ![w] = r],
         r.failed \union r.requeued \subseteq Expired
  PROVE  Lifecycle!Next
<1>1. Doubted' \subseteq Doubted \union r.failed \union r.requeued
  BY DEF Doubted, TypeOK
<1>2. \A j \in r.failed \union r.requeued : j \in Jobs /\ Phase(j) = "running"
  BY PhaseOfState DEF Expired, Phase
<1>3. Doubted' \in SUBSET (Doubted \union {j \in Jobs : Phase(j) = "running"})
  BY <1>1, <1>2
<1>4. Lifecycle!Doubt
  BY <1>3 DEF Lifecycle!Doubt, Doubted, Phase
<1>5. QED
  BY <1>4 DEF Lifecycle!Next

\* A reaper writes: it settles what it held in doubt, and nothing else moves.
LEMMA LifecycleSettle ==
  ASSUME TypeOK, NEW w \in Workers, ReclaimWrite(w)
  PROVE  Lifecycle!Next
<1> DEFINE r == reap[w]
<1>1. /\ r.failed \in SUBSET Jobs /\ r.requeued \in SUBSET Jobs
      /\ r.requeued \union r.failed \subseteq Doubted
  BY DEF TypeOK, Reaps, Doubted
<1>2. \A j \in Jobs : Phase(j)' = IF j \in r.failed THEN "done"
                                  ELSE IF j \in r.requeued THEN "waiting" ELSE Phase(j)
  BY PhaseOfState DEF ReclaimWrite, Phase, TerminalStates
<1>3. Doubted' \in SUBSET Doubted
  BY DEF ReclaimWrite, Doubted, NoReap, TypeOK
<1>4. UNCHANGED <<version, checkpoint>>
  BY DEF ReclaimWrite
<1>5. PICK back \in SUBSET Jobs, finished \in SUBSET Jobs :
           back = r.requeued /\ finished = r.failed
  BY <1>1
<1>6. Lifecycle!Settle(back, finished)
  BY <1>1, <1>2, <1>3, <1>4, <1>5 DEF Lifecycle!Settle, Doubted, Phase
<1>7. QED
  BY <1>6 DEF Lifecycle!Next

LEMMA LifecycleStep ==
  ASSUME TypeOK, FenceInv, LeaseShape, [Next]_vars
  PROVE  [Lifecycle!Next]_(Lifecycle!vars)
<1> DEFINE Goal == [Lifecycle!Next]_(Lifecycle!vars)
<1>1. \A j \in Jobs : state[j] \in JobStates
  BY DEF TypeOK
<1>2. ASSUME NEW j \in Jobs, CreateJob(j)
      PROVE  Goal
  <2>1. /\ Phase(j) = "absent" /\ Phase(j)' = "waiting"
        /\ \A i \in Jobs \ {j} : Phase(i)' = Phase(i)
    BY <1>2, PhaseOfState DEF CreateJob, Phase, TypeOK
  <2>2. Lifecycle!Create(j)
    BY <1>2, <2>1 DEF Lifecycle!Create, CreateJob, Phase
  <2>3. QED
    BY <2>2 DEF Lifecycle!Next
<1>3. ASSUME NEW j \in Jobs, RequestCancel(j) \/ Elapse(j)
      PROVE  Goal
  BY <1>3, LifecycleStutter DEF RequestCancel, Elapse, Phase
<1>4. ASSUME NEW w \in Workers, ReclaimRead(w) \/ ReclaimWrite(w) \/ Crash(w)
      PROVE  Goal
  <2>1. CASE ReclaimRead(w)
    <3>1. PICK r \in Reapable : reap' = [reap EXCEPT ![w] = r]
      BY <2>1 DEF ReclaimRead
    <3>2. r \in Reaps /\ r.failed \union r.requeued \subseteq Expired
      BY DEF Reapable, Limited, Exhausted
    <3>3. UNCHANGED <<version, checkpoint, state>>
      BY <2>1 DEF ReclaimRead, jobVars
    <3>4. QED
      BY <3>1, <3>2, <3>3, LifecycleDoubt
  <2>2. CASE Crash(w)
    <3>1. NoReap \in Reaps /\ NoReap.failed \union NoReap.requeued \subseteq Expired
      BY DEF NoReap, Reaps
    <3>2. UNCHANGED <<version, checkpoint, state>> /\ reap' = [reap EXCEPT ![w] = NoReap]
      BY <2>2 DEF Crash, jobVars
    <3>3. QED
      BY <3>1, <3>2, LifecycleDoubt
  <2>3. QED
    BY <1>4, <2>1, <2>2, LifecycleSettle
<1>5. ASSUME NEW w \in Workers, WakeParked(w)
      PROVE  Goal
  <2>1. \A j \in Jobs : Phase(j)' = Phase(j)
    BY <1>5, PhaseOfState DEF WakeParked, Wakeable, Phase
  <2>2. QED
    BY <1>5, <2>1, LifecycleStutter DEF WakeParked
<1>6. ASSUME NEW w \in Workers, ClaimNothing(w) \/ LeaseLost(w) \/ Restart(w) \/ Heartbeat(w)
      PROVE  Goal
  BY <1>6, LifecycleStutter DEF ClaimNothing, LeaseLost, Restart, Heartbeat, jobVars, Phase
<1>7. ASSUME NEW w \in Workers, NEW j \in Jobs, ClaimNext(w, j)
      PROVE  Goal
  <2>1. /\ Phase(j) = "waiting" /\ Phase(j)' = "running"
        /\ \A i \in Jobs \ {j} : Phase(i)' = Phase(i)
    BY <1>7, PhaseOfState DEF ClaimNext, Claimable, Phase, TypeOK, ActiveStates
  <2>2. Lifecycle!Start(j)
    BY <1>7, <2>1 DEF Lifecycle!Start, ClaimNext, Phase
  <2>3. QED
    BY <2>2 DEF Lifecycle!Next
<1>8. ASSUME NEW w \in Workers, NEW s \in Phases, SetPhase(w, s) \/ ApplyCancellation(w)
      PROVE  Goal
  <2>1. ctx[w].job \in Jobs /\ state[ctx[w].job] \in ActiveStates
    BY <1>8, OwnerIsActive DEF SetPhase, ApplyCancellation, CancelApplies, Working
  <2>2. state'[ctx[w].job] \in ActiveStates
        /\ \A i \in Jobs \ {ctx[w].job} : state'[i] = state[i]
    BY <1>8, <2>1 DEF SetPhase, ApplyCancellation, ActiveStates, TypeOK
  <2>3. \A i \in Jobs : Phase(i)' = Phase(i)
    BY <2>1, <2>2, PhaseOfState DEF Phase
  <2>4. QED
    BY <1>8, <2>3, LifecycleStutter DEF SetPhase, ApplyCancellation
<1>9. ASSUME NEW w \in Workers, NEW s \in ActiveStates, SaveCheckpoint(w, s)
      PROVE  Goal
  <2> DEFINE j == ctx[w].job
  <2>1. j \in Jobs /\ state[j] \in ActiveStates /\ ctx[w].units = checkpoint[j]
    BY <1>9, OwnerIsActive DEF SaveCheckpoint, Working, FenceInv
  <2>2. state'[j] \in ActiveStates /\ \A i \in Jobs \ {j} : state'[i] = state[i]
    BY <1>9, <2>1 DEF SaveCheckpoint, TypeOK
  <2>3. \A i \in Jobs : Phase(i)' = Phase(i)
    BY <2>1, <2>2, PhaseOfState DEF Phase
  <2>4. Phase(j) = "running"
    BY <2>1, PhaseOfState DEF Phase
  <2>5. Lifecycle!Advance(j)
    BY <1>9, <2>1, <2>3, <2>4 DEF Lifecycle!Advance, SaveCheckpoint, Phase
  <2>6. QED
    BY <2>1, <2>5 DEF Lifecycle!Next
<1>10. ASSUME NEW w \in Workers, NEW s \in HandlerOutcomes,
              Park(w) \/ Fail(w) \/ Complete(w, s) \/ (FinishCancelled(w) /\ Fenced(w))
       PROVE  Goal
  <2>1. PICK j \in Jobs : j = ctx[w].job /\ state[j] \in ActiveStates
    BY <1>10, OwnerIsActive DEF Park, Fail, Complete, FinishCancelled, Working
  <2>2. PICK t \in JobStates : state' = [state EXCEPT ![j] = t]
           /\ t \in TerminalStates \union {"QUEUED", "WAITING_FOR_CAPACITY"}
    BY <1>10, <2>1 DEF Park, Fail, Complete, FinishCancelled, ReleaseAs, HandlerOutcomes,
                 TerminalStates, JobStates
  <2>3. UNCHANGED <<version, checkpoint, reap>>
    BY <1>10 DEF Park, Fail, Complete, FinishCancelled
  <2>4. Phase(j) = "running" /\ \A i \in Jobs \ {j} : Phase(i)' = Phase(i)
    BY <2>1, <2>2, PhaseOfState DEF Phase, TypeOK
  <2>5. Phase(j)' = LifecyclePhase(t)
    BY <2>1, <2>2 DEF Phase, TypeOK
  <2>6. CASE t \in TerminalStates
    <3>1. Phase(j)' = "done"
      BY <2>5, <2>6, PhaseOfState
    <3>2. Lifecycle!Next
      BY <2>1, <2>3, <2>4, <3>1, LifecycleRelease
    <3>3. QED
      BY <3>2
  <2>7. CASE t \in {"QUEUED", "WAITING_FOR_CAPACITY"}
    <3>1. Phase(j)' = "waiting"
      BY <2>5, <2>7, PhaseOfState
    <3>2. Lifecycle!Next
      BY <2>1, <2>3, <2>4, <3>1, LifecycleRelease
    <3>3. QED
      BY <3>2
  <2>8. QED
    BY <2>2, <2>6, <2>7
<1>11. ASSUME NEW w \in Workers, FinishCancelled(w), ~Fenced(w)
       PROVE  Goal
  BY <1>11, LifecycleStutter DEF FinishCancelled, Phase
<1>13. CASE UNCHANGED vars
  BY <1>13, LifecycleStutter DEF vars, jobVars, Phase
<1>14. PICK u \in HandlerOutcomes : TRUE
  BY DEF HandlerOutcomes
<1>15. PICK p \in Phases : TRUE
  OBVIOUS
<1>16. QED
  BY <1>2, <1>3, <1>4, <1>5, <1>6, <1>7, <1>8, <1>9, <1>10, <1>11, <1>13, <1>14,
     <1>15 DEF Next, WorkerStep, HandlerEnds

(* Leases, zombies, the reaper and cancellation never show above the table:  *)
(* every behaviour of the runtime is one of JobLifecycle.                    *)
THEOREM ImplementsLifecycle == Spec => LifecycleSpec
<1>1. Init => Lifecycle!Init
  BY PhaseOfState DEF Init, Lifecycle!Init, NoReap
<1>2. TypeOK /\ FenceInv /\ LeaseShape /\ [Next]_vars => [Lifecycle!Next]_(Lifecycle!vars)
  BY LifecycleStep
<1>3. QED
  BY <1>1, <1>2, TypeCorrect, FenceInvariant, LeasesAreWhole,
     PTL DEF Spec, LifecycleSpec, Lifecycle!Spec

=============================================================================
