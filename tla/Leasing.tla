------------------------------ MODULE Leasing ------------------------------
(***************************************************************************)
(* The durable job runtime: the table runtime.jobs as runtime/leasing.py    *)
(* writes it, and the workers of runtime/worker.py that claim, run and      *)
(* release its rows.                                                        *)
(*                                                                          *)
(* Every column the protocol reads is a variable of its own.  Time is       *)
(* abstracted to what now() is compared with: the row's timer is the lease  *)
(* expiry of a leased row and the minimum age of a parked one.  What a      *)
(* handler does with its job is left open: it may call the fenced surface   *)
(* (JobOps) in any order, stall for as long as it likes, and go on after    *)
(* its lease was taken away.  The checkpoint is the number of units of work *)
(* it records.                                                              *)
(***************************************************************************)
EXTENDS Integers, FiniteSets

CONSTANTS
  Jobs,         \* job ids
  NoJob,        \* the job of a worker that has none
  Workers,      \* worker processes
  MaxAttempts,  \* runtime.jobs.max_attempts
  Phases,       \* the ACTIVE_STATES a handler works in
  Batch,        \* the reaper's batch (50 in the code)
  MaxClaims,    \* bound: claims of one job
  MaxUnits      \* bound: units of work recorded in a checkpoint

ASSUME NoJobAssumption == NoJob \notin Jobs
ASSUME JobsAssumption == IsFiniteSet(Jobs)
ASSUME PhasesAssumption ==
  /\ Phases \subseteq {"PLANNING", "DISCOVERING", "RESEARCHING", "ENRICHING",
                       "VERIFYING", "SCORING", "QUALIFYING"}
  /\ "PLANNING" \in Phases
ASSUME MaxAttemptsAssumption == MaxAttempts \in Nat \ {0}
ASSUME BatchAssumption == Batch \in Nat \ {0}
ASSUME BoundsAssumption == MaxClaims \in Nat /\ MaxUnits \in Nat

ActiveStates == Phases \union {"CANCELLING"}
TerminalStates == {"READY_FOR_REVIEW", "CANCELLED", "FAILED", "PARTIAL_SUCCESS"}
\* ABSENT: the row is not inserted yet.
JobStates == ActiveStates \union TerminalStates
               \union {"ABSENT", "QUEUED", "WAITING_FOR_CAPACITY"}

VARIABLES
  state, token, version, timer, attempts, cancelRequested, checkpoint,
  issued,   \* how many lease tokens gen_random_uuid() has returned
  pc,       \* where each worker is in run_once
  ctx,      \* the JobContext each worker holds
  reap,     \* the rows a reaper's subselects returned, until its UPDATEs run
  overtaken \* history: the rows a reaper overwrote though they had changed since

jobVars == <<state, token, version, timer, attempts, cancelRequested, checkpoint>>
vars == <<jobVars, issued, pc, ctx, reap, overtaken>>

NoCtx == [job |-> NoJob, token |-> 0, version |-> 0, units |-> 0]
NoReap == [failed |-> {}, requeued |-> {}, spent |-> {}]

Reaps == [failed : SUBSET Jobs, requeued : SUBSET Jobs, spent : SUBSET Jobs]

TypeOK ==
  /\ state \in [Jobs -> JobStates]
  /\ token \in [Jobs -> Nat]              \* 0 is NULL
  /\ version \in [Jobs -> Nat]
  /\ timer \in [Jobs -> {"off", "running", "elapsed"}]
  /\ attempts \in [Jobs -> Nat]
  /\ cancelRequested \in [Jobs -> BOOLEAN]
  /\ checkpoint \in [Jobs -> Nat]
  /\ issued \in Nat
  /\ pc \in [Workers -> {"reclaim", "reaping", "wake", "claim", "handle",
                         "cancelling", "dead"}]
  /\ ctx \in [Workers -> [job : Jobs \union {NoJob}, token : Nat,
                          version : Nat, units : Nat]]
  /\ reap \in [Workers -> Reaps]
  /\ overtaken \subseteq Jobs

Init ==
  /\ state = [j \in Jobs |-> "ABSENT"]
  /\ token = [j \in Jobs |-> 0]
  /\ version = [j \in Jobs |-> 0]
  /\ timer = [j \in Jobs |-> "off"]
  /\ attempts = [j \in Jobs |-> 0]
  /\ cancelRequested = [j \in Jobs |-> FALSE]
  /\ checkpoint = [j \in Jobs |-> 0]
  /\ issued = 0
  /\ pc = [w \in Workers |-> "reclaim"]
  /\ ctx = [w \in Workers |-> NoCtx]
  /\ reap = [w \in Workers |-> NoReap]
  /\ overtaken = {}

-----------------------------------------------------------------------------
(* The world outside the workers: clients and the clock.                     *)

CreateJob(j) ==
  /\ state[j] = "ABSENT"
  /\ state' = [state EXCEPT ![j] = "QUEUED"]
  /\ UNCHANGED <<token, version, timer, attempts, cancelRequested, checkpoint,
                 issued, pc, ctx, reap, overtaken>>

\* request_cancel is not fenced.  It touches updated_at, which is what a parked
\* row's minimum age is counted from.
RequestCancel(j) ==
  /\ state[j] \notin {"ABSENT", "READY_FOR_REVIEW", "CANCELLED", "FAILED"}
  /\ cancelRequested' = [cancelRequested EXCEPT ![j] = TRUE]
  /\ timer' = IF state[j] = "WAITING_FOR_CAPACITY"
                THEN [timer EXCEPT ![j] = "running"] ELSE timer
  /\ UNCHANGED <<state, token, version, attempts, checkpoint,
                 issued, pc, ctx, reap, overtaken>>

Elapse(j) ==
  /\ timer[j] = "running"
  /\ timer' = [timer EXCEPT ![j] = "elapsed"]
  /\ UNCHANGED <<state, token, version, attempts, cancelRequested, checkpoint,
                 issued, pc, ctx, reap, overtaken>>

-----------------------------------------------------------------------------
(* run_maintenance: the reaper, then the wake-up of parked jobs.             *)

\* Mutant: the reaper forgets the CANCELLING jobs.
ExpiredInPhase == {j \in Jobs : state[j] \in Phases /\ timer[j] = "elapsed"}

Expired == {j \in Jobs : state[j] \in ActiveStates /\ timer[j] = "elapsed"}
Exhausted == {j \in Expired : attempts[j] >= MaxAttempts}

\* SELECT ... LIMIT n over the rows S.
Limited(S, n) ==
  {T \in SUBSET S : IF Cardinality(S) <= n THEN T = S ELSE Cardinality(T) = n}

\* What the two subselects of reclaim_expired return: now() is the time of the
\* transaction, so both see the same leases lapsed.  History: which of the rows
\* had their attempts spent.
Reapable ==
  {r \in Reaps :
     /\ r.failed \in Limited(Exhausted, Batch)
     /\ r.requeued \in Limited(Expired \ r.failed, Batch - Cardinality(r.failed))
     /\ r.spent = (r.failed \union r.requeued) \intersect Exhausted}

ReclaimRead(w) ==
  /\ pc[w] = "reclaim"
  /\ \E r \in Reapable : reap' = [reap EXCEPT ![w] = r]
  /\ pc' = [pc EXCEPT ![w] = "reaping"]
  /\ UNCHANGED <<jobVars, issued, ctx, overtaken>>

\* The rows that are no longer as the subselects saw them.
Outdated(r) ==
  {j \in r.failed \union r.requeued : j \notin Expired \/ (j \in Exhausted) # (j \in r.spent)}

\* The two UPDATEs.  Their WHERE clause is only id IN (the subselect): under READ
\* COMMITTED a row that another transaction changed between the subselect and
\* the row's lock is written all the same.
ReclaimWrite(w) ==
  LET r == reap[w]
  IN /\ pc[w] = "reaping"
     /\ state' = [j \in Jobs |-> IF j \in r.failed THEN "FAILED"
                                 ELSE IF j \in r.requeued THEN "QUEUED" ELSE state[j]]
     /\ token' = [j \in Jobs |-> IF j \in r.failed \union r.requeued THEN 0 ELSE token[j]]
     /\ timer' = [j \in Jobs |->
                    IF j \in r.failed \union r.requeued THEN "off" ELSE timer[j]]
     /\ overtaken' = overtaken \union Outdated(r)
     /\ reap' = [reap EXCEPT ![w] = NoReap]
     /\ pc' = [pc EXCEPT ![w] = "wake"]
     /\ UNCHANGED <<version, attempts, cancelRequested, checkpoint, issued, ctx>>

Wakeable == {j \in Jobs : state[j] = "WAITING_FOR_CAPACITY" /\ timer[j] = "elapsed"}

WakeParked(w) ==
  /\ pc[w] = "wake"
  /\ state' = [j \in Jobs |-> IF j \in Wakeable THEN "QUEUED" ELSE state[j]]
  /\ timer' = [j \in Jobs |-> IF j \in Wakeable THEN "off" ELSE timer[j]]
  /\ pc' = [pc EXCEPT ![w] = "claim"]
  /\ UNCHANGED <<token, version, attempts, cancelRequested, checkpoint,
                 issued, ctx, reap, overtaken>>

-----------------------------------------------------------------------------
(* Claiming.                                                                 *)

\* Mutant: one attempt short.
ClaimableOnceLess(j) == state[j] = "QUEUED" /\ attempts[j] + 1 < MaxAttempts

Claimable(j) == state[j] = "QUEUED" /\ attempts[j] < MaxAttempts

\* Mutant: lease_version is not incremented.
ClaimNextSameVersion(w, j) ==
  /\ pc[w] = "claim"
  /\ Claimable(j)
  /\ state' = [state EXCEPT ![j] = "PLANNING"]
  /\ issued' = issued + 1
  /\ token' = [token EXCEPT ![j] = issued + 1]
  /\ timer' = [timer EXCEPT ![j] = "running"]
  /\ attempts' = [attempts EXCEPT ![j] = @ + 1]
  /\ ctx' = [ctx EXCEPT ![w] = [job |-> j, token |-> issued + 1,
                                version |-> version[j], units |-> checkpoint[j]]]
  /\ pc' = [pc EXCEPT ![w] = "handle"]
  /\ UNCHANGED <<version, cancelRequested, checkpoint, reap, overtaken>>

ClaimNext(w, j) ==
  /\ pc[w] = "claim"
  /\ Claimable(j)
  /\ version[j] < MaxClaims
  /\ state' = [state EXCEPT ![j] = "PLANNING"]
  /\ issued' = issued + 1
  /\ token' = [token EXCEPT ![j] = issued + 1]
  /\ version' = [version EXCEPT ![j] = @ + 1]
  /\ timer' = [timer EXCEPT ![j] = "running"]
  /\ attempts' = [attempts EXCEPT ![j] = @ + 1]
  /\ ctx' = [ctx EXCEPT ![w] = [job |-> j, token |-> issued + 1,
                                version |-> version[j] + 1,
                                units |-> checkpoint[j]]]
  /\ pc' = [pc EXCEPT ![w] = "handle"]
  /\ UNCHANGED <<cancelRequested, checkpoint, reap, overtaken>>

\* claim_next returned no row: sleep, then the next cycle.
ClaimNothing(w) ==
  /\ pc[w] = "claim"
  /\ \A j \in Jobs : ~(Claimable(j) /\ version[j] < MaxClaims)
  /\ pc' = [pc EXCEPT ![w] = "reclaim"]
  /\ UNCHANGED <<jobVars, issued, ctx, reap, overtaken>>

-----------------------------------------------------------------------------
(* The fenced surface (JobOps) and the end of run_once.                      *)

\* Mutant: fenced on the job's state, not on its lease.
FencedByState(w) == ctx[w].job \in Jobs /\ state[ctx[w].job] \in ActiveStates

Fenced(w) ==
  /\ ctx[w].job \in Jobs
  /\ token[ctx[w].job] = ctx[w].token
  /\ version[ctx[w].job] = ctx[w].version

NextCycle(w) ==
  /\ pc' = [pc EXCEPT ![w] = "reclaim"]
  /\ ctx' = [ctx EXCEPT ![w] = NoCtx]

\* heartbeat is fenced on the token alone; a lost lease only returns False.
Beats(w) ==
  /\ token[ctx[w].job] = ctx[w].token
  /\ state[ctx[w].job] \notin {"READY_FOR_REVIEW", "CANCELLED", "FAILED"}

Heartbeat(w) ==
  /\ pc[w] = "handle"
  /\ Beats(w)
  /\ timer' = [timer EXCEPT ![ctx[w].job] = "running"]
  /\ UNCHANGED <<state, token, version, attempts, cancelRequested, checkpoint,
                 issued, pc, ctx, reap, overtaken>>

\* Mutant: an UPDATE by id alone.
SetPhaseUnfenced(w, s) ==
  /\ pc[w] = "handle"
  /\ state' = [state EXCEPT ![ctx[w].job] = s]
  /\ timer' = [timer EXCEPT ![ctx[w].job] = "running"]
  /\ UNCHANGED <<token, version, attempts, cancelRequested, checkpoint,
                 issued, pc, ctx, reap, overtaken>>

SetPhase(w, s) ==
  /\ pc[w] = "handle"
  /\ Fenced(w)
  /\ state' = [state EXCEPT ![ctx[w].job] = s]
  /\ timer' = [timer EXCEPT ![ctx[w].job] = "running"]
  /\ UNCHANGED <<token, version, attempts, cancelRequested, checkpoint,
                 issued, pc, ctx, reap, overtaken>>

\* Mutant: an UPDATE by id alone.
SaveCheckpointUnfenced(w, s) ==
  /\ pc[w] = "handle"
  /\ ctx[w].units < MaxUnits
  /\ s \in Phases \union {state[ctx[w].job]}
  /\ checkpoint' = [checkpoint EXCEPT ![ctx[w].job] = ctx[w].units + 1]
  /\ ctx' = [ctx EXCEPT ![w].units = @ + 1]
  /\ state' = [state EXCEPT ![ctx[w].job] = s]
  /\ timer' = [timer EXCEPT ![ctx[w].job] = "running"]
  /\ UNCHANGED <<token, version, attempts, cancelRequested, issued, pc, reap, overtaken>>

\* The state argument is optional: s = state[j] is the call without one.
SaveCheckpoint(w, s) ==
  /\ pc[w] = "handle"
  /\ Fenced(w)
  /\ ctx[w].units < MaxUnits
  /\ s \in Phases \union {state[ctx[w].job]}
  /\ checkpoint' = [checkpoint EXCEPT ![ctx[w].job] = ctx[w].units + 1]
  /\ ctx' = [ctx EXCEPT ![w].units = @ + 1]
  /\ state' = [state EXCEPT ![ctx[w].job] = s]
  /\ timer' = [timer EXCEPT ![ctx[w].job] = "running"]
  /\ UNCHANGED <<token, version, attempts, cancelRequested, issued, pc, reap, overtaken>>

\* Release: state, token and lease_expires_at in one write.
ReleaseAs(w, s) ==
  /\ state' = [state EXCEPT ![ctx[w].job] = s]
  /\ token' = [token EXCEPT ![ctx[w].job] = 0]

Park(w) ==
  /\ pc[w] = "handle"
  /\ Fenced(w)
  /\ ReleaseAs(w, "WAITING_FOR_CAPACITY")
  /\ timer' = [timer EXCEPT ![ctx[w].job] = "running"]
  /\ attempts' = [attempts EXCEPT ![ctx[w].job] = IF @ = 0 THEN 0 ELSE @ - 1]
  /\ NextCycle(w)
  /\ UNCHANGED <<version, cancelRequested, checkpoint, issued, reap, overtaken>>

Complete(w, s) ==
  /\ pc[w] = "handle"
  /\ Fenced(w)
  /\ ReleaseAs(w, s)
  /\ timer' = [timer EXCEPT ![ctx[w].job] = "off"]
  /\ NextCycle(w)
  /\ UNCHANGED <<version, attempts, cancelRequested, checkpoint, issued, reap, overtaken>>

\* Mutant: one attempt too many.
FailLate(w) ==
  /\ pc[w] = "handle"
  /\ Fenced(w)
  /\ ReleaseAs(w, IF attempts[ctx[w].job] > MaxAttempts THEN "FAILED" ELSE "QUEUED")
  /\ timer' = [timer EXCEPT ![ctx[w].job] = "off"]
  /\ NextCycle(w)
  /\ UNCHANGED <<version, attempts, cancelRequested, checkpoint, issued, reap, overtaken>>

Fail(w) ==
  /\ pc[w] = "handle"
  /\ Fenced(w)
  /\ ReleaseAs(w, IF attempts[ctx[w].job] >= MaxAttempts THEN "FAILED" ELSE "QUEUED")
  /\ timer' = [timer EXCEPT ![ctx[w].job] = "off"]
  /\ NextCycle(w)
  /\ UNCHANGED <<version, attempts, cancelRequested, checkpoint, issued, reap, overtaken>>

\* set_phase, save_checkpoint, park, complete or fail matched no row.
LeaseLost(w) ==
  /\ pc[w] = "handle"
  /\ ~Fenced(w)
  /\ NextCycle(w)
  /\ UNCHANGED <<jobVars, issued, reap, overtaken>>

CancelApplies(w) ==
  /\ Fenced(w)
  /\ cancelRequested[ctx[w].job]
  /\ state[ctx[w].job] # "CANCELLING"

ApplyCancellation(w) ==
  /\ pc[w] = "handle"
  /\ CancelApplies(w)
  /\ state' = [state EXCEPT ![ctx[w].job] = "CANCELLING"]
  /\ pc' = [pc EXCEPT ![w] = "cancelling"]
  /\ UNCHANGED <<token, version, timer, attempts, cancelRequested, checkpoint,
                 issued, ctx, reap, overtaken>>

\* finish_cancelled does not look at its row count: the handler goes on.
FinishCancelled(w) ==
  /\ pc[w] = "cancelling"
  /\ \/ /\ Fenced(w)
        /\ ReleaseAs(w, "CANCELLED")
        /\ timer' = [timer EXCEPT ![ctx[w].job] = "off"]
     \/ /\ ~Fenced(w)
        /\ UNCHANGED <<state, token, timer>>
  /\ pc' = [pc EXCEPT ![w] = "handle"]
  /\ UNCHANGED <<version, attempts, cancelRequested, checkpoint, issued, ctx, reap, overtaken>>

-----------------------------------------------------------------------------
(* Worker processes die at any point, open transactions roll back.           *)

Crash(w) ==
  /\ pc[w] # "dead"
  /\ pc' = [pc EXCEPT ![w] = "dead"]
  /\ ctx' = [ctx EXCEPT ![w] = NoCtx]
  /\ reap' = [reap EXCEPT ![w] = NoReap]
  /\ UNCHANGED <<jobVars, issued, overtaken>>

Restart(w) ==
  /\ pc[w] = "dead"
  /\ pc' = [pc EXCEPT ![w] = "reclaim"]
  /\ UNCHANGED <<jobVars, issued, ctx, reap, overtaken>>

\* Mutant: run_once completes a parked job with the handler's answer.
HandlerOutcomesRaw == {"READY_FOR_REVIEW", "PARTIAL_SUCCESS", "PARKED"}

HandlerOutcomes == {"READY_FOR_REVIEW", "PARTIAL_SUCCESS"}

\* The handler returns or raises.
HandlerEnds(w) ==
  \/ \E s \in HandlerOutcomes : Complete(w, s)
  \/ Park(w)
  \/ Fail(w)
  \/ LeaseLost(w)

WorkerStep(w) ==
  \/ ReclaimRead(w)
  \/ ReclaimWrite(w)
  \/ WakeParked(w)
  \/ \E j \in Jobs : ClaimNext(w, j)
  \/ ClaimNothing(w)
  \/ Heartbeat(w)
  \/ \E s \in Phases : SetPhase(w, s)
  \/ \E s \in ActiveStates : SaveCheckpoint(w, s)
  \/ HandlerEnds(w)
  \/ ApplyCancellation(w)
  \/ FinishCancelled(w)
  \/ Crash(w)
  \/ Restart(w)

Next ==
  \/ \E j \in Jobs : CreateJob(j) \/ RequestCancel(j) \/ Elapse(j)
  \/ \E w \in Workers : WorkerStep(w)

Spec == Init /\ [][Next]_vars

-----------------------------------------------------------------------------
(* Fairness.  Worker processes are restarted (the scheduled job of the       *)
(* deployment), of processes that are restarted again and again one gets     *)
(* through the reaper some time, handlers end, and clocks advance.           *)

Fairness ==
  /\ \A j \in Jobs : WF_vars(Elapse(j))
  /\ SF_vars(\E w \in Workers : ReclaimRead(w))
  /\ SF_vars(\E w \in Workers : ReclaimWrite(w))
  /\ \A w \in Workers :
       /\ WF_vars(Restart(w))
       /\ WF_vars(WakeParked(w))
       /\ WF_vars(ClaimNothing(w) \/ \E j \in Jobs : ClaimNext(w, j))
       /\ WF_vars(HandlerEnds(w))
       /\ WF_vars(FinishCancelled(w))

FairSpec == Spec /\ Fairness

-----------------------------------------------------------------------------
(* Properties.                                                               *)

Working(w) == pc[w] \in {"handle", "cancelling"}

\* A row has a lease token exactly while it is in an active state, and a timer
\* exactly while it is leased or parked: no write path releases half a lease,
\* which would leave a row that neither the reaper nor claim_next ever selects.
LeaseShape ==
  \A j \in Jobs :
    /\ state[j] \in ActiveStates <=> token[j] # 0
    /\ timer[j] # "off" <=> state[j] \in ActiveStates \union {"WAITING_FOR_CAPACITY"}

\* Fencing: of all the workers that still believe they run a job, however many
\* were reaped, parked or restarted meanwhile, at most one passes its fence.
OneOwner ==
  \A v, w \in Workers :
    /\ Working(v) /\ Fenced(v)
    /\ Working(w) /\ Fenced(w)
    /\ ctx[v].job = ctx[w].job
    => v = w

\* Recorded progress is never lost: a resumed attempt continues from the last
\* checkpoint and no zombie ever writes an older one over it.
ProgressKept ==
  [][\A j \in Jobs : checkpoint'[j] >= checkpoint[j]]_vars

\* Attempt accounting across fail, park and the reaper: no job is ever run more
\* often than its budget.  Unless a reaper has overtaken it, a job waits in the
\* queue or parked only with an attempt left to claim it with, so it is never
\* stranded there, and it is FAILED only when every attempt was used.
BudgetExact ==
  \A j \in Jobs :
    /\ attempts[j] <= MaxAttempts
    /\ j \notin overtaken =>
         /\ state[j] \in {"QUEUED", "WAITING_FOR_CAPACITY"} => attempts[j] < MaxAttempts
         /\ state[j] = "FAILED" => attempts[j] = MaxAttempts

\* Not so for the reaper, whose UPDATE can put back a job that its worker finished
\* in the meantime.  Fencing makes the reaper safe: a finished job never runs
\* again, and an old worker that writes after the reaper took its job loses.
DoneIsFinal ==
  [][\A j \in Jobs : state[j] \in TerminalStates => state'[j] = state[j]]_vars

\* The reaper's overwriting is the only way out of a terminal state: no zombie,
\* wake-up, claim or cancellation takes a job out of one or puts it into another,
\* nor does a reaper that finds the lease as its subselect saw it.
DoneUnlessOvertaken ==
  [][\A j \in Jobs :
       state[j] \in TerminalStates /\ j \notin overtaken' => state'[j] = state[j]]_vars

\* A job whose worker died, or gave it up, is taken back from it.
Orphaned(j) ==
  /\ state[j] \in ActiveStates
  /\ \A w \in Workers : ~(Working(w) /\ ctx[w].job = j /\ Fenced(w))

OrphanRecovered == \A j \in Jobs : Orphaned(j) ~> ~Orphaned(j)

-----------------------------------------------------------------------------
(* The runtime implements JobLifecycle.                                      *)

LifecyclePhase(s) ==
  CASE s = "ABSENT" -> "absent"
    [] s \in {"QUEUED", "WAITING_FOR_CAPACITY"} -> "waiting"
    [] s \in ActiveStates -> "running"
    [] s \in TerminalStates -> "done"

Lifecycle == INSTANCE JobLifecycle
  WITH phase <- [j \in Jobs |-> LifecyclePhase(state[j])],
       epoch <- version,
       progress <- checkpoint,
       doubted <- UNION {reap[w].failed \union reap[w].requeued : w \in Workers}

\* With every lease, zombie, reaper and cancellation below it, the table still
\* behaves as JobLifecycle says: a job is taken from its worker, or out of its
\* end, only by a reaper that saw it running.
LifecycleSpec == Lifecycle!Spec

=============================================================================
