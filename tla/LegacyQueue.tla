---------------------------- MODULE LegacyQueue ----------------------------
(***************************************************************************)
(* The job queue of lead_engine in worker mode: queue.py, jobs.py, the     *)
(* worker tick, and the two kinds of run it drives, the research           *)
(* orchestrator and the discovery pipeline, with the API calls that meet   *)
(* them.  A lease has an expiry and no token, so every write by id can hit *)
(* the row of another worker.  A job's row and its research context are    *)
(* tables; what a worker has read is in `me`.                              *)
(***************************************************************************)
EXTENDS Integers, FiniteSets

CONSTANTS
    Jobs,         \* job ids
    Workers,      \* worker processes
    MaxAttempts,  \* jobs.max_attempts
    PlanLimit,    \* max_jobs_per_day of the organisation
    MaxSteps,     \* budget of agent turns per job
    Subjects,     \* companies the research can come across, as numbers
    Causes,       \* why a verdict fails: of "answer" and "no provider"
    MaxFaults,    \* bound: exceptions, crashes, overrun leases, lost calls
    MaxReopened   \* bound: answers and resumes by users

ASSUME QueueAssumption ==
    /\ MaxAttempts \in Nat \ {0}
    /\ PlanLimit \in Nat /\ MaxSteps \in Nat
    /\ Subjects \subseteq Nat
    /\ "none" \notin Jobs

VARIABLES
    job,      \* rows of jobs
    ctx,      \* rows of research_context, research_facts and leads
    me,       \* what a worker process holds
    requeue,  \* jobs an API call has moved and not yet enqueued
    past,     \* what happened to a job, for the properties: leadless are the
              \* companies a slice has judged without making them a lead, and why
    faults, reopened

queueVars == <<job, ctx, me, requeue, past, faults, reopened>>

Phases == {"DISCOVERING", "RESEARCHING", "VERIFYING", "QUALIFYING"}
LeasedStates == Phases \cup {"RUNNING"}
InterruptedStates == LeasedStates \cup {"RESUMING", "DEGRADED"}
PhaseExits == LeasedStates \cup
    {"PAUSED", "FAILED", "CANCELLED", "WAITING_FOR_USER", "READY_FOR_REVIEW"}

Transitions ==
    [QUEUED           |-> {"RUNNING", "FAILED", "CANCELLED"},
     RUNNING          |-> {"DEGRADED", "COMPLETED"} \cup (PhaseExits \ {"RUNNING"}),
     DEGRADED         |-> {"RUNNING", "PAUSED", "COMPLETED", "FAILED", "CANCELLED"},
     PAUSED           |-> {"RESUMING", "FAILED", "CANCELLED"},
     RESUMING         |-> {"RUNNING", "PAUSED", "FAILED"},
     COMPLETED        |-> {}, FAILED |-> {}, CANCELLED |-> {},
     DISCOVERING      |-> PhaseExits, RESEARCHING |-> PhaseExits,
     VERIFYING        |-> PhaseExits, QUALIFYING  |-> PhaseExits,
     WAITING_FOR_USER |-> {"RUNNING", "CANCELLED", "FAILED"},
     READY_FOR_REVIEW |-> {"COMPLETED", "RUNNING", "CANCELLED", "FAILED"}]

LegacyStates == DOMAIN Transitions
Terminal == {"COMPLETED", "FAILED", "CANCELLED"}

\* counters_json holds the counters and the resume markers of a finalize;
\* every write of it replaces the whole document that was read before.
NoCounters == [steps |-> 0, fin |-> FALSE, tried |-> {}, verdicts |-> {}]
NoWrite == [steps |-> 0 - 1, fin |-> FALSE, tried |-> {}, verdicts |-> {}]

Idle == [pc |-> "tick", job |-> "none", saw |-> "none", todo |-> {},
         have |-> {}, write |-> NoWrite]
NoHistory == [lapsed |-> FALSE, refused |-> FALSE,
              paid |-> {}, twice |-> FALSE, leadless |-> {}]

QueueInit ==
    /\ job = [j \in Jobs |-> [state |-> "NEW", kind |-> "none", lease |-> "none",
                              due |-> "none", attempts |-> 0]]
    /\ ctx = [j \in Jobs |-> [plan |-> FALSE, counters |-> NoCounters,
                              facts |-> {}, leads |-> {}, asked |-> FALSE]]
    /\ me = [w \in Workers |-> Idle]
    /\ requeue = {}
    /\ past = [j \in Jobs |-> NoHistory]
    /\ faults = 0 /\ reopened = 0

Goes(w, p) == me' = [me EXCEPT ![w].pc = p]
Runs(w, j) == me[w].job = j
NobodyRuns(j) == \A w \in Workers : ~Runs(w, j)
Freed(r, s) == [r EXCEPT !.state = s, !.lease = "none"]

(* JobManager.transition, read as of its conditional UPDATE.  A worker on *)
(* whom it is refused leaves the run with an exception.                    *)
Admits(j, s) == s \in Transitions[job[j].state]
Transition(j, s) == Admits(j, s) /\ job' = [job EXCEPT ![j].state = s]
MoveTo(w, s, p) ==
    \/ Transition(me[w].job, s) /\ Goes(w, p)
    \/ ~Admits(me[w].job, s) /\ Goes(w, "fail") /\ UNCHANGED job

\* A counters_json document is read, changed and written back.
Change(w, new, p) ==
    me' = [me EXCEPT ![w].write = new, ![w].pc = p]

(***************************************************************************)
(* The API.                                                                *)
(***************************************************************************)

JobsToday ==
    Cardinality({j \in Jobs : job[j].state \notin {"NEW", "FAILED", "CANCELLED"}})

NewRow(j, kind) == [job EXCEPT ![j].state = "QUEUED", ![j].kind = kind]
Unmade(j, kind) == job[j].state = "NEW" /\ job[j].kind = kind

\* POST /api/jobs/start checks the plan before the row exists: meanwhile, others
\* may pass the check too.
CheckStart(j) ==
    /\ Unmade(j, "none") /\ JobsToday < PlanLimit
    /\ job' = [job EXCEPT ![j].kind = "pipeline"]
    /\ UNCHANGED <<ctx, me, requeue, past, faults, reopened>>

StartJob(j) ==
    /\ Unmade(j, "pipeline")
    /\ job' = NewRow(j, "pipeline")
    /\ requeue' = requeue \cup {j}
    /\ UNCHANGED <<ctx, me, past, faults, reopened>>

\* POST /api/v1/research checks it afterwards, counting the new row.
CreateResearch(j) ==
    /\ Unmade(j, "none")
    /\ job' = NewRow(j, "research")
    /\ LET allowed == JobsToday + 1 < PlanLimit IN
         /\ past' = [past EXCEPT ![j].refused = ~allowed]
         /\ requeue' = IF allowed THEN requeue \cup {j} ELSE requeue
    /\ UNCHANGED <<ctx, me, faults, reopened>>

\* The chat's start_research and a lead's RESEARCH_MORE do not check it.
StartResearch(j) ==
    /\ Unmade(j, "none")
    /\ job' = NewRow(j, "research")
    /\ requeue' = requeue \cup {j}
    /\ UNCHANGED <<ctx, me, past, faults, reopened>>

Enqueue(j) ==
    /\ j \in requeue
    /\ requeue' = requeue \ {j}
    /\ job' = [job EXCEPT ![j].state = "QUEUED"]
    /\ UNCHANGED <<ctx, me, past, faults, reopened>>

\* The process that serves the call dies before enqueue.
CallLost(j) ==
    /\ j \in requeue /\ faults < MaxFaults
    /\ requeue' = requeue \ {j}
    /\ faults' = faults + 1
    /\ UNCHANGED <<job, ctx, me, past, reopened>>

Cancel(j) ==
    /\ job[j].state # "NEW" /\ job[j].kind = "research"
    /\ Transition(j, "CANCELLED")
    /\ UNCHANGED <<ctx, me, requeue, past, faults, reopened>>

Reopens(j, s) ==
    /\ reopened < MaxReopened /\ reopened' = reopened + 1
    /\ Transition(j, s)
    /\ requeue' = requeue \cup {j}
    /\ UNCHANGED <<me, past, faults>>

Answer(j) ==
    /\ job[j].state = "WAITING_FOR_USER"
    /\ Reopens(j, "RUNNING")
    /\ ctx' = [ctx EXCEPT ![j].asked = FALSE]

Resume(j) ==
    /\ job[j].kind = "research" /\ UNCHANGED ctx
    /\ \/ job[j].state = "PAUSED" /\ Reopens(j, "RESUMING")
       \/ job[j].state = "READY_FOR_REVIEW" /\ Reopens(j, "RUNNING")

\* POST /jobs/recover pauses what no valid lease covers.
Recover(j) ==
    /\ job[j].state \in InterruptedStates /\ job[j].lease # "live"
    /\ Admits(j, "PAUSED")
    /\ reopened < MaxReopened /\ reopened' = reopened + 1
    /\ job' = [job EXCEPT ![j].state = "PAUSED", ![j].due = "later"]
    /\ UNCHANGED <<ctx, me, requeue, past, faults>>

\* POST /jobs/drain-queued.
Drain(j) ==
    /\ job[j].state = "QUEUED" /\ Transition(j, "CANCELLED")
    /\ UNCHANGED <<ctx, me, requeue, past, faults, reopened>>

(***************************************************************************)
(* The worker tick.                                                        *)
(***************************************************************************)

\* Mutant of LeaseExpired: the phases are not looked at.
LeaseExpiredRunning(j) == job[j].state = "RUNNING" /\ job[j].lease # "live" /\ NobodyRuns(j)

\* A lease that ran out, or a row without one that nobody touched for a day.
LeaseExpired(j) ==
    /\ job[j].state \in LeasedStates
    /\ \/ job[j].lease = "lapsed"
       \/ job[j].lease = "none" /\ NobodyRuns(j) /\ j \notin requeue

ReclaimExhausted(w) ==
    /\ me[w].pc = "tick" /\ Goes(w, "reclaim")
    /\ job' = [j \in Jobs |->
                 IF LeaseExpired(j) /\ job[j].attempts >= MaxAttempts
                 THEN Freed(job[j], "FAILED") ELSE job[j]]
    /\ UNCHANGED <<ctx, requeue, past, faults, reopened>>

\* The turn of expire_stale_paused and wake_due_paused.
PausedTurn(r, j) ==
    CASE r.state = "PAUSED" /\ r.due = "past" -> [r EXCEPT !.state = "RESUMING"]
      [] r.state = "PAUSED" /\ r.due = "none" /\ NobodyRuns(j) -> Freed(r, "CANCELLED")
      [] OTHER -> r

ReclaimExpired(w) ==
    /\ me[w].pc = "reclaim" /\ Goes(w, "lease")
    /\ job' = [j \in Jobs |->
                 IF LeaseExpired(j) THEN Freed(job[j], "QUEUED") ELSE PausedTurn(job[j], j)]
    /\ UNCHANGED <<ctx, requeue, past, faults, reopened>>

\* Mutants of Leasable: no lease check, no lapsed lease.
LeasableAnyway(j) ==
    /\ job[j].state \in {"QUEUED", "RESUMING"}
    /\ job[j].due # "later" /\ job[j].attempts < MaxAttempts
LeasableUnleased(j) ==
    /\ job[j].state \in {"QUEUED", "RESUMING"}
    /\ job[j].lease = "none" /\ job[j].due # "later"
    /\ job[j].attempts < MaxAttempts

Leasable(j) ==
    /\ job[j].state \in {"QUEUED", "RESUMING"}
    /\ job[j].lease # "live" /\ job[j].due # "later"
    /\ job[j].attempts < MaxAttempts

LeaseNext(w) ==
    /\ me[w].pc = "lease"
    /\ \E j \in Jobs :
         /\ Leasable(j)
         /\ job' = [job EXCEPT ![j].state = "RUNNING", ![j].lease = "live",
                               ![j].attempts = @ + 1]
         /\ me' = [me EXCEPT ![w] =
              [Idle EXCEPT !.job = j,
                 !.pc = IF job[j].kind = "research" THEN "enter" ELSE "pipe"]]
    /\ UNCHANGED <<ctx, requeue, past, faults, reopened>>

LeaseNothing(w) ==
    /\ me[w].pc = "lease" /\ \A j \in Jobs : ~Leasable(j)
    /\ me' = [me EXCEPT ![w] = Idle]
    /\ UNCHANGED <<job, ctx, requeue, past, faults, reopened>>

\* How a tick ends: each of these writes by job id alone.
Ends(w, row) ==
    /\ job' = [job EXCEPT ![me[w].job] = row]
    /\ me' = [me EXCEPT ![w] = Idle]
    /\ UNCHANGED <<ctx, requeue, past, faults, reopened>>

Complete(w) ==
    /\ me[w].pc = "complete"
    /\ Ends(w, Freed(job[me[w].job], "COMPLETED"))

Release(w) ==
    /\ me[w].pc = "settle" /\ me[w].saw \notin {"yielded", "PAUSED"}
    /\ Ends(w, [job[me[w].job] EXCEPT !.lease = "none"])

\* Mutant of YieldSlice: all attempts are given back.
YieldSliceReset(w) ==
    /\ me[w].pc = "settle" /\ me[w].saw = "yielded"
    /\ Ends(w, [Freed(job[me[w].job], "QUEUED") EXCEPT !.due = "none", !.attempts = 0])

YieldSlice(w) ==
    /\ me[w].pc = "settle" /\ me[w].saw = "yielded"
    /\ LET r == job[me[w].job] IN
         Ends(w, [Freed(r, "QUEUED") EXCEPT !.due = "none",
                    !.attempts = IF r.attempts > 0 THEN r.attempts - 1 ELSE 0])

\* Mutant of Retries: one attempt too few.
RetriesLess(j) == job[j].attempts < MaxAttempts - 1

Retries(j) == job[j].attempts < MaxAttempts

\* fail reads the attempts, then writes.
FailRead(w) ==
    /\ \/ me[w].pc = "fail"
       \/ me[w].pc = "settle" /\ me[w].saw = "PAUSED"
    /\ me' = [me EXCEPT ![w].pc = "failing",
                ![w].saw = IF Retries(me[w].job)
                           THEN "retry" ELSE "give up"]
    /\ UNCHANGED <<job, ctx, requeue, past, faults, reopened>>

Fail(w) ==
    /\ me[w].pc = "failing"
    /\ LET r == job[me[w].job] IN
         Ends(w, IF me[w].saw = "retry" THEN [Freed(r, "QUEUED") EXCEPT !.due = "later"]
                                        ELSE Freed(r, "FAILED"))

(***************************************************************************)
(* A research run: ResearchOrchestrator.run for the job of a worker.       *)
(***************************************************************************)

\* Mutant of Opening: the sweep is taken for done.
OpeningSwept(j) == IF ctx[j].counters.fin THEN "swept" ELSE "turn"

\* A pass that was cut off inside finalize goes on there.
Opening(j) ==
    CASE ctx[j].counters.fin -> "verify" [] ctx[j].plan -> "turn" [] OTHER -> "plan"

Enter(w) ==
    /\ me[w].pc = "enter"
    /\ LET j == me[w].job  s == job[j].state IN
         \/ s \in Terminal \cup {"PAUSED"} /\ Goes(w, "summary") /\ UNCHANGED job
         \/ s = "RUNNING" /\ Goes(w, Opening(j)) /\ UNCHANGED job
         \/ s \notin Terminal \cup {"PAUSED", "RUNNING"} /\ MoveTo(w, "RUNNING", Opening(j))
    /\ UNCHANGED <<ctx, requeue, past, faults, reopened>>

Plan(w) ==
    /\ me[w].pc = "plan" /\ MoveTo(w, "DISCOVERING", "planning")
    /\ UNCHANGED <<ctx, requeue, past, faults, reopened>>

Planned(w) ==
    /\ me[w].pc = "planning"
    /\ \/ ctx' = [ctx EXCEPT ![me[w].job].plan = TRUE] /\ Goes(w, "turn")
       \/ Goes(w, "capacity") /\ UNCHANGED ctx
    /\ UNCHANGED <<job, requeue, past, faults, reopened>>

\* The deadline of the tick: at the head of a round, during and after
\* the sweep, between two subjects.
OutOfTime(w) ==
    /\ me[w].pc \in {"turn", "sweep", "swept", "qualify"}
    /\ me' = [me EXCEPT ![w].pc = "settle", ![w].saw = "yielded"]
    /\ UNCHANGED <<job, ctx, requeue, past, faults, reopened>>

\* budget_check: the guardrail of turns; the others stop the loop the same way.
BudgetSpent(c) == c.steps >= MaxSteps

Turn(w) ==
    /\ me[w].pc = "turn"
    /\ LET j == me[w].job  c == ctx[j].counters IN
         CASE job[j].state \in Terminal \cup {"PAUSED", "WAITING_FOR_USER"} -> Goes(w, "summary")
           [] BudgetSpent(c) -> Goes(w, "finalize")
           [] OTHER -> Change(w, [c EXCEPT !.steps = @ + 1], "act")
    /\ UNCHANGED <<job, ctx, requeue, past, faults, reopened>>

\* Mutant of WriteCounters: the addresses tried are not kept.
WriteCountersUntried(w) ==
    /\ me[w].write # NoWrite
    /\ ctx' = [ctx EXCEPT ![me[w].job].counters = [me[w].write EXCEPT !.tried = {}]]
    /\ me' = [me EXCEPT ![w].write = NoWrite]
    /\ UNCHANGED <<job, requeue, past, faults, reopened>>

WriteCounters(w) ==
    /\ me[w].write # NoWrite
    /\ ctx' = [ctx EXCEPT ![me[w].job].counters = me[w].write]
    /\ me' = [me EXCEPT ![w].write = NoWrite]
    /\ UNCHANGED <<job, requeue, past, faults, reopened>>

\* A search saves what its results say at once: at most one new company.
Found(j) == {new \in SUBSET Subjects : Cardinality(new \ ctx[j].facts) <= 1}

\* One turn of the agent: it may find a company, ask the user, declare itself
\* done (or have stalled), or find no provider.
Act(w) ==
    /\ me[w].pc = "act"
    /\ LET j == me[w].job IN
         \/ \E new \in Found(j), p \in {"turn", "finalize"} :
              /\ ctx' = [ctx EXCEPT ![j].facts = @ \cup new]
              /\ Goes(w, p) /\ UNCHANGED job
         \/ \E p \in {"turn", "finalize"} :
              /\ ctx' = [ctx EXCEPT ![j].asked = TRUE]
              /\ Goes(w, p)
              /\ Transition(j, "WAITING_FOR_USER")
         \/ Goes(w, "capacity") /\ UNCHANGED <<job, ctx>>
    /\ UNCHANGED <<requeue, past, faults, reopened>>

\* pause is a transition and then a write of resume_at.
Capacity(w) ==
    /\ me[w].pc = "capacity" /\ MoveTo(w, "PAUSED", "pausing")
    /\ UNCHANGED <<ctx, requeue, past, faults, reopened>>

Pausing(w) ==
    /\ me[w].pc = "pausing"
    /\ job' = [job EXCEPT ![me[w].job].due = "later"]
    /\ IF job[me[w].job].kind = "research" THEN Goes(w, "summary")
       ELSE me' = [me EXCEPT ![w].pc = "settle", ![w].saw = "PAUSED"]
    /\ UNCHANGED <<ctx, requeue, past, faults, reopened>>

\* The summary of a research run reports the state the row has by then.
Summary(w) ==
    /\ me[w].pc = "summary"
    /\ me' = [me EXCEPT ![w].pc = "settle", ![w].saw = job[me[w].job].state]
    /\ UNCHANGED <<job, ctx, requeue, past, faults, reopened>>

Finalize(w) ==
    /\ me[w].pc = "finalize"
    /\ Change(w, [ctx[me[w].job].counters EXCEPT !.fin = TRUE], "verify")
    /\ UNCHANGED <<job, ctx, requeue, past, faults, reopened>>

Verify(w) ==
    /\ me[w].pc = "verify" /\ MoveTo(w, "VERIFYING", "sweep")
    /\ UNCHANGED <<ctx, requeue, past, faults, reopened>>

\* _verify_emails: one address of the job at a time, each one paid for.
VerifyEmail(w) ==
    /\ me[w].pc = "sweep"
    /\ LET j == me[w].job  c == ctx[j].counters IN
         IF ctx[j].facts \subseteq c.tried \/ job[j].state \in {"CANCELLED", "PAUSED"}
         THEN Goes(w, "swept") /\ UNCHANGED past
         ELSE \E s \in ctx[j].facts \ c.tried :
                /\ Change(w, [c EXCEPT !.tried = @ \cup {s}], "sweep")
                /\ past' = [past EXCEPT ![j].paid = @ \cup {s},
                                        ![j].twice = @ \/ s \in past[j].paid]
    /\ UNCHANGED <<job, ctx, requeue, faults, reopened>>

\* Mutant of Earned: the verdicts of earlier slices are not read back.
EarnedNone(c) == {}

Earned(c) == c.counters.verdicts

Qualifying(w) ==
    /\ me[w].pc = "swept"
    /\ LET c == ctx[me[w].job] IN
         \/ /\ Transition(me[w].job, "QUALIFYING")
            /\ me' = [me EXCEPT ![w].pc = "qualify", ![w].have = Earned(c),
                                ![w].todo = c.facts \ c.counters.verdicts]
            /\ past' = [past EXCEPT ![me[w].job].leadless = {}]
         \/ ~Admits(me[w].job, "QUALIFYING") /\ Goes(w, "fail") /\ UNCHANGED <<job, past>>
    /\ UNCHANGED <<ctx, requeue, faults, reopened>>

\* A subject gets a verdict, or an error that leaves it without one: qualify_
\* from_facts turns a missing provider into such an error too.
Qualify(w) ==
    /\ me[w].pc = "qualify"
    /\ LET j == me[w].job  m == me[w]  c == ctx[j].counters IN
         IF m.todo = {} \/ job[j].state \in {"CANCELLED", "PAUSED"}
         THEN Goes(w, "gate") /\ UNCHANGED past
         ELSE \/ \E s \in m.todo :
                   /\ me' = [me EXCEPT ![w].todo = @ \ {s}, ![w].have = @ \cup {s},
                                      ![w].write = [c EXCEPT !.verdicts = m.have \cup {s}]]
                   /\ UNCHANGED past
              \/ \E s \in m.todo, cause \in Causes :
                   /\ me' = [me EXCEPT ![w].todo = @ \ {s}]
                   /\ past' = [past EXCEPT ![j].leadless = @ \cup {<<s, cause>>}]
    /\ UNCHANGED <<job, ctx, requeue, faults, reopened>>

\* The leads are inserted, but for the subjects that the facts, as they are by now,
\* can only name; then the resume markers are dropped.
Gate(w) ==
    /\ me[w].pc = "gate"
    /\ LET j == me[w].job IN
         \E thin \in SUBSET me[w].have :
           /\ ctx' = [ctx EXCEPT ![j].leads = @ \cup (me[w].have \ thin)]
           /\ Change(w, [NoCounters EXCEPT !.steps = ctx[j].counters.steps], "review")
           /\ past' = [past EXCEPT ![j].paid = {},
                                   ![j].leadless = @ \cup (thin \X {"thin"})]
    /\ UNCHANGED <<job, requeue, faults, reopened>>

ReadyForReview(w) ==
    /\ me[w].pc = "review" /\ MoveTo(w, "READY_FOR_REVIEW", "summary")
    /\ UNCHANGED <<ctx, requeue, past, faults, reopened>>

(***************************************************************************)
(* A pipeline run: PipelineOrchestrator.run_job for the job of a worker.   *)
(***************************************************************************)

Pipe(w) ==
    /\ me[w].pc = "pipe"
    /\ IF job[me[w].job].state \in {"RUNNING", "DEGRADED"}
       THEN Goes(w, "stages") /\ UNCHANGED job
       ELSE MoveTo(w, "RUNNING", "stages")
    /\ UNCHANGED <<ctx, requeue, past, faults, reopened>>

RunStages(w) ==
    /\ me[w].pc = "stages"
    /\ \/ /\ ctx' = [ctx EXCEPT ![me[w].job].leads = Subjects]
          /\ \E p \in {"degrade", "wrap"} : Goes(w, p)
       \/ Goes(w, "capacity") /\ UNCHANGED ctx
    /\ UNCHANGED <<job, requeue, past, faults, reopened>>

Degrade(w) ==
    /\ me[w].pc = "degrade"
    /\ \/ Transition(me[w].job, "DEGRADED") /\ Goes(w, "wrap")
       \/ ~Admits(me[w].job, "DEGRADED") /\ Goes(w, "broken") /\ UNCHANGED job
    /\ UNCHANGED <<ctx, requeue, past, faults, reopened>>

\* A job somebody paused meanwhile is resumed and completed all the same.
Wrap(w) ==
    /\ me[w].pc = "wrap"
    /\ LET j == me[w].job IN
         CASE job[j].state = "PAUSED" ->
                /\ Goes(w, "wrap")
                /\ job' = [job EXCEPT ![j].state = "RUNNING"]
           [] Admits(j, "COMPLETED") ->
                Transition(j, "COMPLETED") /\ Goes(w, "complete")
           [] OTHER -> Goes(w, "broken") /\ UNCHANGED job
    /\ UNCHANGED <<ctx, requeue, past, faults, reopened>>

\* The handler of an exception fails the job and raises again.
Broken(w) ==
    /\ me[w].pc = "broken" /\ Goes(w, "fail")
    /\ LET s == job[me[w].job].state IN
         job' = IF s \notin Terminal THEN [job EXCEPT ![me[w].job].state = "FAILED"] ELSE job
    /\ UNCHANGED <<ctx, requeue, past, faults, reopened>>

(***************************************************************************)
(* Faults and time.                                                        *)
(***************************************************************************)

\* Anything in a run may raise: a pipeline run catches it first.
Raise(w) ==
    /\ me[w].job # "none" /\ faults < MaxFaults
    /\ me[w].pc \notin {"fail", "failing", "complete", "settle", "broken"}
    /\ faults' = faults + 1
    /\ me' = [me EXCEPT ![w].write = NoWrite,
                ![w].pc = IF me[w].pc \in {"stages", "degrade", "wrap"}
                          THEN "broken" ELSE "fail"]
    /\ UNCHANGED <<job, ctx, requeue, past, reopened>>

\* The process is killed; its next tick begins from nothing.
Die(w) ==
    /\ me[w].job # "none" /\ faults < MaxFaults
    /\ faults' = faults + 1
    /\ me' = [me EXCEPT ![w] = Idle]
    /\ UNCHANGED <<job, ctx, requeue, past, reopened>>

\* No heartbeat renews a lease: a run longer than the lease is a fault.
LeaseLapses(j) ==
    /\ job[j].lease = "live"
    /\ job' = [job EXCEPT ![j].lease = "lapsed"]
    /\ IF NobodyRuns(j) THEN UNCHANGED <<past, faults>>
       ELSE /\ faults < MaxFaults /\ faults' = faults + 1
            /\ past' = [past EXCEPT ![j].lapsed = TRUE]
    /\ UNCHANGED <<ctx, me, requeue, reopened>>

DueComes(j) ==
    /\ job[j].due = "later"
    /\ job' = [job EXCEPT ![j].due = "past"]
    /\ UNCHANGED <<ctx, me, requeue, past, faults, reopened>>

Research(w) ==
    \/ Enter(w) \/ Plan(w) \/ Planned(w) \/ OutOfTime(w)
    \/ Turn(w) \/ Act(w) \/ Summary(w) \/ Finalize(w) \/ Verify(w)
    \/ VerifyEmail(w) \/ Qualifying(w) \/ Qualify(w) \/ Gate(w) \/ ReadyForReview(w)

RunJob(w) == Pipe(w) \/ RunStages(w) \/ Degrade(w) \/ Wrap(w) \/ Broken(w)

Tick(w) ==
    \/ ReclaimExhausted(w) \/ ReclaimExpired(w)
    \/ LeaseNext(w) \/ LeaseNothing(w)
    \/ Complete(w) \/ Release(w) \/ YieldSlice(w) \/ FailRead(w) \/ Fail(w)

\* A worker does one thing after the other; a write under way comes first.
WorkerSteps(w) ==
    \/ WriteCounters(w)
    \/ /\ me[w].write = NoWrite
       /\ (Tick(w) \/ Research(w) \/ RunJob(w) \/ Capacity(w) \/ Pausing(w))

Users ==
    \E j \in Jobs :
      \/ CheckStart(j) \/ StartJob(j) \/ CreateResearch(j) \/ StartResearch(j) \/ Enqueue(j)
      \/ Cancel(j) \/ Answer(j) \/ Resume(j) \/ Recover(j) \/ Drain(j)

QueueNext ==
    \/ Users
    \/ \E w \in Workers : WorkerSteps(w) \/ Raise(w) \/ Die(w)
    \/ \E j \in Jobs : LeaseLapses(j) \/ DueComes(j) \/ CallLost(j)

QueueSpec == QueueInit /\ [][QueueNext]_queueVars

(***************************************************************************)
(* Properties.                                                             *)
(***************************************************************************)

\* The type invariant: rows, contexts and worker memory have their shape, and
\* lease_next never takes a job past max_attempts (queue.py:52).
QueueTypeOK ==
    /\ \A j \in Jobs :
         /\ job[j].state \in LegacyStates \cup {"NEW"}
         /\ job[j].kind \in {"none", "research", "pipeline"}
         /\ job[j].lease \in {"none", "live", "lapsed"}
         /\ job[j].due \in {"none", "later", "past"}
         /\ job[j].attempts \in 0 .. MaxAttempts
         /\ ctx[j].facts \subseteq Subjects /\ ctx[j].leads \subseteq Subjects
         /\ ctx[j].counters.tried \subseteq Subjects
         /\ ctx[j].counters.verdicts \subseteq Subjects
    /\ \A w \in Workers : me[w].job \in Jobs \cup {"none"} /\ me[w].todo \subseteq Subjects
    /\ requeue \subseteq Jobs

\* Two workers run one job only after a lease of it ran out under its worker:
\* no release, yield, failure, answer, resume or recovery hands out a job that
\* is still being run (queue.py:52-102 has no other lock).
ExclusiveUnlessLapsed ==
    \A j \in Jobs :
      Cardinality({w \in Workers : Runs(w, j)}) > 1 => past[j].lapsed

\* What reaches the review gate is complete: each company that was researched
\* has a lead, or the slice that brought the job there has judged it and found an
\* error, or too little to be a lead, however often the run was cut off, paused,
\* failed or resumed (orchestrator.py:264-288, 377-384).
ReviewIsComplete ==
    \A j \in Jobs :
      job[j].state = "READY_FOR_REVIEW" /\ job[j].kind = "research" /\ ~past[j].lapsed
        => \A s \in ctx[j].facts \ ctx[j].leads : \E e \in past[j].leadless : e[1] = s

\* Qualification starts from verified facts: every address was tried in the
\* sweep before a company is judged (orchestrator.py:276-281).
SweptBeforeJudged ==
    \A w \in Workers :
      me[w].pc = "qualify" /\ ~past[me[w].job].lapsed
        => ctx[me[w].job].facts \subseteq ctx[me[w].job].counters.tried

\* An address is paid for once per pass unless a worker died or was overrun
\* between the call and its mark (orchestrator.py:298-311).
EmailsPaidOnce ==
    \A j \in Jobs : past[j].twice => faults > 0

\* Each worker at a job is one of its counted attempts, those included that were
\* overrun: no yield gives back the attempt of a worker that is still at the job
\* (queue.py:80, 202-214).
TakingsCounted ==
    \A j \in Jobs : Cardinality({w \in Workers : Runs(w, j)}) <= job[j].attempts

\* Rows that have their shape, and one worker for each.
RowsAreHeld == QueueTypeOK /\ ExclusiveUnlessLapsed /\ TakingsCounted

\* The queue gives a research job up only when its attempts are used up, though
\* fail decides on attempts it read before (queue.py:223-242).
GivesUpExhausted ==
    [][\A j \in Jobs :
         /\ job[j].kind = "research" /\ ~past[j].lapsed
         /\ job[j].state # "FAILED" /\ job'[j].state = "FAILED"
         => job[j].attempts >= MaxAttempts]_queueVars

\* What of a row UnfencedLifecycle sees.
QueuePhase(r) ==
    CASE r.state = "NEW" -> "absent"
      [] r.state \in {"QUEUED", "RESUMING"} -> "waiting"
      [] r.state = "FAILED" /\ r.kind = "research" -> "given up"
      [] OTHER -> "out"

Unfenced == INSTANCE UnfencedLifecycle
    WITH phase <- [j \in Jobs |-> QueuePhase(job[j])],
         holders <- [j \in Jobs |-> {w \in Workers : Runs(w, j)}],
         overrun <- [j \in Jobs |-> past[j].lapsed],
         attempts <- [j \in Jobs |-> job[j].attempts],
         delivered <- [j \in Jobs |-> ctx[j].leads],
         Results <- Subjects

\* Rows, ticks, reapers, users and lost calls never show above the queue: a
\* second worker is let in only after a lease was overrun, takings are counted
\* and given back one by one, and leads are delivered by a holder only and
\* stay (queue.py:52-220).
UnfencedSpec == Unfenced!Spec

\* What is left of a job's life without a fence.
LifeIsKept == UnfencedSpec /\ GivesUpExhausted

\* A job whose worker is gone leaves its phase: reclaim_expired finds it by its
\* lease, or by its age where it has none (queue.py:112-142).
OrphansReclaimed ==
    \A j \in Jobs :
      (job[j].state \in LeasedStates /\ NobodyRuns(j))
        ~> (job[j].state \notin LeasedStates \/ ~NobodyRuns(j))

\* Queued work with attempts left is taken up, whatever left its old lease or
\* its backoff behind (queue.py:52-102).
WorkIsServed ==
    \A j \in Jobs :
      (job[j].state \in {"QUEUED", "RESUMING"} /\ job[j].attempts < MaxAttempts)
        ~> (job[j].state \notin {"QUEUED", "RESUMING"})

\* Not so, for the enqueue of a job just created overwrites a cancellation:
\* jobs.py:15 calls CANCELLED terminal.
CancelledIsFinal ==
    [][\A j \in Jobs : job[j].state = "CANCELLED" => job'[j].state = "CANCELLED"]_queueVars

\* Not so, for an answer may queue a job whose attempts are used up.
\* queue.py:174-175: a chronic failure ends in FAILED rather than looping, so no
\* job waits in the queue for good.
QueuedIsServed ==
    \A j \in Jobs :
      (job[j].state \in {"QUEUED", "RESUMING"})
        ~> (job[j].state \notin {"QUEUED", "RESUMING"})

\* Not so with "no provider" in Causes. router.py:9-11: a lack of providers
\* pauses a job and fails nothing, so it is no reason for a company to be without
\* a lead at the gate.
OutagePauses ==
    \A j \in Jobs :
      job[j].state = "READY_FOR_REVIEW" =>
        \A s \in ctx[j].facts \ ctx[j].leads : <<s, "no provider">> \notin past[j].leadless

\* Not so with a plan that refuses: the row is there before the check.
\* A job the plan refuses is never run (app.py:1659-1661 on the check's place).
RefusedNeverRuns == \A j \in Jobs : past[j].refused => NobodyRuns(j)
=============================================================================
