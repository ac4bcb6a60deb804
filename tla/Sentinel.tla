------------------------------ MODULE Sentinel ------------------------------
(***************************************************************************)
(* The doctor of the v6 platform (application/doctor, infrastructure/      *)
(* doctor): checks that read what the other components left behind, and    *)
(* the alerts that the maintenance round of every worker keeps about them. *)
(* Ages are "new" and "old": on which side of its check's threshold a row  *)
(* lies; Tick carries everything over at once.                             *)
(***************************************************************************)
EXTENDS Naturals, FiniteSets, Sequences

CONSTANTS
    Watchers,   \* workers, each with a maintenance round
    Readers,    \* requests of GET /api/v1/doctor
    Stretches,  \* the checks in the order they run, cut where another may step in
    Jobs,       \* rows of runtime.jobs
    Events,     \* rows of events.outbox
    Faults,     \* what a deployment may get wrong, a subset of AllFaults
    StreakFail, \* ZERO_CANDIDATE_STREAK_FAIL
    Crashable,  \* checks whose query may raise
    MaxChanges, \* bound: what happens on the platform
    MaxTicks,   \* bound: steps of the clock
    MaxRuns     \* bound: maintenance rounds of a worker

VARIABLES
    platform,  \* what the checks read
    alerts,    \* the open rows of runtime.alerts
    watch      \* each worker's round and each request, with its report so far

sentinelVars == <<platform, alerts, watch>>

AllFaults == {"none", "drifted", "missing", "unforced", "leaking", "superuser",
              "slow", "jitter", "fakes", "fakemodel", "nogateway", "nosurface",
              "broken", "sluggish"}

Checks ==
    {"db.latency", "db.migrations", "db.rls", "db.app_role", "queue.starved",
     "queue.stuck", "queue.orphaned", "verify.quality", "jobs.failing",
     "events.outbox", "events.dead_letters", "effects.uncertain",
     "honesty.zero_candidates", "schedule.stalled", "http.surface",
     "pii.plaintext", "workers.alive", "agent.approvals_stale",
     "sentinel.open_alerts", "pii.vault", "providers.health",
     "providers.configured", "models.gateway"}

\* In the code each check is a stretch of its own, with its own transactions.
ASSUME SentinelAssumption ==
    /\ Stretches \in Seq(SUBSET Checks) /\ Stretches # <<>>
    /\ UNION {Stretches[i] : i \in DOMAIN Stretches} = Checks

Doctors == Watchers \cup Readers

NoJob == [state |-> "none", born |-> "new", lease |-> "none", org |-> TRUE]
NoReport == [c \in Checks |-> "none"]
\* History: out holds the outages that have lasted since the report was begun.
Idle == [pc |-> "idle", report |-> NoReport, n |-> 0, out |-> {}, seen |-> {},
         run |-> 0, alone |-> TRUE]

SentinelInit ==
    /\ platform = [jobs |-> [j \in Jobs |-> NoJob], finished |-> <<>>,
                   events |-> [e \in Events |-> "none"],
                   effect |-> "none", approval |-> "none",
                   calls |-> [ok |-> 0, failed |-> 0],
                   beats |-> [w \in Watchers |-> "none"],
                   verified |-> {}, leak |-> FALSE, fault |-> "none",
                   changes |-> 0, ticks |-> 0]
    /\ alerts = {}
    /\ watch = [d \in Doctors |-> Idle]

(***************************************************************************)
(* The checks, over the state p of the platform.                           *)
(***************************************************************************)
InState(p, states) == {j \in Jobs : p.jobs[j].state \in states}
Pending(p) == {e \in Events : p.events[e] \in {"new", "old"}}
Fail(cond) == IF cond THEN "FAIL" ELSE "OK"
Warn(cond) == IF cond THEN "WARN" ELSE "OK"

\* The best of three probes.
Samples(p) == CASE p.fault = "slow" -> {"slow"}
                [] p.fault = "jitter" -> {"slow", "fast"}
                [] OTHER -> {"fast"}

DbLatency(p) == Warn("fast" \notin Samples(p))
Migrations(p) == Fail(p.fault \in {"drifted", "missing"})
RlsEnforced(p) == Fail(p.fault \in {"unforced", "leaking"})
AppRole(p) == Fail(p.fault = "superuser")

\* The age looked at is that of the job created last: max(created_at).
QueueStarved(p) ==
    LET queued == InState(p, {"QUEUED"})
    IN  Fail(queued # {} /\ \A j \in queued : p.jobs[j].born = "old")

StuckJobs(p) == Fail(\E j \in InState(p, {"RUNNING"}) : p.jobs[j].lease = "expired")
OrphanedJobs(p) == Fail(\E j \in InState(p, {"QUEUED"}) : ~p.jobs[j].org)
FailingJobs(p) == Warn(\E j \in InState(p, {"FAILED"}) : p.jobs[j].lease = "recent")

\* Mutant of OutboxStall: the newest event decides.
OutboxStallNewest(p) == Fail(Pending(p) # {} /\ \A e \in Pending(p) : p.events[e] = "old")

\* The oldest event decides: min(created_at).
OutboxStall(p) == Fail(\E e \in Pending(p) : p.events[e] = "old")

DeadLetters(p) == Fail(\E e \in Events : p.events[e] = "dead")
UncertainEffects(p) == Warn(p.effect = "old")

\* A streak of empty runs, the last ones that ended.
EmptyStreak(p) ==
    /\ Len(p.finished) >= StreakFail
    /\ \A i \in 1..StreakFail : p.finished[i] = "PARTIAL_SUCCESS"

ZeroCandidates(p) ==
    IF EmptyStreak(p) THEN "FAIL"
    ELSE Warn(\E j \in InState(p, {"PARTIAL_SUCCESS"}) : p.jobs[j].lease = "recent")

ScheduleStalled(p) ==
    Warn(\A j \in Jobs : p.jobs[j].state = "none" \/ p.jobs[j].born = "old")

HttpSurface(p) == CASE p.fault = "broken" -> "FAIL"
                    [] p.fault \in {"sluggish", "nosurface"} -> "WARN"
                    [] OTHER -> "OK"

\* Three checks look at one organization, and warn where there is none.
Plaintext(p, org) == IF org THEN Fail(p.leak) ELSE "WARN"
Verification(p, org) == IF org THEN Warn("UNKNOWN" \in p.verified) ELSE "WARN"
VaultRoundtrip(org) == Warn(~org)

WorkersAlive(p) ==
    IF \A w \in Watchers : p.beats[w] = "none" THEN "WARN"
    ELSE Fail(\A w \in Watchers : p.beats[w] # "fresh")

StaleApprovals(p) == Warn(p.approval = "old")
OpenAlerts(open) == Warn(open # {})
ProviderHealth(p) == Fail(p.calls.failed >= 3 /\ p.calls.ok = 0)

ProvidersConfigured(p, production) ==
    CASE p.fault = "nogateway" -> "WARN"
      [] p.fault = "fakes" -> IF production THEN "FAIL" ELSE "WARN"
      [] OTHER -> "OK"

Models(p) == Warn(p.fault \in {"nogateway", "fakemodel"})

Finding(c, p, open, org, production) ==
    CASE c = "db.latency" -> DbLatency(p)
      [] c = "db.migrations" -> Migrations(p)
      [] c = "db.rls" -> RlsEnforced(p)
      [] c = "db.app_role" -> AppRole(p)
      [] c = "queue.starved" -> QueueStarved(p)
      [] c = "queue.stuck" -> StuckJobs(p)
      [] c = "queue.orphaned" -> OrphanedJobs(p)
      [] c = "verify.quality" -> Verification(p, org)
      [] c = "jobs.failing" -> FailingJobs(p)
      [] c = "events.outbox" -> OutboxStall(p)
      [] c = "events.dead_letters" -> DeadLetters(p)
      [] c = "effects.uncertain" -> UncertainEffects(p)
      [] c = "honesty.zero_candidates" -> ZeroCandidates(p)
      [] c = "schedule.stalled" -> ScheduleStalled(p)
      [] c = "http.surface" -> HttpSurface(p)
      [] c = "pii.plaintext" -> Plaintext(p, org)
      [] c = "workers.alive" -> WorkersAlive(p)
      [] c = "agent.approvals_stale" -> StaleApprovals(p)
      [] c = "sentinel.open_alerts" -> OpenAlerts(open)
      [] c = "pii.vault" -> VaultRoundtrip(org)
      [] c = "providers.health" -> ProviderHealth(p)
      [] c = "providers.configured" -> ProvidersConfigured(p, production)
      [] c = "models.gateway" -> Models(p)

\* Doctor.run, over a stretch of the checks; one that raises is a failure.
Report(report, stretch, p, open, org, production, boom) ==
    [c \in Checks |-> IF c \notin stretch THEN report[c]
                      ELSE IF c \in boom THEN "FAIL"
                      ELSE Finding(c, p, open, org, production)]

\* What a report may not pass over, told without the checks' own queries.
Outages(p) ==
    {c \in {"events.outbox", "queue.stuck", "queue.orphaned", "workers.alive",
            "providers.health", "effects.uncertain", "db.migrations"} :
        CASE c = "events.outbox" -> \E e \in Events : p.events[e] = "old"
          [] c = "queue.stuck" ->
               \E j \in Jobs : p.jobs[j].state = "RUNNING" /\ p.jobs[j].lease = "expired"
          [] c = "queue.orphaned" ->
               \E j \in Jobs : p.jobs[j].state = "QUEUED" /\ ~p.jobs[j].org
          [] c = "workers.alive" -> \A w \in Watchers : p.beats[w] # "fresh"
          [] c = "providers.health" -> p.calls = [ok |-> 0, failed |-> 3]
          [] c = "effects.uncertain" -> p.effect = "old"
          [] c = "db.migrations" -> p.fault \in {"drifted", "missing"}}

\* The rounds once the platform is p: an outage that is over has not lasted.
Lasting(p) == [d \in Doctors |-> [watch[d] EXCEPT !.out = @ \cap Outages(p)]]

(***************************************************************************)
(* What happens on the platform, as far as the checks can see it.          *)
(***************************************************************************)
Change(p) ==
    /\ platform.changes < MaxChanges
    /\ platform' = [p EXCEPT !.changes = @ + 1]
    /\ watch' = Lasting(platform') /\ UNCHANGED alerts

Enqueue(j) ==
    /\ platform.jobs[j].state = "none"
    /\ Change([platform EXCEPT !.jobs[j].state = "QUEUED"])

Claim(j) ==
    /\ platform.jobs[j].state = "QUEUED"
    /\ Change([platform EXCEPT !.jobs[j].state = "RUNNING", !.jobs[j].lease = "live"])

\* For a job that has ended, lease says how long ago it ended.
Finish(j, state) ==
    /\ platform.jobs[j].state = "RUNNING"
    /\ Change([platform EXCEPT
                  !.jobs[j].state = state, !.jobs[j].lease = "recent",
                  !.finished = IF state = "FAILED" THEN @ ELSE <<state>> \o @])

DeleteOrg(j) == platform.jobs[j].org /\ Change([platform EXCEPT !.jobs[j].org = FALSE])

EmitEvent(e) == platform.events[e] = "none" /\ Change([platform EXCEPT !.events[e] = "new"])

BuryEvent(e) == e \in Pending(platform) /\ Change([platform EXCEPT !.events[e] = "dead"])

LoseAnswer == platform.effect = "none" /\ Change([platform EXCEPT !.effect = "new"])

CallProvider ==
    \/ platform.calls.ok = 0 /\ Change([platform EXCEPT !.calls.ok = 1])
    \/ platform.calls.failed = 0 /\ Change([platform EXCEPT !.calls.failed = 3])

VerifyEmail(v) == Change([platform EXCEPT !.verified = @ \cup {v}])

LeakDisplay == Change([platform EXCEPT !.leak = TRUE])

Deploy(f) == f # platform.fault /\ Change([platform EXCEPT !.fault = f])

Older(x) == CASE x = "new" -> "old" [] x = "live" -> "expired" [] x = "recent" -> "past"
              [] x = "fresh" -> "stale" [] x = "stale" -> "none" [] OTHER -> x

\* Dead letters leave the window of a day; a heartbeat is pruned after a week.
Tick ==
    /\ platform.ticks < MaxTicks
    /\ platform' = [platform EXCEPT
            !.ticks = @ + 1,
            !.jobs = [j \in Jobs |->
                IF @[j].state = "none" THEN @[j]
                ELSE [@[j] EXCEPT !.born = "old", !.lease = Older(@)]],
            !.events = [e \in Events |-> IF @[e] = "dead" THEN "gone" ELSE Older(@[e])],
            !.effect = Older(@), !.approval = Older(@), !.verified = {},
            !.calls = [ok |-> 0, failed |-> 0],
            !.beats = [w \in Watchers |-> Older(@[w])]]
    /\ watch' = Lasting(platform') /\ UNCHANGED alerts

PlatformNext ==
    \/ \E j \in Jobs :
          \/ Enqueue(j) \/ Claim(j) \/ DeleteOrg(j)
          \/ \E s \in {"FAILED", "PARTIAL_SUCCESS", "READY_FOR_REVIEW"} : Finish(j, s)
    \/ \E e \in Events : EmitEvent(e) \/ BuryEvent(e)
    \/ LoseAnswer \/ CallProvider \/ LeakDisplay
    \/ \E v \in {"VALID", "UNKNOWN"} : VerifyEmail(v)
    \/ \E f \in Faults : Deploy(f)
    \/ Tick

(***************************************************************************)
(* A worker's maintenance round: leases reclaimed, events relayed unless   *)
(* the consumer fails, uncertain effects flagged, old heartbeats pruned;   *)
(* then, one round in ten, the doctor; last the worker's own heartbeat.    *)
(***************************************************************************)
Reclaimed(p, exhausted) ==
    [j \in Jobs |->
        IF p.jobs[j].state # "RUNNING" \/ p.jobs[j].lease # "expired" THEN p.jobs[j]
        ELSE IF j \in exhausted THEN [p.jobs[j] EXCEPT !.state = "FAILED", !.lease = "recent"]
        ELSE [p.jobs[j] EXCEPT !.state = "QUEUED", !.lease = "none"]]

Maintain(w) ==
    /\ watch[w].pc = "idle" /\ watch[w].run < MaxRuns
    /\ \E exhausted \in SUBSET Jobs, relayed \in SUBSET Pending(platform) :
         platform' = [platform EXCEPT
            !.jobs = Reclaimed(platform, exhausted),
            !.events = [e \in Events |-> IF e \in relayed THEN "gone" ELSE @[e]],
            !.effect = IF @ = "old" THEN "flagged" ELSE @,
            !.approval = IF platform.effect = "old" THEN "new" ELSE @]
    /\ watch' = [Lasting(platform') EXCEPT ![w].pc = "maintained", ![w].run = @ + 1]
    /\ UNCHANGED alerts

\* GET /api/v1/doctor: the same checks for an organization, nothing written.
Ask(d) ==
    /\ watch[d].pc = "idle" /\ watch[d].run < MaxRuns
    /\ watch' = [watch EXCEPT ![d].pc = "maintained", ![d].run = @ + 1]
    /\ UNCHANGED <<platform, alerts>>

\* The next stretch of checks, over what is there when it is its turn.
Examine(d) ==
    /\ watch[d].pc \in {"maintained", "examining"}
    /\ \E production \in BOOLEAN, boom \in {{}} \cup {{c} : c \in Crashable} :
         LET n == watch[d].n + 1 IN
         watch' = [watch EXCEPT
            ![d].pc = IF n = Len(Stretches) THEN "examined" ELSE "examining",
            ![d].n = n,
            ![d].out = IF n = 1 THEN Outages(platform) ELSE @,
            ![d].report = Report(@, Stretches[n], platform, alerts, d \in Readers,
                                 production, boom)]
    /\ UNCHANGED <<platform, alerts>>

Answer(d) ==
    /\ watch[d].pc = "examined"
    /\ watch' = [watch EXCEPT ![d] = [Idle EXCEPT !.run = watch[d].run]]
    /\ UNCHANGED <<platform, alerts>>

\* write_alerts is one transaction, its selects (LIMIT 1) not locking what they find.
LookUp(w) ==
    /\ watch[w].pc = "examined"
    /\ LET open == {a \in alerts : watch[w].report[a.check] # "OK"}
       IN  \E seen \in SUBSET open :
             /\ {s.check : s \in seen} = {a.check : a \in open}
             /\ \A s, t \in seen : s.check = t.check => s = t
             /\ watch' = [watch EXCEPT ![w].pc = "looked", ![w].alone = TRUE, ![w].seen = seen]
    /\ UNCHANGED <<platform, alerts>>

SameRow(a, b) == <<a.check, a.by, a.run>> = <<b.check, b.by, b.run>>

\* Mutant of Settled: alerts of checks that are fine again stay open.
SettledNever(w) == alerts

\* The rows left open: those of checks that are still not OK.
Settled(w) == {a \in alerts : watch[w].report[a.check] # "OK"}

Opened(w) ==
    {[check |-> c, by |-> w, run |-> watch[w].run, status |-> watch[w].report[c]] :
        c \in {c \in Checks : /\ watch[w].report[c] # "OK"
                              /\ \A s \in watch[w].seen : s.check # c}}

WriteAlerts(w) ==
    /\ watch[w].pc = "looked"
    /\ alerts' = Opened(w) \cup
          {IF \E s \in watch[w].seen : SameRow(s, a)
           THEN [a EXCEPT !.status = watch[w].report[a.check]] ELSE a : a \in Settled(w)}
    /\ watch' = [d \in Doctors |->
          IF d = w THEN [Idle EXCEPT !.pc = "written", !.run = watch[w].run]
          ELSE [watch[d] EXCEPT !.alone = FALSE]]
    /\ UNCHANGED platform

Beat(w) ==
    /\ watch[w].pc \in {"maintained", "written"}
    /\ platform' = [platform EXCEPT !.beats[w] = "fresh"]
    /\ watch' = [Lasting(platform') EXCEPT ![w] = [Idle EXCEPT !.run = watch[w].run]]
    /\ UNCHANGED alerts

\* An error of the database leaves run_maintenance, and the process with it.
DoctorDies(d) ==
    /\ watch[d].pc # "idle"
    /\ watch' = [watch EXCEPT ![d] = [Idle EXCEPT !.run = watch[d].run]]
    /\ UNCHANGED <<platform, alerts>>

RoundNext == \E w \in Watchers :
    Maintain(w) \/ Examine(w) \/ LookUp(w) \/ WriteAlerts(w) \/ Beat(w) \/ DoctorDies(w)

RequestNext == \E d \in Readers : Ask(d) \/ Examine(d) \/ Answer(d) \/ DoctorDies(d)

SentinelNext == PlatformNext \/ RoundNext \/ RequestNext

SentinelSpec == SentinelInit /\ [][SentinelNext]_sentinelVars

(***************************************************************************)
(* Properties.                                                             *)
(***************************************************************************)
\* A report is read check by check while the platform moves on, so it may miss
\* what comes or goes meanwhile; but "the sentinel never fails silently"
\* (doctor.py:5): an outage that lasts from its first check to its last is in it,
\* an event that waits behind newer ones and the silence of all workers among
\* them, and is an open alert if it lasts until the alerts are written. A worker
\* that writes without another worker's write in between leaves exactly the
\* checks of its report open, each with a row that carries the report's status.
OutagesReachAlerts == [][
    \A d \in Doctors :
      /\ (watch[d].pc # "examined" /\ watch'[d].pc = "examined") =>
           \A c \in watch'[d].out : watch'[d].report[c] # "OK"
      /\ (watch[d].pc = "looked" /\ watch'[d].pc = "written" /\ watch[d].alone) =>
           /\ \A c \in watch[d].out : \E a \in alerts' : a.check = c
           /\ \A c \in Checks :
                IF watch[d].report[c] = "OK" THEN \A a \in alerts' : a.check # c
                ELSE \E a \in alerts' : a.check = c /\ a.status = watch[d].report[c]]_sentinelVars

\* Not so: a job older than the threshold in the queue passes unsaid if a newer
\* one waits behind it.
StarvedIsReported ==
    (\E j \in Jobs : platform.jobs[j].state = "QUEUED" /\ platform.jobs[j].born = "old")
        => QueueStarved(platform) = "FAIL"

\* Not so with two workers, whose selects see no row of each other's: one open
\* alert for each check.
OneAlertPerCheck == \A a, b \in alerts : a.check = b.check => a = b

=============================================================================
