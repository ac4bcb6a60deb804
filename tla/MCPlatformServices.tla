------------------------- MODULE MCPlatformServices -------------------------
(***************************************************************************)
(* The services around the v6 job runtime on small instances. They share   *)
(* no state a property relates, so each behaviour moves one of them, the   *)
(* part picked at the start, with all its actors; the others rest.         *)
(***************************************************************************)
EXTENDS TLC, Admission, Intake, Sentinel, Wiring

CONSTANTS q1, q2, q3, m1, m2, l1, l2, j1, j2, p1, p2, p4, w1, w2, g1, k1, e1, e2

VARIABLE part
serviceVars == <<part, admissionVars, intakeVars, sentinelVars, wiringVars>>

MCSite == [p \in Pages |-> IF p = p4 THEN "d2" ELSE "d1"]
MCBrand == [p \in Pages |-> "a"]
MCMail == [p \in Pages |-> IF p = p1 THEN {"a1"} ELSE {}]
MCRank == [a1 |-> 1]

Entry(id, kind, cap, priority, var, enabled) ==
    [id |-> id, kind |-> kind, cap |-> cap, priority |-> priority, var |-> var,
     enabled |-> enabled]
MCFiles ==
    {<<>>,
     <<Entry("exa", "builtin", "search", 5, "EXA", TRUE),
       Entry("brave", "rest_search", "search", 30, "GEMINI", TRUE)>>,
     <<Entry("gemini", "builtin", "reasoning", 20, "GEMINI", TRUE)>>,
     <<Entry("brave", "typo", "search", 1, "none", TRUE)>>,
     <<Entry("brave", "rest_search", "search", 30, "EXA", FALSE),
       Entry("glm", "builtin", "reasoning", 1, "none", TRUE)>>}

\* The registration order of infrastructure/doctor/registry.py, in three stretches.
MCStretches ==
    <<{"db.latency", "db.migrations", "db.rls", "db.app_role", "queue.starved",
       "queue.stuck", "queue.orphaned", "verify.quality", "jobs.failing"},
      {"events.outbox", "events.dead_letters", "effects.uncertain",
       "honesty.zero_candidates", "schedule.stalled", "http.surface", "pii.plaintext"},
      {"workers.alive", "agent.approvals_stale", "sentinel.open_alerts", "pii.vault",
       "providers.health", "providers.configured", "models.gateway"}>>

Resting == boot.choice = "real" /\ boot.file = <<>> /\ \A v \in Vars : env[v].keys = 0

ServicesInit ==
    /\ AdmissionInit /\ IntakeInit /\ SentinelInit /\ WiringInit
    /\ part \in {"campaigns", "review", "webhooks", "intake", "sentinel", "doctor",
               "wiring"}
    /\ part # "wiring" => Resting

ServicesNext ==
    /\ UNCHANGED part
    /\ \/ /\ \/ part = "campaigns" /\ CampaignNext
             \/ part = "review" /\ ReviewNext
             \/ part = "webhooks" /\ WebhookNext
          /\ UNCHANGED <<intakeVars, sentinelVars, wiringVars>>
       \/ part = "intake" /\ IntakeNext /\ UNCHANGED <<admissionVars, sentinelVars, wiringVars>>
       \/ /\ \/ part = "sentinel" /\ (PlatformNext \/ RoundNext)
             \/ part = "doctor" /\ (PlatformNext \/ RequestNext)
          /\ UNCHANGED <<admissionVars, intakeVars, wiringVars>>
       \/ part = "wiring" /\ WiringNext /\ UNCHANGED <<admissionVars, intakeVars, sentinelVars>>

ServicesSpec == ServicesInit /\ [][ServicesNext]_serviceVars

Symmetry == Permutations({j1, j2}) \cup Permutations({w1, w2})
=============================================================================
