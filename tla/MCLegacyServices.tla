-------------------------- MODULE MCLegacyServices --------------------------
(***************************************************************************)
(* The services of lead_engine around its job queue on small instances.    *)
(* They share no state a property relates, so each behaviour moves one of  *)
(* them, the part picked at the start, with all its actors.                *)
(***************************************************************************)
EXTENDS TLC, LegacyEvents, LegacyRouter, TruthLayer, AgentWork, Accounts, LegacyPipeline, Guards

CONSTANTS d1, d2, w1, w2, c1, c2, y1, y2

VARIABLE part
legacyVars == <<part, eventVars, auditVars, routerVars, truthVars, agentVars, accountVars,
                pipeVars, guardVars>>

MCOrder == <<"a", "b">>
MCKeys == [p \in {"a", "b"} |-> IF p = "a" THEN 2 ELSE 1]
MCLimit == [p \in {"a", "b"} |-> IF p = "a" THEN 0 ELSE 1]
MCKeyCap == [p \in {"a", "b"} |-> IF p = "a" THEN 1 ELSE 0]

MCProcess == [s \in Senders |-> IF s = "s3" THEN "p2" ELSE "p1"]

MCCities == <<"c1", "c2">>
Find(name, site, phone, email, branches) ==
    [name |-> name, site |-> site, phone |-> phone, email |-> email, branches |-> branches,
     fits |-> TRUE]
MCFinds == {Find("a", "A", "p", "none", 0), Find("b", "B", "p", "none", 0),
            Find("b", "none", "p", "none", 1), Find("a~", "social", "none", "m", 3),
            Find("d", "directory", "none", "none", 0)}
MCAlike(m, n) == CASE {m, n} = {"a", "a~"} -> "review"
                   [] {m, n} = {"b", "a~"} -> "merge"
                   [] OTHER -> "separate"
MCPolicies ==
    {[known |-> {"company_public_data", "professional_contact"}, review |-> {},
      barred |-> {}, approved |-> {"search_api"}, purpose |-> TRUE],
     [known |-> {"company_public_data"}, review |-> {}, barred |-> {},
      approved |-> {"search_api"}, purpose |-> TRUE]}

MCSpellings == {[address |-> "a", typed |-> "A "], [address |-> "a", typed |-> "a"]}
MCEnabled == {{"email"}, {"all"}}

Parts == {"events", "audit", "router", "facts", "lead", "icp", "runs", "patches",
          "provision", "billing", "integration", "sync", "pipeline", "limiter", "gate"}

LegacyInit ==
    /\ EventsInit /\ RouterInit /\ TruthInit /\ AgentInit /\ AccountsInit
    /\ PipeInit /\ GuardsInit
    /\ part \in Parts
    /\ part # "router" => \A p \in ProviderNames : provider[p].used = 0
    /\ part # "pipeline" => acq.policy.known = {"company_public_data"}

LegacyNext ==
    /\ UNCHANGED part
    /\ \/ /\ \/ part = "events" /\ EventsNext
             \/ part = "audit" /\ AuditNext
          /\ UNCHANGED <<routerVars, truthVars, agentVars, accountVars, pipeVars, guardVars>>
       \/ /\ part = "router" /\ RouterNext
          /\ UNCHANGED <<eventVars, auditVars, truthVars, agentVars, accountVars, pipeVars, guardVars>>
       \/ /\ \/ part = "facts" /\ FactsNext
             \/ part = "lead" /\ LeadNext
             \/ part = "icp" /\ IcpNext
          /\ UNCHANGED <<eventVars, auditVars, routerVars, agentVars, accountVars, pipeVars, guardVars>>
       \/ /\ \/ part = "runs" /\ RunsNext
             \/ part = "patches" /\ PatchesNext
          /\ UNCHANGED <<eventVars, auditVars, routerVars, truthVars, accountVars, pipeVars, guardVars>>
       \/ /\ \/ part = "provision" /\ ProvisionNext
             \/ part = "billing" /\ BillingNext
             \/ part = "integration" /\ IntegrationNext
             \/ part = "sync" /\ SyncNext
          /\ UNCHANGED <<eventVars, auditVars, routerVars, truthVars, agentVars, pipeVars, guardVars>>
       \/ /\ part = "pipeline" /\ PipeNext
          /\ UNCHANGED <<eventVars, auditVars, routerVars, truthVars, agentVars, accountVars, guardVars>>
       \/ /\ \/ part = "limiter" /\ LimiterNext
             \/ part = "gate" /\ GateNext
          /\ UNCHANGED <<eventVars, auditVars, routerVars, truthVars, agentVars, accountVars, pipeVars>>

LegacySpec == LegacyInit /\ [][LegacyNext]_legacyVars

\* A part has one pair of actors and leaves the other pairs where they start, so that
\* one permutation swaps the actors of every part.
Twins == {{d1, d2}, {w1, w2}, {c1, c2}, {y1, y2}}
Symmetry ==
    {f \in Permutations(UNION Twins) :
       \/ \A x \in UNION Twins : f[x] = x
       \/ \A x \in UNION Twins : f[x] # x /\ {x, f[x]} \in Twins}
=============================================================================
