----------------------------- MODULE Admission -----------------------------
(***************************************************************************)
(* The use cases behind the v6 API (application/usecases) and the webhook  *)
(* consumer of the v6 worker: a campaign is admitted and enqueued, leads   *)
(* are decided upon and their contacts read in the clear, and what was     *)
(* decided is to reach the endpoints that the organization registered.     *)
(* Every with-block of a unit of work is one step; between two of them any *)
(* other call may run, and a process may stop.                             *)
(***************************************************************************)
EXTENDS Naturals, Sequences, FiniteSets

CONSTANTS
    Requests,      \* POST /campaigns in flight
    MaxConcurrent, \* max_concurrent_jobs of the plan
    Managers,      \* owners and admins deciding or reading
    Leads,         \* lead projections
    Policies,      \* policy versions that may be published
    Blocking,      \* those of them that block lead.outreach
    MaxDecisions,  \* bound: calls of decide
    BatchSize,     \* relay_batch_size
    MaxEmits       \* bound: events of the outbox

VARIABLES
    campaign,  \* campaigns: what is committed of each request
    desk,      \* leads, the policy in force, decisions, calls under way
    outbox     \* events.outbox in order: type, published

admissionVars == <<campaign, desk, outbox>>

NoCall == [pc |-> "idle", lead |-> "none", policy |-> "none", approve |-> FALSE]

AdmissionInit ==
    /\ campaign = [at |-> [r \in Requests |-> "idle"], rows |-> {}, jobs |-> {}]
    /\ desk = [state |-> [l \in Leads |-> "READY_FOR_REVIEW"], policy |-> "none",
               decisions |-> {}, sent |-> {}, audit |-> {}, given |-> {},
               call |-> [m \in Managers |-> NoCall], calls |-> 0]
    /\ outbox = <<>>

(***************************************************************************)
(* Campaigns.                                                              *)
(***************************************************************************)

\* Mutant of AfterCount: the job is enqueued before the campaign is committed.
AfterCountEnqueue(r) ==
    campaign' = [campaign EXCEPT !.at[r] = "committed", !.jobs = @ \cup {r}]

AfterCount(r) ==
    campaign' = [campaign EXCEPT !.at[r] = "committed", !.rows = @ \cup {r}]

\* plan_for_org and active_count, each in a transaction of its own.
CountJobs(r) ==
    /\ campaign.at[r] = "idle"
    /\ campaign' = [campaign EXCEPT !.at[r] =
                      IF Cardinality(campaign.jobs) >= MaxConcurrent
                      THEN "refused" ELSE "counted"]

CommitCampaign(r) == campaign.at[r] = "counted" /\ AfterCount(r)

EnqueueJob(r) ==
    /\ campaign.at[r] = "committed"
    /\ campaign' = [campaign EXCEPT !.at[r] = "created", !.jobs = @ \cup {r}]

ProcessStops(r) ==
    /\ campaign.at[r] \in {"counted", "committed"}
    /\ campaign' = [campaign EXCEPT !.at[r] = "lost"]

JobEnds(r) ==
    /\ r \in campaign.jobs
    /\ campaign' = [campaign EXCEPT !.jobs = @ \ {r}]

CampaignNext ==
    /\ \E r \in Requests :
         \/ CountJobs(r) \/ CommitCampaign(r) \/ EnqueueJob(r)
         \/ ProcessStops(r) \/ JobEnds(r)
    /\ UNCHANGED <<desk, outbox>>

(***************************************************************************)
(* Review: one transaction that reads the lead and the policy, records the *)
(* decision, and moves the row under a guard that is checked again when    *)
(* it is written.                                                          *)
(***************************************************************************)

\* A newer policy version takes over, at any moment.
PublishPolicy ==
    \E p \in Policies :
      /\ p # desk.policy
      /\ desk' = [desk EXCEPT !.policy = p] /\ UNCHANGED outbox

ReadLead(m) ==
    /\ desk.call[m].pc = "idle" /\ desk.calls < MaxDecisions
    /\ \E l \in Leads, approve \in BOOLEAN :
         desk' = [desk EXCEPT !.calls = @ + 1,
                    !.call[m] = [pc |-> "decide", lead |-> l, policy |-> desk.policy,
                                 approve |-> approve]]
    /\ UNCHANGED outbox

Verdict(p) == IF p = "none" \/ p \in Blocking THEN "BLOCKED" ELSE "ALLOWED"
Recorded(c) == [lead |-> c.lead, policy |-> c.policy, verdict |-> Verdict(c.policy)]

\* No policy, or an approval that the policy blocks: only the refusal is kept.
Refuses(c) == c.policy = "none" \/ (c.approve /\ Verdict(c.policy) = "BLOCKED")
RefuseDecision(m) ==
    LET c == desk.call[m]
    IN /\ c.pc = "decide" /\ Refuses(c)
       /\ desk' = [desk EXCEPT !.decisions = @ \cup {Recorded(c)}, !.call[m] = NoCall]
       /\ UNCHANGED outbox

\* Mutant of Awaits: decide_lead updates whatever the state is.
AwaitsAny(l) == TRUE

\* decide_lead: AND state = 'READY_FOR_REVIEW'.
Awaits(l) == desk.state[l] = "READY_FOR_REVIEW"

DecideLead(m) ==
    LET c == desk.call[m]
        state == IF c.approve THEN "APPROVED" ELSE "REJECTED"
    IN /\ c.pc = "decide" /\ ~Refuses(c)
       /\ IF Awaits(c.lead)
          THEN /\ desk' = [desk EXCEPT !.state[c.lead] = state,
                             !.decisions = @ \cup {Recorded(c)},
                             !.sent = @ \cup {<<c.lead, state>>}, !.call[m] = NoCall]
               /\ IF Len(outbox) < MaxEmits
                  THEN outbox' = Append(outbox, [type |-> "lead", published |-> FALSE])
                  ELSE UNCHANGED outbox
          ELSE desk' = [desk EXCEPT !.call[m] = NoCall] /\ UNCHANGED outbox

\* ContactPiiReader: the state is checked in one transaction, the address is
\* decrypted and its audit row written in the next.
CheckApproved(m) ==
    /\ desk.call[m].pc = "idle" /\ desk.calls < MaxDecisions
    /\ \E l \in Leads :
         /\ desk.state[l] = "APPROVED"
         /\ desk' = [desk EXCEPT !.calls = @ + 1,
                       !.call[m] = [NoCall EXCEPT !.pc = "decrypt", !.lead = l]]
    /\ UNCHANGED outbox

Decrypt(m) ==
    LET c == desk.call[m]
    IN /\ c.pc = "decrypt"
       /\ desk' = [desk EXCEPT !.audit = @ \cup {c.lead}, !.call[m].pc = "give"]
       /\ UNCHANGED outbox

Give(m) ==
    /\ desk.call[m].pc = "give"
    /\ desk' = [desk EXCEPT !.given = @ \cup {desk.call[m].lead}, !.call[m] = NoCall]
    /\ UNCHANGED outbox

ReviewNext ==
    /\ \/ PublishPolicy
       \/ \E m \in Managers :
            \/ ReadLead(m) \/ RefuseDecision(m) \/ DecideLead(m)
            \/ CheckApproved(m) \/ Decrypt(m) \/ Give(m)
    /\ UNCHANGED campaign

(***************************************************************************)
(* The relay of the v6 worker, whose consumer is WebhookDispatchConsumer   *)
(* itself.                                                                 *)
(***************************************************************************)

EmitPlain ==
    /\ Len(outbox) < MaxEmits
    /\ outbox' = Append(outbox, [type |-> "plain", published |-> FALSE])

Unpublished == {i \in 1..Len(outbox) : ~outbox[i].published}
Fetched == {i \in Unpublished : Cardinality({k \in Unpublished : k < i}) < BatchSize}

\* __call__ hands _endpoints the database as the organization: a TypeError for
\* every event of DELIVERED_TYPES, whatever is registered.
Raises(e) == e.type = "lead"

RelayTick ==
    /\ Fetched # {}
    /\ outbox' = [i \in 1..Len(outbox) |->
                    IF i \in Fetched /\ ~Raises(outbox[i])
                    THEN [outbox[i] EXCEPT !.published = TRUE] ELSE outbox[i]]

WebhookNext == (EmitPlain \/ RelayTick) /\ UNCHANGED <<campaign, desk>>

AdmissionNext == CampaignNext \/ ReviewNext \/ WebhookNext

AdmissionSpec ==
    AdmissionInit /\ [][AdmissionNext]_admissionVars
    /\ WF_admissionVars(RelayTick /\ UNCHANGED <<campaign, desk>>)

(***************************************************************************)
(* Properties.                                                             *)
(***************************************************************************)

\* A worker never claims an acquisition job whose campaign is not there yet
\* (_plan would fail the attempt with "campaign not found").
JobHasCampaign == campaign.jobs \subseteq campaign.rows

\* Not so with two requests at once: "Entitlements are enforced BEFORE the job
\* row exists" (campaigns.py:14): an organization never has more jobs than its
\* plan allows.
WithinPlan == Cardinality(campaign.jobs) <= MaxConcurrent

\* However many managers decide at once, a lead is decided once and announced with
\* the state it has, under a policy that existed and did not block it.
OneVerdict ==
    \A l \in Leads :
      /\ {s \in {"APPROVED", "REJECTED"} : <<l, s>> \in desk.sent}
           = {desk.state[l]} \ {"READY_FOR_REVIEW"}
      /\ desk.state[l] = "APPROVED" =>
           \E d \in desk.decisions : d.lead = l /\ d.verdict = "ALLOWED"

\* A contact leaves the vault for outreach only with an audit row, and only of a
\* lead that is still approved when it is handed out.
OutreachIsApproved ==
    desk.given \subseteq {l \in desk.audit : desk.state[l] = "APPROVED"}

\* "each published event of a subscribed type is POSTed" (webhook_consumer.py:4): an
\* event is some time handed to its endpoints and marked as published.
EventsArePosted ==
    \A i \in 1..MaxEmits : i \in Unpublished ~> i \notin Unpublished

\* What the use cases in front of and behind a run keep to, however many managers
\* and requests there are.
UseCasesHold == JobHasCampaign /\ OneVerdict /\ OutreachIsApproved

=============================================================================
