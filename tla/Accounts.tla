------------------------------ MODULE Accounts ------------------------------
(***************************************************************************)
(* What lead_engine keeps about an organization with the help of others:   *)
(* its provisioning record, the plan its Stripe subscriptions pay for, its *)
(* OAuth connection to one provider, and the copy of a job in Supabase.    *)
(* The parts share no row; each is interrupted between its statements and  *)
(* the calls it makes, and Stripe, the OAuth provider and PostgREST do     *)
(* what their documentation lets them do.                                  *)
(***************************************************************************)
EXTENDS Naturals, FiniteSets, Sequences

CONSTANTS
    Calls,          \* calls of provision() for one organization
    Subscriptions,  \* Stripe subscriptions it may buy
    Senders,        \* threads that resolve a credential at send time
    Process,        \* [Senders -> processes]
    MaxTokens,      \* bound: refresh tokens the provider issues
    MaxSilences,    \* bound: lost answers and crashes of senders
    Syncs           \* calls of sync_job_to_supabase for one job

ASSUME AccountsAssumption == MaxTokens \in Nat /\ {"none", "new"} \cap Syncs = {}

VARIABLES
    tenant,  \* tenant_provisioning, and what each call of provision holds
    plan,    \* organizations.limits; the subscriptions and events at Stripe
    oauth,   \* integration_connections, the provider, what a sender holds
    crm      \* rows in Supabase, what a sync holds

accountVars == <<tenant, plan, oauth, crm>>

Paid == {"pro", "business"}
Rank == [free |-> 0, pro |-> 1, business |-> 2]
NoSub == [state |-> "none", claimed |-> "free", paid |-> "free", tagged |-> TRUE]
AtHome == [pc |-> "idle", refresh |-> 0, new |-> 0]

AccountsInit ==
    /\ tenant = [state |-> "none", at |-> [c \in Calls |-> "idle"], ready |-> {}]
    /\ plan = [limits |-> "free", known |-> "none", seen |-> {}, disorder |-> FALSE,
               subs |-> [s \in Subscriptions |-> NoSub], sent |-> <<>>]
    /\ oauth = [status |-> "none", access |-> FALSE, refresh |-> 0, near |-> FALSE,
                live |-> {}, issued |-> 0, usedBy |-> [t \in 1..MaxTokens |-> "none"],
                again |-> FALSE, lost |-> 0, at |-> [s \in Senders |-> AtHome]]
    /\ crm = [rows |-> {}, overlap |-> FALSE,
              at |-> [s \in Syncs |-> [step |-> 0, found |-> "none", pick |-> <<>>,
                                        known |-> {}]]]

(***************************************************************************)
(* provisioning.provision.                                                 *)
(***************************************************************************)

Successors(s) ==
    CASE s = "REQUESTED" -> {"PROVISIONING", "FAILED"}
      [] s = "PROVISIONING" -> {"ACTIVE", "FAILED"}
      [] s = "FAILED" -> {"PROVISIONING"}
      [] OTHER -> {}

Provisions(c, pc, state) == tenant' = [tenant EXCEPT !.at[c] = pc, !.state = state]

\* An ACTIVE tenant needs no provisioning; INSERT .. ON CONFLICT DO NOTHING.
AskStatus(c) ==
    /\ tenant.at[c] = "idle" /\ tenant.state # "ACTIVE"
    /\ Provisions(c, "start", tenant.state)
StartRecord(c) ==
    /\ tenant.at[c] = "start"
    /\ Provisions(c, "PROVISIONING?", IF tenant.state = "none" THEN "REQUESTED" ELSE tenant.state)

\* A call that is about to look whether it may go on to a state.
Asking == [PROVISIONING |-> "PROVISIONING?", ACTIVE |-> "ACTIVE?"]

\* _transition reads the state, then writes without a guard.
CheckTransition(c) ==
    \E to \in {"PROVISIONING", "ACTIVE"} :
      /\ tenant.at[c] = Asking[to]
      /\ Provisions(c, IF to \in Successors(tenant.state) THEN to ELSE "ended", tenant.state)
WriteTransition(c) ==
    \E to \in {"PROVISIONING", "ACTIVE"} :
      /\ tenant.at[c] = to
      /\ Provisions(c, IF to = "ACTIVE" THEN "ended" ELSE "validate", to)

\* Mutant of AfterStep: a failed step is only noted in the trail.
AfterStepNoted(step, ok) == IF step = "validate" THEN "infrastructure" ELSE "ACTIVE?"

AfterStep(step, ok) ==
    CASE ~ok -> "ended"
      [] ok /\ step = "validate" -> "infrastructure"
      [] OTHER -> "ACTIVE?"

\* A failed step writes FAILED whatever the state is by then.
RunStep(c) ==
    \E step \in {"validate", "infrastructure"}, ok \in BOOLEAN :
      /\ tenant.at[c] = step
      /\ tenant' = [tenant EXCEPT !.at[c] = AfterStep(step, ok),
                      !.state = IF ok THEN @ ELSE "FAILED",
                      !.ready = IF ok THEN @ \cup {<<c, step>>} ELSE @]

CallStops(c) ==
    /\ tenant.at[c] \notin {"idle", "ended"} /\ Provisions(c, "ended", tenant.state)

ProvisionNext ==
    /\ \E c \in Calls : \/ AskStatus(c) \/ StartRecord(c) \/ CheckTransition(c)
                        \/ WriteTransition(c) \/ RunStep(c) \/ CallStops(c)
    /\ UNCHANGED <<plan, oauth, crm>>

(***************************************************************************)
(* Billing: one handler for Stripe's events, delivered at least once.      *)
(***************************************************************************)

\* create_checkout names the organization and the plan; the price that was paid is
\* that of the plan, or of a smaller one on a session made elsewhere, whose
\* subscription may not be tagged with the organization.
Buy(s) ==
    /\ plan.subs[s].state = "none"
    /\ \E claimed \in Paid, tagged \in BOOLEAN :
       \E paid \in {p \in Paid : Rank[p] <= Rank[claimed]} :
         plan' = [plan EXCEPT !.sent = Append(@, [type |-> "completed", sub |-> s]),
           !.subs[s] = [state |-> "active", claimed |-> claimed, paid |-> paid,
                        tagged |-> tagged]]

\* Events of a subscription that Stripe reports; resuming is not one the handler
\* knows.
Turns(s) ==
    \E turn \in {<<"active", "paused">>, <<"active", "deleted">>, <<"paused", "active">>} :
      /\ plan.subs[s].state = turn[1] /\ Len(plan.sent) < 3 * Cardinality(Subscriptions)
      /\ plan' = [plan EXCEPT !.subs[s].state = turn[2],
                    !.sent = Append(@, [type |-> turn[2], sub |-> s])]

\* Mutant of EndsPlan: a paused subscription keeps its plan.
EndsPlanDeleted(e) == e.type = "deleted"

EndsPlan(e) == e.type \in {"deleted", "paused"}

\* _paid_plan: the line items, or nothing when they cannot be fetched.
Granted(s) ==
    LET sub == plan.subs[s]
        lesser == IF Rank[sub.paid] < Rank[sub.claimed] THEN sub.paid ELSE sub.claimed
    IN {lesser, sub.claimed}

\* The organization of an event: a session names it; a subscription does by its
\* metadata, or by its id when it is the last one that was recorded.
Attributed(e) ==
    e.type = "completed" \/ plan.subs[e.sub].tagged \/ plan.known = e.sub

StripeWebhook ==
    \E i \in 1..Len(plan.sent) :
      LET e == plan.sent[i]
          limits == IF e.type = "completed" THEN Granted(e.sub)
                    ELSE IF EndsPlan(e) /\ Attributed(e) THEN {"free"} ELSE {plan.limits}
      IN \E l \in limits :
           plan' = [plan EXCEPT !.limits = l, !.seen = @ \cup {i},
             !.known = IF e.type = "completed" THEN e.sub ELSE @,
             !.disorder = @ \/ i \in plan.seen \/ \E k \in 1..(i - 1) : k \notin plan.seen]

BillingNext ==
    /\ (\E s \in Subscriptions : Buy(s) \/ Turns(s)) \/ StripeWebhook
    /\ UNCHANGED <<tenant, oauth, crm>>

(***************************************************************************)
(* OAuth: refresh tokens may be good for one use.                          *)
(***************************************************************************)

Issue(o, t) == [o EXCEPT !.issued = t, !.live = @ \cup {t}]
MayIssue == oauth.issued < MaxTokens

\* build_authorization_url: the tokens stay.
StartConnect == oauth' = [oauth EXCEPT !.status = "pending"]

\* handle_callback: a token endpoint that gives no refresh token clears the old.
OauthCallback ==
    \/ oauth' = [oauth EXCEPT !.status = "error"]
    \/ oauth' = [oauth EXCEPT !.status = "connected", !.access = TRUE, !.near = FALSE,
                   !.refresh = 0]
    \/ /\ MayIssue
       /\ oauth' = [Issue(oauth, oauth.issued + 1) EXCEPT !.status = "connected",
                      !.access = TRUE, !.near = FALSE, !.refresh = oauth.issued + 1]

RevokeConnection ==
    /\ oauth.status # "none"
    /\ oauth' = [oauth EXCEPT !.status = "revoked", !.access = FALSE, !.refresh = 0]

NearsExpiry == oauth.access /\ oauth' = [oauth EXCEPT !.near = TRUE]

Refreshable == oauth.status = "connected" /\ oauth.access /\ oauth.near /\ oauth.refresh # 0
Sender(s, r) == oauth' = [oauth EXCEPT !.at[s] = r]

\* get_valid_access_token, when the token is about to expire; else it is returned.
LoadConnection(s) ==
    /\ oauth.at[s].pc = "idle" /\ Refreshable
    /\ Sender(s, [AtHome EXCEPT !.pc = "lock", !.refresh = oauth.refresh])

AcquireLock(s) ==
    /\ oauth.at[s].pc = "lock"
    /\ \A o \in Senders \ {s} : Process[o] = Process[s] => oauth.at[o].pc \in {"idle", "lock"}
    /\ Sender(s, [oauth.at[s] EXCEPT !.pc = "reread"])

\* Mutant of Reread: what was loaded before the lock is used.
RereadNone(s) == [oauth.at[s] EXCEPT !.pc = "post"]

Reread(s) == IF Refreshable THEN [AtHome EXCEPT !.pc = "post", !.refresh = oauth.refresh] ELSE AtHome

RereadLocked(s) == oauth.at[s].pc = "reread" /\ Sender(s, Reread(s))

\* The provider refuses a token that is used up, gives a new access token and, when
\* it rotates, a new refresh token, or its answer does not arrive.
PostRefresh(s) ==
    LET t == oauth.at[s].refresh
        asked == [oauth EXCEPT !.again = @ \/ (t \notin oauth.live /\ oauth.usedBy[t] = Process[s])]
        rotated == [Issue(asked, asked.issued + 1) EXCEPT
                      !.live = (@ \cup {asked.issued + 1}) \ {t}, !.usedBy[t] = Process[s]]
    IN /\ oauth.at[s].pc = "post"
       /\ \/ t \notin oauth.live /\ oauth' = [asked EXCEPT !.at[s] = AtHome]
          \/ t \in oauth.live /\ oauth' = [asked EXCEPT !.at[s].pc = "write"]
          \/ /\ t \in oauth.live /\ MayIssue
             /\ oauth' = [rotated EXCEPT !.at[s] =
                            [pc |-> "write", refresh |-> t, new |-> oauth.issued + 1]]

\* COALESCE keeps the refresh token of the row when none came; no guard on status.
WriteTokens(s) ==
    LET m == oauth.at[s] IN
    /\ m.pc = "write"
    /\ oauth' = [oauth EXCEPT !.access = TRUE, !.near = FALSE, !.at[s] = AtHome,
                   !.refresh = IF m.new # 0 THEN m.new ELSE @]

\* requests raises, or the process stops: the row stays as it is.
AnswerLost(s) ==
    /\ oauth.at[s].pc = "write" /\ oauth.lost < MaxSilences
    /\ oauth' = [oauth EXCEPT !.lost = @ + 1, !.at[s] = AtHome]

IntegrationNext ==
    /\ \/ StartConnect \/ OauthCallback \/ RevokeConnection \/ NearsExpiry
       \/ \E s \in Senders : \/ LoadConnection(s) \/ AcquireLock(s) \/ RereadLocked(s)
                             \/ PostRefresh(s) \/ WriteTokens(s) \/ AnswerLost(s)
    /\ UNCHANGED <<tenant, plan, crm>>

(***************************************************************************)
(* sync_job_to_supabase for a job of one lead: a select, then an insert or *)
(* an update, table after table.  A row is named by the sync that made it. *)
(***************************************************************************)

Tables == <<"campaigns", "icp_profiles", "jobs", "job_resource_usage", "companies",
            "company_observations", "company_claims", "company_contacts",
            "contact_verifications", "leads">>
Campaign == 1
Company == 5
Contact == 8
Parents == <<{}, {1}, {1}, {1}, {}, {5}, {5}, {5}, {8}, {1, 5}>>
Appended == {4, 6, 9}   \* inserted without a look

At(s) == crm.at[s]
Key(s, k) == [p \in Parents[k] |-> At(s).pick[p]]

\* A company is looked for by its domain, then its normalized name, a contact by its
\* email, then its decision maker: with neither, as with a phone alone, no row is
\* looked for, and what is inserted is never found.
Looks(s, k) == k \notin Appended /\ (k \in {Company, Contact} => k \in At(s).known)
Same(s, k) == {r \in crm.rows : r.known /\ r.table = k /\ r.key = Key(s, k)}

\* The lead as its row is at this sync; email and names are filled in between two.
BeginSync(s) ==
    /\ At(s).step = 0
    /\ \E known \in SUBSET {Company, Contact} :
         crm' = [crm EXCEPT !.at[s].step = 1, !.at[s].known = known,
                   !.overlap = @ \/ \E o \in Syncs : At(o).step \in 1..Len(Tables)]

FindRow(s) ==
    LET k == At(s).step IN
    /\ k \in 1..Len(Tables) /\ At(s).found = "none"
    /\ \E f \in IF Looks(s, k) /\ Same(s, k) # {} THEN {r.by : r \in Same(s, k)} ELSE {"new"} :
         crm' = [crm EXCEPT !.at[s].found = f]

\* A lead with no email, decision maker or phone has no contact to verify.
LacksContact(s) ==
    /\ At(s).step = Contact /\ At(s).found = "none" /\ Contact \notin At(s).known
    /\ crm' = [crm EXCEPT !.at[s].step = Len(Tables), !.at[s].pick = @ \o <<"none", "none">>]

\* uq_leads_campaign_company refuses a second lead, and the sync ends there.
PutRow(s) ==
    LET k == At(s).step
        made == [table |-> k, key |-> Key(s, k), by |-> s, known |-> Looks(s, k)]
        pick == IF At(s).found = "new" THEN s ELSE At(s).found
    IN /\ At(s).found # "none"
       /\ IF At(s).found = "new" /\ k = Len(Tables) /\ Same(s, k) # {}
          THEN crm' = [crm EXCEPT !.at[s].step = Len(Tables) + 1, !.at[s].found = "none"]
          ELSE crm' = [crm EXCEPT !.at[s] = [step |-> k + 1, found |-> "none",
                                             pick |-> Append(At(s).pick, pick),
                                             known |-> At(s).known],
                         !.rows = IF At(s).found = "new" THEN @ \cup {made} ELSE @]

SyncFails(s) ==
    /\ At(s).step \in 1..Len(Tables)
    /\ crm' = [crm EXCEPT !.at[s].step = Len(Tables) + 1, !.at[s].found = "none"]

SyncNext ==
    /\ \E s \in Syncs : \/ BeginSync(s) \/ FindRow(s) \/ LacksContact(s)
                        \/ PutRow(s) \/ SyncFails(s)
    /\ UNCHANGED <<tenant, plan, oauth>>

AccountsNext == ProvisionNext \/ BillingNext \/ IntegrationNext \/ SyncNext
AccountsSpec == AccountsInit /\ [][AccountsNext]_accountVars

(***************************************************************************)
(* Properties.                                                             *)
(***************************************************************************)

\* A tenant is ACTIVE only after some call ran each step without an error, however
\* the calls and their failures mix (provisioning.py:68-117).
ActiveIsEarned ==
    tenant.state = "ACTIVE" =>
      \E c \in Calls : {<<c, "validate">>, <<c, "infrastructure">>} \subseteq tenant.ready

\* With one subscription whose events arrived once and in order, the paid limits
\* are in force until it is cancelled or paused, and no longer.
PaidUntilCancelled ==
    /\ ~plan.disorder /\ plan.seen = 1..Len(plan.sent)
    /\ Cardinality({s \in Subscriptions : plan.subs[s].state # "none"}) = 1
    /\ \A i \in 1..Len(plan.sent) : plan.sent[i].type # "active"
    => (plan.limits # "free") = (\E s \in Subscriptions : plan.subs[s].state = "active")

\* Not so: "Entitlements follow what was PAID" (billing_api.py:306): when
\* Stripe's events have all arrived, the limits are those of the best
\* subscription that is still paid.
EntitlementsFollowPaid ==
    plan.seen = 1..Len(plan.sent) =>
      \A s \in Subscriptions :
        plan.subs[s].state = "active" => Rank[plan.limits] >= Rank[plan.subs[s].paid]

\* No process presents a refresh token that it has itself used up, unless the
\* answer was lost: of the threads of a process one refreshes at a time
\* (integrations.py:385).
RefreshedOnce == oauth.again => oauth.lost > 0

\* Not so with two processes. integrations.py:387: the row read again inside the
\* lock keeps processes apart too.
NoTokenBurnt ==
    \A s \in Senders : oauth.at[s].pc = "post" /\ oauth.lost = 0
      => oauth.at[s].refresh \in oauth.live

\* Not so after a refresh under way. integrations.py:474: the tokens of a revoked
\* connection are cleared.
RevokedHoldsNothing == oauth.status = "revoked" => ~oauth.access /\ oauth.refresh = 0

\* A job synced again, or after a sync that failed half way, adds no second row for
\* what it can look up, as long as syncs do not overlap (sync.py:243-362): an
\* appended row, a nameless company, a contact by phone alone may be there twice.
ResyncAddsNothing ==
    ~crm.overlap =>
      \A r, q \in crm.rows : r.known /\ q.known /\ r.table = q.table /\ r.key = q.key => r = q

\* What an organization's tenant, plan, connection and CRM rows rest on, however
\* calls, webhooks, refreshes and syncs interleave and fail.
AccountsAreEarned ==
    ActiveIsEarned /\ PaidUntilCancelled /\ RefreshedOnce /\ ResyncAddsNothing

=============================================================================
