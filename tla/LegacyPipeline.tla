--------------------------- MODULE LegacyPipeline ---------------------------
(***************************************************************************)
(* One run of the first acquisition pipeline (lead_engine/pipeline):       *)
(* queries planned, asked, what they find merged, filtered, qualified,     *)
(* enriched, verified and stored behind the legal gate. A capacity outage  *)
(* during discovery pauses the job; resumed, it starts from the beginning. *)
(***************************************************************************)
EXTENDS Naturals, Sequences, FiniteSets

CONSTANTS
    Cities,      \* the cities of the ICP, in order
    Keywords,    \* queries for each city
    MaxQueries,  \* max_search_queries
    Finds,       \* search results that may come back
    Alike(_, _), \* similarity of two names: "merge", "review" or "separate"
    MinBranches, \* criteria.min_branches
    Credits,     \* enrichment_budget_credits
    MaxPeople,   \* enrichment_max_people
    Policies,    \* legal policies a run may work under
    MaxPauses    \* bound: outages of the search pool

ASSUME PipeAssumption ==
    /\ Cities \in Seq(STRING) /\ Keywords \in Nat /\ MaxQueries \in Nat /\ Credits \in Nat

VARIABLES
    acq,    \* the job: stage, what was asked and found, the groups of dedup, counters
    leads,  \* the leads of the run, each at the first candidate of its group
    store   \* rows of the lead store

pipeVars == <<acq, leads, store>>

NoLeads == <<>>

RunInit(policy) ==
    [at |-> "discover", asked |-> <<>>, found |-> <<>>, groups |-> <<>>, looks |-> {},
     doubts |-> {}, left |-> {}, credits |-> 0, people |-> 0, policy |-> policy, pauses |-> 0]

PipeInit ==
    /\ \E policy \in Policies : acq = RunInit(policy)
    /\ leads = NoLeads /\ store = {}

(***************************************************************************)
(* The plan: round-robin over the cities up to the cap.                    *)
(***************************************************************************)
\* Mutant of Query: the first city's queries come first.
QueryFlat(i) == Cities[((i - 1) \div Keywords) + 1]

Query(i) == Cities[((i - 1) % Len(Cities)) + 1]

Lesser(a, b) == IF a < b THEN a ELSE b

Queries == [i \in 1..Lesser(MaxQueries, Len(Cities) * Keywords) |-> Query(i)]

(***************************************************************************)
(* Discovery: one query after the other; directory pages are passed over.  *)
(***************************************************************************)
IsDirectory(f) == f.site = "directory"
DomainOf(f) == IF f.site = "social" THEN "none" ELSE f.site

Candidate(f, city) ==
    [name |-> f.name, city |-> city, email |-> f.email, phone |-> f.phone,
     dom |-> DomainOf(f),
     branches |-> f.branches, fits |-> f.fits]

Searching == acq.at = "discover" /\ Len(acq.asked) < Len(Queries)

Ask ==
    /\ Searching
    /\ LET city == Queries[Len(acq.asked) + 1]
           nothing == [acq EXCEPT !.asked = Append(@, city)]
       IN  \/ acq' = nothing
           \/ \E f \in Finds : acq' = IF IsDirectory(f) THEN nothing
                  ELSE [nothing EXCEPT !.found = Append(@, Candidate(f, city))]
    /\ UNCHANGED <<leads, store>>

\* NoProviderAvailable: the job is paused, and its next slice starts afresh.
Pause ==
    /\ Searching /\ acq.pauses < MaxPauses
    /\ acq' = [RunInit(acq.policy) EXCEPT !.pauses = acq.pauses + 1]
    /\ UNCHANGED <<leads, store>>

(***************************************************************************)
(* Dedup: a union-find over the candidates c, g giving each one's root. It *)
(* looks at keys, then at names, then at the pairs of each city; a look is *)
(* <<1, candidate, key, 0>>, <<2, candidate, 0, 0>> or <<3, first of the   *)
(* city, candidate, candidate>>, and they are taken in that order.         *)
(***************************************************************************)
LooksAt(c) ==
    LET D == DOMAIN c
        cities == {k \in D : \A l \in 1..(k - 1) : c[l].city # c[k].city}
    IN  ({1} \X D \X (1..3) \X {0}) \cup ({2} \X D \X {0} \X {0})
        \cup {p \in {3} \X cities \X D \X D :
                 p[3] < p[4] /\ c[p[3]].city = c[p[2]].city /\ c[p[4]].city = c[p[2]].city}

Sooner(p, q) == \E n \in 1..4 : p[n] < q[n] /\ \A m \in 1..(n - 1) : p[m] = q[m]

StartDedup ==
    /\ acq.at = "discover" /\ Len(acq.asked) = Len(Queries)
    /\ acq' = [acq EXCEPT !.at = "dedup", !.looks = LooksAt(acq.found),
                 !.groups = [k \in DOMAIN acq.found |-> k]]
    /\ UNCHANGED <<leads, store>>

GroupDomains(c, g, root) == {c[k].dom : k \in {k \in DOMAIN c : g[k] = root}} \ {"none"}

\* Mutant of Conflict: only the two candidates' own domains are compared.
ConflictPair(c, g, i, j) == c[i].dom # "none" /\ c[j].dom # "none" /\ c[i].dom # c[j].dom

Conflict(c, g, i, j) ==
    LET di == GroupDomains(c, g, g[i])  dj == GroupDomains(c, g, g[j])
    IN  di # {} /\ dj # {} /\ di # dj

Union(c, g, i, j) ==
    IF g[i] = g[j] \/ Conflict(c, g, i, j) THEN g
    ELSE [k \in DOMAIN g |-> IF g[k] \in {g[i], g[j]} THEN Lesser(g[i], g[j]) ELSE g[k]]

\* Candidate j is the first whose field f, or whose name and city, are those of i.
FirstWith(c, i, j, f) == c[j][f] = c[i][f] /\ \A k \in 1..(j - 1) : c[k][f] # c[i][f]
SameName(c, i, j) == c[i].name = c[j].name /\ c[i].city = c[j].city
FirstNamed(c, i, j) == SameName(c, i, j) /\ \A k \in 1..(j - 1) : ~SameName(c, i, k)

OwnConflict(c, i, j) == c[i].dom # "none" /\ c[j].dom # "none" /\ c[i].dom # c[j].dom

\* A look leaves these groups and doubts.
Leaves(p, groups, doubts) ==
    acq' = [acq EXCEPT !.looks = @ \ {p}, !.groups = groups, !.doubts = doubts]

ExactStage(c, g, p) ==
    LET i == p[2]  f == <<"dom", "email", "phone">>[p[3]] IN
    /\ p[1] = 1
    /\ IF c[i][f] = "none" THEN Leaves(p, g, acq.doubts)
       ELSE \E j \in 1..i : FirstWith(c, i, j, f) /\ Leaves(p, Union(c, g, i, j), acq.doubts)

NameStage(c, g, p) ==
    /\ p[1] = 2
    /\ \E j \in 1..p[2] :
         /\ FirstNamed(c, p[2], j)
         /\ Leaves(p, IF OwnConflict(c, p[2], j) THEN g ELSE Union(c, g, p[2], j), acq.doubts)

\* Alike enough two candidates of a city are merged, a little less they are a
\* doubt for a person to settle.
FuzzyStage(c, g, p) ==
    LET i == p[3]  j == p[4] IN
    /\ p[1] = 3
    /\ IF g[i] = g[j] \/ OwnConflict(c, i, j) THEN Leaves(p, g, acq.doubts)
       ELSE CASE Alike(c[i].name, c[j].name) = "merge" ->
                     Leaves(p, Union(c, g, i, j), acq.doubts)
              [] Alike(c[i].name, c[j].name) = "review" ->
                     Leaves(p, g, acq.doubts \cup {{i, j}})
              [] OTHER -> Leaves(p, g, acq.doubts)

Look ==
    /\ acq.at = "dedup"
    /\ \E p \in acq.looks :
         /\ \A q \in acq.looks : ~Sooner(q, p)
         /\ \/ ExactStage(acq.found, acq.groups, p)
            \/ NameStage(acq.found, acq.groups, p)
            \/ FuzzyStage(acq.found, acq.groups, p)
    /\ UNCHANGED <<leads, store>>

Flagged(doubts, group) == \E d \in doubts : d \cap group # {}

FirstOf(c, group, f) ==
    LET known == {k \in group : c[k][f] # "none"}
    IN  IF known = {} THEN "none"
        ELSE c[CHOOSE k \in known : \A l \in known : k <= l][f]

Merged(c, group, doubts) ==
    [from |-> group, name |-> FirstOf(c, group, "name"), city |-> FirstOf(c, group, "city"),
     dom |-> FirstOf(c, group, "dom"), email |-> FirstOf(c, group, "email"),
     phone |-> FirstOf(c, group, "phone"),
     branches |-> LET b == {c[k].branches : k \in group}
                  IN  CHOOSE x \in b : \A y \in b : y <= x,
     fits |-> \E k \in group : c[k].fits,
     review |-> Flagged(doubts, group), score |-> 0, maker |-> FALSE,
     status |-> "none", sources |-> {"search_api"}, stage |-> "none"]

\* The roots are the first of their groups, so the leads are in the order found.
Dedup ==
    /\ acq.at = "dedup" /\ acq.looks = {}
    /\ LET c == acq.found  g == acq.groups
       IN  leads' = [root \in {g[k] : k \in DOMAIN c} |->
                        Merged(c, {k \in DOMAIN c : g[k] = root}, acq.doubts)]
    /\ acq' = [acq EXCEPT !.at = "filter"]
    /\ UNCHANGED store

\* HardFilter: an unknown number of branches (0) passes.
Passes(l) == l.fits /\ (l.branches = 0 \/ l.branches >= MinBranches)

Filter ==
    /\ acq.at = "filter"
    /\ leads' = [i \in {k \in DOMAIN leads : Passes(leads[k])} |-> leads[i]]
    /\ acq' = [acq EXCEPT !.at = "qualify", !.left = DOMAIN leads']
    /\ UNCHANGED store

(***************************************************************************)
(* Qualification, enrichment and verification, lead by lead.               *)
(***************************************************************************)
\* Lead i, whose turn it is at stage from, goes on as l; after the last comes stage at.
Take(from, i, l, at) ==
    /\ acq.at = from
    /\ leads' = [leads EXCEPT ![i] = l]
    /\ acq' = IF acq.left = {i} THEN [acq EXCEPT !.at = at, !.left = DOMAIN leads]
              ELSE [acq EXCEPT !.left = @ \ {i}]
    /\ UNCHANGED store

Skip(from, at) ==
    /\ acq.at = from /\ acq.left = {}
    /\ acq' = [acq EXCEPT !.at = at] /\ UNCHANGED <<leads, store>>

InOrder(i) == i \in acq.left /\ \A j \in acq.left : i <= j

\* No provider, an answer that is no verdict, or a score.
QualifyLead ==
    \/ Skip("qualify", "enrich")
    \/ \E i \in acq.left : InOrder(i) /\
         LET l == leads[i] IN
            \/ Take("qualify", i, l, "enrich")
            \/ Take("qualify", i, [l EXCEPT !.review = TRUE], "enrich")
            \/ \E s \in {40, 80} : Take("qualify", i, [l EXCEPT !.score = s], "enrich")

ByScore(i) ==
    /\ i \in acq.left
    /\ \A j \in acq.left : \/ leads[i].score > leads[j].score
                           \/ leads[i].score = leads[j].score /\ i <= j

Affordable == acq.credits < Credits /\ acq.people < MaxPeople

\* people_search names a decision maker; only a lead without an email pays
\* for enrichment, one credit when an email comes back.
Unbought(l) == {l, [l EXCEPT !.maker = TRUE]} \cup
    (IF l.email # "none" THEN {} ELSE {[l EXCEPT !.maker = TRUE, !.phone = "reveal"]})
Bought(l) == IF l.email # "none" THEN {}
    ELSE {[l EXCEPT !.maker = TRUE, !.email = "reveal"],
          [l EXCEPT !.maker = TRUE, !.email = "reveal", !.phone = "reveal"]}

Enriched(i, l, people, credits) ==
    /\ leads' = [leads EXCEPT ![i] = l]
    /\ acq' = [acq EXCEPT !.at = IF acq.left = {i} THEN "verify" ELSE @,
                 !.left = IF acq.left = {i} THEN DOMAIN leads ELSE @ \ {i},
                 !.people = @ + people, !.credits = @ + credits]
    /\ UNCHANGED store

Enrich ==
    \/ Skip("enrich", "verify")
    \/ /\ acq.at = "enrich" /\ acq.left # {} /\ ~Affordable
       /\ acq' = [acq EXCEPT !.at = "verify", !.left = DOMAIN leads]
       /\ UNCHANGED <<leads, store>>
    \/ /\ acq.at = "enrich" /\ Affordable
       /\ \E i \in acq.left : ByScore(i) /\
            IF leads[i].dom = "none" THEN Enriched(i, leads[i], 0, 0)
            ELSE \/ \E l \in Unbought(leads[i]) : Enriched(i, l, 1, 0)
                 \/ \E l \in Bought(leads[i]) : Enriched(i, l, 1, 1)

VerifyLead ==
    \/ Skip("verify", "store")
    \/ \E i \in acq.left : InOrder(i) /\
         \E s \in IF leads[i].email = "none" THEN {"none"}
                  ELSE {"DELIVERABLE", "RISKY", "INVALID", "UNKNOWN"} :
           Take("verify", i, [leads[i] EXCEPT !.status = s], "store")

(***************************************************************************)
(* The legal gate and the lead store.                                      *)
(***************************************************************************)
DataTypes(l) ==
    {"company_public_data"} \cup
        (IF l.email # "none" \/ l.phone # "none" THEN {"professional_contact"} ELSE {})

Storable(l, policy) == DataTypes(l) \cap policy.barred = {}

\* Mutant of Doubtful: a data type the policy does not know passes.
DoubtfulKnown(l, policy) ==
    \/ DataTypes(l) \cap policy.review # {}
    \/ ~(l.sources \subseteq policy.approved) \/ ~policy.purpose

\* Default-deny: what the policy does not name is looked at by a person.
Doubtful(l, policy) ==
    \/ ~(DataTypes(l) \subseteq policy.known) \/ DataTypes(l) \cap policy.review # {}
    \/ ~(l.sources \subseteq policy.approved) \/ ~policy.purpose

StageOf(l, policy) ==
    IF ~Storable(l, policy) THEN "REJECTED"
    ELSE IF l.review \/ Doubtful(l, policy) \/ l.status = "INVALID" THEN "REVIEW"
    ELSE IF l.score >= 60 THEN "ACCEPTED" ELSE "REVIEW"

StoreLeads ==
    /\ acq.at = "store"
    /\ store' = store \cup
          {[l EXCEPT !.stage = StageOf(l, acq.policy)] : l \in {leads[i] : i \in DOMAIN leads}}
    /\ acq' = [acq EXCEPT !.at = "completed"]
    /\ UNCHANGED leads

PipeNext ==
    \/ Ask \/ Pause \/ StartDedup \/ Look \/ Dedup \/ Filter \/ QualifyLead \/ Enrich
    \/ VerifyLead \/ StoreLeads

PipeSpec == PipeInit /\ [][PipeNext]_pipeVars

(***************************************************************************)
(* Properties.                                                             *)
(***************************************************************************)
\* Dedup puts every candidate into exactly one lead, and a shared phone, email
\* or name never bridges two domains, directly or through a chain.
GroupsAreSound ==
    /\ acq.at = "filter" =>
         /\ UNION {leads[i].from : i \in DOMAIN leads} = DOMAIN acq.found
         /\ \A i, j \in DOMAIN leads : i # j => leads[i].from \cap leads[j].from = {}
    /\ \A i \in DOMAIN leads : \A k, l \in leads[i].from : ~OwnConflict(acq.found, k, l)

\* A lead is accepted only if nobody had a doubt on its way: not dedup over a
\* pair it belongs to, not the verifier over its email, not the legal policy
\* over the kinds of data and the sources on record.
DoubtsReachReview ==
    \A l \in store : l.stage = "ACCEPTED" =>
        /\ \A d \in acq.doubts : d \cap l.from = {}
        /\ l.status # "INVALID"
        /\ \A t \in DataTypes(l) : t \in acq.policy.known \ (acq.policy.barred \cup acq.policy.review)

\* A budget with room for every city leaves no city unsearched, the hard
\* budget of credits is kept, and a job that was paused stores its leads once.
BudgetIsSpread ==
    /\ (acq.at # "discover" /\ MaxQueries >= Len(Cities) /\ Keywords > 0) =>
         {acq.asked[i] : i \in DOMAIN acq.asked} = {Cities[i] : i \in DOMAIN Cities}
    /\ acq.credits <= Credits
    /\ \A l, m \in store : l.from \cap m.from # {} => l = m

\* Not so: data bought from Apollo is judged as if the search had found it,
\* for enrichment does not record its source.
SourcesAreJudged ==
    \A l \in store : l.stage = "ACCEPTED" /\ l.maker => "apollo_api" \in acq.policy.approved

\* What a run makes of its candidates: sound groups, doubts looked at by a person,
\* a budget that reaches every city.
LeadsAreSound == GroupsAreSound /\ DoubtsReachReview /\ BudgetIsSpread

=============================================================================
