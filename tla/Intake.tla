------------------------------- MODULE Intake -------------------------------
(***************************************************************************)
(* How a search result becomes a company, a claim, a contact and a lead of *)
(* the v6 engine (pipeline.py over repos/core.py and pii/vault.py).  Jobs  *)
(* of one organization ingest in transactions of their own, READ COMMITTED *)
(* and interleaved between the lookup of a company and its insert; what    *)
(* Leasing, Pipeline and EffectLedger say of jobs and calls is left out.   *)
(* A company is named by the page that created it.                         *)
(***************************************************************************)
EXTENDS Naturals, FiniteSets

CONSTANTS
    Miners,      \* acquisition jobs of the organization
    Pages,       \* URLs a provider may return
    Site,        \* [Pages -> domains]: domain_from_url
    Brand,       \* [Pages -> name keys]: name_key of the business name
    Listed,      \* pages of social networks, directories and magazines
    Mailboxes,   \* [Pages -> sets of addresses]: extract_contacts
    MaskRank,    \* [addresses -> Nat]: the order of the masked forms
    MaxAttempts  \* runtime.jobs.max_attempts

VARIABLES
    db,  \* committed rows
    tx   \* the transaction of each job: its own rows and what it holds

intakeVars == <<db, tx>>

Addresses == DOMAIN MaskRank
NoRows == [visited |-> {}, companies |-> {}, claims |-> {}, contacts |-> {},
           secrets |-> {}, conflicts |-> {}, verdicts |-> {}, cache |-> {}, leads |-> {}]
Plus(d, e) == [t \in DOMAIN d |-> d[t] \cup e[t]]

IntakeInit ==
    /\ db = NoRows
    /\ tx = [j \in Miners |-> [pc |-> "discover", todo |-> {}, page |-> "none",
                                match |-> "none", rows |-> NoRows, mine |-> {},
                                attempts |-> 1, met |-> {}]]

Seen(j) == Plus(db, tx[j].rows)
Waits(j, t, P(_)) == \E o \in Miners \ {j} : \E row \in tx[o].rows[t] : P(row)
Adds(rows, t, new) == [rows EXCEPT ![t] = @ \cup new]

(***************************************************************************)
(* Discovery.                                                              *)
(***************************************************************************)

\* _discover: the provider's answer to a query, in any order.
Query(j) ==
    /\ tx[j].pc = "discover"
    /\ \E pages \in SUBSET Pages \ {{}} :
         tx' = [tx EXCEPT ![j].pc = "next", ![j].todo = pages]
    /\ UNCHANGED db

\* find_by_domain, then find_by_name_key with name_match_is_safe: a company of
\* the same name is another one when both have sites and they differ.
Matches(j, p) ==
    LET known == Seen(j).companies
        byDomain == {c \in known : Site[c] = Site[p]}
        byName == {c \in known : /\ Brand[c] = Brand[p]
                                 /\ Site[c] = "none" \/ Site[p] = "none"}
    IN IF Site[p] # "none" /\ byDomain # {} THEN byDomain ELSE byName

\* mark_visited: ON CONFLICT DO NOTHING waits for a row another transaction holds.
Resolve(j) ==
    \E p \in tx[j].todo :
      /\ tx[j].pc = "next"
      /\ ~Waits(j, "visited", LAMBDA row : row = p)
      /\ IF p \in Seen(j).visited
         THEN tx' = [tx EXCEPT ![j].todo = @ \ {p}]
         ELSE IF p \in Listed
         THEN tx' = [tx EXCEPT ![j].todo = @ \ {p},
                               ![j].rows = Adds(@, "visited", {p})]
         ELSE \E c \in IF Matches(j, p) = {} THEN {p} ELSE Matches(j, p) :
                tx' = [tx EXCEPT ![j].todo = @ \ {p}, ![j].pc = "store",
                                 ![j].page = p, ![j].match = c,
                                 ![j].rows = Adds(@, "visited", {p})]
      /\ UNCHANGED db

\* Mutant of Taken: without uq_company_domain.
TakenNever(j, p) == FALSE

\* uq_company_domain: a live company of another transaction has the domain.
Taken(j, p) ==
    /\ tx[j].match = p /\ Site[p] # "none"
    /\ \E c \in db.companies : Site[c] = Site[p]

\* upsert_claim of the website: another value is current.
Disputed(j, p) == \E c \in Seen(j).claims : c.company = tx[j].match /\ c.value # p

\* find_or_create_contact, TenantVault.store and _attach for the addresses of a
\* snippet: one contact, a vault row for each address nobody has stored yet, and
\* as email_ref the one whose random id is the greatest.
ContactRows(rows, j, p) ==
    LET known == {s.value : s \in Seen(j).secrets}
        new == {[value |-> a, by |-> j] : a \in Mailboxes[p] \ known}
    IN {[rows EXCEPT !.secrets = @ \cup new,
                     !.contacts = @ \cup {[company |-> tx[j].match, name |-> "contact",
                                           mails |-> Mailboxes[p], ref |-> r]}] :
          r \in Mailboxes[p]}

\* Mutant of RolledBack: visited_sources is written in a transaction of its own.
RolledBackLess(j) ==
    /\ db' = Adds(db, "visited", tx[j].rows.visited)
    /\ tx' = [tx EXCEPT ![j].pc = IF tx[j].attempts < MaxAttempts THEN "discover" ELSE "failed",
                        ![j].attempts = @ + 1, ![j].todo = {}, ![j].rows = NoRows]

\* An exception leaves the unit of work: nothing of the query is kept, and the
\* attempt has failed.
RolledBack(j) ==
    /\ tx' = [tx EXCEPT
         ![j].pc = IF tx[j].attempts < MaxAttempts THEN "discover" ELSE "failed",
         ![j].attempts = IF tx[j].attempts < MaxAttempts THEN @ + 1 ELSE @,
         ![j].met = IF tx[j].pc = "store" /\ ~Taken(j, tx[j].page)
                    THEN @ \cup {[company |-> tx[j].match, value |-> tx[j].page]}
                    ELSE @,
         ![j].todo = {}, ![j].rows = NoRows, ![j].page = "none", ![j].match = "none"]
    /\ UNCHANGED db

\* The insert into fact_conflicts looks up the claim of the new value before it is
\* inserted, and claim_b_id is NOT NULL: the statement fails.
Refused(j) ==
    /\ tx[j].pc = "store"
    /\ Taken(j, tx[j].page) \/ Disputed(j, tx[j].page)
    /\ RolledBack(j)

Store(j) ==
    LET p == tx[j].page
        c == tx[j].match
        rows == Adds(Adds(tx[j].rows, "companies", IF c = p THEN {p} ELSE {}),
                     "claims", {[company |-> c, value |-> p]})
    IN /\ tx[j].pc = "store"
       /\ ~Waits(j, "companies", LAMBDA row : c = p /\ Site[row] = Site[p] /\ Site[p] # "none")
       /\ ~Taken(j, p) /\ ~Disputed(j, p)
       /\ \E r \in IF Mailboxes[p] = {} THEN {rows} ELSE ContactRows(rows, j, p) :
            tx' = [tx EXCEPT ![j].pc = "next", ![j].rows = r, ![j].mine = @ \cup {c}]
       /\ UNCHANGED db

Commit(j) ==
    /\ tx[j].pc = "next" /\ tx[j].todo = {}
    /\ db' = Plus(db, tx[j].rows)
    /\ tx' = [tx EXCEPT ![j].pc = "enrich", ![j].todo = tx[j].mine, ![j].rows = NoRows,
                        ![j].page = "none", ![j].match = "none"]

(***************************************************************************)
(* The later phases, a transaction per company.                            *)
(***************************************************************************)

\* The last company of a phase ends it.
Advance(j, c, phase, next) ==
    tx' = [tx EXCEPT ![j].todo = IF @ = {c} THEN tx[j].mine ELSE @ \ {c},
                     ![j].pc = IF tx[j].todo = {c} THEN next ELSE phase]

NothingFound(j) ==
    /\ tx[j].pc = "enrich" /\ tx[j].mine = {}
    /\ tx' = [tx EXCEPT ![j].pc = "done"] /\ UNCHANGED db

\* _enrich: find_contact knows a person of the company, or nobody.
Enrich(j) ==
    \E c \in tx[j].todo :
      /\ tx[j].pc = "enrich"
      /\ \/ UNCHANGED db
         \/ \E a \in Addresses :
              db' = [db EXCEPT
                !.secrets = IF \E s \in @ : s.value = a THEN @
                            ELSE @ \cup {[value |-> a, by |-> j]},
                !.contacts = @ \cup {[company |-> c, name |-> "person",
                                      mails |-> {a}, ref |-> a]}]
      /\ Advance(j, c, "enrich", "verify")

\* Before cache_verification: the verdicts of the providers, or their failure.
Verdicts == {"DELIVERABLE", "UNKNOWN", "INVALID"}
Cached(a) == {v.status : v \in {e \in db.cache : e.address = a}}

\* _verify: the address of email_ref of each contact, from the cache or asked for;
\* a failed call leaves UNKNOWN, which is not cached.
Verify(j) ==
    \E c \in tx[j].todo :
      LET asked == {k.ref : k \in {k \in db.contacts : k.company = c}}
      IN /\ tx[j].pc = "verify"
         /\ \E answer \in [asked -> Verdicts] : \E failed \in SUBSET asked :
              LET status(a) == IF Cached(a) # {} THEN CHOOSE s \in Cached(a) : TRUE
                               ELSE IF a \in failed THEN "UNKNOWN" ELSE answer[a]
              IN db' = [db EXCEPT
                   !.cache = @ \cup {[address |-> a, status |-> status(a)] :
                                       a \in {x \in asked \ failed : Cached(x) = {}}},
                   !.verdicts = @ \cup {[company |-> c, name |-> k.name, address |-> k.ref,
                                         status |-> status(k.ref)] :
                                k \in {k \in db.contacts : k.company = c}}]
         /\ Advance(j, c, "verify", "qualify")

\* _best_status in the order of VerificationStatus that STATUS_ORDER gives.
Best(c) ==
    LET found == {v.status : v \in {v \in db.verdicts : v.company = c}}
    IN IF found = {} THEN {"none"}
       ELSE IF "DELIVERABLE" \in found THEN {"DELIVERABLE"}
       ELSE IF "UNKNOWN" \in found THEN {"UNKNOWN"} ELSE found

\* list_company_contacts: MAX(public_value) next to MAX(pii_ref_id) of a contact.
Shown(k) == CHOOSE a \in k.mails : \A b \in k.mails : MaskRank[b] <= MaskRank[a]

\* _qualify: the mask of the first contact, the best status of all of them.
Qualify(j) ==
    \E c \in tx[j].todo : \E best \in Best(c) :
      LET contacts == {k \in db.contacts : k.company = c}
      IN /\ tx[j].pc = "qualify"
         /\ IF best = "INVALID" THEN UNCHANGED db
            ELSE \E mask \in IF contacts = {} THEN {"none"} ELSE {Shown(k) : k \in contacts} :
                   db' = Adds(db, "leads", {[company |-> c, mask |-> mask, status |-> best]})
         /\ Advance(j, c, "qualify", "done")

IntakeNext ==
    \E j \in Miners :
      \/ Query(j) \/ Resolve(j) \/ Refused(j) \/ Store(j) \/ Commit(j)
      \/ NothingFound(j) \/ Enrich(j) \/ Verify(j) \/ Qualify(j)

IntakeSpec == IntakeInit /\ [][IntakeNext]_intakeVars

(***************************************************************************)
(* Properties.                                                             *)
(***************************************************************************)

\* Two jobs that find the same site at once leave one live company for it, whoever
\* commits first (uq_company_domain; "one live company per (org, domain)").
OneCompanyPerSite ==
    \A c, d \in db.companies : Site[c] = Site[d] /\ Site[c] # "none" => c = d

\* A page is marked as visited only together with what was found on it: a rolled
\* back query leaves no page that every later attempt would skip.
VisitedIsIngested ==
    \A p \in db.visited \ Listed : \E c \in db.claims : c.value = p

\* A job that met a second value for a claim ends with the conflict on record:
\* "Conflict never silently replaces the old claim" (core.py:269).
DisagreementsAreKept ==
    \A j \in Miners : tx[j].pc \in {"done", "failed"} => tx[j].met \subseteq db.conflicts

\* Not so: the status a lead carries was given to the address whose mask it shows: "stored
\* masked identities" stand for the recorded verifications (pipeline.py:517).
ShownIsVerified ==
    \A l \in db.leads :
      l.mask # "none" =>
        \E v \in db.verdicts :
          v.company = l.company /\ v.address = l.mask /\ v.status = l.status

\* What discovery leaves behind however jobs interleave and queries roll back.
IntakeIsSound == OneCompanyPerSite /\ VisitedIsIngested

=============================================================================
