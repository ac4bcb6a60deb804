----------------------------- MODULE TruthLayer -----------------------------
(***************************************************************************)
(* The truth layer of lead_engine (truth.py) for one field of one company, *)
(* and what is built on it: the lead row with its qualification, its human *)
(* decision and its erasure (privacy.py), and the active ICP version.      *)
(* Statements commit one by one, so a writer is interrupted between any    *)
(* two of them; `writer`, `clerk` and `activator` hold what was read.      *)
(***************************************************************************)
EXTENDS Integers, FiniteSets

CONSTANTS
    Values,      \* observed values of the field
    Domains,     \* independent source domains
    Writers,     \* agents, verifiers and reviewers at work
    MaxOps,      \* bound: operations begun
    Versions     \* ICP versions of one slug

VARIABLES
    fact,        \* rows of research_facts with their fact_sources
    dispute,     \* rows of fact_conflicts, per pair of values
    writer,      \* what a writer holds
    decided,     \* values a verifier or a reviewer has once decided for
    uncompared,  \* values that stand and were never compared with the rivals:
                 \* brought back, or recorded by a writer that died too early
    ops,
    lead,        \* the row of leads
    clerk,       \* what a call on the lead holds
    icp,         \* icp_versions.status
    activator

factVars == <<fact, dispute, writer, decided, uncompared, ops>>
leadVars == <<lead, clerk>>
icpVars == <<icp, activator>>
truthVars == <<factVars, leadVars, icpVars>>

FactStatuses == {"VERIFIED", "CONFLICTED", "STALE", "UNVERIFIED", "INFERRED"}
Rivalling == {"VERIFIED", "UNVERIFIED", "CONFLICTED"}
Pairs == {{v, u} : v, u \in Values} \ {{v} : v \in Values}
NoLead == [there |-> FALSE, pii |-> FALSE, raw |-> FALSE, mark |-> FALSE,
           old |-> FALSE, decision |-> FALSE]
AtRest == [pc |-> "idle", value |-> "none", from |-> "none", new |-> FALSE,
           rivals |-> {}, status |-> "none"]

TruthInit ==
    /\ fact = [v \in Values |-> [status |-> "none", fresh |-> FALSE, sources |-> {}]]
    /\ dispute = [p \in Pairs |-> [open |-> 0, closed |-> FALSE]]
    /\ writer = [w \in Writers |-> AtRest]
    /\ decided = {} /\ uncompared = {} /\ ops = 0
    /\ lead = NoLead /\ clerk = [c \in Writers |-> [pc |-> "idle", raw |-> FALSE]]
    /\ icp = [v \in Versions |-> "draft"]
    /\ activator = [a \in Writers |-> [pc |-> "idle", version |-> "none"]]

OpenOn(v) == \E p \in Pairs : v \in p /\ dispute[p].open > 0
Hold(w, r) == writer' = [writer EXCEPT ![w] = r]
\* A row _detect_conflicts asks for.
Standing(v) == fact[v].fresh /\ fact[v].status \in Rivalling
\* History: a write can make a value stand again, after its writer looked.
Revives(vs) == uncompared' = uncompared \cup {v \in vs : ~Standing(v)}
Begin(w, r) == writer[w].pc = "idle" /\ ops < MaxOps /\ ops' = ops + 1 /\ Hold(w, r)

(***************************************************************************)
(* record_fact: read, insert, source, conflicts, status.                   *)
(***************************************************************************)

RecordFact(w, v, d) ==
    /\ Begin(w, [AtRest EXCEPT !.value = v, !.from = d,
                   !.new = fact[v].status = "none",
                   !.pc = IF fact[v].status = "none" THEN "insert" ELSE "source"])
    /\ UNCHANGED <<fact, dispute, decided, uncompared>>

\* The unique index refuses the second insert of a value.
InsertFact(w) ==
    LET m == writer[w] IN
    /\ m.pc = "insert"
    /\ IF fact[m.value].status # "none"
       THEN Hold(w, AtRest) /\ UNCHANGED fact
       ELSE /\ Hold(w, [m EXCEPT !.pc = "source"])
            /\ fact' = [fact EXCEPT ![m.value] = [fresh |-> TRUE, sources |-> {},
                 status |-> IF m.from = "inferred" THEN "INFERRED" ELSE "UNVERIFIED"]]
    /\ UNCHANGED <<dispute, decided, uncompared, ops>>

AddSource(w) ==
    LET m == writer[w] IN
    /\ m.pc = "source" /\ Hold(w, [m EXCEPT !.pc = "detect"])
    /\ fact' = [fact EXCEPT ![m.value].sources =
                  IF m.from = "inferred" THEN @ ELSE @ \cup {m.from}]
    /\ UNCHANGED <<dispute, decided, uncompared, ops>>

\* Mutant of Rivals: a value in conflict is no rival any more.
RivalsSettled(v) ==
    {u \in Values \ {v} : fact[u].fresh /\ fact[u].status \in {"VERIFIED"}}

Rivals(v) == {u \in Values \ {v} : Standing(u)}

DetectConflicts(w) ==
    LET m == writer[w] IN
    /\ m.pc = "detect"
    /\ Hold(w, [m EXCEPT !.pc = "conflicts", !.rivals = Rivals(m.value)])
    /\ UNCHANGED <<fact, dispute, decided, uncompared, ops>>

\* _open_conflict looks for an open row, inserts one, and then marks both.
FindConflict(w) ==
    LET m == writer[w] IN
    /\ m.pc = "conflicts" /\ m.rivals # {}
    /\ \E u \in m.rivals :
         Hold(w, IF dispute[{u, m.value}].open > 0 THEN [m EXCEPT !.rivals = @ \ {u}]
                 ELSE [m EXCEPT !.pc = "open", !.status = u])
    /\ UNCHANGED <<fact, dispute, decided, uncompared, ops>>

OpenConflict(w) ==
    LET m == writer[w]  p == {m.status, m.value} IN
    /\ m.pc = "open"
    /\ Hold(w, [m EXCEPT !.pc = "flag", !.rivals = @ \ {m.status}])
    /\ dispute' = [dispute EXCEPT ![p].open = @ + 1]
    /\ UNCHANGED <<fact, decided, uncompared, ops>>

FlagRivals(w) ==
    LET m == writer[w]  p == {m.status, m.value} IN
    /\ m.pc = "flag" /\ Hold(w, [m EXCEPT !.pc = "conflicts"])
    /\ fact' = [v \in Values |-> IF v \in p THEN [fact[v] EXCEPT !.status = "CONFLICTED"]
                                            ELSE fact[v]]
    /\ Revives(p)
    /\ UNCHANGED <<dispute, decided, ops>>

\* Mutant of Observed: a verification call counts as a source.
ObservedAll(v) == fact[v].sources

Observed(v) == fact[v].sources \ {"email_verify"}

RecomputeStatus(v) ==
    CASE OpenOn(v) -> "CONFLICTED"
      [] ~OpenOn(v) /\ (fact[v].status = "VERIFIED" \/ Cardinality(Observed(v)) >= 2) -> "VERIFIED"
      [] OTHER -> IF Observed(v) # {} THEN "UNVERIFIED" ELSE "INFERRED"

Recompute(w) ==
    LET m == writer[w] IN
    /\ m.pc = "conflicts" /\ m.rivals = {}
    /\ Hold(w, [m EXCEPT !.pc = "write", !.status = RecomputeStatus(m.value)])
    /\ UNCHANGED <<fact, dispute, decided, uncompared, ops>>

\* A value seen again gets a new clock, its conflicts were looked up before.
WriteStatus(w) ==
    LET m == writer[w]  v == m.value IN
    /\ m.pc = "write" /\ Hold(w, AtRest)
    /\ fact' = [fact EXCEPT ![v].status = m.status, ![v].fresh = @ \/ ~m.new]
    /\ Revives({v})
    /\ UNCHANGED <<dispute, decided, ops>>

(***************************************************************************)
(* verify_fact, resolve_conflict, the freshness of a snapshot.             *)
(***************************************************************************)

\* The outcome of the mailbox check is stored as a source, whatever it is.
VerifyFact(w, v, outcome) ==
    /\ fact[v].status # "none" /\ ~(outcome = "VERIFIED" /\ OpenOn(v))
    /\ Begin(w, [AtRest EXCEPT !.pc = "verdict", !.value = v, !.status = outcome])
    /\ fact' = [fact EXCEPT ![v].sources = @ \cup {"email_verify"}]
    /\ UNCHANGED <<dispute, decided, uncompared>>

WriteVerdict(w) ==
    LET m == writer[w]  v == m.value IN
    /\ m.pc = "verdict" /\ Hold(w, AtRest)
    /\ CASE m.status = "VERIFIED" ->
              /\ fact' = [fact EXCEPT ![v].status = "VERIFIED", ![v].fresh = TRUE]
              /\ decided' = decided \cup {v}
         [] m.status = "STALE" ->
              fact' = [fact EXCEPT ![v].status = "STALE"] /\ UNCHANGED decided
         [] OTHER -> UNCHANGED <<fact, decided>>
    /\ UNCHANGED <<dispute, uncompared, ops>>

\* Any row can be resolved, a resolved one too.
ResolveConflict(w, p, winner) ==
    /\ winner \in p /\ (dispute[p].open > 0 \/ dispute[p].closed)
    /\ dispute' = [dispute EXCEPT ![p].closed = TRUE,
                     ![p].open = IF @ > 0 THEN @ - 1 ELSE 0]
    /\ LET others == \E q \in Pairs : winner \in q /\ dispute'[q].open > 0 IN
         Begin(w, [AtRest EXCEPT !.pc = "winner", !.value = winner, !.rivals = p \ {winner},
                     !.status = IF others THEN "CONFLICTED" ELSE "VERIFIED"])
    /\ UNCHANGED <<fact, decided, uncompared>>

WriteWinner(w) ==
    LET m == writer[w] IN
    /\ m.pc = "winner" /\ Hold(w, AtRest)
    /\ fact' = [v \in Values |->
         IF v \in m.rivals THEN [fact[v] EXCEPT !.status = "STALE"]
         ELSE IF v = m.value /\ m.status = "VERIFIED" THEN [fact[v] EXCEPT !.status = "VERIFIED"]
         ELSE fact[v]]
    /\ decided' = IF m.status = "VERIFIED" THEN decided \cup {m.value} ELSE decided
    /\ UNCHANGED <<dispute, uncompared, ops>>

Expires(v) ==
    /\ fact[v].fresh
    /\ fact' = [fact EXCEPT ![v].fresh = FALSE]
    /\ UNCHANGED <<dispute, writer, decided, uncompared, ops>>

\* A snapshot marks what it found expired.
Snapshot(w) ==
    /\ Begin(w, [AtRest EXCEPT !.pc = "mark", !.rivals =
         {v \in Values : fact[v].status \in Rivalling /\ ~fact[v].fresh}])
    /\ UNCHANGED <<fact, dispute, decided, uncompared>>

MarkStale(w) ==
    /\ writer[w].pc = "mark" /\ Hold(w, AtRest)
    /\ fact' = [v \in Values |-> IF v \in writer[w].rivals
                THEN [fact[v] EXCEPT !.status = "STALE"] ELSE fact[v]]
    /\ UNCHANGED <<dispute, decided, uncompared, ops>>

\* Killed, or a statement raised: what it wrote stays, the rest never runs.
\* The row of a value first recorded stands, and nobody looked for rivals; the
\* rivals of a resolution are left in a conflict that is closed.
WriterDies(w) ==
    LET m == writer[w] IN
    /\ m.pc # "idle" /\ Hold(w, AtRest)
    /\ uncompared' = uncompared \cup
         IF \/ m.pc = "winner"
            \/ m.new /\ (m.pc \in {"source", "detect"} \/ m.rivals # {})
         THEN {m.value} ELSE {}
    /\ UNCHANGED <<fact, dispute, decided, ops>>

FactsNext ==
    /\ \/ \E w \in Writers :
            \/ InsertFact(w) \/ AddSource(w) \/ DetectConflicts(w) \/ FindConflict(w)
            \/ OpenConflict(w) \/ FlagRivals(w) \/ Recompute(w) \/ WriteStatus(w)
            \/ WriteVerdict(w) \/ WriteWinner(w) \/ Snapshot(w) \/ MarkStale(w)
            \/ WriterDies(w)
            \/ \E v \in Values, d \in Domains \cup {"inferred"} : RecordFact(w, v, d)
            \/ \E v \in Values, o \in {"VERIFIED", "STALE", "none"} : VerifyFact(w, v, o)
            \/ \E p \in Pairs, v \in Values : ResolveConflict(w, p, v)
       \/ \E v \in Values : Expires(v)
    /\ UNCHANGED <<leadVars, icpVars>>

(***************************************************************************)
(* The lead row.  Facts outlive it: a later run writes it again from them. *)
(***************************************************************************)

Serve(c, p, r) == clerk' = [clerk EXCEPT ![c] = [pc |-> p, raw |-> r]]

\* Mutant of Upsert: a refresh takes the whole row.
UpsertAll(contact) == [NoLead EXCEPT !.there = TRUE, !.pii = contact, !.raw = TRUE]

\* insert_lead refreshes every column that no human owns, created_at and the
\* mark of an erasure among them.
Upsert(contact) ==
    [NoLead EXCEPT !.there = TRUE, !.pii = contact, !.raw = TRUE, !.decision = lead.decision]

MaterializeLead ==
    /\ \E contact \in BOOLEAN : lead' = Upsert(contact)
    /\ UNCHANGED clerk

LeadDecision ==
    /\ lead.there /\ lead' = [lead EXCEPT !.decision = TRUE]
    /\ UNCHANGED clerk

\* requalify reads the row, asks a model, and writes raw back by lead id.
Requalify(c) ==
    /\ clerk[c].pc = "idle" /\ lead.there
    /\ Serve(c, "ask", lead.raw) /\ UNCHANGED lead

WriteQualified(c) ==
    /\ clerk[c].pc = "ask" /\ Serve(c, "idle", FALSE)
    /\ lead' = IF lead.there THEN [lead EXCEPT !.raw = clerk[c].raw] ELSE lead

Anonymized(r) == [r EXCEPT !.pii = FALSE, !.raw = FALSE, !.mark = TRUE]

\* retain_expired and erase_lead select, then update what is not yet marked.
SelectErasure(c) ==
    /\ clerk[c].pc = "idle" /\ lead.there
    /\ \/ ~lead.mark /\ lead.old   \* the sweep of every tick
       \/ TRUE                     \* a request
    /\ Serve(c, "erase", FALSE) /\ UNCHANGED lead

Anonymize(c) ==
    /\ clerk[c].pc = "erase" /\ Serve(c, "idle", FALSE)
    /\ lead' = IF lead.there /\ ~lead.mark THEN Anonymized(lead) ELSE lead

\* delete_lead and purge_expired.
DeleteLead ==
    /\ lead.there /\ lead' = NoLead /\ UNCHANGED clerk

LeadAges ==
    /\ lead.there /\ lead' = [lead EXCEPT !.old = TRUE] /\ UNCHANGED clerk

LeadNext ==
    /\ \/ MaterializeLead \/ LeadDecision \/ DeleteLead \/ LeadAges
       \/ \E c \in Writers :
            Requalify(c) \/ WriteQualified(c) \/ SelectErasure(c) \/ Anonymize(c)
    /\ UNCHANGED <<factVars, icpVars>>

(***************************************************************************)
(* ICPStore.activate: retire the active version, then activate this one.   *)
(***************************************************************************)

RetireActive(a, v) ==
    /\ activator[a].pc = "idle" /\ icp[v] # "active"
    /\ icp' = [u \in Versions |-> IF icp[u] = "active" THEN "retired" ELSE icp[u]]
    /\ activator' = [activator EXCEPT ![a] = [pc |-> "activate", version |-> v]]

Activate(a) ==
    /\ activator[a].pc = "activate"
    /\ icp' = [icp EXCEPT ![activator[a].version] = "active"]
    /\ activator' = [activator EXCEPT ![a] = [pc |-> "idle", version |-> "none"]]

IcpNext ==
    /\ \E a \in Writers : Activate(a) \/ \E v \in Versions : RetireActive(a, v)
    /\ UNCHANGED <<factVars, leadVars>>

TruthNext == FactsNext \/ LeadNext \/ IcpNext
TruthSpec == TruthInit /\ [][TruthNext]_truthVars

(***************************************************************************)
(* Properties.                                                             *)
(***************************************************************************)

\* A fact is VERIFIED on the word of two independent domains, of a verifier or
\* of a resolution; neither a refutation nor a race makes it so (truth.py:317-331).
VerifiedHasGrounds ==
    \A v \in Values : fact[v].status = "VERIFIED" =>
      Cardinality(fact[v].sources \ {"email_verify"}) >= 2 \/ v \in decided

\* Two fresh values of a field that nobody decided for, and that no writer is
\* still recording, are in conflict: of two writers at least one sees the other
\* (truth.py:196-220), unless one brought back a value that was expired, STALE
\* or INFERRED while the other looked, or the first writer of a value died
\* between its insert and its look (truth.py:178-196).
NoSilentRival ==
    \A p \in Pairs :
      /\ \A v \in p : fact[v].fresh /\ fact[v].status \in {"VERIFIED", "UNVERIFIED"}
      /\ \A w \in Writers : writer[w].value \notin p
      => dispute[p].open > 0 \/ p \cap (decided \cup uncompared) # {}

\* A decision of a human survives every refresh, verdict and erasure of the
\* lead (db.py:557-560, privacy.py:14-16).
DecisionSurvives ==
    [][lead.decision /\ lead'.there => lead'.decision]_truthVars

\* Not so after a resolution or an expiry. truth.py:13-14: two fresh values for
\* one field are both CONFLICTED with an open conflict, whatever uncompared them.
RivalsConflict ==
    \A p \in Pairs :
      /\ \A v \in p : fact[v].fresh /\ fact[v].status \in {"VERIFIED", "UNVERIFIED"}
      /\ \A w \in Writers : writer[w].pc = "idle"
      => dispute[p].open > 0

\* Not so, for a requalification writes raw again. privacy.py:11-12: an erased
\* lead keeps no personal data in raw either.
ErasedIsRedacted == lead.mark => ~lead.pii /\ ~lead.raw

\* Not so with two activators. icp_store.py:5: exactly one version of a slug is
\* active.
OneActiveVersion ==
    (\A a \in Writers : activator[a].pc = "idle") =>
      Cardinality({v \in Versions : icp[v] = "active"}) <= 1

\* What a reader of the truth layer may rely on: facts have grounds, rivals are
\* in dispute, decisions of humans last.
TruthIsEarned ==
    [](VerifiedHasGrounds /\ NoSilentRival) /\ DecisionSurvives

=============================================================================
