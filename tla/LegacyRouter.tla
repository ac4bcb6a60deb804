---------------------------- MODULE LegacyRouter ----------------------------
(***************************************************************************)
(* Router.route of lead_engine for one task: request cache, plan check,    *)
(* waterfall over the registry's rows, key pools, short retries, quota and *)
(* credit accounting.  Callers (jobs, requests) share the registry's table *)
(* and the credit ledger; each has its own adapters, so its own key index. *)
(***************************************************************************)
EXTENDS Integers, FiniteSets, Sequences

CONSTANTS
    Order,        \* providers of the task by priority
    Keys,         \* keys in the pool of a provider
    Limit,        \* monthly quota per key, 0 for none
    KeyCap,       \* daily budget of a key less its margin, 0 for no credit pool
    Callers,
    DailyCalls,   \* max_provider_calls_per_day
    Retries5xx,   \* short retries on one provider
    MaxUnits,     \* units an answer may report
    MaxUsed,      \* bound: units counted this month at the start
    MaxRoutes     \* bound: routes per caller

ProviderNames == {Order[i] : i \in 1 .. Len(Order)}

ASSUME RouterAssumption ==
    /\ Keys \in [ProviderNames -> Nat \ {0}]
    /\ Limit \in [ProviderNames -> Nat] /\ KeyCap \in [ProviderNames -> Nat]
    /\ DailyCalls \in Nat /\ Retries5xx \in Nat /\ MaxUnits \in Nat \ {0}
    /\ Order \in Seq(STRING) /\ IsFiniteSet(Callers) /\ Callers # {}

VARIABLES
    provider,   \* rows of providers
    spend,      \* CREDIT_SPEND of the process, per provider and key
    ledger,     \* rows of usage_ledger today
    stale,      \* providers whose quota period is a past month
    cached,     \* the query has a fresh row in the request cache
    route       \* what a caller holds

routerVars == <<provider, spend, ledger, stale, cached, route>>

Statuses == {"active", "cooldown", "exhausted"}
NoRoute == [pc |-> "idle", rows |-> <<>>, usable |-> {}, due |-> {}, tried |-> {},
            at |-> "none", key |-> 0, keyTry |-> 0, retry |-> 0]

RouterInit ==
    /\ provider \in [ProviderNames -> {[status |-> "active", until |-> "none", used |-> n] :
                                          n \in 0 .. MaxUsed}]
    /\ \A p \in ProviderNames : provider[p].used <= Limit[p] * Keys[p]
    /\ spend = [p \in ProviderNames |-> [k \in 1 .. Keys[p] |-> 0]]
    /\ ledger = 0 /\ stale = {} /\ cached = FALSE
    /\ route = [c \in Callers |-> [here |-> NoRoute, made |-> 0,
                                   index |-> [p \in ProviderNames |-> 1]]]

Step(c, r) == route' = [route EXCEPT ![c].here = r]
Mark(p, s, u) == [provider EXCEPT ![p].status = s, ![p].until = u]
WithinQuota(p) == Limit[p] = 0 \/ provider[p].used < Limit[p] * Keys[p]

Renewed == [status |-> "active", until |-> "none", used |-> 0]
CooledDown(p) == provider[p].status = "cooldown" /\ provider[p].until = "past"

\* _expire_states: a row as its reader takes it, after a new month or a cooldown.
Expired(p) ==
    IF p \in stale THEN Renewed
    ELSE IF CooledDown(p) THEN [provider[p] EXCEPT !.status = "active", !.until = "none"]
    ELSE provider[p]

\* The rows it has yet to write so.
Outdated ==
    {x \in ProviderNames \X {"month", "cooldown"} :
       IF x[1] \in stale THEN x[2] = "month" ELSE x[2] = "cooldown" /\ CooledDown(x[1])}

\* Mutant of UsableRow: the last unit of the quota is counted once too often.
UsableRowFull(p) ==
    /\ Expired(p).status \in {"active", "cooldown"}
    /\ Limit[p] = 0 \/ Expired(p).used <= Limit[p] * Keys[p]

\* _usable: a running cooldown does not exclude a provider.
UsableRow(p) ==
    /\ Expired(p).status \in {"active", "cooldown"}
    /\ Limit[p] = 0 \/ Expired(p).used < Limit[p] * Keys[p]

\* Mutant of Pinned: a pinned provider is the only one asked.
PinnedAlone(pin) == IF pin = "none" THEN Order ELSE <<pin>>

\* A pinned provider leads the rows and excludes none of the others.
Pinned(pin) ==
    LET row == CHOOSE i \in DOMAIN Order : Order[i] = pin
    IN IF pin = "none" THEN Order
       ELSE <<pin>> \o SubSeq(Order, 1, row - 1) \o SubSeq(Order, row + 1, Len(Order))

CacheHit(c) ==
    /\ route[c].here.pc = "idle" /\ cached /\ route[c].made < MaxRoutes
    /\ route' = [route EXCEPT ![c].made = @ + 1]
    /\ UNCHANGED <<provider, spend, ledger, stale, cached>>

\* The plan's daily calls are counted before the waterfall.
BeginRoute(c) ==
    /\ route[c].here.pc = "idle" /\ route[c].made < MaxRoutes
    /\ \E pin \in ProviderNames \cup {"none"} :
         route' = [route EXCEPT ![c].made = @ + 1, ![c].here =
           [NoRoute EXCEPT !.pc = IF ledger < DailyCalls THEN "read" ELSE "none",
                           !.rows = Pinned(pin)]]
    /\ UNCHANGED <<provider, spend, ledger, stale, cached>>

\* The SELECT of providers_for_task.
ReadRegistry(c) ==
    /\ route[c].here.pc = "read"
    /\ Step(c, [route[c].here EXCEPT !.pc = "expire", !.due = Outdated,
                  !.usable = {p \in ProviderNames : UsableRow(p)}])
    /\ UNCHANGED <<provider, spend, ledger, stale, cached>>

\* Then an UPDATE for each outdated row, by its name alone: a second reader resets
\* a month or ends a cooldown over what has been counted and marked since.
ExpireRow(c) ==
    /\ route[c].here.pc = "expire"
    /\ \E x \in route[c].here.due :
         /\ Step(c, [route[c].here EXCEPT !.due = @ \ {x}])
         /\ IF x[2] = "month"
            THEN provider' = [provider EXCEPT ![x[1]] = Renewed] /\ stale' = stale \ {x[1]}
            ELSE provider' = Mark(x[1], "active", "none") /\ UNCHANGED stale
    /\ UNCHANGED <<spend, ledger, cached>>

StartWaterfall(c) ==
    /\ route[c].here.pc = "expire" /\ route[c].here.due = {}
    /\ Step(c, [route[c].here EXCEPT !.pc = "pick"])
    /\ UNCHANGED <<provider, spend, ledger, stale, cached>>

\* rotate_for_budget: the first key from the current one that fits, else the
\* least loaded.
BudgetKey(p, i) ==
    LET turn(k) == ((i - 1 + k) % Keys[p]) + 1
        fits == {k \in 0 .. Keys[p] - 1 : spend[p][turn(k)] + 1 <= KeyCap[p]}
    IN IF KeyCap[p] = 0 \/ Keys[p] = 1 THEN i
       ELSE IF fits # {} THEN turn(CHOOSE k \in fits : \A l \in fits : k <= l)
       ELSE CHOOSE k \in 1 .. Keys[p] : \A l \in 1 .. Keys[p] :
              spend[p][k] < spend[p][l] \/ (spend[p][k] = spend[p][l] /\ k <= l)

PickProvider(c) ==
    LET r == route[c].here  p == Head(r.rows) IN
    /\ r.pc = "pick" /\ r.rows # <<>>
    /\ \/ /\ p \notin r.usable
          /\ Step(c, [r EXCEPT !.rows = Tail(@)]) /\ UNCHANGED provider
       \/ \* the window of requests per minute is full
          /\ p \in r.usable /\ provider' = Mark(p, "cooldown", "later")
          /\ Step(c, [r EXCEPT !.rows = Tail(@), !.tried = @ \cup {p}])
       \/ /\ p \in r.usable /\ UNCHANGED provider
          /\ LET k == BudgetKey(p, route[c].index[p]) IN
               route' = [route EXCEPT ![c].index[p] = k, ![c].here =
                 [r EXCEPT !.rows = Tail(@), !.pc = "request", !.at = p, !.key = k,
                           !.keyTry = 0, !.retry = 0, !.tried = @ \cup {p}]]
    /\ UNCHANGED <<spend, ledger, stale, cached>>

\* note_credit_spend runs after the loop, for the key the call ended with.
Charged(p, k) ==
    IF KeyCap[p] = 0 \/ Keys[p] = 1 THEN spend ELSE [spend EXCEPT ![p][k] = @ + 1]

\* Each way a request fails: what it records, and how the row is marked when
\* no key is left to turn to.
Failures == {"429", "quota", "auth", "5xx", "error"}
MarkedAs(f) == CASE f = "quota" -> <<"exhausted", "none">>
                 [] f \in {"429", "auth", "5xx"} -> <<"cooldown", "later">>
                 [] OTHER -> <<"none", "none">>

RequestFails(c, f) ==
    LET r == route[c].here  p == r.at IN
    /\ r.pc = "request"
    /\ ledger' = IF f = "5xx" THEN ledger ELSE ledger + 1
    /\ CASE f = "5xx" /\ r.retry < Retries5xx ->
              Step(c, [r EXCEPT !.retry = @ + 1]) /\ UNCHANGED <<provider, spend>>
         [] f \in {"429", "quota", "auth"} /\ r.key < Keys[p] ->
              /\ route' = [route EXCEPT ![c].index[p] = r.key + 1, ![c].here =
                             [r EXCEPT !.key = @ + 1, !.keyTry = @ + 1]]
              /\ UNCHANGED <<provider, spend>>
         [] OTHER ->
              /\ Step(c, [r EXCEPT !.pc = "pick"])
              /\ spend' = Charged(p, r.key)
              /\ provider' = IF f = "error" THEN provider
                             ELSE Mark(p, MarkedAs(f)[1], MarkedAs(f)[2])
    /\ UNCHANGED <<stale, cached>>

RequestSucceeds(c) ==
    LET r == route[c].here  p == r.at IN
    /\ r.pc = "request" /\ Step(c, [r EXCEPT !.pc = "count"])
    /\ spend' = Charged(p, r.key) /\ ledger' = ledger + 1
    /\ UNCHANGED <<provider, stale, cached>>

\* add_quota_used adds the units of the answer in one statement and marks in
\* another; a header that reports nothing left marks again.
CountQuota(c) ==
    LET r == route[c].here IN
    /\ r.pc = "count" /\ Step(c, [r EXCEPT !.pc = "mark"])
    /\ \E units \in 0 .. MaxUnits : provider' = [provider EXCEPT ![r.at].used = @ + units]
    /\ UNCHANGED <<spend, ledger, stale, cached>>

MarkQuota(c) ==
    LET r == route[c].here IN
    /\ r.pc = "mark" /\ Step(c, NoRoute)
    /\ provider' \in {IF WithinQuota(r.at) THEN provider ELSE Mark(r.at, "exhausted", "none"),
                      Mark(r.at, "cooldown", "later")}
    /\ cached' = TRUE
    /\ UNCHANGED <<spend, ledger, stale>>

\* NoProviderAvailable: the job pauses.
NoProvider(c) ==
    /\ \/ route[c].here.pc = "pick" /\ route[c].here.rows = <<>>
       \/ route[c].here.pc = "none"
    /\ Step(c, NoRoute)
    /\ UNCHANGED <<provider, spend, ledger, stale, cached>>

CacheExpires ==
    /\ cached /\ cached' = FALSE
    /\ UNCHANGED <<provider, spend, ledger, stale, route>>

CooldownEnds(p) ==
    /\ provider[p].until = "later"
    /\ provider' = [provider EXCEPT ![p].until = "past"]
    /\ UNCHANGED <<spend, ledger, stale, cached, route>>

MonthTurns ==
    /\ stale' = {p \in ProviderNames : Limit[p] > 0 /\ provider[p].used > 0}
    /\ UNCHANGED <<provider, spend, ledger, cached, route>>

RouteStep(c) ==
    \/ BeginRoute(c) /\ ~cached
    \/ CacheHit(c) \/ ReadRegistry(c) \/ ExpireRow(c) \/ StartWaterfall(c)
    \/ PickProvider(c) \/ RequestSucceeds(c)
    \/ CountQuota(c) \/ MarkQuota(c) \/ NoProvider(c)
    \/ \E f \in Failures : RequestFails(c, f)

RouterNext ==
    \/ \E c \in Callers : RouteStep(c)
    \/ CacheExpires \/ MonthTurns \/ \E p \in ProviderNames : CooldownEnds(p)

RouterSpec == RouterInit /\ [][RouterNext]_routerVars

(***************************************************************************)
(* Properties.                                                             *)
(***************************************************************************)

\* The check of a quota and its count are apart, so callers can overshoot it: what
\* is counted stays under the quota but for one answer of each caller that read it
\* so, though months turn and rows are reset late (registry.py:85-102, 164-178).
QuotaOvershootBounded ==
    \A p \in ProviderNames : Limit[p] > 0 =>
      provider[p].used <= Limit[p] * Keys[p] - 1 + MaxUnits * Cardinality(Callers)

\* A job pauses for capacity only when each provider its route could use was
\* tried, whichever was pinned (router.py:131-150, 249).
PauseIsJustified ==
    \A c \in Callers :
      LET r == route[c].here IN
        r.pc = "pick" /\ r.rows = <<>> => r.usable \subseteq r.tried

\* Not so, for registry.py:121 counts COOLDOWN as usable: a provider in cooldown
\* is skipped like a blocked one (router.py:133-135).
CooldownRespected ==
    [][\A c \in Callers :
         route[c].here.pc = "pick" /\ route'[c].here.pc = "request"
           => provider[route'[c].here.at].until # "later"]_routerVars

\* What callers that share providers may rely on: no quota is overshot by more
\* than an answer of each, and no job pauses while a provider is left.
ProvidersAreShared == QuotaOvershootBounded /\ PauseIsJustified

=============================================================================
