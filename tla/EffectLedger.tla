---------------------------- MODULE EffectLedger ----------------------------
(***************************************************************************)
(* The provider gateway (infrastructure/providers/gateway.py): one job's    *)
(* requests run through a waterfall of providers, each call bracketed by an *)
(* effect-ledger row that is reserved before and completed after it.        *)
(*                                                                          *)
(* The ledger is written on the caller's transaction, the one that stores   *)
(* the result of the request: rows of an open transaction are kept in own,  *)
(* lock their keys, and disappear when it rolls back.  Statements see what  *)
(* is committed (READ COMMITTED) and the rows of their own transaction.     *)
(* Two workers are the owner of the job and a zombie of an earlier attempt. *)
(***************************************************************************)
EXTENDS Integers, Sequences, FiniteSets, FiniteSetsExt, Functions, TLC

CONSTANTS
  Workers,
  Waterfall,   \* the capability's providers, in order of priority
  Requests,    \* the (operation, params) pairs of the job
  Price,       \* spec.cost_cents_per_call, per provider
  Booked,      \* cost_cents of the provider's successful results
  Budget,      \* budget_cents of the job; 0 is no budget
  MaxCalls,    \* bound: external calls after which no execute begins
  MaxAborts    \* bound: rolled back units of work and crashes

Providers == Range(Waterfall)
Keys == Providers \X Requests

ASSUME LedgerAssumption ==
  /\ IsFiniteSet(Workers) /\ IsFiniteSet(Requests) /\ Requests # {}
  /\ Waterfall \in Seq(Providers) /\ Waterfall # <<>>
  /\ Price \in [Providers -> Nat]
  /\ Booked \in [Providers -> Nat]   \* an adapter books its price or nothing
  /\ \A p \in Providers : Booked[p] <= Price[p]
  /\ Budget \in Nat /\ MaxCalls \in Nat /\ MaxAborts \in Nat

VARIABLES
  row,       \* effects.effect_ledger, as committed
  stored,    \* the requests whose result is stored, as committed
  reviews,   \* pending approvals per ledger row
  flagged,   \* rows whose reconciled_at is set
  at,        \* where each worker is in execute
  local,     \* its locals: request, hop of the waterfall, row seen, cents spent, outcome
  own,       \* ledger rows its open transaction wrote; NoRow: not this one
  ownStored, \* requests whose result its open transaction stored
  picked,    \* uncertain rows its maintenance tick selected
  called,    \* calls the provider received
  answered,  \* calls it answered with a result
  aborts

transaction == <<own, ownStored>>
database == <<row, stored, reviews, flagged>>
outside == <<called, answered>>
vars == <<database, at, local, transaction, picked, outside, aborts>>

Statuses == {"none", "reserved", "succeeded", "failed", "uncertain"}
Rows == [status : Statuses, cost : Nat]
NoRow == [status |-> "none", cost |-> 0]
NoRows == [k \in Keys |-> NoRow]
Outcomes == {"ok", "retriable", "AMBIGUOUS", "terminal", "over_budget"}
AnyRequest == CHOOSE r \in Requests : TRUE
NoLocals == [request |-> AnyRequest, hop |-> 1, seen |-> "none", spent |-> -1,
             outcome |-> "terminal"]

TypeOK ==
  /\ row \in [Keys -> Rows]
  /\ stored \subseteq Requests
  /\ reviews \in [Keys -> Nat]
  /\ flagged \subseteq Keys
  /\ at \in [Workers -> {"open", "lookup", "reserve", "budget", "call", "settle", "review"}]
  /\ local \in [Workers -> [request : Requests, hop : DOMAIN Waterfall, seen : Statuses,
                            spent : Nat \union {-1}, outcome : Outcomes]]
  /\ own \in [Workers -> [Keys -> Rows]]
  /\ ownStored \in [Workers -> SUBSET Requests]
  /\ picked \in [Workers -> SUBSET Keys]
  /\ called \in [Keys -> Nat] /\ answered \in [Keys -> Nat]
  /\ aborts \in 0 .. MaxAborts

Init ==
  /\ row = NoRows
  /\ stored = {}
  /\ reviews = [k \in Keys |-> 0]
  /\ flagged = {}
  /\ at = [w \in Workers |-> "open"]
  /\ local = [w \in Workers |-> NoLocals]
  /\ own = [w \in Workers |-> NoRows]
  /\ ownStored = [w \in Workers |-> {}]
  /\ picked = [w \in Workers |-> {}]
  /\ called = [k \in Keys |-> 0]
  /\ answered = [k \in Keys |-> 0]
  /\ aborts = 0

-----------------------------------------------------------------------------
Provider(w) == Waterfall[local[w].hop]
Key(w) == <<Provider(w), local[w].request>>

\* The rows its open transaction wrote.
Wrote(w) == {k \in Keys : own[w][k] # NoRow}

\* What a SELECT of worker w returns for key k.
View(w, k) == IF k \in Wrote(w) THEN own[w][k] ELSE row[k]

\* Another open transaction wrote the row: a write of w waits for its end.
Locked(w, k) == \E v \in Workers \ {w} : k \in Wrote(v)

Write(w, k, r) ==
  /\ ~Locked(w, k)
  /\ own' = [own EXCEPT ![w][k] = r]

Goto(w, l) == at' = [at EXCEPT ![w] = l]
Return(w) == Goto(w, "open") /\ local' = [local EXCEPT ![w] = NoLocals]

\* Mutant: the sum misses the rows of its own transaction.
SpentCommitted(w) == MapThenSumSet(LAMBDA k : row[k].cost, Keys)

\* SUM(cost_cents) over the job's rows.
SpentCents(w) == MapThenSumSet(LAMBDA k : View(w, k).cost, Keys)

\* A job's unit of work calls execute; _verify does so several times in one.
Execute(w, r) ==
  /\ at[w] = "open"
  /\ MapThenSumSet(LAMBDA k : called[k], Keys) < MaxCalls
  /\ local' = [local EXCEPT ![w].request = r]
  /\ Goto(w, "lookup")
  /\ UNCHANGED <<database, transaction, picked, outside, aborts>>

\* Goes on with the row that reserve's SELECT returned.
Seen(w, status) ==
  /\ local' = [local EXCEPT ![w].seen = status]
  /\ Goto(w, "reserve")

\* Mutant: a succeeded row is reserved again like a failed one.
LookupReservesAll(w) ==
  LET status == View(w, Key(w)).status
  IN /\ at[w] = "lookup"
     /\ Seen(w, IF status = "succeeded" THEN "failed" ELSE status)
     /\ UNCHANGED <<database, transaction, picked, outside, aborts>>

\* Mutant: the lookup does not see the rows of its own transaction.
LookupCommitted(w) ==
  LET status == row[Key(w)].status
  IN /\ at[w] = "lookup"
     /\ IF status = "succeeded" THEN Return(w) ELSE Seen(w, status)
     /\ UNCHANGED <<database, transaction, picked, outside, aborts>>

\* reserve: the SELECT.  A succeeded effect is returned as cached.
Lookup(w) ==
  LET status == View(w, Key(w)).status
  IN /\ at[w] = "lookup"
     /\ IF status = "succeeded" THEN Return(w) ELSE Seen(w, status)
     /\ UNCHANGED <<database, transaction, picked, outside, aborts>>

\* reserve: the INSERT or UPDATE.  A reserved or uncertain row is taken as it is.
Reserve(w) ==
  /\ at[w] = "reserve"
  /\ \/ /\ local[w].seen = "none"
        /\ View(w, Key(w)).status = "none"
        /\ Write(w, Key(w), [status |-> "reserved", cost |-> 0])
     \/ /\ local[w].seen = "failed"
        /\ Write(w, Key(w), [View(w, Key(w)) EXCEPT !.status = "reserved"])
     \/ /\ local[w].seen \in {"reserved", "uncertain"}
        /\ UNCHANGED own
  /\ local' = [local EXCEPT ![w].seen = "none"]
  /\ Goto(w, "budget")
  /\ UNCHANGED <<database, ownStored, picked, outside, aborts>>

Charged(w) == Budget # 0 /\ Price[Provider(w)] > 0
\* What the job spent is summed once per execute.
Spent(w) ==
  IF Charged(w) /\ local[w].spent = -1 THEN SpentCents(w) ELSE local[w].spent
OverBudget(w) == Charged(w) /\ Price[Provider(w)] > Budget - Spent(w)

\* Mutant: no complete before the refusal is returned.
CheckBudgetUnsettled(w) ==
  /\ at[w] = "budget"
  /\ IF OverBudget(w) THEN Return(w)
     ELSE Goto(w, "call") /\ local' = [local EXCEPT ![w].spent = Spent(w)]
  /\ UNCHANGED <<database, transaction, picked, outside, aborts>>

CheckBudget(w) ==
  /\ at[w] = "budget"
  /\ \/ /\ OverBudget(w)
        /\ local' = [local EXCEPT ![w].spent = Spent(w), ![w].outcome = "over_budget"]
        /\ Goto(w, "settle")
     \/ /\ ~OverBudget(w)
        /\ local' = [local EXCEPT ![w].spent = Spent(w)]
        /\ Goto(w, "call")
  /\ UNCHANGED <<database, transaction, picked, outside, aborts>>

\* adapter.call, its exceptions classified.
Call(w) ==
  /\ at[w] = "call"
  /\ called' = [called EXCEPT ![Key(w)] = @ + 1]
  /\ \E o \in Outcomes \ {"over_budget"} :
       /\ local' = [local EXCEPT ![w].outcome = o]
       /\ answered' = IF o = "ok" THEN [answered EXCEPT ![Key(w)] = @ + 1] ELSE answered
  /\ Goto(w, "settle")
  /\ UNCHANGED <<database, transaction, picked, aborts>>

FinalStatus(o) ==
  CASE o = "ok" -> "succeeded" [] o = "AMBIGUOUS" -> "uncertain" [] OTHER -> "failed"

\* complete, then: return, or go on with the next provider.  The caller stores
\* a result on the same transaction.
Settle(w) ==
  LET o == local[w].outcome
      next == o \in {"retriable", "AMBIGUOUS"} /\ local[w].hop < Len(Waterfall)
  IN /\ at[w] = "settle"
     /\ Write(w, Key(w), [status |-> FinalStatus(o),
                          cost |-> IF o = "ok" THEN Booked[Provider(w)] ELSE 0])
     /\ ownStored' = IF o = "ok" THEN [ownStored EXCEPT ![w] = @ \union {local[w].request}]
                     ELSE ownStored
     /\ IF next
          THEN /\ local' = [local EXCEPT ![w].hop = @ + 1, ![w].outcome = NoLocals.outcome]
               /\ Goto(w, "lookup")
          ELSE Return(w)
     /\ UNCHANGED <<database, picked, outside, aborts>>

Commit(w) ==
  /\ at[w] = "open"
  /\ Wrote(w) # {}
  /\ row' = [k \in Keys |-> View(w, k)]
  /\ stored' = stored \union ownStored[w]
  /\ own' = [own EXCEPT ![w] = NoRows]
  /\ ownStored' = [ownStored EXCEPT ![w] = {}]
  /\ UNCHANGED <<reviews, flagged, at, local, picked, outside, aborts>>

\* Mutant: the ledger commits on a connection of its own.
RollBackKeepsLedger(w) ==
  /\ row' = [k \in Keys |-> View(w, k)]
  /\ own' = [own EXCEPT ![w] = NoRows]
  /\ ownStored' = [ownStored EXCEPT ![w] = {}]
  /\ picked' = [picked EXCEPT ![w] = {}]
  /\ Return(w)
  /\ UNCHANGED <<stored, reviews, flagged, outside>>

RollBack(w) ==
  /\ own' = [own EXCEPT ![w] = NoRows]
  /\ ownStored' = [ownStored EXCEPT ![w] = {}]
  /\ picked' = [picked EXCEPT ![w] = {}]
  /\ Return(w)
  /\ UNCHANGED <<database, outside>>

\* An error of the caller, or a dead process.
Abort(w) ==
  /\ at[w] # "open" \/ Wrote(w) # {}
  /\ aborts < MaxAborts
  /\ aborts' = aborts + 1
  /\ RollBack(w)

\* An INSERT of a key that was committed since the SELECT.
UniqueViolation(w) ==
  /\ at[w] = "reserve" /\ local[w].seen = "none"
  /\ View(w, Key(w)).status # "none"
  /\ RollBack(w)
  /\ UNCHANGED aborts

\* The database ends one transaction of a set that wait for each other.
Blocks(v, w) ==
  /\ \/ at[w] = "settle"
     \/ at[w] = "reserve" /\ local[w].seen \in {"none", "failed"}
  /\ v # w /\ Key(w) \in Wrote(v)

DeadlockVictim(w) ==
  /\ \E C \in SUBSET Workers : w \in C /\ \A u \in C : \E v \in C : Blocks(v, u)
  /\ RollBack(w)
  /\ UNCHANGED aborts

-----------------------------------------------------------------------------
(* _reconcile_uncertain_effects of the maintenance tick; the day an effect   *)
(* must have been uncertain for may always have passed.                      *)

\* Mutant: effects under review are selected again.
ReconcileReadAgain(w) ==
  /\ at[w] = "open" /\ Wrote(w) = {}
  /\ picked' = [picked EXCEPT ![w] = {k \in Keys : row[k].status = "uncertain"}]
  /\ Goto(w, "review")
  /\ UNCHANGED <<database, local, transaction, outside, aborts>>

ReconcileRead(w) ==
  /\ at[w] = "open" /\ Wrote(w) = {}
  /\ picked' = [picked EXCEPT ![w] =
       {k \in Keys : row[k].status = "uncertain" /\ k \notin flagged /\ reviews[k] = 0}]
  /\ Goto(w, "review")
  /\ UNCHANGED <<database, local, transaction, outside, aborts>>

\* Mutant: reconciled_at is not set.
ReconcileWriteUnmarked(w) ==
  /\ at[w] = "review"
  /\ \A k \in picked[w] : ~Locked(w, k)
  /\ reviews' = [k \in Keys |-> IF k \in picked[w] THEN reviews[k] + 1 ELSE reviews[k]]
  /\ picked' = [picked EXCEPT ![w] = {}]
  /\ Goto(w, "open")
  /\ UNCHANGED <<row, stored, flagged, local, transaction, outside, aborts>>

ReconcileWrite(w) ==
  /\ at[w] = "review"
  /\ \A k \in picked[w] : ~Locked(w, k)
  /\ reviews' = [k \in Keys |-> IF k \in picked[w] THEN reviews[k] + 1 ELSE reviews[k]]
  /\ flagged' = flagged \union picked[w]
  /\ picked' = [picked EXCEPT ![w] = {}]
  /\ Goto(w, "open")
  /\ UNCHANGED <<row, stored, local, transaction, outside, aborts>>

-----------------------------------------------------------------------------
WorkerStep(w) ==
  \/ \E r \in Requests : Execute(w, r)
  \/ Lookup(w) \/ Reserve(w) \/ CheckBudget(w) \/ Call(w) \/ Settle(w)
  \/ Commit(w) \/ Abort(w) \/ UniqueViolation(w) \/ DeadlockVictim(w)
  \/ ReconcileRead(w) \/ ReconcileWrite(w)

Next == \E w \in Workers : WorkerStep(w)

Spec == Init /\ [][Next]_vars

\* Calls return or time out, handlers end, and every cycle of a worker begins
\* with a maintenance tick.
WorkerFairness(w) ==
  /\ WF_vars(\/ Lookup(w) \/ Reserve(w) \/ CheckBudget(w) \/ Call(w) \/ Settle(w)
             \/ UniqueViolation(w) \/ DeadlockVictim(w))
  /\ SF_vars(Commit(w))
  /\ SF_vars(ReconcileRead(w))
  /\ WF_vars(ReconcileWrite(w))

Fairness == \A w \in Workers : WorkerFairness(w)

FairSpec == Spec /\ Fairness

-----------------------------------------------------------------------------
(* Properties.                                                               *)

\* The reserved status never outlives its transaction: a later attempt that
\* finds it would call the provider again without an answer to look for.
NothingLeftReserved == \A k \in Keys : row[k].status # "reserved"

\* An effect is skipped as succeeded only where its result is there to be used:
\* whatever crashed or raced, a cached answer never stands for lost data.
ReplayHasData ==
  \A w \in Workers : \A k \in Keys :
    View(w, k).status = "succeeded" => k[2] \in stored \union ownStored[w]

\* The costs booked for a job stay within its budget, over any number of
\* rolled back and repeated units of work.
BudgetKept ==
  Budget # 0 => MapThenSumSet(LAMBDA k : row[k].cost, Keys) <= Budget

\* An effect that succeeded stays succeeded, with its cost.
SucceededStays ==
  [][\A k \in Keys : row[k].status = "succeeded" => row'[k] = row[k]]_vars

\* A succeeded effect is not re-executed, by the same unit of work or a later
\* one: a provider answers a request again only where a rolled back unit of work
\* has forgotten the answer.  (For one worker.)
ReplaysAreRollbacks == \A k \in Keys : answered[k] <= 1 + aborts

\* Not so: an effect of unknown outcome is left to a person, never called again.
UncertainNotRetried ==
  [][\A k \in Keys : called'[k] # called[k] => row[k].status # "uncertain"]_vars

\* Reviews do not pile up tick after tick: only ticks that overlap can queue more
\* than one review of an effect.
ReviewsBounded == \A k \in Keys : reviews[k] <= Cardinality(Workers)

\* Over any number of rolled back units of work the booked costs stay within the
\* budget, and what succeeded is final.  (For one worker.)
SpendingIsFinal == []BudgetKept /\ SucceededStays

\* Whoever crashed or raced: no row is left reserved, a cached answer stands for
\* data that is stored, and reviews do not pile up.
EffectsAreSound == TypeOK /\ NothingLeftReserved /\ ReplayHasData /\ ReviewsBounded

\* An uncertain effect gets a review, or its outcome.
UncertainIsReviewed ==
  \A k \in Keys : row[k].status = "uncertain" ~> k \in flagged \/ row[k].status # "uncertain"

=============================================================================
