------------------------- MODULE EffectLedgerProofs -------------------------
(***************************************************************************)
(* Theorems about EffectLedger.  For every number of workers: no row stays  *)
(* reserved, an effect is skipped as succeeded only where its result is     *)
(* there, and reviews do not pile up.  For one worker, which is all the     *)
(* lease of a job admits at a time: a provider answers a request again only *)
(* where a rolled back unit of work has forgotten the answer, the booked    *)
(* costs stay within the budget, and what succeeded is final.               *)
(***************************************************************************)
EXTENDS EffectLedger, SumTheorems, TLAPS

Under == {"budget", "call", "settle"}

\* A row that says succeeded has its result beside it.
Answers ==
  /\ \A k \in Keys : row[k].status = "succeeded" => k[2] \in stored
  /\ \A w \in Workers : \A k \in Keys :
       own[w][k].status = "succeeded" => k[2] \in stored \union ownStored[w]

\* A row is reserved while its call is under way, by the worker that calls.
Reservations ==
  /\ NothingLeftReserved
  /\ \A w \in Workers : \A k \in Keys :
       own[w][k].status = "reserved" => at[w] \in Under /\ k = Key(w)

\* The workers that are about to queue a review of k.
Reviewers(k) == {w \in Workers : k \in picked[w]}

ReviewTally ==
  /\ \A w \in Workers : picked[w] # {} => at[w] = "review"
  /\ \A k \in Keys : reviews[k] + Cardinality(Reviewers(k)) <= Cardinality(Workers)

LedgerInv == TypeOK /\ Answers /\ Reservations /\ ReviewTally

-----------------------------------------------------------------------------
(* One worker.                                                               *)

\* Between the lookup of an effect and its completion nobody else settles it.
Pending(w) ==
  /\ at[w] = "reserve" => local[w].seen = View(w, Key(w)).status
  /\ at[w] \in {"reserve"} \union Under => View(w, Key(w)).status # "succeeded"

\* What succeeded is not written again.
Settled(w) == \A k \in Keys : row[k].status = "succeeded" => own[w][k] = NoRow

\* The provider has answered and the row does not say so yet.
Undelivered(w, k) == at[w] = "settle" /\ local[w].outcome = "ok" /\ k = Key(w)

\* An answer is in the ledger, or on its way there, or was rolled back.
Remembered(w) ==
  \A k \in Keys :
    \/ answered[k] <= aborts
    \/ /\ answered[k] <= aborts + 1
       /\ View(w, k).status = "succeeded" \/ Undelivered(w, k)

\* Only what succeeded costs something.
Priced(w) ==
  \A k \in Keys :
    /\ row[k].status # "succeeded" => row[k].cost = 0
    /\ own[w][k].status # "succeeded" => own[w][k].cost = 0

RowCents == MapThenSumSet(LAMBDA k : row[k].cost, Keys)

\* The sum the worker keeps is the ledger's, and leaves room for its call.
Affordable(w) ==
  /\ local[w].spent # -1 => local[w].spent = SpentCents(w)
  /\ Budget # 0 =>
       /\ RowCents <= Budget
       /\ SpentCents(w) <= Budget
       /\ at[w] = "call" \/ (at[w] = "settle" /\ local[w].outcome = "ok") =>
            SpentCents(w) + Price[Provider(w)] <= Budget

SoleInv(w) == Pending(w) /\ Settled(w) /\ Remembered(w) /\ Priced(w) /\ Affordable(w)

-----------------------------------------------------------------------------
(* Keys, rows and sums.                                                      *)

(* A job has finitely many effects.                                          *)
LEMMA KeysFinite == IsFiniteSet(Keys)
<1>1. Waterfall \in Surjection(DOMAIN Waterfall, Providers)
  BY LedgerAssumption DEF Providers, Range, Surjection
<1>2. DOMAIN Waterfall = 1 .. Len(Waterfall) /\ Len(Waterfall) \in Nat
  BY LedgerAssumption
<1>3. IsFiniteSet(DOMAIN Waterfall)
  <2>1. 1 \in Int /\ Len(Waterfall) \in Int
    BY <1>2
  <2>2. QED  BY <1>2, <2>1, FS_Interval
<1>4. IsFiniteSet(Providers)
  BY <1>1, <1>3, FS_Surjection
<1>5. QED
  BY <1>4, LedgerAssumption, FS_Product DEF Keys

(* The effect a worker is at, and the price of the provider.                 *)
LEMMA KeyType ==
  ASSUME TypeOK, NEW w \in Workers
  PROVE  /\ Key(w) \in Keys /\ Provider(w) \in Providers
         /\ Key(w)[2] = local[w].request /\ local[w].request \in Requests
         /\ Price[Provider(w)] \in Nat /\ Booked[Provider(w)] \in Nat
         /\ Booked[Provider(w)] <= Price[Provider(w)]
<1>1. local[w].hop \in DOMAIN Waterfall /\ local[w].request \in Requests
  BY DEF TypeOK
<1>2. Waterfall[local[w].hop] \in Providers
  BY <1>1 DEF Providers, Range
<1>3. Key(w)[2] = local[w].request
  BY DEF Key
<1>4. QED
  BY <1>1, <1>2, <1>3, LedgerAssumption DEF Key, Provider, Keys

(* What a SELECT returns is a row.                                           *)
LEMMA ViewType ==
  ASSUME TypeOK, NEW w \in Workers, NEW k \in Keys
  PROVE  /\ View(w, k) \in Rows /\ row[k] \in Rows /\ own[w][k] \in Rows
         /\ View(w, k).cost \in Nat /\ row[k].cost \in Nat
         /\ View(w, k) = IF own[w][k] # NoRow THEN own[w][k] ELSE row[k]
<1>1. row[k] \in Rows /\ own[w][k] \in Rows
  BY DEF TypeOK
<1>2. View(w, k) = IF own[w][k] # NoRow THEN own[w][k] ELSE row[k]
  BY DEF View, Wrote
<1>3. View(w, k) \in Rows
  BY <1>1, <1>2
<1>4. QED
  BY <1>1, <1>2, <1>3 DEF Rows

(* The SUM of a statement over the rows it sees.                             *)
LEMMA SpentIsTotal ==
  ASSUME NEW w, \A k \in Keys : View(w, k).cost \in Nat
  PROVE  SpentCents(w) = Total([k \in Keys |-> View(w, k).cost], Keys)
<1> DEFINE f == [k \in Keys |-> View(w, k).cost]
           Eq(g) == g = [s \in SUBSET Keys |->
                           IF s = {} THEN 0
                           ELSE View(w, CHOOSE x \in s : TRUE).cost
                                + g[s \ {CHOOSE x \in s : TRUE}]]
           it == CHOOSE g : Eq(g)
<1>1. SpentCents(w) = it[Keys]
  BY DEF SpentCents, MapThenSumSet, MapThenFoldSet
<1>2. \A k \in Keys : f[k] \in Nat
  OBVIOUS
<1>3. ASSUME NEW g
      PROVE  Eq(g) <=> Sums(g, f, Keys)
  <2>1. ASSUME NEW s \in SUBSET Keys, s # {}
        PROVE  f[Some(s)] = View(w, CHOOSE x \in s : TRUE).cost
    BY <2>1 DEF Some
  <2>2. [s \in SUBSET Keys |-> IF s = {} THEN 0
                               ELSE View(w, CHOOSE x \in s : TRUE).cost
                                    + g[s \ {CHOOSE x \in s : TRUE}]]
        = [s \in SUBSET Keys |-> IF s = {} THEN 0 ELSE f[Some(s)] + g[s \ {Some(s)}]]
    <3> HIDE DEF f
    <3> QED  BY <2>1 DEF Some
  <2>3. QED  BY <2>2 DEF Sums
<1> HIDE DEF Eq, f
<1>4. \E g : Eq(g)
  BY <1>2, <1>3, KeysFinite, SumsExist
<1>5. Eq(it)
  BY <1>4
<1>6. it[Keys] = Total(f, Keys)
  <2> HIDE DEF it
  <2> QED  BY <1>2, <1>3, <1>5, KeysFinite, SumsUnique
<1>7. QED
  BY <1>1, <1>6 DEF f

(* The sum of the committed rows.                                            *)
LEMMA RowCentsIsTotal ==
  ASSUME \A k \in Keys : row[k].cost \in Nat
  PROVE  RowCents = Total([k \in Keys |-> row[k].cost], Keys)
<1> DEFINE f == [k \in Keys |-> row[k].cost]
           Eq(g) == g = [s \in SUBSET Keys |->
                           IF s = {} THEN 0
                           ELSE row[CHOOSE x \in s : TRUE].cost
                                + g[s \ {CHOOSE x \in s : TRUE}]]
           it == CHOOSE g : Eq(g)
<1>1. RowCents = it[Keys]
  BY DEF RowCents, MapThenSumSet, MapThenFoldSet
<1>2. \A k \in Keys : f[k] \in Nat
  OBVIOUS
<1>3. ASSUME NEW g
      PROVE  Eq(g) <=> Sums(g, f, Keys)
  <2>1. ASSUME NEW s \in SUBSET Keys, s # {}
        PROVE  f[Some(s)] = row[CHOOSE x \in s : TRUE].cost
    BY <2>1 DEF Some
  <2>2. [s \in SUBSET Keys |-> IF s = {} THEN 0
                               ELSE row[CHOOSE x \in s : TRUE].cost
                                    + g[s \ {CHOOSE x \in s : TRUE}]]
        = [s \in SUBSET Keys |-> IF s = {} THEN 0 ELSE f[Some(s)] + g[s \ {Some(s)}]]
    <3> HIDE DEF f
    <3> QED  BY <2>1 DEF Some
  <2>3. QED  BY <2>2 DEF Sums
<1> HIDE DEF Eq, f
<1>4. \E g : Eq(g)
  BY <1>2, <1>3, KeysFinite, SumsExist
<1>5. Eq(it)
  BY <1>4
<1>6. it[Keys] = Total(f, Keys)
  <2> HIDE DEF it
  <2> QED  BY <1>2, <1>3, <1>5, KeysFinite, SumsUnique
<1>7. QED
  BY <1>1, <1>6 DEF f

(* A sum of costs is a natural number.                                       *)
LEMMA CostsType ==
  ASSUME NEW f, \A k \in Keys : f[k] \in Nat
  PROVE  Total(f, Keys) \in Nat
<1>1. IsFiniteSet(Units(f, Keys))
  BY KeysFinite, UnitsFinite
<1>2. QED
  BY <1>1, FS_CardinalityType DEF Total

(* A SUM of costs is a natural number of cents.                             *)
LEMMA SpentType ==
  ASSUME TypeOK, NEW w \in Workers
  PROVE  SpentCents(w) \in Nat
<1>1. \A k \in Keys : View(w, k).cost \in Nat
  BY ViewType
<1>2. Total([k \in Keys |-> View(w, k).cost], Keys) \in Nat
  BY <1>1, CostsType
<1>3. QED
  BY <1>1, <1>2, SpentIsTotal

-----------------------------------------------------------------------------
(* Any number of workers.                                                    *)

Places == {"open", "lookup", "reserve", "budget", "call", "settle", "review"}
Locals == [request : Requests, hop : DOMAIN Waterfall, seen : Statuses,
           spent : Nat \union {-1}, outcome : Outcomes]

(* The locals an execute begins with.                                        *)
LEMMA NoLocalsType == NoLocals \in Locals
<1>1. AnyRequest \in Requests
  BY LedgerAssumption DEF AnyRequest
<1>2. 1 \in DOMAIN Waterfall
  BY LedgerAssumption
<1>3. QED
  BY <1>1, <1>2 DEF NoLocals, Locals, Statuses, Outcomes

(* A row that is not there is a row.                                         *)
LEMMA NoRowType == NoRow \in Rows /\ NoRows \in [Keys -> Rows]
BY DEF NoRow, NoRows, Rows, Statuses

(* Initially the types are right.                                            *)
LEMMA TypeInit == Init => TypeOK
<1> SUFFICES ASSUME Init PROVE TypeOK
  OBVIOUS
<1>1. aborts \in 0 .. MaxAborts
  BY LedgerAssumption DEF Init
<1>2. local \in [Workers -> Locals]
  BY NoLocalsType DEF Init
<1>3. row \in [Keys -> Rows] /\ own \in [Workers -> [Keys -> Rows]]
  BY NoRowType DEF Init
<1>4. QED
  BY <1>1, <1>2, <1>3 DEF Init, TypeOK, Locals

(* Rows, locals and places are of their type after any step.                 *)
LEMMA TypeStep ==
  ASSUME TypeOK, [Next]_vars
  PROVE  TypeOK'
<1>1. local \in [Workers -> Locals] /\ at \in [Workers -> Places]
  BY DEF TypeOK, Locals, Places
<1>2. SUFFICES /\ row' \in [Keys -> Rows] /\ stored' \subseteq Requests
               /\ reviews' \in [Keys -> Nat] /\ flagged' \subseteq Keys
               /\ at' \in [Workers -> Places] /\ local' \in [Workers -> Locals]
               /\ own' \in [Workers -> [Keys -> Rows]]
               /\ ownStored' \in [Workers -> SUBSET Requests]
               /\ picked' \in [Workers -> SUBSET Keys]
               /\ called' \in [Keys -> Nat] /\ answered' \in [Keys -> Nat]
               /\ aborts' \in 0 .. MaxAborts
  BY DEF TypeOK, Places, Locals
<1>3. CASE UNCHANGED vars
  BY <1>1, <1>3 DEF TypeOK, vars, database, transaction, outside
<1>4. ASSUME NEW w \in Workers, WorkerStep(w)
      PROVE  /\ row' \in [Keys -> Rows] /\ stored' \subseteq Requests
             /\ reviews' \in [Keys -> Nat] /\ flagged' \subseteq Keys
             /\ at' \in [Workers -> Places] /\ local' \in [Workers -> Locals]
             /\ own' \in [Workers -> [Keys -> Rows]]
             /\ ownStored' \in [Workers -> SUBSET Requests]
             /\ picked' \in [Workers -> SUBSET Keys]
             /\ called' \in [Keys -> Nat] /\ answered' \in [Keys -> Nat]
             /\ aborts' \in 0 .. MaxAborts
  <2>1. Key(w) \in Keys /\ local[w] \in Locals /\ View(w, Key(w)) \in Rows
        /\ local[w].request \in Requests
    BY <1>1, KeyType, ViewType
  <2>2. \A l \in Places : Goto(w, l) => at' \in [Workers -> Places]
    BY <1>1 DEF Goto
  <2>3. Return(w) => at' \in [Workers -> Places] /\ local' \in [Workers -> Locals]
    BY <1>1, NoLocalsType DEF Return, Goto, Places
  <2>4. ASSUME NEW r \in Rows, Write(w, Key(w), r)
        PROVE  own' \in [Workers -> [Keys -> Rows]]
    BY <2>1, <2>4 DEF Write, TypeOK
  <2>5. ASSUME NEW r \in Requests, Execute(w, r)
        PROVE  /\ UNCHANGED <<database, transaction, picked, outside, aborts>>
               /\ at' \in [Workers -> Places] /\ local' \in [Workers -> Locals]
    BY <1>1, <2>2, <2>5 DEF Execute, Places, Locals
  <2>6. ASSUME Lookup(w)
        PROVE  /\ UNCHANGED <<database, transaction, picked, outside, aborts>>
               /\ at' \in [Workers -> Places] /\ local' \in [Workers -> Locals]
    <3>1. View(w, Key(w)).status \in Statuses
      BY <2>1 DEF Rows
    <3>2. ASSUME NEW status \in Statuses, Seen(w, status)
          PROVE  at' \in [Workers -> Places] /\ local' \in [Workers -> Locals]
      BY <1>1, <2>2, <3>2 DEF Seen, Places, Locals
    <3>3. QED  BY <2>3, <2>6, <3>1, <3>2 DEF Lookup
  <2>7. ASSUME Reserve(w)
        PROVE  /\ UNCHANGED <<database, ownStored, picked, outside, aborts>>
               /\ own' \in [Workers -> [Keys -> Rows]]
               /\ at' \in [Workers -> Places] /\ local' \in [Workers -> Locals]
    <3>1. at' \in [Workers -> Places]
      BY <2>2, <2>7 DEF Reserve, Places
    <3>2. local' \in [Workers -> Locals]
      BY <1>1, <2>7 DEF Reserve, Locals, Statuses
    <3>3. [status |-> "reserved", cost |-> 0] \in Rows
          /\ [View(w, Key(w)) EXCEPT !.status = "reserved"] \in Rows
      BY <2>1 DEF Rows, Statuses
    <3>4. own \in [Workers -> [Keys -> Rows]]
      BY DEF TypeOK
    <3>5. QED  BY <2>4, <2>7, <3>1, <3>2, <3>3, <3>4 DEF Reserve
  <2>8. ASSUME CheckBudget(w)
        PROVE  /\ UNCHANGED <<database, transaction, picked, outside, aborts>>
               /\ at' \in [Workers -> Places] /\ local' \in [Workers -> Locals]
    <3>1. Spent(w) \in Nat \union {-1}
      BY <2>1, SpentType DEF Spent, Locals
    <3>2. at' \in [Workers -> Places]
      BY <2>2, <2>8 DEF CheckBudget, Places
    <3>3. local' \in [Workers -> Locals]
      BY <1>1, <2>8, <3>1 DEF CheckBudget, Locals, Outcomes
    <3>4. QED  BY <2>8, <3>2, <3>3 DEF CheckBudget
  <2>9. ASSUME Call(w)
        PROVE  /\ UNCHANGED <<database, transaction, picked, aborts>>
               /\ called' \in [Keys -> Nat] /\ answered' \in [Keys -> Nat]
               /\ at' \in [Workers -> Places] /\ local' \in [Workers -> Locals]
    <3>1. at' \in [Workers -> Places]
      BY <2>2, <2>9 DEF Call, Places
    <3>2. local' \in [Workers -> Locals]
      BY <1>1, <2>9 DEF Call, Locals
    <3>3. called' \in [Keys -> Nat] /\ answered' \in [Keys -> Nat]
      BY <2>1, <2>9 DEF Call, TypeOK
    <3>4. QED  BY <2>9, <3>1, <3>2, <3>3 DEF Call
  <2>10. ASSUME Settle(w)
         PROVE  /\ UNCHANGED <<database, picked, outside, aborts>>
                /\ own' \in [Workers -> [Keys -> Rows]]
                /\ ownStored' \in [Workers -> SUBSET Requests]
                /\ at' \in [Workers -> Places] /\ local' \in [Workers -> Locals]
    <3>1. FinalStatus(local[w].outcome) \in Statuses
      BY DEF FinalStatus, Statuses
    <3>2. (IF local[w].outcome = "ok" THEN Booked[Provider(w)] ELSE 0) \in Nat
      BY KeyType
    <3>3. own' \in [Workers -> [Keys -> Rows]]
      BY <2>4, <2>10, <3>1, <3>2 DEF Settle, Rows
    <3>4. ownStored' \in [Workers -> SUBSET Requests]
      BY <2>1, <2>10 DEF Settle, TypeOK
    <3>5. Return(w) \/ (Goto(w, "lookup") /\ local[w].hop < Len(Waterfall)
                        /\ local' = [local EXCEPT ![w].hop = @ + 1,
                                                  ![w].outcome = NoLocals.outcome])
      BY <2>10 DEF Settle
    <3>6. NoLocals.outcome \in Outcomes
      BY DEF NoLocals, Outcomes
    <3>7. local[w].hop < Len(Waterfall) => local[w].hop + 1 \in DOMAIN Waterfall
      BY <2>1, LedgerAssumption DEF Locals
    <3>8. CASE Return(w)
      BY <2>3, <2>10, <3>3, <3>4, <3>8 DEF Settle
    <3>9. CASE Goto(w, "lookup") /\ local[w].hop < Len(Waterfall)
               /\ local' = [local EXCEPT ![w].hop = @ + 1,
                                         ![w].outcome = NoLocals.outcome]
      <4>1. at' \in [Workers -> Places]
        BY <2>2, <3>9 DEF Places
      <4>2. [local[w] EXCEPT !.hop = @ + 1, !.outcome = NoLocals.outcome] \in Locals
        BY <1>1, <3>6, <3>7, <3>9 DEF Locals
      <4>3. local' = [local EXCEPT ![w] = [local[w] EXCEPT !.hop = @ + 1,
                                             !.outcome = NoLocals.outcome]]
        BY <1>1, <3>9
      <4>4. local' \in [Workers -> Locals]
        BY <1>1, <4>2, <4>3
      <4>5. QED  BY <2>10, <3>3, <3>4, <4>1, <4>4 DEF Settle
    <3>10. QED  BY <3>5, <3>8, <3>9
  <2>11. ASSUME Commit(w)
         PROVE  /\ row' \in [Keys -> Rows] /\ stored' \subseteq Requests
                /\ own' \in [Workers -> [Keys -> Rows]]
                /\ ownStored' \in [Workers -> SUBSET Requests]
                /\ UNCHANGED <<reviews, flagged, at, local, picked, outside, aborts>>
    <3>1. \A k \in Keys : View(w, k) \in Rows
      BY ViewType
    <3>2. QED  BY <2>11, <3>1, NoRowType DEF Commit, TypeOK
  <2>12. ASSUME RollBack(w), aborts' \in 0 .. MaxAborts
         PROVE  /\ UNCHANGED <<database, outside>> /\ aborts' \in 0 .. MaxAborts
                /\ own' \in [Workers -> [Keys -> Rows]]
                /\ ownStored' \in [Workers -> SUBSET Requests]
                /\ picked' \in [Workers -> SUBSET Keys]
                /\ at' \in [Workers -> Places] /\ local' \in [Workers -> Locals]
    BY <2>3, <2>12, NoRowType DEF RollBack, TypeOK
  <2>13. Abort(w) \/ UniqueViolation(w) \/ DeadlockVictim(w)
         => RollBack(w) /\ aborts' \in 0 .. MaxAborts
    <3>1. aborts < MaxAborts => aborts + 1 \in 0 .. MaxAborts
      BY LedgerAssumption DEF TypeOK
    <3>2. aborts \in 0 .. MaxAborts
      BY DEF TypeOK
    <3>3. QED  BY <3>1, <3>2 DEF Abort, UniqueViolation, DeadlockVictim
  <2>14. ASSUME ReconcileRead(w)
         PROVE  /\ UNCHANGED <<database, local, transaction, outside, aborts>>
                /\ picked' \in [Workers -> SUBSET Keys] /\ at' \in [Workers -> Places]
    <3>1. {k \in Keys : row[k].status = "uncertain" /\ k \notin flagged /\ reviews[k] = 0}
          \in SUBSET Keys
      OBVIOUS
    <3>2. QED  BY <2>2, <2>14, <3>1 DEF ReconcileRead, Places, TypeOK
  <2>15. ASSUME ReconcileWrite(w)
         PROVE  /\ UNCHANGED <<row, stored, local, transaction, outside, aborts>>
                /\ reviews' \in [Keys -> Nat] /\ flagged' \subseteq Keys
                /\ picked' \in [Workers -> SUBSET Keys] /\ at' \in [Workers -> Places]
    BY <2>2, <2>15 DEF ReconcileWrite, Places, TypeOK
  <2>16. QED
    BY <1>1, <1>4, <2>5, <2>6, <2>7, <2>8, <2>9, <2>10, <2>11, <2>12, <2>13, <2>14, <2>15
       DEF WorkerStep, database, transaction, outside, TypeOK
<1>5. QED
  BY <1>3, <1>4 DEF Next

\* What a rolled back unit of work leaves.
RolledBack(w) == RollBack(w) /\ aborts' \in {aborts, aborts + 1}

(* The three ways a unit of work is rolled back.                             *)
LEMMA RollBacks ==
  ASSUME NEW w, Abort(w) \/ UniqueViolation(w) \/ DeadlockVictim(w)
  PROVE  RolledBack(w)
BY DEF RolledBack, Abort, UniqueViolation, DeadlockVictim

(* A write of one row of the own transaction.                                *)
LEMMA WriteAt ==
  ASSUME TypeOK, NEW w \in Workers, NEW k \in Keys, NEW r, Write(w, k, r)
  PROVE  /\ \A v \in Workers \ {w} : own'[v] = own[v]
         /\ \A j \in Keys \ {k} : own'[w][j] = own[w][j]
         /\ own'[w][k] = r
BY DEF Write, TypeOK

(* Completing an effect writes its row, and with the answer its result.      *)
LEMMA SettleAt ==
  ASSUME TypeOK, NEW w \in Workers, Settle(w)
  PROVE  /\ UNCHANGED database
         /\ \A v \in Workers \ {w} : own'[v] = own[v] /\ ownStored'[v] = ownStored[v]
         /\ \A j \in Keys \ {Key(w)} : own'[w][j] = own[w][j]
         /\ own'[w][Key(w)].status = FinalStatus(local[w].outcome)
         /\ own'[w][Key(w)].cost =
              IF local[w].outcome = "ok" THEN Booked[Provider(w)] ELSE 0
         /\ ownStored[w] \subseteq ownStored'[w]
         /\ local[w].outcome = "ok" => local[w].request \in ownStored'[w]
<1>1. Key(w) \in Keys
  BY KeyType
<1> DEFINE r == [status |-> FinalStatus(local[w].outcome),
                 cost |-> IF local[w].outcome = "ok" THEN Booked[Provider(w)] ELSE 0]
<1>2. Write(w, Key(w), r)
  BY DEF Settle
<1>3. /\ \A v \in Workers \ {w} : own'[v] = own[v]
      /\ \A j \in Keys \ {Key(w)} : own'[w][j] = own[w][j]
      /\ own'[w][Key(w)] = r
  <2> HIDE DEF r
  <2> QED  BY <1>1, <1>2, WriteAt
<1>4. /\ \A v \in Workers \ {w} : ownStored'[v] = ownStored[v]
      /\ ownStored[w] \subseteq ownStored'[w]
      /\ local[w].outcome = "ok" => local[w].request \in ownStored'[w]
  BY DEF Settle, TypeOK
<1>5. QED
  BY <1>3, <1>4 DEF Settle

(* Taking an effect leaves it as it is or reserves it.                       *)
LEMMA ReserveAt ==
  ASSUME TypeOK, NEW w \in Workers, Reserve(w)
  PROVE  \/ UNCHANGED own
         \/ /\ \A v \in Workers \ {w} : own'[v] = own[v]
            /\ \A j \in Keys \ {Key(w)} : own'[w][j] = own[w][j]
            /\ own'[w][Key(w)].status = "reserved"
            /\ \/ local[w].seen = "none" /\ own'[w][Key(w)].cost = 0
               \/ local[w].seen = "failed" /\ own'[w][Key(w)].cost = View(w, Key(w)).cost
<1>1. Key(w) \in Keys /\ View(w, Key(w)) \in Rows
  BY KeyType, ViewType
<1>2. CASE Write(w, Key(w), [status |-> "reserved", cost |-> 0]) /\ local[w].seen = "none"
  BY <1>1, <1>2, WriteAt
<1>3. CASE /\ Write(w, Key(w), [View(w, Key(w)) EXCEPT !.status = "reserved"])
           /\ local[w].seen = "failed"
  <2>1. /\ \A v \in Workers \ {w} : own'[v] = own[v]
        /\ \A j \in Keys \ {Key(w)} : own'[w][j] = own[w][j]
        /\ own'[w][Key(w)] = [View(w, Key(w)) EXCEPT !.status = "reserved"]
    BY <1>1, <1>3, WriteAt
  <2>2. PICK r \in Rows : r = View(w, Key(w))
    BY <1>1
  <2>3. own'[w][Key(w)] = [r EXCEPT !.status = "reserved"]
    BY <2>1, <2>2
  <2>4. own'[w][Key(w)].status = "reserved" /\ own'[w][Key(w)].cost = r.cost
    BY <2>3 DEF Rows
  <2>5. QED  BY <1>3, <2>1, <2>2, <2>4
<1>4. QED
  BY <1>2, <1>3 DEF Reserve

(* Whoever crashed or raced, a row that says succeeded has its result.       *)
LEMMA AnswersStep ==
  ASSUME TypeOK, Answers, [Next]_vars
  PROVE  Answers'
<1>1. CASE UNCHANGED <<row, stored, transaction>>
  BY <1>1 DEF Answers, transaction
<1>2. ASSUME NEW w \in Workers, WorkerStep(w)
      PROVE  Answers'
  <2>1. Key(w) \in Keys /\ Key(w)[2] = local[w].request
    BY KeyType
  <2>2. CASE \/ \E r \in Requests : Execute(w, r)
             \/ Lookup(w) \/ CheckBudget(w) \/ Call(w)
             \/ ReconcileRead(w) \/ ReconcileWrite(w)
    BY <1>1, <2>2 DEF Execute, Lookup, CheckBudget, Call, ReconcileRead, ReconcileWrite,
                      database
  <2>3. CASE Reserve(w)
    <3>1. UNCHANGED <<row, stored, ownStored>>
      BY <2>3 DEF Reserve, database
    <3>2. ASSUME NEW v \in Workers, NEW k \in Keys, own'[v][k].status = "succeeded"
          PROVE  own[v][k].status = "succeeded"
      BY <2>3, <3>2, ReserveAt
    <3>3. QED  BY <3>1, <3>2 DEF Answers
  <2>4. CASE Settle(w)
    <3>1. UNCHANGED <<row, stored>>
      BY <2>4, SettleAt DEF database
    <3>2. \A v \in Workers : ownStored[v] \subseteq ownStored'[v]
      BY <2>4, SettleAt
    <3>3. FinalStatus(local[w].outcome) = "succeeded" => local[w].outcome = "ok"
      BY DEF FinalStatus
    <3>4. ASSUME NEW v \in Workers, NEW k \in Keys, own'[v][k].status = "succeeded"
          PROVE  own[v][k].status = "succeeded" \/ k[2] \in ownStored'[v]
      BY <2>1, <2>4, <3>3, <3>4, SettleAt
    <3>5. QED  BY <3>1, <3>2, <3>4 DEF Answers
  <2>5. CASE Commit(w)
    <3>1. /\ \A k \in Keys : row'[k] = own[w][k] \/ row'[k] = row[k]
          /\ stored' = stored \union ownStored[w]
      BY <2>5 DEF Commit, View
    <3>2. \A v \in Workers : \A k \in Keys :
            \/ own'[v][k] = NoRow
            \/ v # w /\ own'[v][k] = own[v][k] /\ ownStored'[v] = ownStored[v]
      BY <2>5 DEF Commit, TypeOK, NoRows
    <3>3. NoRow.status # "succeeded"
      BY DEF NoRow
    <3>4. QED  BY <3>1, <3>2, <3>3 DEF Answers
  <2>6. CASE RolledBack(w)
    <3>1. UNCHANGED <<row, stored>>
      BY <2>6 DEF RolledBack, RollBack, database
    <3>2. \A v \in Workers : \A k \in Keys :
            \/ own'[v][k] = NoRow
            \/ v # w /\ own'[v][k] = own[v][k] /\ ownStored'[v] = ownStored[v]
      BY <2>6 DEF RolledBack, RollBack, TypeOK, NoRows
    <3>3. NoRow.status # "succeeded"
      BY DEF NoRow
    <3>4. QED  BY <3>1, <3>2, <3>3 DEF Answers
  <2>7. QED
    BY <1>2, <2>2, <2>3, <2>4, <2>5, <2>6, RollBacks DEF WorkerStep
<1>3. QED
  BY <1>1, <1>2 DEF Next, vars, database

(* A step of a worker leaves the others where they are, and it keeps its     *)
(* effect until it is settled.                                               *)
LEMMA KeyKept ==
  ASSUME TypeOK, NEW w \in Workers, WorkerStep(w), NEW v \in Workers
  PROVE  \/ v # w /\ at'[v] = at[v] /\ local'[v] = local[v] /\ Key(v)' = Key(v)
         \/ v = w /\ (Reserve(w) \/ CheckBudget(w) \/ Call(w)) /\ Key(v)' = Key(v)
         \/ v = w /\ ~(Reserve(w) \/ CheckBudget(w) \/ Call(w))
<1>1. CASE v # w
  <2>1. (\E l : Goto(w, l)) \/ UNCHANGED at => at'[v] = at[v]
    BY <1>1 DEF Goto, TypeOK
  <2>2. (\E x : local' = [local EXCEPT ![w] = x]) \/ UNCHANGED local => local'[v] = local[v]
    BY <1>1 DEF TypeOK
  <2>3. Return(w) => at'[v] = at[v] /\ local'[v] = local[v]
    BY <2>1, <2>2 DEF Return
  <2>4. (\E r \in Requests : Execute(w, r)) \/ Lookup(w) \/ Reserve(w)
        => at'[v] = at[v] /\ local'[v] = local[v]
    BY <1>1, <2>1, <2>3 DEF Execute, Lookup, Seen, Reserve, TypeOK
  <2>5. CheckBudget(w) \/ Call(w) => at'[v] = at[v] /\ local'[v] = local[v]
    BY <1>1, <2>1 DEF CheckBudget, Call, TypeOK
  <2>6. Settle(w) => at'[v] = at[v] /\ local'[v] = local[v]
    BY <1>1, <2>1, <2>3 DEF Settle, TypeOK
  <2>7. Commit(w) \/ RolledBack(w) \/ ReconcileRead(w) \/ ReconcileWrite(w)
        => at'[v] = at[v] /\ local'[v] = local[v]
    BY <2>1, <2>2, <2>3 DEF Commit, RolledBack, RollBack, ReconcileRead, ReconcileWrite
  <2>8. at'[v] = at[v] /\ local'[v] = local[v]
    BY <2>4, <2>5, <2>6, <2>7, RollBacks DEF WorkerStep
  <2>9. QED  BY <1>1, <2>8 DEF Key, Provider
<1>2. CASE v = w /\ (Reserve(w) \/ CheckBudget(w) \/ Call(w))
  <2>1. local'[w].hop = local[w].hop /\ local'[w].request = local[w].request
    BY <1>2 DEF TypeOK, Reserve, CheckBudget, Call
  <2>2. QED  BY <1>2, <2>1 DEF Key, Provider
<1>3. QED
  BY <1>1, <1>2

(* Nobody leaves a row reserved behind.                                      *)
LEMMA ReservationsStep ==
  ASSUME TypeOK, Reservations, [Next]_vars
  PROVE  Reservations'
<1>1. CASE UNCHANGED vars
  BY <1>1 DEF Reservations, NothingLeftReserved, Key, Provider, vars, database, transaction
<1>2. ASSUME NEW w \in Workers, WorkerStep(w)
      PROVE  Reservations'
  <2>1. Key(w) \in Keys
    BY KeyType
  <2>2. SUFFICES /\ \A k \in Keys : row'[k].status # "reserved"
                 /\ \A v \in Workers : \A k \in Keys :
                      \/ own'[v][k].status # "reserved"
                      \/ at'[v] \in Under /\ k = Key(v)'
    BY DEF Reservations, NothingLeftReserved
  <2>3. ASSUME NEW v \in Workers, v # w
        PROVE  at'[v] = at[v] /\ Key(v)' = Key(v)
    BY <1>2, <2>3, KeyKept
  <2>4. Reserve(w) \/ CheckBudget(w) \/ Call(w) => at'[w] \in Under /\ Key(w)' = Key(w)
    <3>1. Reserve(w) \/ CheckBudget(w) \/ Call(w) => at'[w] \in Under
      BY DEF TypeOK, Reserve, CheckBudget, Call, Goto, Under
    <3>2. QED  BY <1>2, <3>1, KeyKept
  <2>5. CASE CheckBudget(w) \/ Call(w)
    <3>1. UNCHANGED <<row, own>>
      BY <2>5 DEF CheckBudget, Call, database, transaction
    <3>2. QED  BY <2>3, <2>4, <2>5, <3>1 DEF Reservations, NothingLeftReserved
  <2>6. CASE \/ \E r \in Requests : Execute(w, r)
             \/ Lookup(w) \/ ReconcileRead(w) \/ ReconcileWrite(w)
    <3>1. UNCHANGED <<row, own>> /\ at[w] \notin Under
      BY <2>6 DEF Execute, Lookup, ReconcileRead, ReconcileWrite, database, transaction, Under
    <3>2. QED  BY <2>3, <3>1 DEF Reservations, NothingLeftReserved
  <2>7. CASE Reserve(w)
    <3>1. UNCHANGED row /\ at[w] \notin Under
      BY <2>7 DEF Reserve, database, Under
    <3>2. \A v \in Workers : \A k \in Keys : own'[v][k] = own[v][k] \/ (v = w /\ k = Key(w))
      BY <2>1, <2>7, ReserveAt
    <3>3. QED  BY <2>3, <2>4, <2>7, <3>1, <3>2 DEF Reservations, NothingLeftReserved
  <2>8. CASE Settle(w)
    <3>1. UNCHANGED row
      BY <2>8, SettleAt DEF database
    <3>2. own'[w][Key(w)].status # "reserved"
      BY <2>8, SettleAt DEF FinalStatus
    <3>3. \A v \in Workers : \A k \in Keys : own'[v][k] = own[v][k] \/ (v = w /\ k = Key(w))
      BY <2>1, <2>8, SettleAt
    <3>4. QED  BY <2>3, <3>1, <3>2, <3>3 DEF Reservations, NothingLeftReserved
  <2>9. CASE Commit(w)
    <3>1. \A k \in Keys : row'[k] = own[w][k] \/ row'[k] = row[k]
      BY <2>9 DEF Commit, View
    <3>2. at[w] \notin Under /\ NoRow.status # "reserved"
      BY <2>9 DEF Commit, Under, NoRow
    <3>3. \A v \in Workers : \A k \in Keys :
            own'[v][k] = NoRow \/ (v # w /\ own'[v][k] = own[v][k])
      BY <2>9 DEF Commit, TypeOK, NoRows
    <3>4. QED  BY <2>3, <3>1, <3>2, <3>3 DEF Reservations, NothingLeftReserved
  <2>10. CASE RolledBack(w)
    <3>1. UNCHANGED row /\ NoRow.status # "reserved"
      BY <2>10 DEF RolledBack, RollBack, database, NoRow
    <3>2. \A v \in Workers : \A k \in Keys :
            own'[v][k] = NoRow \/ (v # w /\ own'[v][k] = own[v][k])
      BY <2>10 DEF RolledBack, RollBack, TypeOK, NoRows
    <3>3. QED  BY <2>3, <3>1, <3>2 DEF Reservations, NothingLeftReserved
  <2>11. QED
    BY <1>2, <2>5, <2>6, <2>7, <2>8, <2>9, <2>10, RollBacks DEF WorkerStep
<1>3. QED
  BY <1>1, <1>2 DEF Next

(* The workers about to review a row are some of the workers.                *)
LEMMA ReviewersBounded ==
  ASSUME NEW k
  PROVE  /\ IsFiniteSet(Reviewers(k)) /\ Cardinality(Reviewers(k)) \in Nat
         /\ Cardinality(Workers) \in Nat
         /\ Cardinality(Reviewers(k)) <= Cardinality(Workers)
<1>1. Reviewers(k) \in SUBSET Workers /\ IsFiniteSet(Workers)
  BY LedgerAssumption DEF Reviewers
<1>2. QED
  BY <1>1, FS_Subset, FS_CardinalityType

(* With picked[w] emptied, the reviewers of a row are one fewer or the same.  *)
LEMMA ReviewersLess ==
  ASSUME TypeOK, NEW w \in Workers, picked' = [picked EXCEPT ![w] = {}], NEW k \in Keys
  PROVE  /\ Cardinality(Reviewers(k)') <= Cardinality(Reviewers(k))
         /\ k \in picked[w] => Cardinality(Reviewers(k)') = Cardinality(Reviewers(k)) - 1
         /\ Cardinality(Reviewers(k)') \in Nat
<1>1. Reviewers(k)' = Reviewers(k) \ {w}
  BY DEF Reviewers, TypeOK
<1>2. IsFiniteSet(Reviewers(k)) /\ Cardinality(Reviewers(k)) \in Nat
  BY ReviewersBounded
<1>3. k \in picked[w] <=> w \in Reviewers(k)
  BY DEF Reviewers
<1>4. w \notin Reviewers(k) => Reviewers(k) \ {w} = Reviewers(k)
  OBVIOUS
<1>5. /\ Cardinality(Reviewers(k) \ {w}) <= Cardinality(Reviewers(k))
      /\ w \in Reviewers(k) => Cardinality(Reviewers(k) \ {w}) = Cardinality(Reviewers(k)) - 1
      /\ Cardinality(Reviewers(k) \ {w}) \in Nat
  <2>1. CASE w \in Reviewers(k)
    <3>1. /\ IsFiniteSet(Reviewers(k) \ {w})
          /\ Cardinality(Reviewers(k) \ {w}) = Cardinality(Reviewers(k)) - 1
      BY <1>2, <2>1, FS_RemoveElement
    <3>2. Cardinality(Reviewers(k) \ {w}) \in Nat
      BY <3>1, FS_CardinalityType
    <3>3. QED  BY <1>2, <3>1, <3>2
  <2>2. CASE w \notin Reviewers(k)
    BY <1>2, <1>4, <2>2
  <2>3. QED  BY <2>1, <2>2
<1>6. QED
  BY <1>1, <1>3, <1>5

(* Only ticks that overlap queue more than one review of an effect.          *)
LEMMA ReviewStep ==
  ASSUME TypeOK, ReviewTally, [Next]_vars
  PROVE  ReviewTally'
<1>1. CASE UNCHANGED vars
  BY <1>1 DEF ReviewTally, Reviewers, vars, database
<1>2. ASSUME NEW w \in Workers, WorkerStep(w)
      PROVE  ReviewTally'
  <2>1. \A v \in Workers : v # w => at'[v] = at[v]
    BY <1>2, KeyKept
  <2>2. \A k \in Keys : reviews[k] \in Nat /\ Cardinality(Workers) \in Nat
    BY ReviewersBounded DEF TypeOK
  <2>3. CASE UNCHANGED <<reviews, picked>> /\ at[w] # "review"
    <3>1. \A k : Reviewers(k)' = Reviewers(k)
      BY <2>3 DEF Reviewers
    <3>2. QED  BY <2>1, <2>3, <3>1 DEF ReviewTally
  <2>4. CASE picked' = [picked EXCEPT ![w] = {}] /\ UNCHANGED reviews
    <3>1. \A v \in Workers : picked'[v] # {} => v # w /\ picked'[v] = picked[v]
      BY <2>4 DEF TypeOK
    <3>2. \A k \in Keys : Cardinality(Reviewers(k)') <= Cardinality(Reviewers(k))
                          /\ Cardinality(Reviewers(k)') \in Nat
      BY <2>4, ReviewersLess
    <3>3. \A k \in Keys : Cardinality(Reviewers(k)) \in Nat
      BY ReviewersBounded
    <3>4. \A k \in Keys : reviews[k] + Cardinality(Reviewers(k)') <= Cardinality(Workers)
      BY <2>2, <3>2, <3>3 DEF ReviewTally
    <3>5. QED  BY <2>1, <2>4, <3>1, <3>4 DEF ReviewTally
  <2>5. CASE ReconcileWrite(w)
    <3>1. picked' = [picked EXCEPT ![w] = {}]
      BY <2>5 DEF ReconcileWrite
    <3>2. \A v \in Workers : picked'[v] # {} => v # w /\ picked'[v] = picked[v]
      BY <3>1 DEF TypeOK
    <3>3. \A k \in Keys : reviews'[k] = IF k \in picked[w] THEN reviews[k] + 1 ELSE reviews[k]
      BY <2>5 DEF ReconcileWrite
    <3>4. ASSUME NEW k \in Keys
          PROVE  reviews'[k] + Cardinality(Reviewers(k)') <= Cardinality(Workers)
      <4>1. /\ Cardinality(Reviewers(k)') <= Cardinality(Reviewers(k))
            /\ k \in picked[w] => Cardinality(Reviewers(k)') = Cardinality(Reviewers(k)) - 1
            /\ Cardinality(Reviewers(k)') \in Nat /\ Cardinality(Reviewers(k)) \in Nat
        BY <3>1, ReviewersLess, ReviewersBounded
      <4>2. reviews[k] + Cardinality(Reviewers(k)) <= Cardinality(Workers)
        BY DEF ReviewTally
      <4>3. QED  BY <2>2, <3>3, <4>1, <4>2
    <3>5. QED  BY <2>1, <3>2, <3>4 DEF ReviewTally
  <2>6. CASE ReconcileRead(w)
    <3>1. picked[w] = {}
      BY <2>6 DEF ReconcileRead, ReviewTally
    <3>2. PICK S \in SUBSET Keys : /\ picked' = [picked EXCEPT ![w] = S]
                                   /\ \A k \in S : reviews[k] = 0
      BY <2>6 DEF ReconcileRead
    <3>3. at'[w] = "review" /\ UNCHANGED reviews
      BY <2>6 DEF ReconcileRead, Goto, TypeOK, database
    <3>4. \A v \in Workers : picked'[v] # {} => at'[v] = "review"
      BY <2>1, <3>2, <3>3 DEF TypeOK, ReviewTally
    <3>5. ASSUME NEW k \in Keys
          PROVE  reviews'[k] + Cardinality(Reviewers(k)') <= Cardinality(Workers)
      <4>1. CASE k \in S
        <5>1. Reviewers(k)' \in SUBSET Workers /\ IsFiniteSet(Workers)
          BY LedgerAssumption DEF Reviewers
        <5>2. Cardinality(Reviewers(k)') <= Cardinality(Workers)
              /\ Cardinality(Reviewers(k)') \in Nat
          BY <5>1, FS_Subset, FS_CardinalityType
        <5>3. QED  BY <2>2, <3>2, <3>3, <4>1, <5>2
      <4>2. CASE k \notin S
        <5>1. Reviewers(k)' = Reviewers(k)
          BY <3>1, <3>2, <4>2 DEF Reviewers, TypeOK
        <5>2. QED  BY <3>3, <5>1 DEF ReviewTally
      <4>3. QED  BY <4>1, <4>2
    <3>6. QED  BY <3>4, <3>5 DEF ReviewTally
  <2>7. \/ UNCHANGED <<reviews, picked>> /\ at[w] # "review"
        \/ picked' = [picked EXCEPT ![w] = {}] /\ UNCHANGED reviews
        \/ ReconcileRead(w) \/ ReconcileWrite(w)
    <3>1. RolledBack(w) => picked' = [picked EXCEPT ![w] = {}] /\ UNCHANGED reviews
      BY DEF RolledBack, RollBack, database
    <3>2. (\E r \in Requests : Execute(w, r)) \/ Lookup(w) \/ Reserve(w) \/ CheckBudget(w)
          \/ Call(w) => UNCHANGED <<reviews, picked>> /\ at[w] # "review"
      BY DEF Execute, Lookup, Reserve, CheckBudget, Call, database
    <3>3. Settle(w) \/ Commit(w) => UNCHANGED <<reviews, picked>> /\ at[w] # "review"
      BY DEF Settle, Commit, database
    <3>4. QED  BY <1>2, <3>1, <3>2, <3>3, RollBacks DEF WorkerStep
  <2>8. QED
    BY <2>3, <2>4, <2>5, <2>6, <2>7
<1>3. QED
  BY <1>1, <1>2 DEF Next

(* The ledger is empty at first.                                             *)
LEMMA LedgerInit == Init => LedgerInv
<1> SUFFICES ASSUME Init PROVE LedgerInv
  OBVIOUS
<1>1. TypeOK
  BY TypeInit
<1>2. NoRow.status # "succeeded" /\ NoRow.status # "reserved"
  BY DEF NoRow
<1>3. \A k \in Keys : row[k] = NoRow /\ \A w \in Workers : own[w][k] = NoRow
  BY DEF Init, NoRows
<1>4. Answers /\ Reservations
  BY <1>2, <1>3 DEF Answers, Reservations, NothingLeftReserved
<1>5. \A k \in Keys : Reviewers(k) = {} /\ reviews[k] = 0
  BY DEF Init, Reviewers
<1>6. ReviewTally
  <2>1. Cardinality({}) = 0
    BY FS_EmptySet
  <2>2. \A k \in Keys : Cardinality(Workers) \in Nat
    BY ReviewersBounded
  <2>3. \A k \in Keys : reviews[k] + Cardinality(Reviewers(k)) <= Cardinality(Workers)
    BY <1>5, <2>1, <2>2
  <2>4. QED  BY <2>3 DEF ReviewTally, Init
<1>7. QED
  BY <1>1, <1>4, <1>6 DEF LedgerInv

(* LedgerInv holds throughout, for every number of workers.                 *)
THEOREM LedgerInvariant == Spec => []LedgerInv
<1>1. ASSUME LedgerInv, [Next]_vars
      PROVE  LedgerInv'
  BY <1>1, TypeStep, AnswersStep, ReservationsStep, ReviewStep DEF LedgerInv
<1>2. QED
  BY <1>1, LedgerInit, PTL DEF Spec

(* However many workers believe they own the job, and wherever they crash    *)
(* or race: no row is left reserved by a dead call, a cached answer stands    *)
(* for data that is stored, and an effect has at most as many reviews as      *)
(* there are workers whose ticks can overlap (gateway.py, runtime.py).       *)
THEOREM EveryEffectIsSound == Spec => []EffectsAreSound
<1>1. ASSUME LedgerInv
      PROVE  EffectsAreSound
  <2>1. ReplayHasData
    BY <1>1, ViewType DEF LedgerInv, Answers, ReplayHasData
  <2>2. ReviewsBounded
    <3>1. ASSUME NEW k \in Keys
          PROVE  reviews[k] <= Cardinality(Workers)
      <4>1. /\ reviews[k] \in Nat /\ Cardinality(Reviewers(k)) \in Nat
            /\ Cardinality(Workers) \in Nat
        BY <1>1, ReviewersBounded DEF LedgerInv, TypeOK
      <4>2. QED  BY <1>1, <4>1 DEF LedgerInv, ReviewTally
    <3>2. QED  BY <3>1 DEF ReviewsBounded
  <2>3. QED  BY <1>1, <2>1, <2>2 DEF LedgerInv, Reservations, EffectsAreSound
<1>2. QED
  BY <1>1, LedgerInvariant, PTL

-----------------------------------------------------------------------------
(* One worker.                                                               *)

Quiet(w) ==
  \/ \E r \in Requests : Execute(w, r)
  \/ Lookup(w) \/ CheckBudget(w) \/ Call(w) \/ ReconcileRead(w) \/ ReconcileWrite(w)

SumsAgree ==
  /\ RowCents = Total([k \in Keys |-> row[k].cost], Keys)
  /\ \A w \in Workers : SpentCents(w) = Total([k \in Keys |-> View(w, k).cost], Keys)

(* Every statement's SUM is the total of the rows it sees.                   *)
LEMMA LedgerSums == TypeOK => SumsAgree
<1> SUFFICES ASSUME TypeOK PROVE SumsAgree
  OBVIOUS
<1>1. \A k \in Keys : row[k].cost \in Nat
  BY ViewType DEF TypeOK, Rows
<1>2. \A w \in Workers : \A k \in Keys : View(w, k).cost \in Nat
  BY ViewType
<1>3. QED
  BY <1>1, <1>2, RowCentsIsTotal, SpentIsTotal DEF SumsAgree

(* While no cost changes, nor does their sum.                                *)
LEMMA SpentSame ==
  ASSUME TypeOK, TypeOK', NEW w \in Workers,
         \A k \in Keys : View(w, k)'.cost = View(w, k).cost
  PROVE  SpentCents(w)' = SpentCents(w)
<1>1. SumsAgree /\ SumsAgree'
  BY LedgerSums, PTL
<1>2. [k \in Keys |-> View(w, k)'.cost] = [k \in Keys |-> View(w, k).cost]
  OBVIOUS
<1>3. SpentCents(w)' = Total([k \in Keys |-> View(w, k)'.cost], Keys)
  BY <1>1 DEF SumsAgree
<1>4. SpentCents(w) = Total([k \in Keys |-> View(w, k).cost], Keys)
  BY <1>1 DEF SumsAgree
<1>5. QED
  BY <1>2, <1>3, <1>4

(* A row that cost nothing adds its new cost to the sum.                     *)
LEMMA SpentGrows ==
  ASSUME TypeOK, TypeOK', NEW w \in Workers, NEW k \in Keys, View(w, k).cost = 0,
         \A j \in Keys \ {k} : View(w, j)' = View(w, j)
  PROVE  SpentCents(w)' = SpentCents(w) + View(w, k)'.cost
<1>1. SumsAgree /\ SumsAgree'
  BY LedgerSums, PTL
<1> DEFINE f == [j \in Keys |-> View(w, j).cost]
           g == [j \in Keys |-> View(w, j)'.cost]
<1>2. \A j \in Keys : f[j] \in Nat
  BY ViewType
<1>3. \A j \in Keys : row'[j].cost \in Nat /\ own'[w][j].cost \in Nat
  BY DEF TypeOK, Rows
<1>4. \A j \in Keys : g[j] \in Nat
  BY <1>3 DEF View
<1>5. f[k] = 0 /\ \A j \in Keys \ {k} : g[j] = f[j]
  OBVIOUS
<1>6. SpentCents(w) = Total(f, Keys)
  BY <1>1 DEF SumsAgree
<1>7. SpentCents(w)' = Total(g, Keys)
  BY <1>1 DEF SumsAgree
<1>8. g[k] = View(w, k)'.cost
  OBVIOUS
<1> HIDE DEF f, g
<1>9. Total(g, Keys) = Total(f, Keys) + g[k]
  BY <1>2, <1>4, <1>5, KeysFinite, TotalUpdate
<1>10. QED
  BY <1>6, <1>7, <1>8, <1>9

(* What a step does to the rows its worker sees.                             *)
LEMMA QuietView ==
  ASSUME TypeOK, NEW w \in Workers, Quiet(w) \/ Commit(w)
  PROVE  /\ \A k \in Keys : View(w, k)' = View(w, k)
         /\ Quiet(w) => UNCHANGED <<row, own>>
<1>1. Quiet(w) => UNCHANGED <<row, own>>
  BY DEF Quiet, Execute, Lookup, CheckBudget, Call, ReconcileRead, ReconcileWrite,
         database, transaction
<1>2. UNCHANGED <<row, own>> => \A k \in Keys : View(w, k)' = View(w, k)
  BY DEF View, Wrote
<1>3. Commit(w) => \A k \in Keys : View(w, k)' = View(w, k)
  <2>1. Commit(w) => \A k \in Keys : row'[k] = View(w, k) /\ own'[w][k] = NoRow
    BY DEF Commit, TypeOK, NoRows
  <2>2. QED  BY <2>1 DEF View, Wrote
<1>4. QED
  BY <1>1, <1>2, <1>3

(* A write shows in the rows its worker sees at that key only.              *)
LEMMA WriteView ==
  ASSUME TypeOK, NEW w \in Workers, UNCHANGED row, NEW k \in Keys,
         \A j \in Keys \ {k} : own'[w][j] = own[w][j], own'[w][k].status # "none"
  PROVE  /\ \A j \in Keys \ {k} : View(w, j)' = View(w, j)
         /\ View(w, k)' = own'[w][k]
<1>1. own'[w][k] # NoRow
  BY DEF NoRow
<1>2. QED
  BY <1>1 DEF View, Wrote

(* After a rollback a worker sees the committed rows again.                 *)
LEMMA RollBackView ==
  ASSUME TypeOK, NEW w \in Workers, RollBack(w)
  PROVE  /\ UNCHANGED row
         /\ \A k \in Keys : View(w, k)' = row[k] /\ own'[w][k] = NoRow
<1>1. UNCHANGED row /\ \A k \in Keys : own'[w][k] = NoRow
  BY DEF RollBack, database, TypeOK, NoRows
<1>2. QED
  BY <1>1 DEF View, Wrote

(* Taking an effect changes what its worker sees at that effect only.       *)
LEMMA ReserveView ==
  ASSUME TypeOK, NEW w \in Workers, Reserve(w)
  PROVE  /\ UNCHANGED row
         /\ \A k \in Keys \ {Key(w)} : View(w, k)' = View(w, k) /\ own'[w][k] = own[w][k]
         /\ \E k \in Keys :
              /\ k = Key(w)
              /\ \/ UNCHANGED own /\ View(w, k)' = View(w, k)
                 \/ /\ View(w, k)' = own'[w][k]
                    /\ own'[w][k].status = "reserved"
                    /\ \/ own'[w][k].cost = 0
                       \/ local[w].seen = "failed" /\ own'[w][k].cost = View(w, k).cost
<1>1. Key(w) \in Keys /\ UNCHANGED row
  BY KeyType DEF Reserve, database
<1>2. PICK k \in Keys : k = Key(w)
  BY <1>1
<1>3. CASE UNCHANGED own
  <2>1. \A j \in Keys : View(w, j)' = View(w, j)
    BY <1>1, <1>3 DEF View, Wrote
  <2>2. View(w, k)' = View(w, k)
    BY <2>1
  <2>3. QED  BY <1>1, <1>2, <1>3, <2>1, <2>2
<1>4. CASE /\ \A j \in Keys \ {k} : own'[w][j] = own[w][j]
           /\ own'[w][k].status = "reserved"
           /\ \/ local[w].seen = "none" /\ own'[w][k].cost = 0
              \/ local[w].seen = "failed" /\ own'[w][k].cost = View(w, k).cost
  <2>1. /\ \A j \in Keys \ {k} : View(w, j)' = View(w, j)
        /\ View(w, k)' = own'[w][k]
    BY <1>1, <1>4, WriteView
  <2>2. QED  BY <1>1, <1>2, <1>4, <2>1
<1>5. QED
  BY <1>2, <1>3, <1>4, ReserveAt

(* Completing an effect changes what its worker sees at that effect only.   *)
LEMMA SettleView ==
  ASSUME TypeOK, NEW w \in Workers, Settle(w)
  PROVE  /\ UNCHANGED row
         /\ \A k \in Keys \ {Key(w)} : View(w, k)' = View(w, k) /\ own'[w][k] = own[w][k]
         /\ \E k \in Keys : /\ k = Key(w) /\ View(w, k)' = own'[w][k]
                            /\ own'[w][k].status = FinalStatus(local[w].outcome)
                            /\ own'[w][k].cost = IF local[w].outcome = "ok"
                                                   THEN Booked[Provider(w)] ELSE 0
<1>1. PICK k \in Keys : k = Key(w)
  BY KeyType
<1>2. UNCHANGED row /\ own'[w][k].status = FinalStatus(local[w].outcome)
  BY <1>1, SettleAt DEF database
<1>3. own'[w][k].status # "none"
  BY <1>2 DEF FinalStatus
<1>4. /\ \A j \in Keys \ {k} : View(w, j)' = View(w, j)
      /\ View(w, k)' = own'[w][k]
  <2>1. \A j \in Keys \ {k} : own'[w][j] = own[w][j]
    BY <1>1, SettleAt
  <2>2. QED  BY <1>2, <1>3, <2>1, WriteView
<1>5. QED
  BY <1>1, <1>2, <1>4, SettleAt

\* No two workers believe they own the job.
Alone == \A u, v \in Workers : u = v

(* A step that is not a call's keeps its worker away from a call.            *)
LEMMA PlaceAfter ==
  ASSUME TypeOK, NEW w \in Workers, WorkerStep(w)
  PROVE  /\ at'[w] = "reserve" => Lookup(w)
         /\ at'[w] = "budget" => Reserve(w)
         /\ at'[w] = "call" => CheckBudget(w)
         /\ at'[w] = "settle" => CheckBudget(w) \/ Call(w)
<1>1. \A l : Goto(w, l) => at'[w] = l
  BY DEF Goto, TypeOK
<1>2. Return(w) => at'[w] = "open"
  BY <1>1 DEF Return
<1>3. (\E r \in Requests : Execute(w, r)) => at'[w] = "lookup"
  BY <1>1 DEF Execute
<1>4. Lookup(w) => at'[w] \in {"open", "reserve"}
  BY <1>1, <1>2 DEF Lookup, Seen
<1>5. Reserve(w) => at'[w] = "budget"
  BY <1>1 DEF Reserve
<1>6. CheckBudget(w) => at'[w] \in {"call", "settle"}
  BY <1>1 DEF CheckBudget
<1>7. Call(w) => at'[w] = "settle"
  BY <1>1 DEF Call
<1>8. Settle(w) => at'[w] \in {"lookup", "open"}
  BY <1>1, <1>2 DEF Settle
<1>9. Commit(w) => at'[w] = "open"
  BY DEF Commit
<1>10. RolledBack(w) => at'[w] = "open"
  BY <1>2 DEF RolledBack, RollBack
<1>11. ReconcileRead(w) => at'[w] = "review"
  BY <1>1 DEF ReconcileRead
<1>12. ReconcileWrite(w) => at'[w] = "open"
  BY <1>1 DEF ReconcileWrite
<1>13. QED
  BY <1>3, <1>4, <1>5, <1>6, <1>7, <1>8, <1>9, <1>10, <1>11, <1>12, RollBacks DEF WorkerStep

(* A worker alone is not rolled back by a rival.                             *)
LEMMA OnlyAborts ==
  ASSUME TypeOK, Alone, NEW w \in Workers, Pending(w)
  PROVE  ~UniqueViolation(w) /\ ~DeadlockVictim(w)
<1>1. ~UniqueViolation(w)
  BY DEF UniqueViolation, Pending
<1>2. ~DeadlockVictim(w)
  BY DEF DeadlockVictim, Blocks, Alone
<1>3. QED
  BY <1>1, <1>2

(* What a lookup saw is still so when the effect is completed.               *)
LEMMA PendingStep ==
  ASSUME TypeOK, NEW w \in Workers, Pending(w), WorkerStep(w)
  PROVE  Pending(w)'
<1>1. SUFFICES ASSUME at'[w] \in {"reserve"} \union Under
               PROVE  /\ at'[w] = "reserve" => local'[w].seen = View(w, Key(w))'.status
                      /\ View(w, Key(w))'.status # "succeeded"
  BY DEF Pending
<1>2. CASE Lookup(w)
  <2>1. PICK k \in Keys : k = Key(w)
    BY KeyType
  <2>2. at'[w] # "open"
    BY <1>1 DEF Under
  <2>3. ~Return(w)
    BY <2>2 DEF Return, Goto, TypeOK
  <2>4. View(w, k).status # "succeeded" /\ Seen(w, View(w, k).status)
    BY <1>2, <2>1, <2>3 DEF Lookup
  <2>5. local'[w].seen = View(w, k).status /\ Key(w)' = k
    BY <2>1, <2>4 DEF Seen, TypeOK, Key, Provider
  <2>6. View(w, k)' = View(w, k)
    BY <1>2, QuietView DEF Quiet
  <2>7. QED  BY <2>4, <2>5, <2>6
<1>3. CASE Reserve(w)
  <2>1. PICK k \in Keys :
          /\ k = Key(w)
          /\ \/ View(w, k)' = View(w, k)
             \/ View(w, k)' = own'[w][k] /\ own'[w][k].status = "reserved"
    BY <1>3, ReserveView
  <2>2. Key(w)' = k /\ at[w] = "reserve" /\ at'[w] # "reserve"
    <3>1. at'[w] # "reserve"
      BY <1>3 DEF Reserve, Goto, TypeOK
    <3>2. QED  BY <1>3, <2>1, <3>1, KeyKept DEF Reserve
  <2>3. QED  BY <2>1, <2>2 DEF Pending
<1>4. CASE CheckBudget(w) \/ Call(w)
  <2>1. PICK k \in Keys : k = Key(w)
    BY KeyType
  <2>2. Key(w)' = k /\ View(w, k)' = View(w, k)
    BY <1>4, <2>1, KeyKept, QuietView DEF Quiet
  <2>3. at[w] \in Under /\ at'[w] # "reserve"
    BY <1>4 DEF CheckBudget, Call, Goto, TypeOK, Under
  <2>4. QED  BY <2>1, <2>2, <2>3 DEF Pending
<1>5. QED
  BY <1>1, <1>2, <1>3, <1>4, PlaceAfter DEF Under

(* A row that says succeeded is not written again.                           *)
LEMMA SettledStep ==
  ASSUME TypeOK, NEW w \in Workers, Pending(w), Settled(w), WorkerStep(w)
  PROVE  Settled(w)'
<1>1. CASE Quiet(w)
  BY <1>1, QuietView DEF Settled
<1>2. CASE Reserve(w) \/ Settle(w)
  <2>1. View(w, Key(w)).status # "succeeded"
    BY <1>2 DEF Pending, Reserve, Settle, Under
  <2>2. row[Key(w)].status # "succeeded"
    <3>1. Key(w) \in Keys
      BY KeyType
    <3>2. QED  BY <2>1, <3>1, ViewType DEF Settled
  <2>3. UNCHANGED row /\ \A k \in Keys \ {Key(w)} : own'[w][k] = own[w][k]
    BY <1>2, ReserveView, SettleView
  <2>4. QED  BY <2>2, <2>3 DEF Settled
<1>3. CASE Commit(w)
  BY <1>3 DEF Settled, Commit, TypeOK, NoRows
<1>4. CASE RolledBack(w)
  BY <1>4, RollBackView DEF Settled, RolledBack
<1>5. QED
  BY <1>1, <1>2, <1>3, <1>4, RollBacks DEF WorkerStep, Quiet

(* An answer the provider gave is forgotten only by a rollback.              *)
LEMMA RememberedStep ==
  ASSUME TypeOK, TypeOK', Alone, NEW w \in Workers, Pending(w), Remembered(w), WorkerStep(w)
  PROVE  Remembered(w)'
<1>1. SUFFICES ASSUME NEW k \in Keys
               PROVE  \/ answered'[k] <= aborts'
                      \/ /\ answered'[k] <= aborts' + 1
                         /\ View(w, k)'.status = "succeeded" \/ Undelivered(w, k)'
  BY DEF Remembered
<1>2. /\ answered[k] \in Nat /\ aborts \in Nat
      /\ \/ answered[k] <= aborts
         \/ /\ answered[k] <= aborts + 1
            /\ View(w, k).status = "succeeded" \/ Undelivered(w, k)
  BY LedgerAssumption DEF Remembered, TypeOK
<1>3. CASE UNCHANGED <<answered, aborts>> /\ at[w] # "settle"
           /\ (View(w, k)' = View(w, k) \/ View(w, k).status # "succeeded")
  BY <1>2, <1>3 DEF Undelivered
<1>4. CASE Quiet(w) /\ ~Call(w)
  <2>1. UNCHANGED <<answered, aborts>> /\ at[w] # "settle"
    BY <1>4 DEF Quiet, Execute, Lookup, CheckBudget, ReconcileRead, ReconcileWrite, outside
  <2>2. QED  BY <1>3, <1>4, <2>1, QuietView
<1>5. CASE Commit(w)
  <2>1. UNCHANGED <<answered, aborts>> /\ at[w] # "settle"
    BY <1>5 DEF Commit, outside
  <2>2. QED  BY <1>3, <1>5, <2>1, QuietView
<1>6. CASE Reserve(w)
  <2>1. UNCHANGED <<answered, aborts>> /\ at[w] = "reserve"
    BY <1>6 DEF Reserve, outside
  <2>2. k = Key(w) => View(w, k).status # "succeeded"
    BY <2>1 DEF Pending
  <2>3. k # Key(w) => View(w, k)' = View(w, k)
    BY <1>6, ReserveView
  <2>4. QED  BY <1>3, <2>1, <2>2, <2>3
<1>7. CASE Call(w)
  <2>1. at[w] = "call" /\ UNCHANGED aborts /\ at'[w] = "settle"
    BY <1>7 DEF Call, Goto, TypeOK
  <2>2. CASE UNCHANGED answered
    BY <1>2, <1>7, <2>1, <2>2, QuietView DEF Undelivered, Quiet
  <2>3. CASE answered' = [answered EXCEPT ![Key(w)] = @ + 1] /\ local'[w].outcome = "ok"
    <3>1. CASE k # Key(w)
      <4>1. answered'[k] = answered[k]
        BY <2>3, <3>1 DEF TypeOK
      <4>2. QED  BY <1>2, <1>7, <2>1, <4>1, QuietView DEF Undelivered, Quiet
    <3>2. CASE k = Key(w)
      <4>1. View(w, k).status # "succeeded" /\ ~Undelivered(w, k)
        BY <2>1, <3>2 DEF Pending, Under, Undelivered
      <4>2. answered'[k] = answered[k] + 1
        BY <2>3, <3>2 DEF TypeOK
      <4>3. Undelivered(w, k)'
        BY <1>7, <2>1, <2>3, <3>2, KeyKept DEF Undelivered
      <4>4. QED  BY <1>2, <2>1, <4>1, <4>2, <4>3
    <3>3. QED  BY <3>1, <3>2
  <2>4. QED
    BY <1>7, <2>2, <2>3 DEF Call, TypeOK
<1>8. CASE Settle(w)
  <2>1. UNCHANGED <<answered, aborts>> /\ at[w] = "settle"
    BY <1>8 DEF Settle, outside
  <2>2. CASE k # Key(w)
    <3>1. View(w, k)' = View(w, k)
      BY <1>8, <2>2, SettleView
    <3>2. QED  BY <1>2, <2>1, <2>2, <3>1 DEF Undelivered
  <2>3. CASE k = Key(w)
    <3>1. View(w, k).status # "succeeded"
      BY <2>1, <2>3 DEF Pending, Under
    <3>2. View(w, k)'.status = FinalStatus(local[w].outcome)
      BY <1>8, <2>3, SettleView
    <3>3. local[w].outcome = "ok" => View(w, k)'.status = "succeeded"
      BY <3>2 DEF FinalStatus
    <3>4. QED  BY <1>2, <2>1, <3>1, <3>3 DEF Undelivered
  <2>4. QED  BY <2>2, <2>3
<1>9. CASE Abort(w)
  <2>1. answered' = answered /\ aborts' = aborts + 1
    BY <1>9 DEF Abort, RollBack, outside
  <2>2. QED  BY <1>2, <2>1
<1>10. QED
  BY <1>4, <1>5, <1>6, <1>7, <1>8, <1>9, OnlyAborts DEF WorkerStep, Quiet

(* A row that is not succeeded costs nothing.                                *)
LEMMA PricedStep ==
  ASSUME TypeOK, NEW w \in Workers, Pending(w), Priced(w), WorkerStep(w)
  PROVE  Priced(w)'
<1>1. \A k \in Keys : View(w, k).status # "succeeded" => View(w, k).cost = 0
  BY ViewType DEF Priced
<1>2. NoRow.cost = 0
  BY DEF NoRow
<1>3. CASE Quiet(w)
  BY <1>3, QuietView DEF Priced
<1>4. CASE Reserve(w)
  <2>1. /\ UNCHANGED row
        /\ \A k \in Keys \ {Key(w)} : own'[w][k] = own[w][k]
        /\ own'[w][Key(w)] = own[w][Key(w)] \/ own'[w][Key(w)].cost = 0
           \/ own'[w][Key(w)].cost = View(w, Key(w)).cost
    BY <1>4, ReserveView
  <2>2. View(w, Key(w)).cost = 0
    BY <1>1, <1>4, KeyType DEF Pending, Reserve
  <2>3. QED  BY <2>1, <2>2 DEF Priced
<1>5. CASE Settle(w)
  <2>1. /\ UNCHANGED row
        /\ \A k \in Keys \ {Key(w)} : own'[w][k] = own[w][k]
        /\ own'[w][Key(w)].status = FinalStatus(local[w].outcome)
        /\ own'[w][Key(w)].cost = IF local[w].outcome = "ok" THEN Booked[Provider(w)] ELSE 0
    BY <1>5, SettleView
  <2>2. local[w].outcome = "ok" => FinalStatus(local[w].outcome) = "succeeded"
    BY DEF FinalStatus
  <2>3. QED  BY <2>1, <2>2 DEF Priced
<1>6. CASE Commit(w)
  <2>1. \A k \in Keys : row'[k] = View(w, k) /\ own'[w][k] = NoRow
    BY <1>6 DEF Commit, TypeOK, NoRows
  <2>2. QED  BY <1>1, <1>2, <2>1 DEF Priced
<1>7. CASE RolledBack(w)
  BY <1>2, <1>7, RollBackView DEF Priced, RolledBack
<1>8. QED
  BY <1>3, <1>4, <1>5, <1>6, <1>7, RollBacks DEF WorkerStep, Quiet

\* What the sum of a worker does in a step, and its provider.
SumAfter(w) ==
  \/ SpentCents(w)' = SpentCents(w)
  \/ /\ Settle(w) /\ local[w].outcome = "ok"
     /\ SpentCents(w)' = SpentCents(w) + Booked[Provider(w)]
  \/ RollBack(w) /\ SpentCents(w)' = RowCents

(* Only a completed answer adds to the sum a worker sees.                    *)
LEMMA SumStep ==
  ASSUME TypeOK, TypeOK', NEW w \in Workers, Pending(w), Priced(w), WorkerStep(w)
  PROVE  SumAfter(w)
<1>1. \A k \in Keys : View(w, k).status # "succeeded" => View(w, k).cost = 0
  BY ViewType DEF Priced
<1>2. CASE Quiet(w) \/ Commit(w)
  BY <1>2, QuietView, SpentSame DEF SumAfter
<1>3. CASE Reserve(w)
  <2>1. PICK k \in Keys :
          /\ k = Key(w)
          /\ \/ View(w, k)' = View(w, k)
             \/ /\ View(w, k)' = own'[w][k]
                /\ own'[w][k].cost = 0 \/ own'[w][k].cost = View(w, k).cost
    BY <1>3, ReserveView
  <2>2. View(w, k).cost = 0
    BY <1>1, <1>3, <2>1 DEF Pending, Reserve
  <2>3. \A j \in Keys \ {k} : View(w, j)' = View(w, j)
    BY <1>3, <2>1, ReserveView
  <2>4. \A j \in Keys : View(w, j)'.cost = View(w, j).cost
    BY <2>1, <2>2, <2>3
  <2>5. QED  BY <2>4, SpentSame DEF SumAfter
<1>4. CASE Settle(w)
  <2>1. PICK k \in Keys :
          /\ k = Key(w) /\ View(w, k)' = own'[w][k]
          /\ own'[w][k].cost = IF local[w].outcome = "ok" THEN Booked[Provider(w)] ELSE 0
    BY <1>4, SettleView
  <2>2. View(w, k).cost = 0
    BY <1>1, <1>4, <2>1 DEF Pending, Settle, Under
  <2>3. \A j \in Keys \ {k} : View(w, j)' = View(w, j)
    BY <1>4, <2>1, SettleView
  <2>4. CASE local[w].outcome = "ok"
    <3>1. SpentCents(w)' = SpentCents(w) + View(w, k)'.cost
      BY <2>2, <2>3, SpentGrows
    <3>2. QED  BY <1>4, <2>1, <2>4, <3>1 DEF SumAfter
  <2>5. CASE local[w].outcome # "ok"
    <3>1. \A j \in Keys : View(w, j)'.cost = View(w, j).cost
      BY <2>1, <2>2, <2>3, <2>5
    <3>2. QED  BY <3>1, SpentSame DEF SumAfter
  <2>6. QED  BY <2>4, <2>5
<1>5. CASE RolledBack(w)
  <2>1. SumsAgree /\ SumsAgree'
    BY LedgerSums, PTL
  <2>2. \A k \in Keys : View(w, k)' = row[k]
    BY <1>5, RollBackView DEF RolledBack
  <2>3. [k \in Keys |-> View(w, k)'.cost] = [k \in Keys |-> row[k].cost]
    BY <2>2
  <2>4. SpentCents(w)' = Total([k \in Keys |-> View(w, k)'.cost], Keys)
    BY <2>1 DEF SumsAgree
  <2>5. RowCents = Total([k \in Keys |-> row[k].cost], Keys)
    BY <2>1 DEF SumsAgree
  <2>6. QED  BY <1>5, <2>3, <2>4, <2>5 DEF SumAfter, RolledBack
<1>6. QED
  BY <1>2, <1>3, <1>4, <1>5, RollBacks DEF WorkerStep, Quiet

(* A commit makes the worker's sum the sum of the rows; nothing else changes *)
(* that sum.                                                                 *)
LEMMA RowCentsStep ==
  ASSUME TypeOK, TypeOK', NEW w \in Workers, WorkerStep(w)
  PROVE  RowCents' = RowCents \/ RowCents' = SpentCents(w)
<1>1. SumsAgree /\ SumsAgree'
  BY LedgerSums, PTL
<1>2. CASE UNCHANGED row
  <2>1. [k \in Keys |-> row'[k].cost] = [k \in Keys |-> row[k].cost]
    BY <1>2
  <2>2. QED  BY <1>1, <2>1 DEF SumsAgree
<1>3. CASE Commit(w)
  <2>1. [k \in Keys |-> row'[k].cost] = [k \in Keys |-> View(w, k).cost]
    BY <1>3 DEF Commit
  <2>2. QED  BY <1>1, <2>1 DEF SumsAgree
<1>4. Quiet(w) \/ Reserve(w) \/ Settle(w) \/ RolledBack(w) => UNCHANGED row
  BY QuietView, ReserveView, SettleView, RollBackView DEF RolledBack
<1>5. QED
  BY <1>2, <1>3, <1>4, RollBacks DEF WorkerStep, Quiet

(* What its locals say the job has spent is what the ledger says.            *)
LEMMA SpentStep ==
  ASSUME TypeOK, NEW w \in Workers, WorkerStep(w), SumAfter(w),
         local[w].spent # -1 => local[w].spent = SpentCents(w)
  PROVE  local'[w].spent # -1 => local'[w].spent = SpentCents(w)'
<1>1. Return(w) => local'[w].spent = -1
  BY DEF Return, TypeOK, NoLocals
<1>2. RollBack(w) => Return(w)
  BY DEF RollBack
<1>3. Settle(w) /\ local[w].outcome = "ok" => Return(w)
  BY DEF Settle
<1>4. CASE RollBack(w) \/ (Settle(w) /\ local[w].outcome = "ok")
  BY <1>1, <1>2, <1>3, <1>4
<1>5. CASE SpentCents(w)' = SpentCents(w)
  <2>1. CASE CheckBudget(w)
    <3>1. local'[w].spent = Spent(w)
      BY <2>1 DEF CheckBudget, TypeOK
    <3>2. QED  BY <1>5, <3>1 DEF Spent
  <2>2. CASE ~CheckBudget(w)
    <3>1. local'[w].spent = local[w].spent \/ Return(w)
      <4>1. Lookup(w) => local'[w].spent = local[w].spent \/ Return(w)
        BY DEF Lookup, Seen, TypeOK
      <4>2. (\E r \in Requests : Execute(w, r)) \/ Reserve(w) \/ Call(w)
            => local'[w].spent = local[w].spent
        <5>1. (\E r \in Requests : Execute(w, r)) => local'[w].spent = local[w].spent
          BY DEF Execute, TypeOK
        <5>2. Reserve(w) => local'[w].spent = local[w].spent
          BY DEF Reserve, TypeOK
        <5>3. Call(w) => local'[w].spent = local[w].spent
          BY DEF Call, TypeOK
        <5>4. QED  BY <5>1, <5>2, <5>3
      <4>3. Settle(w) => local'[w].spent = local[w].spent \/ Return(w)
        BY DEF Settle, TypeOK
      <4>4. Commit(w) \/ ReconcileRead(w) \/ ReconcileWrite(w)
            => local'[w].spent = local[w].spent
        BY DEF Commit, ReconcileRead, ReconcileWrite
      <4>5. QED  BY <1>2, <2>2, <4>1, <4>2, <4>3, <4>4, RollBacks DEF WorkerStep, RolledBack
    <3>2. QED  BY <1>1, <1>5, <3>1
  <2>3. QED  BY <2>1, <2>2
<1>6. QED
  BY <1>4, <1>5 DEF SumAfter

(* A call begins only with room for its price.                               *)
LEMMA RoomStep ==
  ASSUME TypeOK, NEW w \in Workers, Affordable(w), CheckBudget(w), Budget # 0,
         at'[w] = "call"
  PROVE  SpentCents(w) + Price[Provider(w)] <= Budget
<1>1. ~OverBudget(w)
  BY DEF CheckBudget, Goto, TypeOK
<1>2. /\ SpentCents(w) \in Nat /\ Price[Provider(w)] \in Nat /\ Budget \in Nat
      /\ SpentCents(w) <= Budget
  BY SpentType, KeyType, LedgerAssumption DEF Affordable
<1>3. CASE Charged(w)
  <2>1. Spent(w) = SpentCents(w)
    BY <1>3 DEF Spent, Affordable
  <2>2. ~(Price[Provider(w)] > Budget - SpentCents(w))
    BY <1>1, <1>3, <2>1 DEF OverBudget
  <2>3. QED  BY <1>2, <2>2
<1>4. CASE ~Charged(w)
  <2>1. Price[Provider(w)] = 0
    BY <1>2, <1>4 DEF Charged
  <2>2. QED  BY <1>2, <2>1
<1>5. QED
  BY <1>3, <1>4

(* The booked costs stay within the budget.                                  *)
LEMMA AffordableStep ==
  ASSUME TypeOK, TypeOK', NEW w \in Workers, Pending(w), Priced(w), Affordable(w),
         WorkerStep(w)
  PROVE  Affordable(w)'
<1>1. SumAfter(w)
  BY SumStep
<1>2. local'[w].spent # -1 => local'[w].spent = SpentCents(w)'
  BY <1>1, SpentStep DEF Affordable
<1>3. ASSUME Budget # 0
      PROVE  /\ RowCents' <= Budget
             /\ SpentCents(w)' <= Budget
             /\ at'[w] = "call" \/ (at'[w] = "settle" /\ local'[w].outcome = "ok") =>
                  SpentCents(w)' + Price[Provider(w)'] <= Budget
  <2>1. /\ RowCents <= Budget /\ SpentCents(w) <= Budget
        /\ at[w] = "call" \/ (at[w] = "settle" /\ local[w].outcome = "ok") =>
             SpentCents(w) + Price[Provider(w)] <= Budget
    BY <1>3 DEF Affordable
  <2>2. /\ SpentCents(w) \in Nat /\ Price[Provider(w)] \in Nat /\ Budget \in Nat
        /\ Booked[Provider(w)] \in Nat /\ Booked[Provider(w)] <= Price[Provider(w)]
    BY SpentType, KeyType, LedgerAssumption
  <2>3. RowCents' <= Budget
    BY <2>1, RowCentsStep
  <2>4. SpentCents(w)' <= Budget
    <3>1. CASE Settle(w) /\ local[w].outcome = "ok"
      <4>1. SpentCents(w) + Price[Provider(w)] <= Budget
        BY <2>1, <3>1 DEF Settle
      <4>2. SpentCents(w)' = SpentCents(w) \/ SpentCents(w)' = RowCents
            \/ SpentCents(w)' = SpentCents(w) + Booked[Provider(w)]
        BY <1>1 DEF SumAfter
      <4>3. QED  BY <2>1, <2>2, <4>1, <4>2
    <3>2. CASE ~(Settle(w) /\ local[w].outcome = "ok")
      BY <1>1, <2>1, <3>2 DEF SumAfter
    <3>3. QED  BY <3>1, <3>2
  <2>5. ASSUME at'[w] = "call" \/ (at'[w] = "settle" /\ local'[w].outcome = "ok")
        PROVE  SpentCents(w)' + Price[Provider(w)'] <= Budget
    <3>1. CheckBudget(w) \/ Call(w)
      BY <2>5, PlaceAfter
    <3>2. Key(w)' = Key(w)
      BY <3>1, KeyKept
    <3>3. Provider(w)' = Provider(w)
      BY <3>2 DEF Key
    <3>4. SpentCents(w)' = SpentCents(w)
      BY <3>1, QuietView, SpentSame DEF Quiet
    <3>5. CASE CheckBudget(w)
      <4>1. at'[w] = "call"
        <5>1. at'[w] # "call" => local'[w].outcome = "over_budget"
          BY <3>5 DEF CheckBudget, Goto, TypeOK
        <5>2. QED  BY <2>5, <5>1
      <4>2. QED  BY <1>3, <3>3, <3>4, <3>5, <4>1, RoomStep
    <3>6. CASE Call(w)
      BY <2>1, <3>3, <3>4, <3>6 DEF Call
    <3>7. QED  BY <3>1, <3>5, <3>6
  <2>6. QED  BY <2>3, <2>4, <2>5
<1>4. QED
  BY <1>2, <1>3 DEF Affordable

(* Nothing was spent at first.                                               *)
LEMMA TotalZero ==
  ASSUME NEW f, \A k \in Keys : f[k] = 0
  PROVE  Total(f, Keys) = 0
<1>1. \A k \in Keys : 1 .. f[k] = {}
  OBVIOUS
<1>2. Units(f, Keys) = {}
  BY <1>1 DEF Units
<1>3. QED
  BY <1>2, FS_EmptySet DEF Total

AloneInv ==
  /\ LedgerInv
  /\ BudgetKept /\ ReplaysAreRollbacks
  /\ \A w \in Workers : SoleInv(w)

(* A job begins with no cost and no answer.                                 *)
LEMMA AloneInit == Init => AloneInv
<1> SUFFICES ASSUME Init PROVE AloneInv
  OBVIOUS
<1>1. LedgerInv
  BY LedgerInit
<1>2. \A k \in Keys : row[k] = NoRow /\ \A w \in Workers : own[w][k] = NoRow /\ View(w, k) = NoRow
  BY DEF Init, NoRows, View, Wrote
<1>3. NoRow.cost = 0 /\ NoRow.status = "none"
  BY DEF NoRow
<1>4. SumsAgree
  BY <1>1, LedgerSums DEF LedgerInv
<1>5. RowCents = 0
  <2> DEFINE f == [k \in Keys |-> row[k].cost]
  <2>1. \A k \in Keys : f[k] = 0
    BY <1>2, <1>3
  <2>2. RowCents = Total(f, Keys)
    BY <1>4 DEF SumsAgree
  <2> HIDE DEF f
  <2>3. QED  BY <2>1, <2>2, TotalZero
<1>6. ASSUME NEW w \in Workers
      PROVE  SpentCents(w) = 0
  <2> DEFINE f == [k \in Keys |-> View(w, k).cost]
  <2>1. \A k \in Keys : f[k] = 0
    BY <1>2, <1>3
  <2>2. SpentCents(w) = Total(f, Keys)
    BY <1>4 DEF SumsAgree
  <2> HIDE DEF f
  <2>3. QED  BY <2>1, <2>2, TotalZero
<1>7. \A w \in Workers : at[w] = "open" /\ local[w].spent = -1
  BY DEF Init, NoLocals
<1>8. \A k \in Keys : answered[k] = 0 /\ aborts = 0
  BY DEF Init
<1>9. Budget \in Nat
  BY LedgerAssumption
<1>10. ASSUME NEW w \in Workers
       PROVE  SoleInv(w)
  <2>1. Pending(w) /\ Settled(w) /\ Remembered(w) /\ Priced(w)
    BY <1>2, <1>3, <1>7, <1>8 DEF Pending, Settled, Remembered, Priced, Under
  <2>2. Affordable(w)
    BY <1>5, <1>6, <1>7, <1>9 DEF Affordable
  <2>3. QED  BY <2>1, <2>2 DEF SoleInv
<1>11. BudgetKept /\ ReplaysAreRollbacks
  BY <1>5, <1>8, <1>9 DEF BudgetKept, RowCents, ReplaysAreRollbacks
<1>12. QED
  BY <1>1, <1>10, <1>11 DEF AloneInv

(* A step of a lone worker keeps AloneInv.                                  *)
LEMMA AloneStep ==
  ASSUME Alone, AloneInv, [Next]_vars
  PROVE  AloneInv'
<1>1. LedgerInv'
  BY TypeStep, AnswersStep, ReservationsStep, ReviewStep DEF AloneInv, LedgerInv
<1>2. TypeOK /\ TypeOK'
  BY <1>1 DEF AloneInv, LedgerInv
<1>3. CASE UNCHANGED vars
  <2>1. SumsAgree /\ SumsAgree'
    BY <1>2, LedgerSums, PTL
  <2>2. UNCHANGED <<row, own, at, local, answered, aborts>>
    BY <1>3 DEF vars, database, transaction, outside
  <2>3. RowCents' = RowCents
    BY <2>2, <2>1 DEF SumsAgree
  <2>4. ASSUME NEW w \in Workers
        PROVE  SoleInv(w)'
    <3>1. \A k \in Keys : View(w, k)' = View(w, k)
      BY <2>2 DEF View, Wrote
    <3>2. SpentCents(w)' = SpentCents(w)
      BY <1>2, <3>1, SpentSame
    <3>3. Key(w)' = Key(w) /\ Provider(w)' = Provider(w) /\ Key(w) \in Keys
      BY <1>2, <2>2, KeyType DEF Key, Provider
    <3>4. PICK k \in Keys : k = Key(w)
      BY <3>3
    <3>5. SoleInv(w)
      BY DEF AloneInv
    <3>6. Pending(w)'
      <4>1. Key(w)' = k /\ View(w, k)' = View(w, k)
        BY <3>1, <3>3, <3>4
      <4>2. QED  BY <2>2, <3>4, <3>5, <4>1 DEF SoleInv, Pending
    <3>7. Settled(w)' /\ Priced(w)'
      BY <2>2, <3>5 DEF SoleInv, Settled, Priced
    <3>8. Remembered(w)'
      BY <2>2, <3>1, <3>3, <3>5 DEF SoleInv, Remembered, Undelivered
    <3>9. Affordable(w)'
      BY <2>2, <2>3, <3>2, <3>3, <3>5 DEF SoleInv, Affordable
    <3>10. QED  BY <3>6, <3>7, <3>8, <3>9 DEF SoleInv
  <2>5. (BudgetKept /\ ReplaysAreRollbacks)'
    BY <2>2, <2>3 DEF AloneInv, BudgetKept, RowCents, ReplaysAreRollbacks
  <2>6. QED  BY <1>1, <2>4, <2>5 DEF AloneInv
<1>4. ASSUME NEW w \in Workers, WorkerStep(w)
      PROVE  AloneInv'
  <2>1. SoleInv(w)
    BY DEF AloneInv
  <2>2. SoleInv(w)'
    BY <1>2, <1>4, <2>1, PendingStep, SettledStep, RememberedStep, PricedStep, AffordableStep
       DEF SoleInv
  <2>3. \A v \in Workers : v = w
    BY DEF Alone
  <2>4. BudgetKept'
    BY <2>2 DEF SoleInv, Affordable, BudgetKept, RowCents
  <2>5. ReplaysAreRollbacks'
    <3>1. ASSUME NEW k \in Keys
          PROVE  answered'[k] <= 1 + aborts'
      <4>1. answered'[k] \in Nat /\ aborts' \in Nat
        BY <1>2, LedgerAssumption DEF TypeOK
      <4>2. answered'[k] <= aborts' \/ answered'[k] <= aborts' + 1
        BY <2>2 DEF SoleInv, Remembered
      <4>3. QED  BY <4>1, <4>2
    <3>2. QED  BY <3>1 DEF ReplaysAreRollbacks
  <2>6. QED  BY <1>1, <2>2, <2>3, <2>4, <2>5 DEF AloneInv
<1>5. QED
  BY <1>3, <1>4 DEF Next

(* AloneInv holds throughout for a lone worker.                             *)
THEOREM AloneInvariant ==
  ASSUME Alone
  PROVE  Spec => []AloneInv
<1>1. ASSUME AloneInv, [Next]_vars
      PROVE  AloneInv'
  BY <1>1, AloneStep
<1>2. QED
  BY <1>1, AloneInit, PTL DEF Spec

(* A worker that owns its job alone asks a provider again for what it has     *)
(* answered only where a rolled back unit of work has forgotten the answer    *)
(* (gateway.py: execute; effects.py: reserve, complete).                     *)
THEOREM AnswersAreNotAskedForAgain ==
  ASSUME Alone
  PROVE  Spec => []ReplaysAreRollbacks
<1>1. AloneInv => ReplaysAreRollbacks
  BY DEF AloneInv
<1>2. QED
  BY <1>1, AloneInvariant, PTL

(* A step of a lone worker keeps what succeeded.                             *)
LEMMA SucceededStep ==
  ASSUME TypeOK, NEW w \in Workers, Settled(w), WorkerStep(w),
         NEW k \in Keys, row[k].status = "succeeded"
  PROVE  row'[k] = row[k]
<1>1. CASE Commit(w)
  <2>1. row'[k] = View(w, k) /\ own[w][k] = NoRow
    BY <1>1 DEF Commit, Settled
  <2>2. QED  BY <2>1, ViewType
<1>2. Quiet(w) \/ Reserve(w) \/ Settle(w) \/ RolledBack(w) => UNCHANGED row
  BY QuietView, ReserveView, SettleView, RollBackView DEF RolledBack
<1>3. QED
  BY <1>1, <1>2, RollBacks DEF WorkerStep, Quiet

(* Over any number of rolled back and repeated units of work the costs        *)
(* booked for a job stay within its budget, and a row that says succeeded     *)
(* keeps its status and its cost (gateway.py: _check_budget, complete).      *)
THEOREM BudgetsAreKept ==
  ASSUME Alone
  PROVE  Spec => SpendingIsFinal
<1>1. AloneInv => BudgetKept
  BY DEF AloneInv
<1>2. ASSUME AloneInv, [Next]_vars, NEW k \in Keys, row[k].status = "succeeded"
      PROVE  row'[k] = row[k]
  <2>1. CASE UNCHANGED vars
    BY <2>1 DEF vars, database
  <2>2. ASSUME NEW w \in Workers, WorkerStep(w)
        PROVE  row'[k] = row[k]
    <3>1. TypeOK /\ Settled(w)
      BY <1>2 DEF AloneInv, LedgerInv, SoleInv
    <3>2. QED  BY <1>2, <2>2, <3>1, SucceededStep
  <2>3. QED  BY <1>2, <2>1, <2>2 DEF Next
<1>3. AloneInv /\ [Next]_vars
      => [\A k \in Keys : row[k].status = "succeeded" => row'[k] = row[k]]_vars
  BY <1>2
<1>4. QED
  BY <1>1, <1>3, AloneInvariant, PTL DEF Spec, SpendingIsFinal, SucceededStays

=============================================================================
