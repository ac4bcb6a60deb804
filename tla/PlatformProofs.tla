-------------------------- MODULE PlatformProofs --------------------------
(***************************************************************************)
(* Theorems about two parts of the platform under the pipeline:            *)
(* OutboxRelay, for any number of relays and events, and Wiring, for any   *)
(* registry file, number of keys and number of calls.                      *)
(*                                                                         *)
(* No event is lost because of what each place of a tick remembers of its  *)
(* event: a relay about to mark it saw an inbox row, and an inbox row is   *)
(* only ever written for a handled or a dead-lettered event (DeliveryInv). *)
(* Poison stops because attempts only grow: once an event is parked, every *)
(* failure parks it again, no relay begins its handler any more, and those *)
(* that had begun can be counted (PoisonInv).                              *)
(*                                                                         *)
(* No key is wasted because boot registers every adapter at the first key  *)
(* of its pool, and nothing but a refusal moves a pool (PoolInv). What     *)
(* hydration and boot make of the credentials is BootInv.                  *)
(***************************************************************************)
EXTENDS OutboxRelay, Wiring, FiniteSetTheorems, TLAPS

Dispatching == {"check", "handle", "raised", "record", "mark"}

\* What the place of a relay says about its event.
Remembered ==
  \A w \in Relays :
    /\ batch[w] \subseteq emitted
    /\ at[w] \in Dispatching => event[w] \in emitted
    /\ at[w] = "record" => handled[event[w]] > 0
    /\ at[w] = "raised" => failed[event[w]] > 0
    /\ at[w] = "mark" => handled[event[w]] > 0 \/ letters[event[w]] > 0

InboxEarned ==
  \A e \in EventIds :
    /\ inbox[e] = "ok" => handled[e] > 0
    /\ inbox[e] = "dead-lettered" => letters[e] > 0

DeliveryInv ==
  /\ TypeOK
  /\ Remembered
  /\ InboxEarned
  /\ DeadLettersEarned
  /\ NoEventLost

-----------------------------------------------------------------------------
LEMMA DeliveryInit == Init => DeliveryInv
  BY RelayAssumption DEF Init, DeliveryInv, TypeOK, Remembered, InboxEarned,
     DeadLettersEarned, NoEventLost, Dispatching, EventIds

LEMMA DeliveryStep == DeliveryInv /\ [Next]_vars => DeliveryInv'
<1> SUFFICES ASSUME DeliveryInv, [Next]_vars
             PROVE  DeliveryInv'
  OBVIOUS
<1> USE RelayAssumption DEF DeliveryInv, TypeOK, Remembered, InboxEarned,
      DeadLettersEarned, NoEventLost, Dispatching, Goto, NextInBatch
<1>1. ASSUME NEW e \in EventIds, PutEvent(e)  PROVE DeliveryInv'
  BY <1>1 DEF PutEvent
<1>2. ASSUME NEW w \in Relays, Fetch(w)  PROVE DeliveryInv'
  <2>1. Oldest(Unpublished, RelayBatch) \subseteq emitted
    BY DEF Oldest, Unpublished
  <2>2. QED BY <1>2, <2>1 DEF Fetch, tables
<1>3. ASSUME NEW w \in Relays, FetchNothing(w)  PROVE DeliveryInv'
  BY <1>3 DEF FetchNothing, vars, tables
<1>4. ASSUME NEW w \in Relays, Count(w)  PROVE DeliveryInv'
  BY <1>4 DEF Count
<1>5. ASSUME NEW w \in Relays, Receive(w)  PROVE DeliveryInv'
  BY <1>5 DEF Receive, tables
<1>6. ASSUME NEW w \in Relays, HandlerReturns(w)  PROVE DeliveryInv'
  BY <1>6 DEF HandlerReturns, tables
<1>7. ASSUME NEW w \in Relays, HandlerRaises(w)  PROVE DeliveryInv'
  BY <1>7 DEF HandlerRaises, tables
<1>8. ASSUME NEW w \in Relays, Record(w)  PROVE DeliveryInv'
  BY <1>8 DEF Record
<1>9. ASSUME NEW w \in Relays, OnFailure(w)  PROVE DeliveryInv'
  BY <1>9 DEF OnFailure
<1>10. ASSUME NEW w \in Relays, Mark(w)  PROVE DeliveryInv'
  BY <1>10 DEF Mark
<1>11. ASSUME NEW w \in Relays, Crash(w)  PROVE DeliveryInv'
  BY <1>11 DEF Crash, tables
<1>12. CASE UNCHANGED vars
  BY <1>12 DEF vars, tables
<1>13. QED
  BY <1>1, <1>2, <1>3, <1>4, <1>5, <1>6, <1>7, <1>8, <1>9, <1>10, <1>11, <1>12
     DEF Next, RelayTick

\* Deliveries never escape their types and never lose an event: the strengthened
\* invariant behind the theorems below.
THEOREM DeliveryInvariant == Spec => []DeliveryInv
<1>1. QED BY DeliveryInit, DeliveryStep, PTL DEF Spec

\* Every variable of the relay keeps its type.
THEOREM TypeCorrect == Spec => []TypeOK
<1>1. DeliveryInv => TypeOK  BY DEF DeliveryInv
<1>2. QED BY <1>1, DeliveryInvariant, PTL

\* At-least-once delivery: whatever crashes or overlaps, an event leaves the
\* outbox only handled or dead-lettered.
THEOREM NothingIsLost == Spec => []NoEventLost
<1>1. DeliveryInv => NoEventLost  BY DEF DeliveryInv
<1>2. QED BY <1>1, DeliveryInvariant, PTL

\* Dead letters are written only for events that failed, after their attempts.
THEOREM OnlyFailuresArePoison == Spec => []DeadLettersEarned
<1>1. DeliveryInv => DeadLettersEarned  BY DEF DeliveryInv
<1>2. QED BY <1>1, DeliveryInvariant, PTL

-----------------------------------------------------------------------------
(* Poison.                                                                   *)

\* The relays that run the handler of e, or are about to handle its failure.
Trying(e) == {w \in Relays : at[w] \in {"handle", "raised"} /\ event[w] = e}

PoisonInv ==
  \A e \in EventIds :
    /\ inbox[e] = "dead-lettered" <=> letters[e] > 0
    /\ letters[e] + Cardinality(Trying(e)) <= Cardinality(Relays)

\* Cardinalities of sets of relays.
LEMMA TryingFinite ==
  ASSUME NEW S \in SUBSET Relays
  PROVE  /\ IsFiniteSet(S) /\ Cardinality(S) \in Nat
         /\ Cardinality(Relays) \in Nat /\ Cardinality(S) <= Cardinality(Relays)
BY RelayAssumption, FS_Subset, FS_CardinalityType

\* A step that leaves the inbox and the letters alone, and lets a relay begin
\* the handler of an event only where there is no inbox row.
LEMMA PoisonKept ==
  ASSUME DeliveryInv, PoisonInv, UNCHANGED <<inbox, letters>>,
         \A e \in EventIds : letters[e] > 0 => Trying(e)' \subseteq Trying(e)
  PROVE  PoisonInv'
<1> SUFFICES ASSUME NEW e \in EventIds
             PROVE  letters[e] + Cardinality(Trying(e)') <= Cardinality(Relays)
  BY DEF PoisonInv
<1>1. letters[e] \in Nat
  BY DEF DeliveryInv, TypeOK
<1>2. Trying(e)' \subseteq Relays /\ Trying(e) \subseteq Relays
  BY DEF Trying
<1>3. CASE letters[e] = 0
  BY <1>2, <1>3, TryingFinite
<1>4. CASE letters[e] > 0
  <2>1. Cardinality(Trying(e)') <= Cardinality(Trying(e))
    BY <1>2, <1>4, TryingFinite, FS_Subset
  <2>2. QED BY <1>1, <1>2, <2>1, TryingFinite DEF PoisonInv
<1>5. QED BY <1>1, <1>3, <1>4

\* Parking is the one step that writes a letter: the relay that does stops trying.
LEMMA ParkingKeeps ==
  ASSUME DeliveryInv, PoisonInv, NEW w \in Relays, OnFailure(w)
  PROVE  PoisonInv' /\ \A e \in EventIds : inbox[e] = "dead-lettered" => inbox'[e] = "dead-lettered"
<1>0. event[w] \in EventIds /\ TypeOK
  BY DEF OnFailure, DeliveryInv, Remembered, Dispatching, TypeOK
<1> PICK f \in EventIds : f = event[w]
  BY <1>0
<1> DEFINE spent == attempts[f] >= ConsumerAttempts
<1>1. f \in EventIds /\ w \in Trying(f) /\ TypeOK
  BY <1>0 DEF OnFailure, Trying
<1>2. /\ inbox' = [inbox EXCEPT ![f] = IF spent THEN "dead-lettered" ELSE "none"]
      /\ letters' = IF spent THEN [letters EXCEPT ![f] = @ + 1] ELSE letters
      /\ event' = event
      /\ at'[w] \notin {"handle", "raised"} /\ \A v \in Relays \ {w} : at'[v] = at[v]
  BY <1>1 DEF OnFailure, NextInBatch, Goto, TypeOK
<1>3. letters[f] > 0 => spent
  BY <1>1 DEF DeliveryInv, DeadLettersEarned
<1>4. \A e \in EventIds : Trying(e)' = Trying(e) \ {w}
  BY <1>2 DEF Trying
<1>5. ASSUME NEW e \in EventIds, e # f
      PROVE  /\ inbox'[e] = "dead-lettered" <=> letters'[e] > 0
             /\ letters'[e] + Cardinality(Trying(e)') <= Cardinality(Relays)
             /\ inbox'[e] = inbox[e]
  <2>1. w \notin Trying(e) /\ Trying(e)' = Trying(e)
    BY <1>4, <1>5 DEF Trying
  <2>2. inbox'[e] = inbox[e] /\ letters'[e] = letters[e]
    BY <1>1, <1>2, <1>5 DEF TypeOK
  <2>3. QED BY <2>1, <2>2 DEF PoisonInv
<1>6. /\ inbox'[f] = "dead-lettered" <=> letters'[f] > 0
      /\ letters'[f] + Cardinality(Trying(f)') <= Cardinality(Relays)
      /\ inbox[f] = "dead-lettered" => inbox'[f] = "dead-lettered"
  <2>1. Trying(f) \subseteq Relays
    BY DEF Trying
  <2>2. Cardinality(Trying(f)') = Cardinality(Trying(f)) - 1
    BY <1>1, <1>4, <2>1, TryingFinite, FS_RemoveElement
  <2>3. Cardinality(Trying(f)) \in Nat /\ Cardinality(Relays) \in Nat /\ letters[f] \in Nat
    BY <1>1, <2>1, TryingFinite DEF TypeOK
  <2>4. letters[f] + Cardinality(Trying(f)) <= Cardinality(Relays)
    BY <1>1 DEF PoisonInv
  <2>5. CASE spent
    <3>1. letters'[f] = letters[f] + 1 /\ inbox'[f] = "dead-lettered"
      BY <1>1, <1>2, <2>5 DEF TypeOK
    <3>2. QED BY <2>2, <2>3, <2>4, <3>1
  <2>6. CASE ~spent
    <3>1. letters'[f] = letters[f] /\ inbox'[f] = "none" /\ letters[f] = 0
      BY <1>1, <1>2, <1>3, <2>3, <2>6 DEF TypeOK
    <3>2. inbox[f] # "dead-lettered"
      BY <1>1, <3>1 DEF PoisonInv
    <3>3. QED BY <2>2, <2>3, <2>4, <3>1, <3>2
  <2>7. QED BY <2>5, <2>6
<1>7. QED
  BY <1>5, <1>6 DEF PoisonInv

LEMMA PoisonStep ==
  ASSUME DeliveryInv, PoisonInv, [Next]_vars
  PROVE  PoisonInv' /\ \A e \in EventIds : inbox[e] = "dead-lettered" => inbox'[e] = "dead-lettered"
<1> DEFINE Kept == \A e \in EventIds : inbox[e] = "dead-lettered" => inbox'[e] = "dead-lettered"
<1>1. ASSUME UNCHANGED <<inbox, letters>>,
             \A e \in EventIds : letters[e] > 0 => Trying(e)' \subseteq Trying(e)
      PROVE  PoisonInv' /\ Kept
  BY <1>1, PoisonKept
<1> USE DEF DeliveryInv, TypeOK, Goto, NextInBatch, Trying, tables
<1>2. ASSUME NEW e \in EventIds, PutEvent(e)  PROVE PoisonInv' /\ Kept
  BY <1>1, <1>2 DEF PutEvent
<1>3. ASSUME NEW w \in Relays, Fetch(w) \/ FetchNothing(w)  PROVE PoisonInv' /\ Kept
  BY <1>1, <1>3 DEF Fetch, FetchNothing, vars
<1>4. ASSUME NEW w \in Relays, Count(w)  PROVE PoisonInv' /\ Kept
  BY <1>1, <1>4 DEF Count
<1>5. ASSUME NEW w \in Relays, Receive(w)  PROVE PoisonInv' /\ Kept
  <2>1. \A e \in EventIds : letters[e] > 0 => inbox[e] # "none"
    BY DEF PoisonInv
  <2>2. \A e \in EventIds : letters[e] > 0 => Trying(e)' \subseteq Trying(e)
    BY <1>5, <2>1 DEF Receive
  <2>3. QED BY <1>1, <1>5, <2>2 DEF Receive
<1>6. ASSUME NEW w \in Relays, HandlerReturns(w) \/ HandlerRaises(w)  PROVE PoisonInv' /\ Kept
  BY <1>1, <1>6 DEF HandlerReturns, HandlerRaises
<1>7. ASSUME NEW w \in Relays, Record(w)  PROVE PoisonInv' /\ Kept
  <2>1. \A e \in EventIds : Trying(e)' \subseteq Trying(e)
    BY <1>7 DEF Record
  <2>2. CASE inbox[event[w]] # "none"
    BY <1>1, <1>7, <2>1, <2>2 DEF Record
  <2>3. CASE inbox[event[w]] = "none"
    <3>1. /\ letters' = letters
          /\ \A e \in EventIds : inbox'[e] = "dead-lettered" <=> inbox[e] = "dead-lettered"
      BY <1>7, <2>3 DEF Record
    <3>2. \A e \in EventIds : Cardinality(Trying(e)') <= Cardinality(Trying(e))
                             /\ Cardinality(Trying(e)') \in Nat /\ Cardinality(Trying(e)) \in Nat
      BY <2>1, TryingFinite, FS_Subset
    <3>3. Cardinality(Relays) \in Nat
      BY TryingFinite
    <3>4. ASSUME NEW e \in EventIds
          PROVE  letters'[e] + Cardinality(Trying(e)') <= Cardinality(Relays)
      <4> HIDE DEF Trying
      <4>1. letters[e] \in Nat /\ letters[e] + Cardinality(Trying(e)) <= Cardinality(Relays)
        BY DEF PoisonInv
      <4>2. QED BY <3>1, <3>2, <3>3, <4>1
    <3>5. QED
      <4> HIDE DEF Trying
      <4>1. QED BY <3>1, <3>4 DEF PoisonInv
  <2>4. QED BY <2>2, <2>3
<1>8. ASSUME NEW w \in Relays, OnFailure(w)  PROVE PoisonInv' /\ Kept
  BY <1>8, ParkingKeeps
<1>9. ASSUME NEW w \in Relays, Mark(w)  PROVE PoisonInv' /\ Kept
  BY <1>1, <1>9 DEF Mark
<1>10. ASSUME NEW w \in Relays, Crash(w)  PROVE PoisonInv' /\ Kept
  BY <1>1, <1>10 DEF Crash
<1>11. CASE UNCHANGED vars
  BY <1>1, <1>11 DEF vars
<1>12. QED
  BY <1>2, <1>3, <1>4, <1>5, <1>6, <1>7, <1>8, <1>9, <1>10, <1>11 DEF Next, RelayTick

LEMMA PoisonInvariant == Spec => []PoisonInv
<1>1. Init => PoisonInv
  <2> SUFFICES ASSUME Init, NEW e \in EventIds
               PROVE  /\ inbox[e] = "dead-lettered" <=> letters[e] > 0
                      /\ letters[e] + Cardinality(Trying(e)) <= Cardinality(Relays)
    BY DEF PoisonInv
  <2>1. Trying(e) \subseteq Relays
    BY DEF Trying
  <2>2. QED BY <2>1, TryingFinite DEF Init
<1>2. DeliveryInv /\ PoisonInv /\ [Next]_vars => PoisonInv'
  BY PoisonStep
<1>3. QED BY <1>1, <1>2, DeliveryInvariant, PTL DEF Spec

\* An event gets at most one dead letter from each relay, however often it is
\* delivered again: with one relay, one.
THEOREM PoisonIsBounded == Spec => []PoisonStops
<1>1. DeliveryInv /\ PoisonInv => PoisonStops
  <2> SUFFICES ASSUME DeliveryInv, PoisonInv, NEW e \in EventIds
               PROVE  letters[e] <= Cardinality(Relays)
    BY DEF PoisonStops
  <2>1. Trying(e) \subseteq Relays /\ letters[e] \in Nat
    BY DEF Trying, DeliveryInv, TypeOK
  <2>2. QED BY <2>1, TryingFinite DEF PoisonInv
<1>2. QED BY <1>1, PoisonInvariant, DeliveryInvariant, PTL

\* No overlap, crash or retry takes a parked event out of the dead letters'
\* keeping.
THEOREM ParkedForGood == Spec => ParkedStays
<1>1. DeliveryInv /\ PoisonInv /\ [Next]_vars
        => [\A e \in EventIds : inbox[e] = "dead-lettered" => inbox'[e] = "dead-lettered"]_vars
  BY PoisonStep
<1>2. QED BY <1>1, PoisonInvariant, DeliveryInvariant, PTL DEF Spec, ParkedStays


-----------------------------------------------------------------------------
(* Wiring: what boot registers, and what calls make of it.                   *)

Stages == {"start", "hydrated", "gateway", "up", "failed"}
BootFields == {"at", "choice", "file", "mode", "reason", "loaded", "kept", "bad", "hand"}
CallFields == {"cap", "asked", "answer", "n", "refused", "spent"}
EnvRows == [keys : Nat, from : {"none", "explicit", "stored"}]
AdapterFields == {"id", "cap", "priority", "var", "index"}
DemoIds == {Demo[d].id : d \in 1..3}

\* A fake is among the first that boot registers, and then only in demo mode.
NoFakes(w) == \A i \in DOMAIN w : i[1] = 1 => w[i].id \notin DemoIds

\* Adapters with untouched pools.
Fresh(w) == \A i \in DOMAIN w : DOMAIN w[i] = AdapterFields /\ w[i].index = 1

BootInv ==
    /\ boot.at \in Stages /\ DOMAIN boot = BootFields
    /\ env \in [Vars -> EnvRows] /\ boot.hand \subseteq Vars
    /\ \A v \in Vars : env[v].from = "stored" => v \in boot.loaded
    /\ \A v \in boot.hand : env[v].from = "explicit"
    /\ boot.at = "start" => \A v \in Vars : /\ env[v].from # "stored"
                                            /\ v \in boot.hand <=> env[v].keys > 0
    /\ boot.at \in {"start", "hydrated"} => wired = <<>>
    /\ boot.mode = "real" => NoFakes(wired)

PoolInv ==
    /\ DOMAIN call = CallFields
    /\ call.asked \subseteq DOMAIN wired /\ call.spent \subseteq DOMAIN wired
    /\ boot.at # "up" => call = NoRequest /\ Fresh(wired)
    /\ \A i \in DOMAIN wired :
         /\ DOMAIN wired[i] = AdapterFields /\ wired[i].index \in Nat \ {0}
         /\ \A k \in 1..(wired[i].index - 1) : <<i, k>> \in call.refused
    /\ \A i \in call.spent : \A k \in 1..Keys(wired[i].var) : <<i, k>> \in call.refused

\* What is registered from a list lies at its places, and is as listed.
Lies(f, l, as, ks) == \A p \in DOMAIN f : p[1] = l /\ \E k \in ks : f[p] = as[k]

LEMMA FromIs ==
  ASSUME NEW l, NEW as, NEW ks
  PROVE  Lies(From(l, as, ks), l, as, ks)
<1> DEFINE f == From(l, as, ks)
<1>1. DOMAIN f = {l} \X ks
  BY DEF From
<1>2. \A p \in {l} \X ks : f[p] = as[p[2]]
  BY DEF From
<1>3. \A p \in {l} \X ks : p[1] = l /\ p[2] \in ks
  OBVIOUS
<1> HIDE DEF f
<1>4. Lies(f, l, as, ks)
  BY <1>1, <1>2, <1>3 DEF Lies
<1>5. QED  BY <1>4 DEF f

(* Every adapter starts with the first key of its pool.                      *)
LEMMA FreshFrom ==
  ASSUME NEW l, NEW as, NEW ks, \A k \in ks : DOMAIN as[k] = AdapterFields /\ as[k].index = 1,
         NEW f, f = From(l, as, ks)
  PROVE  Fresh(f)
<1>1. ASSUME NEW p \in DOMAIN f
      PROVE  DOMAIN f[p] = AdapterFields /\ f[p].index = 1
  <2>1. Lies(f, l, as, ks)
    BY FromIs
  <2>2. PICK k \in ks : f[p] = as[k]
    BY <2>1 DEF Lies
  <2>3. QED  BY <2>2
<1>2. QED  BY <1>1 DEF Fresh

\* An adapter as boot makes it.
LEMMA AdapterIs ==
  ASSUME NEW id, NEW cap, NEW priority, NEW var
  PROVE  LET a == Adapter(id, cap, priority, var)
         IN  DOMAIN a = AdapterFields /\ a.index = 1 /\ a.id = id
BY DEF Adapter, AdapterFields

\* The adapters the code knows: all fresh, and no vendor has the id of a fake.
LEMMA ListsAre ==
  /\ DOMAIN Demo = 1..3 /\ DOMAIN Vendors = 1..6
  /\ \A k \in 1..3 : DOMAIN Demo[k] = AdapterFields /\ Demo[k].index = 1
  /\ \A k \in 1..6 : DOMAIN Vendors[k] = AdapterFields /\ Vendors[k].index = 1
  /\ \A k \in 1..6 : Vendors[k].id \notin DemoIds
<1>1. DOMAIN Demo = 1..3 /\ DOMAIN Vendors = 1..6
  BY DEF Demo, Vendors
<1>2. \A k \in 1..3 : k \in {1, 2, 3}
  OBVIOUS
<1>3. \A k \in 1..6 : k \in {1, 2, 3, 4, 5, 6}
  OBVIOUS
<1>4. \A k \in 1..3 : DOMAIN Demo[k] = AdapterFields /\ Demo[k].index = 1
  BY <1>2, AdapterIs DEF Demo
<1>5. \A k \in 1..6 : DOMAIN Vendors[k] = AdapterFields /\ Vendors[k].index = 1
  BY <1>3, AdapterIs DEF Vendors
<1>6. DemoIds = {"demo-search", "demo-verify", "demo-contact"}
  BY <1>2, AdapterIs DEF Demo, DemoIds
<1>7. \A k \in 1..6 : Vendors[k].id \in {"tavily", "exa", "smtp-verify", "apollo", "hunter",
                                      "hunter-verify"}
  BY <1>3, AdapterIs DEF Vendors
<1>8. QED  BY <1>1, <1>4, <1>5, <1>6, <1>7

\* The models the code knows are fresh too.
LEMMA ModelsAre ==
  LET models == <<Gemini>> \o FakeModels
  IN  \A k \in DOMAIN models : DOMAIN models[k] = AdapterFields /\ models[k].index = 1
<1> DEFINE models == <<Gemini>> \o FakeModels
<1>1. /\ DOMAIN models = 1..3 /\ models[1] = Gemini
      /\ models[2] = FakeModels[1] /\ models[3] = FakeModels[2]
  BY DEF FakeModels
<1>2. \A k \in 1..3 : k \in {1, 2, 3}
  OBVIOUS
<1>3. \A a \in {Gemini, FakeModels[1], FakeModels[2]} : DOMAIN a = AdapterFields /\ a.index = 1
  BY AdapterIs DEF Gemini, FakeModels
<1> HIDE DEF models
<1>4. QED  BY <1>1, <1>2, <1>3 DEF models

(* What boot registers, of the code and of the file.                         *)
LEMMA ShippedIs ==
  Fresh(Shipped) /\ (Mode = "real" => NoFakes(Shipped))
<1> DEFINE list == CASE Mode = "demo" -> Demo [] Mode = "real" -> Vendors [] OTHER -> <<>>
           ks == {k \in DOMAIN list : HasKeys(list[k])}
<1>1. \A k \in DOMAIN list : DOMAIN list[k] = AdapterFields /\ list[k].index = 1
  BY ListsAre
<1>2. Mode = "real" => \A k \in DOMAIN list : list[k].id \notin DemoIds
  BY ListsAre
<1>3. Shipped = From(1, list, ks)
  BY DEF Shipped, WithKeys
<1>4. ks \subseteq DOMAIN list
  OBVIOUS
<1> HIDE DEF list, ks
<1>5. Fresh(Shipped)
  BY <1>1, <1>3, <1>4, FreshFrom
<1>6. ASSUME Mode = "real", NEW p \in DOMAIN Shipped
      PROVE  Shipped[p].id \notin DemoIds
  <2>1. Lies(Shipped, 1, list, ks)
    BY <1>3, FromIs
  <2>2. PICK k \in ks : Shipped[p] = list[k]
    BY <2>1 DEF Lies
  <2>3. QED  BY <1>2, <1>4, <1>6, <2>2
<1>7. QED  BY <1>5, <1>6 DEF NoFakes

\* The models of the code have a list of their own.
LEMMA ModelsFresh ==
  Fresh(ShippedModels) /\ \A i \in DOMAIN ShippedModels : i[1] = 3
<1> DEFINE models == <<Gemini>> \o FakeModels
           ks == {k \in DOMAIN models : HasKeys(models[k])}
<1>1. ShippedModels = From(3, models, ks)
  BY DEF ShippedModels, WithKeys
<1>2. \A k \in ks : DOMAIN models[k] = AdapterFields /\ models[k].index = 1
  BY ModelsAre
<1> HIDE DEF models, ks
<1>3. Fresh(ShippedModels)
  BY <1>1, <1>2, FreshFrom
<1>4. Lies(ShippedModels, 3, models, ks)
  BY <1>1, FromIs
<1>5. QED  BY <1>3, <1>4 DEF Lies

\* So have the adapters of the file.
LEMMA FileFresh ==
  ASSUME NEW isModel \in BOOLEAN
  PROVE  Fresh(Registered(isModel)) /\ \A i \in DOMAIN Registered(isModel) : i[1] \in {2, 4}
<1> DEFINE as == [k \in DOMAIN boot.file |-> LET e == boot.file[k]
                                            IN  Adapter(e.id, e.cap, e.priority, e.var)]
           ks == {k \in FileEntries(isModel) :
                    Usable(boot.file[k]) /\ (boot.file[k].cap \in ModelCaps) = isModel}
           l == IF isModel THEN 4 ELSE 2
<1>1. Registered(isModel) = From(l, as, ks)
  BY DEF Registered
<1>2. \A k \in DOMAIN boot.file : DOMAIN as[k] = AdapterFields /\ as[k].index = 1
  BY AdapterIs
<1>3. ks \subseteq DOMAIN boot.file
  BY DEF FileEntries
<1>4. l = 2 \/ l = 4
  OBVIOUS
<1> HIDE DEF as, ks, l
<1>5. Fresh(Registered(isModel))
  BY <1>1, <1>2, <1>3, FreshFrom
<1>6. ASSUME NEW i \in DOMAIN Registered(isModel)
      PROVE  i[1] \in {2, 4}
  <2>1. Lies(Registered(isModel), l, as, ks)
    BY <1>1, FromIs
  <2>2. i[1] = l
    BY <2>1 DEF Lies
  <2>3. QED  BY <1>4, <2>2
<1>7. QED  BY <1>5, <1>6

\* The adapters of one registration and of the next.
LEMMA BothAre ==
  ASSUME NEW f, NEW g
  PROVE  /\ DOMAIN Joined(f, g) = DOMAIN f \cup DOMAIN g
         /\ \A i \in DOMAIN f \cup DOMAIN g : Joined(f, g)[i] = IF i \in DOMAIN f THEN f[i] ELSE g[i]
BY DEF Joined

\* Nothing of an adapter is changed by registering more.
LEMMA BothFresh ==
  ASSUME NEW f, NEW g, Fresh(f), Fresh(g)
  PROVE  Fresh(Joined(f, g))
<1> DEFINE h == Joined(f, g)
<1>1. DOMAIN h = DOMAIN f \cup DOMAIN g
  BY DEF Joined
<1>2. \A i \in DOMAIN g : i \notin DOMAIN f => h[i] = g[i]
  BY DEF Joined
<1>3. \A i \in DOMAIN f : h[i] = f[i]
  BY DEF Joined
<1> HIDE DEF h
<1>4. Fresh(h)
  BY <1>1, <1>2, <1>3 DEF Fresh
<1>5. QED  BY <1>4 DEF h

-----------------------------------------------------------------------------
\* Before the boot nothing is registered, and only what is set by hand has keys.
LEMMA WiringStarts == WiringInit => BootInv /\ PoolInv
<1> SUFFICES ASSUME WiringInit PROVE BootInv /\ PoolInv
  OBVIOUS
<1>1. wired = <<>> /\ DOMAIN wired = {}
  BY DEF WiringInit
<1>2. call = NoRequest /\ DOMAIN call = CallFields /\ call.asked = {} /\ call.spent = {}
  BY DEF WiringInit, NoRequest, CallFields
<1>3. /\ boot.at = "start" /\ boot.mode = "none" /\ DOMAIN boot = BootFields
      /\ boot.hand = {v \in Vars : env[v].keys > 0}
  BY DEF WiringInit, BootFields
<1>4. \A v \in Vars : env[v] = Unset \/ env[v] = [keys |-> MaxKeys, from |-> "explicit"]
  BY DEF WiringInit
<1>5. env \in [Vars -> EnvRows]
  <2>1. Unset \in EnvRows /\ [keys |-> MaxKeys, from |-> "explicit"] \in EnvRows
    BY WiringAssumption DEF Unset, EnvRows
  <2>2. QED  BY <2>1 DEF WiringInit
<1>6. \A v \in Vars : /\ env[v].from # "stored"
                      /\ env[v].keys > 0 => env[v].from = "explicit"
  BY <1>4 DEF Unset
<1>7. BootInv
  BY <1>1, <1>3, <1>5, <1>6 DEF BootInv, Stages, NoFakes
<1>8. PoolInv
  BY <1>1, <1>2, <1>3 DEF PoolInv, Fresh
<1>9. QED  BY <1>7, <1>8

\* A call registers nothing.
LEMMA BootKept ==
  ASSUME BootInv, UNCHANGED <<boot, env>>, boot.at = "up",
         \A i \in DOMAIN wired' : i \in DOMAIN wired /\ wired'[i].id = wired[i].id
  PROVE  BootInv'
BY DEF BootInv, NoFakes, EnvRows, Stages

\* What a call may do: it tries adapters, it gives up one whose keys have all
\* been refused.
LEMMA CallKept ==
  ASSUME BootInv, PoolInv, UNCHANGED <<boot, env, wired>>, boot.at = "up",
         DOMAIN call' = CallFields, call'.asked \subseteq DOMAIN wired, call'.spent \subseteq DOMAIN wired,
         call.refused \subseteq call'.refused,
         \A i \in call'.spent \ call.spent :
             \A k \in 1..Keys(wired[i].var) : <<i, k>> \in call'.refused
  PROVE  BootInv' /\ PoolInv'
<1>1. BootInv'
  BY BootKept
<1>2. \A i \in call'.spent : \A k \in 1..Keys(wired[i].var) : <<i, k>> \in call'.refused
  BY DEF PoolInv
<1>3. \A i \in DOMAIN wired : /\ DOMAIN wired[i] = AdapterFields /\ wired[i].index \in Nat \ {0}
                              /\ \A k \in 1..(wired[i].index - 1) : <<i, k>> \in call'.refused
  BY DEF PoolInv
<1>4. \A var : Keys(var)' = Keys(var)
  BY DEF Keys
<1>5. QED  BY <1>1, <1>2, <1>3, <1>4 DEF PoolInv

\* Hydration loads what is not set by hand, and names it.
LEMMA HydrateKeeps ==
  ASSUME BootInv, PoolInv, HydrateFails \/ Hydrate
  PROVE  BootInv' /\ PoolInv'
<1>1. boot.at = "start" /\ wired = <<>> /\ wired' = <<>> /\ call = NoRequest /\ call' = NoRequest
  BY DEF HydrateFails, Hydrate, BootInv, PoolInv
<1>2. DOMAIN wired' = {}
  BY <1>1
<1>3. DOMAIN call' = CallFields /\ call'.asked = {} /\ call'.spent = {}
  BY <1>1 DEF NoRequest, CallFields
<1>4. PoolInv'
  BY <1>1, <1>2, <1>3 DEF PoolInv, Fresh
<1>5. CASE HydrateFails
  <2>1. /\ DOMAIN boot' = BootFields /\ boot'.at = "hydrated"
        /\ boot'.hand = boot.hand /\ boot'.loaded = boot.loaded /\ env' = env
    BY <1>5 DEF HydrateFails, BootInv, BootFields
  <2>2. QED  BY <1>1, <1>2, <1>4, <2>1 DEF BootInv, NoFakes, Stages
<1>6. CASE Hydrate
  <2>1. PICK rows \in [Vars -> {"absent", "bad", "empty", "same", "other"}] :
         LET good == {v \in Vars : rows[v] \in {"same", "other"}}
             kept == {v \in good : Keeps(v, rows[v])}
         IN  /\ boot' = [boot EXCEPT !.at = "hydrated", !.loaded = good \ kept, !.kept = kept,
                            !.bad = {v \in Vars : rows[v] = "bad"}]
             /\ \E keys \in 1..MaxKeys :
                  env' = [v \in Vars |->
                      IF v \notin good \ kept \/ (rows[v] = "same" /\ env[v].keys > 0) THEN env[v]
                      ELSE [keys |-> keys, from |-> "stored"]]
    BY <1>6 DEF Hydrate
  <2> DEFINE good == {v \in Vars : rows[v] \in {"same", "other"}}
             kept == {v \in good : Keeps(v, rows[v])}
             new == good \ kept
  <2>2. /\ DOMAIN boot' = BootFields /\ boot'.at = "hydrated"
        /\ boot'.hand = boot.hand /\ boot'.loaded = new
    BY <2>1 DEF BootInv, BootFields
  <2>3. PICK keys \in 1..MaxKeys :
          env' = [v \in Vars |->
                      IF v \notin new \/ (rows[v] = "same" /\ env[v].keys > 0) THEN env[v]
                      ELSE [keys |-> keys, from |-> "stored"]]
    BY <2>1
  <2>4. \A v \in Vars : env'[v] = IF v \notin new \/ (rows[v] = "same" /\ env[v].keys > 0)
                                  THEN env[v] ELSE [keys |-> keys, from |-> "stored"]
    BY <2>3
  <2>5. \A v \in new : v \in Vars /\ (env[v].keys > 0 => rows[v] = "same")
    BY DEF Keeps
  <2> HIDE DEF new
  <2>6. [keys |-> keys, from |-> "stored"] \in EnvRows
    BY WiringAssumption DEF EnvRows
  <2>7. env' \in [Vars -> EnvRows]
    BY <2>3, <2>6 DEF BootInv
  <2>8. \A v \in Vars : env'[v].from = "stored" => v \in new
    BY <1>1, <2>4 DEF BootInv
  <2>9. \A v \in boot.hand : v \in Vars /\ env'[v] = env[v]
    BY <1>1, <2>4, <2>5 DEF BootInv
  <2>10. QED  BY <1>1, <1>2, <1>4, <2>2, <2>7, <2>8, <2>9 DEF BootInv, NoFakes, Stages
<1>7. QED  BY <1>5, <1>6

\* Boot registers fresh adapters, and fakes only where they were asked for.
LEMMA BuildKeeps ==
  ASSUME BootInv, PoolInv, BuildGateway \/ BuildModelGateway
  PROVE  BootInv' /\ PoolInv'
<1>1. call = NoRequest /\ call' = NoRequest /\ env' = env /\ Fresh(wired)
  BY DEF BuildGateway, BuildModelGateway, PoolInv
<1>2. DOMAIN call' = CallFields /\ call'.asked = {} /\ call'.spent = {}
  BY <1>1 DEF NoRequest, CallFields
<1>3. ASSUME Fresh(wired') PROVE PoolInv'
  <2>1. \A i \in DOMAIN wired' : DOMAIN wired'[i] = AdapterFields /\ wired'[i].index = 1
    BY <1>3 DEF Fresh
  <2>2. QED  BY <1>1, <1>2, <1>3, <2>1 DEF PoolInv
<1>4. ASSUME DOMAIN boot' = BootFields, boot'.at \in {"gateway", "up", "failed"},
             boot'.hand = boot.hand, boot'.loaded = boot.loaded,
             boot'.mode = "real" => NoFakes(wired')
      PROVE  BootInv'
  BY <1>1, <1>4 DEF BootInv, Stages
<1>5. CASE BuildGateway
  <2>1. wired = <<>> /\ boot.at = "hydrated"
    BY <1>5 DEF BuildGateway, BootInv
  <2>2. /\ DOMAIN boot' = BootFields /\ boot'.at \in {"gateway", "failed"}
        /\ boot'.hand = boot.hand /\ boot'.loaded = boot.loaded /\ boot'.mode = Mode
    BY <1>5 DEF BuildGateway, BootInv, BootFields
  <2>3. CASE wired' = wired
    <3>1. NoFakes(wired') /\ Fresh(wired')
      BY <1>1, <2>1, <2>3 DEF NoFakes
    <3>2. QED  BY <1>3, <1>4, <2>2, <3>1
  <2>4. CASE wired' = Joined(Shipped, Registered(FALSE))
    <3> DEFINE r == Registered(FALSE)
    <3>1. Fresh(r) /\ \A i \in DOMAIN r : i[1] \in {2, 4}
      BY FileFresh
    <3>2. Fresh(Shipped) /\ (Mode = "real" => NoFakes(Shipped))
      BY ShippedIs
    <3>3. /\ DOMAIN wired' = DOMAIN Shipped \cup DOMAIN r
          /\ \A i \in DOMAIN Shipped : wired'[i] = Shipped[i]
      BY <2>4, BothAre
    <3> HIDE DEF r
    <3>4. Fresh(wired')
      BY <2>4, <3>1, <3>2, BothFresh DEF r
    <3>5. Mode = "real" => NoFakes(wired')
      BY <3>1, <3>2, <3>3 DEF NoFakes
    <3>6. QED  BY <1>3, <1>4, <2>2, <3>4, <3>5
  <2>5. QED  BY <1>5, <2>3, <2>4 DEF BuildGateway
<1>6. CASE BuildModelGateway
  <2>1. boot.at = "gateway" /\ (boot.mode = "real" => NoFakes(wired))
    BY <1>6 DEF BuildModelGateway, BootInv
  <2>2. /\ DOMAIN boot' = BootFields /\ boot'.at \in {"up", "failed"}
        /\ boot'.hand = boot.hand /\ boot'.loaded = boot.loaded /\ boot'.mode = boot.mode
    BY <1>6 DEF BuildModelGateway, BootInv, BootFields
  <2>3. CASE wired' = wired
    BY <1>1, <1>3, <1>4, <2>1, <2>2, <2>3
  <2>4. CASE wired' = Joined(wired, Joined(ShippedModels, Registered(TRUE)))
    <3> DEFINE r == Registered(TRUE)
               g == Joined(ShippedModels, r)
    <3>1. Fresh(r) /\ \A i \in DOMAIN r : i[1] \in {2, 4}
      BY FileFresh
    <3>2. Fresh(ShippedModels) /\ \A i \in DOMAIN ShippedModels : i[1] = 3
      BY ModelsFresh
    <3>3. DOMAIN g = DOMAIN ShippedModels \cup DOMAIN r
      BY BothAre
    <3> HIDE DEF r
    <3>4. Fresh(g)
      BY <3>1, <3>2, BothFresh
    <3>5. \A i \in DOMAIN g : i[1] # 1
      BY <3>1, <3>2, <3>3
    <3>6. wired' = Joined(wired, g)
      BY <2>4 DEF r
    <3> HIDE DEF g
    <3>7. /\ DOMAIN wired' = DOMAIN wired \cup DOMAIN g
          /\ \A i \in DOMAIN wired : wired'[i] = wired[i]
      BY <3>6, BothAre
    <3>8. Fresh(wired')
      BY <1>1, <3>4, <3>6, BothFresh
    <3>9. boot.mode = "real" => NoFakes(wired')
      BY <2>1, <3>5, <3>7 DEF NoFakes
    <3>10. QED  BY <1>3, <1>4, <2>2, <3>8, <3>9
  <2>5. QED  BY <1>6, <2>3, <2>4 DEF BuildModelGateway
<1>7. QED  BY <1>5, <1>6

\* An adapter is given up only with all its keys refused.
LEMMA FailureKeeps ==
  ASSUME BootInv, PoolInv, boot.at = "up", UNCHANGED <<boot, env, wired>>,
         NEW i \in DOMAIN wired, NEW failure, NEW gaveUp \in SUBSET {i}, NEW refused,
         call.refused \subseteq refused, Fails(i, failure, gaveUp, refused),
         gaveUp # {} => \A k \in 1..Keys(wired[i].var) : <<i, k>> \in refused
  PROVE  BootInv' /\ PoolInv'
<1> DEFINE c == [call EXCEPT !.refused = refused, !.spent = @ \cup gaveUp, !.asked = @ \cup {i}]
<1>1. /\ DOMAIN call = CallFields /\ call.asked \subseteq DOMAIN wired
      /\ call.spent \subseteq DOMAIN wired
  BY DEF PoolInv
<1>2. /\ DOMAIN c = CallFields /\ c.refused = refused
      /\ c.spent = call.spent \cup gaveUp /\ c.asked = call.asked \cup {i}
  BY <1>1 DEF CallFields
<1>3. call' = c \/ call' = [c EXCEPT !.cap = "none", !.answer = failure]
  BY DEF Fails
<1> HIDE DEF c
<1>4. /\ DOMAIN call' = CallFields /\ call'.refused = refused
      /\ call'.spent = call.spent \cup gaveUp /\ call'.asked = call.asked \cup {i}
  BY <1>2, <1>3 DEF CallFields
<1>5. QED  BY <1>1, <1>4, CallKept

\* A refusal moves the pool past the refused key, nothing else moves it.
LEMMA CallKeeps ==
  ASSUME BootInv, PoolInv, NEW i \in Left,
         AskKeyless(i) \/ AskOk(i) \/ AskRefused(i) \/ AskFailed(i)
  PROVE  BootInv' /\ PoolInv'
<1>1. call.cap # "none" /\ i \in DOMAIN wired
  BY DEF AskKeyless, AskOk, AskRefused, AskFailed, Current, Left, Waterfall
<1>2. boot.at = "up"
  BY <1>1 DEF PoolInv, NoRequest
<1>3. /\ DOMAIN call = CallFields /\ call.asked \subseteq DOMAIN wired
      /\ call.spent \subseteq DOMAIN wired
  BY DEF PoolInv
<1>4. CASE AskKeyless(i) \/ AskOk(i)
  <2>1. /\ DOMAIN call' = CallFields /\ call'.refused = call.refused
        /\ call'.spent = call.spent /\ call'.asked = call.asked \cup {i}
        /\ UNCHANGED <<boot, env, wired>>
    BY <1>3, <1>4 DEF AskKeyless, AskOk, CallFields
  <2>2. QED  BY <1>1, <1>2, <1>3, <2>1, CallKept
<1>5. CASE AskFailed(i)
  <2>1. PICK failure : Fails(i, failure, {}, call.refused)
    BY <1>5 DEF AskFailed
  <2>2. UNCHANGED <<boot, env, wired>>
    BY <1>5 DEF AskFailed
  <2>3. QED  BY <1>1, <1>2, <2>1, <2>2, FailureKeeps
<1>6. CASE AskRefused(i)
  <2> DEFINE refused == call.refused \cup {<<i, wired[i].index>>}
  <2>1. /\ boot' = boot /\ env' = env /\ wired[i].index \in Nat \ {0}
        /\ DOMAIN wired[i] = AdapterFields
        /\ \A k \in 1..(wired[i].index - 1) : <<i, k>> \in call.refused
    BY <1>1, <1>6 DEF AskRefused, PoolInv
  <2>2. PICK failure :
          IF HasNext(wired[i])
             THEN /\ wired' = [wired EXCEPT ![i].index = @ + 1]
                  /\ call' = [call EXCEPT !.refused = refused]
             ELSE Fails(i, failure, {i}, refused) /\ UNCHANGED wired
    BY <1>6 DEF AskRefused
  <2>3. \A k \in 1..wired[i].index : <<i, k>> \in refused
    BY <2>1
  <2>4. Keys(wired[i].var) \in Nat
    BY DEF Keys, BootInv, EnvRows
  <2>5. CASE HasNext(wired[i])
    <3>1. DOMAIN call' = CallFields /\ call'.refused = refused
          /\ call'.spent = call.spent /\ call'.asked = call.asked
      BY <1>3, <2>2, <2>5 DEF CallFields
    <3>2. wired' = [wired EXCEPT ![i] = [wired[i] EXCEPT !.index = @ + 1]]
      BY <2>2, <2>5
    <3> DEFINE a == [wired[i] EXCEPT !.index = @ + 1]
    <3>3. /\ DOMAIN a = AdapterFields /\ a.index = wired[i].index + 1
          /\ a.var = wired[i].var /\ a.id = wired[i].id
      BY <2>1 DEF AdapterFields
    <3> HIDE DEF a
    <3>4. /\ DOMAIN wired' = DOMAIN wired
          /\ \A j \in DOMAIN wired : wired'[j] = IF j = i THEN a ELSE wired[j]
      BY <1>1, <3>2 DEF a
    <3> HIDE DEF refused
    <3>5. call.refused \subseteq refused
      BY DEF refused
    <3>6. BootInv'
      BY <1>2, <2>1, <3>3, <3>4, BootKept
    <3>7. \A j \in DOMAIN wired :
            /\ DOMAIN wired'[j] = AdapterFields /\ wired'[j].index \in Nat \ {0}
            /\ wired'[j].var = wired[j].var
            /\ \A k \in 1..(wired'[j].index - 1) : <<j, k>> \in refused
      BY <2>1, <2>3, <3>3, <3>4, <3>5 DEF PoolInv
    <3>8. \A j \in call.spent : \A k \in 1..Keys(wired[j].var) : <<j, k>> \in refused
      BY <3>5 DEF PoolInv
    <3>9. \A var : Keys(var)' = Keys(var)
      BY <2>1 DEF Keys
    <3>10. QED  BY <1>2, <1>3, <2>1, <3>1, <3>4, <3>6, <3>7, <3>8, <3>9 DEF PoolInv
  <2>6. CASE ~HasNext(wired[i])
    <3>1. \A k \in 1..Keys(wired[i].var) : <<i, k>> \in refused
      BY <2>1, <2>3, <2>4, <2>6 DEF HasNext
    <3>2. Fails(i, failure, {i}, refused) /\ UNCHANGED <<boot, env, wired>>
      BY <2>1, <2>2, <2>6
    <3> HIDE DEF refused
    <3>3. call.refused \subseteq refused
      BY DEF refused
    <3>4. QED  BY <1>1, <1>2, <3>1, <3>2, <3>3, FailureKeeps
  <2>7. QED  BY <2>5, <2>6
<1>7. QED  BY <1>4, <1>5, <1>6

\* No key is wasted, what is set by hand stands, and no fake is asked where the
\* real providers were asked for, whatever the file and the pools.
THEOREM KeysStayUsed == WiringSpec => []KeysAreUsed
<1> DEFINE WInv == BootInv /\ PoolInv
<1>1. WiringInit => WInv
  BY WiringStarts
<1>2. WInv /\ [WiringNext]_wiringVars => WInv'
  <2> SUFFICES ASSUME BootInv, PoolInv, [WiringNext]_wiringVars PROVE WInv'
    OBVIOUS
  <2>1. CASE HydrateFails \/ Hydrate
    BY <2>1, HydrateKeeps
  <2>2. CASE BuildGateway \/ BuildModelGateway
    BY <2>2, BuildKeeps
  <2>3. ASSUME NEW cap, Begin(cap) PROVE WInv'
    <3>1. /\ DOMAIN call' = CallFields /\ call'.refused = call.refused
          /\ call'.spent = call.spent /\ call'.asked = {}
          /\ UNCHANGED <<boot, env, wired>> /\ boot.at = "up"
      BY <2>3 DEF Begin, CallFields, PoolInv
    <3>2. QED  BY <3>1, CallKept DEF PoolInv
  <2>4. CASE OutOfAdapters
    <3>1. /\ DOMAIN call' = CallFields /\ call'.refused = call.refused
          /\ call'.spent = call.spent /\ call'.asked = call.asked
          /\ UNCHANGED <<boot, env, wired>> /\ boot.at = "up"
      BY <2>4 DEF OutOfAdapters, Ends, CallFields, PoolInv, NoRequest
    <3>2. QED  BY <3>1, CallKept DEF PoolInv
  <2>5. ASSUME NEW i \in Left, AskKeyless(i) \/ AskOk(i) \/ AskRefused(i) \/ AskFailed(i)
        PROVE  WInv'
    BY <2>5, CallKeeps
  <2>6. CASE UNCHANGED wiringVars
    <3>1. \A var : Keys(var)' = Keys(var)
      BY <2>6 DEF wiringVars, Keys
    <3>2. QED  BY <2>6, <3>1 DEF wiringVars, BootInv, PoolInv, NoFakes, Fresh
  <2>7. QED  BY <2>1, <2>2, <2>3, <2>4, <2>5, <2>6 DEF WiringNext
<1>3. WInv => KeysAreUsed
  <2> SUFFICES ASSUME BootInv, PoolInv PROVE KeysAreUsed
    OBVIOUS
  <2>1. \A i \in DOMAIN wired : \A k \in 1..(wired[i].index - 1) : <<i, k>> \in call.refused
    BY DEF PoolInv
  <2>2. \A i \in call.spent : \A k \in 1..Keys(wired[i].var) : <<i, k>> \in call.refused
    BY DEF PoolInv
  <2>3. /\ \A v \in boot.hand : env[v].from = "explicit"
        /\ {v \in Vars : env[v].from = "stored"} \subseteq boot.loaded
    BY DEF BootInv
  <2>4. ASSUME boot.mode = "real", NEW i \in call.asked, i[1] = 1
        PROVE  wired[i].id \notin DemoIds
    BY <2>4 DEF BootInv, PoolInv, NoFakes
  <2>5. QED  BY <2>1, <2>2, <2>3, <2>4 DEF KeysAreUsed, DemoIds
<1>4. QED  BY <1>1, <1>2, <1>3, PTL DEF WiringSpec

=============================================================================
