---------------------------- MODULE OutboxRelay ----------------------------
(***************************************************************************)
(* Event delivery (infrastructure/events/relay.py): the polling relay that  *)
(* every worker ticks and the idempotent consumer it hands events to, over  *)
(* the tables events.outbox, events.event_consumptions (the inbox) and      *)
(* events.dead_letters.                                                     *)
(*                                                                          *)
(* Events are numbered in the order of created_at, and each is inserted by  *)
(* the transaction of the business write it describes.  Every step below is *)
(* a transaction of its own: the row locks of a tick's SELECT end before    *)
(* the first event is dispatched.                                           *)
(***************************************************************************)
EXTENDS Integers, FiniteSets

CONSTANTS
  Relays,       \* the processes that tick a relay
  NEvents,      \* number of events
  RelayBatch,   \* relay_batch_size
  ConsumerAttempts, \* the consumer's max_attempts
  MaxCrashes    \* bound: crashes

ASSUME RelayAssumption ==
  /\ NEvents \in Nat
  /\ RelayBatch \in Nat \ {0} /\ ConsumerAttempts \in Nat \ {0}
  /\ MaxCrashes \in Nat
  /\ IsFiniteSet(Relays)

EventIds == 1 .. NEvents
NoEvent == 0

VARIABLES
  emitted,   \* the events in the outbox
  published, \* those whose published_at is set
  attempts,  \* publish_attempts
  inbox,     \* event_consumptions.result of the consumer, or "none"
  letters,   \* dead_letters rows per event
  at,        \* where each relay is in its tick
  batch,     \* the rows of the tick it has not dispatched yet
  event,     \* the event it is dispatching
  handled,   \* runs of the consumer's handler that returned
  failed,    \* runs of it that raised
  crashes

tables == <<emitted, published, attempts, inbox, letters>>
vars == <<tables, at, batch, event, handled, failed, crashes>>

TypeOK ==
  /\ emitted \in SUBSET EventIds
  /\ published \in SUBSET EventIds
  /\ attempts \in [EventIds -> Nat]
  /\ inbox \in [EventIds -> {"none", "ok", "dead-lettered"}]
  /\ letters \in [EventIds -> Nat]
  /\ at \in [Relays -> {"fetch", "count", "check", "handle", "raised", "record", "mark"}]
  /\ batch \in [Relays -> SUBSET EventIds]
  /\ event \in [Relays -> EventIds \union {NoEvent}]
  /\ handled \in [EventIds -> Nat]
  /\ failed \in [EventIds -> Nat]
  /\ crashes \in Nat

Init ==
  /\ emitted = {}
  /\ published = {}
  /\ attempts = [e \in EventIds |-> 0]
  /\ inbox = [e \in EventIds |-> "none"]
  /\ letters = [e \in EventIds |-> 0]
  /\ at = [w \in Relays |-> "fetch"]
  /\ batch = [w \in Relays |-> {}]
  /\ event = [w \in Relays |-> NoEvent]
  /\ handled = [e \in EventIds |-> 0]
  /\ failed = [e \in EventIds |-> 0]
  /\ crashes = 0

-----------------------------------------------------------------------------
\* The business transaction commits.
PutEvent(e) ==
  /\ e \notin emitted
  /\ emitted' = emitted \union {e}
  /\ UNCHANGED <<published, attempts, inbox, letters, at, batch, event, handled, failed, crashes>>

\* Mutant: exhausted events are not fetched any more.
UnpublishedWithAttempts == {e \in emitted \ published : attempts[e] < ConsumerAttempts}

Unpublished == emitted \ published
Goto(w, l) == at' = [at EXCEPT ![w] = l]

\* The event is done with: the next one of the batch, or the next tick.
NextInBatch(w) == Goto(w, IF batch[w] = {} THEN "fetch" ELSE "count")

\* The oldest pending events; what another relay is dispatching is among them.
Oldest(S, n) == {e \in S : Cardinality({d \in S : d < e}) < n}

Fetch(w) ==
  /\ at[w] = "fetch"
  /\ Unpublished # {}
  /\ batch' = [batch EXCEPT ![w] = Oldest(Unpublished, RelayBatch)]
  /\ Goto(w, "count")
  /\ UNCHANGED <<tables, event, handled, failed, crashes>>

\* A tick on an empty outbox returns.
FetchNothing(w) ==
  /\ at[w] = "fetch"
  /\ Unpublished = {}
  /\ UNCHANGED vars

\* The attempt is counted before the event is dispatched.
Count(w) ==
  /\ at[w] = "count"
  /\ \E e \in batch[w] :
       /\ \A d \in batch[w] : e <= d
       /\ event' = [event EXCEPT ![w] = e]
       /\ batch' = [batch EXCEPT ![w] = @ \ {e}]
       /\ attempts' = [attempts EXCEPT ![e] = @ + 1]
  /\ Goto(w, "check")
  /\ UNCHANGED <<emitted, published, inbox, letters, handled, failed, crashes>>

\* IdempotentConsumer: an event with an inbox row is skipped.
Receive(w) ==
  /\ at[w] = "check"
  /\ Goto(w, IF inbox[event[w]] = "none" THEN "handle" ELSE "mark")
  /\ UNCHANGED <<tables, batch, event, handled, failed, crashes>>

HandlerReturns(w) ==
  /\ at[w] = "handle"
  /\ handled' = [handled EXCEPT ![event[w]] = @ + 1]
  /\ Goto(w, "record")
  /\ UNCHANGED <<tables, batch, event, failed, crashes>>

HandlerRaises(w) ==
  /\ at[w] = "handle"
  /\ failed' = [failed EXCEPT ![event[w]] = @ + 1]
  /\ Goto(w, "raised")
  /\ UNCHANGED <<tables, batch, event, handled, crashes>>

\* The inbox row of a handled event; where there is one by now the INSERT
\* raises, and the event stays pending.
Record(w) ==
  /\ at[w] = "record"
  /\ \/ /\ inbox[event[w]] = "none"
        /\ inbox' = [inbox EXCEPT ![event[w]] = "ok"]
        /\ Goto(w, "mark")
     \/ /\ inbox[event[w]] # "none"
        /\ NextInBatch(w)
        /\ UNCHANGED inbox
  /\ UNCHANGED <<emitted, published, attempts, letters, batch, event, handled, failed, crashes>>

\* Mutant: a dead letter without its inbox row.
OnFailureUnrecorded(w) ==
  LET spent == attempts[event[w]] >= ConsumerAttempts
  IN /\ at[w] = "raised"
     /\ inbox' = [inbox EXCEPT ![event[w]] = "none"]
     /\ letters' = IF spent THEN [letters EXCEPT ![event[w]] = @ + 1] ELSE letters
     /\ NextInBatch(w)
     /\ UNCHANGED <<emitted, published, attempts, batch, event, handled, failed, crashes>>

\* Mutant: the exception is not raised again.
OnFailureSwallowed(w) ==
  LET spent == attempts[event[w]] >= ConsumerAttempts
  IN /\ at[w] = "raised"
     /\ inbox' = [inbox EXCEPT ![event[w]] = IF spent THEN "dead-lettered" ELSE "none"]
     /\ letters' = IF spent THEN [letters EXCEPT ![event[w]] = @ + 1] ELSE letters
     /\ Goto(w, "mark")
     /\ UNCHANGED <<emitted, published, attempts, batch, event, handled, failed, crashes>>

\* Mutant: one attempt early.
OnFailureEarly(w) ==
  LET spent == attempts[event[w]] + 1 >= ConsumerAttempts
  IN /\ at[w] = "raised"
     /\ inbox' = [inbox EXCEPT ![event[w]] = IF spent THEN "dead-lettered" ELSE "none"]
     /\ letters' = IF spent THEN [letters EXCEPT ![event[w]] = @ + 1] ELSE letters
     /\ NextInBatch(w)
     /\ UNCHANGED <<emitted, published, attempts, batch, event, handled, failed, crashes>>

\* _on_failure deletes whatever inbox row the event has, and parks the event
\* once its attempts are used up.
OnFailure(w) ==
  LET spent == attempts[event[w]] >= ConsumerAttempts
  IN /\ at[w] = "raised"
     /\ inbox' = [inbox EXCEPT ![event[w]] = IF spent THEN "dead-lettered" ELSE "none"]
     /\ letters' = IF spent THEN [letters EXCEPT ![event[w]] = @ + 1] ELSE letters
     /\ NextInBatch(w)
     /\ UNCHANGED <<emitted, published, attempts, batch, event, handled, failed, crashes>>

Mark(w) ==
  /\ at[w] = "mark"
  /\ published' = published \union {event[w]}
  /\ NextInBatch(w)
  /\ UNCHANGED <<emitted, attempts, inbox, letters, batch, event, handled, failed, crashes>>

\* The process dies and is started again.
Crash(w) ==
  /\ at[w] # "fetch"
  /\ crashes < MaxCrashes
  /\ crashes' = crashes + 1
  /\ batch' = [batch EXCEPT ![w] = {}]
  /\ event' = [event EXCEPT ![w] = NoEvent]
  /\ Goto(w, "fetch")
  /\ UNCHANGED <<tables, handled, failed>>

-----------------------------------------------------------------------------
RelayTick(w) ==
  \/ Fetch(w) \/ FetchNothing(w) \/ Count(w) \/ Receive(w)
  \/ HandlerReturns(w) \/ HandlerRaises(w)
  \/ Record(w) \/ OnFailure(w) \/ Mark(w)

Next ==
  \/ \E e \in EventIds : PutEvent(e)
  \/ \E w \in Relays : RelayTick(w) \/ Crash(w)

Spec == Init /\ [][Next]_vars

-----------------------------------------------------------------------------
(* Properties.                                                               *)

\* At-least-once: an event leaves the outbox only after its handler ran to the
\* end or a dead letter was written, whatever crashed or overlapped.
NoEventLost ==
  \A e \in published : handled[e] > 0 \/ letters[e] > 0

\* A dead letter is written only for an event whose handler did raise, after
\* its attempts were used up, and with the outbox still holding the event.
DeadLettersEarned ==
  \A e \in EventIds : letters[e] > 0 =>
    e \in emitted /\ failed[e] > 0 /\ attempts[e] >= ConsumerAttempts

\* A parked event stays parked: no relay that failed with it earlier or later
\* takes its inbox row away and has it dispatched again.
ParkedStays ==
  [][\A e \in EventIds : inbox[e] = "dead-lettered" => inbox'[e] = "dead-lettered"]_vars

\* Poison events stop: each relay that was dispatching the event when it was
\* parked may add a dead letter of its own, and nobody else ever does.
PoisonStops == \A e \in EventIds : letters[e] <= Cardinality(Relays)

\* Every event is delivered or parked, and leaves the outbox.
EveryEventSettles == \A e \in EventIds : e \in emitted ~> e \in published

=============================================================================
