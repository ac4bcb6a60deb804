---------------------------- MODULE LegacyEvents ----------------------------
(***************************************************************************)
(* The event backbone of lead_engine: emit appends to the outbox, and any  *)
(* number of dispatchers (cron, the worker tick, the event worker) deliver *)
(* pending events to webhooks and to the notification list.  A consumer's  *)
(* row in event_consumptions is written after its side effect.  The second *)
(* half is the read path over audit_logs: keyset pages of one tenant.      *)
(***************************************************************************)
EXTENDS Integers, FiniteSets, Sequences

CONSTANTS
    Events,        \* outbox events, numbered by created_at
    Hooks,         \* webhooks of the organisation
    Dispatchers,   \* processes that call dispatch_pending
    MaxRounds,     \* MAX_ATTEMPTS rounds before an event is dead
    Tries,         \* posts per round
    Batch,         \* LIMIT of dispatch_pending
    MaxLost,       \* bound: crashes and answers that got lost
    MaxSealed,     \* bound: pairs of an event and a webhook whose secret is unreadable
    Tenants,       \* organisations that write and read audit rows
    MaxAudit       \* bound: audit rows

ASSUME EventsAssumption ==
    /\ Events \subseteq Nat /\ "notifications" \notin Hooks /\ MaxRounds \in Nat \ {0}
    /\ Tries \in Nat \ {0} /\ Batch \in Nat \ {0}

VARIABLES
    outbox,     \* rows of outbox
    hooks,      \* active webhooks
    consumed,   \* event_consumptions: pairs <<event, consumer>>
    sent,       \* side effects that happened, per event and consumer (0 .. 2)
    overlap,    \* events two dispatchers have held at once
    sealed,     \* pairs <<event, webhook>> passed over: no dispatcher could read the secret
    disp,       \* what a dispatcher holds
    lost,
    audit, page \* audit_logs as the sequence of their tenants; one reader

eventVars == <<outbox, hooks, consumed, sent, overlap, sealed, disp, lost>>
auditVars == <<audit, page>>

Consumers == Hooks \cup {"notifications"}
Resting == [pc |-> "rest", todo |-> {}, event |-> -1, left |-> {}, at |-> "none", try |-> 0]
PageSize == 1

EventsInit ==
    /\ outbox = [e \in Events |-> [status |-> "none", attempts |-> 0]]
    /\ hooks = Hooks /\ consumed = {} /\ overlap = {} /\ sealed = {} /\ lost = 0
    /\ sent = [e \in Events |-> [c \in Consumers |-> 0]]
    /\ disp = [d \in Dispatchers |-> Resting]
    /\ audit = <<>>
    /\ page = [org |-> "none", top |-> 0, before |-> 0, seen |-> {}, open |-> FALSE]

\* emit: a second call with the same event id changes nothing.
Emit(e) ==
    /\ outbox' = [outbox EXCEPT ![e].status = IF @ = "none" THEN "pending" ELSE @]
    /\ UNCHANGED <<hooks, consumed, sent, overlap, disp, sealed, lost>>

DeleteHook(h) ==
    /\ hooks' = hooks \ {h}
    /\ UNCHANGED <<outbox, consumed, sent, overlap, disp, sealed, lost>>

\* Mutant of Pending: a dead event is taken up again.
PendingOrDead == {e \in Events : outbox[e].status \in {"pending", "dead"}}

Pending == {e \in Events : outbox[e].status = "pending"}

SelectPending(d) ==
    /\ disp[d].pc = "rest" /\ Pending # {}
    /\ LET batch == {e \in Pending : Cardinality({f \in Pending : f < e}) < Batch} IN
         /\ disp' = [disp EXCEPT ![d].pc = "next", ![d].todo = batch]
         /\ overlap' = overlap \cup (batch \cap
              UNION {disp[o].todo \cup {disp[o].event} : o \in Dispatchers \ {d}})
    /\ UNCHANGED <<outbox, hooks, consumed, sent, sealed, lost>>

\* The events of a batch in order, whatever has become of them since.
NextEvent(d) ==
    /\ disp[d].pc = "next"
    /\ disp' = [disp EXCEPT ![d] =
         IF @.todo = {} THEN Resting
         ELSE LET e == CHOOSE x \in @.todo : \A y \in @.todo : x <= y IN
              [Resting EXCEPT !.todo = disp[d].todo \ {e}, !.pc = "check",
                              !.event = e, !.left = hooks]]
    /\ UNCHANGED <<outbox, hooks, consumed, sent, overlap, sealed, lost>>

\* Webhooks first, then the notification; a consumed pair is skipped, and so is a
\* webhook whose secret this process cannot decrypt.
Check(d) ==
    /\ disp[d].pc = "check"
    /\ LET m == disp[d] IN
         \/ /\ m.left = {} /\ m.at = "notifications"
            /\ disp' = [disp EXCEPT ![d].pc = "dispatched"]
         \/ \E c \in IF m.left = {} THEN {"notifications"} \ {m.at} ELSE m.left :
              disp' = [disp EXCEPT ![d].at = c, ![d].left = @ \ {c}, ![d].try = 0,
                 ![d].pc = IF <<m.event, c>> \in consumed THEN "check" ELSE "send"]
    /\ UNCHANGED <<outbox, hooks, consumed, sent, overlap, sealed, lost>>

SkipSealed(d) ==
    /\ disp[d].pc = "check" /\ Cardinality(sealed) < MaxSealed
    /\ \E h \in disp[d].left :
         /\ disp' = [disp EXCEPT ![d].at = h, ![d].left = @ \ {h}]
         /\ sealed' = sealed \cup {<<disp[d].event, h>>}
    /\ UNCHANGED <<outbox, hooks, consumed, sent, overlap, lost>>

Sent(d) == [sent EXCEPT ![disp[d].event][disp[d].at] = IF @ < 2 THEN @ + 1 ELSE @]

Send(d) ==
    /\ disp[d].pc = "send" /\ sent' = Sent(d)
    /\ disp' = [disp EXCEPT ![d].pc = "record"]
    /\ UNCHANGED <<outbox, hooks, consumed, overlap, sealed, lost>>

\* A post fails, and the last of a round raises; its receiver may have had it.
PostFails(d) ==
    /\ disp[d].pc = "send" /\ disp[d].at \in Hooks
    /\ \/ UNCHANGED <<sent, lost>>
       \/ lost < MaxLost /\ lost' = lost + 1 /\ sent' = Sent(d)
    /\ disp' = [disp EXCEPT ![d].try = @ + 1,
                  ![d].pc = IF disp[d].try + 1 < Tries THEN "send" ELSE "retry"]
    /\ UNCHANGED <<outbox, hooks, consumed, overlap, sealed>>

RecordConsumption(d) ==
    /\ disp[d].pc = "record"
    /\ consumed' = consumed \cup {<<disp[d].event, disp[d].at>>}
    /\ disp' = [disp EXCEPT ![d].pc = "check"]
    /\ UNCHANGED <<outbox, hooks, sent, overlap, sealed, lost>>

\* _mark: by event id alone; the dead letter is a statement of its own.
MarkDispatched(d) ==
    /\ disp[d].pc = "dispatched"
    /\ outbox' = [outbox EXCEPT ![disp[d].event].status = "dispatched"]
    /\ disp' = [disp EXCEPT ![d].pc = "next", ![d].event = -1]
    /\ UNCHANGED <<hooks, consumed, sent, overlap, sealed, lost>>

\* Mutant of MarkRetry: a failed round is not counted.
MarkRetryUncounted(d) ==
    /\ disp[d].pc = "retry"
    /\ disp' = [disp EXCEPT ![d].pc = "retried"]
    /\ UNCHANGED <<outbox, hooks, consumed, sent, overlap, sealed, lost>>

MarkRetry(d) ==
    /\ disp[d].pc = "retry"
    /\ outbox' = [outbox EXCEPT ![disp[d].event].attempts = @ + 1]
    /\ disp' = [disp EXCEPT ![d].pc = "retried"]
    /\ UNCHANGED <<hooks, consumed, sent, overlap, sealed, lost>>

MarkDead(d) ==
    /\ disp[d].pc = "retried"
    /\ outbox' = [outbox EXCEPT ![disp[d].event].status =
         IF outbox[disp[d].event].attempts >= MaxRounds THEN "dead" ELSE @]
    /\ disp' = [disp EXCEPT ![d].pc = "next", ![d].event = -1]
    /\ UNCHANGED <<hooks, consumed, sent, overlap, sealed, lost>>

DispatcherDies(d) ==
    /\ disp[d].pc # "rest" /\ lost < MaxLost /\ lost' = lost + 1
    /\ disp' = [disp EXCEPT ![d] = Resting]
    /\ UNCHANGED <<outbox, hooks, consumed, sent, overlap, sealed>>

Dispatch(d) ==
    \/ SelectPending(d) \/ NextEvent(d) \/ Check(d) \/ SkipSealed(d) \/ Send(d) \/ PostFails(d)
    \/ RecordConsumption(d) \/ MarkDispatched(d) \/ MarkRetry(d) \/ MarkDead(d)

(***************************************************************************)
(* AuditTrailStore: rows are appended by every tenant and by none; a page  *)
(* is one SELECT below a cursor, newest first.                             *)
(***************************************************************************)

NoOrg == "__no_org__"

\* Mutant of Visible: the rule of the activity feed.
VisibleOrUnowned(org, i) == audit[i] = org \/ audit[i] = "none"

Visible(org, i) ==
    CASE org = NoOrg  -> FALSE
      [] org = "none" -> audit[i] \in {"none", NoOrg}
      [] OTHER        -> audit[i] = org

WriteAudit(org) ==
    /\ Len(audit) < MaxAudit
    /\ audit' = Append(audit, org) /\ UNCHANGED page

OpenPages(org) ==
    /\ ~page.open
    /\ page' = [org |-> org, top |-> Len(audit), before |-> Len(audit) + 1,
                seen |-> {}, open |-> TRUE]
    /\ UNCHANGED audit

Below == {i \in 1 .. Len(audit) : i < page.before /\ Visible(page.org, i)}
NextPage ==
    /\ page.open
    /\ LET rows == {i \in Below : Cardinality({k \in Below : k > i}) < PageSize} IN
         page' = IF rows = {} THEN [page EXCEPT !.open = FALSE]
                 ELSE [page EXCEPT !.seen = @ \cup rows,
                         !.before = CHOOSE i \in rows : \A k \in rows : i <= k]
    /\ UNCHANGED audit

EventsNext ==
    /\ \/ \E e \in Events : Emit(e)
       \/ \E h \in Hooks : DeleteHook(h)
       \/ \E d \in Dispatchers : Dispatch(d) \/ DispatcherDies(d)
    /\ UNCHANGED auditVars

AuditNext ==
    /\ \/ \E org \in Tenants \cup {"none", NoOrg} : WriteAudit(org) \/ OpenPages(org)
       \/ NextPage
    /\ UNCHANGED eventVars

EventsSpec == EventsInit /\ [][EventsNext \/ AuditNext]_<<eventVars, auditVars>>

(***************************************************************************)
(* Properties.                                                             *)
(***************************************************************************)

Due(e) == {h \in hooks : <<e, h>> \notin sealed}

\* At least once: an event marked dispatched has reached every webhook that is
\* still registered and whose secret could be read, and the notification list
\* (events.py:9-10).  A webhook passed over for its secret never hears of it
\* (events.py:115-118).
DispatchedIsDelivered ==
    \A e \in Events : outbox[e].status = "dispatched" =>
      \A c \in Due(e) \cup {"notifications"} : sent[e][c] > 0

\* A receiver sees an event twice only after a crash or a lost answer, or when
\* two dispatchers held the event at once (events.py:67-79).
DuplicatesAreExplained ==
    \A e \in Events, c \in Consumers : sent[e][c] > 1 => lost > 0 \/ e \in overlap

\* A settled event stays settled the way it was, unless dispatchers overlapped
\* on it (events.py:50-64 marks by id alone).
SettledStays ==
    [][\A e \in Events : outbox[e].status \in {"dispatched", "dead"} /\ e \notin overlap
         => outbox'[e].status = outbox[e].status]_<<eventVars, auditVars>>

\* Every event is delivered or given up, however often its webhooks fail: a bad
\* event at the head of the batch does not block those behind it.
EventsSettle ==
    \A e \in Events : (outbox[e].status = "pending") ~> (outbox[e].status # "pending")

\* A reader sees rows of its own tenant alone, and after the last page every one
\* that was there at the first, whatever is written meanwhile (store.py:160-259).
AuditPagesComplete ==
    /\ \A i \in page.seen :
         audit[i] = page.org \/ (page.org = "none" /\ audit[i] = NoOrg)
    /\ ~page.open /\ page.org # NoOrg =>
         {i \in 1 .. page.top : audit[i] = page.org} \subseteq page.seen

\* What is promised of an event and of a page of the audit log, together.
EventsAreKept ==
    /\ [](DispatchedIsDelivered /\ DuplicatesAreExplained /\ AuditPagesComplete)
    /\ SettledStays

=============================================================================
