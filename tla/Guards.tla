------------------------------- MODULE Guards -------------------------------
(***************************************************************************)
(* Two guards of the first API: the token bucket in front of every request *)
(* (lead_engine/ratelimit.py) and the gate in front of outreach with its   *)
(* do-not-contact list (lead_engine/policy.py). Requests run in threads.   *)
(* Time is counted in ticks: a tick adds Rate units, a request takes Cost. *)
(***************************************************************************)
EXTENDS Integers, FiniteSets, Sequences

CONSTANTS
    Threads,     \* threads of the API
    Rate, Cost,  \* a tick adds Rate units, a request takes Cost
    Second,      \* ticks of a second
    Burst,       \* requests a full bucket allows
    MaxClock,    \* bound: the clock
    MaxAsked,    \* bound: requests of a thread
    Editors,     \* requests that edit the list
    Spellings,   \* what is typed: a record of address and spelling
    Enabled      \* what the organization's limits may name: sets of channels

ASSUME GuardAssumption ==
    Rate \in Nat \ {0} /\ Cost \in Nat /\ Second \in Nat \ {0} /\ Burst \in Nat

VARIABLES
    clock,   \* ticks
    bucket,  \* units left and when they were counted
    asks,    \* each thread: the time it read, what it was told
    passed,  \* history: the times read by the requests let through
    list,    \* rows of suppression_entries
    edits,   \* each request on the list
    verdict  \* the last evaluation, with what was listed when it read

guardVars == <<clock, bucket, asks, passed, list, edits, verdict>>

Fresh == [pc |-> "idle", now |-> 0, retry |-> -1, n |-> 0]
NoEdit == [pc |-> "idle", op |-> "none", row |-> [channel |-> "none", value |-> "none"], told |-> "none"]
NoVerdict == [decision |-> "none", listed |-> FALSE, channel |-> "none", risk |-> "none"]

GuardsInit ==
    /\ clock = 0 /\ bucket = [units |-> Burst * Cost, at |-> 0]
    /\ asks = [t \in Threads |-> Fresh] /\ passed = <<>>
    /\ list = {} /\ edits = [e \in Editors |-> NoEdit] /\ verdict = NoVerdict

(***************************************************************************)
(* RateLimiter.allow: the clock is read before the lock is taken.          *)
(***************************************************************************)
TickClock ==
    /\ clock < MaxClock /\ clock' = clock + 1
    /\ UNCHANGED <<bucket, asks, passed, list, edits, verdict>>

ReadClock(t) ==
    /\ asks[t].pc = "idle" /\ asks[t].n < MaxAsked
    /\ asks' = [asks EXCEPT ![t].pc = "read", ![t].now = clock, ![t].n = @ + 1]
    /\ UNCHANGED <<clock, bucket, passed, list, edits, verdict>>

\* Mutant of Units: the bucket is filled beyond its brim.
UnitsUncapped(now) == bucket.units + (now - bucket.at) * Rate

\* The units of the bucket at the time read, earlier than the last count if
\* another thread took the lock in between.
Units(now) ==
    LET u == bucket.units + (now - bucket.at) * Rate
    IN  IF u > Burst * Cost THEN Burst * Cost ELSE u

\* Retry-After, in whole seconds.
RetryAfter(units) ==
    LET r == ((Cost - units) \div (Rate * Second)) + 1 IN IF r < 1 THEN 1 ELSE r

Allow(t) ==
    /\ asks[t].pc = "read"
    /\ LET u == Units(asks[t].now)  ok == u >= Cost
       IN  /\ bucket' = [units |-> IF ok THEN u - Cost ELSE u, at |-> asks[t].now]
           /\ asks' = [asks EXCEPT ![t].pc = "idle", ![t].retry =
                          IF ok THEN -1 ELSE RetryAfter(u)]
           /\ passed' = IF ok THEN Append(passed, asks[t].now) ELSE passed
    /\ UNCHANGED <<clock, list, edits, verdict>>

(***************************************************************************)
(* Suppression: what is typed is trimmed and lowered; add looks for the    *)
(* row, then updates or inserts under the unique index of the table.       *)
(***************************************************************************)
Normalize(channel, s) == [channel |-> channel, value |-> s.address]

BeginAdd(e, channel, s) ==
    /\ edits[e].pc = "idle"
    /\ LET row == Normalize(channel, s) IN
         edits' = [edits EXCEPT ![e] = [pc |-> IF row \in list THEN "update" ELSE "insert",
                                        op |-> "add", row |-> row, told |-> "none"]]
    /\ UNCHANGED <<clock, bucket, asks, passed, list, verdict>>

Inserted(row) == list \cup {row}

\* The update of a row removed in between changes nothing and says updated;
\* the insert of a row added in between fails on the index.
EndAdd(e) ==
    /\ edits[e].pc \in {"update", "insert"}
    /\ LET clash == edits[e].pc = "insert" /\ edits[e].row \in list IN
         /\ list' = IF edits[e].pc = "insert" THEN Inserted(edits[e].row) ELSE list
         /\ edits' = [edits EXCEPT ![e].pc = "done",
                        ![e].told = IF clash THEN "error" ELSE "ok"]
    /\ UNCHANGED <<clock, bucket, asks, passed, verdict>>

RemoveEntry(e, row) ==
    /\ edits[e].pc = "idle"
    /\ list' = list \ {row}
    /\ edits' = [edits EXCEPT ![e] = [pc |-> "done", op |-> "remove", row |-> row,
                                      told |-> IF row \in list THEN "ok" ELSE "404"]]
    /\ UNCHANGED <<clock, bucket, asks, passed, verdict>>

(***************************************************************************)
(* PolicyGate.evaluate: the list, the channels, the volume.                *)
(***************************************************************************)
\* Mutant of Suppressed: rows for all channels are not looked at.
SuppressedHere(channel, s) == Normalize(channel, s) \in list

Suppressed(channel, s) == \E c \in {channel, "all"} : Normalize(c, s) \in list

\* ChannelPolicy: the channels named in the limits, or "all" for any.
ChannelOk(channel, enabled) == enabled \cap {channel, "all"} # {}

RiskLevel(sends, baseline) ==
    IF baseline <= 0 THEN "UNKNOWN"
    ELSE IF sends > 10 * baseline THEN "HIGH"
    ELSE IF sends > 3 * baseline THEN "MEDIUM" ELSE "LOW"

Evaluate(channel, s, enabled, sends, baseline) ==
    /\ verdict' =
         [decision |-> IF Suppressed(channel, s) \/ ~ChannelOk(channel, enabled) THEN "BLOCK"
                       ELSE IF RiskLevel(sends, baseline) = "HIGH" THEN "REVIEW" ELSE "ALLOW",
          listed |-> \E row \in list : row.value = s.address /\ row.channel \in {channel, "all"},
          channel |-> channel, risk |-> RiskLevel(sends, baseline)]
    /\ UNCHANGED <<clock, bucket, asks, passed, list, edits>>

LimiterNext ==
    TickClock \/ \E t \in Threads : ReadClock(t) \/ Allow(t)

GateNext ==
    \/ \E e \in Editors :
          \/ \E c \in {"email", "all"}, s \in Spellings : BeginAdd(e, c, s)
          \/ EndAdd(e)
          \/ \E row \in list : RemoveEntry(e, row)
    \/ \E c \in {"email", "whatsapp", "all"}, s \in Spellings, enabled \in Enabled,
          volume \in {<<11, 0>>, <<0, 1>>, <<4, 1>>, <<11, 1>>} :
            Evaluate(c, s, enabled, volume[1], volume[2])

GuardsNext == LimiterNext \/ GateNext

GuardsSpec == GuardsInit /\ [][GuardsNext]_guardVars

(***************************************************************************)
(* Properties.                                                             *)
(***************************************************************************)
\* In no stretch of time are more requests let through than a full bucket and
\* what that time adds, even when threads take the lock in another order than
\* they read the clock. An address that was added and never removed is blocked
\* on the channel it was added for and on every one if it was added for all,
\* whatever else the list went through and whatever the limits enable. (That
\* two spellings are one address is what Spellings says, not a result.)
GuardsHold ==
    /\ \A i, j \in DOMAIN passed :
         passed[i] <= passed[j] =>
           Cardinality({k \in DOMAIN passed : passed[k] \in passed[i]..passed[j]}) * Cost
             <= Burst * Cost + (passed[j] - passed[i]) * Rate
    /\ \A e \in Editors :
         (/\ edits[e].pc = "done" /\ edits[e].op = "add" /\ edits[e].told = "ok"
          /\ \A f \in Editors : edits[f].op = "remove" => edits[f].row # edits[e].row) =>
            \A s \in Spellings, c \in {"email", "whatsapp"} :
               (s.address = edits[e].row.value /\ edits[e].row.channel \in {c, "all"})
                  => Suppressed(c, s)
    /\ verdict.listed => verdict.decision = "BLOCK"

\* Not so: an address that an add says is suppressed may not be on the list,
\* for it was removed between the add's select and its update.
AddedIsListed ==
    [][\A e \in Editors :
          (edits[e].pc # "done" /\ edits'[e].pc = "done" /\ edits'[e].op = "add"
             /\ edits'[e].told = "ok") => edits'[e].row \in list']_guardVars

=============================================================================
