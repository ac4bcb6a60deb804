------------------------------- MODULE MCLive -------------------------------
(***************************************************************************)
(* What must happen in the end in the job queue and in the event outbox of *)
(* lead_engine, and in the outbox of the v6 runtime, under the fairness of *)
(* their schedulers.  A behaviour moves one of the three, the part picked  *)
(* at the start.  No symmetry.                                             *)
(***************************************************************************)
EXTENDS LegacyQueue, LegacyEvents, OutboxRelay

VARIABLE part
liveVars == <<part, queueVars, eventVars, auditVars, vars>>

LiveInit == QueueInit /\ EventsInit /\ Init /\ part \in {"queue", "events", "relay"}

LiveNext ==
    /\ UNCHANGED part
    /\ \/ part = "queue" /\ QueueNext /\ UNCHANGED <<eventVars, auditVars, vars>>
       \/ part = "events" /\ EventsNext /\ UNCHANGED <<queueVars, vars>>
       \/ part = "relay" /\ Next /\ UNCHANGED <<queueVars, eventVars, auditVars>>

\* The worker goes on, leases and backoffs run out, and a create request that
\* is not killed goes on to its enqueue.
QueueFairness ==
    /\ \A w \in Workers : WF_queueVars(part = "queue" /\ WorkerSteps(w))
    /\ \A j \in Jobs : /\ WF_queueVars(part = "queue" /\ LeaseLapses(j))
                       /\ WF_queueVars(part = "queue" /\ DueComes(j))
                       /\ WF_queueVars(part = "queue" /\ Enqueue(j))

\* Every dispatcher thread goes on with its rounds.
EventsFairness == \A d \in Dispatchers : WF_eventVars(part = "events" /\ Dispatch(d))

\* Workers tick their relays, and a tick goes on.
RelayFairness == \A w \in Relays : WF_vars(part = "relay" /\ RelayTick(w))

LiveSpec ==
    LiveInit /\ [][LiveNext]_liveVars /\ QueueFairness /\ EventsFairness /\ RelayFairness
=============================================================================
