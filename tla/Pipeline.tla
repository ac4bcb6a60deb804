------------------------------ MODULE Pipeline ------------------------------
(***************************************************************************)
(* The acquisition pipeline (application/handlers/pipeline.py) running on   *)
(* the job runtime of Leasing: every runtime call of the handler is the     *)
(* Leasing action of that name, and between two of them the handler commits *)
(* a unit of work (one business transaction) that no lease protects.        *)
(*                                                                          *)
(* A company stands for the url it was found under.  The provider calls     *)
(* inside a unit of work are in EffectLedger.                               *)
(***************************************************************************)
EXTENDS Leasing, Sequences, SequencesExt

CONSTANTS
  Companies,
  Results,      \* what each job's queries find: [Jobs -> Seq(Seq(Companies))]
  Unreached,    \* companies without a contact row
  Rejected,     \* companies decide() rejects
  MaxCrashes    \* bound: worker crashes

ASSUME PipelineAssumption ==
  /\ Results \in [Jobs -> Seq(Seq(Companies))]
  /\ Unreached \subseteq Companies
  /\ Rejected \subseteq Companies
  /\ MaxCrashes \in Nat

VARIABLES
  at,        \* the handler's next step, per worker
  ck,        \* the checkpoint dict in the handler's memory, per worker
  saved,     \* runtime.jobs.checkpoint, per job
  raw,       \* raw_discovery_results: urls per job
  visited,   \* visited_sources: the job that first visited a url, or NoJob
  done,      \* enrichment, verification and scoring records of a job's run
  leads,     \* lead_projections: rows per campaign (= job) and company
  decisions, \* the discovery decisions recorded for the campaign
  campaign,  \* acquisition.campaigns.state
  crashes

pipelineVars == <<at, ck, saved, raw, visited, done, leads, decisions, campaign, crashes>>
allVars == <<vars, pipelineVars>>

Stages == <<"PLANNING", "DISCOVERING", "ENRICHING", "VERIFYING", "SCORING", "QUALIFYING">>
Rank(p) == CHOOSE i \in DOMAIN Stages : Stages[i] = p
NextStage(p) == Stages[Rank(p) + 1]
Recorded == {"ENRICHING", "VERIFYING", "SCORING"}
CancelChecked == {"DISCOVERING", "ENRICHING", "VERIFYING"}

NewCheckpoint == [phase |-> "PLANNING", index |-> 0, companies |-> <<>>]
NoLeads == [c \in Companies |-> 0]

PipelineTypeOK ==
  /\ TypeOK
  /\ at \in [Workers -> {"idle", "phase", "policy", "saveplan", "check", "apply", "unit",
                         "beat", "save", "nextphase", "qualify", "publish", "ready",
                         "partial", "raise"}]
  /\ \A w \in Workers : ck[w].phase \in Range(Stages) /\ ck[w].index \in Nat
  /\ \A j \in Jobs : saved[j].phase \in Range(Stages) /\ saved[j].index \in Nat
  /\ raw \in [Jobs -> SUBSET Companies]
  /\ visited \in [Companies -> Jobs \union {NoJob}]
  /\ done \in [Jobs -> SUBSET (Recorded \X Companies)]
  /\ leads \in [Jobs -> [Companies -> Nat]]
  /\ decisions \in [Jobs -> SUBSET {"refused", "allowed"}]
  /\ campaign \in [Jobs -> {"DRAFT", "READY_FOR_REVIEW"}]
  /\ crashes \in 0 .. MaxCrashes

PipelineInit ==
  /\ Init
  /\ at = [w \in Workers |-> "idle"]
  /\ ck = [w \in Workers |-> NewCheckpoint]
  /\ saved = [j \in Jobs |-> NewCheckpoint]
  /\ raw = [j \in Jobs |-> {}]
  /\ visited = [c \in Companies |-> NoJob]
  /\ done = [j \in Jobs |-> {}]
  /\ leads = [j \in Jobs |-> NoLeads]
  /\ decisions = [j \in Jobs |-> {}]
  /\ campaign = [j \in Jobs |-> "DRAFT"]
  /\ crashes = 0

-----------------------------------------------------------------------------
(* Control.                                                                  *)

Job(w) == ctx[w].job

\* Units of a stage's loop: one per query, then one per company.
Units(j, c) == IF c.phase = "DISCOVERING" THEN Len(Results[j]) ELSE Len(c.companies)

\* What the handler returns when it runs off its last phase.
Outcome(c) == IF c.companies = <<>> THEN "partial" ELSE "publish"

\* Where a handler with checkpoint c goes on.
Resume(j, c) ==
  CASE c.phase = "PLANNING" -> "phase"
    [] c.phase = "QUALIFYING" -> IF c.index >= Units(j, c) THEN Outcome(c) ELSE "qualify"
    [] OTHER -> IF c.index >= Units(j, c) THEN "nextphase"
                ELSE IF c.phase \in CancelChecked THEN "check" ELSE "unit"

Goto(w, l) == at' = [at EXCEPT ![w] = l]
Running(w, l) == pc[w] = "handle" /\ at[w] = l
Stop(w) == Goto(w, "idle") /\ ck' = [ck EXCEPT ![w] = NewCheckpoint]
Business == <<raw, visited, done, leads, decisions, campaign>>

\* The steps of a worker's cycle that run no handler code.
Maintenance(w) ==
  ReclaimRead(w) \/ ReclaimWrite(w) \/ ClaimNothing(w) \/ Restart(w)

\* Leasing steps that run no handler code.
Runtime ==
  /\ \/ \E j \in Jobs : CreateJob(j) \/ RequestCancel(j) \/ Elapse(j)
     \/ \E w \in Workers : Maintenance(w)
  /\ UNCHANGED pipelineVars

\* No job of this handler parks (ManusStage is where it would): nothing to wake.
Wake(w) == WakeParked(w) /\ UNCHANGED pipelineVars

Claim(w) ==
  \E j \in Jobs :
    /\ ClaimNext(w, j)
    /\ ck' = [ck EXCEPT ![w] = saved[j]]
    /\ Goto(w, Resume(j, saved[j]))
    /\ UNCHANGED <<saved, Business, crashes>>

-----------------------------------------------------------------------------
(* _plan                                                                     *)

EnterPlanning(w) ==
  /\ Running(w, "phase")
  /\ SetPhase(w, "PLANNING")
  /\ Goto(w, "policy")
  /\ UNCHANGED <<ck, saved, Business, crashes>>

\* Mutant: a refusal is recorded and not raised.
PlanPolicyUnraised(w) ==
  /\ Running(w, "policy")
  /\ \E d \in {"refused", "allowed"} :
       /\ decisions' = [decisions EXCEPT ![Job(w)] = @ \union {d}]
       /\ Goto(w, IF Results[Job(w)] = <<>> THEN "raise" ELSE "saveplan")
  /\ UNCHANGED <<vars, ck, saved, raw, visited, done, leads, campaign, crashes>>

\* The decision is recorded and committed whatever it says; a refusal raises
\* after the commit, and so does a plan without queries.
PlanPolicy(w) ==
  /\ Running(w, "policy")
  /\ \E d \in {"refused", "allowed"} :
       /\ decisions' = [decisions EXCEPT ![Job(w)] = @ \union {d}]
       /\ Goto(w, IF d = "refused" \/ Results[Job(w)] = <<>> THEN "raise" ELSE "saveplan")
  /\ UNCHANGED <<vars, ck, saved, raw, visited, done, leads, campaign, crashes>>

\* save_checkpoint with the handler's dict c.
SaveAs(w, c, s) ==
  /\ SaveCheckpoint(w, s)
  /\ saved' = [saved EXCEPT ![Job(w)] = c]
  /\ ck' = [ck EXCEPT ![w] = c]
  /\ Goto(w, Resume(Job(w), c))
  /\ UNCHANGED <<Business, crashes>>

SavePlan(w) ==
  /\ Running(w, "saveplan")
  /\ SaveAs(w, [NewCheckpoint EXCEPT !.phase = "DISCOVERING"], "DISCOVERING")

-----------------------------------------------------------------------------
(* The loops of _discover, _enrich, _verify and _score.                      *)

CheckCancel(w) ==
  /\ Running(w, "check")
  /\ Goto(w, IF cancelRequested[Job(w)] THEN "apply" ELSE "unit")
  /\ UNCHANGED <<vars, ck, saved, Business, crashes>>

\* A cancellation that could not be applied ends the loop all the same, and a
\* cancelled handler runs on to the end of __call__.
Apply(w) ==
  /\ Running(w, "apply")
  /\ \/ ApplyCancellation(w)
     \/ ~CancelApplies(w) /\ UNCHANGED vars
  /\ Goto(w, Outcome(ck[w]))
  /\ UNCHANGED <<ck, saved, Business, crashes>>

FinishCancel(w) ==
  /\ FinishCancelled(w)
  /\ UNCHANGED pipelineVars

\* The elements of S once each, in the order found first has them in.
Listings(found, S) ==
  {s \in SetToSeqs(S) :
     \A i, k \in DOMAIN s : \A l \in DOMAIN found :
       i < k /\ found[l] = s[k] => \E h \in 1 .. l - 1 : found[h] = s[i]}

\* _ingest_result over one query's results: a url that is new to the job, and
\* that no job of the organisation has visited, becomes a company of the run.
Discover(w) ==
  LET j == Job(w)
      found == Results[j][ck[w].index + 1]
      fresh == Range(found) \ raw[j]
      new == {c \in fresh : visited[c] = NoJob}
  IN /\ ck[w].phase = "DISCOVERING"
     /\ raw' = [raw EXCEPT ![j] = @ \union fresh]
     /\ visited' = [c \in Companies |-> IF c \in new THEN j ELSE visited[c]]
     /\ \E s \in Listings(found, new) : ck' = [ck EXCEPT ![w].companies = @ \o s]
     /\ UNCHANGED done

\* A failed search is logged and skipped.
SearchFails(w) ==
  /\ ck[w].phase = "DISCOVERING"
  /\ UNCHANGED <<raw, visited, ck, done>>

\* One company enriched, verified or scored.
Record(w) ==
  /\ ck[w].phase \in Recorded
  /\ done' = [done EXCEPT ![Job(w)] =
                @ \union {<<ck[w].phase, ck[w].companies[ck[w].index + 1]>>}]
  /\ UNCHANGED <<raw, visited, ck>>

Unit(w) ==
  /\ Running(w, "unit")
  /\ Discover(w) \/ SearchFails(w) \/ Record(w)
  /\ Goto(w, IF ck[w].phase = "SCORING" THEN "save" ELSE "beat")
  /\ UNCHANGED <<vars, saved, leads, decisions, campaign, crashes>>

\* Mutant: an exception counts the company as done.
UnitRaisesSwallowed(w) ==
  /\ at[w] \in {"policy", "unit", "qualify", "publish"}
  /\ Running(w, at[w])
  /\ Goto(w, IF at[w] = "unit" THEN "save" ELSE "raise")
  /\ UNCHANGED <<vars, ck, saved, Business, crashes>>

\* Mutant: the refusal of _qualify is not raised.
UnitRaisesToPublish(w) ==
  /\ at[w] \in {"policy", "unit", "qualify", "publish"}
  /\ Running(w, at[w])
  /\ Goto(w, IF at[w] = "qualify" THEN "publish" ELSE "raise")
  /\ UNCHANGED <<vars, ck, saved, Business, crashes>>

\* An exception inside a unit of work rolls it back and leaves the handler; so
\* does _qualify when there is no policy any more, after recording its refusal.
UnitRaises(w) ==
  /\ at[w] \in {"policy", "unit", "qualify", "publish"}
  /\ Running(w, at[w])
  /\ Goto(w, "raise")
  /\ UNCHANGED <<vars, ck, saved, Business, crashes>>

\* The result of heartbeat is ignored.
Beat(w) ==
  /\ Running(w, "beat")
  /\ Heartbeat(w) \/ (~Beats(w) /\ UNCHANGED vars)
  /\ Goto(w, "save")
  /\ UNCHANGED <<ck, saved, Business, crashes>>

SaveUnit(w) ==
  /\ Running(w, "save")
  /\ SaveAs(w, [ck[w] EXCEPT !.index = @ + 1], state[Job(w)])

\* Mutant: the next stage begins at the old index.
SavePhaseNoReset(w) ==
  LET next == NextStage(ck[w].phase)
  IN /\ Running(w, "nextphase")
     /\ SaveAs(w, [ck[w] EXCEPT !.phase = next], next)

SavePhase(w) ==
  LET next == NextStage(ck[w].phase)
  IN /\ Running(w, "nextphase")
     /\ SaveAs(w, [ck[w] EXCEPT !.phase = next, !.index = 0], next)

-----------------------------------------------------------------------------
(* _qualify: one transaction per company, and no checkpoint before the end.  *)

\* upsert_lead conflicts on (campaign, company, contact); NULL contacts never do.
QualifyOne(w) ==
  LET j == Job(w)
      c == ck[w].companies[ck[w].index + 1]
      next == [ck[w] EXCEPT !.index = @ + 1]
  IN /\ Running(w, "qualify")
     /\ c \notin Rejected
     /\ leads' = [leads EXCEPT ![j][c] = IF c \in Unreached THEN @ + 1 ELSE 1]
     /\ ck' = [ck EXCEPT ![w] = next]
     /\ Goto(w, Resume(j, next))
     /\ UNCHANGED <<vars, saved, raw, visited, done, decisions, campaign, crashes>>

\* decide() rejects the company: no lead.
QualifyRejects(w) ==
  LET next == [ck[w] EXCEPT !.index = @ + 1]
  IN /\ Running(w, "qualify")
     /\ ck[w].companies[ck[w].index + 1] \in Rejected
     /\ ck' = [ck EXCEPT ![w] = next]
     /\ Goto(w, Resume(Job(w), next))
     /\ UNCHANGED <<vars, saved, Business, crashes>>

-----------------------------------------------------------------------------
(* The end of the handler.                                                   *)

Publish(w) ==
  /\ Running(w, "publish")
  /\ campaign' = [campaign EXCEPT ![Job(w)] = "READY_FOR_REVIEW"]
  /\ Goto(w, "ready")
  /\ UNCHANGED <<vars, ck, saved, raw, visited, done, leads, decisions, crashes>>

Return(w) ==
  /\ \/ Running(w, "ready") /\ Complete(w, "READY_FOR_REVIEW")
     \/ Running(w, "partial") /\ Complete(w, "PARTIAL_SUCCESS")
     \/ Running(w, "raise") /\ Fail(w)
  /\ Stop(w)
  /\ UNCHANGED <<saved, Business, crashes>>

FencedSteps == {"phase", "saveplan", "save", "nextphase", "ready", "partial", "raise"}

Lost(w) ==
  /\ at[w] \in FencedSteps
  /\ LeaseLost(w)
  /\ Stop(w)
  /\ UNCHANGED <<saved, Business, crashes>>

WorkerCrash(w) ==
  /\ crashes < MaxCrashes
  /\ Crash(w)
  /\ crashes' = crashes + 1
  /\ Stop(w)
  /\ UNCHANGED <<saved, Business>>

HandlerStep(w) ==
  \/ EnterPlanning(w) \/ PlanPolicy(w) \/ SavePlan(w)
  \/ CheckCancel(w) \/ Apply(w) \/ FinishCancel(w)
  \/ Unit(w) \/ UnitRaises(w) \/ Beat(w) \/ SaveUnit(w) \/ SavePhase(w)
  \/ QualifyOne(w) \/ QualifyRejects(w)
  \/ Publish(w) \/ Return(w) \/ Lost(w)

PipelineNext ==
  \/ Runtime
  \/ \E w \in Workers : Wake(w) \/ Claim(w) \/ HandlerStep(w) \/ WorkerCrash(w)

PipelineSpec == PipelineInit /\ [][PipelineNext]_allVars

\* A worker that is not crashed goes on with its handler and with its cycle.
PipelineFairness ==
  /\ \A j \in Jobs : WF_allVars(Elapse(j) /\ UNCHANGED pipelineVars)
  /\ \A w \in Workers :
       WF_allVars(\/ Maintenance(w) /\ UNCHANGED pipelineVars
                  \/ Wake(w) \/ Claim(w) \/ HandlerStep(w))

PipelineFairSpec == PipelineSpec /\ PipelineFairness

-----------------------------------------------------------------------------
(* Properties.                                                               *)

Finished(j) == state[j] \in TerminalStates

\* A job ends as READY_FOR_REVIEW only when every company of its checkpoint was
\* enriched, verified, scored and qualified, by whichever attempts did it.
ReadyIsProcessed ==
  \A j \in Jobs : state[j] = "READY_FOR_REVIEW" =>
    \A c \in Range(saved[j].companies) :
      /\ Recorded \X {c} \subseteq done[j]
      /\ c \in Rejected \/ leads[j][c] > 0

\* A stage is entered only when the one before it is complete: nothing of a
\* company is missing that a later stage builds on, after any number of crashes
\* and takeovers.
StagesInOrder ==
  \A j \in Jobs : \A p \in Recorded :
    Rank(saved[j].phase) > Rank(p) =>
      {p} \X Range(saved[j].companies) \subseteq done[j]

\* No stage runs for a campaign, by owner or zombie, before an allowing policy
\* decision was committed for it.
PolicyGate ==
  \A j \in Jobs :
    raw[j] # {} \/ done[j] # {} \/ leads[j] # NoLeads => "allowed" \in decisions[j]

\* A campaign is shown for review only when its leads are complete, unless its
\* job was cancelled.
PublishedIsComplete ==
  \A j \in Jobs : campaign[j] = "READY_FOR_REVIEW" /\ ~cancelRequested[j] =>
    \A c \in Range(saved[j].companies) : c \in Rejected \/ leads[j][c] > 0

\* The state is well formed, and what a run shows or hands on is complete.
RunIsSound == PipelineTypeOK /\ ReadyIsProcessed /\ StagesInOrder /\ PublishedIsComplete

\* Not so after a takeover: a company of a finished run that was found by the run
\* is in its checkpoint.
IngestedIsListed ==
  \A j \in Jobs : state[j] \in {"READY_FOR_REVIEW", "PARTIAL_SUCCESS"} =>
    \A c \in Companies : visited[c] = j => c \in Range(saved[j].companies)

\* Not so without a contact: one lead row per company of a campaign, whatever is
\* re-run.
LeadsUnique == \A j \in Jobs, c \in Companies : leads[j][c] <= 1

\* Every enqueued job ends, whatever crashes and whoever stalls, unless a reaper
\* overtakes it: that job may wait for ever with its attempts used up.
EveryJobEnds == \A j \in Jobs : state[j] = "QUEUED" ~> Finished(j) \/ j \in overtaken

=============================================================================
