----------------------------- MODULE ManusStage -----------------------------
(***************************************************************************)
(* The asynchronous Manus stage of the acquisition pipeline                 *)
(* (application/handlers/manus_stage.py over providers/manus_engine.py):    *)
(* one paid research task per city, polled across many park and wake-up     *)
(* cycles, with all progress in the job's checkpoint.                       *)
(*                                                                          *)
(* One job.  The lease is what Leasing shows it to be: at most one worker,  *)
(* the owner, passes the fence, and a worker that lost it goes on until its *)
(* next fenced write.  A task of a city answers with one company, or with   *)
(* nothing.  Credits are whole numbers.  The phases after the stage are in  *)
(* Pipeline; here they are one step.                                        *)
(***************************************************************************)
EXTENDS Integers, Sequences, FiniteSets, FiniteSetsExt, SequencesExt, TLC

CONSTANTS
  Workers,
  NoWorker,
  CityList,     \* icp.cities
  NumKeys,      \* keys of the pool, known by their position
  Balance,      \* KeyLedger's default balance
  Floor,        \* KeyLedger's floor
  Estimate,     \* credits held for a running task
  Credits,      \* what a task of a city uses, per city
  MaxAttempts,  \* runtime.jobs.max_attempts
  MaxFaults     \* bound: failed create_task calls, exceptions and crashes

Cities == ToSet(CityList)
Keys == 1 .. NumKeys

ASSUME ManusAssumption ==
  /\ IsFiniteSet(Workers) /\ NoWorker \notin Workers
  /\ CityList \in Seq(Cities) /\ CityList # <<>> /\ IsInjective(CityList)
  /\ NumKeys \in Nat \ {0}
  /\ Balance \in Nat /\ Floor \in Nat /\ Estimate \in Nat
  /\ Credits \in [Cities -> Nat]
  /\ MaxAttempts \in Nat \ {0} /\ MaxFaults \in Nat

VARIABLES
  state, owner, attempts, cancelRequested,   \* the job's row
  saved,    \* its checkpoint
  visited,  \* companies in visited_sources
  at,       \* where each worker is in the handler
  ck,       \* the checkpoint and engine in its memory
  tried,    \* keys that failed for the city being submitted
  todo,     \* tasks its poll has not looked at
  found,    \* companies it polled and has not ingested
  bought,   \* the tasks Manus was asked to run and answered for
  late,     \* those older than the engine's deadline
  unheard,  \* the tasks it runs, and charges, though its answer was lost
  faults

row == <<state, owner, attempts, cancelRequested>>
memory == <<ck, tried, todo, found>>
manus == <<bought, late, unheard>>
vars == <<row, saved, visited, at, memory, manus, faults>>

NewCheckpoint ==
  [phase |-> "PLANNING", tasks |-> <<>>, submitted |-> {}, unsubmitted |-> <<>>,
   retired |-> {}, balance |-> [k \in Keys |-> Balance], seen |-> FALSE, companies |-> {}]

Tasks == [city : Cities, key : Keys, n : Nat]
Ended == {"READY_FOR_REVIEW", "PARTIAL_SUCCESS", "CANCELLED", "FAILED"}

Checkpoints ==
  [phase : {"PLANNING", "MANUS", "ENRICHING"}, tasks : Seq(Tasks),
   submitted : SUBSET Cities, unsubmitted : Seq(Cities), retired : SUBSET Keys,
   balance : [Keys -> Nat], seen : BOOLEAN, companies : SUBSET Cities]

StageTypeOK ==
  /\ state \in {"QUEUED", "ACTIVE", "WAITING_FOR_CAPACITY"} \union Ended
  /\ owner \in Workers \union {NoWorker}
  /\ attempts \in 0 .. MaxAttempts /\ cancelRequested \in BOOLEAN
  /\ saved \in Checkpoints
  /\ visited \subseteq Cities
  /\ at \in [Workers -> {"idle", "plan", "submit", "poll", "ingest",
                         "savecompanies", "decide", "park", "cancel", "finishcancel",
                         "cancelled", "saveenrich", "rest", "raise"}]
  /\ ck \in [Workers -> Checkpoints]
  /\ tried \in [Workers -> SUBSET Keys]
  /\ todo \in [Workers -> Seq(Tasks)]
  /\ found \in [Workers -> SUBSET Cities]
  /\ bought \subseteq Tasks /\ late \subseteq bought /\ unheard \subseteq Tasks
  /\ faults \in 0 .. MaxFaults

Init ==
  /\ state = "QUEUED" /\ owner = NoWorker /\ attempts = 0 /\ cancelRequested = FALSE
  /\ saved = NewCheckpoint
  /\ visited = {}
  /\ at = [w \in Workers |-> "idle"]
  /\ ck = [w \in Workers |-> NewCheckpoint]
  /\ tried = [w \in Workers |-> {}]
  /\ todo = [w \in Workers |-> <<>>]
  /\ found = [w \in Workers |-> {}]
  /\ bought = {} /\ late = {} /\ unheard = {}
  /\ faults = 0

-----------------------------------------------------------------------------
(* Clients and the clock.                                                    *)

RequestCancel ==
  /\ state \notin {"READY_FOR_REVIEW", "CANCELLED", "FAILED"}
  /\ cancelRequested' = TRUE
  /\ UNCHANGED <<state, owner, attempts, saved, visited, at, memory, manus, faults>>

\* The deadline passes for all that was submitted up to now.
DeadlinePasses ==
  /\ late # bought
  /\ late' = bought
  /\ UNCHANGED <<row, saved, visited, at, memory, bought, unheard, faults>>

\* The reaper takes back an expired lease: the stage sends no heartbeat.
Lapse ==
  /\ state = "ACTIVE"
  /\ owner' = NoWorker
  /\ state' = IF attempts >= MaxAttempts THEN "FAILED" ELSE "QUEUED"
  /\ UNCHANGED <<attempts, cancelRequested, saved, visited, at, memory, manus, faults>>

Wake ==
  /\ state = "WAITING_FOR_CAPACITY"
  /\ state' = "QUEUED"
  /\ UNCHANGED <<owner, attempts, cancelRequested, saved, visited, at, memory, manus, faults>>

-----------------------------------------------------------------------------
(* The engine.                                                               *)

Running(w, l) == at[w] = l
Goto(w, l) == at' = [at EXCEPT ![w] = l]

\* Every task in flight holds the estimate on its key.
Available(c, k) ==
  c.balance[k] - Estimate * Cardinality({i \in DOMAIN c.tasks : c.tasks[i].key = k})

Affordable(c) == {k \in Keys \ c.retired : Available(c, k) - Estimate >= Floor}

Exhausted(c) == c.unsubmitted # <<>> /\ Affordable(c) = {}

\* max: the first of the keys with the most credit.
Best(c, ks) ==
  Min({k \in ks : \A l \in ks : Available(c, l) <= Available(c, k)})

\* Mutant: submitted cities are not remembered.
OpenedAgain(c) ==
  IF c.unsubmitted = <<>> THEN [c EXCEPT !.unsubmitted = CityList] ELSE c

\* submit begins with every city, once.
Opened(c) ==
  IF c.submitted = {} /\ c.unsubmitted = <<>> THEN [c EXCEPT !.unsubmitted = CityList] ELSE c

\* Where a handler with checkpoint c goes on.
Resume(w, c) ==
  /\ ck' = [ck EXCEPT ![w] = IF c.phase = "MANUS" THEN Opened(c) ELSE c]
  /\ Goto(w, CASE c.phase = "PLANNING" -> "plan" [] c.phase = "MANUS" -> "submit"
               [] c.phase = "ENRICHING" -> "rest")

Claim(w) ==
  /\ at[w] = "idle"
  /\ state = "QUEUED" /\ attempts < MaxAttempts
  /\ state' = "ACTIVE" /\ owner' = w /\ attempts' = attempts + 1
  /\ Resume(w, saved)
  /\ UNCHANGED <<cancelRequested, saved, visited, tried, todo, found, manus, faults>>

\* save_checkpoint, fenced: c becomes the checkpoint.
Save(w, c) == owner = w /\ saved' = c

Plan(w) ==
  LET c == [ck[w] EXCEPT !.phase = "MANUS"]
  IN /\ Running(w, "plan")
     /\ Save(w, c)
     /\ Resume(w, c)
     /\ UNCHANGED <<row, visited, tried, todo, found, manus, faults>>

-----------------------------------------------------------------------------
(* submit                                                                    *)

Usable(w) == Affordable(ck[w]) \ tried[w]
CanSubmit(w) == Running(w, "submit") /\ ck[w].unsubmitted # <<>> /\ Usable(w) # {}

Paid(c) == Cardinality({t \in bought : t.city = c})

CreateTask(w) ==
  LET city == Head(ck[w].unsubmitted)
      task == [city |-> city, key |-> Best(ck[w], Usable(w)), n |-> Paid(city) + 1]
  IN /\ CanSubmit(w)
     /\ bought' = bought \union {task}
     /\ ck' = [ck EXCEPT ![w].tasks = Append(@, task),
                         ![w].submitted = @ \union {city},
                         ![w].unsubmitted = Tail(@)]
     /\ tried' = [tried EXCEPT ![w] = {}]
     /\ UNCHANGED <<row, saved, visited, at, todo, found, late, unheard, faults>>

\* A failed create_task: the next key for the same city.  A timeout, or an answer
\* that breaks off, is TRANSIENT too, and the task may have been created.
CreateFails(w) ==
  LET k == Best(ck[w], Usable(w))
      lost == [city |-> Head(ck[w].unsubmitted), key |-> k, n |-> faults + 1]
  IN /\ CanSubmit(w)
     /\ faults < MaxFaults
     /\ faults' = faults + 1
     /\ tried' = [tried EXCEPT ![w] = @ \union {k}]
     /\ \/ ck' = [ck EXCEPT ![w].retired = @ \union {k}] /\ UNCHANGED unheard   \* AUTH
        \/ ck' = [ck EXCEPT ![w].balance[k] = 0] /\ UNCHANGED unheard          \* CAPACITY
        \/ UNCHANGED <<ck, unheard>>                           \* RATE_LIMIT, TRANSIENT
        \/ unheard' = unheard \union {lost} /\ UNCHANGED ck     \* TRANSIENT, too late
     /\ UNCHANGED <<row, saved, visited, at, todo, found, bought, late>>

\* No key, or no city, is left: the task ids reach the checkpoint.  engine.state()
\* has no companies_seen.
SaveTasks(w) ==
  /\ Running(w, "submit") /\ ~CanSubmit(w)
  /\ Save(w, [ck[w] EXCEPT !.seen = FALSE])
  /\ IF Exhausted(ck[w]) /\ ck[w].tasks = <<>> /\ ~ck[w].seen
       THEN Goto(w, "raise") /\ UNCHANGED todo
       ELSE Goto(w, "poll") /\ todo' = [todo EXCEPT ![w] = ck[w].tasks]
  /\ tried' = [tried EXCEPT ![w] = {}]
  /\ UNCHANGED <<row, visited, ck, found, manus, faults>>

-----------------------------------------------------------------------------
(* poll                                                                      *)

\* The task leaves the engine, its key charged.
Closed(c, t, credits) ==
  [c EXCEPT !.tasks = RemoveFirst(@, t),
            !.balance[t.key] = IF credits >= @ THEN 0 ELSE @ - credits]

NextTask(w) == todo' = [todo EXCEPT ![w] = Tail(@)]

\* Mutant: no deadline.
KeepForever(w, t) == UNCHANGED <<ck, found>>

\* Mutant: what a running task has used is booked, and booked again later.
KeepCharging(w, t) ==
  /\ t \notin late
  /\ ck' = [ck EXCEPT ![w].balance[t.key] = IF @ = 0 THEN 0 ELSE @ - 1]
  /\ UNCHANGED found

\* Unfinished, or its detail could not be read: kept until its deadline.
Keep(w, t) == t \notin late /\ UNCHANGED <<ck, found>>

\* Past the deadline: charged only when its detail could be read.
Abandon(w, t) ==
  /\ t \in late
  /\ \E credits \in {0, Credits[t.city]} : ck' = [ck EXCEPT ![w] = Closed(@, t, credits)]
  /\ UNCHANGED found

\* Finished: with an answer that holds a company, or failed, or with none.
Collect(w, t) ==
  /\ ck' = [ck EXCEPT ![w] = Closed(@, t, Credits[t.city])]
  /\ \/ found' = [found EXCEPT ![w] = @ \union {t.city}]
     \/ UNCHANGED found

Poll(w) ==
  LET t == Head(todo[w])
  IN /\ Running(w, "poll") /\ todo[w] # <<>>
     /\ Keep(w, t) \/ Abandon(w, t) \/ Collect(w, t)
     /\ NextTask(w)
     /\ UNCHANGED <<row, saved, visited, at, tried, manus, faults>>

SavePoll(w) ==
  LET c == [ck[w] EXCEPT !.seen = @ \/ found[w] # {}]
  IN /\ Running(w, "poll") /\ todo[w] = <<>>
     /\ Save(w, c)
     /\ ck' = [ck EXCEPT ![w] = c]
     /\ Goto(w, IF found[w] # {} THEN "ingest" ELSE "decide")
     /\ UNCHANGED <<row, visited, tried, todo, found, manus, faults>>

\* One unit of work over all companies: a visited one gets no id.
Ingest(w) ==
  /\ Running(w, "ingest")
  /\ visited' = visited \union found[w]
  /\ ck' = [ck EXCEPT ![w].companies = @ \union (found[w] \ visited)]
  /\ found' = [found EXCEPT ![w] = {}]
  /\ Goto(w, "savecompanies")
  /\ UNCHANGED <<row, saved, tried, todo, manus, faults>>

SaveCompanies(w) ==
  /\ Running(w, "savecompanies")
  /\ Save(w, ck[w])
  /\ Goto(w, "decide")
  /\ UNCHANGED <<row, visited, memory, manus, faults>>

-----------------------------------------------------------------------------
(* The end of a pass.                                                        *)

\* Mutant: cities no key could pay for are forgotten.
PolledOut(c) == c.tasks = <<>>

Finished(c) == c.tasks = <<>> /\ c.unsubmitted = <<>>

Decide(w) ==
  /\ Running(w, "decide")
  /\ Goto(w, IF cancelRequested THEN "cancel"
             ELSE IF Finished(ck[w]) THEN "saveenrich" ELSE "park")
  /\ UNCHANGED <<row, saved, visited, memory, manus, faults>>

\* The handler is left: what it held in memory is gone.
Leave(w) ==
  /\ Goto(w, "idle")
  /\ ck' = [ck EXCEPT ![w] = NewCheckpoint]
  /\ tried' = [tried EXCEPT ![w] = {}]
  /\ todo' = [todo EXCEPT ![w] = <<>>]
  /\ found' = [found EXCEPT ![w] = {}]

Release(s) == state' = s /\ owner' = NoWorker

Park(w) ==
  /\ Running(w, "park") /\ owner = w
  /\ Release("WAITING_FOR_CAPACITY")
  /\ attempts' = attempts - 1
  /\ Leave(w)
  /\ UNCHANGED <<cancelRequested, saved, visited, manus, faults>>

\* apply_cancellation; not applied, the handler still returns CANCELLED.
Cancel(w) ==
  /\ Running(w, "cancel")
  /\ Goto(w, IF owner = w THEN "finishcancel" ELSE "cancelled")
  /\ UNCHANGED <<row, saved, visited, memory, manus, faults>>

FinishCancelled(w) ==
  /\ Running(w, "finishcancel")
  /\ IF owner = w THEN Release("CANCELLED") ELSE UNCHANGED <<state, owner>>
  /\ Goto(w, "cancelled")
  /\ UNCHANGED <<attempts, cancelRequested, saved, visited, memory, manus, faults>>

SaveEnrich(w) ==
  LET c == [ck[w] EXCEPT !.phase = "ENRICHING"]
  IN /\ Running(w, "saveenrich")
     /\ Save(w, c)
     /\ Resume(w, c)
     /\ UNCHANGED <<row, visited, tried, todo, found, manus, faults>>

Outcome(c) == IF c.companies = {} THEN "PARTIAL_SUCCESS" ELSE "READY_FOR_REVIEW"

Return(w) ==
  /\ owner = w
  /\ \/ Running(w, "rest") /\ Release(Outcome(ck[w]))
     \/ Running(w, "raise")
        /\ Release(IF attempts >= MaxAttempts THEN "FAILED" ELSE "QUEUED")
  /\ Leave(w)
  /\ UNCHANGED <<attempts, cancelRequested, saved, visited, manus, faults>>

FencedStep(w) ==
  \/ at[w] \in {"plan", "savecompanies", "park", "cancelled", "saveenrich", "rest", "raise"}
  \/ at[w] = "submit" /\ ~CanSubmit(w)
  \/ at[w] = "poll" /\ todo[w] = <<>>

Lost(w) ==
  /\ FencedStep(w) /\ owner # w
  /\ Leave(w)
  /\ UNCHANGED <<row, saved, visited, manus, faults>>

\* A unit of work, or the code around a call, raises.
Raise(w) ==
  /\ at[w] \in {"submit", "poll", "ingest"}
  /\ faults < MaxFaults
  /\ faults' = faults + 1
  /\ Goto(w, "raise")
  /\ UNCHANGED <<row, saved, visited, memory, manus>>

\* The process dies; its row keeps its lease until that lapses.
Crash(w) ==
  /\ at[w] # "idle"
  /\ faults < MaxFaults
  /\ faults' = faults + 1
  /\ Leave(w)
  /\ UNCHANGED <<row, saved, visited, manus>>

Step(w) ==
  \/ Claim(w) \/ Plan(w)
  \/ CreateTask(w) \/ CreateFails(w) \/ SaveTasks(w)
  \/ Poll(w) \/ SavePoll(w) \/ Ingest(w) \/ SaveCompanies(w)
  \/ Decide(w) \/ Park(w) \/ Cancel(w) \/ FinishCancelled(w) \/ SaveEnrich(w)
  \/ Return(w) \/ Lost(w)

\* Nothing of the job is left to do.
Done == state \in Ended /\ (\A w \in Workers : at[w] = "idle") /\ UNCHANGED vars

Next ==
  \/ Done
  \/ RequestCancel \/ Lapse \/ Wake
  \/ DeadlinePasses
  \/ \E w \in Workers : Step(w) \/ Raise(w) \/ Crash(w)

Spec == Init /\ [][Next]_vars

\* Maintenance ticks go on, workers work, deadlines pass.  Manus owes nothing.
Fairness ==
  /\ WF_vars(Lapse) /\ WF_vars(Wake)
  /\ WF_vars(DeadlinePasses)
  /\ \A w \in Workers : WF_vars(Step(w))

FairSpec == Spec /\ Fairness

-----------------------------------------------------------------------------
(* Properties.                                                               *)

Unheard(c) == Cardinality({t \in unheard : t.city = c})

\* A city is paid for again only where an attempt was lost before it had saved the
\* task, and such an attempt is not given back, or where the answer to a creation
\* was lost, for then the next key, or the next pass, creates the task again.
\* Parking, waking and polling, by however many workers and for however long, never
\* pay twice.
PaidBounded ==
  \A c \in Cities : Paid(c) <= MaxAttempts /\ Paid(c) + Unheard(c) <= MaxAttempts + faults

\* A task's credits are booked at most once over all the passes, workers and
\* restarts that meet it, so no key is given up before it is spent.  The converse
\* fails: what a task of a lost answer, or an abandoned one, used is never booked.
NeverOvercharged ==
  \A k \in Keys : saved.balance[k] > 0 =>
    Balance - saved.balance[k] <=
      MapThenSumSet(LAMBDA t : Credits[t.city],
                    {t \in bought : t.key = k /\ t \notin ToSet(saved.tasks)})

\* The stage is left for enrichment only when every city was researched and no
\* task of the checkpoint is unsettled.
CitiesResearched ==
  saved.phase = "ENRICHING" => saved.tasks = <<>> /\ \A c \in Cities : Paid(c) > 0

\* The state is well formed, no city is paid for beyond the attempts, and none is
\* skipped.
StageIsSound == StageTypeOK /\ PaidBounded /\ CitiesResearched

\* No key can pay for the cities that are left, and no task runs.
Starved == Exhausted(saved) /\ saved.tasks = <<>>

\* A job ends, whatever Manus does, unless it is starved.
EndsUnlessStarved == state = "QUEUED" ~> state \in Ended \/ Starved

\* Not so, for a starved stage parks for ever: a job ends, starved or not.
StageEnds == state = "QUEUED" ~> state \in Ended

=============================================================================
