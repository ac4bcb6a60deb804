---------------------------- MODULE LegacyProofs ----------------------------
(***************************************************************************)
(* Theorems about the job queue of lead_engine, for any number of jobs and *)
(* workers, about its event outbox and audit log, and about a run of its   *)
(* first pipeline. What a worker may rely on holds as long as no lease of  *)
(* its job ran out under a worker (past.lapsed): the queue has no other    *)
(* lock, nor has the outbox.                                               *)
(***************************************************************************)
EXTENDS LegacyQueue, LegacyEvents, LegacyPipeline, FiniteSetTheorems, TLAPS

-----------------------------------------------------------------------------
(* The shape of the state.                                                   *)

JobRows ==
    [state : LegacyStates \cup {"NEW"}, kind : {"none", "research", "pipeline"},
     lease : {"none", "live", "lapsed"}, due : {"none", "later", "past"},
     attempts : 0 .. MaxAttempts]
Counters == [steps : Nat, fin : BOOLEAN, tried : SUBSET Subjects, verdicts : SUBSET Subjects]
Contexts == [plan : BOOLEAN, counters : Counters, facts : SUBSET Subjects,
             leads : SUBSET Subjects, asked : BOOLEAN]
Ticking == {"tick", "reclaim", "lease"}
Piping == {"pipe", "stages", "degrade", "wrap", "broken", "complete"}
Writing == {"act", "verify", "sweep", "qualify", "review"}
Ending == {"summary", "settle", "fail", "failing"}
Places == Ticking \cup Piping \cup Writing \cup Ending \cup
          {"enter", "plan", "planning", "turn", "swept", "gate", "finalize",
           "capacity", "pausing"}
Sights == LegacyStates \cup {"NEW", "none", "yielded", "retry", "give up"}
Memories == [pc : Places, job : Jobs \cup {"none"}, saw : Sights, todo : SUBSET Subjects,
             have : SUBSET Subjects, write : Counters \cup {NoWrite}]
Histories == [lapsed : BOOLEAN, refused : BOOLEAN, paid : SUBSET Subjects, twice : BOOLEAN,
              leadless : SUBSET (Subjects \X (Causes \cup {"thin"}))]

Shape ==
    /\ job \in [Jobs -> JobRows] /\ ctx \in [Jobs -> Contexts]
    /\ me \in [Workers -> Memories] /\ past \in [Jobs -> Histories]
    /\ requeue \subseteq Jobs /\ faults \in Nat

-----------------------------------------------------------------------------
(* What holds of a worker's memory m, its job's row r, context c and past h. *)

\* A worker between two ticks has no job, and only some steps leave a write.
Minded(m) ==
    /\ m.job = "none" <=> m.pc \in Ticking
    /\ m.write # NoWrite => m.pc \in Writing

\* States from which a run cannot go on to QUALIFYING or READY_FOR_REVIEW, and
\* which nothing from outside leaves while the lease of the run is live.
Halted == {"QUEUED", "RESUMING", "PAUSED", "CANCELLED", "FAILED", "COMPLETED"}

Leadless(h) == {e[1] : e \in h.leadless}
Gated(c, h) == c.facts \ c.leads \subseteq Leadless(h)

\* A worker whose lease never ran out: its row is its own, and each step of its
\* run finds what the step before left.
Running(m, r, c, h) ==
    /\ r.lease = "live"
    /\ m.pc = "swept" => c.facts \subseteq c.counters.tried \/ r.state \in Halted
    /\ m.pc = "qualify" =>
         /\ c.facts \subseteq c.counters.tried
         /\ m.write # NoWrite => c.facts \subseteq m.write.tried
         /\ c.facts \subseteq m.have \cup m.todo \cup Leadless(h)
    /\ m.pc = "gate" => c.facts \subseteq m.have \cup Leadless(h) \/ r.state \in Halted
    /\ m.pc = "review" => Gated(c, h) \/ r.state \in Halted
    /\ m.pc = "failing" /\ m.saw # "retry" => r.attempts >= MaxAttempts
    /\ r.state = "READY_FOR_REVIEW" => m.pc \in Ending

\* Each address paid for is marked, or the mark is on its way.
Marked(m, c, h) == h.paid \subseteq IF m.write = NoWrite THEN c.counters.tried ELSE m.write.tried

RunnersHeld ==
    \A w \in Workers, j \in Jobs : Runs(w, j) =>
      /\ job[j].state # "NEW"
      /\ me[w].pc \in Piping => job[j].kind # "research"
      /\ ~past[j].lapsed => Running(me[w], job[j], ctx[j], past[j])

Alone ==
    \A w, v \in Workers, j \in Jobs : Runs(w, j) /\ Runs(v, j) /\ w # v => past[j].lapsed

Reviewed ==
    \A j \in Jobs :
      job[j].state = "READY_FOR_REVIEW" /\ ~past[j].lapsed => Gated(ctx[j], past[j])

PaidOnce ==
    faults = 0 =>
      \A j \in Jobs :
        /\ ~past[j].lapsed /\ ~past[j].twice
        /\ NobodyRuns(j) => past[j].paid \subseteq ctx[j].counters.tried
        /\ \A w \in Workers : Runs(w, j) => Marked(me[w], ctx[j], past[j])

QueueInv ==
    /\ Shape
    /\ \A w \in Workers : Minded(me[w])
    /\ RunnersHeld /\ Alone /\ Reviewed /\ PaidOnce

-----------------------------------------------------------------------------
(* The tables of the state machine.                                          *)

(* The states there are (statemachine.py).                                   *)
LEMMA StatesAre ==
  LegacyStates = {"QUEUED", "RUNNING", "DEGRADED", "PAUSED", "RESUMING", "COMPLETED", "FAILED",
                  "CANCELLED", "DISCOVERING", "RESEARCHING", "VERIFYING", "QUALIFYING",
                  "WAITING_FOR_USER", "READY_FOR_REVIEW"}
BY DEF LegacyStates, Transitions

(* A halted job goes neither to qualification nor to the review gate.        *)
LEMMA HaltedAdmits ==
  ASSUME NEW s \in Halted
  PROVE  "QUALIFYING" \notin Transitions[s] /\ "READY_FOR_REVIEW" \notin Transitions[s]
<1>1. /\ Transitions["QUEUED"] = {"RUNNING", "FAILED", "CANCELLED"}
      /\ Transitions["RESUMING"] = {"RUNNING", "PAUSED", "FAILED"}
      /\ Transitions["PAUSED"] = {"RESUMING", "FAILED", "CANCELLED"}
      /\ Transitions["CANCELLED"] = {} /\ Transitions["FAILED"] = {}
      /\ Transitions["COMPLETED"] = {}
  BY DEF Transitions
<1>2. QED  BY <1>1 DEF Halted

-----------------------------------------------------------------------------
(* How a step may change the rows.                                           *)

(* A step of a worker on its own job: the others keep theirs, and those that  *)
(* run the same job have seen a lease of it run out.                          *)
LEMMA OwnerMoves ==
  ASSUME QueueInv, Shape', NEW w \in Workers, NEW j \in Jobs, Runs(w, j),
         \A v \in Workers \ {w} : me'[v] = me[v],
         \A k \in Jobs \ {j} : job'[k] = job[k] /\ ctx'[k] = ctx[k] /\ past'[k] = past[k],
         faults' >= faults, past'[j].lapsed = past[j].lapsed,
         Minded(me'[w]), me'[w].job \in {j, "none"},
         job'[j].state # "NEW", job'[j].kind = job[j].kind,
         me'[w].job = j =>
           /\ me'[w].pc \in Piping => job[j].kind # "research"
           /\ ~past[j].lapsed => Running(me'[w], job'[j], ctx'[j], past'[j]),
         job'[j].state = "READY_FOR_REVIEW" /\ ~past[j].lapsed => Gated(ctx'[j], past'[j]),
         faults' = 0 =>
           /\ ~past'[j].twice
           /\ me'[w].job = j => Marked(me'[w], ctx'[j], past'[j])
           /\ me'[w].job = "none" => past'[j].paid \subseteq ctx'[j].counters.tried
  PROVE  QueueInv'
<1>0. "none" \notin Jobs /\ me[w].job = j /\ faults \in Nat /\ faults' \in Nat
  BY QueueAssumption DEF Runs, QueueInv, Shape
<1>1. \A v \in Workers, k \in Jobs : Runs(v, k)' => Runs(v, k)
  BY <1>0 DEF Runs
<1>2. \A v \in Workers : Minded(me'[v])
  BY DEF QueueInv
<1>3. \A k \in Jobs : past'[k].lapsed = past[k].lapsed
  OBVIOUS
<1>4. Alone'
  BY <1>1, <1>3 DEF QueueInv, Alone
<1>5. ASSUME NEW v \in Workers, NEW k \in Jobs, Runs(v, k)'
      PROVE  /\ job'[k].state # "NEW"
             /\ me'[v].pc \in Piping => job'[k].kind # "research"
             /\ ~past'[k].lapsed => Running(me'[v], job'[k], ctx'[k], past'[k])
  <2>1. Runs(v, k)
    BY <1>1, <1>5
  <2>2. CASE v = w
    BY <1>0, <1>5, <2>2 DEF Runs
  <2>3. CASE v # w /\ k # j
    BY <2>1, <2>3 DEF QueueInv, RunnersHeld
  <2>4. CASE v # w /\ k = j
    BY <1>3, <2>1, <2>4 DEF QueueInv, RunnersHeld, Alone
  <2>5. QED  BY <2>2, <2>3, <2>4
<1>6. Reviewed'
  BY <1>3 DEF QueueInv, Reviewed, Gated, Leadless
<1>7. ASSUME faults' = 0, NEW k \in Jobs
      PROVE  /\ ~past'[k].lapsed /\ ~past'[k].twice
             /\ NobodyRuns(k)' => past'[k].paid \subseteq ctx'[k].counters.tried
             /\ \A v \in Workers : Runs(v, k)' => Marked(me'[v], ctx'[k], past'[k])
  <2>1. faults = 0
    BY <1>0, <1>7
  <2>2. CASE k # j
    <3>1. \A v \in Workers : Runs(v, k)' <=> Runs(v, k)
      BY <1>0, <2>2 DEF Runs
    <3>2. QED  BY <1>0, <2>1, <2>2, <3>1 DEF QueueInv, PaidOnce, NobodyRuns, Runs
  <2>3. CASE k = j
    <3>1. ~past[j].lapsed
      BY <2>1 DEF QueueInv, PaidOnce
    <3>2. \A v \in Workers : Runs(v, j) => v = w
      BY <3>1 DEF QueueInv, Alone
    <3>3. me'[w].job = j \/ me'[w].job = "none"
      OBVIOUS
    <3>4. NobodyRuns(j)' => me'[w].job = "none"
      BY <3>3 DEF NobodyRuns, Runs
    <3>5. QED  BY <1>1, <1>3, <1>7, <2>3, <3>1, <3>2, <3>4 DEF Runs
  <2>4. QED  BY <2>2, <2>3
<1>8. RunnersHeld'
  BY <1>5 DEF RunnersHeld, Running, Gated, Leadless
<1>9. PaidOnce'
  BY <1>7 DEF PaidOnce, Marked
<1>10. QED
  BY <1>2, <1>4, <1>6, <1>8, <1>9 DEF QueueInv, Minded

(* A step outside the runs: who runs a job keeps it as it is, but for a state *)
(* that may be halted from outside; nothing reaches the review gate this way. *)
LEMMA ForeignMoves ==
  ASSUME QueueInv, Shape', faults' >= faults,
         \A w \in Workers : /\ Minded(me'[w]) /\ me'[w].job = me[w].job
                            /\ me[w].job # "none" => me'[w] = me[w],
         \A k \in Jobs :
           /\ ctx'[k].facts = ctx[k].facts /\ ctx'[k].leads = ctx[k].leads
           /\ ctx'[k].counters = ctx[k].counters
           /\ past'[k].leadless = past[k].leadless /\ past'[k].paid = past[k].paid
           /\ past'[k].twice = past[k].twice
           /\ past[k].lapsed => past'[k].lapsed
           /\ faults' = 0 => past'[k].lapsed = past[k].lapsed
           /\ job'[k].state = "READY_FOR_REVIEW" => job[k].state = "READY_FOR_REVIEW",
         \A k \in Jobs, w \in Workers : Runs(w, k) =>
           /\ job'[k].state # "NEW" /\ job'[k].kind = job[k].kind
           /\ ~past'[k].lapsed =>
                /\ job'[k].lease = job[k].lease /\ job'[k].attempts = job[k].attempts
                /\ job[k].state \in Halted => job'[k].state \in Halted
  PROVE  QueueInv'
<1>0. "none" \notin Jobs /\ faults \in Nat /\ faults' \in Nat
  BY QueueAssumption DEF QueueInv, Shape
<1>1. \A v \in Workers, k \in Jobs : /\ Runs(v, k)' <=> Runs(v, k)
                                     /\ Runs(v, k) => me'[v] = me[v]
  BY <1>0 DEF Runs
<1>2. \A k \in Jobs : Leadless(past'[k]) = Leadless(past[k])
  BY DEF Leadless
<1>3. Alone'
  BY <1>1 DEF QueueInv, Alone
<1>4. Reviewed'
  BY <1>2 DEF QueueInv, Reviewed, Gated, Leadless
<1>5. ASSUME NEW v \in Workers, NEW k \in Jobs, Runs(v, k)'
      PROVE  /\ job'[k].state # "NEW"
             /\ me'[v].pc \in Piping => job'[k].kind # "research"
             /\ ~past'[k].lapsed => Running(me'[v], job'[k], ctx'[k], past'[k])
  <2>1. Runs(v, k) /\ me'[v] = me[v]
    BY <1>1, <1>5
  <2>2. ASSUME ~past'[k].lapsed
        PROVE  Running(me'[v], job'[k], ctx'[k], past'[k])
    <3>1. Running(me[v], job[k], ctx[k], past[k])
      BY <2>1, <2>2 DEF QueueInv, RunnersHeld
    <3>2. QED  BY <1>2, <2>1, <2>2, <3>1 DEF Running, Gated
  <2>3. QED  BY <2>1, <2>2 DEF QueueInv, RunnersHeld
<1>6. RunnersHeld'
  BY <1>5 DEF RunnersHeld, Running, Gated, Leadless
<1>7. PaidOnce'
  <2>1. ASSUME faults' = 0
        PROVE  faults = 0 /\ \A k \in Jobs : past'[k].lapsed = past[k].lapsed
    BY <1>0, <2>1
  <2>2. \A k \in Jobs : NobodyRuns(k)' <=> NobodyRuns(k)
    BY <1>1 DEF NobodyRuns
  <2>3. ASSUME faults' = 0, NEW k \in Jobs
        PROVE  /\ ~past'[k].lapsed /\ ~past'[k].twice
               /\ NobodyRuns(k)' => past'[k].paid \subseteq ctx'[k].counters.tried
               /\ \A w \in Workers : Runs(w, k)' => Marked(me'[w], ctx'[k], past'[k])
    BY <1>1, <2>1, <2>2, <2>3 DEF QueueInv, PaidOnce, Marked
  <2>4. QED  BY <2>3 DEF PaidOnce, Marked
<1>8. QED
  BY <1>3, <1>4, <1>6, <1>7 DEF QueueInv, Minded

-----------------------------------------------------------------------------
(* What the writes of a step leave as it was.                                *)

(* A worker that only goes elsewhere keeps what it has in mind.              *)
LEMMA PcMoves ==
  ASSUME Shape, NEW w \in Workers, NEW p \in Places, Goes(w, p)
  PROVE  /\ me' \in [Workers -> Memories]
         /\ me'[w].pc = p /\ me'[w].job = me[w].job /\ me'[w].saw = me[w].saw
         /\ me'[w].todo = me[w].todo /\ me'[w].have = me[w].have
         /\ me'[w].write = me[w].write
         /\ \A v \in Workers \ {w} : me'[v] = me[v]
<1>1. PICK m \in Memories : m = me[w]
  BY DEF Shape
<1>2. PICK n : n = [m EXCEPT !.pc = p]
  OBVIOUS
<1>3. n \in Memories /\ n.pc = p /\ n.job = m.job /\ n.saw = m.saw /\ n.todo = m.todo
      /\ n.have = m.have /\ n.write = m.write
  BY <1>2 DEF Memories
<1>4. me' = [me EXCEPT ![w] = n]
  BY <1>1, <1>2 DEF Goes
<1>5. QED  BY <1>1, <1>3, <1>4 DEF Shape

(* A worker that changes the counters holds the new ones until it writes them. *)
LEMMA WriteMoves ==
  ASSUME Shape, NEW w \in Workers, NEW p \in Places, NEW c \in Counters, Change(w, c, p)
  PROVE  /\ me' \in [Workers -> Memories] /\ c # NoWrite
         /\ me'[w].pc = p /\ me'[w].job = me[w].job /\ me'[w].saw = me[w].saw
         /\ me'[w].todo = me[w].todo /\ me'[w].have = me[w].have
         /\ me'[w].write = c
         /\ \A v \in Workers \ {w} : me'[v] = me[v]
<1>1. PICK m \in Memories : m = me[w]
  BY DEF Shape
<1>2. PICK n : n = [m EXCEPT !.write = c, !.pc = p]
  OBVIOUS
<1>3. n \in Memories /\ n.pc = p /\ n.job = m.job /\ n.saw = m.saw /\ n.todo = m.todo
      /\ n.have = m.have /\ n.write = c
  BY <1>2 DEF Memories
<1>4. me' = [me EXCEPT ![w] = n]
  BY <1>1, <1>2 DEF Change
<1>5. c # NoWrite
  BY DEF Counters, NoWrite
<1>6. QED  BY <1>1, <1>3, <1>4, <1>5 DEF Shape

Sees(w, p, s) == me' = [me EXCEPT ![w].pc = p, ![w].saw = s]

(* A worker whose run ends goes on with what it saw of it.                   *)
LEMMA SawMoves ==
  ASSUME Shape, NEW w \in Workers, NEW p \in Places, NEW s \in Sights, Sees(w, p, s)
  PROVE  /\ me' \in [Workers -> Memories]
         /\ me'[w].pc = p /\ me'[w].job = me[w].job /\ me'[w].saw = s
         /\ me'[w].write = me[w].write
         /\ \A v \in Workers \ {w} : me'[v] = me[v]
<1>1. PICK m \in Memories : m = me[w]
  BY DEF Shape
<1>2. PICK n : n = [m EXCEPT !.pc = p, !.saw = s]
  OBVIOUS
<1>3. n \in Memories /\ n.pc = p /\ n.job = m.job /\ n.saw = s /\ n.write = m.write
  BY <1>2 DEF Memories
<1>4. me' = [me EXCEPT ![w] = n]
  BY <1>1, <1>2 DEF Sees
<1>5. QED  BY <1>1, <1>3, <1>4 DEF Shape

(* A row that changes its state changes nothing else.                        *)
LEMMA StateMoves ==
  ASSUME Shape, NEW j \in Jobs, NEW s \in LegacyStates, job' = [job EXCEPT ![j].state = s]
  PROVE  /\ job' \in [Jobs -> JobRows]
         /\ job'[j].state = s /\ job'[j].kind = job[j].kind /\ job'[j].lease = job[j].lease
         /\ job'[j].due = job[j].due /\ job'[j].attempts = job[j].attempts
         /\ \A k \in Jobs \ {j} : job'[k] = job[k]
<1>1. PICK r \in JobRows : r = job[j]
  BY DEF Shape
<1>2. PICK n : n = [r EXCEPT !.state = s]
  OBVIOUS
<1>3. n \in JobRows /\ n.state = s /\ n.kind = r.kind /\ n.lease = r.lease
      /\ n.due = r.due /\ n.attempts = r.attempts
  BY <1>2 DEF JobRows
<1>4. job' = [job EXCEPT ![j] = n]
  BY <1>1, <1>2
<1>5. QED  BY <1>1, <1>3, <1>4 DEF Shape

(* A worker away from the tick runs the job it holds.                        *)
LEMMA AtWork ==
  ASSUME QueueInv, NEW w \in Workers, me[w].pc \notin Ticking
  PROVE  /\ me[w].job \in Jobs /\ me[w].job # "none" /\ Runs(w, me[w].job)
         /\ job[me[w].job].state \in LegacyStates
         /\ me[w].pc \in Piping => job[me[w].job].kind # "research"
         /\ ~past[me[w].job].lapsed =>
              Running(me[w], job[me[w].job], ctx[me[w].job], past[me[w].job])
<1>1. me[w] \in Memories /\ me[w].job # "none"
  BY DEF QueueInv, Shape, Minded
<1>2. me[w].job \in Jobs /\ Runs(w, me[w].job)
  BY <1>1 DEF Memories, Runs
<1>3. job[me[w].job] \in JobRows
  BY <1>2 DEF QueueInv, Shape
<1>4. QED  BY <1>1, <1>2, <1>3 DEF QueueInv, RunnersHeld, JobRows

(* Places a run reaches without having to have achieved something.           *)
Plain == Places \ (Ticking \cup {"swept", "qualify", "gate", "review", "failing"})

(* A worker that goes on without a write: what it owes at the place it reaches. *)
LEMMA GoesOn ==
  ASSUME QueueInv, NEW w \in Workers, NEW p \in Plain \cup {"swept", "gate"},
         me[w].pc \notin Ticking, me[w].write = NoWrite, Goes(w, p),
         UNCHANGED <<job, ctx, requeue, past, faults>>,
         p \in Piping => me[w].pc \in Piping,
         p \notin Ending /\ ~past[me[w].job].lapsed => me[w].pc \notin Ending,
         p = "swept" => \/ ctx[me[w].job].facts \subseteq ctx[me[w].job].counters.tried
                        \/ job[me[w].job].state \in Halted,
         p = "gate" /\ ~past[me[w].job].lapsed =>
           \/ ctx[me[w].job].facts \subseteq me[w].have \cup Leadless(past[me[w].job])
           \/ job[me[w].job].state \in Halted
  PROVE  QueueInv'
<1> DEFINE j == me[w].job
<1>1. /\ j \in Jobs /\ j # "none" /\ Runs(w, j) /\ job[j].state \in LegacyStates
      /\ me[w].pc \in Piping => job[j].kind # "research"
      /\ ~past[j].lapsed => Running(me[w], job[j], ctx[j], past[j])
  BY AtWork
<1>2. /\ me' \in [Workers -> Memories] /\ me'[w].pc = p /\ me'[w].job = j
      /\ me'[w].have = me[w].have /\ me'[w].write = NoWrite
      /\ \A v \in Workers \ {w} : me'[v] = me[v]
  BY PcMoves DEF QueueInv, Shape, Plain, Places
<1>3. Shape'
  BY <1>2 DEF QueueInv, Shape
<1>4. Minded(me'[w])
  BY <1>1, <1>2 DEF Minded, Plain, Ticking
<1>5. ASSUME ~past[j].lapsed
      PROVE  Running(me'[w], job'[j], ctx'[j], past'[j])
  BY <1>1, <1>2, <1>5 DEF Running, Plain
<1>6. faults' = 0 => Marked(me'[w], ctx'[j], past'[j]) /\ ~past'[j].twice
  BY <1>1, <1>2 DEF QueueInv, PaidOnce, Marked
<1>7. job'[j].state = "READY_FOR_REVIEW" /\ ~past[j].lapsed => Gated(ctx'[j], past'[j])
  BY <1>1 DEF QueueInv, Reviewed, Gated, Leadless
<1>8. job'[j].state # "NEW" /\ faults' >= faults
  BY <1>1, StatesAre DEF QueueInv, Shape
<1>9. QED
  BY <1>1, <1>2, <1>3, <1>4, <1>5, <1>6, <1>7, <1>8, OwnerMoves

(* A worker that takes its job to another state, or is refused and fails.    *)
LEMMA MovesOn ==
  ASSUME QueueInv, NEW w \in Workers, NEW p \in Plain, NEW s \in LegacyStates,
         me[w].pc \notin Ticking, me[w].write = NoWrite, MoveTo(w, s, p),
         UNCHANGED <<ctx, requeue, past, faults>>,
         p \in Piping => me[w].pc \in Piping,
         s = "READY_FOR_REVIEW" => p \in Ending /\ me[w].pc = "review"
  PROVE  QueueInv'
<1> DEFINE j == me[w].job
<1>1. /\ j \in Jobs /\ j # "none" /\ Runs(w, j) /\ job[j].state \in LegacyStates
      /\ me[w].pc \in Piping => job[j].kind # "research"
      /\ ~past[j].lapsed => Running(me[w], job[j], ctx[j], past[j])
  BY AtWork
<1>2. CASE ~Admits(j, s) /\ Goes(w, "fail") /\ UNCHANGED job
  BY <1>2, GoesOn DEF Plain, Places, Ticking, Ending, Piping
<1>3. CASE Transition(j, s) /\ Goes(w, p)
  <2>1. /\ me' \in [Workers -> Memories] /\ me'[w].pc = p /\ me'[w].job = j
        /\ me'[w].write = NoWrite
        /\ \A v \in Workers \ {w} : me'[v] = me[v]
    BY <1>3, PcMoves DEF QueueInv, Shape, Plain
  <2>2. /\ job' \in [Jobs -> JobRows]
        /\ job'[j].state = s /\ job'[j].kind = job[j].kind /\ job'[j].lease = job[j].lease
        /\ job'[j].attempts = job[j].attempts
        /\ \A k \in Jobs \ {j} : job'[k] = job[k]
    BY <1>1, <1>3, StateMoves DEF QueueInv, Transition
  <2>3. Shape'
    BY <2>1, <2>2 DEF QueueInv, Shape
  <2>4. Minded(me'[w])
    BY <1>1, <2>1 DEF Minded, Plain, Ticking
  <2>5. ASSUME ~past[j].lapsed
        PROVE  Running(me'[w], job'[j], ctx'[j], past'[j])
    BY <1>1, <2>1, <2>2, <2>5 DEF Running, Plain
  <2>6. faults' = 0 => Marked(me'[w], ctx'[j], past'[j]) /\ ~past'[j].twice
    BY <1>1, <2>1 DEF QueueInv, PaidOnce, Marked
  <2>7. ASSUME s = "READY_FOR_REVIEW", ~past[j].lapsed
        PROVE  Gated(ctx'[j], past'[j])
    <3>1. job[j].state \notin Halted
      BY <1>3, <2>7, HaltedAdmits DEF Transition, Admits
    <3>2. Gated(ctx[j], past[j])
      BY <1>1, <2>7, <3>1 DEF Running
    <3>3. QED  BY <3>2 DEF Gated, Leadless
  <2>8. job'[j].state # "NEW" /\ faults' >= faults
    BY <2>2, StatesAre DEF QueueInv, Shape
  <2>9. QED
    BY <1>1, <2>1, <2>2, <2>3, <2>4, <2>5, <2>6, <2>7, <2>8, OwnerMoves
<1>4. QED  BY <1>2, <1>3 DEF MoveTo

-----------------------------------------------------------------------------
(* The steps of a research run.                                              *)

(* Into a run, and up to its plan.                                           *)
LEMMA EnterHeld ==
  ASSUME QueueInv, NEW w \in Workers, me[w].write = NoWrite, Enter(w)
  PROVE  QueueInv'
<1>1. me[w].pc = "enter" /\ UNCHANGED <<ctx, requeue, past, faults>>
  BY DEF Enter
<1>2. Opening(me[w].job) \in {"verify", "turn", "plan"}
  BY DEF Opening
<1>3. CASE Goes(w, "summary") /\ UNCHANGED job
  BY <1>1, <1>3, GoesOn DEF Plain, Places, Ticking, Ending, Piping
<1>4. CASE Goes(w, Opening(me[w].job)) /\ UNCHANGED job
  BY <1>1, <1>2, <1>4, GoesOn DEF Plain, Places, Ticking, Ending, Piping, Writing
<1>5. CASE MoveTo(w, "RUNNING", Opening(me[w].job))
  BY <1>1, <1>2, <1>5, MovesOn, StatesAre DEF Plain, Places, Ticking, Ending, Piping, Writing
<1>6. QED  BY <1>3, <1>4, <1>5 DEF Enter

(* The transitions a run makes, each or refused.                             *)
LEMMA TransitionsHeld ==
  ASSUME QueueInv, NEW w \in Workers, me[w].write = NoWrite,
         Plan(w) \/ Verify(w) \/ Capacity(w) \/ ReadyForReview(w)
  PROVE  QueueInv'
<1>1. CASE Plan(w)
  BY <1>1, MovesOn, StatesAre DEF Plan, Plain, Places, Ticking, Ending, Piping, Writing
<1>2. CASE Verify(w)
  BY <1>2, MovesOn, StatesAre DEF Verify, Plain, Places, Ticking, Ending, Piping, Writing
<1>3. CASE Capacity(w)
  BY <1>3, MovesOn, StatesAre DEF Capacity, Plain, Places, Ticking, Ending, Piping, Writing
<1>4. CASE ReadyForReview(w)
  BY <1>4, MovesOn, StatesAre DEF ReadyForReview, Plain, Places, Ticking, Ending, Piping, Writing
<1>5. QED  BY <1>1, <1>2, <1>3, <1>4

(* What a worker away from the tick finds in the tables.                     *)
LEMMA Reads ==
  ASSUME QueueInv, NEW w \in Workers, me[w].pc \notin Ticking
  PROVE  /\ me[w] \in Memories /\ job[me[w].job] \in JobRows
         /\ ctx[me[w].job] \in Contexts /\ ctx[me[w].job].counters \in Counters
         /\ past[me[w].job] \in Histories
<1>1. me[w].job \in Jobs
  BY AtWork
<1>2. QED  BY <1>1 DEF QueueInv, Shape, Contexts

(* A context that changes in one row.                                        *)
LEMMA OneContext ==
  ASSUME Shape, NEW j \in Jobs, NEW c \in Contexts, ctx' = [ctx EXCEPT ![j] = c]
  PROVE  /\ ctx' \in [Jobs -> Contexts] /\ ctx'[j] = c
         /\ \A k \in Jobs \ {j} : ctx'[k] = ctx[k]
BY DEF Shape

(* The history of one job grows.                                             *)
LEMMA OneHistory ==
  ASSUME Shape, NEW j \in Jobs, NEW h \in Histories, past' = [past EXCEPT ![j] = h]
  PROVE  /\ past' \in [Jobs -> Histories] /\ past'[j] = h
         /\ \A k \in Jobs \ {j} : past'[k] = past[k]
BY DEF Shape

(* The plan, and the turns that are counted before they are taken.           *)
LEMMA PlannedHeld ==
  ASSUME QueueInv, NEW w \in Workers, me[w].write = NoWrite, Planned(w)
  PROVE  QueueInv'
<1> DEFINE j == me[w].job
<1>1. me[w].pc = "planning" /\ UNCHANGED <<job, requeue, past, faults>>
  BY DEF Planned
<1>2. /\ j \in Jobs /\ j # "none" /\ Runs(w, j) /\ job[j].state \in LegacyStates
      /\ ~past[j].lapsed => Running(me[w], job[j], ctx[j], past[j])
  BY <1>1, AtWork DEF Ticking
<1>3. CASE Goes(w, "capacity") /\ UNCHANGED ctx
  BY <1>1, <1>3, GoesOn DEF Plain, Places, Ticking, Ending, Piping
<1>4. CASE ctx' = [ctx EXCEPT ![j].plan = TRUE] /\ Goes(w, "turn")
  <2>1. PICK c \in Contexts : c = ctx[j]
    BY <1>2 DEF QueueInv, Shape
  <2>2. PICK d : d = [c EXCEPT !.plan = TRUE]
    OBVIOUS
  <2>3. d \in Contexts /\ d.counters = c.counters /\ d.facts = c.facts /\ d.leads = c.leads
    BY <2>2 DEF Contexts
  <2>4. ctx' \in [Jobs -> Contexts] /\ ctx'[j] = d /\ \A k \in Jobs \ {j} : ctx'[k] = ctx[k]
    BY <1>2, <1>4, <2>1, <2>2, <2>3 DEF QueueInv, Shape
  <2>5. /\ me' \in [Workers -> Memories] /\ me'[w].pc = "turn" /\ me'[w].job = j
        /\ me'[w].write = NoWrite
        /\ \A v \in Workers \ {w} : me'[v] = me[v]
    BY <1>4, PcMoves DEF QueueInv, Shape, Places
  <2>6. Shape' /\ Minded(me'[w])
    BY <1>1, <1>2, <2>4, <2>5 DEF QueueInv, Shape, Minded, Ticking
  <2>7. ASSUME ~past[j].lapsed
        PROVE  Running(me'[w], job'[j], ctx'[j], past'[j])
    BY <1>1, <1>2, <2>1, <2>3, <2>4, <2>5, <2>7 DEF Running, Ending
  <2>8. faults' = 0 => Marked(me'[w], ctx'[j], past'[j]) /\ ~past'[j].twice
    BY <1>1, <1>2, <2>1, <2>3, <2>4, <2>5 DEF QueueInv, PaidOnce, Marked
  <2>9. job'[j].state = "READY_FOR_REVIEW" /\ ~past[j].lapsed => Gated(ctx'[j], past'[j])
    BY <1>1, <1>2 DEF Running, Ending
  <2>10. job'[j].state # "NEW" /\ faults' >= faults
    BY <1>1, <1>2, StatesAre DEF QueueInv, Shape
  <2>11. QED
    BY <1>1, <1>2, <2>4, <2>5, <2>6, <2>7, <2>8, <2>9, <2>10, OwnerMoves DEF Piping
<1>5. QED  BY <1>3, <1>4 DEF Planned

(* A worker whose step only changes what it will write, its rows as they are. *)
LEMMA WritesOn ==
  ASSUME QueueInv, NEW w \in Workers, NEW p \in {"act", "verify"}, NEW c \in Counters,
         me[w].pc \notin Ticking \cup Ending, me[w].write = NoWrite, Change(w, c, p),
         c.tried = ctx[me[w].job].counters.tried,
         UNCHANGED <<job, ctx, requeue, past, faults>>
  PROVE  QueueInv'
<1> DEFINE j == me[w].job
<1>1. /\ j \in Jobs /\ j # "none" /\ Runs(w, j) /\ job[j].state \in LegacyStates
      /\ ~past[j].lapsed => Running(me[w], job[j], ctx[j], past[j])
  BY AtWork
<1>2. /\ me' \in [Workers -> Memories] /\ me'[w].pc = p /\ me'[w].job = j
      /\ me'[w].write = c /\ c # NoWrite
      /\ \A v \in Workers \ {w} : me'[v] = me[v]
  BY WriteMoves DEF QueueInv, Shape, Places, Writing
<1>3. Shape' /\ Minded(me'[w])
  BY <1>1, <1>2 DEF QueueInv, Shape, Minded, Ticking, Writing
<1>4. ASSUME ~past[j].lapsed
      PROVE  Running(me'[w], job'[j], ctx'[j], past'[j])
  BY <1>1, <1>2, <1>4 DEF Running
<1>5. faults' = 0 => Marked(me'[w], ctx'[j], past'[j]) /\ ~past'[j].twice
  BY <1>1, <1>2 DEF QueueInv, PaidOnce, Marked
<1>6. job'[j].state = "READY_FOR_REVIEW" /\ ~past[j].lapsed => Gated(ctx'[j], past'[j])
  BY <1>1 DEF Running
<1>7. job'[j].state # "NEW" /\ faults' >= faults
  BY <1>1, StatesAre DEF QueueInv, Shape
<1>8. QED
  BY <1>1, <1>2, <1>3, <1>4, <1>5, <1>6, <1>7, OwnerMoves DEF Piping

(* One more step of the counters.                                            *)
LEMMA StepCounted ==
  ASSUME NEW c \in Counters, NEW d, d = [c EXCEPT !.steps = @ + 1]
  PROVE  d \in Counters /\ d.tried = c.tried
BY DEF Counters

(* A turn is counted before it is taken; finalize marks that it has begun.   *)
LEMMA CountedHeld ==
  ASSUME QueueInv, NEW w \in Workers, me[w].write = NoWrite, Turn(w) \/ Finalize(w)
  PROVE  QueueInv'
<1> DEFINE c == ctx[me[w].job].counters
<1>1. me[w].pc \in {"turn", "finalize"} /\ UNCHANGED <<job, ctx, requeue, past, faults>>
  BY DEF Turn, Finalize
<1>2. c \in Counters
  BY <1>1, Reads DEF Ticking
<1>3. CASE Finalize(w)
  <2>1. PICK d : d = [c EXCEPT !.fin = TRUE]
    OBVIOUS
  <2>2. d \in Counters /\ d.tried = c.tried
    BY <1>2, <2>1 DEF Counters
  <2>3. Change(w, d, "verify")
    BY <1>3, <2>1 DEF Finalize
  <2>4. QED  BY <1>1, <2>2, <2>3, WritesOn DEF Ticking, Ending
<1>4. CASE Turn(w)
  <2>0. /\ me[w].pc \notin Ticking \cup Ending
        /\ \A p \in {"summary", "finalize"} : p \in Plain /\ p \notin Piping
    BY <1>1 DEF Plain, Places, Ticking, Ending, Piping
  <2>1. CASE Goes(w, "summary")
    BY <1>1, <2>0, <2>1, GoesOn
  <2>2. CASE Goes(w, "finalize")
    BY <1>1, <2>0, <2>2, GoesOn
  <2>3. CASE Change(w, [c EXCEPT !.steps = @ + 1], "act")
    <3>1. PICK d : d = [c EXCEPT !.steps = @ + 1]
      OBVIOUS
    <3>2. d \in Counters /\ d.tried = c.tried
      BY <1>2, <3>1, StepCounted, Zenon
    <3>3. Change(w, d, "act")
      BY <2>3, <3>1, Zenon
    <3>4. QED  BY <1>1, <3>2, <3>3, WritesOn DEF Ticking, Ending
  <2>4. QED  BY <1>4, <2>1, <2>2, <2>3 DEF Turn
<1>5. QED  BY <1>3, <1>4

(* A worker that turns to how its tick ends; a job is given up on the attempts *)
(* its row has.                                                              *)
LEMMA SettlesOn ==
  ASSUME QueueInv, NEW w \in Workers, NEW p \in {"settle", "failing"}, NEW s \in Sights,
         me[w].pc \notin Ticking, me[w].write = NoWrite,
         Sees(w, p, s), UNCHANGED <<job, ctx, requeue, past, faults>>,
         p = "failing" /\ s # "retry" => job[me[w].job].attempts >= MaxAttempts
  PROVE  QueueInv'
<1> DEFINE j == me[w].job
<1>1. /\ j \in Jobs /\ j # "none" /\ Runs(w, j) /\ job[j].state \in LegacyStates
      /\ ~past[j].lapsed => Running(me[w], job[j], ctx[j], past[j])
  BY AtWork
<1>2. /\ me' \in [Workers -> Memories] /\ me'[w].pc = p /\ me'[w].job = j
      /\ me'[w].saw = s /\ me'[w].write = NoWrite
      /\ \A v \in Workers \ {w} : me'[v] = me[v]
  <2>1. Shape /\ p \in Places
    BY DEF QueueInv, Places, Ending
  <2>2. QED  BY <2>1, SawMoves
<1>3. Shape' /\ Minded(me'[w])
  BY <1>1, <1>2 DEF QueueInv, Shape, Minded, Ticking
<1>4. ASSUME ~past[j].lapsed
      PROVE  Running(me'[w], job'[j], ctx'[j], past'[j])
  BY <1>1, <1>2, <1>4 DEF Running, Ending
<1>5. faults' = 0 => Marked(me'[w], ctx'[j], past'[j]) /\ ~past'[j].twice
  BY <1>1, <1>2 DEF QueueInv, PaidOnce, Marked
<1>6. job'[j].state = "READY_FOR_REVIEW" /\ ~past[j].lapsed => Gated(ctx'[j], past'[j])
  BY <1>1 DEF QueueInv, Reviewed, Gated, Leadless
<1>7. job'[j].state # "NEW" /\ faults' >= faults
  BY <1>1, StatesAre DEF QueueInv, Shape
<1>8. QED
  BY <1>1, <1>2, <1>3, <1>4, <1>5, <1>6, <1>7, OwnerMoves DEF Piping

(* A yield, a summary, and the reading of the attempts.                      *)
LEMMA SettlingHeld ==
  ASSUME QueueInv, NEW w \in Workers, me[w].write = NoWrite,
         OutOfTime(w) \/ Summary(w) \/ FailRead(w)
  PROVE  QueueInv'
<1>1. CASE OutOfTime(w)
  BY <1>1, SettlesOn DEF OutOfTime, Sees, Ticking, Sights
<1>2. CASE Summary(w)
  <2>1. me[w].pc = "summary"
    BY <1>2 DEF Summary
  <2>2. job[me[w].job].state \in Sights
    BY <2>1, AtWork DEF Sights, Ticking
  <2>3. QED  BY <1>2, <2>1, <2>2, SettlesOn DEF Summary, Sees, Ticking
<1>3. CASE FailRead(w)
  <2>1. me[w].pc \in {"fail", "settle"}
    BY <1>3 DEF FailRead
  <2>2. job[me[w].job].attempts \in Nat
    BY <2>1, Reads DEF Ticking, JobRows
  <2>3. PICK s : s = IF Retries(me[w].job) THEN "retry" ELSE "give up"
    OBVIOUS
  <2>6. Sees(w, "failing", s)
    BY <1>3, <2>3 DEF FailRead, Sees
  <2>7. ~Retries(me[w].job) => job[me[w].job].attempts >= MaxAttempts
    BY <2>2, QueueAssumption DEF Retries
  <2>8. s \in Sights /\ (s # "retry" => ~Retries(me[w].job))
    BY <2>3 DEF Sights
  <2>4. UNCHANGED <<job, ctx, requeue, past, faults>>
    BY <1>3 DEF FailRead
  <2>5. QED  BY <2>1, <2>4, <2>6, <2>7, <2>8, SettlesOn DEF Ticking
<1>4. QED  BY <1>1, <1>2, <1>3

(* The write of the counters makes what the worker had in mind the table's.  *)
LEMMA WriteCountersHeld ==
  ASSUME QueueInv, NEW w \in Workers, WriteCounters(w)
  PROVE  QueueInv'
<1> DEFINE j == me[w].job  m == me[w]
<1>1. m.write # NoWrite /\ UNCHANGED <<job, requeue, past, faults>>
  BY DEF WriteCounters
<1>2. m.pc \in Writing
  BY <1>1 DEF QueueInv, Minded
<1>3. /\ j \in Jobs /\ j # "none" /\ Runs(w, j) /\ job[j].state \in LegacyStates
      /\ ~past[j].lapsed => Running(m, job[j], ctx[j], past[j])
  BY <1>2, AtWork DEF Writing, Ticking
<1>4. m \in Memories
  BY DEF QueueInv, Shape
<1>5. m.write \in Counters
  BY <1>1, <1>4 DEF Memories
<1>6. PICK c \in Contexts : c = ctx[j]
  BY <1>3 DEF QueueInv, Shape
<1>7. PICK d : d = [c EXCEPT !.counters = m.write]
  OBVIOUS
<1>8. d \in Contexts /\ d.counters = m.write /\ d.facts = c.facts /\ d.leads = c.leads
  BY <1>5, <1>7 DEF Contexts
<1>9. ctx' \in [Jobs -> Contexts] /\ ctx'[j] = d /\ \A k \in Jobs \ {j} : ctx'[k] = ctx[k]
  BY <1>3, <1>6, <1>7, <1>8 DEF QueueInv, Shape, WriteCounters
<1>10. PICK n : n = [m EXCEPT !.write = NoWrite]
  OBVIOUS
<1>11. /\ n \in Memories /\ n.pc = m.pc /\ n.job = m.job /\ n.saw = m.saw
       /\ n.todo = m.todo /\ n.have = m.have /\ n.write = NoWrite
  BY <1>4, <1>10 DEF Memories
<1>12. me' = [me EXCEPT ![w] = n]
  BY <1>10 DEF WriteCounters
<1>13. me' \in [Workers -> Memories] /\ me'[w] = n /\ \A v \in Workers \ {w} : me'[v] = me[v]
  BY <1>11, <1>12 DEF QueueInv, Shape
<1>14. Shape' /\ Minded(me'[w])
  BY <1>1, <1>9, <1>11, <1>13 DEF QueueInv, Shape, Minded
<1>15. ASSUME ~past[j].lapsed
       PROVE  Running(me'[w], job'[j], ctx'[j], past'[j])
  BY <1>1, <1>2, <1>3, <1>6, <1>8, <1>9, <1>11, <1>13, <1>15
     DEF Running, Writing, Ending, Gated, Leadless
<1>16. faults' = 0 => Marked(me'[w], ctx'[j], past'[j]) /\ ~past'[j].twice
  BY <1>1, <1>3, <1>8, <1>9, <1>11, <1>13 DEF QueueInv, PaidOnce, Marked
<1>17. job'[j].state = "READY_FOR_REVIEW" /\ ~past[j].lapsed => Gated(ctx'[j], past'[j])
  BY <1>1, <1>2, <1>3 DEF Running, Writing, Ending
<1>18. job'[j].state # "NEW" /\ faults' >= faults
  BY <1>1, <1>3, StatesAre DEF QueueInv, Shape
<1>19. me'[w].pc \notin Piping /\ me'[w].job = j
  BY <1>2, <1>11, <1>13 DEF Piping, Writing
<1>20. QED
  BY <1>1, <1>3, <1>9, <1>13, <1>14, <1>15, <1>16, <1>17, <1>18, <1>19, OwnerMoves

(* A turn of the agent finds a company, asks the user or finds no provider.  *)
LEMMA ActHeld ==
  ASSUME QueueInv, NEW w \in Workers, me[w].write = NoWrite, Act(w)
  PROVE  QueueInv'
<1> DEFINE j == me[w].job
<1>1. me[w].pc = "act" /\ UNCHANGED <<requeue, past, faults>>
  BY DEF Act
<1>2. /\ j \in Jobs /\ j # "none" /\ Runs(w, j) /\ job[j].state \in LegacyStates
      /\ ~past[j].lapsed => Running(me[w], job[j], ctx[j], past[j])
  BY <1>1, AtWork DEF Ticking
<1>3. CASE Goes(w, "capacity") /\ UNCHANGED <<job, ctx>>
  BY <1>1, <1>3, GoesOn DEF Plain, Places, Ticking, Ending, Piping
<1>4. ASSUME NEW d \in Contexts, ctx' = [ctx EXCEPT ![j] = d],
             d.counters = ctx[j].counters, d.leads = ctx[j].leads,
             NEW p \in {"turn", "finalize"}, Goes(w, p),
             job' = job \/ Transition(j, "WAITING_FOR_USER")
      PROVE  QueueInv'
  <2>1. ctx' \in [Jobs -> Contexts] /\ ctx'[j] = d /\ \A k \in Jobs \ {j} : ctx'[k] = ctx[k]
    BY <1>2, <1>4 DEF QueueInv, Shape
  <2>2. /\ me' \in [Workers -> Memories] /\ me'[w].pc = p /\ me'[w].job = j
        /\ me'[w].write = NoWrite
        /\ \A v \in Workers \ {w} : me'[v] = me[v]
    BY <1>4, PcMoves DEF QueueInv, Shape, Places
  <2>3. /\ job' \in [Jobs -> JobRows] /\ job'[j].state \in {job[j].state, "WAITING_FOR_USER"}
        /\ job'[j].kind = job[j].kind /\ job'[j].lease = job[j].lease
        /\ job'[j].attempts = job[j].attempts /\ \A k \in Jobs \ {j} : job'[k] = job[k]
    BY <1>2, <1>4, StatesAre, StateMoves DEF QueueInv, Shape, Transition
  <2>4. Shape' /\ Minded(me'[w])
    BY <1>1, <1>2, <2>1, <2>2, <2>3 DEF QueueInv, Shape, Minded, Ticking
  <2>5. ASSUME ~past[j].lapsed
        PROVE  Running(me'[w], job'[j], ctx'[j], past'[j])
    BY <1>1, <1>2, <2>2, <2>3, <2>5 DEF Running, Ending
  <2>6. faults' = 0 => Marked(me'[w], ctx'[j], past'[j]) /\ ~past'[j].twice
    BY <1>1, <1>2, <1>4, <2>1, <2>2 DEF QueueInv, PaidOnce, Marked
  <2>7. job'[j].state = "READY_FOR_REVIEW" /\ ~past[j].lapsed => Gated(ctx'[j], past'[j])
    BY <1>1, <1>2, <2>3 DEF Running, Ending
  <2>8. job'[j].state # "NEW" /\ faults' >= faults
    BY <1>1, <1>2, <2>3, StatesAre DEF QueueInv, Shape
  <2>9. QED
    BY <1>1, <1>2, <2>1, <2>2, <2>3, <2>4, <2>5, <2>6, <2>7, <2>8, OwnerMoves DEF Piping
<1>5. PICK c \in Contexts : c = ctx[j]
  BY <1>2 DEF QueueInv, Shape
<1>6. ASSUME NEW new \in Found(j), ctx' = [ctx EXCEPT ![j].facts = @ \cup new], job' = job,
             NEW p \in {"turn", "finalize"}, Goes(w, p)
      PROVE  QueueInv'
  <2>1. PICK d : d = [c EXCEPT !.facts = c.facts \cup new]
    OBVIOUS
  <2>2. d \in Contexts /\ d.counters = c.counters /\ d.leads = c.leads
    BY <1>6, <2>1 DEF Contexts, Found
  <2>3. ctx' = [ctx EXCEPT ![j] = d]
    BY <1>5, <1>6, <2>1
  <2>4. QED  BY <1>4, <1>5, <1>6, <2>2, <2>3
<1>7. ASSUME ctx' = [ctx EXCEPT ![j].asked = TRUE], Transition(j, "WAITING_FOR_USER"),
             NEW p \in {"turn", "finalize"}, Goes(w, p)
      PROVE  QueueInv'
  <2>1. PICK d : d = [c EXCEPT !.asked = TRUE]
    OBVIOUS
  <2>2. d \in Contexts /\ d.counters = c.counters /\ d.leads = c.leads
    BY <2>1 DEF Contexts
  <2>3. ctx' = [ctx EXCEPT ![j] = d]
    BY <1>5, <1>7, <2>1
  <2>4. QED  BY <1>4, <1>5, <1>7, <2>2, <2>3
<1>8. QED  BY <1>3, <1>6, <1>7 DEF Act

(* The sweep pays for an address once: it marks what it tries, and takes up  *)
(* only what bears no mark.                                                  *)
LEMMA VerifyEmailHeld ==
  ASSUME QueueInv, NEW w \in Workers, me[w].write = NoWrite, VerifyEmail(w)
  PROVE  QueueInv'
<1> DEFINE j == me[w].job  c == ctx[j].counters
<1>1. me[w].pc = "sweep" /\ UNCHANGED <<job, ctx, requeue, faults>>
  BY DEF VerifyEmail
<1>2. /\ j \in Jobs /\ j # "none" /\ Runs(w, j) /\ job[j].state \in LegacyStates
      /\ ~past[j].lapsed => Running(me[w], job[j], ctx[j], past[j])
  BY <1>1, AtWork DEF Ticking
<1>3. c \in Counters /\ ctx[j].facts \subseteq Subjects
  BY <1>2 DEF QueueInv, Shape, Contexts
<1>4. CASE ctx[j].facts \subseteq c.tried \/ job[j].state \in {"CANCELLED", "PAUSED"}
  <2>1. Goes(w, "swept") /\ UNCHANGED past
    BY <1>4 DEF VerifyEmail
  <2>2. QED  BY <1>1, <1>4, <2>1, GoesOn DEF Plain, Places, Ticking, Ending, Piping, Halted
<1>5. CASE ~(ctx[j].facts \subseteq c.tried \/ job[j].state \in {"CANCELLED", "PAUSED"})
  <2>1. PICK s \in ctx[j].facts \ c.tried :
          /\ Change(w, [c EXCEPT !.tried = @ \cup {s}], "sweep")
          /\ past' = [past EXCEPT ![j].paid = @ \cup {s}, ![j].twice = @ \/ s \in past[j].paid]
    BY <1>5 DEF VerifyEmail
  <2>2. PICK d : d = [c EXCEPT !.tried = c.tried \cup {s}]
    OBVIOUS
  <2>3. d \in Counters /\ d.tried = c.tried \cup {s}
    BY <1>3, <2>2 DEF Counters
  <2>4. Change(w, d, "sweep")
    BY <2>1, <2>2
  <2>5. /\ me' \in [Workers -> Memories] /\ me'[w].pc = "sweep" /\ me'[w].job = j
        /\ me'[w].write = d /\ d # NoWrite
        /\ \A v \in Workers \ {w} : me'[v] = me[v]
    BY <2>3, <2>4, WriteMoves DEF QueueInv, Places, Writing
  <2>6. PICK h \in Histories : h = past[j]
    BY <1>2 DEF QueueInv, Shape
  <2>7. PICK n : n = [h EXCEPT !.paid = h.paid \cup {s}, !.twice = h.twice \/ s \in h.paid]
    OBVIOUS
  <2>8. /\ n \in Histories /\ n.lapsed = h.lapsed /\ n.leadless = h.leadless
        /\ n.paid = h.paid \cup {s} /\ n.twice = (h.twice \/ s \in h.paid)
    BY <1>3, <2>1, <2>7 DEF Histories
  <2>9. past' = [past EXCEPT ![j] = n]
    BY <2>1, <2>6, <2>7
  <2>10. past' \in [Jobs -> Histories] /\ past'[j] = n /\ \A k \in Jobs \ {j} : past'[k] = past[k]
    BY <1>2, <2>8, <2>9 DEF QueueInv, Shape
  <2>11. Shape' /\ Minded(me'[w])
    BY <1>1, <1>2, <2>5, <2>10 DEF QueueInv, Shape, Minded, Ticking, Writing
  <2>12. ASSUME ~past[j].lapsed
         PROVE  Running(me'[w], job'[j], ctx'[j], past'[j])
    BY <1>1, <1>2, <2>5, <2>12 DEF Running, Ending
  <2>13. faults' = 0 => Marked(me'[w], ctx'[j], past'[j]) /\ ~past'[j].twice
    <3>1. faults = 0 => ~h.twice /\ h.paid \subseteq c.tried
      BY <1>2, <2>6 DEF QueueInv, PaidOnce, Marked
    <3>2. QED  BY <1>1, <2>1, <2>3, <2>5, <2>8, <2>10, <3>1 DEF Marked
  <2>14. job'[j].state = "READY_FOR_REVIEW" /\ ~past[j].lapsed => Gated(ctx'[j], past'[j])
    BY <1>1, <1>2 DEF Running, Ending
  <2>15. job'[j].state # "NEW" /\ faults' >= faults
    BY <1>1, <1>2, StatesAre DEF QueueInv, Shape
  <2>16. past'[j].lapsed = past[j].lapsed
    BY <2>6, <2>8, <2>10
  <2>17. QED
    BY <1>1, <1>2, <2>5, <2>10, <2>11, <2>12, <2>13, <2>14, <2>15, <2>16, OwnerMoves DEF Piping
<1>6. QED  BY <1>4, <1>5

(* Qualification begins where nothing halted the job: the sweep is complete. *)
LEMMA QualifyingHeld ==
  ASSUME QueueInv, NEW w \in Workers, me[w].write = NoWrite, Qualifying(w)
  PROVE  QueueInv'
<1> DEFINE j == me[w].job  c == ctx[j]
<1>1. me[w].pc = "swept" /\ UNCHANGED <<ctx, requeue, faults>>
  BY DEF Qualifying
<1>2. /\ j \in Jobs /\ j # "none" /\ Runs(w, j) /\ job[j].state \in LegacyStates
      /\ ~past[j].lapsed => Running(me[w], job[j], ctx[j], past[j])
  BY <1>1, AtWork DEF Ticking
<1>3. me[w] \in Memories /\ c.counters.verdicts \subseteq Subjects /\ c.facts \subseteq Subjects
  BY <1>2 DEF QueueInv, Shape, Contexts, Counters
<1>4. CASE Goes(w, "fail") /\ UNCHANGED <<job, past>>
  BY <1>1, <1>4, GoesOn DEF Plain, Places, Ticking, Ending, Piping
<1>5. CASE /\ Transition(j, "QUALIFYING")
           /\ me' = [me EXCEPT ![w].pc = "qualify", ![w].have = Earned(c),
                               ![w].todo = c.facts \ c.counters.verdicts]
           /\ past' = [past EXCEPT ![j].leadless = {}]
  <2>13. PICK h \in Histories : h = past[j]
    BY <1>2 DEF QueueInv, Shape
  <2>14. PICK g : g = [h EXCEPT !.leadless = {}]
    OBVIOUS
  <2>15. g \in Histories /\ g.lapsed = h.lapsed /\ g.paid = h.paid /\ g.twice = h.twice
    BY <2>14 DEF Histories
  <2>16. past' = [past EXCEPT ![j] = g]
    BY <1>5, <2>13, <2>14
  <2>17. past' \in [Jobs -> Histories] /\ past'[j] = g /\ \A k \in Jobs \ {j} : past'[k] = past[k]
    BY <1>2, <2>15, <2>16 DEF QueueInv, Shape
  <2>1. PICK m \in Memories : m = me[w]
    BY <1>3
  <2>2. PICK n : n = [m EXCEPT !.pc = "qualify", !.have = Earned(c),
                               !.todo = c.facts \ c.counters.verdicts]
    OBVIOUS
  <2>3. /\ n \in Memories /\ n.pc = "qualify" /\ n.job = m.job /\ n.write = m.write
        /\ n.have = c.counters.verdicts /\ n.todo = c.facts \ c.counters.verdicts
    BY <1>3, <2>2 DEF Memories, Earned, Places, Writing
  <2>4. me' = [me EXCEPT ![w] = n]
    BY <1>5, <2>1, <2>2
  <2>5. me' \in [Workers -> Memories] /\ me'[w] = n /\ \A v \in Workers \ {w} : me'[v] = me[v]
    BY <2>3, <2>4 DEF QueueInv, Shape
  <2>6. /\ job' \in [Jobs -> JobRows]
        /\ job'[j].state = "QUALIFYING" /\ job'[j].kind = job[j].kind
        /\ job'[j].lease = job[j].lease /\ job'[j].attempts = job[j].attempts
        /\ \A k \in Jobs \ {j} : job'[k] = job[k]
    BY <1>2, <1>5, StatesAre, StateMoves DEF QueueInv, Transition
  <2>7. Shape' /\ Minded(me'[w])
    BY <1>1, <1>2, <2>1, <2>3, <2>5, <2>6, <2>17 DEF QueueInv, Shape, Minded, Ticking, Writing
  <2>8. ASSUME ~past[j].lapsed
        PROVE  Running(me'[w], job'[j], ctx'[j], past'[j])
    <3>1. job[j].state \notin Halted
      BY <1>5, HaltedAdmits DEF Transition, Admits
    <3>2. c.facts \subseteq c.counters.tried
      BY <1>1, <1>2, <2>8, <3>1 DEF Running
    <3>3. QED  BY <1>1, <1>2, <2>1, <2>3, <2>5, <2>6, <2>8, <3>2 DEF Running, Ending
  <2>9. faults' = 0 => Marked(me'[w], ctx'[j], past'[j]) /\ ~past'[j].twice
    BY <1>1, <1>2, <2>1, <2>3, <2>5, <2>13, <2>15, <2>17 DEF QueueInv, PaidOnce, Marked
  <2>10. job'[j].state # "NEW" /\ job'[j].state # "READY_FOR_REVIEW" /\ faults' >= faults
    BY <1>1, <2>6, StatesAre DEF QueueInv, Shape
  <2>11. me'[w].job = j /\ me'[w].pc \notin Piping
    BY <2>1, <2>3, <2>5 DEF Piping
  <2>12. QED
    BY <1>1, <1>2, <2>5, <2>6, <2>7, <2>8, <2>9, <2>10, <2>11, <2>13, <2>15, <2>17, OwnerMoves
<1>6. QED  BY <1>4, <1>5 DEF Qualifying

(* Each company researched has a verdict, an error, or its turn still to come. *)
LEMMA QualifyHeld ==
  ASSUME QueueInv, NEW w \in Workers, me[w].write = NoWrite, Qualify(w)
  PROVE  QueueInv'
<1> DEFINE j == me[w].job  c == ctx[j].counters
<1>1. me[w].pc = "qualify" /\ UNCHANGED <<job, ctx, requeue, faults>>
  BY DEF Qualify
<1>2. /\ j \in Jobs /\ j # "none" /\ Runs(w, j) /\ job[j].state \in LegacyStates
      /\ ~past[j].lapsed => Running(me[w], job[j], ctx[j], past[j])
  BY <1>1, AtWork DEF Ticking
<1>3. c \in Counters /\ ctx[j].facts \subseteq Subjects
  BY <1>2 DEF QueueInv, Shape, Contexts
<1>4. PICK m \in Memories : m = me[w]
  BY DEF QueueInv, Shape
<1>5. PICK h \in Histories : h = past[j]
  BY <1>2 DEF QueueInv, Shape
<1>6. CASE Goes(w, "gate") /\ UNCHANGED past /\
           (m.todo = {} \/ job[j].state \in {"CANCELLED", "PAUSED"})
  <2>1. ~past[j].lapsed =>
          ctx[j].facts \subseteq m.have \cup Leadless(past[j]) \/ job[j].state \in Halted
    BY <1>1, <1>2, <1>4, <1>6 DEF Running, Halted
  <2>2. QED
    BY <1>1, <1>4, <1>6, <2>1, GoesOn DEF Plain, Places, Ticking, Ending, Piping
<1>7. ASSUME me' \in [Workers -> Memories], \A v \in Workers \ {w} : me'[v] = me[v],
             NEW n, n = me'[w], n.pc = "qualify", n.job = j,
             past' \in [Jobs -> Histories], \A k \in Jobs \ {j} : past'[k] = past[k],
             NEW g, g = past'[j], g.lapsed = h.lapsed, g.paid = h.paid, g.twice = h.twice,
             n.write # NoWrite => n.write \in Counters /\ n.write.tried = c.tried,
             \A s \in m.have \cup m.todo \cup Leadless(h) : s \in n.have \cup n.todo \cup Leadless(g)
      PROVE  QueueInv'
  <2>3. Shape' /\ Minded(me'[w])
    BY <1>1, <1>2, <1>7 DEF QueueInv, Shape, Minded, Ticking, Writing
  <2>4. ASSUME ~past[j].lapsed
        PROVE  Running(me'[w], job'[j], ctx'[j], past'[j])
    <3>1. Running(m, job[j], ctx[j], h)
      BY <1>2, <1>4, <1>5, <2>4
    <3>2. /\ job[j].lease = "live" /\ job[j].state # "READY_FOR_REVIEW"
          /\ ctx[j].facts \subseteq c.tried
          /\ ctx[j].facts \subseteq m.have \cup m.todo \cup Leadless(h)
      BY <1>1, <1>4, <3>1 DEF Running, Ending
    <3>3. ctx[j].facts \subseteq n.have \cup n.todo \cup Leadless(g)
      BY <1>7, <3>2
    <3>4. n.write # NoWrite => ctx[j].facts \subseteq n.write.tried
      BY <1>7, <3>2
    <3>5. Running(n, job[j], ctx[j], g)
      BY <1>7, <3>2, <3>3, <3>4 DEF Running, Ending
    <3>6. QED  BY <1>1, <1>7, <3>5
  <2>5. faults' = 0 => Marked(me'[w], ctx'[j], past'[j]) /\ ~past'[j].twice
    <3>1. faults = 0 => ~h.twice /\ h.paid \subseteq c.tried
      BY <1>2, <1>5 DEF QueueInv, PaidOnce, Marked
    <3>2. QED  BY <1>1, <1>7, <3>1 DEF Marked
  <2>6. job'[j].state = "READY_FOR_REVIEW" /\ ~past[j].lapsed => Gated(ctx'[j], past'[j])
    BY <1>1, <1>2 DEF Running, Ending
  <2>7. /\ job'[j].state # "NEW" /\ faults' >= faults /\ past'[j].lapsed = past[j].lapsed
        /\ me'[w].job = j /\ me'[w].pc \notin Piping
    BY <1>1, <1>2, <1>5, <1>7, StatesAre DEF QueueInv, Shape, Piping
  <2>8. QED  BY <1>1, <1>2, <1>7, <2>3, <2>4, <2>5, <2>6, <2>7, OwnerMoves
<1>8. ASSUME NEW s \in m.todo,
             me' = [me EXCEPT ![w].todo = @ \ {s}, ![w].have = @ \cup {s},
                              ![w].write = [c EXCEPT !.verdicts = m.have \cup {s}]],
             UNCHANGED past
      PROVE  QueueInv'
  <2>1. PICK d : d = [c EXCEPT !.verdicts = m.have \cup {s}]
    OBVIOUS
  <2>2. d \in Counters /\ d.tried = c.tried
    BY <1>3, <1>4, <1>8, <2>1 DEF Counters, Memories
  <2>3. PICK n : n = [m EXCEPT !.todo = m.todo \ {s}, !.have = m.have \cup {s}, !.write = d]
    OBVIOUS
  <2>4. /\ n \in Memories /\ n.pc = m.pc /\ n.job = m.job /\ n.write = d
        /\ n.todo = m.todo \ {s} /\ n.have = m.have \cup {s}
    BY <1>4, <1>8, <2>2, <2>3 DEF Memories
  <2>5. me' = [me EXCEPT ![w] = n]
    BY <1>4, <1>8, <2>1, <2>3
  <2>6. me' \in [Workers -> Memories] /\ me'[w] = n /\ \A v \in Workers \ {w} : me'[v] = me[v]
    BY <2>4, <2>5 DEF QueueInv, Shape
  <2>9. past' \in [Jobs -> Histories] /\ past'[j] = h /\ \A k \in Jobs \ {j} : past'[k] = past[k]
    BY <1>2, <1>5, <1>8 DEF QueueInv, Shape
  <2>7. \A x \in m.have \cup m.todo \cup Leadless(h) : x \in n.have \cup n.todo \cup Leadless(h)
    BY <2>4
  <2>8. QED  BY <1>1, <1>4, <1>7, <2>2, <2>4, <2>6, <2>7, <2>9
<1>9. ASSUME NEW s \in m.todo, NEW cause \in Causes,
             me' = [me EXCEPT ![w].todo = @ \ {s}],
             past' = [past EXCEPT ![j].leadless = @ \cup {<<s, cause>>}]
      PROVE  QueueInv'
  <2>1. PICK n : n = [m EXCEPT !.todo = m.todo \ {s}]
    OBVIOUS
  <2>2. /\ n \in Memories /\ n.pc = m.pc /\ n.job = m.job /\ n.write = m.write
        /\ n.todo = m.todo \ {s} /\ n.have = m.have
    BY <2>1 DEF Memories
  <2>3. me' = [me EXCEPT ![w] = n]
    BY <1>4, <1>9, <2>1
  <2>4. PICK g : g = [h EXCEPT !.leadless = h.leadless \cup {<<s, cause>>}]
    OBVIOUS
  <2>5. s \in Subjects
    BY <1>9 DEF Memories
  <2>6. /\ g \in Histories /\ g.lapsed = h.lapsed /\ g.paid = h.paid /\ g.twice = h.twice
        /\ g.leadless = h.leadless \cup {<<s, cause>>}
    <3>1. {<<s, cause>>} \subseteq Subjects \X (Causes \cup {"thin"})
      BY <1>9, <2>5
    <3>2. QED  BY <2>4, <3>1 DEF Histories
  <2>7. past' = [past EXCEPT ![j] = g]
    BY <1>5, <1>9, <2>4
  <2>8. Leadless(h) \subseteq Leadless(g) /\ s \in Leadless(g)
    <3>1. \A e \in h.leadless : e \in g.leadless
      BY <2>6
    <3>2. <<s, cause>> \in g.leadless /\ <<s, cause>>[1] = s
      BY <2>6
    <3>3. QED  BY <3>1, <3>2 DEF Leadless
  <2>9. \A x \in m.have \cup m.todo \cup Leadless(h) : x \in n.have \cup n.todo \cup Leadless(g)
    BY <2>2, <2>8
  <2>10. n.write = NoWrite /\ n.pc = "qualify" /\ n.job = j
    BY <1>1, <1>4, <2>2
  <2>11. me' \in [Workers -> Memories] /\ me'[w] = n /\ \A v \in Workers \ {w} : me'[v] = me[v]
    BY <2>2, <2>3 DEF QueueInv, Shape
  <2>12. past' \in [Jobs -> Histories] /\ past'[j] = g /\ \A k \in Jobs \ {j} : past'[k] = past[k]
    BY <1>2, <2>6, <2>7 DEF QueueInv, Shape
  <2>13. g.lapsed = h.lapsed /\ g.paid = h.paid /\ g.twice = h.twice
    BY <2>6
  <2>14. QED  BY <1>7, <2>9, <2>10, <2>11, <2>12, <2>13
<1>10. QED
  <2>1. CASE m.todo = {} \/ job[j].state \in {"CANCELLED", "PAUSED"}
    BY <1>4, <1>6, <2>1 DEF Qualify
  <2>2. CASE ~(m.todo = {} \/ job[j].state \in {"CANCELLED", "PAUSED"})
    BY <1>4, <1>8, <1>9, <2>2 DEF Qualify
  <2>3. QED  BY <2>1, <2>2

(* The leads are inserted for every verdict before the resume markers go.    *)
LEMMA GateHeld ==
  ASSUME QueueInv, NEW w \in Workers, me[w].write = NoWrite, Gate(w)
  PROVE  QueueInv'
<1> DEFINE j == me[w].job
<1>1. me[w].pc = "gate" /\ UNCHANGED <<job, requeue, faults>>
  BY DEF Gate
<1>2. /\ j \in Jobs /\ j # "none" /\ Runs(w, j) /\ job[j].state \in LegacyStates
      /\ ~past[j].lapsed => Running(me[w], job[j], ctx[j], past[j])
  BY <1>1, AtWork DEF Ticking
<1>3. me[w] \in Memories
  BY DEF QueueInv, Shape
<1>4. PICK c \in Contexts : c = ctx[j]
  BY <1>2 DEF QueueInv, Shape
<1>5. PICK h \in Histories : h = past[j]
  BY <1>2 DEF QueueInv, Shape
<1>6. PICK d : d = [NoCounters EXCEPT !.steps = c.counters.steps]
  OBVIOUS
<1>7. d \in Counters
  BY <1>4, <1>6 DEF Contexts, Counters, NoCounters
<1>8. Change(w, d, "review")
  BY <1>4, <1>6 DEF Gate
<1>9. /\ me' \in [Workers -> Memories] /\ me'[w].pc = "review" /\ me'[w].job = j
      /\ me'[w].write = d /\ d # NoWrite
      /\ \A v \in Workers \ {w} : me'[v] = me[v]
  BY <1>7, <1>8, WriteMoves DEF QueueInv, Places, Writing
<1>24. PICK thin \in SUBSET me[w].have :
         /\ ctx' = [ctx EXCEPT ![j].leads = @ \cup (me[w].have \ thin)]
         /\ past' = [past EXCEPT ![j].paid = {}, ![j].leadless = @ \cup (thin \X {"thin"})]
  BY DEF Gate
<1>25. thin \subseteq Subjects
  BY <1>3 DEF Memories
<1>10. PICK n : n = [c EXCEPT !.leads = c.leads \cup (me[w].have \ thin)]
  OBVIOUS
<1>11. /\ n \in Contexts /\ n.facts = c.facts /\ n.counters = c.counters
       /\ n.leads = c.leads \cup (me[w].have \ thin)
  BY <1>3, <1>10 DEF Contexts, Memories
<1>12. ctx' = [ctx EXCEPT ![j] = n]
  BY <1>4, <1>10, <1>24
<1>13. ctx' \in [Jobs -> Contexts] /\ ctx'[j] = n /\ \A k \in Jobs \ {j} : ctx'[k] = ctx[k]
  BY <1>2, <1>11, <1>12 DEF QueueInv, Shape
<1>14. PICK g : g = [h EXCEPT !.paid = {}, !.leadless = h.leadless \cup (thin \X {"thin"})]
  OBVIOUS
<1>26. thin \X {"thin"} \subseteq Subjects \X (Causes \cup {"thin"})
  BY <1>25
<1>15. /\ g \in Histories /\ g.lapsed = h.lapsed
       /\ g.leadless = h.leadless \cup (thin \X {"thin"})
       /\ g.twice = h.twice /\ g.paid = {}
  BY <1>14, <1>26 DEF Histories
<1>16. past' = [past EXCEPT ![j] = g]
  BY <1>5, <1>14, <1>24
<1>17. past' \in [Jobs -> Histories] /\ past'[j] = g /\ \A k \in Jobs \ {j} : past'[k] = past[k]
  BY <1>2, <1>15, <1>16 DEF QueueInv, Shape
<1>18. Shape' /\ Minded(me'[w])
  BY <1>1, <1>2, <1>9, <1>13, <1>17 DEF QueueInv, Shape, Minded, Ticking, Writing
<1>19. ASSUME ~past[j].lapsed
       PROVE  Running(me'[w], job'[j], ctx'[j], past'[j])
  <2>1. /\ job[j].lease = "live" /\ job[j].state # "READY_FOR_REVIEW"
        /\ c.facts \subseteq me[w].have \cup Leadless(h) \/ job[j].state \in Halted
    BY <1>1, <1>2, <1>4, <1>5, <1>19 DEF Running, Ending
  <2>2. Leadless(h) \cup thin \subseteq Leadless(g)
    <3>1. \A e \in h.leadless : e \in g.leadless
      BY <1>15
    <3>2. \A s \in thin : <<s, "thin">> \in g.leadless /\ <<s, "thin">>[1] = s
      BY <1>15
    <3>3. QED  BY <3>1, <3>2 DEF Leadless
  <2>3. Gated(n, g) \/ job[j].state \in Halted
    BY <1>11, <2>1, <2>2 DEF Gated
  <2>4. QED  BY <1>1, <1>9, <1>13, <1>17, <2>1, <2>3 DEF Running
<1>20. faults' = 0 => Marked(me'[w], ctx'[j], past'[j]) /\ ~past'[j].twice
  <2>1. faults = 0 => ~h.twice
    BY <1>2, <1>5 DEF QueueInv, PaidOnce
  <2>2. QED  BY <1>1, <1>9, <1>15, <1>17, <2>1 DEF Marked
<1>21. job'[j].state = "READY_FOR_REVIEW" /\ ~past[j].lapsed => Gated(ctx'[j], past'[j])
  BY <1>1, <1>2 DEF Running, Ending
<1>22. /\ job'[j].state # "NEW" /\ faults' >= faults /\ past'[j].lapsed = past[j].lapsed
       /\ me'[w].pc \notin Piping
  BY <1>1, <1>2, <1>5, <1>9, <1>15, <1>17, StatesAre DEF QueueInv, Shape, Piping
<1>23. QED
  BY <1>1, <1>2, <1>9, <1>13, <1>17, <1>18, <1>19, <1>20, <1>21, <1>22, OwnerMoves

-----------------------------------------------------------------------------
(* Steps that change the row of the job a worker runs.                       *)

(* A worker may write the row of its job as long as the lease stays and it   *)
(* does not bring the job to the review gate.                                *)
LEMMA RowMoves ==
  ASSUME QueueInv, NEW w \in Workers, me[w].pc \notin Ticking, me[w].write = NoWrite,
         NEW p \in Plain, me' \in [Workers -> Memories],
         me'[w].pc = p, me'[w].job = me[w].job, me'[w].write = NoWrite,
         \A v \in Workers \ {w} : me'[v] = me[v],
         p \in Piping => me[w].pc \in Piping,
         p \notin Ending => me[w].pc \notin Ending,
         NEW r \in JobRows, job' = [job EXCEPT ![me[w].job] = r],
         r.state # "NEW", r.kind = job[me[w].job].kind, r.lease = job[me[w].job].lease,
         r.state = "READY_FOR_REVIEW" => job[me[w].job].state = "READY_FOR_REVIEW",
         UNCHANGED <<requeue, past, faults>>, ctx' \in [Jobs -> Contexts],
         \A k \in Jobs \ {me[w].job} : ctx'[k] = ctx[k],
         ctx'[me[w].job].facts = ctx[me[w].job].facts,
         ctx'[me[w].job].counters = ctx[me[w].job].counters,
         ctx[me[w].job].leads \subseteq ctx'[me[w].job].leads
  PROVE  QueueInv'
<1> DEFINE j == me[w].job
<1>1. /\ j \in Jobs /\ j # "none" /\ Runs(w, j) /\ job[j].state \in LegacyStates
      /\ me[w].pc \in Piping => job[j].kind # "research"
      /\ ~past[j].lapsed => Running(me[w], job[j], ctx[j], past[j])
  BY AtWork
<1>2. job' \in [Jobs -> JobRows] /\ job'[j] = r /\ \A k \in Jobs \ {j} : job'[k] = job[k]
  BY <1>1 DEF QueueInv, Shape
<1>3. Shape' /\ Minded(me'[w])
  BY <1>1, <1>2 DEF QueueInv, Shape, Minded, Plain
<1>4. ASSUME ~past[j].lapsed
      PROVE  Running(me'[w], job'[j], ctx'[j], past'[j])
  BY <1>1, <1>2, <1>4 DEF Running, Plain
<1>5. faults' = 0 => Marked(me'[w], ctx'[j], past'[j]) /\ ~past'[j].twice
  BY <1>1 DEF QueueInv, PaidOnce, Marked
<1>6. job'[j].state = "READY_FOR_REVIEW" /\ ~past[j].lapsed => Gated(ctx'[j], past'[j])
  BY <1>1, <1>2 DEF QueueInv, Reviewed, Gated, Leadless
<1>7. job'[j].state # "NEW" /\ faults' >= faults
  BY <1>2 DEF QueueInv, Shape
<1>8. QED
  BY <1>1, <1>2, <1>3, <1>4, <1>5, <1>6, <1>7, OwnerMoves

(* The same for a change of state alone.                                     *)
LEMMA RunMoves ==
  ASSUME QueueInv, NEW w \in Workers, NEW p \in Plain,
         NEW s \in LegacyStates \ {"READY_FOR_REVIEW"},
         me[w].pc \notin Ticking \cup Ending, me[w].write = NoWrite, Goes(w, p),
         p \in Piping => me[w].pc \in Piping,
         job' = [job EXCEPT ![me[w].job].state = s],
         UNCHANGED <<ctx, requeue, past, faults>>
  PROVE  QueueInv'
<1> DEFINE j == me[w].job
<1>1. j \in Jobs
  BY AtWork
<1>2. /\ me' \in [Workers -> Memories] /\ me'[w].pc = p /\ me'[w].job = j
      /\ me'[w].write = NoWrite /\ \A v \in Workers \ {w} : me'[v] = me[v]
  BY PcMoves DEF QueueInv, Plain
<1>3. PICK r \in JobRows : r = job[j]
  BY <1>1 DEF QueueInv, Shape
<1>4. PICK n : n = [r EXCEPT !.state = s]
  OBVIOUS
<1>5. n \in JobRows /\ n.state = s /\ n.kind = r.kind /\ n.lease = r.lease
  BY <1>4 DEF JobRows
<1>6. job' = [job EXCEPT ![j] = n]
  BY <1>3, <1>4
<1>7. s # "NEW" /\ s # "READY_FOR_REVIEW"
  BY StatesAre
<1>8. ctx' \in [Jobs -> Contexts]
  BY DEF QueueInv, Shape
<1>9. QED  BY <1>2, <1>3, <1>5, <1>6, <1>7, <1>8, RowMoves

(* resume_at is written once the job is paused.                              *)
LEMMA PausingHeld ==
  ASSUME QueueInv, NEW w \in Workers, me[w].write = NoWrite, Pausing(w)
  PROVE  QueueInv'
<1> DEFINE j == me[w].job
<1>1. me[w].pc = "pausing" /\ UNCHANGED <<ctx, requeue, past, faults>>
  BY DEF Pausing
<1>2. j \in Jobs /\ job[j].state \in LegacyStates
  BY <1>1, AtWork DEF Ticking
<1>3. PICK r \in JobRows : r = job[j]
  BY <1>2 DEF QueueInv, Shape
<1>4. PICK n : n = [r EXCEPT !.due = "later"]
  OBVIOUS
<1>5. n \in JobRows /\ n.state = r.state /\ n.kind = r.kind /\ n.lease = r.lease
  BY <1>4 DEF JobRows
<1>6. job' = [job EXCEPT ![j] = n]
  BY <1>3, <1>4 DEF Pausing
<1>7. PICK p \in {"summary", "settle"} :
        /\ me' \in [Workers -> Memories] /\ me'[w].pc = p /\ me'[w].job = j
        /\ me'[w].write = NoWrite /\ \A v \in Workers \ {w} : me'[v] = me[v]
  <2>1. Goes(w, "summary") \/ Sees(w, "settle", "PAUSED")
    BY DEF Pausing, Sees
  <2>2. "summary" \in Places /\ "settle" \in Places /\ "PAUSED" \in Sights /\ Shape
    BY StatesAre DEF Places, Ending, Sights, QueueInv
  <2>3. CASE Goes(w, "summary")
    BY <2>2, <2>3, PcMoves
  <2>4. CASE Sees(w, "settle", "PAUSED")
    BY <2>2, <2>4, SawMoves
  <2>5. QED  BY <2>1, <2>3, <2>4
<1>8. ctx' \in [Jobs -> Contexts] /\ n.state # "NEW"
  BY <1>1, <1>2, <1>3, <1>5, StatesAre DEF QueueInv, Shape
<1>9. me[w].pc \notin Ticking \cup Ending /\ p \in Plain /\ p \notin Piping
  BY <1>1 DEF Ticking, Ending, Plain, Places, Piping
<1>10. QED  BY <1>1, <1>3, <1>5, <1>6, <1>7, <1>8, <1>9, RowMoves

(* A run of the discovery pipeline, up to the completion of its job.         *)
LEMMA PipelineHeld ==
  ASSUME QueueInv, NEW w \in Workers, me[w].write = NoWrite, RunJob(w)
  PROVE  QueueInv'
<1> DEFINE j == me[w].job
<1>1. me[w].pc \in Piping /\ UNCHANGED <<requeue, past, faults>>
  BY DEF RunJob, Pipe, RunStages, Degrade, Wrap, Broken, Piping
<1>2. j \in Jobs /\ job[j].state \in LegacyStates /\ me[w].pc \notin Ticking \cup Ending
  BY <1>1, AtWork DEF Piping, Ticking, Ending
<1>3. /\ {"stages", "degrade", "wrap", "broken", "complete", "fail"} \subseteq Plain
      /\ "fail" \notin Piping /\ "capacity" \in Plain \ Piping
  BY DEF Plain, Places, Piping, Ending, Ticking
<1>4. CASE Pipe(w)
  <2>1. CASE Goes(w, "stages") /\ UNCHANGED <<job, ctx>>
    BY <1>1, <1>2, <1>3, <2>1, GoesOn
  <2>2. CASE MoveTo(w, "RUNNING", "stages") /\ UNCHANGED ctx
    BY <1>1, <1>2, <1>3, <2>2, StatesAre, MovesOn
  <2>3. QED  BY <1>4, <2>1, <2>2 DEF Pipe
<1>5. CASE RunStages(w)
  <2>1. CASE Goes(w, "capacity") /\ UNCHANGED <<job, ctx>>
    BY <1>1, <1>2, <1>3, <2>1, GoesOn
  <2>2. ASSUME ctx' = [ctx EXCEPT ![j].leads = Subjects], UNCHANGED job,
               NEW p \in {"degrade", "wrap"}, Goes(w, p)
        PROVE  QueueInv'
    <3>1. PICK c \in Contexts : c = ctx[j]
      BY <1>2 DEF QueueInv, Shape
    <3>2. PICK d : d = [c EXCEPT !.leads = Subjects]
      OBVIOUS
    <3>3. /\ d \in Contexts /\ d.facts = c.facts /\ d.counters = c.counters
          /\ c.leads \subseteq d.leads
      BY <3>2 DEF Contexts
    <3>4. ctx' = [ctx EXCEPT ![j] = d]
      BY <2>2, <3>1, <3>2
    <3>5. ctx' \in [Jobs -> Contexts] /\ ctx'[j] = d /\ \A k \in Jobs \ {j} : ctx'[k] = ctx[k]
      BY <1>2, <3>3, <3>4 DEF QueueInv, Shape
    <3>6. /\ me' \in [Workers -> Memories] /\ me'[w].pc = p /\ me'[w].job = j
          /\ me'[w].write = NoWrite /\ \A v \in Workers \ {w} : me'[v] = me[v]
      BY <1>3, <2>2, PcMoves DEF QueueInv, Plain
    <3>7. job[j] \in JobRows /\ job' = [job EXCEPT ![j] = job[j]] /\ job[j].state # "NEW"
      BY <1>2, <2>2, StatesAre DEF QueueInv, Shape
    <3>8. p \in Plain
      BY <1>3
    <3>9. QED  BY <1>1, <1>2, <3>1, <3>3, <3>5, <3>6, <3>7, <3>8, RowMoves
  <2>3. QED  BY <1>5, <2>1, <2>2 DEF RunStages
<1>6. CASE Degrade(w)
  <2>1. CASE Transition(j, "DEGRADED") /\ Goes(w, "wrap") /\ UNCHANGED ctx
    BY <1>1, <1>2, <1>3, <2>1, StatesAre, RunMoves DEF Transition
  <2>2. CASE Goes(w, "broken") /\ UNCHANGED <<job, ctx>>
    BY <1>1, <1>2, <1>3, <2>2, GoesOn
  <2>3. QED  BY <1>6, <2>1, <2>2 DEF Degrade
<1>7. CASE Wrap(w)
  <2>1. CASE Goes(w, "wrap") /\ job' = [job EXCEPT ![j].state = "RUNNING"] /\ UNCHANGED ctx
    BY <1>1, <1>2, <1>3, <2>1, StatesAre, RunMoves
  <2>2. CASE Transition(j, "COMPLETED") /\ Goes(w, "complete") /\ UNCHANGED ctx
    BY <1>1, <1>2, <1>3, <2>2, StatesAre, RunMoves DEF Transition
  <2>3. CASE Goes(w, "broken") /\ UNCHANGED <<job, ctx>>
    BY <1>1, <1>2, <1>3, <2>3, GoesOn
  <2>4. QED  BY <1>7, <2>1, <2>2, <2>3 DEF Wrap
<1>8. CASE Broken(w)
  <2>1. CASE Goes(w, "fail") /\ UNCHANGED <<job, ctx>>
    BY <1>1, <1>2, <1>3, <2>1, GoesOn DEF Ending
  <2>2. CASE Goes(w, "fail") /\ job' = [job EXCEPT ![j].state = "FAILED"] /\ UNCHANGED ctx
    BY <1>1, <1>2, <1>3, <2>2, StatesAre, RunMoves
  <2>3. QED  BY <1>8, <2>1, <2>2 DEF Broken
<1>9. QED  BY <1>4, <1>5, <1>6, <1>7, <1>8 DEF RunJob

-----------------------------------------------------------------------------
(* How a tick ends.                                                          *)

(* A worker without a job.                                                   *)
LEMMA IdleIs ==
  /\ Idle \in Memories /\ Idle.pc = "tick" /\ Idle.job = "none" /\ Idle.write = NoWrite
  /\ Minded(Idle)
BY DEF Idle, Memories, Places, Ticking, Sights, Minded

(* A tick ends with one write to the row; the worker forgets the job.        *)
LEMMA EndsHeld ==
  ASSUME QueueInv, NEW w \in Workers, me[w].pc \notin Ticking, me[w].write = NoWrite,
         NEW r \in JobRows, Ends(w, r), r.state # "NEW", r.kind = job[me[w].job].kind,
         r.state = "READY_FOR_REVIEW" => job[me[w].job].state = "READY_FOR_REVIEW"
  PROVE  QueueInv'
<1> DEFINE j == me[w].job
<1>1. j \in Jobs /\ j # "none" /\ Runs(w, j)
  BY AtWork
<1>2. UNCHANGED <<ctx, requeue, past, faults>>
  BY DEF Ends
<1>3. job' \in [Jobs -> JobRows] /\ job'[j] = r /\ \A k \in Jobs \ {j} : job'[k] = job[k]
  BY <1>1 DEF QueueInv, Shape, Ends
<1>4. /\ me' \in [Workers -> Memories] /\ me'[w] = Idle
      /\ \A v \in Workers \ {w} : me'[v] = me[v]
  BY IdleIs DEF QueueInv, Shape, Ends
<1>5. Shape' /\ Minded(me'[w]) /\ me'[w].job = "none"
  BY <1>2, <1>3, <1>4, IdleIs DEF QueueInv, Shape
<1>6. faults' = 0 => ~past'[j].twice /\ past'[j].paid \subseteq ctx'[j].counters.tried
  BY <1>1, <1>2 DEF QueueInv, PaidOnce, Marked
<1>7. job'[j].state = "READY_FOR_REVIEW" /\ ~past[j].lapsed => Gated(ctx'[j], past'[j])
  BY <1>1, <1>2, <1>3 DEF QueueInv, Reviewed, Gated, Leadless
<1>8. faults' >= faults
  BY <1>2 DEF QueueInv, Shape
<1>9. QED
  BY <1>1, <1>2, <1>3, <1>4, <1>5, <1>6, <1>7, <1>8, OwnerMoves

(* The four ends of a tick.                                                  *)
LEMMA EndingHeld ==
  ASSUME QueueInv, NEW w \in Workers, me[w].write = NoWrite,
         Complete(w) \/ Release(w) \/ YieldSlice(w) \/ Fail(w)
  PROVE  QueueInv'
<1> DEFINE j == me[w].job
<1>1. me[w].pc \notin Ticking
  BY DEF Complete, Release, YieldSlice, Fail, Ticking
<1>2. j \in Jobs /\ job[j].state \in LegacyStates
  BY <1>1, AtWork
<1>3. PICK r \in JobRows : r = job[j]
  BY <1>2 DEF QueueInv, Shape
<1>4. ASSUME NEW s \in LegacyStates \ {"READY_FOR_REVIEW"}, Ends(w, Freed(r, s))
      PROVE  QueueInv'
  <2>1. PICK n : n = Freed(r, s)
    OBVIOUS
  <2>2. n \in JobRows /\ n.state = s /\ n.kind = r.kind
    BY <2>1 DEF Freed, JobRows
  <2>3. QED  BY <1>1, <1>3, <1>4, <2>1, <2>2, StatesAre, EndsHeld
<1>5. CASE Complete(w)
  BY <1>3, <1>4, <1>5, StatesAre DEF Complete
<1>6. CASE Release(w)
  <2>1. PICK n : n = [r EXCEPT !.lease = "none"]
    OBVIOUS
  <2>2. n \in JobRows /\ n.state = r.state /\ n.kind = r.kind
    BY <2>1 DEF JobRows
  <2>3. Ends(w, n)
    BY <1>3, <1>6, <2>1 DEF Release
  <2>4. QED  BY <1>1, <1>2, <1>3, <2>2, <2>3, StatesAre, EndsHeld
<1>7. CASE YieldSlice(w)
  <2>1. PICK f : f = Freed(r, "QUEUED")
    OBVIOUS
  <2>2. f \in JobRows /\ f.state = "QUEUED" /\ f.kind = r.kind /\ f.lease = "none"
    BY <2>1, StatesAre DEF Freed, JobRows
  <2>3. PICK a : a = IF r.attempts > 0 THEN r.attempts - 1 ELSE 0
    OBVIOUS
  <2>4. a \in 0 .. MaxAttempts
    <3>1. r.attempts \in 0 .. MaxAttempts /\ MaxAttempts \in Nat
      BY QueueAssumption DEF JobRows
    <3>2. QED  BY <2>3, <3>1
  <2>5. PICK n : n = [f EXCEPT !.due = "none", !.attempts = a]
    OBVIOUS
  <2>6. n \in JobRows /\ n.state = "QUEUED" /\ n.kind = r.kind
    BY <2>2, <2>4, <2>5 DEF JobRows
  <2>7. Ends(w, n)
    BY <1>3, <1>7, <2>1, <2>3, <2>5 DEF YieldSlice
  <2>8. QED  BY <1>1, <1>3, <2>6, <2>7, EndsHeld
<1>8. CASE Fail(w)
  <2>1. CASE me[w].saw # "retry"
    BY <1>3, <1>4, <1>8, <2>1, StatesAre DEF Fail
  <2>2. CASE me[w].saw = "retry"
    <3>1. PICK f : f = Freed(r, "QUEUED")
      OBVIOUS
    <3>2. f \in JobRows /\ f.state = "QUEUED" /\ f.kind = r.kind
      BY <3>1, StatesAre DEF Freed, JobRows
    <3>3. PICK n : n = [f EXCEPT !.due = "later"]
      OBVIOUS
    <3>4. n \in JobRows /\ n.state = "QUEUED" /\ n.kind = r.kind
      BY <3>2, <3>3 DEF JobRows
    <3>5. Ends(w, n)
      BY <1>3, <1>8, <2>2, <3>1, <3>3 DEF Fail
    <3>6. QED  BY <1>1, <1>3, <3>4, <3>5, EndsHeld
  <2>3. QED  BY <2>1, <2>2
<1>9. QED  BY <1>5, <1>6, <1>7, <1>8

-----------------------------------------------------------------------------
(* Faults, and time.                                                         *)

(* An exception costs the worker what it had in mind and not yet written.    *)
LEMMA RaiseHeld ==
  ASSUME QueueInv, NEW w \in Workers, Raise(w)
  PROVE  QueueInv'
<1> DEFINE j == me[w].job
<1>1. /\ j # "none" /\ UNCHANGED <<job, ctx, requeue, past>> /\ faults' = faults + 1
      /\ me[w].pc \notin {"fail", "failing", "complete", "settle", "broken"}
  BY DEF Raise
<1>2. me[w].pc \notin Ticking
  BY <1>1 DEF QueueInv, Minded
<1>3. /\ j \in Jobs /\ Runs(w, j) /\ job[j].state \in LegacyStates
      /\ me[w].pc \in Piping => job[j].kind # "research"
      /\ ~past[j].lapsed => Running(me[w], job[j], ctx[j], past[j])
  BY <1>2, AtWork
<1>4. PICK m \in Memories : m = me[w]
  BY DEF QueueInv, Shape
<1>5. PICK p : p = IF m.pc \in {"stages", "degrade", "wrap"} THEN "broken" ELSE "fail"
  OBVIOUS
<1>6. p \in Plain /\ (p \in Piping => m.pc \in Piping) /\ (p \notin Ending => m.pc \notin Ending)
  BY <1>5 DEF Plain, Places, Piping, Ending, Ticking
<1>7. PICK n : n = [m EXCEPT !.write = NoWrite, !.pc = p]
  OBVIOUS
<1>8. n \in Memories /\ n.pc = p /\ n.job = m.job /\ n.write = NoWrite
  BY <1>6, <1>7 DEF Memories, Plain
<1>9. me' = [me EXCEPT ![w] = n]
  BY <1>4, <1>5, <1>7 DEF Raise
<1>10. me' \in [Workers -> Memories] /\ me'[w] = n /\ \A v \in Workers \ {w} : me'[v] = me[v]
  BY <1>8, <1>9 DEF QueueInv, Shape
<1>11. Shape' /\ Minded(me'[w])
  BY <1>1, <1>4, <1>6, <1>8, <1>10 DEF QueueInv, Shape, Minded, Plain
<1>12. ASSUME ~past[j].lapsed
       PROVE  Running(me'[w], job'[j], ctx'[j], past'[j])
  BY <1>1, <1>3, <1>4, <1>6, <1>8, <1>10, <1>12 DEF Running, Plain
<1>13. faults \in Nat /\ faults' # 0 /\ faults' >= faults
  BY <1>1 DEF QueueInv, Shape
<1>14. job'[j].state = "READY_FOR_REVIEW" /\ ~past[j].lapsed => Gated(ctx'[j], past'[j])
  BY <1>1, <1>3 DEF QueueInv, Reviewed, Gated, Leadless
<1>15. job'[j].state # "NEW"
  BY <1>1, <1>3, StatesAre
<1>16. QED
  BY <1>1, <1>3, <1>4, <1>6, <1>8, <1>10, <1>11, <1>12, <1>13, <1>14, <1>15, OwnerMoves

(* A worker that dies forgets everything; its lease stays on the row.        *)
LEMMA DieHeld ==
  ASSUME QueueInv, NEW w \in Workers, Die(w)
  PROVE  QueueInv'
<1> DEFINE j == me[w].job
<1>1. j # "none" /\ UNCHANGED <<job, ctx, requeue, past>> /\ faults' = faults + 1
  BY DEF Die
<1>2. me[w].pc \notin Ticking
  BY <1>1 DEF QueueInv, Minded
<1>3. j \in Jobs /\ Runs(w, j) /\ job[j].state \in LegacyStates
  BY <1>2, AtWork
<1>4. /\ me' \in [Workers -> Memories] /\ me'[w] = Idle
      /\ \A v \in Workers \ {w} : me'[v] = me[v]
  BY IdleIs DEF QueueInv, Shape, Die
<1>5. Shape' /\ Minded(me'[w]) /\ me'[w].job = "none"
  BY <1>1, <1>4, IdleIs DEF QueueInv, Shape
<1>6. faults \in Nat /\ faults' # 0 /\ faults' >= faults
  BY <1>1 DEF QueueInv, Shape
<1>7. job'[j].state = "READY_FOR_REVIEW" /\ ~past[j].lapsed => Gated(ctx'[j], past'[j])
  BY <1>1, <1>3 DEF QueueInv, Reviewed, Gated, Leadless
<1>8. job'[j].state # "NEW"
  BY <1>1, <1>3, StatesAre
<1>9. QED  BY <1>1, <1>3, <1>4, <1>5, <1>6, <1>7, <1>8, OwnerMoves

(* A lease that runs out under a worker ends what may be relied on.          *)
LEMMA LapsesHeld ==
  ASSUME QueueInv, NEW j \in Jobs, LeaseLapses(j)
  PROVE  QueueInv'
<1>1. UNCHANGED <<ctx, me, requeue>> /\ job' = [job EXCEPT ![j].lease = "lapsed"]
  BY DEF LeaseLapses
<1>2. PICK r \in JobRows : r = job[j]
  BY DEF QueueInv, Shape
<1>3. PICK n : n = [r EXCEPT !.lease = "lapsed"]
  OBVIOUS
<1>4. n \in JobRows /\ n.state = r.state /\ n.kind = r.kind /\ n.attempts = r.attempts
  BY <1>3 DEF JobRows
<1>5. job' = [job EXCEPT ![j] = n]
  BY <1>1, <1>2, <1>3
<1>6. job' \in [Jobs -> JobRows] /\ job'[j] = n /\ \A k \in Jobs \ {j} : job'[k] = job[k]
  BY <1>4, <1>5 DEF QueueInv, Shape
<1>7. PICK h \in Histories : h = past[j]
  BY DEF QueueInv, Shape
<1>8. /\ past' \in [Jobs -> Histories] /\ \A k \in Jobs \ {j} : past'[k] = past[k]
      /\ past'[j].leadless = h.leadless /\ past'[j].paid = h.paid /\ past'[j].twice = h.twice
      /\ \/ NobodyRuns(j) /\ past'[j].lapsed = h.lapsed /\ faults' = faults
         \/ past'[j].lapsed /\ faults' = faults + 1
  <2>1. CASE NobodyRuns(j)
    BY <1>7, <2>1 DEF QueueInv, Shape, LeaseLapses
  <2>2. CASE ~NobodyRuns(j)
    <3>1. PICK g : g = [h EXCEPT !.lapsed = TRUE]
      OBVIOUS
    <3>2. /\ g \in Histories /\ g.lapsed /\ g.leadless = h.leadless /\ g.paid = h.paid
          /\ g.twice = h.twice
      BY <3>1 DEF Histories
    <3>3. past' = [past EXCEPT ![j] = g] /\ faults' = faults + 1
      BY <1>7, <2>2, <3>1 DEF LeaseLapses
    <3>4. QED  BY <1>7, <3>2, <3>3 DEF QueueInv, Shape
  <2>3. QED  BY <2>1, <2>2
<1>9. faults \in Nat /\ faults' \in Nat /\ faults' >= faults
  BY <1>8 DEF QueueInv, Shape
<1>10. Shape'
  BY <1>1, <1>6, <1>8, <1>9 DEF QueueInv, Shape
<1>11. \A w \in Workers : /\ Minded(me'[w]) /\ me'[w].job = me[w].job
                          /\ me[w].job # "none" => me'[w] = me[w]
  BY <1>1 DEF QueueInv
<1>12. \A k \in Jobs :
         /\ ctx'[k].facts = ctx[k].facts /\ ctx'[k].leads = ctx[k].leads
         /\ ctx'[k].counters = ctx[k].counters
         /\ past'[k].leadless = past[k].leadless /\ past'[k].paid = past[k].paid
         /\ past'[k].twice = past[k].twice
         /\ past[k].lapsed => past'[k].lapsed
         /\ faults' = 0 => past'[k].lapsed = past[k].lapsed
         /\ job'[k].state = "READY_FOR_REVIEW" => job[k].state = "READY_FOR_REVIEW"
  BY <1>1, <1>2, <1>4, <1>6, <1>7, <1>8, <1>9
<1>13. ASSUME NEW k \in Jobs, NEW w \in Workers, Runs(w, k)
       PROVE  /\ job'[k].state # "NEW" /\ job'[k].kind = job[k].kind
              /\ ~past'[k].lapsed =>
                   /\ job'[k].lease = job[k].lease /\ job'[k].attempts = job[k].attempts
                   /\ job[k].state \in Halted => job'[k].state \in Halted
  <2>1. job[k].state # "NEW"
    BY <1>13 DEF QueueInv, RunnersHeld
  <2>2. CASE k # j
    BY <1>6, <2>1, <2>2
  <2>3. CASE k = j
    BY <1>2, <1>4, <1>6, <1>8, <1>13, <2>1, <2>3 DEF NobodyRuns
  <2>4. QED  BY <2>2, <2>3
<1>14. QED  BY <1>9, <1>10, <1>11, <1>12, <1>13, ForeignMoves

-----------------------------------------------------------------------------
(* The API calls.                                                            *)

(* A call that writes one row: whoever runs the job finds it as it was, or   *)
(* halted from outside.                                                      *)
LEMMA CallMoves ==
  ASSUME QueueInv, NEW j \in Jobs, NEW r \in JobRows, job' = [job EXCEPT ![j] = r],
         UNCHANGED me, requeue' \subseteq Jobs, faults' \in Nat, faults' >= faults,
         r.state = "READY_FOR_REVIEW" => job[j].state = "READY_FOR_REVIEW",
         \/ NobodyRuns(j)
         \/ /\ r.state # "NEW" /\ r.kind = job[j].kind /\ r.lease = job[j].lease
            /\ r.attempts = job[j].attempts
            /\ job[j].state \in Halted => r.state \in Halted,
         ctx' \in [Jobs -> Contexts], past' \in [Jobs -> Histories],
         \A k \in Jobs : /\ ctx'[k].facts = ctx[k].facts /\ ctx'[k].leads = ctx[k].leads
                         /\ ctx'[k].counters = ctx[k].counters
                         /\ past'[k].leadless = past[k].leadless /\ past'[k].paid = past[k].paid
                         /\ past'[k].twice = past[k].twice /\ past'[k].lapsed = past[k].lapsed
  PROVE  QueueInv'
<1>1. job' \in [Jobs -> JobRows] /\ job'[j] = r /\ \A k \in Jobs \ {j} : job'[k] = job[k]
  BY DEF QueueInv, Shape
<1>2. Shape'
  BY <1>1 DEF QueueInv, Shape
<1>3. \A w \in Workers : /\ Minded(me'[w]) /\ me'[w].job = me[w].job
                         /\ me[w].job # "none" => me'[w] = me[w]
  BY DEF QueueInv
<1>4. \A k \in Jobs :
        job'[k].state = "READY_FOR_REVIEW" => job[k].state = "READY_FOR_REVIEW"
  BY <1>1
<1>5. ASSUME NEW k \in Jobs, NEW w \in Workers, Runs(w, k)
      PROVE  /\ job'[k].state # "NEW" /\ job'[k].kind = job[k].kind
             /\ ~past'[k].lapsed =>
                  /\ job'[k].lease = job[k].lease /\ job'[k].attempts = job[k].attempts
                  /\ job[k].state \in Halted => job'[k].state \in Halted
  <2>1. job[k].state # "NEW"
    BY <1>5 DEF QueueInv, RunnersHeld
  <2>2. CASE k # j
    BY <1>1, <2>1, <2>2
  <2>3. CASE k = j
    BY <1>1, <1>5, <2>1, <2>3 DEF NobodyRuns
  <2>4. QED  BY <2>2, <2>3
<1>6. QED  BY <1>2, <1>3, <1>4, <1>5, ForeignMoves

(* The common case: nothing but the row, and what waits for its enqueue.     *)
LEMMA RowCalls ==
  ASSUME QueueInv, NEW j \in Jobs, NEW r \in JobRows, job' = [job EXCEPT ![j] = r],
         UNCHANGED <<ctx, me, past, faults>>, requeue' \subseteq Jobs,
         r.state = "READY_FOR_REVIEW" => job[j].state = "READY_FOR_REVIEW",
         \/ NobodyRuns(j)
         \/ /\ r.state # "NEW" /\ r.kind = job[j].kind /\ r.lease = job[j].lease
            /\ r.attempts = job[j].attempts
            /\ job[j].state \in Halted => r.state \in Halted
  PROVE  QueueInv'
<1>1. faults' \in Nat /\ faults' >= faults /\ ctx' \in [Jobs -> Contexts]
      /\ past' \in [Jobs -> Histories]
  BY DEF QueueInv, Shape
<1>2. \A k \in Jobs :
        /\ ctx'[k].facts = ctx[k].facts /\ ctx'[k].leads = ctx[k].leads
        /\ ctx'[k].counters = ctx[k].counters
        /\ past'[k].leadless = past[k].leadless /\ past'[k].paid = past[k].paid
        /\ past'[k].twice = past[k].twice /\ past'[k].lapsed = past[k].lapsed
  OBVIOUS
<1>3. QED  BY <1>1, <1>2, CallMoves

(* A call that changes the state alone.                                      *)
LEMMA StateCalls ==
  ASSUME QueueInv, NEW j \in Jobs, NEW s \in LegacyStates \ {"READY_FOR_REVIEW"},
         job' = [job EXCEPT ![j].state = s], UNCHANGED <<ctx, me, past, faults>>,
         requeue' \subseteq Jobs, job[j].state \in Halted => s \in Halted
  PROVE  QueueInv'
<1>1. PICK r \in JobRows : r = job[j]
  BY DEF QueueInv, Shape
<1>2. PICK n : n = [r EXCEPT !.state = s]
  OBVIOUS
<1>3. /\ n \in JobRows /\ n.state = s /\ n.kind = r.kind /\ n.lease = r.lease
      /\ n.attempts = r.attempts
  BY <1>2 DEF JobRows
<1>4. job' = [job EXCEPT ![j] = n]
  BY <1>1, <1>2
<1>5. n.state # "NEW" /\ n.state # "READY_FOR_REVIEW"
  BY <1>3, StatesAre
<1>6. /\ n.kind = job[j].kind /\ n.lease = job[j].lease /\ n.attempts = job[j].attempts
      /\ job[j].state \in Halted => n.state \in Halted
  BY <1>1, <1>3
<1>7. QED  BY <1>3, <1>4, <1>5, <1>6, RowCalls

(* Nobody runs a job that is not there yet.                                  *)
LEMMA NewIsFree ==
  ASSUME QueueInv, NEW j \in Jobs, job[j].state = "NEW"
  PROVE  NobodyRuns(j)
BY DEF QueueInv, RunnersHeld, NobodyRuns

(* A job is created queued, by the calls that start one.                     *)
LEMMA StartsHeld ==
  ASSUME QueueInv, NEW j \in Jobs, StartJob(j) \/ CreateResearch(j) \/ StartResearch(j)
  PROVE  QueueInv'
<1>1. PICK kind \in {"research", "pipeline"} :
        job' = [job EXCEPT ![j].state = "QUEUED", ![j].kind = kind]
  BY DEF StartJob, CreateResearch, StartResearch, NewRow
<1>2. /\ NobodyRuns(j) /\ UNCHANGED <<ctx, me, faults>>
  BY NewIsFree DEF StartJob, CreateResearch, StartResearch, Unmade
<1>3. PICK r \in JobRows : r = job[j]
  BY DEF QueueInv, Shape
<1>4. PICK n : n = [r EXCEPT !.state = "QUEUED", !.kind = kind]
  OBVIOUS
<1>5. n \in JobRows /\ n.state = "QUEUED"
  BY <1>4, StatesAre DEF JobRows
<1>6. job' = [job EXCEPT ![j] = n]
  BY <1>1, <1>3, <1>4
<1>7. requeue' \subseteq Jobs
  BY DEF QueueInv, Shape, StartJob, CreateResearch, StartResearch
<1>8. CASE UNCHANGED past
  BY <1>2, <1>5, <1>6, <1>7, <1>8, RowCalls
<1>9. CASE CreateResearch(j)
  <2>1. PICK h \in Histories : h = past[j]
    BY DEF QueueInv, Shape
  <2>2. PICK b \in BOOLEAN : past' = [past EXCEPT ![j].refused = b]
    BY <1>9 DEF CreateResearch
  <2>3. PICK g : g = [h EXCEPT !.refused = b]
    OBVIOUS
  <2>4. /\ g \in Histories /\ g.lapsed = h.lapsed /\ g.leadless = h.leadless
        /\ g.paid = h.paid /\ g.twice = h.twice
    BY <2>3 DEF Histories
  <2>5. past' = [past EXCEPT ![j] = g]
    BY <2>1, <2>2, <2>3
  <2>6. past' \in [Jobs -> Histories] /\ past'[j] = g /\ \A k \in Jobs \ {j} : past'[k] = past[k]
    BY <2>4, <2>5 DEF QueueInv, Shape
  <2>7. \A k \in Jobs :
          /\ ctx'[k].facts = ctx[k].facts /\ ctx'[k].leads = ctx[k].leads
          /\ ctx'[k].counters = ctx[k].counters
          /\ past'[k].leadless = past[k].leadless /\ past'[k].paid = past[k].paid
          /\ past'[k].twice = past[k].twice /\ past'[k].lapsed = past[k].lapsed
    BY <1>2, <2>1, <2>4, <2>6
  <2>8. faults' \in Nat /\ faults' >= faults /\ ctx' \in [Jobs -> Contexts]
    BY <1>2 DEF QueueInv, Shape
  <2>9. QED  BY <1>2, <1>5, <1>6, <1>7, <2>6, <2>7, <2>8, CallMoves
<1>10. QED  BY <1>8, <1>9 DEF StartJob, StartResearch

(* A check of the plan touches no job that is there.                         *)
LEMMA CheckStartHeld ==
  ASSUME QueueInv, NEW j \in Jobs, CheckStart(j)
  PROVE  QueueInv'
<1>1. PICK r \in JobRows : r = job[j]
  BY DEF QueueInv, Shape
<1>2. PICK n : n = [r EXCEPT !.kind = "pipeline"]
  OBVIOUS
<1>3. n \in JobRows /\ n.state = r.state
  BY <1>2 DEF JobRows
<1>4. job' = [job EXCEPT ![j] = n] /\ UNCHANGED <<ctx, me, past, faults>>
  BY <1>1, <1>2 DEF CheckStart
<1>5. NobodyRuns(j) /\ n.state # "READY_FOR_REVIEW" /\ requeue' \subseteq Jobs
  BY <1>1, <1>3, NewIsFree DEF CheckStart, Unmade, QueueInv, Shape
<1>6. QED  BY <1>3, <1>4, <1>5, RowCalls

(* The calls that enqueue, cancel or drain a job.                            *)
LEMMA HaltsHeld ==
  ASSUME QueueInv, NEW j \in Jobs, Enqueue(j) \/ Cancel(j) \/ Drain(j)
  PROVE  QueueInv'
<1>1. PICK s \in {"QUEUED", "CANCELLED"} : job' = [job EXCEPT ![j].state = s]
  BY DEF Enqueue, Cancel, Drain, Transition
<1>2. requeue' \subseteq Jobs /\ UNCHANGED <<ctx, me, past, faults>>
  BY DEF Enqueue, Cancel, Drain, QueueInv, Shape
<1>3. s \in LegacyStates \ {"READY_FOR_REVIEW"} /\ s \in Halted
  BY StatesAre DEF Halted
<1>4. QED  BY <1>1, <1>2, <1>3, StateCalls

(* The calls that take a job up again.                                       *)
LEMMA ReopensHeld ==
  ASSUME QueueInv, NEW j \in Jobs, Answer(j) \/ Resume(j)
  PROVE  QueueInv'
<1>1. UNCHANGED <<me, past, faults>> /\ requeue' \subseteq Jobs
  BY DEF Answer, Resume, Reopens, QueueInv, Shape
<1>2. CASE Resume(j)
  <2>1. PICK s \in {"RUNNING", "RESUMING"} :
          /\ job' = [job EXCEPT ![j].state = s] /\ UNCHANGED ctx
          /\ job[j].state \in Halted => s \in Halted
    BY <1>2 DEF Resume, Reopens, Transition, Halted
  <2>2. QED  BY <1>1, <2>1, StatesAre, StateCalls
<1>3. CASE Answer(j)
  <2>1. PICK r \in JobRows : r = job[j]
    BY DEF QueueInv, Shape
  <2>2. PICK n : n = [r EXCEPT !.state = "RUNNING"]
    OBVIOUS
  <2>3. /\ n \in JobRows /\ n.state = "RUNNING" /\ n.kind = r.kind /\ n.lease = r.lease
        /\ n.attempts = r.attempts
    BY <2>2, StatesAre DEF JobRows
  <2>4. job' = [job EXCEPT ![j] = n] /\ job[j].state \notin Halted
    BY <1>3, <2>1, <2>2 DEF Answer, Reopens, Transition, Halted
  <2>5. PICK c \in Contexts : c = ctx[j]
    BY DEF QueueInv, Shape
  <2>6. PICK d : d = [c EXCEPT !.asked = FALSE]
    OBVIOUS
  <2>7. d \in Contexts /\ d.facts = c.facts /\ d.leads = c.leads /\ d.counters = c.counters
    BY <2>6 DEF Contexts
  <2>8. ctx' = [ctx EXCEPT ![j] = d]
    BY <1>3, <2>5, <2>6 DEF Answer
  <2>9. ctx' \in [Jobs -> Contexts] /\ ctx'[j] = d /\ \A k \in Jobs \ {j} : ctx'[k] = ctx[k]
    BY <2>7, <2>8 DEF QueueInv, Shape
  <2>10. \A k \in Jobs :
           /\ ctx'[k].facts = ctx[k].facts /\ ctx'[k].leads = ctx[k].leads
           /\ ctx'[k].counters = ctx[k].counters
           /\ past'[k].leadless = past[k].leadless /\ past'[k].paid = past[k].paid
           /\ past'[k].twice = past[k].twice /\ past'[k].lapsed = past[k].lapsed
    BY <1>1, <2>5, <2>7, <2>9
  <2>11. faults' \in Nat /\ faults' >= faults /\ past' \in [Jobs -> Histories]
    BY <1>1 DEF QueueInv, Shape
  <2>12. QED  BY <1>1, <2>1, <2>3, <2>4, <2>9, <2>10, <2>11, CallMoves
<1>4. QED  BY <1>2, <1>3

(* Recovery pauses a job no valid lease covers; a backoff comes to its end.  *)
LEMMA DuesHeld ==
  ASSUME QueueInv, NEW j \in Jobs, Recover(j) \/ DueComes(j)
  PROVE  QueueInv'
<1>1. UNCHANGED <<ctx, me, requeue, past, faults>> /\ requeue' \subseteq Jobs
  BY DEF Recover, DueComes, QueueInv, Shape
<1>2. PICK r \in JobRows : r = job[j]
  BY DEF QueueInv, Shape
<1>3. CASE DueComes(j)
  <2>1. PICK n : n = [r EXCEPT !.due = "past"]
    OBVIOUS
  <2>2. /\ n \in JobRows /\ n.state = r.state /\ n.kind = r.kind /\ n.lease = r.lease
        /\ n.attempts = r.attempts
    BY <2>1 DEF JobRows
  <2>3. job' = [job EXCEPT ![j] = n]
    BY <1>2, <1>3, <2>1 DEF DueComes
  <2>4. NobodyRuns(j) \/ n.state # "NEW"
    BY <1>2, <2>2, NewIsFree
  <2>5. QED  BY <1>1, <1>2, <2>2, <2>3, <2>4, RowCalls
<1>4. CASE Recover(j)
  <2>1. PICK n : n = [r EXCEPT !.state = "PAUSED", !.due = "later"]
    OBVIOUS
  <2>2. /\ n \in JobRows /\ n.state = "PAUSED" /\ n.kind = r.kind /\ n.lease = r.lease
        /\ n.attempts = r.attempts
    BY <2>1, StatesAre DEF JobRows
  <2>3. job' = [job EXCEPT ![j] = n]
    BY <1>2, <1>4, <2>1 DEF Recover
  <2>4. QED  BY <1>1, <1>2, <2>2, <2>3, RowCalls DEF Halted
<1>5. QED  BY <1>3, <1>4

(* A call that is lost before its enqueue.                                   *)
LEMMA CallLostHeld ==
  ASSUME QueueInv, NEW j \in Jobs, CallLost(j)
  PROVE  QueueInv'
<1>1. /\ UNCHANGED <<job, ctx, me, past>> /\ requeue' \subseteq Jobs
      /\ faults' \in Nat /\ faults' >= faults
  BY DEF CallLost, QueueInv, Shape
<1>2. PICK r \in JobRows : r = job[j]
  BY DEF QueueInv, Shape
<1>3. job' = [job EXCEPT ![j] = r]
  BY <1>1, <1>2 DEF QueueInv, Shape
<1>4. NobodyRuns(j) \/ r.state # "NEW"
  BY <1>2, NewIsFree
<1>5. ctx' \in [Jobs -> Contexts] /\ past' \in [Jobs -> Histories]
  BY <1>1 DEF QueueInv, Shape
<1>6. \A k \in Jobs :
        /\ ctx'[k].facts = ctx[k].facts /\ ctx'[k].leads = ctx[k].leads
        /\ ctx'[k].counters = ctx[k].counters
        /\ past'[k].leadless = past[k].leadless /\ past'[k].paid = past[k].paid
        /\ past'[k].twice = past[k].twice /\ past'[k].lapsed = past[k].lapsed
  BY <1>1
<1>7. QED  BY <1>1, <1>2, <1>3, <1>4, <1>5, <1>6, CallMoves

-----------------------------------------------------------------------------
(* The tick before a job is leased.                                          *)

(* A worker between two jobs that moves on in its tick.                      *)
LEMMA IdleMoves ==
  ASSUME QueueInv, NEW w \in Workers, me[w].pc \in Ticking,
         me' \in [Workers -> Memories], Minded(me'[w]), me'[w].job = "none",
         \A v \in Workers \ {w} : me'[v] = me[v]
  PROVE  \A v \in Workers : /\ Minded(me'[v]) /\ me'[v].job = me[v].job
                            /\ me[v].job # "none" => me'[v] = me[v]
BY DEF QueueInv, Minded

(* A lease that runs is not expired.                                         *)
LEMMA ExpiredIsFree ==
  ASSUME QueueInv, NEW j \in Jobs, NEW w \in Workers, Runs(w, j), ~past[j].lapsed
  PROVE  ~LeaseExpired(j) /\ ~Leasable(j) /\ job[j].lease = "live"
BY DEF QueueInv, RunnersHeld, Running, LeaseExpired, Leasable

(* The two passes over the rows find only jobs no unexpired lease covers.    *)
LEMMA ReclaimsHeld ==
  ASSUME QueueInv, NEW w \in Workers, ReclaimExhausted(w) \/ ReclaimExpired(w)
  PROVE  QueueInv'
<1>1. PICK p \in {"reclaim", "lease"} : Goes(w, p)
  BY DEF ReclaimExhausted, ReclaimExpired
<1>2. me[w].pc \in Ticking /\ UNCHANGED <<ctx, requeue, past, faults>>
  BY DEF ReclaimExhausted, ReclaimExpired, Ticking
<1>3. /\ me' \in [Workers -> Memories] /\ me'[w].pc = p /\ me'[w].job = me[w].job
      /\ me'[w].write = me[w].write /\ \A v \in Workers \ {w} : me'[v] = me[v]
  BY <1>1, PcMoves DEF QueueInv, Places, Ticking
<1>4. Minded(me'[w]) /\ me'[w].job = "none"
  BY <1>2, <1>3 DEF QueueInv, Minded, Ticking, Writing
<1>5. \A k \in Jobs, s \in {"FAILED", "QUEUED", "CANCELLED"} :
        /\ Freed(job[k], s) \in JobRows /\ Freed(job[k], s).state = s
        /\ Freed(job[k], s).kind = job[k].kind
  <2>1. ASSUME NEW k \in Jobs, NEW s \in {"FAILED", "QUEUED", "CANCELLED"}
        PROVE  /\ Freed(job[k], s) \in JobRows /\ Freed(job[k], s).state = s
               /\ Freed(job[k], s).kind = job[k].kind
    <3>1. PICK r \in JobRows : r = job[k]
      BY DEF QueueInv, Shape
    <3>2. PICK n : n = [r EXCEPT !.state = s, !.lease = "none"]
      OBVIOUS
    <3>3. n \in JobRows /\ n.state = s /\ n.kind = r.kind
      BY <3>2, StatesAre DEF JobRows
    <3>4. QED  BY <3>1, <3>2, <3>3 DEF Freed
  <2>2. QED  BY <2>1
<1>6. ASSUME NEW k \in Jobs
      PROVE  /\ PausedTurn(job[k], k) \in JobRows
             /\ PausedTurn(job[k], k).kind = job[k].kind
             /\ \/ PausedTurn(job[k], k) = job[k]
                \/ /\ job[k].state = "PAUSED"
                   /\ PausedTurn(job[k], k).state \in {"RESUMING", "CANCELLED"}
             /\ ~NobodyRuns(k) => /\ PausedTurn(job[k], k).lease = job[k].lease
                                  /\ PausedTurn(job[k], k).attempts = job[k].attempts
  <2>1. PICK r \in JobRows : r = job[k]
    BY DEF QueueInv, Shape
  <2>2. PICK n : n = [r EXCEPT !.state = "RESUMING"]
    OBVIOUS
  <2>3. /\ n \in JobRows /\ n.state = "RESUMING" /\ n.kind = r.kind /\ n.lease = r.lease
        /\ n.attempts = r.attempts
    BY <2>2, StatesAre DEF JobRows
  <2>4. CASE r.state = "PAUSED" /\ r.due = "past"
    BY <2>1, <2>2, <2>3, <2>4 DEF PausedTurn
  <2>5. CASE r.state = "PAUSED" /\ r.due = "none" /\ NobodyRuns(k)
    <3>1. PausedTurn(r, k) = Freed(r, "CANCELLED")
      BY <2>5 DEF PausedTurn
    <3>2. QED  BY <1>5, <2>1, <2>5, <3>1
  <2>6. CASE /\ ~(r.state = "PAUSED" /\ r.due = "past")
             /\ ~(r.state = "PAUSED" /\ r.due = "none" /\ NobodyRuns(k))
    <3>1. PausedTurn(r, k) = r
      BY <2>6 DEF PausedTurn
    <3>2. QED  BY <2>1, <3>1
  <2>7. QED  BY <2>4, <2>5, <2>6
<1>7. ASSUME NEW k \in Jobs
      PROVE  /\ job'[k] \in JobRows /\ job'[k].kind = job[k].kind
             /\ \/ LeaseExpired(k) /\ job'[k].state \in {"FAILED", "QUEUED"}
                \/ job'[k] = job[k]
                \/ job[k].state = "PAUSED" /\ job'[k].state \in {"RESUMING", "CANCELLED"}
             /\ ~NobodyRuns(k) /\ ~LeaseExpired(k) =>
                  job'[k].lease = job[k].lease /\ job'[k].attempts = job[k].attempts
  <2>1. job[k] \in JobRows
    BY DEF QueueInv, Shape
  <2>2. CASE ReclaimExhausted(w)
    BY <1>5, <2>1, <2>2 DEF ReclaimExhausted
  <2>3. CASE ReclaimExpired(w)
    BY <1>5, <1>6, <2>1, <2>3 DEF ReclaimExpired
  <2>4. QED  BY <2>2, <2>3
<1>8. job' \in [Jobs -> JobRows]
  <2>1. \E f : job' = [k \in Jobs |-> f[k]]
    <3>1. CASE ReclaimExhausted(w)
      BY <3>1 DEF ReclaimExhausted
    <3>2. CASE ReclaimExpired(w)
      BY <3>2 DEF ReclaimExpired
    <3>3. QED  BY <3>1, <3>2
  <2>2. QED  BY <1>7, <2>1
<1>9. Shape' /\ faults' >= faults
  BY <1>2, <1>3, <1>8 DEF QueueInv, Shape
<1>10. \A k \in Jobs :
         job'[k].state = "READY_FOR_REVIEW" => job[k].state = "READY_FOR_REVIEW"
  BY <1>7
<1>11. ASSUME NEW k \in Jobs, NEW v \in Workers, Runs(v, k)
       PROVE  /\ job'[k].state # "NEW" /\ job'[k].kind = job[k].kind
              /\ ~past'[k].lapsed =>
                   /\ job'[k].lease = job[k].lease /\ job'[k].attempts = job[k].attempts
                   /\ job[k].state \in Halted => job'[k].state \in Halted
  <2>1. job[k].state # "NEW" /\ ~NobodyRuns(k)
    BY <1>11 DEF QueueInv, RunnersHeld, NobodyRuns
  <2>2. ~past'[k].lapsed => ~LeaseExpired(k)
    BY <1>2, <1>11, ExpiredIsFree
  <2>3. QED  BY <1>7, <2>1, <2>2 DEF Halted
<1>12. \A v \in Workers : /\ Minded(me'[v]) /\ me'[v].job = me[v].job
                          /\ me[v].job # "none" => me'[v] = me[v]
  BY <1>2, <1>3, <1>4, IdleMoves
<1>13. QED  BY <1>2, <1>9, <1>10, <1>11, <1>12, ForeignMoves

(* A tick that finds nothing to lease.                                       *)
LEMMA LeaseNothingHeld ==
  ASSUME QueueInv, NEW w \in Workers, LeaseNothing(w)
  PROVE  QueueInv'
<1>1. me[w].pc \in Ticking /\ UNCHANGED <<job, ctx, requeue, past, faults>>
  BY DEF LeaseNothing, Ticking
<1>2. /\ me' \in [Workers -> Memories] /\ me'[w] = Idle
      /\ \A v \in Workers \ {w} : me'[v] = me[v]
  BY IdleIs DEF QueueInv, Shape, LeaseNothing
<1>3. Shape' /\ faults' >= faults
  BY <1>1, <1>2 DEF QueueInv, Shape
<1>4. \A v \in Workers : /\ Minded(me'[v]) /\ me'[v].job = me[v].job
                         /\ me[v].job # "none" => me'[v] = me[v]
  BY <1>1, <1>2, IdleIs, IdleMoves
<1>5. \A k \in Jobs, v \in Workers : Runs(v, k) => job[k].state # "NEW"
  BY DEF QueueInv, RunnersHeld
<1>6. QED  BY <1>1, <1>3, <1>4, <1>5, ForeignMoves

(* A job is leased to a worker: whoever still runs it has seen its lease run out. *)
LEMMA LeaseNextHeld ==
  ASSUME QueueInv, NEW w \in Workers, LeaseNext(w)
  PROVE  QueueInv'
<1>1. me[w].pc = "lease" /\ UNCHANGED <<ctx, requeue, past, faults>>
  BY DEF LeaseNext
<1>2. PICK j \in Jobs :
        /\ Leasable(j)
        /\ job' = [job EXCEPT ![j].state = "RUNNING", ![j].lease = "live", ![j].attempts = @ + 1]
        /\ me' = [me EXCEPT ![w] = [Idle EXCEPT !.job = j,
                    !.pc = IF job[j].kind = "research" THEN "enter" ELSE "pipe"]]
  BY DEF LeaseNext
<1>3. PICK r \in JobRows : r = job[j]
  BY DEF QueueInv, Shape
<1>4. PICK n : n = [r EXCEPT !.state = "RUNNING", !.lease = "live", !.attempts = r.attempts + 1]
  OBVIOUS
<1>5. /\ n \in JobRows /\ n.state = "RUNNING" /\ n.lease = "live" /\ n.kind = r.kind
  <2>1. r.attempts + 1 \in 0 .. MaxAttempts
    <3>1. r.attempts \in 0 .. MaxAttempts /\ r.attempts < MaxAttempts /\ MaxAttempts \in Nat
      BY <1>2, <1>3, QueueAssumption DEF JobRows, Leasable
    <3>2. QED  BY <3>1
  <2>2. QED  BY <1>4, <2>1, StatesAre DEF JobRows
<1>6. job' = [job EXCEPT ![j] = n]
  BY <1>2, <1>3, <1>4
<1>7. job' \in [Jobs -> JobRows] /\ job'[j] = n /\ \A k \in Jobs \ {j} : job'[k] = job[k]
  BY <1>5, <1>6 DEF QueueInv, Shape
<1>8. PICK p : p = IF r.kind = "research" THEN "enter" ELSE "pipe"
  OBVIOUS
<1>9. PICK m : m = [Idle EXCEPT !.job = j, !.pc = p]
  OBVIOUS
<1>10. m \in Memories /\ m.pc = p /\ m.job = j /\ m.write = NoWrite
  BY <1>8, <1>9 DEF Idle, Memories, Places, Piping, Sights
<1>11. me' = [me EXCEPT ![w] = m]
  BY <1>2, <1>3, <1>8, <1>9
<1>12. me' \in [Workers -> Memories] /\ me'[w] = m /\ \A v \in Workers \ {w} : me'[v] = me[v]
  BY <1>10, <1>11 DEF QueueInv, Shape
<1>13. Shape'
  BY <1>1, <1>7, <1>12 DEF QueueInv, Shape
<1>14. "none" \notin Jobs /\ me[w].job = "none"
  BY <1>1, QueueAssumption DEF QueueInv, Minded, Ticking
<1>15. Minded(m) /\ p \in {"enter", "pipe"} /\ (p \in Piping => n.kind # "research")
  BY <1>5, <1>8, <1>10, <1>14 DEF Minded, Ticking, Piping
<1>16. \A v \in Workers : Runs(v, j) => past[j].lapsed
  BY <1>2, ExpiredIsFree
<1>17. \A v \in Workers, k \in Jobs : Runs(v, k)' <=> Runs(v, k) \/ (v = w /\ k = j)
  BY <1>10, <1>12, <1>14 DEF Runs
<1>18. Alone'
  BY <1>1, <1>16, <1>17 DEF QueueInv, Alone
<1>19. Reviewed'
  BY <1>1, <1>5, <1>7 DEF QueueInv, Reviewed, Gated, Leadless
<1>20. ASSUME NEW v \in Workers, NEW k \in Jobs, Runs(v, k)'
       PROVE  /\ job'[k].state # "NEW"
              /\ me'[v].pc \in Piping => job'[k].kind # "research"
              /\ ~past'[k].lapsed => Running(me'[v], job'[k], ctx'[k], past'[k])
  <2>1. CASE v = w
    <3>1. k = j
      BY <1>14, <1>17, <1>20, <2>1 DEF Runs
    <3>2. Running(m, n, ctx[j], past[j])
      BY <1>5, <1>10, <1>15 DEF Running
    <3>3. QED  BY <1>1, <1>5, <1>7, <1>10, <1>12, <1>15, <2>1, <3>1, <3>2
  <2>2. CASE v # w /\ k # j
    BY <1>1, <1>7, <1>12, <1>17, <1>20, <2>2 DEF QueueInv, RunnersHeld
  <2>3. CASE v # w /\ k = j
    BY <1>1, <1>3, <1>5, <1>7, <1>12, <1>16, <1>17, <1>20, <2>3 DEF QueueInv, RunnersHeld
  <2>4. QED  BY <2>1, <2>2, <2>3
<1>21. RunnersHeld'
  BY <1>20 DEF RunnersHeld, Running, Gated, Leadless
<1>22. PaidOnce'
  <2>1. ASSUME faults' = 0, NEW k \in Jobs
        PROVE  /\ ~past'[k].lapsed /\ ~past'[k].twice
               /\ NobodyRuns(k)' => past'[k].paid \subseteq ctx'[k].counters.tried
               /\ \A v \in Workers : Runs(v, k)' => Marked(me'[v], ctx'[k], past'[k])
    <3>1. /\ ~past[k].lapsed /\ ~past[k].twice
          /\ NobodyRuns(k) => past[k].paid \subseteq ctx[k].counters.tried
          /\ \A v \in Workers : Runs(v, k) => Marked(me[v], ctx[k], past[k])
      BY <1>1, <2>1 DEF QueueInv, PaidOnce
    <3>2. CASE k # j
      BY <1>1, <1>12, <1>14, <1>17, <3>1, <3>2 DEF NobodyRuns, Runs
    <3>3. CASE k = j
      <4>1. NobodyRuns(j)
        BY <1>16, <3>1, <3>3 DEF NobodyRuns
      <4>2. \A v \in Workers : Runs(v, j)' => v = w
        BY <1>17, <4>1 DEF NobodyRuns
      <4>3. Marked(m, ctx[j], past[j])
        BY <1>10, <3>1, <3>3, <4>1 DEF Marked
      <4>4. ~NobodyRuns(j)'
        BY <1>17 DEF NobodyRuns
      <4>5. QED  BY <1>1, <1>12, <3>1, <3>3, <4>2, <4>3, <4>4
    <3>4. QED  BY <3>2, <3>3
  <2>2. QED  BY <2>1 DEF PaidOnce, Marked
<1>23. \A v \in Workers : Minded(me'[v])
  BY <1>12, <1>15 DEF QueueInv
<1>24. QED
  BY <1>13, <1>18, <1>19, <1>21, <1>22, <1>23 DEF QueueInv, Minded

-----------------------------------------------------------------------------
(* The theorems.                                                             *)

(* Nobody runs anything at the start.                                        *)
LEMMA QueueStarts == ASSUME QueueInit PROVE QueueInv
<1>1. \A w \in Workers : me[w] = Idle
  BY DEF QueueInit
<1>2. "none" \notin Jobs
  BY QueueAssumption
<1>3. \A w \in Workers, j \in Jobs : ~Runs(w, j)
  BY <1>1, <1>2, IdleIs DEF Runs
<1>4. job \in [Jobs -> JobRows]
  BY QueueAssumption DEF QueueInit, JobRows
<1>5. NoCounters \in Counters
  BY DEF NoCounters, Counters
<1>6. ctx \in [Jobs -> Contexts]
  BY <1>5 DEF QueueInit, Contexts
<1>7. past \in [Jobs -> Histories]
  BY DEF QueueInit, NoHistory, Histories
<1>8. Shape
  BY <1>4, <1>6, <1>7, IdleIs DEF QueueInit, Shape
<1>9. \A w \in Workers : Minded(me[w])
  BY <1>1, IdleIs
<1>10. RunnersHeld /\ Alone
  BY <1>3 DEF RunnersHeld, Alone
<1>11. Reviewed
  BY DEF QueueInit, Reviewed
<1>12. PaidOnce
  BY <1>3 DEF QueueInit, NoHistory, PaidOnce
<1>13. QED  BY <1>8, <1>9, <1>10, <1>11, <1>12 DEF QueueInv

(* A step of a worker.                                                       *)
LEMMA WorkersHeld ==
  ASSUME QueueInv, NEW w \in Workers, WorkerSteps(w) \/ Raise(w) \/ Die(w)
  PROVE  QueueInv'
<1>1. CASE WriteCounters(w)
  BY <1>1, WriteCountersHeld
<1>2. CASE me[w].write = NoWrite /\ Tick(w)
  BY <1>2, ReclaimsHeld, LeaseNextHeld, LeaseNothingHeld, EndingHeld, SettlingHeld DEF Tick
<1>3. CASE me[w].write = NoWrite /\ Research(w)
  BY <1>3, EnterHeld, TransitionsHeld, PlannedHeld, SettlingHeld, CountedHeld, ActHeld,
     VerifyEmailHeld, QualifyingHeld, QualifyHeld, GateHeld DEF Research
<1>4. CASE me[w].write = NoWrite /\ (RunJob(w) \/ Capacity(w) \/ Pausing(w))
  BY <1>4, PipelineHeld, TransitionsHeld, PausingHeld
<1>5. CASE Raise(w) \/ Die(w)
  BY <1>5, RaiseHeld, DieHeld
<1>6. QED  BY <1>1, <1>2, <1>3, <1>4, <1>5 DEF WorkerSteps

(* A step of the system.                                                     *)
LEMMA QueueStep == ASSUME QueueInv, [QueueNext]_queueVars PROVE QueueInv'
<1>1. CASE Users
  BY <1>1, CheckStartHeld, StartsHeld, HaltsHeld, ReopensHeld, DuesHeld DEF Users
<1>2. CASE \E w \in Workers : WorkerSteps(w) \/ Raise(w) \/ Die(w)
  BY <1>2, WorkersHeld
<1>3. CASE \E j \in Jobs : LeaseLapses(j) \/ DueComes(j) \/ CallLost(j)
  BY <1>3, LapsesHeld, DuesHeld, CallLostHeld
<1>4. CASE UNCHANGED queueVars
  <2>1. UNCHANGED <<job, ctx, me, requeue, past, faults>>
    BY <1>4 DEF queueVars
  <2>2. Shape' /\ \A w \in Workers : Minded(me'[w])
    BY <2>1 DEF QueueInv, Shape
  <2>3. faults' >= faults
    BY <2>1 DEF QueueInv, Shape
  <2>4. \A k \in Jobs, w \in Workers : Runs(w, k) => job[k].state # "NEW"
    BY DEF QueueInv, RunnersHeld
  <2>5. QED  BY <2>1, <2>2, <2>3, <2>4, ForeignMoves
<1>5. QED  BY <1>1, <1>2, <1>3, <1>4 DEF QueueNext

(* The inductive invariant of the queue: what each step of a run may rely on *)
(* while no lease of its job ran out under it.                               *)
THEOREM QueueInvariant == QueueSpec => []QueueInv
<1>1. QueueInit => QueueInv
  BY QueueStarts
<1>2. QueueInv /\ [QueueNext]_queueVars => QueueInv'
  BY QueueStep
<1>3. QED  BY <1>1, <1>2, PTL DEF QueueSpec

(* What the invariant says of the rows and of who runs a job.                *)
LEMMA RowsHold ==
  ASSUME QueueInv
  PROVE  QueueTypeOK /\ ExclusiveUnlessLapsed
<1>1. QueueTypeOK
  <2>1. ASSUME NEW j \in Jobs
        PROVE  /\ job[j].state \in LegacyStates \cup {"NEW"}
               /\ job[j].kind \in {"none", "research", "pipeline"}
               /\ job[j].lease \in {"none", "live", "lapsed"}
               /\ job[j].due \in {"none", "later", "past"}
               /\ job[j].attempts \in 0 .. MaxAttempts
    <3>1. job[j] \in JobRows
      BY DEF QueueInv, Shape
    <3>2. QED  BY <3>1 DEF JobRows
  <2>2. ASSUME NEW j \in Jobs
        PROVE  /\ ctx[j].facts \subseteq Subjects /\ ctx[j].leads \subseteq Subjects
               /\ ctx[j].counters.tried \subseteq Subjects
               /\ ctx[j].counters.verdicts \subseteq Subjects
    <3>1. ctx[j] \in Contexts
      BY DEF QueueInv, Shape
    <3>2. QED  BY <3>1 DEF Contexts, Counters
  <2>3. ASSUME NEW w \in Workers
        PROVE  me[w].job \in Jobs \cup {"none"} /\ me[w].todo \subseteq Subjects
    <3>1. me[w] \in Memories
      BY DEF QueueInv, Shape
    <3>2. QED  BY <3>1 DEF Memories
  <2>4. requeue \subseteq Jobs
    BY DEF QueueInv, Shape
  <2>5. QED  BY <2>1, <2>2, <2>3, <2>4 DEF QueueTypeOK
<1>2. ExclusiveUnlessLapsed
  <2>1. ASSUME NEW j \in Jobs, ~past[j].lapsed
        PROVE  ~(Cardinality({w \in Workers : Runs(w, j)}) > 1)
    <3> DEFINE R == {w \in Workers : Runs(w, j)}
    <3>1. \A w, v \in R : w = v
      BY <2>1 DEF QueueInv, Alone
    <3>2. CASE R = {}
      BY <3>2, FS_EmptySet
    <3>3. CASE R # {}
      <4>1. PICK w : R = {w}
        BY <3>1, <3>3
      <4>2. Cardinality({w}) = 1
        BY FS_Singleton
      <4>3. QED  BY <4>1, <4>2
    <3>4. QED  BY <3>2, <3>3
  <2>2. QED  BY <2>1 DEF ExclusiveUnlessLapsed
<1>3. QED  BY <1>1, <1>2

(* What reaches the review gate is complete.                                 *)
THEOREM ReviewsAreComplete == QueueSpec => []ReviewIsComplete
<1>1. QueueInv => ReviewIsComplete
  <2>1. ASSUME QueueInv, NEW j \in Jobs, job[j].state = "READY_FOR_REVIEW", ~past[j].lapsed,
               NEW s \in ctx[j].facts \ ctx[j].leads
        PROVE  \E e \in past[j].leadless : e[1] = s
    <3>1. s \in Leadless(past[j])
      BY <2>1 DEF QueueInv, Reviewed, Gated
    <3>2. QED  BY <3>1 DEF Leadless
  <2>2. QED  BY <2>1 DEF ReviewIsComplete
<1>2. QED  BY <1>1, QueueInvariant, PTL

(* No company is judged before every address of the job was tried.           *)
THEOREM JudgedAfterSweep == QueueSpec => []SweptBeforeJudged
<1>1. QueueInv => SweptBeforeJudged
  <2>1. ASSUME QueueInv, NEW w \in Workers, me[w].pc = "qualify", ~past[me[w].job].lapsed
        PROVE  ctx[me[w].job].facts \subseteq ctx[me[w].job].counters.tried
    <3>1. Running(me[w], job[me[w].job], ctx[me[w].job], past[me[w].job])
      BY <2>1, AtWork DEF Ticking
    <3>2. QED  BY <2>1, <3>1 DEF Running
  <2>2. QED  BY <2>1 DEF SweptBeforeJudged
<1>2. QED  BY <1>1, QueueInvariant, PTL

(* An address is paid for twice only after a fault.                          *)
THEOREM EmailsArePaidOnce == QueueSpec => []EmailsPaidOnce
<1>1. QueueInv => EmailsPaidOnce
  <2>1. ASSUME QueueInv, NEW j \in Jobs, past[j].twice
        PROVE  faults > 0
    <3>1. faults \in Nat /\ faults # 0
      BY <2>1 DEF QueueInv, Shape, PaidOnce
    <3>2. QED  BY <3>1
  <2>2. QED  BY <2>1 DEF EmailsPaidOnce
<1>2. QED  BY <1>1, QueueInvariant, PTL

Fails(k) == job[k].state # "FAILED" /\ job'[k].state = "FAILED"

(* A change of one row to a state other than FAILED fails no job.            *)
LEMMA StateFailsNone ==
  ASSUME Shape, NEW j \in Jobs, NEW s \in LegacyStates \ {"FAILED"},
         job' = [job EXCEPT ![j].state = s], NEW k \in Jobs
  PROVE  ~Fails(k)
BY StateMoves DEF Fails

(* A transition to a state other than FAILED fails no job.                   *)
LEMMA TransitionFailsNone ==
  ASSUME Shape, NEW j \in Jobs, NEW s \in LegacyStates \ {"FAILED"}, Transition(j, s),
         NEW k \in Jobs
  PROVE  ~Fails(k)
BY StateFailsNone DEF Transition

(* Nor does a move of a worker's run, admitted or refused.                   *)
LEMMA MoveFailsNone ==
  ASSUME Shape, NEW w \in Workers, me[w].job \in Jobs, NEW p,
         NEW s \in LegacyStates \ {"FAILED"}, MoveTo(w, s, p), NEW k \in Jobs
  PROVE  ~Fails(k)
BY TransitionFailsNone DEF MoveTo, Fails

(* A research run takes its job to FAILED in none of its steps.              *)
LEMMA ResearchFailsNone ==
  ASSUME QueueInv, NEW w \in Workers, Research(w) \/ Capacity(w), NEW k \in Jobs
  PROVE  ~Fails(k)
<1> DEFINE j == me[w].job
<1>1. me[w].pc \notin Ticking
  BY DEF Research, Enter, Plan, Planned, OutOfTime, Turn, Act, Summary, Finalize, Verify,
         VerifyEmail, Qualifying, Qualify, Gate, ReadyForReview, Capacity, Ticking
<1>2. j \in Jobs /\ Shape
  BY <1>1, AtWork DEF QueueInv
<1>3. {"RUNNING", "DISCOVERING", "VERIFYING", "QUALIFYING", "READY_FOR_REVIEW", "PAUSED",
       "WAITING_FOR_USER"} \subseteq LegacyStates \ {"FAILED"}
  BY StatesAre
<1>4. CASE UNCHANGED job
  BY <1>4 DEF Fails
<1>5. CASE Enter(w)
  BY <1>2, <1>3, <1>4, <1>5, MoveFailsNone DEF Enter
<1>6. CASE Plan(w)
  BY <1>2, <1>3, <1>6, MoveFailsNone DEF Plan
<1>7. CASE Verify(w)
  BY <1>2, <1>3, <1>7, MoveFailsNone DEF Verify
<1>8. CASE ReadyForReview(w)
  BY <1>2, <1>3, <1>8, MoveFailsNone DEF ReadyForReview
<1>9. CASE Capacity(w)
  BY <1>2, <1>3, <1>9, MoveFailsNone DEF Capacity
<1>10. CASE Act(w)
  BY <1>2, <1>3, <1>4, <1>10, TransitionFailsNone DEF Act
<1>11. CASE Qualifying(w)
  BY <1>2, <1>3, <1>4, <1>11, TransitionFailsNone DEF Qualifying
<1>12. CASE \/ Planned(w) \/ OutOfTime(w) \/ Turn(w) \/ Summary(w) \/ Finalize(w)
            \/ VerifyEmail(w) \/ Qualify(w) \/ Gate(w)
  BY <1>4, <1>12 DEF Planned, OutOfTime, Turn, Summary, Finalize, VerifyEmail, Qualify, Gate
<1>13. QED
  BY <1>5, <1>6, <1>7, <1>8, <1>9, <1>10, <1>11, <1>12 DEF Research

(* A pipeline run fails its own job, which is no research job.               *)
LEMMA PipelineFailsOwn ==
  ASSUME QueueInv, NEW w \in Workers, RunJob(w) \/ Pausing(w), NEW k \in Jobs, Fails(k)
  PROVE  job[k].kind # "research"
<1> DEFINE j == me[w].job
<1>1. me[w].pc \notin Ticking
  BY DEF RunJob, Pipe, RunStages, Degrade, Wrap, Broken, Pausing, Ticking
<1>2. j \in Jobs /\ Shape /\ (me[w].pc \in Piping => job[j].kind # "research")
  BY <1>1, AtWork DEF QueueInv
<1>3. {"RUNNING", "DEGRADED", "COMPLETED"} \subseteq LegacyStates \ {"FAILED"}
  BY StatesAre
<1>4. CASE Pipe(w)
  BY <1>2, <1>3, <1>4, MoveFailsNone DEF Pipe, Fails
<1>5. CASE RunStages(w)
  BY <1>5 DEF RunStages, Fails
<1>6. CASE Degrade(w)
  BY <1>2, <1>3, <1>6, TransitionFailsNone DEF Degrade, Fails
<1>7. CASE Wrap(w)
  BY <1>2, <1>3, <1>7, TransitionFailsNone, StateFailsNone DEF Wrap, Fails
<1>8. CASE Broken(w)
  <2>1. k = j
    BY <1>2, <1>8 DEF Broken, Fails, Shape
  <2>2. QED  BY <1>2, <1>8, <2>1 DEF Broken, Piping
<1>9. CASE Pausing(w)
  <2>1. PICK r \in JobRows : r = job[j]
    BY <1>2 DEF Shape
  <2>2. PICK n : n = [r EXCEPT !.due = "later"]
    OBVIOUS
  <2>3. n.state = r.state
    BY <2>2 DEF JobRows
  <2>4. job' = [job EXCEPT ![j] = n]
    BY <1>9, <2>1, <2>2 DEF Pausing
  <2>5. QED  BY <1>2, <2>1, <2>3, <2>4 DEF Fails, Shape
<1>10. QED  BY <1>4, <1>5, <1>6, <1>7, <1>8, <1>9 DEF RunJob

(* A tick fails a job only when its attempts are used up.                    *)
LEMMA TickFailsExhausted ==
  ASSUME QueueInv, NEW w \in Workers, Tick(w), NEW k \in Jobs, Fails(k), ~past[k].lapsed
  PROVE  job[k].attempts >= MaxAttempts
<1> DEFINE j == me[w].job
<1>1. Shape
  BY DEF QueueInv
<1>2. ASSUME NEW i \in Jobs, NEW s
      PROVE  Freed(job[i], s).state = s
  <2>1. job[i] \in JobRows
    BY <1>1 DEF Shape
  <2>2. QED  BY <2>1 DEF JobRows, Freed
<1>3. ASSUME NEW r, Ends(w, r), me[w].pc \notin Ticking
      PROVE  k = j /\ r.state = "FAILED"
  BY <1>1, <1>3, AtWork DEF Ends, Fails, Shape
<1>4. CASE ReclaimExhausted(w)
  BY <1>4 DEF ReclaimExhausted, Fails
<1>5. CASE ReclaimExpired(w)
  <2>1. PICK r \in JobRows : r = job[k]
    BY <1>1 DEF Shape
  <2>2. PICK n : n = [r EXCEPT !.state = "RESUMING"]
    OBVIOUS
  <2>3. n.state = "RESUMING"
    BY <2>2 DEF JobRows
  <2>4. PausedTurn(r, k).state \in {"RESUMING", "CANCELLED", r.state}
    BY <1>2, <2>1, <2>2, <2>3 DEF PausedTurn
  <2>5. job'[k].state # "FAILED"
    BY <1>2, <1>5, <2>1, <2>4 DEF ReclaimExpired, Fails
  <2>6. QED  BY <2>5 DEF Fails
<1>6. CASE LeaseNext(w)
  <2>1. PICK i \in Jobs : job' = [job EXCEPT ![i].state = "RUNNING", ![i].lease = "live",
                                             ![i].attempts = @ + 1]
    BY <1>6 DEF LeaseNext
  <2>2. PICK r \in JobRows : r = job[i]
    BY <1>1 DEF Shape
  <2>3. PICK n : n = [r EXCEPT !.state = "RUNNING", !.lease = "live",
                               !.attempts = r.attempts + 1]
    OBVIOUS
  <2>4. n.state = "RUNNING"
    BY <2>3 DEF JobRows
  <2>5. job' = [job EXCEPT ![i] = n]
    BY <2>1, <2>2, <2>3
  <2>6. QED  BY <1>1, <2>4, <2>5 DEF Fails, Shape
<1>7. CASE LeaseNothing(w)
  BY <1>7 DEF LeaseNothing, Fails
<1>8. CASE Complete(w)
  <2>1. me[w].pc \notin Ticking /\ Ends(w, Freed(job[j], "COMPLETED"))
    BY <1>8 DEF Complete, Ticking
  <2>2. QED  BY <1>2, <1>3, <2>1, AtWork
<1>9. CASE Release(w)
  <2>1. me[w].pc \notin Ticking /\ Ends(w, [job[j] EXCEPT !.lease = "none"])
    BY <1>9 DEF Release, Ticking
  <2>2. PICK r \in JobRows : r = job[j]
    BY <1>1, <2>1, AtWork DEF Shape
  <2>3. PICK n : n = [r EXCEPT !.lease = "none"]
    OBVIOUS
  <2>4. n.state = r.state
    BY <2>3 DEF JobRows
  <2>5. Ends(w, n)
    BY <2>1, <2>2, <2>3
  <2>6. QED  BY <1>3, <2>1, <2>2, <2>4, <2>5 DEF Fails
<1>10. CASE YieldSlice(w)
  <2>1. me[w].pc \notin Ticking
    BY <1>10 DEF YieldSlice, Ticking
  <2>2. PICK r \in JobRows : r = job[j]
    BY <1>1, <2>1, AtWork DEF Shape
  <2>3. PICK f : f = Freed(r, "QUEUED")
    OBVIOUS
  <2>4. f \in JobRows /\ f.state = "QUEUED"
    BY <2>3, StatesAre DEF Freed, JobRows
  <2>5. PICK n : n = [f EXCEPT !.due = "none",
                        !.attempts = IF r.attempts > 0 THEN r.attempts - 1 ELSE 0]
    OBVIOUS
  <2>6. n.state = "QUEUED"
    BY <2>4, <2>5 DEF JobRows
  <2>7. Ends(w, n)
    BY <1>10, <2>2, <2>3, <2>5 DEF YieldSlice
  <2>8. QED  BY <1>3, <2>1, <2>6, <2>7
<1>11. CASE FailRead(w)
  BY <1>11 DEF FailRead, Fails
<1>12. CASE Fail(w)
  <2>1. me[w].pc = "failing" /\ me[w].pc \notin Ticking
    BY <1>12 DEF Fail, Ticking
  <2>2. PICK r \in JobRows : r = job[j]
    BY <1>1, <2>1, AtWork DEF Shape
  <2>3. CASE me[w].saw = "retry"
    <3>1. PICK f : f = Freed(r, "QUEUED")
      OBVIOUS
    <3>2. f \in JobRows /\ f.state = "QUEUED"
      BY <3>1, StatesAre DEF Freed, JobRows
    <3>3. PICK n : n = [f EXCEPT !.due = "later"]
      OBVIOUS
    <3>4. n.state = "QUEUED"
      BY <3>2, <3>3 DEF JobRows
    <3>5. Ends(w, n)
      BY <1>12, <2>2, <2>3, <3>1, <3>3 DEF Fail
    <3>6. QED  BY <1>3, <2>1, <3>4, <3>5
  <2>4. CASE me[w].saw # "retry"
    <3>1. Ends(w, Freed(job[j], "FAILED"))
      BY <1>12, <2>4 DEF Fail
    <3>2. k = j
      BY <1>3, <2>1, <3>1
    <3>3. Running(me[w], job[j], ctx[j], past[j])
      BY <2>1, <3>2, AtWork
    <3>4. QED  BY <2>1, <2>4, <3>2, <3>3 DEF Running
  <2>5. QED  BY <2>3, <2>4
<1>13. QED
  BY <1>4, <1>5, <1>6, <1>7, <1>8, <1>9, <1>10, <1>11, <1>12 DEF Tick

(* No API call fails a job, and no write of the counters, fault or clock.    *)
LEMMA OthersFailNone ==
  ASSUME QueueInv, NEW k \in Jobs,
         \/ Users
         \/ \E w \in Workers : WriteCounters(w) \/ Raise(w) \/ Die(w)
         \/ \E j \in Jobs : LeaseLapses(j) \/ DueComes(j) \/ CallLost(j)
  PROVE  ~Fails(k)
<1>1. Shape
  BY DEF QueueInv
<1>2. {"RUNNING", "RESUMING", "CANCELLED", "QUEUED", "PAUSED"} \subseteq LegacyStates \ {"FAILED"}
  BY StatesAre
<1>3. ASSUME NEW j \in Jobs, StartJob(j) \/ CreateResearch(j) \/ StartResearch(j)
      PROVE  ~Fails(k)
  <2>1. PICK kind : job' = [job EXCEPT ![j].state = "QUEUED", ![j].kind = kind]
    BY <1>3 DEF StartJob, CreateResearch, StartResearch, NewRow
  <2>2. PICK r \in JobRows : r = job[j]
    BY <1>1 DEF Shape
  <2>3. PICK n : n = [r EXCEPT !.state = "QUEUED", !.kind = kind]
    OBVIOUS
  <2>4. n.state = "QUEUED" /\ job' = [job EXCEPT ![j] = n]
    BY <2>1, <2>2, <2>3 DEF JobRows
  <2>5. QED  BY <1>1, <2>4 DEF Fails, Shape
<1>4. ASSUME NEW j \in Jobs, Enqueue(j) \/ Cancel(j) \/ Answer(j) \/ Resume(j) \/ Drain(j)
      PROVE  ~Fails(k)
  <2>1. PICK s \in {"RUNNING", "RESUMING", "CANCELLED", "QUEUED"} :
          job' = [job EXCEPT ![j].state = s]
    BY <1>4 DEF Enqueue, Cancel, Answer, Resume, Drain, Reopens, Transition
  <2>2. QED  BY <1>1, <1>2, <2>1, StateFailsNone
<1>5. ASSUME NEW j \in Jobs, Recover(j) \/ DueComes(j) \/ LeaseLapses(j)
      PROVE  ~Fails(k)
  <2>1. PICK r \in JobRows : r = job[j]
    BY <1>1 DEF Shape
  <2>2. CASE Recover(j)
    <3>1. PICK n : n = [r EXCEPT !.state = "PAUSED", !.due = "later"]
      OBVIOUS
    <3>2. n.state = "PAUSED" /\ job' = [job EXCEPT ![j] = n]
      BY <2>1, <2>2, <3>1 DEF JobRows, Recover
    <3>3. QED  BY <1>1, <3>2 DEF Fails, Shape
  <2>3. CASE DueComes(j)
    <3>1. PICK n : n = [r EXCEPT !.due = "past"]
      OBVIOUS
    <3>2. n.state = r.state /\ job' = [job EXCEPT ![j] = n]
      BY <2>1, <2>3, <3>1 DEF JobRows, DueComes
    <3>3. QED  BY <1>1, <2>1, <3>2 DEF Fails, Shape
  <2>4. CASE LeaseLapses(j)
    <3>1. PICK n : n = [r EXCEPT !.lease = "lapsed"]
      OBVIOUS
    <3>2. n.state = r.state /\ job' = [job EXCEPT ![j] = n]
      BY <2>1, <2>4, <3>1 DEF JobRows, LeaseLapses
    <3>3. QED  BY <1>1, <2>1, <3>2 DEF Fails, Shape
  <2>5. QED  BY <1>5, <2>2, <2>3, <2>4
<1>6. ASSUME UNCHANGED job
      PROVE  ~Fails(k)
  BY <1>6 DEF Fails
<1>8. ASSUME NEW j \in Jobs, CheckStart(j)
      PROVE  ~Fails(k)
  <2>1. PICK r \in JobRows : r = job[j]
    BY <1>1 DEF Shape
  <2>2. PICK n : n = [r EXCEPT !.kind = "pipeline"]
    OBVIOUS
  <2>3. n.state = r.state /\ job' = [job EXCEPT ![j] = n]
    BY <1>8, <2>1, <2>2 DEF JobRows, CheckStart
  <2>4. QED  BY <1>1, <2>1, <2>3 DEF Fails, Shape
<1>7. QED
  BY <1>3, <1>4, <1>5, <1>6, <1>8 DEF Users, WriteCounters, Raise, Die, CallLost

(* A research job whose lease never ran out under its worker fails only with *)
(* its attempts used up.                                                     *)
LEMMA FailsExhausted ==
  ASSUME QueueInv, QueueNext, NEW j \in Jobs, job[j].kind = "research", ~past[j].lapsed,
         Fails(j)
  PROVE  job[j].attempts >= MaxAttempts
<1>1. PICK w \in Workers : Tick(w) \/ Research(w) \/ RunJob(w) \/ Capacity(w) \/ Pausing(w)
  BY OthersFailNone DEF QueueNext, WorkerSteps
<1>2. QED  BY <1>1, TickFailsExhausted, ResearchFailsNone, PipelineFailsOwn

(* A research job whose lease never ran out under its worker is given up only *)
(* with its attempts used up, whatever fail read before it wrote.            *)
THEOREM ResearchIsNotGivenUp == QueueSpec => GivesUpExhausted
<1> DEFINE Exhausted ==
      \A j \in Jobs :
         /\ job[j].kind = "research" /\ ~past[j].lapsed
         /\ job[j].state # "FAILED" /\ job'[j].state = "FAILED"
         => job[j].attempts >= MaxAttempts
<1>1. ASSUME QueueInv, [QueueNext]_queueVars
      PROVE  [Exhausted]_queueVars
  <2>1. SUFFICES ASSUME QueueNext, NEW j \in Jobs, job[j].kind = "research",
                        ~past[j].lapsed, Fails(j)
                 PROVE  job[j].attempts >= MaxAttempts
    BY <1>1 DEF Fails
  <2>2. QED  BY <1>1, <2>1, FailsExhausted
<1>2. QED  BY <1>1, QueueInvariant, PTL DEF QueueSpec, GivesUpExhausted

-----------------------------------------------------------------------------
(* The queue implements UnfencedLifecycle.                                   *)

\* What a step shows above the queue.
Shown == [Unfenced!Next]_(Unfenced!vars)

\* Steps that only turn jobs: nobody takes or leaves one or delivers, no lease
\* is overrun, nothing is created.
SameJobs == \A v \in Workers : me'[v].job = me[v].job
SameRows ==
    \A k \in Jobs :
      /\ job'[k].attempts = job[k].attempts
      /\ job[k].state = "NEW" <=> job'[k].state = "NEW"
      /\ job[k].state # "NEW" => job'[k].kind = job[k].kind
SameLeads == \A k \in Jobs : ctx'[k].leads = ctx[k].leads
SameLapses == \A k \in Jobs : past'[k].lapsed = past[k].lapsed

(* What becomes of a row's state.                                            *)
LEMMA PhaseOfRow ==
  ASSUME NEW r
  PROVE  /\ QueuePhase(r) \in {"absent", "waiting", "out", "given up"}
         /\ QueuePhase(r) = "absent" <=> r.state = "NEW"
         /\ QueuePhase(r) = "waiting" <=> r.state \in {"QUEUED", "RESUMING"}
         /\ QueuePhase(r) = "given up" <=> r.state = "FAILED" /\ r.kind = "research"
BY DEF QueuePhase

(* A job that is there may be turned as its row is.                          *)
LEMMA RowMayTurn ==
  ASSUME QueueInv, QueueNext, NEW j \in Jobs, job[j].state # "NEW", job'[j].state # "NEW",
         job'[j].kind = job[j].kind
  PROVE  Unfenced!MayTurn(j, QueuePhase(job'[j]))
<1> DEFINE p == QueuePhase(job'[j])
           q == QueuePhase(job[j])
<1>1. p \in {"waiting", "out", "given up"} /\ q # "absent"
  BY PhaseOfRow
<1>2. ASSUME p = "given up", q # "given up", ~past[j].lapsed
      PROVE  job[j].attempts = MaxAttempts
  <2>1. job[j].kind = "research" /\ Fails(j)
    BY <1>2, PhaseOfRow DEF Fails
  <2>2. job[j].attempts >= MaxAttempts
    BY <1>2, <2>1, FailsExhausted
  <2>3. job[j].attempts \in 0 .. MaxAttempts /\ MaxAttempts \in Nat
    BY QueueAssumption DEF QueueInv, Shape, JobRows
  <2>4. QED  BY <2>2, <2>3
<1>3. QED
  <2> HIDE DEF p, q
  <2>1. p = q \/ (p = "given up" => job[j].attempts = MaxAttempts \/ past[j].lapsed)
    BY <1>2
  <2>2. QED  BY <1>1, <2>1 DEF Unfenced!MayTurn, Unfenced!LifePhases, p, q

(* A step that only turns jobs.                                              *)
LEMMA TurnShown ==
  ASSUME QueueInv, QueueNext, SameJobs, SameRows, SameLeads, SameLapses
  PROVE  Shown
<1>1. \A k \in Jobs : QueuePhase(job'[k]) \in Unfenced!LifePhases
  BY PhaseOfRow DEF Unfenced!LifePhases
<1>2. ASSUME NEW k \in Jobs
      PROVE  Unfenced!MayTurn(k, QueuePhase(job'[k]))
  <2>1. CASE job[k].state = "NEW"
    <3>1. QueuePhase(job'[k]) = "absent" /\ QueuePhase(job[k]) = "absent"
      BY <2>1, PhaseOfRow DEF SameRows
    <3>2. QED  BY <3>1 DEF Unfenced!MayTurn
  <2>2. CASE job[k].state # "NEW"
    BY <2>2, RowMayTurn DEF SameRows
  <2>3. QED  BY <2>1, <2>2
<1>3. [j \in Jobs |-> {w \in Workers : Runs(w, j)}]' = [j \in Jobs |-> {w \in Workers : Runs(w, j)}]
  BY DEF SameJobs, Runs
<1>4. /\ [j \in Jobs |-> past[j].lapsed]' = [j \in Jobs |-> past[j].lapsed]
      /\ [j \in Jobs |-> ctx[j].leads]' = [j \in Jobs |-> ctx[j].leads]
      /\ [j \in Jobs |-> job[j].attempts]' = [j \in Jobs |-> job[j].attempts]
  BY DEF SameLapses, SameLeads, SameRows
<1>5. Unfenced!Turn
  BY <1>1, <1>2, <1>3, <1>4 DEF Unfenced!Turn
<1>6. QED  BY <1>5 DEF Shown, Unfenced!Next

(* A worker that leaves its job.                                             *)
LEMMA LeaveShown ==
  ASSUME QueueInv, QueueNext, NEW w \in Workers, NEW j \in Jobs, Runs(w, j),
         me'[w].job = "none", \A v \in Workers \ {w} : me'[v] = me[v],
         \A k \in Jobs \ {j} : job'[k] = job[k],
         job'[j].state # "NEW", job'[j].kind = job[j].kind,
         \/ job'[j].attempts = job[j].attempts
         \/ /\ job'[j].state \in {"QUEUED", "RESUMING"} /\ job[j].attempts > 0
            /\ job'[j].attempts = job[j].attempts - 1,
         SameLeads, SameLapses
  PROVE  Shown
<1> DEFINE ph == [k \in Jobs |-> QueuePhase(job[k])]
           hs == [k \in Jobs |-> {v \in Workers : Runs(v, k)}]
           at == [k \in Jobs |-> job[k].attempts]
<1>1. job[j].state # "NEW" /\ j # "none" /\ me[w].job = j
  BY QueueAssumption DEF QueueInv, RunnersHeld, Runs
<1>2. w \in hs[j] /\ hs' = [hs EXCEPT ![j] = @ \ {w}]
  <2>1. \A v \in Workers, k \in Jobs : Runs(v, k)' <=> Runs(v, k) /\ ~(v = w /\ k = j)
    BY <1>1, QueueAssumption DEF Runs
  <2>2. \A k \in Jobs : hs'[k] = IF k = j THEN hs[j] \ {w} ELSE hs[k]
    BY <2>1
  <2>3. QED  BY <2>2
<1>3. ph' = [ph EXCEPT ![j] = QueuePhase(job'[j])]
  OBVIOUS
<1>4. Unfenced!MayTurn(j, QueuePhase(job'[j])) /\ QueuePhase(job'[j]) \in Unfenced!LifePhases
  BY <1>1, RowMayTurn, PhaseOfRow DEF Unfenced!LifePhases
<1>5. \/ at' = at
      \/ ph'[j] = "waiting" /\ at[j] > 0 /\ at' = [at EXCEPT ![j] = @ - 1]
  <2>1. CASE job'[j].attempts = job[j].attempts
    BY <2>1
  <2>2. CASE /\ job'[j].state \in {"QUEUED", "RESUMING"} /\ job[j].attempts > 0
             /\ job'[j].attempts = job[j].attempts - 1
    <3>1. ph'[j] = "waiting"
      BY <2>2, PhaseOfRow
    <3>2. QED  BY <2>2, <3>1
  <2>3. QED  BY <2>1, <2>2
<1>6. /\ [k \in Jobs |-> past[k].lapsed]' = [k \in Jobs |-> past[k].lapsed]
      /\ [k \in Jobs |-> ctx[k].leads]' = [k \in Jobs |-> ctx[k].leads]
  BY DEF SameLapses, SameLeads
<1>7. Unfenced!Leave(w, j)
  BY <1>2, <1>3, <1>4, <1>5, <1>6 DEF Unfenced!Leave
<1>8. QED  BY <1>7 DEF Shown, Unfenced!Next

(* A worker that delivers leads.                                             *)
LEMMA DeliverShown ==
  ASSUME QueueInv, NEW w \in Workers, NEW j \in Jobs, Runs(w, j), NEW new \in SUBSET Subjects,
         SameJobs, UNCHANGED job, SameLapses, \A k \in Jobs \ {j} : ctx'[k] = ctx[k],
         ctx'[j].leads = ctx[j].leads \cup new
  PROVE  Shown
<1> DEFINE ls == [k \in Jobs |-> ctx[k].leads]
<1>1. ls' = [ls EXCEPT ![j] = @ \cup new]
  OBVIOUS
<1>2. [k \in Jobs |-> {v \in Workers : Runs(v, k)}]' = [k \in Jobs |-> {v \in Workers : Runs(v, k)}]
  BY DEF SameJobs, Runs
<1>3. [k \in Jobs |-> past[k].lapsed]' = [k \in Jobs |-> past[k].lapsed]
  BY DEF SameLapses
<1>4. w \in [k \in Jobs |-> {v \in Workers : Runs(v, k)}][j]
  OBVIOUS
<1>5. Unfenced!Deliver(w, j)
  BY <1>1, <1>2, <1>3, <1>4 DEF Unfenced!Deliver
<1>6. QED  BY <1>5 DEF Shown, Unfenced!Next

(* A row that is filled in and queued.                                       *)
LEMMA NewShown ==
  ASSUME NEW j \in Jobs, job[j].state = "NEW", \A k \in Jobs \ {j} : job'[k] = job[k],
         job'[j].state = "QUEUED", job'[j].attempts = job[j].attempts,
         UNCHANGED <<ctx, me>>, SameLapses
  PROVE  Shown
<1> DEFINE ph == [k \in Jobs |-> QueuePhase(job[k])]
<1>1. ph[j] = "absent" /\ QueuePhase(job'[j]) = "waiting"
  BY PhaseOfRow
<1>2. ph' = [ph EXCEPT ![j] = "waiting"]
  BY <1>1
<1>3. [k \in Jobs |-> job[k].attempts]' = [k \in Jobs |-> job[k].attempts]
  OBVIOUS
<1>4. [k \in Jobs |-> past[k].lapsed]' = [k \in Jobs |-> past[k].lapsed]
  BY DEF SameLapses
<1>5. [k \in Jobs |-> {v \in Workers : Runs(v, k)}]' = [k \in Jobs |-> {v \in Workers : Runs(v, k)}]
  BY DEF Runs
<1>6. Unfenced!Create(j)
  BY <1>1, <1>2, <1>3, <1>4, <1>5 DEF Unfenced!Create
<1>7. QED  BY <1>6 DEF Shown, Unfenced!Next

(* A job is created.                                                         *)
LEMMA CreateShown ==
  ASSUME QueueInv, NEW j \in Jobs, StartJob(j) \/ CreateResearch(j) \/ StartResearch(j)
  PROVE  Shown
<1>1. PICK kind : job' = [job EXCEPT ![j].state = "QUEUED", ![j].kind = kind]
  BY DEF StartJob, CreateResearch, StartResearch, NewRow
<1>2. PICK r \in JobRows : r = job[j]
  BY DEF QueueInv, Shape
<1>3. PICK n : n = [r EXCEPT !.state = "QUEUED", !.kind = kind]
  OBVIOUS
<1>4. n.state = "QUEUED" /\ n.attempts = r.attempts
  BY <1>3 DEF JobRows
<1>5. job' = [job EXCEPT ![j] = n]
  BY <1>1, <1>2, <1>3
<1>6. job'[j] = n /\ \A k \in Jobs \ {j} : job'[k] = job[k]
  BY <1>5 DEF QueueInv, Shape
<1>7. job[j].state = "NEW" /\ UNCHANGED <<ctx, me>>
  BY DEF StartJob, CreateResearch, StartResearch, Unmade
<1>8. SameLapses
  <2>1. CASE UNCHANGED past
    BY <2>1 DEF SameLapses
  <2>2. CASE CreateResearch(j)
    <3>1. PICK b : past' = [past EXCEPT ![j].refused = b]
      BY <2>2 DEF CreateResearch
    <3>2. PICK h \in Histories : h = past[j]
      BY DEF QueueInv, Shape
    <3>3. PICK g : g = [h EXCEPT !.refused = b]
      OBVIOUS
    <3>4. g.lapsed = h.lapsed /\ past' = [past EXCEPT ![j] = g]
      BY <3>1, <3>2, <3>3 DEF Histories
    <3>5. QED  BY <3>2, <3>4 DEF QueueInv, Shape, SameLapses
  <2>3. QED  BY <2>1, <2>2 DEF StartJob, StartResearch
<1>9. QED  BY <1>2, <1>4, <1>6, <1>7, <1>8, NewShown

(* A job is leased, of which nobody has a lease that did not run out.        *)
LEMMA TakeShown ==
  ASSUME QueueInv, NEW w \in Workers, LeaseNext(w)
  PROVE  Shown
<1> DEFINE ph == [k \in Jobs |-> QueuePhase(job[k])]
           hs == [k \in Jobs |-> {v \in Workers : Runs(v, k)}]
           at == [k \in Jobs |-> job[k].attempts]
           ov == [k \in Jobs |-> past[k].lapsed]
<1>1. me[w].pc = "lease" /\ UNCHANGED <<ctx, past>>
  BY DEF LeaseNext
<1>2. PICK j \in Jobs :
        /\ Leasable(j)
        /\ job' = [job EXCEPT ![j].state = "RUNNING", ![j].lease = "live", ![j].attempts = @ + 1]
        /\ me' = [me EXCEPT ![w] = [Idle EXCEPT !.job = j,
                    !.pc = IF job[j].kind = "research" THEN "enter" ELSE "pipe"]]
  BY DEF LeaseNext
<1>3. PICK r \in JobRows : r = job[j]
  BY DEF QueueInv, Shape
<1>4. PICK n : n = [r EXCEPT !.state = "RUNNING", !.lease = "live", !.attempts = r.attempts + 1]
  OBVIOUS
<1>5. n.state = "RUNNING" /\ n.attempts = r.attempts + 1
  BY <1>4 DEF JobRows
<1>6. job' = [job EXCEPT ![j] = n]
  BY <1>2, <1>3, <1>4
<1>7. job'[j] = n /\ \A k \in Jobs \ {j} : job'[k] = job[k]
  BY <1>6 DEF QueueInv, Shape
<1>8. PICK m : m = [Idle EXCEPT !.job = j,
                      !.pc = IF job[j].kind = "research" THEN "enter" ELSE "pipe"]
  OBVIOUS
<1>9. m.job = j
  BY <1>8 DEF Idle
<1>10. me'[w] = m /\ \A v \in Workers \ {w} : me'[v] = me[v]
  BY <1>2, <1>8 DEF QueueInv, Shape
<1>11. "none" \notin Jobs /\ me[w].job = "none"
  BY <1>1, QueueAssumption DEF QueueInv, Minded, Ticking
<1>12. \A v \in Workers, k \in Jobs : Runs(v, k)' <=> Runs(v, k) \/ (v = w /\ k = j)
  BY <1>9, <1>10, <1>11 DEF Runs
<1>13. hs' = [hs EXCEPT ![j] = @ \cup {w}]
  <2>1. \A k \in Jobs : hs'[k] = IF k = j THEN hs[j] \cup {w} ELSE hs[k]
    BY <1>12
  <2>2. QED  BY <2>1
<1>14. \A k \in Jobs : w \notin hs[k]
  BY <1>11 DEF Runs
<1>15. hs[j] = {} \/ ov[j]
  BY <1>2, ExpiredIsFree
<1>16. ph[j] = "waiting" /\ at[j] < MaxAttempts
  BY <1>2, PhaseOfRow DEF Leasable
<1>17. ph' = [ph EXCEPT ![j] = "out"]
  <2>1. QueuePhase(n) = "out"
    BY <1>5, PhaseOfRow
  <2>2. QED  BY <1>7, <2>1
<1>18. at' = [at EXCEPT ![j] = @ + 1]
  BY <1>3, <1>5, <1>7
<1>19. Unfenced!Take(w, j)
  BY <1>1, <1>13, <1>14, <1>15, <1>16, <1>17, <1>18 DEF Unfenced!Take
<1>20. QED  BY <1>19 DEF Shown, Unfenced!Next

(* A lease runs out: under its worker, or after it has gone.                 *)
LEMMA LapseShown ==
  ASSUME QueueInv, QueueNext, NEW j \in Jobs, LeaseLapses(j)
  PROVE  Shown
<1> DEFINE ov == [k \in Jobs |-> past[k].lapsed]
<1>1. PICK r \in JobRows : r = job[j]
  BY DEF QueueInv, Shape
<1>2. PICK n : n = [r EXCEPT !.lease = "lapsed"]
  OBVIOUS
<1>3. n.state = r.state /\ n.kind = r.kind /\ n.attempts = r.attempts
  BY <1>2 DEF JobRows
<1>4. job' = [job EXCEPT ![j] = n]
  BY <1>1, <1>2 DEF LeaseLapses
<1>5. job'[j] = n /\ \A k \in Jobs \ {j} : job'[k] = job[k]
  BY <1>4 DEF QueueInv, Shape
<1>6. UNCHANGED <<ctx, me>> /\ SameJobs /\ SameLeads /\ SameRows
  BY <1>1, <1>3, <1>5 DEF LeaseLapses, SameJobs, SameLeads, SameRows
<1>7. CASE NobodyRuns(j)
  BY <1>6, <1>7, TurnShown DEF LeaseLapses, SameLapses
<1>8. CASE ~NobodyRuns(j)
  <2>1. past' = [past EXCEPT ![j].lapsed = TRUE]
    BY <1>8 DEF LeaseLapses
  <2>2. PICK h \in Histories : h = past[j]
    BY DEF QueueInv, Shape
  <2>3. PICK g : g = [h EXCEPT !.lapsed = TRUE]
    OBVIOUS
  <2>4. g.lapsed /\ g.lapsed = TRUE
    BY <2>3 DEF Histories
  <2>5. past' = [past EXCEPT ![j] = g]
    BY <2>1, <2>2, <2>3
  <2>6. ov' = [ov EXCEPT ![j] = TRUE]
    BY <2>4, <2>5 DEF QueueInv, Shape
  <2>7. [k \in Jobs |-> {v \in Workers : Runs(v, k)}][j] # {}
    BY <1>8 DEF NobodyRuns
  <2>8. [k \in Jobs |-> QueuePhase(job[k])]' = [k \in Jobs |-> QueuePhase(job[k])]
    BY <1>1, <1>3, <1>5 DEF QueuePhase
  <2>9. /\ [k \in Jobs |-> {v \in Workers : Runs(v, k)}]'
             = [k \in Jobs |-> {v \in Workers : Runs(v, k)}]
        /\ [k \in Jobs |-> job[k].attempts]' = [k \in Jobs |-> job[k].attempts]
        /\ [k \in Jobs |-> ctx[k].leads]' = [k \in Jobs |-> ctx[k].leads]
    BY <1>6 DEF SameRows, Runs
  <2>10. Unfenced!Overrun(j)
    BY <2>6, <2>7, <2>8, <2>9 DEF Unfenced!Overrun
  <2>11. QED  BY <2>10 DEF Shown, Unfenced!Next
<1>9. QED  BY <1>7, <1>8

(* What a worker notes leaves it its job.                                    *)
LEMMA NotesKeep ==
  ASSUME Shape, NEW w \in Workers, NEW p, NEW s, NEW n,
         Goes(w, p) \/ Sees(w, p, s) \/ Change(w, n, p) \/ me' = [me EXCEPT ![w].write = n]
  PROVE  SameJobs
<1>1. PICK m \in Memories : m = me[w]
  BY DEF Shape
<1>2. ASSUME NEW c, me' = [me EXCEPT ![w] = c], c.job = m.job
      PROVE  SameJobs
  BY <1>1, <1>2 DEF Shape, SameJobs
<1>3. CASE Goes(w, p)
  <2>1. PICK c : c = [m EXCEPT !.pc = p]
    OBVIOUS
  <2>2. c.job = m.job
    BY <2>1 DEF Memories
  <2>3. me' = [me EXCEPT ![w] = c]
    BY <1>1, <1>3, <2>1 DEF Goes
  <2>4. QED  BY <1>2, <2>2, <2>3
<1>4. CASE Sees(w, p, s)
  <2>1. PICK c : c = [m EXCEPT !.pc = p, !.saw = s]
    OBVIOUS
  <2>2. c.job = m.job
    BY <2>1 DEF Memories
  <2>3. me' = [me EXCEPT ![w] = c]
    BY <1>1, <1>4, <2>1 DEF Sees
  <2>4. QED  BY <1>2, <2>2, <2>3
<1>5. CASE Change(w, n, p)
  <2>1. PICK c : c = [m EXCEPT !.write = n, !.pc = p]
    OBVIOUS
  <2>2. c.job = m.job
    BY <2>1 DEF Memories
  <2>3. me' = [me EXCEPT ![w] = c]
    BY <1>1, <1>5, <2>1 DEF Change
  <2>4. QED  BY <1>2, <2>2, <2>3
<1>6. CASE me' = [me EXCEPT ![w].write = n]
  <2>1. PICK c : c = [m EXCEPT !.write = n]
    OBVIOUS
  <2>2. c.job = m.job
    BY <2>1 DEF Memories
  <2>3. me' = [me EXCEPT ![w] = c]
    BY <1>1, <1>6, <2>1
  <2>4. QED  BY <1>2, <2>2, <2>3
<1>7. QED  BY <1>3, <1>4, <1>5, <1>6

(* So does the list of what is to be judged.                                 *)
LEMMA JudgingKeeps ==
  ASSUME Shape, NEW w \in Workers, Qualifying(w) \/ Qualify(w)
  PROVE  SameJobs
<1>1. PICK m \in Memories : m = me[w]
  BY DEF Shape
<1>2. ASSUME NEW c, me' = [me EXCEPT ![w] = c], c.job = m.job
      PROVE  SameJobs
  BY <1>1, <1>2 DEF Shape, SameJobs
<1>3. ASSUME NEW p, Goes(w, p)
      PROVE  SameJobs
  BY <1>3, NotesKeep
<1>4. ASSUME NEW h, NEW t, me' = [me EXCEPT ![w].pc = "qualify", ![w].have = h, ![w].todo = t]
      PROVE  SameJobs
  <2>1. PICK c : c = [m EXCEPT !.pc = "qualify", !.have = h, !.todo = t]
    OBVIOUS
  <2>2. c.job = m.job
    BY <2>1 DEF Memories
  <2>3. me' = [me EXCEPT ![w] = c]
    BY <1>1, <1>4, <2>1
  <2>4. QED  BY <1>2, <2>2, <2>3
<1>5. ASSUME NEW s, NEW n,
             me' = [me EXCEPT ![w].todo = @ \ {s}, ![w].have = @ \cup {s}, ![w].write = n]
      PROVE  SameJobs
  <2>1. PICK c : c = [m EXCEPT !.todo = @ \ {s}, !.have = @ \cup {s}, !.write = n]
    OBVIOUS
  <2>2. c.job = m.job
    BY <2>1 DEF Memories
  <2>3. me' = [me EXCEPT ![w] = c]
    BY <1>1, <1>5, <2>1
  <2>4. QED  BY <1>2, <2>2, <2>3
<1>6. ASSUME NEW s, me' = [me EXCEPT ![w].todo = @ \ {s}]
      PROVE  SameJobs
  <2>1. PICK c : c = [m EXCEPT !.todo = @ \ {s}]
    OBVIOUS
  <2>2. c.job = m.job
    BY <2>1 DEF Memories
  <2>3. me' = [me EXCEPT ![w] = c]
    BY <1>1, <1>6, <2>1
  <2>4. QED  BY <1>2, <2>2, <2>3
<1>7. CASE Qualifying(w)
  <2>1. \/ \E h, t : me' = [me EXCEPT ![w].pc = "qualify", ![w].have = h, ![w].todo = t]
        \/ Goes(w, "fail")
    BY <1>7 DEF Qualifying
  <2>2. QED  BY <1>3, <1>4, <2>1
<1>8. CASE Qualify(w)
  <2>1. \/ Goes(w, "gate")
        \/ \E s, n : me' = [me EXCEPT ![w].todo = @ \ {s}, ![w].have = @ \cup {s}, ![w].write = n]
        \/ \E s : me' = [me EXCEPT ![w].todo = @ \ {s}]
    BY <1>8 DEF Qualify
  <2>2. QED  BY <1>3, <1>5, <1>6, <2>1
<1>9. QED  BY <1>7, <1>8

(* A row whose state or due date changes.                                    *)
LEMMA RowKeeps ==
  ASSUME Shape, NEW j \in Jobs, job[j].state # "NEW", NEW s \in LegacyStates, NEW d,
         \/ job' = [job EXCEPT ![j].state = s]
         \/ job' = [job EXCEPT ![j].due = d]
         \/ job' = [job EXCEPT ![j].state = s, ![j].due = d]
  PROVE  SameRows
<1>1. PICK r \in JobRows : r = job[j]
  BY DEF Shape
<1>2. s # "NEW"
  BY StatesAre
<1>3. ASSUME NEW n, job' = [job EXCEPT ![j] = n], n.attempts = r.attempts, n.kind = r.kind,
             n.state # "NEW"
      PROVE  SameRows
  BY <1>1, <1>3 DEF Shape, SameRows
<1>4. CASE job' = [job EXCEPT ![j].state = s]
  <2>1. PICK n : n = [r EXCEPT !.state = s]
    OBVIOUS
  <2>2. n.attempts = r.attempts /\ n.kind = r.kind /\ n.state # "NEW"
    BY <1>2, <2>1 DEF JobRows
  <2>3. job' = [job EXCEPT ![j] = n]
    BY <1>1, <1>4, <2>1
  <2>4. QED  BY <1>3, <2>2, <2>3
<1>5. CASE job' = [job EXCEPT ![j].due = d]
  <2>1. PICK n : n = [r EXCEPT !.due = d]
    OBVIOUS
  <2>2. n.attempts = r.attempts /\ n.kind = r.kind /\ n.state # "NEW"
    BY <1>1, <2>1 DEF JobRows
  <2>3. job' = [job EXCEPT ![j] = n]
    BY <1>1, <1>5, <2>1
  <2>4. QED  BY <1>3, <2>2, <2>3
<1>6. CASE job' = [job EXCEPT ![j].state = s, ![j].due = d]
  <2>1. PICK n : n = [r EXCEPT !.state = s, !.due = d]
    OBVIOUS
  <2>2. n.attempts = r.attempts /\ n.kind = r.kind /\ n.state # "NEW"
    BY <1>2, <2>1 DEF JobRows
  <2>3. job' = [job EXCEPT ![j] = n]
    BY <1>1, <1>6, <2>1
  <2>4. QED  BY <1>3, <2>2, <2>3
<1>7. QED  BY <1>4, <1>5, <1>6

(* A context that changes in anything but its leads.                         *)
LEMMA ContextKeeps ==
  ASSUME Shape, NEW j \in Jobs, NEW x, NEW new,
         \/ ctx' = [ctx EXCEPT ![j].plan = x] \/ ctx' = [ctx EXCEPT ![j].counters = x]
         \/ ctx' = [ctx EXCEPT ![j].asked = x] \/ ctx' = [ctx EXCEPT ![j].facts = @ \cup new]
  PROVE  SameLeads
<1>1. PICK c \in Contexts : c = ctx[j]
  BY DEF Shape
<1>2. ASSUME NEW d, ctx' = [ctx EXCEPT ![j] = d], d.leads = c.leads
      PROVE  SameLeads
  BY <1>1, <1>2 DEF Shape, SameLeads
<1>3. CASE ctx' = [ctx EXCEPT ![j].plan = x]
  <2>1. PICK d : d = [c EXCEPT !.plan = x]
    OBVIOUS
  <2>2. d.leads = c.leads /\ ctx' = [ctx EXCEPT ![j] = d]
    BY <1>1, <1>3, <2>1 DEF Contexts
  <2>3. QED  BY <1>2, <2>2
<1>4. CASE ctx' = [ctx EXCEPT ![j].counters = x]
  <2>1. PICK d : d = [c EXCEPT !.counters = x]
    OBVIOUS
  <2>2. d.leads = c.leads /\ ctx' = [ctx EXCEPT ![j] = d]
    BY <1>1, <1>4, <2>1 DEF Contexts
  <2>3. QED  BY <1>2, <2>2
<1>5. CASE ctx' = [ctx EXCEPT ![j].asked = x]
  <2>1. PICK d : d = [c EXCEPT !.asked = x]
    OBVIOUS
  <2>2. d.leads = c.leads /\ ctx' = [ctx EXCEPT ![j] = d]
    BY <1>1, <1>5, <2>1 DEF Contexts
  <2>3. QED  BY <1>2, <2>2
<1>6. CASE ctx' = [ctx EXCEPT ![j].facts = @ \cup new]
  <2>1. PICK d : d = [c EXCEPT !.facts = @ \cup new]
    OBVIOUS
  <2>2. d.leads = c.leads /\ ctx' = [ctx EXCEPT ![j] = d]
    BY <1>1, <1>6, <2>1 DEF Contexts
  <2>3. QED  BY <1>2, <2>2
<1>7. QED  BY <1>3, <1>4, <1>5, <1>6

(* A history that changes in anything but the leases.                        *)
LEMMA HistoryKeeps ==
  ASSUME Shape, NEW j \in Jobs, NEW s, NEW b,
         \/ past' = [past EXCEPT ![j].paid = @ \cup {s}, ![j].twice = b]
         \/ past' = [past EXCEPT ![j].leadless = s]
         \/ past' = [past EXCEPT ![j].paid = {}, ![j].leadless = s]
  PROVE  SameLapses
<1>1. PICK h \in Histories : h = past[j]
  BY DEF Shape
<1>2. ASSUME NEW g, past' = [past EXCEPT ![j] = g], g.lapsed = h.lapsed
      PROVE  SameLapses
  BY <1>1, <1>2 DEF Shape, SameLapses
<1>3. CASE past' = [past EXCEPT ![j].paid = @ \cup {s}, ![j].twice = b]
  <2>1. PICK g : g = [h EXCEPT !.paid = @ \cup {s}, !.twice = b]
    OBVIOUS
  <2>2. g.lapsed = h.lapsed
    BY <2>1 DEF Histories
  <2>3. past' = [past EXCEPT ![j] = g]
    BY <1>1, <1>3, <2>1
  <2>4. QED  BY <1>2, <2>2, <2>3
<1>4. CASE past' = [past EXCEPT ![j].leadless = s]
  <2>1. PICK g : g = [h EXCEPT !.leadless = s]
    OBVIOUS
  <2>2. g.lapsed = h.lapsed /\ past' = [past EXCEPT ![j] = g]
    BY <1>1, <1>4, <2>1 DEF Histories
  <2>3. QED  BY <1>2, <2>2
<1>5. CASE past' = [past EXCEPT ![j].paid = {}, ![j].leadless = s]
  <2>1. PICK g : g = [h EXCEPT !.paid = {}, !.leadless = s]
    OBVIOUS
  <2>2. g.lapsed = h.lapsed /\ past' = [past EXCEPT ![j] = g]
    BY <1>1, <1>5, <2>1 DEF Histories
  <2>3. QED  BY <1>2, <2>2
<1>6. QED  BY <1>3, <1>4, <1>5

(* A move of a worker's run, admitted or refused.                            *)
LEMMA MoveKeeps ==
  ASSUME QueueInv, NEW w \in Workers, me[w].pc \notin Ticking, NEW p, NEW s \in LegacyStates,
         MoveTo(w, s, p)
  PROVE  SameJobs /\ SameRows
<1>1. me[w].job \in Jobs /\ job[me[w].job].state # "NEW" /\ Shape
  BY AtWork, StatesAre DEF QueueInv
<1>2. SameJobs
  BY <1>1, NotesKeep DEF MoveTo
<1>3. CASE Transition(me[w].job, s)
  BY <1>1, <1>2, <1>3, RowKeeps DEF Transition
<1>4. CASE UNCHANGED job
  BY <1>2, <1>4 DEF SameRows
<1>5. QED  BY <1>3, <1>4 DEF MoveTo

(* A step of a research run turns its job, or delivers at the gate.          *)
LEMMA ResearchShown ==
  ASSUME QueueInv, QueueNext, NEW w \in Workers, Research(w) \/ Capacity(w)
  PROVE  Shown
<1> DEFINE j == me[w].job
<1>1. me[w].pc \notin Ticking
  BY DEF Research, Enter, Plan, Planned, OutOfTime, Turn, Act, Summary, Finalize, Verify,
         VerifyEmail, Qualifying, Qualify, Gate, ReadyForReview, Capacity, Ticking
<1>2. j \in Jobs /\ Runs(w, j) /\ job[j].state # "NEW" /\ Shape
  BY <1>1, AtWork, StatesAre DEF QueueInv
<1>3. {"RUNNING", "DISCOVERING", "VERIFYING", "QUALIFYING", "READY_FOR_REVIEW", "PAUSED",
       "WAITING_FOR_USER"} \subseteq LegacyStates
  BY StatesAre
<1>4. /\ UNCHANGED job => SameRows
      /\ UNCHANGED ctx => SameLeads
      /\ UNCHANGED past => SameLapses
  BY DEF SameRows, SameLeads, SameLapses
<1>5. ASSUME NEW s \in LegacyStates, NEW p, MoveTo(w, s, p), UNCHANGED <<ctx, past>>
      PROVE  Shown
  BY <1>1, <1>4, <1>5, MoveKeeps, TurnShown
<1>6. ASSUME NEW p, NEW s, NEW n, Goes(w, p) \/ Sees(w, p, s) \/ Change(w, n, p),
             UNCHANGED <<job, ctx, past>>
      PROVE  Shown
  BY <1>2, <1>4, <1>6, NotesKeep, TurnShown
<1>7. CASE Enter(w)
  <2>1. UNCHANGED <<ctx, past>>
    BY <1>7 DEF Enter
  <2>2. \/ \E p : Goes(w, p) /\ UNCHANGED job
        \/ MoveTo(w, "RUNNING", Opening(j))
    BY <1>7 DEF Enter
  <2>3. QED  BY <1>3, <1>5, <1>6, <2>1, <2>2
<1>8. CASE Plan(w) \/ Verify(w) \/ ReadyForReview(w) \/ Capacity(w)
  <2>1. UNCHANGED <<ctx, past>>
    BY <1>8 DEF Plan, Verify, ReadyForReview, Capacity
  <2>2. \E s \in {"DISCOVERING", "VERIFYING", "READY_FOR_REVIEW", "PAUSED"} :
          \E p : MoveTo(w, s, p)
    BY <1>8 DEF Plan, Verify, ReadyForReview, Capacity
  <2>3. QED  BY <1>3, <1>5, <2>1, <2>2
<1>9. CASE Planned(w)
  <2>1. UNCHANGED <<job, past>> /\ \E p : Goes(w, p)
    BY <1>9 DEF Planned
  <2>2. UNCHANGED ctx \/ ctx' = [ctx EXCEPT ![j].plan = TRUE]
    BY <1>9 DEF Planned
  <2>3. SameLeads
    BY <1>2, <1>4, <2>2, ContextKeeps
  <2>4. QED  BY <1>2, <1>4, <2>1, <2>3, NotesKeep, TurnShown
<1>10. CASE OutOfTime(w) \/ Summary(w)
  <2>1. UNCHANGED <<job, ctx, past>> /\ \E p, s : Sees(w, p, s)
    BY <1>10 DEF OutOfTime, Summary, Sees
  <2>2. QED  BY <1>6, <2>1
<1>11. CASE Turn(w) \/ Finalize(w)
  <2>1. UNCHANGED <<job, ctx, past>> /\ \E p, n : Goes(w, p) \/ Change(w, n, p)
    BY <1>11 DEF Turn, Finalize
  <2>2. QED  BY <1>6, <2>1
<1>12. CASE Act(w)
  <2>1. UNCHANGED past /\ \E p : Goes(w, p)
    BY <1>12 DEF Act
  <2>2. SameRows
    <3>1. UNCHANGED job \/ job' = [job EXCEPT ![j].state = "WAITING_FOR_USER"]
      BY <1>12 DEF Act, Transition
    <3>2. QED  BY <1>2, <1>3, <1>4, <3>1, RowKeeps
  <2>3. SameLeads
    <3>1. \/ UNCHANGED ctx
          \/ \E new : ctx' = [ctx EXCEPT ![j].facts = @ \cup new]
          \/ ctx' = [ctx EXCEPT ![j].asked = TRUE]
      BY <1>12 DEF Act
    <3>2. QED  BY <1>2, <1>4, <3>1, ContextKeeps
  <2>4. QED  BY <1>2, <1>4, <2>1, <2>2, <2>3, NotesKeep, TurnShown
<1>13. CASE VerifyEmail(w)
  <2>1. UNCHANGED <<job, ctx>> /\ \E p, n : Goes(w, p) \/ Change(w, n, p)
    BY <1>13 DEF VerifyEmail
  <2>2. \/ UNCHANGED past
        \/ \E s, b : past' = [past EXCEPT ![j].paid = @ \cup {s}, ![j].twice = b]
    BY <1>13 DEF VerifyEmail
  <2>3. SameLapses
    BY <1>2, <1>4, <2>2, HistoryKeeps
  <2>4. QED  BY <1>2, <1>4, <2>1, <2>3, NotesKeep, TurnShown
<1>14. CASE Qualifying(w)
  <2>1. UNCHANGED ctx
    BY <1>14 DEF Qualifying
  <2>2. UNCHANGED job \/ job' = [job EXCEPT ![j].state = "QUALIFYING"]
    BY <1>14 DEF Qualifying, Transition
  <2>3. SameRows
    BY <1>2, <1>3, <1>4, <2>2, RowKeeps
  <2>5. UNCHANGED past \/ \E s : past' = [past EXCEPT ![j].leadless = s]
    BY <1>14 DEF Qualifying
  <2>6. SameLapses
    BY <1>2, <1>4, <2>5, HistoryKeeps
  <2>4. QED  BY <1>2, <1>4, <1>14, <2>1, <2>3, <2>6, JudgingKeeps, TurnShown
<1>15. CASE Qualify(w)
  <2>1. UNCHANGED <<job, ctx>>
    BY <1>15 DEF Qualify
  <2>2. UNCHANGED past \/ \E s : past' = [past EXCEPT ![j].leadless = s]
    BY <1>15 DEF Qualify
  <2>3. SameLapses
    BY <1>2, <1>4, <2>2, HistoryKeeps
  <2>4. QED  BY <1>2, <1>4, <1>15, <2>1, <2>3, JudgingKeeps, TurnShown
<1>16. CASE Gate(w)
  <2>1. UNCHANGED job /\ \E p, n : Change(w, n, p)
    BY <1>16 DEF Gate
  <2>10. PICK thin \in SUBSET me[w].have :
           /\ ctx' = [ctx EXCEPT ![j].leads = @ \cup (me[w].have \ thin)]
           /\ past' = [past EXCEPT ![j].paid = {}, ![j].leadless = @ \cup (thin \X {"thin"})]
    BY <1>16 DEF Gate
  <2>11. \E s : past' = [past EXCEPT ![j].paid = {}, ![j].leadless = s]
    BY <2>10
  <2>2. SameJobs /\ SameLapses
    BY <1>2, <2>1, <2>11, NotesKeep, HistoryKeeps
  <2>3. me[w].have \ thin \in SUBSET Subjects
    BY <1>2 DEF Shape, Memories
  <2>4. PICK c \in Contexts : c = ctx[j]
    BY <1>2 DEF Shape
  <2>5. PICK d : d = [c EXCEPT !.leads = @ \cup (me[w].have \ thin)]
    OBVIOUS
  <2>6. d.leads = c.leads \cup (me[w].have \ thin)
    BY <2>5 DEF Contexts
  <2>7. ctx' = [ctx EXCEPT ![j] = d]
    BY <2>4, <2>5, <2>10
  <2>8. ctx'[j] = d /\ \A k \in Jobs \ {j} : ctx'[k] = ctx[k]
    BY <1>2, <2>7 DEF Shape
  <2>9. QED  BY <1>2, <2>1, <2>2, <2>3, <2>4, <2>6, <2>8, DeliverShown
<1>17. QED
  BY <1>7, <1>8, <1>9, <1>10, <1>11, <1>12, <1>13, <1>14, <1>15, <1>16 DEF Research

(* A step of a pipeline run turns its job, or delivers.                      *)
LEMMA PipelineShown ==
  ASSUME QueueInv, QueueNext, NEW w \in Workers, RunJob(w) \/ Pausing(w)
  PROVE  Shown
<1> DEFINE j == me[w].job
<1>1. me[w].pc \notin Ticking
  BY DEF RunJob, Pipe, RunStages, Degrade, Wrap, Broken, Pausing, Ticking
<1>2. j \in Jobs /\ Runs(w, j) /\ job[j].state # "NEW" /\ Shape
  BY <1>1, AtWork, StatesAre DEF QueueInv
<1>3. {"RUNNING", "DEGRADED", "COMPLETED", "FAILED"} \subseteq LegacyStates
  BY StatesAre
<1>4. /\ UNCHANGED job => SameRows
      /\ UNCHANGED ctx => SameLeads
      /\ UNCHANGED past => SameLapses
  BY DEF SameRows, SameLeads, SameLapses
<1>5. CASE Pipe(w)
  <2>1. UNCHANGED <<ctx, past>>
    BY <1>5 DEF Pipe
  <2>2. SameJobs /\ SameRows
    <3>1. CASE Goes(w, "stages") /\ UNCHANGED job
      BY <1>2, <1>4, <3>1, NotesKeep
    <3>2. CASE MoveTo(w, "RUNNING", "stages")
      BY <1>1, <1>3, <3>2, MoveKeeps
    <3>3. QED  BY <1>5, <3>1, <3>2 DEF Pipe
  <2>3. QED  BY <1>4, <2>1, <2>2, TurnShown
<1>6. CASE RunStages(w)
  <2>1. UNCHANGED <<job, past>> /\ \E p : Goes(w, p)
    BY <1>6 DEF RunStages
  <2>2. SameJobs /\ SameRows /\ SameLapses
    BY <1>2, <1>4, <2>1, NotesKeep
  <2>3. CASE UNCHANGED ctx
    BY <1>4, <2>2, <2>3, TurnShown
  <2>4. CASE ctx' = [ctx EXCEPT ![j].leads = Subjects]
    <3>1. PICK c \in Contexts : c = ctx[j]
      BY <1>2 DEF Shape
    <3>2. PICK d : d = [c EXCEPT !.leads = Subjects]
      OBVIOUS
    <3>3. d.leads = c.leads \cup Subjects
      BY <3>2 DEF Contexts
    <3>4. ctx' = [ctx EXCEPT ![j] = d]
      BY <2>4, <3>1, <3>2
    <3>5. ctx'[j] = d /\ \A k \in Jobs \ {j} : ctx'[k] = ctx[k]
      BY <1>2, <3>4 DEF Shape
    <3>6. Subjects \in SUBSET Subjects
      OBVIOUS
    <3>7. QED  BY <1>2, <2>1, <2>2, <3>1, <3>3, <3>5, <3>6, DeliverShown
  <2>5. QED  BY <1>6, <2>3, <2>4 DEF RunStages
<1>7. CASE Degrade(w) \/ Wrap(w) \/ Broken(w)
  <2>1. UNCHANGED <<ctx, past>> /\ \E p : Goes(w, p)
    BY <1>7 DEF Degrade, Wrap, Broken
  <2>2. \/ UNCHANGED job
        \/ \E s \in {"RUNNING", "DEGRADED", "COMPLETED", "FAILED"} : job' = [job EXCEPT ![j].state = s]
    BY <1>7 DEF Degrade, Wrap, Broken, Transition
  <2>3. SameRows
    BY <1>2, <1>3, <1>4, <2>2, RowKeeps
  <2>4. QED  BY <1>2, <1>4, <2>1, <2>3, NotesKeep, TurnShown
<1>8. CASE Pausing(w)
  <2>1. UNCHANGED <<ctx, past>> /\ job' = [job EXCEPT ![j].due = "later"]
    BY <1>8 DEF Pausing
  <2>2. \E p, s : Goes(w, p) \/ Sees(w, p, s)
    BY <1>8 DEF Pausing, Sees
  <2>3. SameJobs
    BY <1>2, <2>2, NotesKeep
  <2>4. SameRows
    BY <1>2, <1>3, <2>1, RowKeeps
  <2>5. QED  BY <1>4, <2>1, <2>3, <2>4, TurnShown
<1>9. QED  BY <1>5, <1>6, <1>7, <1>8 DEF RunJob

(* The passes over the rows turn jobs: a row is freed, woken or cancelled.   *)
LEMMA ReclaimShown ==
  ASSUME QueueInv, QueueNext, NEW w \in Workers, ReclaimExhausted(w) \/ ReclaimExpired(w)
  PROVE  Shown
<1>1. /\ SameJobs /\ UNCHANGED <<ctx, past>>
  <2>1. Goes(w, "reclaim") \/ Goes(w, "lease")
    BY DEF ReclaimExhausted, ReclaimExpired
  <2>2. UNCHANGED <<ctx, past>> /\ Shape
    BY DEF ReclaimExhausted, ReclaimExpired, QueueInv
  <2>3. QED  BY <2>1, <2>2, NotesKeep
<1>2. SameLeads /\ SameLapses
  BY <1>1 DEF SameLeads, SameLapses
<1>3. ASSUME NEW k \in Jobs
      PROVE  /\ job'[k].attempts = job[k].attempts /\ job'[k].kind = job[k].kind
             /\ job[k].state = "NEW" <=> job'[k].state = "NEW"
  <2>1. PICK r \in JobRows : r = job[k]
    BY DEF QueueInv, Shape
  <2>2. ASSUME NEW s
        PROVE  /\ Freed(r, s).attempts = r.attempts /\ Freed(r, s).kind = r.kind
               /\ Freed(r, s).state = s
    BY DEF Freed, JobRows
  <2>3. LeaseExpired(k) => r.state # "NEW"
    BY <2>1 DEF LeaseExpired, LeasedStates, Phases
  <2>4. CASE ReclaimExhausted(w)
    <3>1. \/ job'[k] = r
          \/ LeaseExpired(k) /\ job'[k] = Freed(r, "FAILED")
      BY <2>1, <2>4 DEF ReclaimExhausted
    <3>2. QED  BY <2>1, <2>2, <2>3, <3>1
  <2>5. CASE ReclaimExpired(w)
    <3>1. PICK n : n = [r EXCEPT !.state = "RESUMING"]
      OBVIOUS
    <3>2. n.attempts = r.attempts /\ n.kind = r.kind /\ n.state = "RESUMING"
      BY <3>1 DEF JobRows
    <3>3. \/ job'[k] = r
          \/ LeaseExpired(k) /\ job'[k] = Freed(r, "QUEUED")
          \/ r.state = "PAUSED" /\ (job'[k] = n \/ job'[k] = Freed(r, "CANCELLED"))
      BY <2>1, <2>5, <3>1 DEF ReclaimExpired, PausedTurn
    <3>4. QED  BY <2>1, <2>2, <2>3, <3>2, <3>3
  <2>6. QED  BY <2>4, <2>5
<1>4. SameRows
  BY <1>3 DEF SameRows
<1>5. QED  BY <1>1, <1>2, <1>4, TurnShown

(* A tick that ends leaves its job, and gives back at most what it took.     *)
LEMMA EndsShown ==
  ASSUME QueueInv, QueueNext, NEW w \in Workers, NEW n, Ends(w, n), me[w].pc \notin Ticking,
         n.state # "NEW", n.kind = job[me[w].job].kind,
         \/ n.attempts = job[me[w].job].attempts
         \/ /\ n.state \in {"QUEUED", "RESUMING"} /\ job[me[w].job].attempts > 0
            /\ n.attempts = job[me[w].job].attempts - 1
  PROVE  Shown
<1>1. PICK j \in Jobs : j = me[w].job /\ Runs(w, j)
  BY AtWork
<1>2. job'[j] = n /\ \A k \in Jobs \ {j} : job'[k] = job[k]
  BY <1>1 DEF Ends, QueueInv, Shape
<1>3. me'[w].job = "none" /\ \A v \in Workers \ {w} : me'[v] = me[v]
  BY IdleIs DEF Ends, QueueInv, Shape
<1>4. SameLeads /\ SameLapses
  BY DEF Ends, SameLeads, SameLapses
<1>5. QED  BY <1>1, <1>2, <1>3, <1>4, LeaveShown

(* A step of the tick: to lease a job, or to end with one.                   *)
LEMMA TickShown ==
  ASSUME QueueInv, QueueNext, NEW w \in Workers, Tick(w)
  PROVE  Shown
<1> DEFINE j == me[w].job
<1>1. Shape
  BY DEF QueueInv
<1>2. CASE ReclaimExhausted(w) \/ ReclaimExpired(w)
  BY <1>2, ReclaimShown
<1>3. CASE LeaseNext(w)
  BY <1>3, TakeShown
<1>4. CASE LeaseNothing(w)
  <2>1. me[w].job = "none" /\ UNCHANGED <<job, ctx, past>> /\ me' = [me EXCEPT ![w] = Idle]
    BY <1>4 DEF LeaseNothing, QueueInv, Minded, Ticking
  <2>2. SameJobs
    BY <1>1, <2>1, IdleIs DEF SameJobs, Shape
  <2>3. SameRows /\ SameLeads /\ SameLapses
    BY <2>1 DEF SameRows, SameLeads, SameLapses
  <2>4. QED  BY <2>2, <2>3, TurnShown
<1>5. CASE FailRead(w)
  <2>1. UNCHANGED <<job, ctx, past>> /\ \E p, s : Sees(w, p, s)
    BY <1>5 DEF FailRead, Sees
  <2>2. SameRows /\ SameLeads /\ SameLapses
    BY <2>1 DEF SameRows, SameLeads, SameLapses
  <2>3. QED  BY <1>1, <2>1, <2>2, NotesKeep, TurnShown
<1>6. CASE Complete(w) \/ Release(w) \/ YieldSlice(w) \/ Fail(w)
  <2>1. me[w].pc \notin Ticking
    BY <1>6 DEF Complete, Release, YieldSlice, Fail, Ticking
  <2>2. PICK r \in JobRows : r = job[j] /\ r.state # "NEW"
    BY <1>1, <2>1, AtWork, StatesAre DEF Shape
  <2>3. ASSUME NEW s \in {"COMPLETED", "QUEUED", "FAILED"}, NEW f, f = Freed(r, s)
        PROVE  /\ f \in JobRows /\ f.state = s /\ f.kind = r.kind /\ f.attempts = r.attempts
    BY <2>3, StatesAre DEF Freed, JobRows
  <2>4. CASE Complete(w)
    <3>1. Ends(w, Freed(r, "COMPLETED"))
      BY <2>2, <2>4 DEF Complete
    <3>2. QED  BY <2>1, <2>2, <2>3, <3>1, EndsShown
  <2>5. CASE Release(w)
    <3>1. PICK n : n = [r EXCEPT !.lease = "none"]
      OBVIOUS
    <3>2. n.state = r.state /\ n.kind = r.kind /\ n.attempts = r.attempts
      BY <3>1 DEF JobRows
    <3>3. Ends(w, n)
      BY <2>2, <2>5, <3>1 DEF Release
    <3>4. QED  BY <2>1, <2>2, <3>2, <3>3, EndsShown
  <2>6. CASE YieldSlice(w)
    <3>1. PICK f : f = Freed(r, "QUEUED")
      OBVIOUS
    <3>2. PICK a : a = IF r.attempts > 0 THEN r.attempts - 1 ELSE 0
      OBVIOUS
    <3>3. PICK n : n = [f EXCEPT !.due = "none", !.attempts = a]
      OBVIOUS
    <3>4. n.state = "QUEUED" /\ n.kind = r.kind /\ n.attempts = a
      BY <2>3, <3>1, <3>3 DEF JobRows
    <3>5. r.attempts \in Nat
      BY QueueAssumption DEF JobRows
    <3>6. a = r.attempts \/ (r.attempts > 0 /\ a = r.attempts - 1)
      BY <3>2, <3>5
    <3>7. Ends(w, n)
      BY <2>2, <2>6, <3>1, <3>2, <3>3 DEF YieldSlice
    <3>8. QED  BY <2>1, <2>2, <3>4, <3>6, <3>7, EndsShown
  <2>7. CASE Fail(w)
    <3>1. CASE me[w].saw = "retry"
      <4>1. PICK f : f = Freed(r, "QUEUED")
        OBVIOUS
      <4>2. PICK n : n = [f EXCEPT !.due = "later"]
        OBVIOUS
      <4>3. n.state = "QUEUED" /\ n.kind = r.kind /\ n.attempts = r.attempts
        BY <2>3, <4>1, <4>2 DEF JobRows
      <4>4. Ends(w, n)
        BY <2>2, <2>7, <3>1, <4>1, <4>2 DEF Fail
      <4>5. QED  BY <2>1, <2>2, <4>3, <4>4, EndsShown
    <3>2. CASE me[w].saw # "retry"
      <4>1. Ends(w, Freed(r, "FAILED"))
        BY <2>2, <2>7, <3>2 DEF Fail
      <4>2. QED  BY <2>1, <2>2, <2>3, <4>1, EndsShown
    <3>3. QED  BY <3>1, <3>2
  <2>8. QED  BY <1>6, <2>4, <2>5, <2>6, <2>7
<1>7. QED  BY <1>2, <1>3, <1>4, <1>5, <1>6 DEF Tick

(* The calls of users: a job is created, or turned.                          *)
LEMMA UsersShown ==
  ASSUME QueueInv, QueueNext, Users
  PROVE  Shown
<1>1. PICK j \in Jobs :
        \/ CheckStart(j) \/ StartJob(j) \/ CreateResearch(j) \/ StartResearch(j) \/ Enqueue(j)
        \/ Cancel(j) \/ Answer(j) \/ Resume(j) \/ Recover(j) \/ Drain(j)
  BY DEF Users
<1>2. Shape /\ {"RUNNING", "RESUMING", "CANCELLED", "QUEUED", "PAUSED"} \subseteq LegacyStates
  BY StatesAre DEF QueueInv
<1>3. CASE StartJob(j) \/ CreateResearch(j) \/ StartResearch(j)
  BY <1>3, CreateShown
<1>4. CASE /\ Enqueue(j) \/ Cancel(j) \/ Answer(j) \/ Resume(j) \/ Drain(j)
           /\ job[j].state # "NEW"
  <2>1. UNCHANGED <<me, past>>
    BY <1>4 DEF Enqueue, Cancel, Answer, Resume, Drain, Reopens
  <2>2. SameJobs /\ SameLapses
    BY <2>1 DEF SameJobs, SameLapses
  <2>3. SameLeads
    <3>1. UNCHANGED ctx \/ ctx' = [ctx EXCEPT ![j].asked = FALSE]
      BY <1>4 DEF Enqueue, Cancel, Answer, Resume, Drain
    <3>2. CASE UNCHANGED ctx
      BY <3>2 DEF SameLeads
    <3>3. QED  BY <1>2, <3>1, <3>2, ContextKeeps
  <2>4. PICK s \in {"RUNNING", "RESUMING", "CANCELLED", "QUEUED"} :
          job' = [job EXCEPT ![j].state = s]
    BY <1>4 DEF Enqueue, Cancel, Answer, Resume, Drain, Reopens, Transition
  <2>5. SameRows
    BY <1>2, <1>4, <2>4, RowKeeps
  <2>6. QED  BY <2>2, <2>3, <2>5, TurnShown
<1>5. CASE Recover(j)
  <2>1. /\ UNCHANGED <<ctx, me, past>> /\ job[j].state # "NEW"
        /\ job' = [job EXCEPT ![j].state = "PAUSED", ![j].due = "later"]
    BY <1>5 DEF Recover, InterruptedStates, LeasedStates, Phases
  <2>2. SameJobs /\ SameLeads /\ SameLapses
    BY <2>1 DEF SameJobs, SameLeads, SameLapses
  <2>3. SameRows
    BY <1>2, <2>1, RowKeeps
  <2>4. QED  BY <2>2, <2>3, TurnShown
<1>6. CASE Enqueue(j) /\ job[j].state = "NEW"
  <2>1. PICK r \in JobRows : r = job[j]
    BY <1>2 DEF Shape
  <2>2. PICK n : n = [r EXCEPT !.state = "QUEUED"]
    OBVIOUS
  <2>3. n.state = "QUEUED" /\ n.attempts = r.attempts
    BY <2>2 DEF JobRows
  <2>4. job' = [job EXCEPT ![j] = n] /\ UNCHANGED <<ctx, me, past>>
    BY <1>6, <2>1, <2>2 DEF Enqueue
  <2>5. job'[j] = n /\ \A k \in Jobs \ {j} : job'[k] = job[k]
    BY <1>2, <2>4 DEF Shape
  <2>6. SameLapses
    BY <2>4 DEF SameLapses
  <2>7. QED  BY <1>6, <2>1, <2>3, <2>4, <2>5, <2>6, NewShown
<1>8. CASE CheckStart(j)
  <2>1. PICK r \in JobRows : r = job[j]
    BY <1>2 DEF Shape
  <2>2. PICK n : n = [r EXCEPT !.kind = "pipeline"]
    OBVIOUS
  <2>3. n.state = r.state /\ n.attempts = r.attempts
    BY <2>2 DEF JobRows
  <2>4. job' = [job EXCEPT ![j] = n] /\ r.state = "NEW" /\ UNCHANGED <<ctx, me, past>>
    BY <1>8, <2>1, <2>2 DEF CheckStart, Unmade
  <2>5. SameRows
    BY <1>2, <2>1, <2>3, <2>4 DEF Shape, SameRows
  <2>6. SameJobs /\ SameLeads /\ SameLapses
    BY <2>4 DEF SameJobs, SameLeads, SameLapses
  <2>7. QED  BY <2>5, <2>6, TurnShown
<1>7. QED
  <2>1. CASE job[j].state # "NEW"
    BY <1>1, <1>3, <1>4, <1>5, <1>8, <2>1
  <2>2. CASE job[j].state = "NEW"
    <3>1. ~Cancel(j) /\ ~Answer(j) /\ ~Resume(j) /\ ~Drain(j)
      BY <2>2 DEF Cancel, Answer, Resume, Drain
    <3>2. QED  BY <1>1, <1>3, <1>5, <1>6, <1>8, <2>2, <3>1
  <2>3. QED  BY <2>1, <2>2

(* Faults and time: a worker that dies leaves its job as it is.              *)
LEMMA FaultsShown ==
  ASSUME QueueInv, QueueNext,
         \/ \E w \in Workers : WriteCounters(w) \/ Raise(w) \/ Die(w)
         \/ \E j \in Jobs : LeaseLapses(j) \/ DueComes(j) \/ CallLost(j)
  PROVE  Shown
<1>1. Shape
  BY DEF QueueInv
<1>2. ASSUME NEW w \in Workers, WriteCounters(w)
      PROVE  Shown
  <2>1. /\ me' = [me EXCEPT ![w].write = NoWrite] /\ UNCHANGED <<job, past>>
        /\ ctx' = [ctx EXCEPT ![me[w].job].counters = me[w].write]
    BY <1>2 DEF WriteCounters
  <2>2. me[w].job \in Jobs
    <3>1. me[w].pc \notin Ticking
      BY <1>2 DEF WriteCounters, QueueInv, Minded, Writing, Ticking
    <3>2. QED  BY <3>1, AtWork
  <2>3. SameJobs /\ SameLeads
    BY <1>1, <2>1, <2>2, NotesKeep, ContextKeeps
  <2>4. SameRows /\ SameLapses
    BY <2>1 DEF SameRows, SameLapses
  <2>5. QED  BY <2>3, <2>4, TurnShown
<1>3. ASSUME NEW w \in Workers, Raise(w)
      PROVE  Shown
  <2>1. UNCHANGED <<job, ctx, past>> /\ \E p : Change(w, NoWrite, p)
    BY <1>3 DEF Raise, Change
  <2>2. SameJobs
    BY <1>1, <2>1, NotesKeep
  <2>3. SameRows /\ SameLeads /\ SameLapses
    BY <2>1 DEF SameRows, SameLeads, SameLapses
  <2>4. QED  BY <2>2, <2>3, TurnShown
<1>4. ASSUME NEW w \in Workers, Die(w)
      PROVE  Shown
  <2>1. UNCHANGED <<job, ctx, past>> /\ me' = [me EXCEPT ![w] = Idle]
    BY <1>4 DEF Die
  <2>2. PICK j \in Jobs : Runs(w, j)
    <3>1. me[w].pc \notin Ticking
      BY <1>4 DEF Die, QueueInv, Minded
    <3>2. QED  BY <3>1, AtWork
  <2>3. me'[w].job = "none" /\ \A v \in Workers \ {w} : me'[v] = me[v]
    BY <1>1, <2>1, IdleIs DEF Shape
  <2>4. SameLeads /\ SameLapses
    BY <2>1 DEF SameLeads, SameLapses
  <2>5. job[j].state # "NEW"
    BY <2>2 DEF QueueInv, RunnersHeld
  <2>6. QED  BY <2>1, <2>2, <2>3, <2>4, <2>5, LeaveShown
<1>5. ASSUME NEW j \in Jobs, DueComes(j)
      PROVE  Shown
  <2>1. job' = [job EXCEPT ![j].due = "past"] /\ UNCHANGED <<ctx, me, past>>
    BY <1>5 DEF DueComes
  <2>2. SameJobs /\ SameLeads /\ SameLapses
    BY <2>1 DEF SameJobs, SameLeads, SameLapses
  <2>3. PICK r \in JobRows : r = job[j]
    BY <1>1 DEF Shape
  <2>4. PICK n : n = [r EXCEPT !.due = "past"]
    OBVIOUS
  <2>5. n.attempts = r.attempts /\ n.kind = r.kind /\ n.state = r.state
    BY <2>4 DEF JobRows
  <2>6. job' = [job EXCEPT ![j] = n]
    BY <2>1, <2>3, <2>4
  <2>7. SameRows
    BY <1>1, <2>3, <2>5, <2>6 DEF Shape, SameRows
  <2>8. QED  BY <2>2, <2>7, TurnShown
<1>6. ASSUME NEW j \in Jobs, CallLost(j)
      PROVE  Shown
  BY <1>6, TurnShown DEF CallLost, SameJobs, SameRows, SameLeads, SameLapses
<1>7. QED  BY <1>2, <1>3, <1>4, <1>5, <1>6, LapseShown

(* Every step of the queue is one of UnfencedLifecycle, or none.             *)
LEMMA QueueShown ==
  ASSUME QueueInv, [QueueNext]_queueVars
  PROVE  Shown
<1>1. CASE UNCHANGED queueVars
  <2>1. UNCHANGED <<job, ctx, me, past>>
    BY <1>1 DEF queueVars
  <2>2. [k \in Jobs |-> {v \in Workers : Runs(v, k)}]' = [k \in Jobs |-> {v \in Workers : Runs(v, k)}]
    BY <2>1 DEF Runs
  <2>3. UNCHANGED Unfenced!vars
    BY <2>1, <2>2 DEF Unfenced!vars
  <2>4. QED  BY <2>3 DEF Shown
<1>2. CASE QueueNext /\ Users
  BY <1>2, UsersShown
<1>3. ASSUME QueueNext, NEW w \in Workers, WorkerSteps(w)
      PROVE  Shown
  <2>1. \/ WriteCounters(w) \/ Tick(w) \/ Research(w) \/ RunJob(w) \/ Capacity(w) \/ Pausing(w)
    BY <1>3 DEF WorkerSteps
  <2>2. QED  BY <1>3, <2>1, FaultsShown, TickShown, ResearchShown, PipelineShown
<1>4. QED  BY <1>1, <1>2, <1>3, FaultsShown DEF QueueNext

(* Leases, reapers, users and faults never show above the queue: whatever     *)
(* they do, it takes, counts, gives back, delivers and gives up jobs as       *)
(* UnfencedLifecycle says.                                                    *)
THEOREM ImplementsUnfenced == QueueSpec => LifeIsKept
<1>1. QueueInit => Unfenced!Init
  <2>1. ASSUME QueueInit
        PROVE  /\ \A j \in Jobs : /\ QueuePhase(job[j]) = "absent" /\ job[j].attempts = 0
                                  /\ ~past[j].lapsed /\ past[j].lapsed = FALSE
                                  /\ ctx[j].leads = {}
               /\ \A j \in Jobs, w \in Workers : ~Runs(w, j)
    <3>1. \A j \in Jobs : job[j].state = "NEW" /\ job[j].attempts = 0 /\ ctx[j].leads = {}
      BY <2>1 DEF QueueInit
    <3>2. \A j \in Jobs : past[j].lapsed = FALSE
      BY <2>1 DEF QueueInit, NoHistory
    <3>3. \A j \in Jobs, w \in Workers : ~Runs(w, j)
      BY <2>1, IdleIs, QueueAssumption DEF QueueInit, Runs
    <3>4. QED  BY <3>1, <3>2, <3>3, PhaseOfRow
  <2>2. QED  BY <2>1 DEF Unfenced!Init
<1>2. QueueInv /\ [QueueNext]_queueVars => [Unfenced!Next]_(Unfenced!vars)
  BY QueueShown DEF Shown
<1>3. QueueSpec => UnfencedSpec
  BY <1>1, <1>2, QueueInvariant, PTL DEF QueueSpec, UnfencedSpec, Unfenced!Spec
<1>4. QED  BY <1>3, ResearchIsNotGivenUp DEF LifeIsKept

(* Workers that are at a job, counted.                                       *)
Counted ==
    \A j \in Jobs :
      /\ IsFiniteSet({w \in Workers : Runs(w, j)})
      /\ Cardinality({w \in Workers : Runs(w, j)}) <= job[j].attempts

(* Each step that adds a worker to a job counts an attempt, and a step that    *)
(* gives one back takes its worker along.                                     *)
LEMMA CountedStep ==
  ASSUME QueueInv, QueueInv', Shown, Counted
  PROVE  Counted'
<1> DEFINE hs == [k \in Jobs |-> {v \in Workers : Runs(v, k)}]
           at == [k \in Jobs |-> job[k].attempts]
<1>1. \A k \in Jobs : /\ hs[k] = {v \in Workers : Runs(v, k)} /\ at[k] = job[k].attempts
                      /\ hs'[k] = {v \in Workers : Runs(v, k)'} /\ at'[k] = job'[k].attempts
  OBVIOUS
<1>2. \A k \in Jobs : /\ IsFiniteSet(hs[k]) /\ Cardinality(hs[k]) <= at[k]
                      /\ at[k] \in Nat /\ at'[k] \in Nat
  <2>1. ASSUME NEW k \in Jobs
        PROVE  job[k].attempts \in Nat /\ job'[k].attempts \in Nat
    <3>1. job[k] \in JobRows /\ job'[k] \in JobRows
      BY DEF QueueInv, Shape
    <3>2. QED  BY <3>1 DEF JobRows
  <2>2. QED  BY <1>1, <2>1 DEF Counted
<1>3. SUFFICES ASSUME NEW k \in Jobs
               PROVE  IsFiniteSet(hs'[k]) /\ Cardinality(hs'[k]) <= at'[k]
  BY <1>1 DEF Counted
<1>4. CASE hs' = hs /\ at' = at
  BY <1>2, <1>4
<1>5. ASSUME NEW w \in Workers, NEW j \in Jobs, w \notin hs[j],
             hs' = [hs EXCEPT ![j] = @ \cup {w}], at' = [at EXCEPT ![j] = @ + 1]
      PROVE  IsFiniteSet(hs'[k]) /\ Cardinality(hs'[k]) <= at'[k]
  <2>1. CASE k = j
    <3>1. hs'[k] = hs[k] \cup {w} /\ at'[k] = at[k] + 1
      BY <1>5, <2>1
    <3>2. /\ IsFiniteSet(hs[k] \cup {w}) /\ Cardinality(hs[k]) \in Nat
          /\ Cardinality(hs[k] \cup {w}) = Cardinality(hs[k]) + 1
      BY <1>2, <1>5, <2>1, FS_AddElement, FS_CardinalityType
    <3>3. QED  BY <1>2, <3>1, <3>2
  <2>2. CASE k # j
    <3>1. hs'[k] = hs[k] /\ at'[k] = at[k]
      BY <1>5, <2>2
    <3>2. QED  BY <1>2, <3>1
  <2>3. QED  BY <2>1, <2>2
<1>6. ASSUME NEW w \in Workers, NEW j \in Jobs, w \in hs[j],
             hs' = [hs EXCEPT ![j] = @ \ {w}],
             at' = at \/ at' = [at EXCEPT ![j] = @ - 1]
      PROVE  IsFiniteSet(hs'[k]) /\ Cardinality(hs'[k]) <= at'[k]
  <2>1. CASE k = j
    <3>1. hs'[k] = hs[k] \ {w}
      BY <1>6, <2>1
    <3>2. at'[k] = at[k] \/ at'[k] = at[k] - 1
      BY <1>6, <2>1
    <3>3. /\ IsFiniteSet(hs[k] \ {w}) /\ Cardinality(hs[k]) \in Nat
          /\ Cardinality(hs[k] \ {w}) = Cardinality(hs[k]) - 1
      BY <1>2, <1>6, <2>1, FS_RemoveElement, FS_CardinalityType
    <3>4. QED  BY <1>2, <3>1, <3>2, <3>3
  <2>2. CASE k # j
    <3>1. hs'[k] = hs[k] /\ at'[k] = at[k]
      BY <1>6, <2>2
    <3>2. QED  BY <1>2, <3>1
  <2>3. QED  BY <2>1, <2>2
<1>7. ASSUME NEW w \in Workers, NEW j \in Jobs, Unfenced!Take(w, j)
      PROVE  IsFiniteSet(hs'[k]) /\ Cardinality(hs'[k]) <= at'[k]
  <2>1. w \notin hs[j]
    BY <1>7 DEF Unfenced!Take
  <2>2. hs' = [hs EXCEPT ![j] = @ \cup {w}] /\ at' = [at EXCEPT ![j] = @ + 1]
    BY <1>7 DEF Unfenced!Take
  <2>3. QED  BY <1>5, <2>1, <2>2
<1>8. ASSUME NEW w \in Workers, NEW j \in Jobs, Unfenced!Leave(w, j)
      PROVE  IsFiniteSet(hs'[k]) /\ Cardinality(hs'[k]) <= at'[k]
  <2>1. w \in hs[j] /\ hs' = [hs EXCEPT ![j] = @ \ {w}]
    BY <1>8 DEF Unfenced!Leave
  <2>2. at' = at \/ at' = [at EXCEPT ![j] = @ - 1]
    BY <1>8 DEF Unfenced!Leave
  <2>3. QED  BY <1>6, <2>1, <2>2
<1>9. CASE \/ UNCHANGED Unfenced!vars \/ Unfenced!Turn
           \/ \E j \in Jobs : Unfenced!Create(j) \/ Unfenced!Overrun(j)
           \/ \E w \in Workers, j \in Jobs : Unfenced!Deliver(w, j)
  <2>1. hs' = hs /\ at' = at
    BY <1>9 DEF Unfenced!vars, Unfenced!Turn, Unfenced!Create, Unfenced!Overrun, Unfenced!Deliver
  <2>2. QED  BY <1>4, <2>1
<1>10. QED  BY <1>7, <1>8, <1>9 DEF Shown, Unfenced!Next

(* Rows, contexts and worker memory keep their shape, no job is leased past  *)
(* max_attempts, two workers run one job only after its lease ran out, and   *)
(* never more than its counted attempts.                                     *)
THEOREM RowsStayHeld == QueueSpec => []RowsAreHeld
<1>1. QueueInit => Counted
  <2>1. ASSUME QueueInit, NEW j \in Jobs
        PROVE  {w \in Workers : Runs(w, j)} = {} /\ job[j].attempts = 0
    <3>1. \A w \in Workers : ~Runs(w, j)
      BY <2>1, IdleIs, QueueAssumption DEF QueueInit, Runs
    <3>2. job[j].attempts = 0
      BY <2>1 DEF QueueInit
    <3>3. QED  BY <3>1, <3>2
  <2>2. IsFiniteSet({}) /\ Cardinality({}) = 0
    BY FS_EmptySet
  <2>3. QED  BY <2>1, <2>2 DEF Counted
<1>2. QueueInv /\ QueueInv' /\ Counted /\ [QueueNext]_queueVars => Counted'
  BY QueueShown, CountedStep
<1>3. QueueInv /\ Counted => RowsAreHeld
  BY RowsHold DEF Counted, TakingsCounted, RowsAreHeld
<1>4. QED  BY <1>1, <1>2, <1>3, QueueInvariant, PTL DEF QueueSpec

-----------------------------------------------------------------------------
(* The events: their dispatchers, their webhooks, and the audit chain.       *)

USE EventsAssumption DEF Due

Delivering == {"check", "send", "record", "dispatched", "retry", "retried"}
OutboxRows == [status : {"none", "pending", "dispatched", "dead"}, attempts : Nat]
DispatcherRows ==
    [pc : Delivering \cup {"rest", "next"}, todo : SUBSET Events, event : Events \cup {-1},
     left : SUBSET Hooks, at : Consumers \cup {"none"}, try : Nat]

EventShape ==
    /\ outbox \in [Events -> OutboxRows]
    /\ hooks \subseteq Hooks /\ consumed \subseteq Events \X Consumers /\ overlap \subseteq Events
    /\ sent \in [Events -> [Consumers -> 0 .. 2]]
    /\ disp \in [Dispatchers -> DispatcherRows]
    /\ sealed \subseteq Events \X Hooks /\ lost \in Nat

\* What the place of a dispatcher, m, says of its event's deliveries so far, s,
\* to the webhooks hs.
Delivered(m, hs, s) ==
    /\ m.event = -1 <=> m.pc \in {"rest", "next"}
    /\ m.event \notin m.todo
    /\ m.pc \in {"send", "record"} => m.at \in Consumers
    /\ m.pc = "record" => s[m.event][m.at] > 0
    /\ m.pc = "check" /\ m.at = "notifications" => s[m.event][m.at] > 0
    /\ m.pc \in {"check", "send", "record"} =>
         \A c \in hs \ m.left : s[m.event][c] > 0 \/ (m.pc # "check" /\ c = m.at)
    /\ m.pc = "dispatched" => \A c \in hs \cup {"notifications"} : s[m.event][c] > 0

DispatchersHold == \A d \in Dispatchers : Delivered(disp[d], Due(disp[d].event), sent)

ConsumedIsSent == \A e \in Events, c \in Consumers : <<e, c>> \in consumed => sent[e][c] > 0

Held(m) == m.todo \cup {m.event}
Recording(m, e, c) == m.pc = "record" /\ m.event = e /\ m.at = c

\* Nobody but its one dispatcher touches an event that no two have held.
Unshared(e) ==
    /\ \A d, o \in Dispatchers : e \in Held(disp[d]) /\ e \in Held(disp[o]) => d = o
    /\ \A d \in Dispatchers :
         /\ e \in Held(disp[d]) => outbox[e].status = "pending"
         /\ disp[d].event = e /\ disp[d].pc = "send" => <<e, disp[d].at>> \notin consumed
    /\ lost = 0 => \A c \in Consumers :
         /\ sent[e][c] <= 1
         /\ sent[e][c] > 0 =>
              <<e, c>> \in consumed \/ \E d \in Dispatchers : Recording(disp[d], e, c)

EventInv ==
    /\ EventShape /\ DispatchersHold /\ ConsumedIsSent
    /\ DispatchedIsDelivered
    /\ \A e \in Events \ overlap : Unshared(e)

-----------------------------------------------------------------------------
(* Shape.                                                                    *)

(* Of finitely many sets one includes none of the others strictly.           *)
LEMMA SmallestSet ==
  ASSUME NEW S, NEW F, F \subseteq FiniteSubsetsOf(S), F # {}
  PROVE  \E x \in F : \A y \in F : ~(y \subseteq x /\ y # x)
<1> DEFINE R == StrictSubsetOrdering(S)
<1>1. IsWellFoundedOn(R, FiniteSubsetsOf(S))
  BY FS_StrictSubsetOrderingWellFounded
<1>2. PICK x \in F : \A y \in F : ~(<<y, x>> \in R)
  <2> HIDE DEF R
  <2> QED  BY <1>1, WFMin
<1>3. \A y \in F : y \subseteq x /\ y # x => <<y, x>> \in R
  BY DEF StrictSubsetOrdering, FiniteSubsetsOf
<1> HIDE DEF R
<1>4. \A y \in F : ~(y \subseteq x /\ y # x)
  BY <1>2, <1>3
<1>5. QED
  BY <1>4

(* Some numbers have a least one.                                            *)
LEMMA LeastOfNumbers ==
  ASSUME NEW S, S \subseteq Nat, S # {}
  PROVE  \E n \in S : \A m \in S : n <= m
<1> DEFINE F == {0 .. n : n \in S}
<1>1. F \subseteq FiniteSubsetsOf(Nat) /\ F # {}
  <2>1. \A n \in S : IsFiniteSet(0 .. n) /\ 0 .. n \subseteq Nat
    <3>1. \A n \in S : n \in Int /\ 0 \in Int
      OBVIOUS
    <3>2. QED  BY <3>1, FS_Interval
  <2>2. QED  BY <2>1 DEF FiniteSubsetsOf
<1>2. PICK x \in F : \A y \in F : ~(y \subseteq x /\ y # x)
  <2> HIDE DEF F
  <2> QED  BY <1>1, SmallestSet
<1>3. PICK n \in S : x = 0 .. n
  OBVIOUS
<1>4. ASSUME NEW m \in S, m < n
      PROVE  FALSE
  <2>1. 0 .. m \subseteq 0 .. n /\ n \in 0 .. n /\ n \notin 0 .. m
    BY <1>4
  <2>2. QED  BY <1>2, <1>3, <2>1
<1>5. QED
  BY <1>4

(* The event a dispatcher takes up is one of its batch.                      *)
LEMMA NextIsThere ==
  ASSUME NEW es, es \subseteq Events, es # {}
  PROVE  (CHOOSE x \in es : \A y \in es : x <= y) \in es
<1>1. \E x \in es : \A y \in es : x <= y
  BY LeastOfNumbers
<1>2. QED
  BY <1>1

(* What a step leaves of a dispatcher that it does not move.                 *)
LEMMA MoveOne ==
  ASSUME EventShape, NEW d \in Dispatchers, NEW n, disp' = [disp EXCEPT ![d] = n]
  PROVE  /\ disp'[d] = n
         /\ \A o \in Dispatchers \ {d} : disp'[o] = disp[o]
         /\ n \in DispatcherRows => disp' \in [Dispatchers -> DispatcherRows]
BY DEF EventShape

(* Steps that leave the disp alone.                                          *)
LEMMA EventInit == EventsInit => EventInv
<1> SUFFICES ASSUME EventsInit PROVE EventInv
  OBVIOUS
<1>1. Resting \in DispatcherRows /\ Held(Resting) = {-1}
  BY DEF Resting, DispatcherRows, Held
<1>2. EventShape
  BY <1>1 DEF EventsInit, EventShape, OutboxRows
<1>3. DispatchersHold
  BY DEF EventsInit, DispatchersHold, Delivered, Resting
<1>4. ConsumedIsSent /\ DispatchedIsDelivered
  BY DEF EventsInit, ConsumedIsSent, DispatchedIsDelivered
<1>5. \A e \in Events : Unshared(e)
  <2> SUFFICES ASSUME NEW e \in Events PROVE Unshared(e)
    OBVIOUS
  <2>1. e # -1
    OBVIOUS
  <2>2. \A d \in Dispatchers : e \notin Held(disp[d]) /\ disp[d].event # e
    BY <1>1, <2>1 DEF EventsInit, Resting
  <2>3. \A c \in Consumers : sent[e][c] = 0
    BY DEF EventsInit
  <2>4. QED  BY <2>2, <2>3 DEF Unshared
<1>6. QED
  BY <1>2, <1>3, <1>4, <1>5 DEF EventInv

LEMMA EmitKeeps ==
  ASSUME EventInv, NEW e \in Events, Emit(e)
  PROVE  EventInv'
<1> USE DEF Emit
<1>1. EventShape'
  BY DEF EventInv, EventShape, OutboxRows
<1>2. DispatchersHold' /\ ConsumedIsSent'
  BY DEF EventInv, DispatchersHold, ConsumedIsSent
<1>3. \A f \in Events : \/ outbox'[f].status = outbox[f].status
                        \/ outbox[f].status = "none" /\ outbox'[f].status = "pending"
  BY DEF EventInv, EventShape, OutboxRows
<1>4. DispatchedIsDelivered'
  BY <1>3 DEF EventInv, DispatchedIsDelivered
<1>5. \A f \in Events \ overlap' : Unshared(f)'
  BY <1>3 DEF EventInv, Unshared
<1>6. QED
  BY <1>1, <1>2, <1>4, <1>5 DEF EventInv

LEMMA HookKeeps ==
  ASSUME EventInv, NEW h \in Hooks, DeleteHook(h)
  PROVE  EventInv'
<1> USE DEF DeleteHook
<1>1. EventShape' /\ ConsumedIsSent' /\ DispatchedIsDelivered'
  BY DEF EventInv, EventShape, ConsumedIsSent, DispatchedIsDelivered
<1>2. DispatchersHold'
  BY DEF EventInv, DispatchersHold, Delivered
<1>3. \A f \in Events \ overlap' : Unshared(f)'
  BY DEF EventInv, Unshared
<1>4. QED
  BY <1>1, <1>2, <1>3 DEF EventInv

-----------------------------------------------------------------------------
(* The steps of a dispatcher.                                                *)

(* A dispatcher that selects holds nothing; what it and another then hold is *)
(* noted.                                                                    *)
LEMMA SelectKeeps ==
  ASSUME EventInv, NEW d \in Dispatchers, SelectPending(d)
  PROVE  EventInv'
<1>1. PICK es \in SUBSET Pending :
        /\ disp' = [disp EXCEPT ![d].pc = "next", ![d].todo = es]
        /\ overlap' = overlap \cup (es \cap
              UNION {disp[o].todo \cup {disp[o].event} : o \in Dispatchers \ {d}})
  BY DEF SelectPending
<1>2. UNCHANGED <<outbox, hooks, consumed, sent, sealed, lost>> /\ disp[d].pc = "rest"
  BY DEF SelectPending
<1>3. disp[d] \in DispatcherRows /\ disp[d].event = -1 /\ es \subseteq Events
  BY <1>2 DEF EventInv, EventShape, DispatchersHold, Delivered, Pending
<1>4. PICK n \in DispatcherRows :
        n.pc = "next" /\ n.todo = es /\ n.event = -1 /\ disp' = [disp EXCEPT ![d] = n]
  <2> DEFINE n == [disp[d] EXCEPT !.pc = "next", !.todo = es]
  <2>1. n \in DispatcherRows /\ n.pc = "next" /\ n.todo = es /\ n.event = -1
    BY <1>3 DEF DispatcherRows
  <2>2. disp' = [disp EXCEPT ![d] = n]
    BY <1>1 DEF EventInv, EventShape
  <2>3. QED  BY <2>1, <2>2
<1>5. /\ disp'[d] = n /\ \A o \in Dispatchers \ {d} : disp'[o] = disp[o]
      /\ disp' \in [Dispatchers -> DispatcherRows]
  BY <1>4, MoveOne DEF EventInv
<1>6. EventShape'
  BY <1>1, <1>2, <1>3, <1>5 DEF EventInv, EventShape
<1>7. DispatchersHold'
  <2>1. Delivered(disp'[d], Due(disp'[d].event), sent)
    BY <1>3, <1>4, <1>5 DEF Delivered
  <2>2. \A o \in Dispatchers \ {d} : Delivered(disp'[o], Due(disp'[o].event), sent)
    BY <1>5 DEF EventInv, DispatchersHold
  <2>3. QED  BY <1>2, <2>1, <2>2 DEF DispatchersHold
<1>8. ConsumedIsSent' /\ DispatchedIsDelivered'
  BY <1>2 DEF EventInv, ConsumedIsSent, DispatchedIsDelivered
<1>9. ASSUME NEW e \in Events \ overlap'
      PROVE  Unshared(e)'
  <2>1. e \notin overlap /\ Unshared(e) /\ e # -1
    BY <1>1 DEF EventInv
  <2>2. e \in es => \A o \in Dispatchers \ {d} : e \notin Held(disp[o])
    BY <1>1 DEF Held
  <2>3. e \in Held(disp'[d]) <=> e \in es
    BY <1>4, <1>5, <2>1 DEF Held
  <2>4. \A o \in Dispatchers, v \in Dispatchers :
          e \in Held(disp'[o]) /\ e \in Held(disp'[v]) => o = v
    BY <1>5, <2>1, <2>2, <2>3 DEF Unshared
  <2>5. \A o \in Dispatchers : e \in Held(disp'[o]) => outbox[e].status = "pending"
    BY <1>5, <2>1, <2>3 DEF Unshared, Pending
  <2>6. \A o \in Dispatchers : disp'[o].event = e /\ disp'[o].pc = "send" =>
          <<e, disp'[o].at>> \notin consumed
    BY <1>4, <1>5, <2>1 DEF Unshared
  <2>7. \A c \in Consumers, o \in Dispatchers :
          Recording(disp[o], e, c) => Recording(disp'[o], e, c)
    BY <1>2, <1>5 DEF Recording
  <2>8. QED  BY <1>2, <2>1, <2>4, <2>5, <2>6, <2>7 DEF Unshared
<1>10. QED
  BY <1>6, <1>7, <1>8, <1>9 DEF EventInv

(* A step that moves one dispatcher to n and touches no table keeps the      *)
(* invariant when n holds no event that was not held, and says what is so.   *)
LEMMA QuietMove ==
  ASSUME EventInv, NEW d \in Dispatchers, NEW n \in DispatcherRows,
         disp' = [disp EXCEPT ![d] = n],
         UNCHANGED <<outbox, hooks, consumed, sent, overlap, sealed>>,
         lost' = lost \/ lost' = lost + 1,
         Delivered(n, Due(n.event), sent),
         Held(n) \subseteq Held(disp[d]) \cup {-1},
         n.pc = "send" => \/ disp[d].pc = "send" /\ n.event = disp[d].event /\ n.at = disp[d].at
                          \/ <<n.event, n.at>> \notin consumed,
         lost' = lost => disp[d].pc # "record"
  PROVE  EventInv'
<1>1. /\ disp'[d] = n /\ \A o \in Dispatchers \ {d} : disp'[o] = disp[o]
      /\ disp' \in [Dispatchers -> DispatcherRows]
  BY MoveOne DEF EventInv
<1>2. EventShape'
  BY <1>1 DEF EventInv, EventShape
<1>3. DispatchersHold' /\ ConsumedIsSent' /\ DispatchedIsDelivered'
  BY <1>1 DEF EventInv, DispatchersHold, ConsumedIsSent, DispatchedIsDelivered
<1>4. ASSUME NEW e \in Events \ overlap
      PROVE  Unshared(e)'
  <2>1. Unshared(e) /\ e # -1
    BY DEF EventInv
  <2>2. \A o \in Dispatchers : e \in Held(disp'[o]) => e \in Held(disp[o])
    BY <1>1, <2>1
  <2>3. \A o, v \in Dispatchers : e \in Held(disp'[o]) /\ e \in Held(disp'[v]) => o = v
    BY <2>1, <2>2 DEF Unshared
  <2>4. \A o \in Dispatchers : e \in Held(disp'[o]) => outbox[e].status = "pending"
    BY <2>1, <2>2 DEF Unshared
  <2>5. \A o \in Dispatchers : disp'[o].event = e /\ disp'[o].pc = "send" =>
          <<e, disp'[o].at>> \notin consumed
    BY <1>1, <2>1 DEF Unshared
  <2>6. lost' = 0 => \A c \in Consumers, o \in Dispatchers :
          Recording(disp[o], e, c) => Recording(disp'[o], e, c)
    <3>1. lost' = 0 => lost' = lost /\ lost = 0
      BY DEF EventInv, EventShape
    <3>2. QED  BY <1>1, <3>1 DEF Recording
  <2>7. lost' = 0 => lost = 0
    BY DEF EventInv, EventShape
  <2>8. QED  BY <2>1, <2>3, <2>4, <2>5, <2>6, <2>7 DEF Unshared
<1>5. QED
  BY <1>2, <1>3, <1>4 DEF EventInv

(* The next event of a batch is taken up.                                    *)
LEMMA NextKeeps ==
  ASSUME EventInv, NEW d \in Dispatchers, NextEvent(d)
  PROVE  EventInv'
<1>1. disp[d].pc = "next" /\ UNCHANGED <<outbox, hooks, consumed, sent, overlap, sealed, lost>>
  BY DEF NextEvent
<1>2. disp[d] \in DispatcherRows /\ disp[d].event = -1
  BY <1>1 DEF EventInv, EventShape, DispatchersHold, Delivered
<1>3. CASE disp[d].todo = {}
  <2>1. disp' = [disp EXCEPT ![d] = Resting]
    BY <1>3 DEF NextEvent
  <2>2. Resting \in DispatcherRows /\ Delivered(Resting, Due(Resting.event), sent) /\ Held(Resting) = {-1}
        /\ Resting.pc = "rest"
    BY DEF Resting, DispatcherRows, Delivered, Held
  <2>3. QED  BY <1>1, <2>1, <2>2, QuietMove
<1>4. CASE disp[d].todo # {}
  <2>1. PICK e \in disp[d].todo :
          disp' = [disp EXCEPT ![d] = [Resting EXCEPT !.todo = disp[d].todo \ {e}, !.pc = "check",
                                        !.event = e, !.left = hooks]]
    <3> DEFINE e == CHOOSE x \in disp[d].todo : \A y \in disp[d].todo : x <= y
    <3>1. e \in disp[d].todo
      BY <1>2, <1>4, NextIsThere DEF DispatcherRows
    <3>2. disp' = [disp EXCEPT ![d] = [Resting EXCEPT !.todo = disp[d].todo \ {e}, !.pc = "check",
                                        !.event = e, !.left = hooks]]
      BY <1>4 DEF NextEvent
    <3>3. QED  BY <3>1, <3>2
  <2> DEFINE n == [Resting EXCEPT !.todo = disp[d].todo \ {e}, !.pc = "check",
                                  !.event = e, !.left = hooks]
  <2>2. e \in Events /\ disp[d].todo \subseteq Events /\ hooks \subseteq Hooks
    BY <1>2 DEF DispatcherRows, EventInv, EventShape
  <2>3. n \in DispatcherRows
    BY <2>2 DEF Resting, DispatcherRows, Delivering
  <2>4. Delivered(n, Due(n.event), sent) /\ n.pc = "check" /\ Held(n) \subseteq Held(disp[d])
    BY <2>2 DEF Resting, Delivered, Held
  <2> HIDE DEF n
  <2>5. QED  BY <1>1, <2>1, <2>3, <2>4, QuietMove DEF n
<1>5. QED
  BY <1>3, <1>4

(* A consumer is skipped or turned to, or there is none left.                *)
LEMMA CheckKeeps ==
  ASSUME EventInv, NEW d \in Dispatchers, Check(d)
  PROVE  EventInv'
<1> DEFINE m == disp[d]
<1>1. disp[d].pc = "check" /\ UNCHANGED <<outbox, hooks, consumed, sent, overlap, sealed, lost>>
  BY DEF Check
<1>2. m \in DispatcherRows /\ Delivered(m, Due(m.event), sent) /\ m.event \in Events
  BY <1>1 DEF EventInv, EventShape, DispatchersHold, Delivered, DispatcherRows
<1>3. CASE m.left = {} /\ m.at = "notifications" /\ disp' = [disp EXCEPT ![d].pc = "dispatched"]
  <2> DEFINE n == [m EXCEPT !.pc = "dispatched"]
  <2>1. disp' = [disp EXCEPT ![d] = n]
    BY <1>3 DEF EventInv, EventShape
  <2>2. n \in DispatcherRows /\ Held(n) = Held(m) /\ n.pc = "dispatched"
    BY <1>2 DEF DispatcherRows, Delivering, Held
  <2>3. Delivered(n, Due(n.event), sent)
    BY <1>1, <1>2, <1>3 DEF Delivered, DispatcherRows
  <2> HIDE DEF n
  <2>4. QED  BY <1>1, <2>1, <2>2, <2>3, QuietMove
<1>4. ASSUME NEW c \in IF m.left = {} THEN {"notifications"} \ {m.at} ELSE m.left,
             disp' = [disp EXCEPT ![d].at = c, ![d].left = @ \ {c}, ![d].try = 0,
                 ![d].pc = IF <<m.event, c>> \in consumed THEN "check" ELSE "send"]
      PROVE  EventInv'
  <2> DEFINE n == [m EXCEPT !.at = c, !.left = @ \ {c}, !.try = 0,
                     !.pc = IF <<m.event, c>> \in consumed THEN "check" ELSE "send"]
  <2>1. disp' = [disp EXCEPT ![d] = n]
    BY <1>4 DEF EventInv, EventShape
  <2>2. c \in Consumers
    BY <1>2 DEF Consumers, DispatcherRows
  <2>3. n \in DispatcherRows /\ Held(n) = Held(m)
    BY <1>2, <2>2 DEF DispatcherRows, Delivering, Held
  <2>4. n.pc = "send" => <<n.event, n.at>> \notin consumed
    BY <1>2 DEF DispatcherRows
  <2>5. Delivered(n, Due(n.event), sent)
    <3>1. <<m.event, c>> \in consumed => sent[m.event][c] > 0
      BY <1>2, <2>2 DEF EventInv, ConsumedIsSent
    <3>2. n.event = m.event /\ n.todo = m.todo /\ n.at = c /\ n.left = m.left \ {c}
          /\ n.pc = IF <<m.event, c>> \in consumed THEN "check" ELSE "send"
      BY <1>2 DEF DispatcherRows
    <3> HIDE DEF n
    <3>3. \A h \in Due(m.event) \ m.left : sent[m.event][h] > 0
      BY <1>1, <1>2 DEF Delivered
    <3> HIDE DEF Due
    <3>4. QED  BY <1>1, <1>2, <2>2, <3>1, <3>2, <3>3 DEF Delivered
  <2> HIDE DEF n
  <2>6. QED  BY <1>1, <2>1, <2>3, <2>4, <2>5, QuietMove
<1>5. QED
  BY <1>3, <1>4 DEF Check

(* A webhook whose secret cannot be read is passed over, and is due no more. *)
LEMMA SealedKeeps ==
  ASSUME EventInv, NEW d \in Dispatchers, SkipSealed(d)
  PROVE  EventInv'
<1> DEFINE m == disp[d]
           Still(e) == {h \in hooks : <<e, h>> \notin sealed'}
<1>1. m.pc = "check" /\ UNCHANGED <<outbox, hooks, consumed, sent, overlap, lost>>
  BY DEF SkipSealed
<1>2. PICK h \in m.left : /\ disp' = [disp EXCEPT ![d].at = h, ![d].left = @ \ {h}]
                         /\ sealed' = sealed \cup {<<m.event, h>>}
  BY DEF SkipSealed
<1>3. m \in DispatcherRows /\ Delivered(m, Due(m.event), sent) /\ m.event \in Events
  BY <1>1 DEF EventInv, EventShape, DispatchersHold, Delivered, DispatcherRows
<1>4. h \in Hooks /\ h \in Consumers
  BY <1>3 DEF DispatcherRows, Consumers
<1>5. PICK n \in DispatcherRows :
        /\ disp' = [disp EXCEPT ![d] = n]
        /\ n.at = h /\ n.left = m.left \ {h} /\ n.pc = "check"
        /\ n.event = m.event /\ n.todo = m.todo
  <2> DEFINE n == [m EXCEPT !.at = h, !.left = @ \ {h}]
  <2>1. disp' = [disp EXCEPT ![d] = n]
    BY <1>2 DEF EventInv, EventShape
  <2>2. n \in DispatcherRows /\ n.at = h /\ n.left = m.left \ {h} /\ n.pc = "check"
        /\ n.event = m.event /\ n.todo = m.todo
    BY <1>1, <1>3, <1>4 DEF DispatcherRows
  <2>3. QED  BY <2>1, <2>2
<1>6. /\ disp'[d] = n /\ \A o \in Dispatchers \ {d} : disp'[o] = disp[o]
      /\ disp' \in [Dispatchers -> DispatcherRows]
  BY <1>5, MoveOne DEF EventInv
<1>7. \A e \in Events \cup {-1} : Still(e) \subseteq Due(e)
  BY <1>2
<1>8. EventShape' /\ ConsumedIsSent' /\ DispatchedIsDelivered'
  BY <1>1, <1>2, <1>3, <1>4, <1>6, <1>7
     DEF EventInv, EventShape, ConsumedIsSent, DispatchedIsDelivered
<1>9. DispatchersHold'
  <2>1. \A o \in Dispatchers \ {d} : Delivered(disp'[o], Still(disp'[o].event), sent)
    <3>1. ASSUME NEW o \in Dispatchers \ {d} PROVE Delivered(disp[o], Still(disp[o].event), sent)
      <4>1. disp[o].event \in Events \cup {-1} /\ Delivered(disp[o], Due(disp[o].event), sent)
        BY DEF EventInv, EventShape, DispatchersHold, DispatcherRows
      <4>2. Still(disp[o].event) \subseteq Due(disp[o].event)
        BY <1>7, <4>1
      <4> HIDE DEF Still
      <4>3. QED  BY <4>1, <4>2 DEF Delivered
    <3>2. QED  BY <1>6, <3>1
  <2>2. Delivered(n, Still(n.event), sent)
    <3>1. Still(m.event) \subseteq Due(m.event) /\ h \notin Still(m.event)
      BY <1>2, <1>3, <1>7
    <3>2. h # "notifications"
      BY <1>4
    <3> HIDE DEF Still, m
    <3>3. QED  BY <1>1, <1>3, <1>4, <1>5, <3>1, <3>2 DEF Delivered
  <2>3. QED  BY <1>1, <1>6, <2>1, <2>2 DEF DispatchersHold
<1>10. ASSUME NEW e \in Events \ overlap'
       PROVE  Unshared(e)'
  <2>1. Unshared(e) /\ \A o \in Dispatchers : Held(disp'[o]) = Held(disp[o])
    BY <1>1, <1>5, <1>6 DEF EventInv, Held
  <2>2. \A o \in Dispatchers : disp'[o].event = e /\ disp'[o].pc = "send"
                               => disp'[o] = disp[o]
    BY <1>5, <1>6
  <2>3. \A c \in Consumers, o \in Dispatchers :
          Recording(disp[o], e, c) => Recording(disp'[o], e, c)
    BY <1>1, <1>6 DEF Recording
  <2>4. QED  BY <1>1, <2>1, <2>2, <2>3 DEF Unshared
<1>11. QED
  BY <1>8, <1>9, <1>10 DEF EventInv

(* Deliveries that only grow leave the dispatchers where they were.          *)
LEMMA DeliveriesGrow ==
  ASSUME NEW m \in DispatcherRows, NEW hs, NEW s, NEW t, hs \subseteq Hooks,
         s \in [Events -> [Consumers -> 0 .. 2]], t \in [Events -> [Consumers -> 0 .. 2]],
         \A e \in Events, c \in Consumers : s[e][c] <= t[e][c],
         Delivered(m, hs, s)
  PROVE  Delivered(m, hs, t)
<1>1. \A e \in Events, c \in Consumers : s[e][c] > 0 => t[e][c] > 0
  OBVIOUS
<1>2. m.pc \in Delivering => m.event \in Events
  BY DEF Delivered, Delivering, DispatcherRows
<1>3. m.pc = "check" /\ m.at # "none" => m.at \in Consumers
  BY DEF DispatcherRows
<1>4. hs \subseteq Consumers /\ "notifications" \in Consumers
  BY DEF Consumers
<1>5. QED
  BY <1>1, <1>2, <1>3, <1>4 DEF Delivered, Delivering

(* A side effect is one more at one consumer.                                *)
LEMMA SentIs ==
  ASSUME EventInv, NEW d \in Dispatchers, disp[d].pc = "send"
  PROVE  LET m == disp[d] IN
         /\ Sent(d) \in [Events -> [Consumers -> 0 .. 2]]
         /\ \A e \in Events, c \in Consumers :
              /\ sent[e][c] <= Sent(d)[e][c]
              /\ e # m.event \/ c # m.at => Sent(d)[e][c] = sent[e][c]
         /\ m.event \in Events /\ m.at \in Consumers
         /\ Sent(d)[m.event][m.at] > 0
         /\ sent[m.event][m.at] = 0 => Sent(d)[m.event][m.at] = 1
<1> DEFINE m == disp[d]
<1>1. m \in DispatcherRows /\ m.event \in Events /\ m.at \in Consumers
  BY DEF EventInv, EventShape, DispatchersHold, Delivered, DispatcherRows
<1>2. sent[m.event] \in [Consumers -> 0 .. 2] /\ sent[m.event][m.at] \in 0 .. 2
  BY <1>1 DEF EventInv, EventShape
<1>3. PICK k \in 0 .. 2 : k = IF sent[m.event][m.at] < 2 THEN sent[m.event][m.at] + 1
                                                       ELSE sent[m.event][m.at]
  BY <1>2
<1>4. PICK row \in [Consumers -> 0 .. 2] : row = [sent[m.event] EXCEPT ![m.at] = k]
  BY <1>2
<1>5. Sent(d) = [sent EXCEPT ![m.event] = row]
  BY <1>1, <1>3, <1>4 DEF EventInv, EventShape, Sent
<1>6. Sent(d) \in [Events -> [Consumers -> 0 .. 2]]
  BY <1>4, <1>5 DEF EventInv, EventShape
<1>7. \A e \in Events, c \in Consumers :
        Sent(d)[e][c] = IF e = m.event /\ c = m.at THEN k ELSE sent[e][c]
  BY <1>1, <1>4, <1>5 DEF EventInv, EventShape
<1>8. \A e \in Events, c \in Consumers : sent[e][c] \in 0 .. 2
  BY DEF EventInv, EventShape
<1> HIDE DEF m
<1>9. \A e \in Events, c \in Consumers :
        /\ sent[e][c] <= Sent(d)[e][c]
        /\ e # m.event \/ c # m.at => Sent(d)[e][c] = sent[e][c]
  <2>1. k >= sent[m.event][m.at]
    BY <1>2, <1>3
  <2>2. QED  BY <1>7, <1>8, <2>1
<1>10. Sent(d)[m.event][m.at] = k
  BY <1>1, <1>7
<1>11. k > 0 /\ (sent[m.event][m.at] = 0 => k = 1)
  BY <1>2, <1>3
<1>12. QED
  BY <1>1, <1>6, <1>9, <1>10, <1>11 DEF m

(* A side effect happens, and the dispatcher is about to record it, or a     *)
(* failure hides it.                                                         *)
LEMMA SentKeeps ==
  ASSUME EventInv, NEW d \in Dispatchers, disp[d].pc = "send",
         NEW n \in DispatcherRows, disp' = [disp EXCEPT ![d] = n],
         n.event = disp[d].event, n.todo = disp[d].todo, n.at = disp[d].at,
         n.left = disp[d].left,
         sent' = Sent(d), UNCHANGED <<outbox, hooks, consumed, overlap, sealed>>,
         \/ n.pc = "record" /\ lost' = lost
         \/ n.pc \in {"send", "retry"} /\ lost' = lost + 1
  PROVE  EventInv'
<1> DEFINE m == disp[d]
<1>1. /\ disp'[d] = n /\ \A o \in Dispatchers \ {d} : disp'[o] = disp[o]
      /\ disp' \in [Dispatchers -> DispatcherRows]
  BY MoveOne DEF EventInv
<1>2. /\ sent' \in [Events -> [Consumers -> 0 .. 2]]
      /\ \A e \in Events, c \in Consumers :
           /\ sent[e][c] <= sent'[e][c]
           /\ e # m.event \/ c # m.at => sent'[e][c] = sent[e][c]
      /\ m.event \in Events /\ m.at \in Consumers /\ sent'[m.event][m.at] > 0
      /\ sent[m.event][m.at] = 0 => sent'[m.event][m.at] = 1
  BY SentIs
<1>3. EventShape'
  BY <1>1, <1>2 DEF EventInv, EventShape
<1>4. \A o \in Dispatchers : Delivered(disp[o], Due(disp[o].event), sent')
  BY <1>2, DeliveriesGrow DEF EventInv, EventShape, DispatchersHold
<1>5. Delivered(n, Due(n.event), sent')
  BY <1>2, <1>4 DEF Delivered
<1>6. DispatchersHold'
  BY <1>1, <1>4, <1>5 DEF DispatchersHold
<1>7. ConsumedIsSent' /\ DispatchedIsDelivered'
  <2>1. \A e \in Events, c \in Consumers : sent[e][c] > 0 => sent'[e][c] > 0
    BY <1>2 DEF EventInv, EventShape
  <2>2. hooks \cup {"notifications"} \subseteq Consumers
    BY DEF EventInv, EventShape, Consumers
  <2>3. QED  BY <2>1, <2>2 DEF EventInv, ConsumedIsSent, DispatchedIsDelivered
<1>8. ASSUME NEW e \in Events \ overlap
      PROVE  Unshared(e)'
  <2>1. Unshared(e) /\ e # -1
    BY DEF EventInv
  <2>2. \A o \in Dispatchers : Held(disp'[o]) = Held(disp[o])
    BY <1>1 DEF Held
  <2>3. \A o, v \in Dispatchers : e \in Held(disp'[o]) /\ e \in Held(disp'[v]) => o = v
    BY <2>1, <2>2 DEF Unshared
  <2>4. \A o \in Dispatchers : e \in Held(disp'[o]) => outbox[e].status = "pending"
    BY <2>1, <2>2 DEF Unshared
  <2>5. \A o \in Dispatchers : disp'[o].event = e /\ disp'[o].pc = "send" =>
          <<e, disp'[o].at>> \notin consumed
    BY <1>1, <2>1 DEF Unshared
  <2>6. ASSUME lost' = 0, NEW c \in Consumers
        PROVE  /\ sent'[e][c] <= 1
               /\ sent'[e][c] > 0 =>
                    <<e, c>> \in consumed \/ \E o \in Dispatchers : Recording(disp'[o], e, c)
    <3>1. lost = 0 /\ n.pc = "record"
      BY <2>6 DEF EventInv, EventShape
    <3>2. sent[e][c] <= 1 /\ (sent[e][c] > 0 =>
              <<e, c>> \in consumed \/ \E o \in Dispatchers : Recording(disp[o], e, c))
      BY <2>1, <3>1 DEF Unshared
    <3>3. CASE e # m.event \/ c # m.at
      <4>1. sent'[e][c] = sent[e][c]
        BY <1>2, <3>3
      <4>2. \A o \in Dispatchers : Recording(disp[o], e, c) => Recording(disp'[o], e, c)
        BY <1>1 DEF Recording
      <4>3. QED  BY <3>2, <4>1, <4>2
    <3>4. CASE e = m.event /\ c = m.at
      <4>1. <<e, c>> \notin consumed
        BY <2>1, <3>4 DEF Unshared
      <4>2. \A o \in Dispatchers : ~Recording(disp[o], e, c)
        <5>1. ASSUME NEW o \in Dispatchers, Recording(disp[o], e, c)
              PROVE  FALSE
          <6>1. e \in Held(disp[o]) /\ e \in Held(disp[d])
            BY <3>4, <5>1 DEF Held, Recording
          <6>2. o = d
            BY <2>1, <6>1 DEF Unshared
          <6>3. QED  BY <5>1, <6>2 DEF Recording
        <5>2. QED  BY <5>1
      <4>3. sent[e][c] \in 0 .. 2
        BY DEF EventInv, EventShape
      <4>4. sent'[e][c] = 1
        <5>1. ~(sent[e][c] > 0) /\ sent[e][c] <= 1
          BY <3>2, <4>1, <4>2
        <5>2. sent[e][c] = 0
          BY <4>3, <5>1
        <5>3. sent[e][c] = 0 => sent'[e][c] = 1
          BY <1>2, <3>4
        <5>4. QED  BY <5>2, <5>3
      <4>5. Recording(disp'[d], e, c)
        BY <1>1, <3>1, <3>4 DEF Recording
      <4>6. QED  BY <4>4, <4>5
    <3>5. QED  BY <3>3, <3>4
  <2>7. QED  BY <2>3, <2>4, <2>5, <2>6 DEF Unshared
<1>9. QED
  BY <1>3, <1>6, <1>7, <1>8 DEF EventInv

(* A consumer has its event.                                                 *)
LEMMA SendKeeps ==
  ASSUME EventInv, NEW d \in Dispatchers, Send(d)
  PROVE  EventInv'
<1> DEFINE n == [disp[d] EXCEPT !.pc = "record"]
<1>1. disp[d] \in DispatcherRows
  BY DEF EventInv, EventShape
<1>2. n \in DispatcherRows /\ n.pc = "record" /\ n.event = disp[d].event
      /\ n.todo = disp[d].todo /\ n.at = disp[d].at /\ n.left = disp[d].left
  BY <1>1 DEF DispatcherRows, Delivering
<1>3. disp' = [disp EXCEPT ![d] = n]
  BY DEF Send, EventInv, EventShape
<1> HIDE DEF n
<1>4. QED
  BY <1>2, <1>3, SentKeeps DEF Send

(* A post fails, and its receiver may have had the event.                    *)
LEMMA PostFailsKeeps ==
  ASSUME EventInv, NEW d \in Dispatchers, PostFails(d)
  PROVE  EventInv'
<1> DEFINE m == disp[d]
           n == [m EXCEPT !.try = @ + 1, !.pc = IF m.try + 1 < Tries THEN "send" ELSE "retry"]
<1>1. m \in DispatcherRows /\ m.pc = "send" /\ Delivered(m, Due(m.event), sent)
  BY DEF EventInv, EventShape, DispatchersHold, PostFails
<1>2. n \in DispatcherRows /\ n.pc \in {"send", "retry"} /\ n.event = m.event
      /\ n.todo = m.todo /\ n.at = m.at /\ n.left = m.left
  <2>1. m.try + 1 \in Nat
    BY <1>1 DEF DispatcherRows
  <2>2. QED  BY <1>1, <2>1 DEF DispatcherRows, Delivering
<1>3. disp' = [disp EXCEPT ![d] = n] /\ UNCHANGED <<outbox, hooks, consumed, overlap, sealed>>
  BY DEF PostFails, EventInv, EventShape
<1> HIDE DEF n
<1>4. CASE UNCHANGED <<sent, lost>>
  <2>1. Delivered(n, Due(n.event), sent) /\ Held(n) = Held(m)
    BY <1>1, <1>2 DEF Delivered, Held
  <2>2. QED  BY <1>1, <1>2, <1>3, <1>4, <2>1, QuietMove
<1>5. CASE lost' = lost + 1 /\ sent' = Sent(d)
  BY <1>1, <1>2, <1>3, <1>5, SentKeeps
<1>6. QED
  BY <1>4, <1>5 DEF PostFails

(* What was sent is recorded, and the next consumer looked for.              *)
LEMMA RecordKeeps ==
  ASSUME EventInv, NEW d \in Dispatchers, RecordConsumption(d)
  PROVE  EventInv'
<1> DEFINE m == disp[d]
           n == [m EXCEPT !.pc = "check"]
<1>1. m \in DispatcherRows /\ m.pc = "record" /\ Delivered(m, Due(m.event), sent)
      /\ UNCHANGED <<outbox, hooks, sent, overlap, sealed, lost>>
      /\ consumed' = consumed \cup {<<m.event, m.at>>}
  BY DEF EventInv, EventShape, DispatchersHold, RecordConsumption
<1>2. n \in DispatcherRows /\ n.pc = "check" /\ n.event = m.event
      /\ n.todo = m.todo /\ n.at = m.at /\ n.left = m.left
  BY <1>1 DEF DispatcherRows, Delivering
<1>3. disp' = [disp EXCEPT ![d] = n]
  BY DEF RecordConsumption, EventInv, EventShape
<1>4. m.event \in Events /\ m.at \in Consumers /\ sent[m.event][m.at] > 0
  BY <1>1 DEF Delivered, DispatcherRows
<1> HIDE DEF n
<1>5. /\ disp'[d] = n /\ \A o \in Dispatchers \ {d} : disp'[o] = disp[o]
      /\ disp' \in [Dispatchers -> DispatcherRows]
  BY <1>2, <1>3, MoveOne DEF EventInv
<1>6. EventShape' /\ ConsumedIsSent' /\ DispatchedIsDelivered'
  BY <1>1, <1>4, <1>5 DEF EventInv, EventShape, ConsumedIsSent, DispatchedIsDelivered
<1>7. DispatchersHold'
  <2>1. Delivered(n, Due(n.event), sent)
    BY <1>1, <1>2, <1>4 DEF Delivered
  <2>2. QED  BY <1>1, <1>5, <2>1 DEF EventInv, DispatchersHold
<1>8. ASSUME NEW e \in Events \ overlap
      PROVE  Unshared(e)'
  <2>1. Unshared(e) /\ e # -1
    BY DEF EventInv
  <2>2. \A o \in Dispatchers : Held(disp'[o]) = Held(disp[o])
    BY <1>2, <1>5 DEF Held
  <2>3. \A o, v \in Dispatchers : e \in Held(disp'[o]) /\ e \in Held(disp'[v]) => o = v
    BY <2>1, <2>2 DEF Unshared
  <2>4. \A o \in Dispatchers : e \in Held(disp'[o]) => outbox[e].status = "pending"
    BY <2>1, <2>2 DEF Unshared
  <2>5. ASSUME NEW o \in Dispatchers, disp'[o].event = e, disp'[o].pc = "send"
        PROVE  <<e, disp'[o].at>> \notin consumed'
    <3>1. o # d /\ disp[o].event = e /\ disp[o].pc = "send" /\ disp'[o].at = disp[o].at
      BY <1>2, <1>5, <2>5
    <3>2. <<e, disp[o].at>> \notin consumed /\ e \in Held(disp[o])
      BY <2>1, <3>1 DEF Unshared, Held
    <3>3. e \in Held(disp[d]) => o = d
      BY <2>1, <3>2 DEF Unshared
    <3>4. m.event # e
      BY <3>1, <3>3 DEF Held
    <3>5. QED  BY <1>1, <3>1, <3>2, <3>4
  <2>6. ASSUME lost = 0, NEW c \in Consumers
        PROVE  /\ sent[e][c] <= 1
               /\ sent[e][c] > 0 =>
                    <<e, c>> \in consumed' \/ \E o \in Dispatchers : Recording(disp'[o], e, c)
    <3>1. sent[e][c] <= 1 /\ (sent[e][c] > 0 =>
              <<e, c>> \in consumed \/ \E o \in Dispatchers : Recording(disp[o], e, c))
      BY <2>1, <2>6 DEF Unshared
    <3>2. \A o \in Dispatchers : Recording(disp[o], e, c) =>
              Recording(disp'[o], e, c) \/ <<e, c>> \in consumed'
      BY <1>1, <1>5 DEF Recording
    <3>3. QED  BY <1>1, <3>1, <3>2
  <2>7. QED  BY <1>1, <2>3, <2>4, <2>5, <2>6 DEF Unshared
<1>9. QED
  BY <1>1, <1>6, <1>7, <1>8 DEF EventInv

(* A mark changes the row of the event that a dispatcher then lets go; its   *)
(* status, if that was not shared with another dispatcher, was pending.      *)
LEMMA MarkKeeps ==
  ASSUME EventInv, NEW d \in Dispatchers, disp[d].pc \in Delivering,
         NEW n \in DispatcherRows, disp' = [disp EXCEPT ![d] = n],
         n.todo = disp[d].todo,
         \/ n.pc = "next" /\ n.event = -1
         \/ n.pc = "retried" /\ n.event = disp[d].event,
         UNCHANGED <<hooks, consumed, sent, overlap, sealed, lost>>,
         disp[d].pc # "record",
         NEW r \in OutboxRows, outbox' = [outbox EXCEPT ![disp[d].event] = r],
         n.pc = "retried" => r.status = outbox[disp[d].event].status,
         r.status = "dispatched" =>
           outbox[disp[d].event].status = "dispatched" \/ disp[d].pc = "dispatched"
  PROVE  /\ EventInv'
         /\ \A e \in Events \ overlap :
              outbox[e].status \in {"dispatched", "dead"} => outbox'[e].status = outbox[e].status
<1> DEFINE m == disp[d]
<1>1. m \in DispatcherRows /\ Delivered(m, Due(m.event), sent) /\ m.event \in Events
  BY DEF EventInv, EventShape, DispatchersHold, Delivered, Delivering, DispatcherRows
<1>2. /\ disp'[d] = n /\ \A o \in Dispatchers \ {d} : disp'[o] = disp[o]
      /\ disp' \in [Dispatchers -> DispatcherRows]
  BY MoveOne DEF EventInv
<1>3. /\ outbox' \in [Events -> OutboxRows] /\ outbox'[m.event] = r
      /\ \A e \in Events \ {m.event} : outbox'[e] = outbox[e]
  BY <1>1 DEF EventInv, EventShape
<1>4. EventShape' /\ ConsumedIsSent'
  BY <1>2, <1>3 DEF EventInv, EventShape, ConsumedIsSent
<1>5. DispatchersHold'
  <2>1. Delivered(n, Due(n.event), sent)
    BY <1>1 DEF Delivered, Delivering, DispatcherRows
  <2>2. QED  BY <1>2, <2>1 DEF EventInv, DispatchersHold
<1>6. DispatchedIsDelivered'
  <2>1. m.pc = "dispatched" => \A c \in Due(m.event) \cup {"notifications"} : sent[m.event][c] > 0
    BY <1>1 DEF Delivered
  <2>2. QED  BY <1>1, <1>3, <2>1 DEF EventInv, DispatchedIsDelivered
<1>7. ASSUME NEW e \in Events \ overlap
      PROVE  /\ Unshared(e)'
             /\ outbox[e].status \in {"dispatched", "dead"} => outbox'[e].status = outbox[e].status
  <2>1. Unshared(e) /\ e # -1
    BY DEF EventInv
  <2>2. \A o \in Dispatchers : e \in Held(disp'[o]) => e \in Held(disp[o])
    BY <1>2, <2>1 DEF Held
  <2>3. \A o, v \in Dispatchers : e \in Held(disp'[o]) /\ e \in Held(disp'[v]) => o = v
    BY <2>1, <2>2 DEF Unshared
  <2>4. e = m.event => outbox[e].status = "pending"
    BY <2>1 DEF Unshared, Held
  <2>5. ASSUME NEW o \in Dispatchers, e \in Held(disp'[o])
        PROVE  outbox'[e].status = "pending"
    <3>1. outbox[e].status = "pending"
      BY <2>1, <2>2, <2>5 DEF Unshared
    <3>2. CASE e = m.event
      <4>1. e \in Held(disp[d])
        BY <3>2 DEF Held
      <4>2. o = d
        BY <2>1, <2>2, <2>5, <4>1 DEF Unshared
      <4>3. n.pc = "retried"
        BY <1>1, <1>2, <2>1, <2>5, <3>2, <4>2 DEF Held, Delivered
      <4>4. QED  BY <1>3, <3>1, <3>2, <4>3
    <3>3. QED  BY <1>3, <3>1, <3>2
  <2>6. \A o \in Dispatchers : disp'[o].event = e /\ disp'[o].pc = "send" =>
          <<e, disp'[o].at>> \notin consumed
    BY <1>2, <2>1 DEF Unshared
  <2>7. \A c \in Consumers, o \in Dispatchers :
          Recording(disp[o], e, c) => Recording(disp'[o], e, c)
    BY <1>2 DEF Recording
  <2>8. Unshared(e)'
    BY <2>1, <2>3, <2>5, <2>6, <2>7 DEF Unshared
  <2>9. QED  BY <1>3, <2>4, <2>8
<1>8. QED
  BY <1>4, <1>5, <1>6, <1>7 DEF EventInv

\* A settled event that no two dispatchers have held stays as it is.
SettledKept ==
    \A e \in Events \ overlap :
      outbox[e].status \in {"dispatched", "dead"} => outbox'[e].status = outbox[e].status

LEMMA MarkDispatchedKeeps ==
  ASSUME EventInv, NEW d \in Dispatchers, MarkDispatched(d)
  PROVE  EventInv' /\ SettledKept
<1> DEFINE m == disp[d]
           n == [m EXCEPT !.pc = "next", !.event = -1]
           r == [outbox[m.event] EXCEPT !.status = "dispatched"]
<1>1. m \in DispatcherRows /\ m.pc = "dispatched" /\ m.event \in Events
  BY DEF EventInv, EventShape, DispatchersHold, Delivered, DispatcherRows, MarkDispatched
<1>2. n \in DispatcherRows /\ n.pc = "next" /\ n.event = -1 /\ n.todo = m.todo
  BY <1>1 DEF DispatcherRows, Delivering
<1> HIDE DEF Due
<1>3. r \in OutboxRows /\ r.status = "dispatched"
  BY <1>1 DEF EventInv, EventShape, OutboxRows
<1>4. disp' = [disp EXCEPT ![d] = n] /\ outbox' = [outbox EXCEPT ![m.event] = r]
      /\ UNCHANGED <<hooks, consumed, sent, overlap, sealed, lost>>
  BY <1>1 DEF MarkDispatched, EventInv, EventShape
<1> HIDE DEF n, r
<1>5. QED
  BY <1>1, <1>2, <1>3, <1>4, MarkKeeps DEF Delivering, SettledKept

LEMMA MarkRetryKeeps ==
  ASSUME EventInv, NEW d \in Dispatchers, MarkRetry(d)
  PROVE  EventInv' /\ SettledKept
<1> DEFINE m == disp[d]
           n == [m EXCEPT !.pc = "retried"]
           r == [outbox[m.event] EXCEPT !.attempts = @ + 1]
<1>1. m \in DispatcherRows /\ m.pc = "retry" /\ m.event \in Events
  BY DEF EventInv, EventShape, DispatchersHold, Delivered, DispatcherRows, MarkRetry
<1>2. n \in DispatcherRows /\ n.pc = "retried" /\ n.event = m.event /\ n.todo = m.todo
  BY <1>1 DEF DispatcherRows, Delivering
<1>3. r \in OutboxRows /\ r.status = outbox[m.event].status
  <2>1. outbox[m.event] \in OutboxRows
    BY <1>1 DEF EventInv, EventShape
  <2>2. outbox[m.event].attempts + 1 \in Nat
    BY <2>1 DEF OutboxRows
  <2>3. QED  BY <2>1, <2>2 DEF OutboxRows
<1>4. disp' = [disp EXCEPT ![d] = n] /\ outbox' = [outbox EXCEPT ![m.event] = r]
      /\ UNCHANGED <<hooks, consumed, sent, overlap, sealed, lost>>
  BY <1>1 DEF MarkRetry, EventInv, EventShape
<1> HIDE DEF n, r
<1>5. QED
  BY <1>1, <1>2, <1>3, <1>4, MarkKeeps DEF Delivering, SettledKept

LEMMA MarkDeadKeeps ==
  ASSUME EventInv, NEW d \in Dispatchers, MarkDead(d)
  PROVE  EventInv' /\ SettledKept
<1> DEFINE m == disp[d]
           n == [m EXCEPT !.pc = "next", !.event = -1]
           r == [outbox[m.event] EXCEPT !.status =
                   IF outbox[m.event].attempts >= MaxRounds THEN "dead" ELSE @]
<1>1. m \in DispatcherRows /\ m.pc = "retried" /\ m.event \in Events
  BY DEF EventInv, EventShape, DispatchersHold, Delivered, DispatcherRows, MarkDead
<1>2. n \in DispatcherRows /\ n.pc = "next" /\ n.event = -1 /\ n.todo = m.todo
  BY <1>1 DEF DispatcherRows, Delivering
<1>3. r \in OutboxRows /\ r.status \in {"dead", outbox[m.event].status}
  BY <1>1 DEF EventInv, EventShape, OutboxRows
<1>4. disp' = [disp EXCEPT ![d] = n] /\ outbox' = [outbox EXCEPT ![m.event] = r]
      /\ UNCHANGED <<hooks, consumed, sent, overlap, sealed, lost>>
  BY <1>1 DEF MarkDead, EventInv, EventShape
<1> HIDE DEF n, r
<1>5. QED
  BY <1>1, <1>2, <1>3, <1>4, MarkKeeps DEF Delivering, SettledKept

(* A dispatcher that dies forgets what it held.                              *)
LEMMA DiesKeeps ==
  ASSUME EventInv, NEW d \in Dispatchers, DispatcherDies(d)
  PROVE  EventInv'
<1>1. Resting \in DispatcherRows /\ Delivered(Resting, Due(Resting.event), sent) /\ Held(Resting) = {-1}
      /\ Resting.pc = "rest"
  BY DEF Resting, DispatcherRows, Delivered, Held
<1>2. lost' = lost + 1 /\ lost' # lost
  BY DEF DispatcherDies, EventInv, EventShape
<1>3. QED
  BY <1>1, <1>2, QuietMove DEF DispatcherDies

(* Every step keeps the invariant and the events that are settled.           *)
LEMMA EventStep ==
  ASSUME EventInv, EventsNext \/ AuditNext \/ UNCHANGED eventVars
  PROVE  EventInv' /\ SettledKept
<1>1. CASE AuditNext \/ UNCHANGED eventVars
  <2>1. UNCHANGED <<outbox, hooks, consumed, sent, overlap, sealed, disp, lost>>
    BY <1>1 DEF AuditNext, eventVars
  <2>2. EventShape' /\ DispatchersHold' /\ ConsumedIsSent' /\ DispatchedIsDelivered'
    BY <2>1 DEF EventInv, EventShape, DispatchersHold, ConsumedIsSent, DispatchedIsDelivered
  <2>3. \A e \in Events \ overlap' : Unshared(e)'
    BY <2>1 DEF EventInv, Unshared
  <2>4. QED  BY <2>1, <2>2, <2>3 DEF EventInv, SettledKept
<1>2. ASSUME NEW e \in Events, Emit(e)
      PROVE  EventInv' /\ SettledKept
  <2>1. SettledKept
    BY <1>2 DEF Emit, SettledKept, EventInv, EventShape, OutboxRows
  <2>2. QED  BY <1>2, <2>1, EmitKeeps
<1>3. ASSUME NEW h \in Hooks, DeleteHook(h)
      PROVE  EventInv' /\ SettledKept
  BY <1>3, HookKeeps DEF DeleteHook, SettledKept
<1>4. ASSUME NEW d \in Dispatchers, Dispatch(d) \/ DispatcherDies(d)
      PROVE  EventInv' /\ SettledKept
  <2>1. CASE SelectPending(d)
    BY <2>1, SelectKeeps DEF SelectPending, SettledKept
  <2>2. CASE NextEvent(d)
    BY <2>2, NextKeeps DEF NextEvent, SettledKept
  <2>3. CASE Check(d)
    BY <2>3, CheckKeeps DEF Check, SettledKept
  <2>9. CASE SkipSealed(d)
    BY <2>9, SealedKeeps DEF SkipSealed, SettledKept
  <2>4. CASE Send(d)
    BY <2>4, SendKeeps DEF Send, SettledKept
  <2>5. CASE PostFails(d)
    BY <2>5, PostFailsKeeps DEF PostFails, SettledKept
  <2>6. CASE RecordConsumption(d)
    BY <2>6, RecordKeeps DEF RecordConsumption, SettledKept
  <2>7. CASE DispatcherDies(d)
    BY <2>7, DiesKeeps DEF DispatcherDies, SettledKept
  <2>8. QED
    BY <1>4, <2>1, <2>2, <2>3, <2>4, <2>5, <2>6, <2>7, <2>9, MarkDispatchedKeeps, MarkRetryKeeps,
       MarkDeadKeeps DEF Dispatch
<1>5. QED
  BY <1>1, <1>2, <1>3, <1>4 DEF EventsNext

-----------------------------------------------------------------------------
(* The pages of the audit log.                                               *)

Orgs == Tenants \cup {"none", NoOrg}

\* A reader below its cursor has all that was there at its first page.
AuditInv ==
    /\ audit \in Seq(Orgs)
    /\ page \in [org : Orgs, top : Nat, before : Nat, seen : SUBSET (1 .. Len(audit)),
                 open : BOOLEAN]
    /\ page.top <= Len(audit)
    /\ \A i \in page.seen :
         audit[i] = page.org \/ (page.org = "none" /\ audit[i] = NoOrg)
    /\ page.org # NoOrg =>
         \A i \in 1 .. page.top :
           audit[i] = page.org => i \in page.seen \/ (page.open /\ i < page.before)

(* A page holds the newest row below the cursor.                             *)
LEMMA PageIs ==
  ASSUME AuditInv, Below # {}
  PROVE  LET rows == {i \in Below : Cardinality({k \in Below : k > i}) < PageSize} IN
         \E top \in Below : rows = {top} /\ \A k \in Below : k <= top
<1> DEFINE rows == {i \in Below : Cardinality({k \in Below : k > i}) < PageSize}
           L == Len(audit)
<1>1. L \in Nat /\ Below \subseteq 1 .. L
  BY DEF AuditInv, Below
<1>2. IsFiniteSet(Below)
  <2>1. 1 \in Int /\ L \in Int
    BY <1>1
  <2>2. QED  BY <1>1, <2>1, FS_Interval, FS_Subset
<1>3. \E top \in Below : \A k \in Below : k <= top
  <2> DEFINE S == {L - i : i \in Below}
  <2>1. S \subseteq Nat /\ S # {}
    <3>1. \A i \in Below : L - i \in Nat
      BY <1>1
    <3>2. \E i \in Below : L - i \in S
      OBVIOUS
    <3>3. QED  BY <3>1, <3>2
  <2>2. PICK n \in S : \A m \in S : n <= m
    <3> HIDE DEF S
    <3> QED  BY <2>1, LeastOfNumbers
  <2>3. PICK top \in Below : n = L - top
    BY <2>2
  <2>4. \A k \in Below : L - top <= L - k
    BY <2>2, <2>3
  <2>5. QED  BY <1>1, <2>4
<1>4. PICK top \in Below : \A k \in Below : k <= top
  BY <1>3
<1>5. \A i \in Below : Cardinality({k \in Below : k > i}) < PageSize <=> {k \in Below : k > i} = {}
  <2> SUFFICES ASSUME NEW i \in Below
               PROVE  Cardinality({k \in Below : k > i}) < PageSize <=> {k \in Below : k > i} = {}
    OBVIOUS
  <2>1. IsFiniteSet({k \in Below : k > i})
    BY <1>2, FS_Subset
  <2>2. Cardinality({k \in Below : k > i}) \in Nat
        /\ (Cardinality({k \in Below : k > i}) = 0 <=> {k \in Below : k > i} = {})
    BY <2>1, FS_CardinalityType, FS_EmptySet
  <2>3. QED  BY <2>2 DEF PageSize
<1>6. rows = {top}
  <2> HIDE DEF L
  <2>1. \A i \in Below : i \in Int /\ ~(i > top) /\ (i # top => top > i)
    BY <1>1, <1>4
  <2>2. {k \in Below : k > top} = {}
    BY <2>1
  <2>3. \A i \in Below : i # top => top \in {k \in Below : k > i}
    BY <2>1
  <2>4. QED  BY <1>5, <2>2, <2>3
<1>7. QED
  BY <1>4, <1>6

(* Rows written meanwhile are above every cursor.                            *)
LEMMA AuditStep ==
  ASSUME AuditInv, EventsNext \/ AuditNext \/ UNCHANGED auditVars
  PROVE  AuditInv'
<1>1. CASE EventsNext \/ UNCHANGED auditVars
  BY <1>1 DEF EventsNext, AuditInv, auditVars
<1>2. ASSUME NEW org \in Orgs, WriteAudit(org)
      PROVE  AuditInv'
  <2>1. audit' \in Seq(Orgs) /\ Len(audit') = Len(audit) + 1 /\ page' = page
        /\ \A i \in 1 .. Len(audit) : audit'[i] = audit[i]
    BY <1>2 DEF WriteAudit, AuditInv
  <2>2. Len(audit) \in Nat /\ page.seen \subseteq 1 .. Len(audit) /\ page.top \in Nat
    BY DEF AuditInv
  <2>3. 1 .. Len(audit) \subseteq 1 .. Len(audit')
    BY <2>1, <2>2
  <2>4. page' \in [org : Orgs, top : Nat, before : Nat, seen : SUBSET (1 .. Len(audit')),
                   open : BOOLEAN]
    BY <2>1, <2>3 DEF AuditInv
  <2>5. QED  BY <2>1, <2>2, <2>4 DEF AuditInv
<1>3. ASSUME NEW org \in Orgs, OpenPages(org)
      PROVE  AuditInv'
  <2>1. page' = [org |-> org, top |-> Len(audit), before |-> Len(audit) + 1,
                 seen |-> {}, open |-> TRUE] /\ audit' = audit
    BY <1>3 DEF OpenPages
  <2>2. Len(audit) \in Nat
    BY DEF AuditInv
  <2>3. QED  BY <2>1, <2>2 DEF AuditInv
<1>4. CASE NextPage
  <2> DEFINE rows == {i \in Below : Cardinality({k \in Below : k > i}) < PageSize}
  <2>1. page.open /\ audit' = audit
    BY <1>4 DEF NextPage
  <2>2. page' = IF rows = {} THEN [page EXCEPT !.open = FALSE]
                     ELSE [page EXCEPT !.seen = @ \cup rows,
                             !.before = CHOOSE i \in rows : \A k \in rows : i <= k]
    BY <1>4 DEF NextPage
  <2>3. \A i \in 1 .. page.top : page.org # NoOrg /\ audit[i] = page.org =>
          i \in page.seen \/ i \in Below
    BY DEF AuditInv, Below, Visible, NoOrg
  <2>4. CASE Below = {}
    <3>1. page' = [page EXCEPT !.open = FALSE]
      BY <2>4, <2>2
    <3>2. QED  BY <2>1, <2>3, <2>4, <3>1 DEF AuditInv
  <2>5. CASE Below # {}
    <3>1. PICK top \in Below : rows = {top} /\ \A k \in Below : k <= top
      BY <2>5, PageIs
    <3>2. (CHOOSE i \in rows : \A k \in rows : i <= k) = top /\ top \in 1 .. Len(audit)
      <4>1. Len(audit) \in Nat /\ top \in 1 .. Len(audit)
        BY DEF Below, AuditInv
      <4>2. \E i \in rows : \A k \in rows : i <= k
        BY <3>1, <4>1
      <4> HIDE DEF rows
      <4>3. (CHOOSE i \in rows : \A k \in rows : i <= k) \in rows
        BY <4>2
      <4>4. QED  BY <3>1, <4>1, <4>3
    <3>3. page' = [page EXCEPT !.seen = @ \cup {top}, !.before = top]
      BY <2>2, <3>1, <3>2
    <3>4. audit[top] = page.org \/ (page.org = "none" /\ audit[top] = NoOrg)
      BY DEF Below, Visible
    <3>5. \A i \in Below : i = top \/ i < top
      BY <3>1, <3>2 DEF Below, AuditInv
    <3>6. page' = [org |-> page.org, top |-> page.top, before |-> top,
                   seen |-> page.seen \cup {top}, open |-> page.open]
      BY <3>3 DEF AuditInv
    <3>7. top \in Nat /\ page.seen \cup {top} \subseteq 1 .. Len(audit)
      BY <3>2 DEF AuditInv
    <3>8. page' \in [org : Orgs, top : Nat, before : Nat, seen : SUBSET (1 .. Len(audit)),
                     open : BOOLEAN]
      BY <3>6, <3>7 DEF AuditInv
    <3>9. /\ page'.org = page.org /\ page'.top = page.top /\ page'.before = top
          /\ page'.seen = page.seen \cup {top} /\ page'.open = page.open
      BY <3>6
    <3>10. \A i \in page'.seen :
             audit[i] = page.org \/ (page.org = "none" /\ audit[i] = NoOrg)
      BY <3>4, <3>9 DEF AuditInv
    <3>11. page.org # NoOrg => \A i \in 1 .. page.top :
             audit[i] = page.org => i \in page'.seen \/ i < top
      BY <2>3, <3>5, <3>9
    <3>12. page.top <= Len(audit) /\ audit \in Seq(Orgs)
      BY DEF AuditInv
    <3> HIDE DEF rows
    <3>13. QED  BY <2>1, <3>8, <3>9, <3>10, <3>11, <3>12 DEF AuditInv
  <2>6. QED  BY <2>4, <2>5
<1>5. QED
  BY <1>1, <1>2, <1>3, <1>4 DEF AuditNext, Orgs

-----------------------------------------------------------------------------
(* An event reaches its consumers once unless something explains a second    *)
(* time, is marked as dispatched only then and stays settled; a reader of    *)
(* the audit log sees its tenant's rows, all of them and no others.          *)
THEOREM EventsStayKept == EventsSpec => EventsAreKept
<1>1. EventsInit => EventInv /\ AuditInv
  <2>1. EventsInit => AuditInv
    BY DEF EventsInit, AuditInv, Orgs
  <2>2. QED  BY <2>1, EventInit
<1>2. ASSUME EventInv /\ AuditInv, [EventsNext \/ AuditNext]_<<eventVars, auditVars>>
      PROVE  EventInv' /\ AuditInv'
  BY <1>2, EventStep, AuditStep
<1>3. ASSUME EventInv /\ AuditInv
      PROVE  DispatchedIsDelivered /\ DuplicatesAreExplained /\ AuditPagesComplete
  <2>1. DispatchedIsDelivered
    BY <1>3 DEF EventInv
  <2>2. DuplicatesAreExplained
    <3>1. ASSUME NEW e \in Events, NEW c \in Consumers, sent[e][c] > 1, ~(lost > 0), e \notin overlap
          PROVE  FALSE
      <4>1. lost = 0 /\ sent[e][c] \in 0 .. 2
        BY <1>3, <3>1 DEF EventInv, EventShape
      <4>2. sent[e][c] <= 1
        BY <1>3, <3>1, <4>1 DEF EventInv, Unshared
      <4>3. QED  BY <3>1, <4>1, <4>2
    <3>2. QED  BY <3>1 DEF DuplicatesAreExplained
  <2>3. AuditPagesComplete
    BY <1>3 DEF AuditInv, AuditPagesComplete
  <2>4. QED  BY <2>1, <2>2, <2>3
<1>4. ASSUME EventInv, [EventsNext \/ AuditNext]_<<eventVars, auditVars>>
      PROVE  [\A e \in Events : outbox[e].status \in {"dispatched", "dead"} /\ e \notin overlap
                => outbox'[e].status = outbox[e].status]_<<eventVars, auditVars>>
  BY <1>4, EventStep DEF SettledKept
<1>5. QED
  BY <1>1, <1>2, <1>3, <1>4, PTL DEF EventsSpec, EventsAreKept, SettledStays


-----------------------------------------------------------------------------
(* LegacyPipeline: from the plan of queries to the stored leads.             *)

LateStages == {"filter", "qualify", "enrich", "verify", "store"}
AcqFields == {"at", "asked", "found", "groups", "looks", "doubts", "left", "credits", "people",
              "policy", "pauses"}
LeadFields == {"from", "name", "city", "dom", "email", "phone", "branches", "fits", "review",
               "score", "maker", "status", "sources", "stage"}
Candidates == {Candidate(f, city) : f \in Finds, city \in STRING}

\* No group g puts together has two domains.
OneDomain(c, g) == \A k, l \in DOMAIN c : g[k] = g[l] => ~OwnConflict(c, k, l)

\* What was asked is the plan so far.
AskedInv ==
    /\ acq.asked \in Seq(STRING) /\ Len(acq.asked) <= Len(Queries)
    /\ \A i \in 1..Len(acq.asked) : acq.asked[i] = Query(i)
    /\ acq.at # "discover" => Len(acq.asked) = Len(Queries)

GroupInv ==
    /\ acq.found \in Seq(Candidates)
    /\ acq.at # "discover" => /\ acq.groups \in [DOMAIN acq.found -> DOMAIN acq.found]
                              /\ OneDomain(acq.found, acq.groups)
    /\ acq.at = "dedup" => acq.looks \subseteq LooksAt(acq.found)

\* Each lead is a group, and is to be reviewed if there is a doubt about one of it.
LeadInv ==
    /\ acq.at \in {"discover", "dedup"} => DOMAIN leads = {}
    /\ acq.at = "filter" => DOMAIN leads = {acq.groups[k] : k \in DOMAIN acq.found}
    /\ acq.left \subseteq DOMAIN leads
    /\ \A i \in DOMAIN leads :
         /\ DOMAIN leads[i] = LeadFields
         /\ leads[i].from = {k \in DOMAIN acq.found : acq.groups[k] = i}
         /\ Flagged(acq.doubts, leads[i].from) => leads[i].review = TRUE

StoredOnce == \A l, m \in store : l.from \cap m.from # {} => l = m

LeadsInv ==
    /\ acq.at \in {"discover", "dedup", "completed"} \cup LateStages /\ DOMAIN acq = AcqFields
    /\ acq.credits \in Nat /\ acq.credits <= Credits
    /\ AskedInv /\ GroupInv /\ LeadInv
    /\ acq.at # "completed" => store = {}
    /\ StoredOnce /\ DoubtsReachReview

(* The plan has a query for each city before it comes back to the first.     *)
LEMMA PlanIs ==
  /\ Queries \in Seq(STRING) /\ Len(Queries) \in Nat
  /\ \A i \in 1..Len(Queries) : /\ Queries[i] = Query(i) /\ Query(i) \in STRING
                             /\ \E k \in 1..Len(Cities) : Query(i) = Cities[k]
  /\ (MaxQueries >= Len(Cities) /\ Keywords > 0) =>
        \A n \in 1..Len(Cities) : n \in 1..Len(Queries) /\ Query(n) = Cities[n]
<1> DEFINE L == Len(Cities)
           n == Lesser(MaxQueries, L * Keywords)
<1>1. L \in Nat /\ Keywords \in Nat /\ MaxQueries \in Nat
  BY PipeAssumption
<1>2. L * Keywords \in Nat /\ (Keywords > 0 => L * Keywords >= L) /\ (L = 0 => L * Keywords = 0)
  BY <1>1
<1>3. n \in Nat /\ (L = 0 => n = 0) /\ (MaxQueries >= L /\ Keywords > 0 => n >= L)
  BY <1>1, <1>2 DEF Lesser
<1>4. ASSUME NEW i \in 1..n PROVE \E k \in 1..L : Query(i) = Cities[k]
  <2>1. L > 0 /\ i - 1 \in Nat
    BY <1>1, <1>3
  <2>2. (i - 1) % L \in 0..(L - 1)
    BY <1>1, <2>1
  <2>3. QED  BY <1>1, <2>1, <2>2 DEF Query
<1>5. ASSUME NEW i \in 1..L PROVE Query(i) = Cities[i]
  <2>1. (i - 1) % L = i - 1
    BY <1>1
  <2>2. QED  BY <2>1 DEF Query
<1>6. Queries = [i \in 1..n |-> Query(i)]
  BY DEF Queries
<1> HIDE DEF n
<1>7. \A i \in 1..n : Query(i) \in STRING
  BY <1>4, PipeAssumption
<1>8. Queries \in Seq(STRING) /\ Len(Queries) = n
  BY <1>3, <1>6, <1>7
<1>9. \A i \in 1..n : Queries[i] = Query(i)
  BY <1>6
<1>10. QED  BY <1>1, <1>3, <1>4, <1>5, <1>7, <1>8, <1>9

(* Groups are joined only if at most one domain is among them.               *)
LEMMA UnionKeeps ==
  ASSUME NEW c, NEW g \in [DOMAIN c -> DOMAIN c], OneDomain(c, g),
         NEW i \in DOMAIN c, NEW j \in DOMAIN c
  PROVE  Union(c, g, i, j) \in [DOMAIN c -> DOMAIN c] /\ OneDomain(c, Union(c, g, i, j))
<1> DEFINE h == Union(c, g, i, j)
<1>1. CASE g[i] = g[j] \/ Conflict(c, g, i, j)
  BY <1>1 DEF Union
<1>2. CASE ~(g[i] = g[j] \/ Conflict(c, g, i, j))
  <2> DEFINE root == Lesser(g[i], g[j])
  <2>1. root \in {g[i], g[j]} /\ g[i] \in DOMAIN c /\ g[j] \in DOMAIN c
    BY DEF Lesser
  <2>2. h = [k \in DOMAIN c |-> IF g[k] \in {g[i], g[j]} THEN root ELSE g[k]]
    BY <1>2 DEF Union
  <2> HIDE DEF root, h
  <2>3. h \in [DOMAIN c -> DOMAIN c]
    BY <2>1, <2>2
  <2>4. \A k \in DOMAIN c : h[k] = IF g[k] \in {g[i], g[j]} THEN root ELSE g[k]
    BY <2>2
  <2>5. \/ GroupDomains(c, g, g[i]) = {} \/ GroupDomains(c, g, g[j]) = {}
        \/ GroupDomains(c, g, g[i]) = GroupDomains(c, g, g[j])
    BY <1>2 DEF Conflict
  <2>6. \A k \in DOMAIN c : c[k].dom # "none" => c[k].dom \in GroupDomains(c, g, g[k])
    BY DEF GroupDomains
  <2>7. \A r, d : d \in GroupDomains(c, g, r) =>
                    \E k \in DOMAIN c : g[k] = r /\ c[k].dom = d /\ d # "none"
    BY DEF GroupDomains
  <2>8. ASSUME NEW k \in DOMAIN c, NEW l \in DOMAIN c, h[k] = h[l],
               c[k].dom # "none", c[l].dom # "none"
        PROVE  c[k].dom = c[l].dom
    <3>1. CASE g[k] = g[l]
      BY <2>8, <3>1 DEF OneDomain, OwnConflict
    <3>2. CASE g[k] # g[l]
      <4>1. (g[k] = g[i] /\ g[l] = g[j]) \/ (g[k] = g[j] /\ g[l] = g[i])
        BY <2>1, <2>4, <2>8, <3>2
      <4>2. GroupDomains(c, g, g[k]) = GroupDomains(c, g, g[l])
        BY <2>5, <2>6, <2>8, <4>1
      <4>3. PICK m \in DOMAIN c : g[m] = g[l] /\ c[m].dom = c[k].dom
        BY <2>6, <2>7, <2>8, <4>2
      <4>4. QED  BY <2>8, <4>3 DEF OneDomain, OwnConflict
    <3>3. QED  BY <3>1, <3>2
  <2>9. OneDomain(c, h)
    BY <2>8 DEF OneDomain, OwnConflict
  <2>10. QED  BY <2>3, <2>9 DEF h
<1>3. QED  BY <1>1, <1>2

(* The candidates a look is about.                                           *)
LEMMA LooksAre ==
  ASSUME NEW c, NEW p \in LooksAt(c)
  PROVE  /\ p[1] \in {1, 2} => p[2] \in DOMAIN c
         /\ p[1] = 3 => p[3] \in DOMAIN c /\ p[4] \in DOMAIN c
BY DEF LooksAt

-----------------------------------------------------------------------------
\* A run starts without leads.
LEMMA PipeStarts == PipeInit => LeadsInv
<1> SUFFICES ASSUME PipeInit PROVE LeadsInv
  OBVIOUS
<1>1. PICK policy : acq = RunInit(policy)
  BY DEF PipeInit
<1>2. leads = <<>> /\ DOMAIN leads = {} /\ store = {}
  BY DEF PipeInit, NoLeads
<1>3. /\ acq.at = "discover" /\ acq.asked = <<>> /\ acq.found = <<>> /\ acq.left = {}
      /\ acq.credits = 0 /\ DOMAIN acq = AcqFields
  BY <1>1 DEF RunInit, AcqFields
<1>4. AskedInv
  BY <1>3, PlanIs DEF AskedInv
<1>5. GroupInv /\ LeadInv
  BY <1>2, <1>3 DEF GroupInv, LeadInv
<1>6. QED  BY <1>2, <1>3, <1>4, <1>5, PipeAssumption DEF LeadsInv, StoredOnce, DoubtsReachReview

\* The plan is made of constants.
LEMMA PlanStays == Queries' = Queries /\ \A i : Query(i)' = Query(i)
BY DEF Queries, Query

\* A query asked is the next of the plan; a pause forgets them all.
LEMMA SearchKeeps ==
  ASSUME LeadsInv, Ask \/ Pause
  PROVE  LeadsInv'
<1>1. /\ acq.at = "discover" /\ Len(acq.asked) < Len(Queries) /\ DOMAIN leads = {} /\ store = {}
      /\ leads' = leads /\ store' = store /\ acq.left = {} /\ DOMAIN acq = AcqFields
  BY DEF Ask, Pause, Searching, LeadsInv, LeadInv
<1>2. ASSUME acq'.at = "discover", DOMAIN acq' = AcqFields, acq'.left = {},
             acq'.credits \in Nat, acq'.credits <= Credits, AskedInv',
             acq'.found \in Seq(Candidates)
      PROVE  LeadsInv'
  <2>1. GroupInv' /\ LeadInv'
    BY <1>1, <1>2 DEF GroupInv, LeadInv
  <2>2. QED  BY <1>1, <1>2, <2>1 DEF LeadsInv, StoredOnce, DoubtsReachReview
<1>3. CASE Pause
  <2>1. /\ acq'.at = "discover" /\ acq'.asked = <<>> /\ acq'.found = <<>> /\ acq'.left = {}
        /\ acq'.credits = 0 /\ DOMAIN acq' = AcqFields
    BY <1>3 DEF Pause, RunInit, AcqFields
  <2>2. AskedInv'
    BY <2>1, PlanIs, PlanStays DEF AskedInv
  <2>3. QED  BY <1>2, <2>1, <2>2, PipeAssumption
<1>4. CASE Ask
  <2> DEFINE city == Queries[Len(acq.asked) + 1]
             nothing == [acq EXCEPT !.asked = Append(@, city)]
  <2>1. /\ acq.asked \in Seq(STRING) /\ Len(acq.asked) + 1 \in 1..Len(Queries)
        /\ \A i \in 1..Len(acq.asked) : acq.asked[i] = Query(i)
    BY <1>1 DEF LeadsInv, AskedInv
  <2>2. city = Query(Len(acq.asked) + 1) /\ city \in STRING
    BY <2>1, PlanIs
  <2>3. \/ acq' = nothing
        \/ \E f \in Finds : acq' = [nothing EXCEPT !.found = Append(@, Candidate(f, city))]
    BY <1>4 DEF Ask
  <2>4. /\ DOMAIN nothing = AcqFields /\ nothing.at = "discover" /\ nothing.left = {}
        /\ nothing.credits = acq.credits /\ nothing.found = acq.found
        /\ nothing.asked = Append(acq.asked, city)
    BY <1>1 DEF AcqFields
  <2> HIDE DEF city, nothing
  <2>5. /\ DOMAIN acq' = AcqFields /\ acq'.at = "discover" /\ acq'.left = {}
        /\ acq'.credits = acq.credits /\ acq'.asked = Append(acq.asked, city)
    BY <2>3, <2>4 DEF AcqFields
  <2>6. acq'.found \in Seq(Candidates)
    <3>1. acq.found \in Seq(Candidates)
      BY DEF LeadsInv, GroupInv
    <3>2. \A f \in Finds : Candidate(f, city) \in Candidates
      BY <2>2 DEF Candidates
    <3>3. \/ acq'.found = acq.found
          \/ \E f \in Finds : acq'.found = Append(acq.found, Candidate(f, city))
      BY <2>3, <2>4 DEF AcqFields
    <3>4. QED  BY <3>1, <3>2, <3>3
  <2>7. AskedInv'
    <3>1. /\ acq'.asked \in Seq(STRING) /\ Len(acq'.asked) = Len(acq.asked) + 1
          /\ \A i \in 1..Len(acq.asked) : acq'.asked[i] = acq.asked[i]
          /\ acq'.asked[Len(acq.asked) + 1] = city
      BY <2>1, <2>2, <2>5
    <3>2. \A i \in 1..Len(acq'.asked) : acq'.asked[i] = Query(i)
      BY <2>1, <2>2, <3>1
    <3>3. QED  BY <2>1, <2>5, <3>1, <3>2, PlanStays DEF AskedInv
  <2>8. QED  BY <1>2, <2>5, <2>6, <2>7 DEF LeadsInv
<1>5. QED  BY <1>3, <1>4

\* A look leaves the groups with one domain each.
LEMMA DedupKeeps ==
  ASSUME LeadsInv, StartDedup \/ Look
  PROVE  LeadsInv'
<1> DEFINE c == acq.found
           g == acq.groups
<1>1. /\ acq.at \in {"discover", "dedup"} /\ DOMAIN leads = {} /\ store = {}
      /\ leads' = leads /\ store' = store /\ acq.left = {} /\ DOMAIN acq = AcqFields
  BY DEF StartDedup, Look, LeadsInv, LeadInv
<1>2. ASSUME DOMAIN acq' = AcqFields, acq'.at = "dedup", acq'.asked = acq.asked, acq'.found = c,
             acq'.left = {}, acq'.credits = acq.credits, Len(acq.asked) = Len(Queries),
             acq'.groups \in [DOMAIN c -> DOMAIN c], OneDomain(c, acq'.groups),
             acq'.looks \subseteq LooksAt(c)
      PROVE  LeadsInv'
  <2>1. AskedInv'
    BY <1>2, PlanStays DEF LeadsInv, AskedInv
  <2>2. GroupInv' /\ LeadInv'
    BY <1>1, <1>2 DEF LeadsInv, GroupInv, LeadInv
  <2>3. QED  BY <1>1, <1>2, <2>1, <2>2 DEF LeadsInv, StoredOnce, DoubtsReachReview
<1>3. CASE StartDedup
  <2> DEFINE id == [k \in DOMAIN c |-> k]
  <2>1. /\ DOMAIN acq' = AcqFields /\ acq'.at = "dedup" /\ acq'.asked = acq.asked /\ acq'.found = c
        /\ acq'.left = {} /\ acq'.credits = acq.credits /\ acq'.groups = id
        /\ acq'.looks = LooksAt(c) /\ Len(acq.asked) = Len(Queries)
    BY <1>1, <1>3 DEF StartDedup, AcqFields
  <2>2. id \in [DOMAIN c -> DOMAIN c] /\ OneDomain(c, id)
    BY DEF OneDomain, OwnConflict
  <2>3. QED  BY <1>2, <2>1, <2>2
<1>4. CASE Look
  <2>1. PICK p \in acq.looks : ExactStage(c, g, p) \/ NameStage(c, g, p) \/ FuzzyStage(c, g, p)
    BY <1>4 DEF Look
  <2>2. /\ c \in Seq(Candidates) /\ g \in [DOMAIN c -> DOMAIN c] /\ OneDomain(c, g)
        /\ p \in LooksAt(c) /\ acq.looks \subseteq LooksAt(c) /\ Len(acq.asked) = Len(Queries)
    BY <1>4 DEF Look, LeadsInv, GroupInv, AskedInv
  <2> HIDE DEF c, g
  <2>3. ASSUME NEW h \in [DOMAIN c -> DOMAIN c], OneDomain(c, h), NEW doubts, Leaves(p, h, doubts)
        PROVE  LeadsInv'
    <3>1. /\ DOMAIN acq' = AcqFields /\ acq'.at = acq.at /\ acq'.asked = acq.asked
          /\ acq'.found = acq.found /\ acq'.left = acq.left /\ acq'.credits = acq.credits
          /\ acq'.groups = h /\ acq'.looks = acq.looks \ {p}
      BY <1>1, <2>3 DEF Leaves, AcqFields
    <3>2. QED  BY <1>1, <1>2, <1>4, <2>2, <2>3, <3>1 DEF Look, c
  <2>4. ASSUME NEW i \in DOMAIN c, NEW j \in DOMAIN c, NEW doubts,
               Leaves(p, g, doubts) \/ Leaves(p, Union(c, g, i, j), doubts)
        PROVE  LeadsInv'
    BY <2>2, <2>3, <2>4, UnionKeeps
  <2>5. \A i \in DOMAIN c : \A j \in 1..i : j \in DOMAIN c
    BY <2>2
  <2>6. CASE ExactStage(c, g, p)
    <3>1. p[2] \in DOMAIN c
      BY <2>2, <2>6, LooksAre DEF ExactStage
    <3>2. CASE Leaves(p, g, acq.doubts)
      BY <2>2, <2>3, <3>2
    <3>3. CASE \E j \in 1..p[2] : Leaves(p, Union(c, g, p[2], j), acq.doubts)
      BY <2>4, <2>5, <3>1, <3>3
    <3>4. QED  BY <2>6, <3>2, <3>3 DEF ExactStage
  <2>7. CASE NameStage(c, g, p)
    <3>1. p[2] \in DOMAIN c
      BY <2>2, <2>7, LooksAre DEF NameStage
    <3>2. PICK j \in 1..p[2] : \/ Leaves(p, g, acq.doubts)
                               \/ Leaves(p, Union(c, g, p[2], j), acq.doubts)
      BY <2>7 DEF NameStage
    <3>3. QED  BY <2>4, <2>5, <3>1, <3>2
  <2>8. CASE FuzzyStage(c, g, p)
    <3>1. p[3] \in DOMAIN c /\ p[4] \in DOMAIN c
      BY <2>2, <2>8, LooksAre DEF FuzzyStage
    <3>2. \E doubts : Leaves(p, g, doubts) \/ Leaves(p, Union(c, g, p[3], p[4]), doubts)
      BY <2>8 DEF FuzzyStage
    <3>3. QED  BY <2>4, <3>1, <3>2
  <2>9. QED  BY <2>1, <2>6, <2>7, <2>8
<1>5. QED  BY <1>3, <1>4

\* The leads are the groups, with their doubts.
LEMMA GroupsKeep ==
  ASSUME LeadsInv, Dedup
  PROVE  LeadsInv'
<1> DEFINE c == acq.found
           g == acq.groups
           Group(r) == {k \in DOMAIN c : g[k] = r}
<1>1. /\ acq.at = "dedup" /\ store = {} /\ store' = store /\ acq.left = {} /\ DOMAIN acq = AcqFields
  BY DEF Dedup, LeadsInv, LeadInv
<1>2. /\ DOMAIN acq' = AcqFields /\ acq'.at = "filter" /\ acq'.asked = acq.asked
      /\ acq'.found = c /\ acq'.groups = g /\ acq'.doubts = acq.doubts /\ acq'.left = {}
      /\ acq'.credits = acq.credits
  BY <1>1 DEF Dedup, AcqFields
<1>3. AskedInv' /\ GroupInv'
  BY <1>1, <1>2 DEF LeadsInv, AskedInv, GroupInv, Queries, Query
<1>4. leads' = [root \in {g[k] : k \in DOMAIN c} |-> Merged(c, Group(root), acq.doubts)]
  BY DEF Dedup
<1>5. ASSUME NEW group
      PROVE  LET l == Merged(c, group, acq.doubts)
             IN  /\ DOMAIN l = LeadFields /\ l.from = group
                 /\ Flagged(acq.doubts, group) => l.review = TRUE
  BY DEF Merged, LeadFields
<1> HIDE DEF Group
<1>6. /\ DOMAIN leads' = {g[k] : k \in DOMAIN c}
      /\ \A r \in DOMAIN leads' :
           /\ DOMAIN leads'[r] = LeadFields /\ leads'[r].from = Group(r)
           /\ Flagged(acq.doubts, Group(r)) => leads'[r].review = TRUE
  BY <1>4, <1>5
<1>7. ASSUME NEW i \in DOMAIN leads'
      PROVE  /\ DOMAIN leads'[i] = LeadFields
             /\ leads'[i].from = {k \in DOMAIN acq'.found : acq'.groups[k] = i}
             /\ Flagged(acq'.doubts, leads'[i].from) => leads'[i].review = TRUE
  <2>1. Group(i) = {k \in DOMAIN acq'.found : acq'.groups[k] = i}
    BY <1>2 DEF Group
  <2>2. QED  BY <1>2, <1>6, <2>1
<1>8. DOMAIN leads' = {acq'.groups[k] : k \in DOMAIN acq'.found}
  BY <1>2, <1>6
<1>9. LeadInv'
  BY <1>2, <1>7, <1>8 DEF LeadInv, Flagged
<1>10. QED  BY <1>1, <1>2, <1>3, <1>9 DEF LeadsInv, LateStages, StoredOnce, DoubtsReachReview

\* A later stage drops leads, or adds to what is known of them.
LEMMA LeadsKept ==
  ASSUME LeadsInv, acq.at \in LateStages, DOMAIN acq' = AcqFields,
         acq'.at \in LateStages \ {"filter"}, acq'.asked = acq.asked,
         acq'.found = acq.found, acq'.groups = acq.groups, acq'.doubts = acq.doubts,
         acq'.credits \in Nat, acq'.credits <= Credits,
         acq'.left \subseteq DOMAIN leads', DOMAIN leads' \subseteq DOMAIN leads, store' = store,
         \A i \in DOMAIN leads' : /\ DOMAIN leads'[i] = LeadFields /\ leads'[i].from = leads[i].from
                                  /\ leads[i].review = TRUE => leads'[i].review = TRUE
  PROVE  LeadsInv'
<1>1. AskedInv' /\ GroupInv'
  BY DEF LeadsInv, AskedInv, GroupInv, Queries, Query, LateStages
<1>2. ASSUME NEW i \in DOMAIN leads'
      PROVE  /\ DOMAIN leads'[i] = LeadFields
             /\ leads'[i].from = {k \in DOMAIN acq'.found : acq'.groups[k] = i}
             /\ Flagged(acq'.doubts, leads'[i].from) => leads'[i].review = TRUE
  <2>1. /\ i \in DOMAIN leads /\ leads[i].from = {k \in DOMAIN acq.found : acq.groups[k] = i}
        /\ Flagged(acq.doubts, leads[i].from) => leads[i].review = TRUE
    BY DEF LeadsInv, LeadInv
  <2>2. QED  BY <2>1
<1>3. LeadInv'
  BY <1>2 DEF LeadInv, LateStages, Flagged
<1>4. store = {} /\ store' = {}
  BY DEF LeadsInv, LateStages
<1>5. QED  BY <1>1, <1>3, <1>4 DEF LeadsInv, LateStages, StoredOnce, DoubtsReachReview

\* The lead whose turn it is goes on.
LEMMA TakeKeeps ==
  ASSUME LeadsInv, NEW from \in LateStages, NEW i \in acq.left, NEW l,
         NEW at \in LateStages \ {"filter"}, Take(from, i, l, at), from # "filter",
         DOMAIN l = LeadFields, l.from = leads[i].from, leads[i].review = TRUE => l.review = TRUE
  PROVE  LeadsInv'
<1>1. /\ acq.at = from /\ DOMAIN acq = AcqFields /\ acq.left \subseteq DOMAIN leads
      /\ acq.credits \in Nat /\ acq.credits <= Credits
      /\ \A k \in DOMAIN leads : DOMAIN leads[k] = LeadFields
  BY DEF Take, LeadsInv, LeadInv
<1>2. /\ DOMAIN acq' = AcqFields /\ acq'.at \in {from, at} /\ acq'.left \subseteq DOMAIN leads
      /\ acq'.asked = acq.asked /\ acq'.found = acq.found /\ acq'.groups = acq.groups
      /\ acq'.doubts = acq.doubts /\ acq'.credits = acq.credits
  BY <1>1 DEF Take, AcqFields
<1>3. /\ DOMAIN leads' = DOMAIN leads /\ store' = store
      /\ \A k \in DOMAIN leads : leads'[k] = IF k = i THEN l ELSE leads[k]
  BY <1>1 DEF Take
<1>4. \A k \in DOMAIN leads' : /\ DOMAIN leads'[k] = LeadFields /\ leads'[k].from = leads[k].from
                               /\ leads[k].review = TRUE => leads'[k].review = TRUE
  BY <1>1, <1>3
<1>5. QED  BY <1>1, <1>2, <1>3, <1>4, LeadsKept

\* A stage without leads to work on is over.
LEMMA SkipKeeps ==
  ASSUME LeadsInv, NEW from \in LateStages, NEW at \in LateStages \ {"filter"}, Skip(from, at)
  PROVE  LeadsInv'
<1>1. /\ acq.at = from /\ DOMAIN acq = AcqFields /\ acq.left \subseteq DOMAIN leads
      /\ acq.credits \in Nat /\ acq.credits <= Credits
      /\ \A k \in DOMAIN leads : DOMAIN leads[k] = LeadFields
  BY DEF Skip, LeadsInv, LeadInv
<1>2. /\ DOMAIN acq' = AcqFields /\ acq'.at = at /\ acq'.left = acq.left
      /\ acq'.asked = acq.asked /\ acq'.found = acq.found /\ acq'.groups = acq.groups
      /\ acq'.doubts = acq.doubts /\ acq'.credits = acq.credits
  BY <1>1 DEF Skip, AcqFields
<1>3. leads' = leads /\ store' = store
  BY DEF Skip
<1>4. QED  BY <1>1, <1>2, <1>3, LeadsKept

\* The filter drops leads.
LEMMA FilterKeeps ==
  ASSUME LeadsInv, Filter
  PROVE  LeadsInv'
<1>1. /\ acq.at = "filter" /\ DOMAIN acq = AcqFields
      /\ acq.credits \in Nat /\ acq.credits <= Credits
      /\ \A k \in DOMAIN leads : DOMAIN leads[k] = LeadFields
  BY DEF Filter, LeadsInv, LeadInv
<1>2. /\ DOMAIN acq' = AcqFields /\ acq'.at = "qualify" /\ acq'.left = DOMAIN leads'
      /\ acq'.asked = acq.asked /\ acq'.found = acq.found /\ acq'.groups = acq.groups
      /\ acq'.doubts = acq.doubts /\ acq'.credits = acq.credits
  BY <1>1 DEF Filter, AcqFields
<1>3. /\ DOMAIN leads' \subseteq DOMAIN leads /\ store' = store
      /\ \A k \in DOMAIN leads' : leads'[k] = leads[k]
  BY DEF Filter
<1>4. QED  BY <1>1, <1>2, <1>3, LeadsKept DEF LateStages

\* A verdict sets a score or asks for a review.
LEMMA QualifyKeeps ==
  ASSUME LeadsInv, QualifyLead
  PROVE  LeadsInv'
<1>1. CASE Skip("qualify", "enrich")
  BY <1>1, SkipKeeps DEF LateStages
<1>2. CASE ~Skip("qualify", "enrich")
  <2>1. PICK i \in acq.left :
          LET l == leads[i] IN
            \/ Take("qualify", i, l, "enrich")
            \/ Take("qualify", i, [l EXCEPT !.review = TRUE], "enrich")
            \/ \E s \in {40, 80} : Take("qualify", i, [l EXCEPT !.score = s], "enrich")
    BY <1>2 DEF QualifyLead
  <2>2. DOMAIN leads[i] = LeadFields
    BY DEF LeadsInv, LeadInv
  <2>3. PICK l : /\ Take("qualify", i, l, "enrich") /\ DOMAIN l = LeadFields
                 /\ l.from = leads[i].from /\ (leads[i].review = TRUE => l.review = TRUE)
    BY <2>1, <2>2 DEF LeadFields
  <2>4. QED  BY <2>3, TakeKeeps DEF LateStages
<1>3. QED  BY <1>1, <1>2

\* Verification sets a status.
LEMMA VerifyKeeps ==
  ASSUME LeadsInv, VerifyLead
  PROVE  LeadsInv'
<1>1. CASE Skip("verify", "store")
  BY <1>1, SkipKeeps DEF LateStages
<1>2. CASE ~Skip("verify", "store")
  <2>1. PICK i \in acq.left : \E s : Take("verify", i, [leads[i] EXCEPT !.status = s], "store")
    BY <1>2 DEF VerifyLead
  <2>2. DOMAIN leads[i] = LeadFields
    BY DEF LeadsInv, LeadInv
  <2>3. PICK l : /\ Take("verify", i, l, "store") /\ DOMAIN l = LeadFields
                 /\ l.from = leads[i].from /\ (leads[i].review = TRUE => l.review = TRUE)
    BY <2>1, <2>2 DEF LeadFields
  <2>4. QED  BY <2>3, TakeKeeps DEF LateStages
<1>3. QED  BY <1>1, <1>2

\* Credits are spent one by one, and only while some are left.
LEMMA EnrichKeeps ==
  ASSUME LeadsInv, Enrich
  PROVE  LeadsInv'
<1>1. /\ DOMAIN acq = AcqFields /\ acq.left \subseteq DOMAIN leads
      /\ acq.credits \in Nat /\ acq.credits <= Credits
      /\ \A k \in DOMAIN leads : DOMAIN leads[k] = LeadFields
  BY DEF LeadsInv, LeadInv
<1>2. CASE Skip("enrich", "verify")
  BY <1>2, SkipKeeps DEF LateStages
<1>3. CASE /\ acq.at = "enrich" /\ acq' = [acq EXCEPT !.at = "verify", !.left = DOMAIN leads]
           /\ UNCHANGED <<leads, store>>
  <2>1. /\ DOMAIN acq' = AcqFields /\ acq'.at = "verify" /\ acq'.left = DOMAIN leads
        /\ acq'.asked = acq.asked /\ acq'.found = acq.found /\ acq'.groups = acq.groups
        /\ acq'.doubts = acq.doubts /\ acq'.credits = acq.credits
    BY <1>1, <1>3 DEF AcqFields
  <2>2. QED  BY <1>1, <1>3, <2>1, LeadsKept DEF LateStages
<1>4. CASE /\ acq.at = "enrich" /\ Affordable
           /\ \E i \in acq.left :
                IF leads[i].dom = "none" THEN Enriched(i, leads[i], 0, 0)
                ELSE \/ \E l \in Unbought(leads[i]) : Enriched(i, l, 1, 0)
                     \/ \E l \in Bought(leads[i]) : Enriched(i, l, 1, 1)
  <2>1. PICK i \in acq.left :
          \E people, credits \in {0, 1} :
             \E l \in {leads[i]} \cup Unbought(leads[i]) \cup Bought(leads[i]) :
                Enriched(i, l, people, credits)
    BY <1>4
  <2>2. PICK people, credits \in {0, 1} :
             \E l \in {leads[i]} \cup Unbought(leads[i]) \cup Bought(leads[i]) :
                Enriched(i, l, people, credits)
    BY <2>1
  <2>3. PICK l \in {leads[i]} \cup Unbought(leads[i]) \cup Bought(leads[i]) :
                Enriched(i, l, people, credits)
    BY <2>2
  <2>4. DOMAIN leads[i] = LeadFields
    BY <1>1
  <2>5. DOMAIN l = LeadFields /\ l.from = leads[i].from /\ l.review = leads[i].review
    BY <2>3, <2>4 DEF Unbought, Bought, LeadFields
  <2>6. /\ DOMAIN acq' = AcqFields /\ acq'.at \in {"enrich", "verify"}
        /\ acq'.left \subseteq DOMAIN leads
        /\ acq'.asked = acq.asked /\ acq'.found = acq.found /\ acq'.groups = acq.groups
        /\ acq'.doubts = acq.doubts /\ acq'.credits = acq.credits + credits
    BY <1>1, <1>4, <2>3 DEF Enriched, AcqFields
  <2>7. acq'.credits \in Nat /\ acq'.credits <= Credits
    BY <1>1, <1>4, <2>6, PipeAssumption DEF Affordable
  <2>8. /\ DOMAIN leads' = DOMAIN leads /\ store' = store
        /\ \A k \in DOMAIN leads : leads'[k] = IF k = i THEN l ELSE leads[k]
    BY <1>1, <2>3 DEF Enriched
  <2>9. \A k \in DOMAIN leads' : /\ DOMAIN leads'[k] = LeadFields /\ leads'[k].from = leads[k].from
                                 /\ leads[k].review = TRUE => leads'[k].review = TRUE
    BY <1>1, <2>5, <2>8
  <2>10. QED  BY <1>4, <2>6, <2>7, <2>8, <2>9, LeadsKept DEF LateStages
<1>5. QED  BY <1>2, <1>3, <1>4 DEF Enrich

\* Each lead is stored once, and accepted only without a doubt.
LEMMA StoreKeeps ==
  ASSUME LeadsInv, StoreLeads
  PROVE  LeadsInv'
<1> DEFINE Row(i) == [leads[i] EXCEPT !.stage = StageOf(leads[i], acq.policy)]
<1>1. /\ acq.at = "store" /\ DOMAIN acq = AcqFields /\ store = {} /\ leads' = leads
      /\ \A i \in DOMAIN leads :
           /\ DOMAIN leads[i] = LeadFields
           /\ leads[i].from = {k \in DOMAIN acq.found : acq.groups[k] = i}
           /\ Flagged(acq.doubts, leads[i].from) => leads[i].review = TRUE
  BY DEF StoreLeads, LeadsInv, LeadInv
<1>2. /\ DOMAIN acq' = AcqFields /\ acq'.at = "completed" /\ acq'.left = acq.left
      /\ acq'.asked = acq.asked /\ acq'.found = acq.found /\ acq'.groups = acq.groups
      /\ acq'.doubts = acq.doubts /\ acq'.credits = acq.credits /\ acq'.policy = acq.policy
  BY <1>1 DEF StoreLeads, AcqFields
<1>3. AskedInv' /\ GroupInv'
  BY <1>1, <1>2, PlanStays DEF LeadsInv, AskedInv, GroupInv
<1>4. LeadInv'
  BY <1>1, <1>2 DEF LeadsInv, LeadInv, Flagged
<1>5. \A l \in store' : \E i \in DOMAIN leads : l = Row(i)
  <2>1. store' = {[l EXCEPT !.stage = StageOf(l, acq.policy)] :
                    l \in {leads[i] : i \in DOMAIN leads}}
    BY <1>1 DEF StoreLeads
  <2>2. QED  BY <2>1, Zenon
<1>6. \A i \in DOMAIN leads :
        /\ Row(i).from = leads[i].from /\ Row(i).stage = StageOf(leads[i], acq.policy)
        /\ Row(i).status = leads[i].status /\ Row(i).email = leads[i].email
        /\ Row(i).phone = leads[i].phone
  BY <1>1 DEF LeadFields
<1> HIDE DEF Row
<1>7. StoredOnce'
  <2>1. \A i, j \in DOMAIN leads : leads[i].from \cap leads[j].from # {} => i = j
    BY <1>1
  <2>2. QED  BY <1>5, <1>6, <2>1 DEF StoredOnce
<1>8. ASSUME NEW i \in DOMAIN leads, StageOf(leads[i], acq.policy) = "ACCEPTED"
      PROVE  /\ \A d \in acq.doubts : d \cap leads[i].from = {}
             /\ leads[i].status # "INVALID"
             /\ \A t \in DataTypes(leads[i]) :
                  t \in acq.policy.known \ (acq.policy.barred \cup acq.policy.review)
  <2>1. /\ Storable(leads[i], acq.policy) /\ leads[i].review # TRUE
        /\ ~Doubtful(leads[i], acq.policy) /\ leads[i].status # "INVALID"
    BY <1>8 DEF StageOf
  <2>2. \A d \in acq.doubts : d \cap leads[i].from = {}
    BY <1>1, <2>1 DEF Flagged
  <2>3. QED  BY <2>1, <2>2 DEF Storable, Doubtful
<1>9. DoubtsReachReview'
  <2>1. ASSUME NEW l \in store', l.stage = "ACCEPTED"
        PROVE  /\ \A d \in acq'.doubts : d \cap l.from = {}
               /\ l.status # "INVALID"
               /\ \A t \in DataTypes(l) :
                    t \in acq'.policy.known \ (acq'.policy.barred \cup acq'.policy.review)
    <3>1. PICK i \in DOMAIN leads : l = Row(i)
      BY <1>5
    <3>2. DataTypes(l) = DataTypes(leads[i])
      BY <1>6, <3>1 DEF DataTypes
    <3>3. QED  BY <1>2, <1>6, <1>8, <2>1, <3>1, <3>2
  <2>2. QED  BY <2>1 DEF DoubtsReachReview, DataTypes
<1>10. QED  BY <1>2, <1>3, <1>4, <1>7, <1>9 DEF LeadsInv

\* Groups are sound, doubts are looked at by a person, and a budget with room for
\* every city reaches every city: for any cities, finds, policies and budgets.
THEOREM LeadsStaySound == PipeSpec => []LeadsAreSound
<1>1. PipeInit => LeadsInv
  BY PipeStarts
<1>2. LeadsInv /\ [PipeNext]_pipeVars => LeadsInv'
  <2> SUFFICES ASSUME LeadsInv, [PipeNext]_pipeVars PROVE LeadsInv'
    OBVIOUS
  <2>1. CASE UNCHANGED pipeVars
    BY <2>1, PlanStays DEF pipeVars, LeadsInv, AskedInv, GroupInv, LeadInv, Flagged, StoredOnce,
       DoubtsReachReview, DataTypes
  <2>2. QED  BY <2>1, SearchKeeps, DedupKeeps, GroupsKeep, FilterKeeps, QualifyKeeps, EnrichKeeps,
             VerifyKeeps, StoreKeeps DEF PipeNext
<1>3. LeadsInv => LeadsAreSound
  <2> SUFFICES ASSUME LeadsInv PROVE LeadsAreSound
    OBVIOUS
  <2>1. GroupsAreSound
    <3>1. \A i \in DOMAIN leads : leads[i].from = {k \in DOMAIN acq.found : acq.groups[k] = i}
      BY DEF LeadsInv, LeadInv
    <3>2. \A i, j \in DOMAIN leads : i # j => leads[i].from \cap leads[j].from = {}
      BY <3>1
    <3>3. acq.at = "filter" => UNION {leads[i].from : i \in DOMAIN leads} = DOMAIN acq.found
      <4>1. SUFFICES ASSUME acq.at = "filter"
                     PROVE  UNION {leads[i].from : i \in DOMAIN leads} = DOMAIN acq.found
        OBVIOUS
      <4>2. \A k \in DOMAIN acq.found : acq.groups[k] \in DOMAIN leads
        BY <4>1 DEF LeadsInv, LeadInv
      <4>3. QED  BY <3>1, <4>2
    <3>4. ASSUME NEW i \in DOMAIN leads, NEW k \in leads[i].from, NEW l \in leads[i].from
          PROVE  ~OwnConflict(acq.found, k, l)
      <4>1. OneDomain(acq.found, acq.groups)
        BY DEF LeadsInv, LeadInv, GroupInv
      <4>2. QED  BY <3>1, <4>1 DEF OneDomain
    <3>5. QED  BY <3>2, <3>3, <3>4 DEF GroupsAreSound
  <2>2. BudgetIsSpread
    <3>1. ASSUME acq.at # "discover", MaxQueries >= Len(Cities), Keywords > 0
          PROVE  {acq.asked[i] : i \in DOMAIN acq.asked} = {Cities[i] : i \in DOMAIN Cities}
      <4>1. /\ acq.asked \in Seq(STRING) /\ Len(acq.asked) = Len(Queries)
            /\ \A i \in 1..Len(acq.asked) : acq.asked[i] = Query(i)
        BY <3>1 DEF LeadsInv, AskedInv
      <4>2. DOMAIN acq.asked = 1..Len(Queries) /\ DOMAIN Cities = 1..Len(Cities)
        BY <4>1, PipeAssumption
      <4>3. \A n \in 1..Len(Cities) : n \in 1..Len(Queries) /\ Query(n) = Cities[n]
        BY <3>1, PlanIs
      <4>4. \A i \in 1..Len(Queries) : \E n \in 1..Len(Cities) : Query(i) = Cities[n]
        BY PlanIs
      <4>5. \A i \in DOMAIN acq.asked : \E n \in DOMAIN Cities : acq.asked[i] = Cities[n]
        BY <4>1, <4>2, <4>4
      <4>6. \A n \in DOMAIN Cities : \E i \in DOMAIN acq.asked : acq.asked[i] = Cities[n]
        BY <4>1, <4>2, <4>3
      <4>7. QED  BY <4>5, <4>6
    <3>2. QED  BY <3>1 DEF BudgetIsSpread, LeadsInv, StoredOnce
  <2>3. QED  BY <2>1, <2>2 DEF LeadsAreSound, LeadsInv
<1>4. QED  BY <1>1, <1>2, <1>3, PTL DEF PipeSpec

=============================================================================
