------------------------- MODULE UnfencedLifecycle -------------------------
(***************************************************************************)
(* What is left of JobLifecycle when a lease has an expiry and no token:   *)
(* what the job queue of lead_engine promises, without rows, ticks, clocks *)
(* or calls of users.  A worker takes a waiting job that nobody holds, or  *)
(* one of which a lease ran out under its worker; every taking is counted, *)
(* only a holder delivers, and nothing delivered is lost.  A yielded slice *)
(* gives its taking back.  Anybody may move a job, but not give it up      *)
(* before its takings are used up.                                         *)
(***************************************************************************)
EXTENDS Integers, FiniteSets

CONSTANTS Jobs, Workers, MaxAttempts, Results

VARIABLES
  phase,     \* absent, waiting, out (taken, parked or over) or given up
  holders,   \* the workers that are at a job
  overrun,   \* a lease of the job ran out under a worker
  attempts,  \* takings that were counted and not given back
  delivered  \* what the holders delivered

vars == <<phase, holders, overrun, attempts, delivered>>

LifePhases == {"absent", "waiting", "out", "given up"}

Init ==
  /\ phase = [j \in Jobs |-> "absent"]
  /\ holders = [j \in Jobs |-> {}]
  /\ overrun = [j \in Jobs |-> FALSE]
  /\ attempts = [j \in Jobs |-> 0]
  /\ delivered = [j \in Jobs |-> {}]

Create(j) ==
  /\ phase[j] = "absent"
  /\ phase' = [phase EXCEPT ![j] = "waiting"]
  /\ UNCHANGED <<holders, overrun, attempts, delivered>>

Take(w, j) ==
  /\ phase[j] = "waiting" /\ attempts[j] < MaxAttempts
  /\ holders[j] = {} \/ overrun[j]
  /\ \A k \in Jobs : w \notin holders[k]
  /\ phase' = [phase EXCEPT ![j] = "out"]
  /\ holders' = [holders EXCEPT ![j] = @ \cup {w}]
  /\ attempts' = [attempts EXCEPT ![j] = @ + 1]
  /\ UNCHANGED <<overrun, delivered>>

Deliver(w, j) ==
  /\ w \in holders[j]
  /\ \E new \in SUBSET Results : delivered' = [delivered EXCEPT ![j] = @ \cup new]
  /\ UNCHANGED <<phase, holders, overrun, attempts>>

\* A job that was created can be turned anywhere, and is given up when its
\* takings are used up, or when nobody can tell any more whose they are.
MayTurn(j, p) ==
  \/ p = phase[j]
  \/ /\ phase[j] # "absent" /\ p \in LifePhases \ {"absent"}
     /\ p = "given up" => attempts[j] = MaxAttempts \/ overrun[j]

\* The taking is given back with the job, if at all.
Leave(w, j) ==
  /\ w \in holders[j]
  /\ holders' = [holders EXCEPT ![j] = @ \ {w}]
  /\ \E p \in LifePhases : MayTurn(j, p) /\ phase' = [phase EXCEPT ![j] = p]
  /\ \/ UNCHANGED attempts
     \/ /\ phase'[j] = "waiting" /\ attempts[j] > 0
        /\ attempts' = [attempts EXCEPT ![j] = @ - 1]
  /\ UNCHANGED <<overrun, delivered>>

\* Users, reapers and the runs themselves; a reaper works in batches.
Turn ==
  /\ phase' \in [Jobs -> LifePhases]
  /\ \A j \in Jobs : MayTurn(j, phase'[j])
  /\ UNCHANGED <<holders, overrun, attempts, delivered>>

Overrun(j) ==
  /\ holders[j] # {}
  /\ overrun' = [overrun EXCEPT ![j] = TRUE]
  /\ UNCHANGED <<phase, holders, attempts, delivered>>

Next ==
  \/ \E j \in Jobs : Create(j) \/ Overrun(j)
  \/ \E w \in Workers, j \in Jobs : Take(w, j) \/ Deliver(w, j) \/ Leave(w, j)
  \/ Turn

Spec == Init /\ [][Next]_vars

=============================================================================
