---------------------------- MODULE JobLifecycle ----------------------------
(***************************************************************************)
(* What the job runtime promises whoever enqueues a job, without leases,    *)
(* workers, clocks or cancellation: a job waits, runs in one epoch at a     *)
(* time, gains one unit of progress at a time while it runs and only then,  *)
(* and is released by whoever runs it.  A running job may come into doubt,  *)
(* when its worker seems to be dead; whoever doubts jobs may settle them,   *)
(* several in one step, and does so even if they have gone on meanwhile:    *)
(* that is the only way a job that is done can be put back.                 *)
(***************************************************************************)
EXTENDS Naturals

CONSTANT Jobs

VARIABLES
  phase,     \* absent, waiting, running or done
  epoch,     \* how many times the job was started
  progress,  \* units of work recorded
  doubted    \* the jobs whose worker is taken for dead

vars == <<phase, epoch, progress, doubted>>

Init ==
  /\ phase = [j \in Jobs |-> "absent"]
  /\ epoch = [j \in Jobs |-> 0]
  /\ progress = [j \in Jobs |-> 0]
  /\ doubted = {}

Create(j) ==
  /\ phase[j] = "absent"
  /\ phase' = [phase EXCEPT ![j] = "waiting"]
  /\ UNCHANGED <<epoch, progress, doubted>>

Start(j) ==
  /\ phase[j] = "waiting"
  /\ phase' = [phase EXCEPT ![j] = "running"]
  /\ epoch' = [epoch EXCEPT ![j] = @ + 1]
  /\ UNCHANGED <<progress, doubted>>

Advance(j) ==
  /\ phase[j] = "running"
  /\ progress' = [progress EXCEPT ![j] = @ + 1]
  /\ UNCHANGED <<phase, epoch, doubted>>

Release(j) ==
  /\ phase[j] = "running"
  /\ \E p \in {"waiting", "done"} : phase' = [phase EXCEPT ![j] = p]
  /\ UNCHANGED <<epoch, progress, doubted>>

\* Only running jobs come into doubt; a doubt may be dropped.
Doubt ==
  /\ doubted' \in SUBSET (doubted \union {j \in Jobs : phase[j] = "running"})
  /\ UNCHANGED <<phase, epoch, progress>>

\* The jobs of back go back to waiting, those of finished are done.
Settle(back, finished) ==
  /\ back \union finished \subseteq doubted
  /\ phase' = [j \in Jobs |-> IF j \in finished THEN "done"
                              ELSE IF j \in back THEN "waiting" ELSE phase[j]]
  /\ doubted' \in SUBSET doubted
  /\ UNCHANGED <<epoch, progress>>

Next ==
  \/ \E j \in Jobs : Create(j) \/ Start(j) \/ Advance(j) \/ Release(j)
  \/ Doubt
  \/ \E back, finished \in SUBSET Jobs : Settle(back, finished)

Spec == Init /\ [][Next]_vars

=============================================================================
