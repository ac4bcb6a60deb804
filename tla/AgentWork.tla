----------------------------- MODULE AgentWork -----------------------------
(***************************************************************************)
(* What the agents of lead_engine leave behind: their runs (agent_runs),   *)
(* the approvals they ask for, and the code patches that are applied to a  *)
(* git checkout once approved (codeops.py).  One file stands for the tree; *)
(* its content is the name of the patch that wrote it.                     *)
(***************************************************************************)
EXTENDS Naturals

CONSTANTS
    Runs,      \* agent runs of one research job
    Slices,    \* workers that can be at a slice of it; two, once a lease lapsed
    Patches,   \* approvals that hold a code patch
    Operators, \* API calls in flight
    MaxCalls   \* bound: calls of apply and revert

ASSUME AgentAssumption ==
    /\ "none" \notin Runs
    /\ {"none", "old"} \cap Patches = {}

VARIABLES
    run,       \* rows of agent_runs
    job,       \* its row of research_context, and `lost`: runs that nobody named, or
               \* that were named over by a slice that had not seen them
    slice,     \* what a worker at a slice of the job holds
    approval,  \* rows of approvals: status, and the payload of a patch
    tree,      \* branch tips, checked out branch, working copy
    call,      \* what a call of apply or revert holds
    calls

runVars == <<run, job, slice>>
patchVars == <<approval, tree, call, calls>>
agentVars == <<runVars, patchVars>>

Away == [at |-> "between", saw |-> "none", run |-> "none"]
Free == [pc |-> "idle", patch |-> "none", base |-> "none", undo |-> "none"]
Branches == {"main"} \cup Patches

AgentInit ==
    /\ run = [r \in Runs |-> [status |-> "none", old |-> FALSE]]
    /\ job = [run |-> "none", lost |-> {}]
    /\ slice = [w \in Slices |-> Away]
    /\ approval = [p \in Patches |-> [status |-> "none", from |-> "none",
                                       base |-> "none", undo |-> "none"]]
    /\ tree = [tip |-> [b \in Branches |-> IF b = "main" THEN "old" ELSE "none"],
               head |-> "main", work |-> "old"]
    /\ call = [o \in Operators |-> Free] /\ calls = 0

(***************************************************************************)
(* Runs.  A research job works in slices, days apart when it waits, and    *)
(* all of them use one run; updated_at is written when it begins and ends. *)
(***************************************************************************)

SliceAt(w, m) == slice' = [slice EXCEPT ![w] = m]

\* Mutant of Reuses: a slice always opens a run.
ReusesNone(r) == FALSE

Reuses(r) == r # "none" /\ run[r].status = "RUNNING"

\* _ensure_agent_run is four statements: the context is read, then the status of
\* the run it names, ...
ReadContext(w) ==
    /\ slice[w].at = "between"
    /\ SliceAt(w, [Away EXCEPT !.at = "looking", !.saw = job.run])
    /\ UNCHANGED <<run, job>>

CheckRun(w) ==
    LET m == slice[w] IN
    /\ m.at = "looking"
    /\ SliceAt(w, IF Reuses(m.saw) THEN [Away EXCEPT !.at = "slice", !.run = m.saw]
                                   ELSE [m EXCEPT !.at = "opening"])
    /\ UNCHANGED <<run, job>>

\* ... then, unless that is RUNNING, a run is inserted and the context names it.
CreateRun(w) ==
    /\ slice[w].at = "opening"
    /\ \E r \in Runs :
         /\ run[r].status = "none"
         /\ run' = [run EXCEPT ![r].status = "RUNNING"]
         /\ SliceAt(w, [slice[w] EXCEPT !.at = "naming", !.run = r])
    /\ UNCHANGED job

NameRun(w) ==
    LET m == slice[w] IN
    /\ m.at = "naming" /\ SliceAt(w, [Away EXCEPT !.at = "slice", !.run = m.run])
    /\ job' = [job EXCEPT !.run = m.run,
                 !.lost = IF job.run = m.saw THEN @ ELSE @ \cup {job.run}]
    /\ UNCHANGED run

\* The slice yields, or the job waits for its user or for capacity.
EndSlice(w) ==
    /\ slice[w].at = "slice" /\ SliceAt(w, Away) /\ UNCHANGED <<run, job>>

\* The process is killed.
SliceDies(w) ==
    /\ slice[w].at # "between" /\ SliceAt(w, Away)
    /\ job' = [job EXCEPT !.lost = IF slice[w].at = "naming" THEN @ \cup {slice[w].run} ELSE @]
    /\ UNCHANGED run

\* finish_run writes by run id, whatever the status is.
FinishRun(w) ==
    /\ slice[w].at = "slice" /\ SliceAt(w, Away) /\ UNCHANGED job
    /\ \E s \in {"COMPLETED", "FAILED"} :
         run' = [run EXCEPT ![slice[w].run].status = s, ![slice[w].run].old = FALSE]

DayPasses ==
    /\ run' = [r \in Runs |-> [run[r] EXCEPT !.old = run[r].status = "RUNNING"]]
    /\ UNCHANGED <<job, slice>>

Reapable(r) == run[r].status = "RUNNING" /\ run[r].old

ReclaimStaleRuns ==
    /\ \E r \in Runs : Reapable(r)
    /\ run' = [r \in Runs |-> IF Reapable(r) THEN [run[r] EXCEPT !.status = "FAILED"]
                              ELSE run[r]]
    /\ UNCHANGED <<job, slice>>

RunsNext ==
    /\ \/ \E w \in Slices :
            \/ ReadContext(w) \/ CheckRun(w) \/ CreateRun(w) \/ NameRun(w)
            \/ EndSlice(w) \/ SliceDies(w) \/ FinishRun(w)
       \/ DayPasses \/ ReclaimStaleRuns
    /\ UNCHANGED patchVars

(***************************************************************************)
(* Approvals and patches.                                                  *)
(***************************************************************************)

\* An edit that changes nothing is refused; `from` is what it was made from.
ProposePatch(p) ==
    /\ approval[p].status = "none" /\ tree.work # p
    /\ approval' = [approval EXCEPT ![p].status = "PENDING", ![p].from = tree.work]
    /\ UNCHANGED <<tree, call, calls>>

ResolveApproval(p, s) ==
    /\ approval[p].status = "PENDING"
    /\ approval' = [approval EXCEPT ![p].status = s]
    /\ UNCHANGED <<tree, call, calls>>

CallAt(o, r) == call' = [call EXCEPT ![o] = r]

\* Mutant of MayApply: a row that was not rejected will do.
MayApplyPending(p) == approval[p].status \in {"PENDING", "APPROVED"} /\ tree.work # p

MayApply(p) == approval[p].status = "APPROVED" /\ tree.work # p

\* The status and the tree are read: an edit is valid unless it is a no-op.
ApplyPatch(o, p) ==
    /\ call[o].pc = "idle" /\ MayApply(p) /\ calls < MaxCalls /\ calls' = calls + 1
    /\ CallAt(o, [pc |-> "branch", patch |-> p, base |-> tree.head, undo |-> tree.work])
    /\ UNCHANGED <<approval, tree>>

\* git checkout -b: the branch must be new, the working copy comes along.
CheckoutBranch(o) ==
    LET m == call[o] IN
    /\ m.pc = "branch"
    /\ \/ m.base = m.patch /\ CallAt(o, [m EXCEPT !.pc = "write"]) /\ UNCHANGED tree
       \/ /\ m.base # m.patch /\ tree.tip[m.patch] = "none"
          /\ CallAt(o, [m EXCEPT !.pc = "write"])
          /\ tree' = [tree EXCEPT !.tip[m.patch] = tree.tip[tree.head], !.head = m.patch]
       \/ /\ m.base # m.patch /\ tree.tip[m.patch] # "none"
          /\ CallAt(o, Free) /\ UNCHANGED tree
    /\ UNCHANGED <<approval, calls>>

\* The backup is a copy of the file as it is now.
WriteFiles(o) ==
    /\ call[o].pc = "write"
    /\ CallAt(o, [call[o] EXCEPT !.pc = "commit", !.undo = tree.work])
    /\ tree' = [tree EXCEPT !.work = call[o].patch]
    /\ UNCHANGED <<approval, calls>>

\* git add and git commit, on the branch that is checked out by then; a failure
\* is a note.
CommitFiles(o) ==
    /\ call[o].pc = "commit" /\ CallAt(o, [call[o] EXCEPT !.pc = "record"])
    /\ tree' \in {tree, [tree EXCEPT !.tip[tree.head] = tree.work]}
    /\ UNCHANGED <<approval, calls>>

RecordResult(o) ==
    LET m == call[o] IN
    /\ m.pc = "record" /\ CallAt(o, Free)
    /\ approval' = [approval EXCEPT ![m.patch].undo = m.undo, ![m.patch].base = m.base]
    /\ UNCHANGED <<tree, calls>>

\* revert_patch restores the backup, then checks the base branch out, which git
\* refuses when the restored file would be overwritten.
RevertPatch(o, p) ==
    /\ call[o].pc = "idle" /\ approval[p].undo # "none"
    /\ calls < MaxCalls /\ calls' = calls + 1
    /\ CallAt(o, [Free EXCEPT !.pc = "return", !.patch = p, !.base = approval[p].base])
    /\ tree' = [tree EXCEPT !.work = approval[p].undo]
    /\ UNCHANGED approval

Switched(b) ==
    IF tree.tip[b] = tree.tip[tree.head] THEN [tree EXCEPT !.head = b]
    ELSE IF tree.work = tree.tip[tree.head]
         THEN [tree EXCEPT !.head = b, !.work = tree.tip[b]] ELSE tree

ReturnToBase(o) ==
    /\ call[o].pc = "return" /\ CallAt(o, Free)
    /\ tree' = Switched(call[o].base) /\ UNCHANGED <<approval, calls>>

CallDies(o) ==
    /\ call[o].pc # "idle" /\ CallAt(o, Free) /\ UNCHANGED <<approval, tree, calls>>

\* The undo that apply_patch names in its answer.
OperatorUndo == tree' = Switched("main") /\ UNCHANGED <<approval, call, calls>>

PatchesNext ==
    /\ \/ \E p \in Patches :
            ProposePatch(p) \/ \E s \in {"APPROVED", "REJECTED"} : ResolveApproval(p, s)
       \/ \E o \in Operators :
            \/ CheckoutBranch(o) \/ WriteFiles(o) \/ CommitFiles(o) \/ RecordResult(o)
            \/ ReturnToBase(o) \/ CallDies(o)
            \/ \E p \in Patches : ApplyPatch(o, p) \/ RevertPatch(o, p)
       \/ OperatorUndo
    /\ UNCHANGED runVars

AgentNext == RunsNext \/ PatchesNext
AgentSpec == AgentInit /\ [][AgentNext]_agentVars

(***************************************************************************)
(* Properties.                                                             *)
(***************************************************************************)

\* Nothing a model proposed is on disk or in a commit before it was approved,
\* in whatever order patches are applied and reverted (codeops.py:433-435).
OnlyApprovedOnDisk ==
    \A p \in Patches :
      (p = tree.work \/ \E b \in Branches : tree.tip[b] = p)
        => approval[p].status = "APPROVED"

UnderWay == {r \in Runs : run[r].status = "RUNNING"}
Naming == {w \in Slices : slice[w].at = "naming"}

\* A job's runs are not one by a lock: it has another under way, beside the one
\* its context names, only where a slice died between the insert of its run and
\* the update, or named one over that another slice had opened since it looked;
\* and a slice opens none beside the one it saw (orchestrator.py:489-508).
OneRunUnderWay ==
    /\ UnderWay \subseteq {job.run} \cup job.lost \cup {slice[w].run : w \in Naming}
    /\ \A w \in Naming : slice[w].saw = job.run => job.run \notin UnderWay

\* Not so, for a run is reaped by its age alone. agent_registry.py:218-220: what
\* is reaped has nobody to finish it.
ReapedAreDead ==
    [][\A r \in Runs :
         run[r].status = "RUNNING" /\ run'[r].status = "FAILED" /\ run[r].old
           => \A w \in Slices : slice[w].run # r]_agentVars

\* Not so, for calls share the checkout. codeops.py:492: a patch never touches main.
MainUntouched == tree.tip["main"] \notin Patches

\* Not so, for an edit is refused only where it changes nothing.
\* codeops.py:508-509: a patch is not applied to a tree that has moved on.
NoStaleApply ==
    [][\A o \in Operators :
         call[o].pc = "idle" /\ call'[o].pc = "branch"
           => tree.work = approval[call'[o].patch].from]_agentVars

\* Not so, for git may refuse the checkout. codeops.py:586: a revert returns to
\* the base branch.
RevertReturns ==
    [][\A o \in Operators :
         call[o].pc = "return" /\ call'[o].pc = "idle" => tree'.head = call[o].base]_agentVars

\* What is left to an agent without a person: no change of the code that was not
\* approved, no second run of a job but by an accident of its slices.
AgentsAreHeld == OnlyApprovedOnDisk /\ OneRunUnderWay

=============================================================================
