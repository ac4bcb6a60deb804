--------------------------- MODULE ServicesProofs ---------------------------
(***************************************************************************)
(* Theorems about the services around the two job runtimes, for every      *)
(* number of actors: AgentWork, LegacyRouter, Guards, Admission, Intake,   *)
(* TruthLayer, Accounts and Sentinel.  Each service has an invariant of    *)
(* its own; they share no state.                                           *)
(***************************************************************************)
EXTENDS AgentWork, LegacyRouter, Guards, Admission, Intake, TruthLayer, Accounts,
        Sentinel, Integers, FiniteSetTheorems, TLAPS

-----------------------------------------------------------------------------
(* AgentWork: the runs of a job, and the patches on the tree.                *)

RunEnds == {"none", "RUNNING", "COMPLETED", "FAILED"}
RunRows == [status : RunEnds, old : BOOLEAN]
SliceRows == [at : {"between", "looking", "opening", "naming", "slice"},
              saw : Runs \cup {"none"}, run : Runs \cup {"none"}]

RunTypeOK ==
    /\ run \in [Runs -> RunRows]
    /\ job \in [run : Runs \cup {"none"}, lost : SUBSET (Runs \cup {"none"})]
    /\ slice \in [Slices -> SliceRows]

\* What a slice that found no run under way has seen stays so, and what it opens
\* is not what it saw.
SliceHeld(m) ==
    /\ m.at \in {"naming", "slice"} => m.run \in Runs
    /\ m.at \in {"opening", "naming"} => ~Reuses(m.saw)
    /\ m.saw \in Runs => run[m.saw].status # "none"

Owned(r) == r = job.run \/ r \in job.lost \/ \E w \in Naming : slice[w].run = r

RunHeld ==
    /\ RunTypeOK
    /\ job.run \in Runs => run[job.run].status # "none"
    /\ \A w \in Slices :
         /\ SliceHeld(slice[w])
         /\ slice[w].at \in {"naming", "slice"} => run[slice[w].run].status # "none"
    /\ \A r \in UnderWay : Owned(r)

Contents == Patches \cup {"none", "old"}
Holding == {"branch", "write", "commit", "record"}
Approvals == [status : {"none", "PENDING", "APPROVED", "REJECTED"}, from : Contents,
              base : Branches \cup {"none"}, undo : Contents]
Trees == [tip : [Branches -> Contents], head : Branches, work : Contents]
CallRows == [pc : Holding \cup {"idle", "return"}, patch : Patches \cup {"none"},
          base : Branches \cup {"none"}, undo : Contents]

PatchTypeOK ==
    /\ approval \in [Patches -> Approvals]
    /\ tree \in Trees
    /\ call \in [Operators -> CallRows]

\* A content is not a patch that nobody approved.
Approved(x) == x \in Patches => approval[x].status = "APPROVED"

\* Everything that can reach the disk was approved: the tree, the backups in the
\* rows and in the calls, and what the calls are about to write.
PatchesHeld ==
    /\ PatchTypeOK
    /\ Approved(tree.work) /\ \A b \in Branches : Approved(tree.tip[b])
    /\ \A p \in Patches :
         /\ Approved(approval[p].undo)
         /\ approval[p].undo # "none" => approval[p].base \in Branches
    /\ \A o \in Operators :
         /\ Approved(call[o].undo)
         /\ call[o].pc \in Holding => /\ call[o].patch \in Patches /\ Approved(call[o].patch)
                                      /\ call[o].base \in Branches
         /\ call[o].pc = "return" => call[o].base \in Branches

(* A step that moves one slice: what it leaves alone stays held.             *)
LEMMA SliceMoves ==
  ASSUME RunHeld, NEW w \in Slices, NEW m \in SliceRows, SliceAt(w, m),
         run' \in [Runs -> RunRows], job' \in [run : Runs \cup {"none"},
                                             lost : SUBSET (Runs \cup {"none"})],
         \A r \in Runs : run[r].status # "none" =>
           /\ run'[r].status # "none"
           /\ run'[r].status = "RUNNING" => run[r].status = "RUNNING",
         job'.run \in Runs => run'[job'.run].status # "none",
         m.at \in {"naming", "slice"} => m.run \in Runs /\ run'[m.run].status # "none",
         m.at \in {"opening", "naming"} /\ m.saw # "none" => run'[m.saw].status # "RUNNING",
         m.saw \in Runs => run'[m.saw].status # "none",
         \A r \in Runs : run'[r].status = "RUNNING" =>
           \/ r \in {job'.run} \cup job'.lost \/ (m.at = "naming" /\ m.run = r)
           \/ \E v \in Naming \ {w} : slice[v].run = r
  PROVE  RunHeld'
<1>1. slice' \in [Slices -> SliceRows] /\ slice'[w] = m /\ \A v \in Slices \ {w} : slice'[v] = slice[v]
  BY DEF RunHeld, RunTypeOK, SliceAt
<1>2. RunTypeOK'
  BY <1>1 DEF RunTypeOK
<1>3. ASSUME NEW v \in Slices
      PROVE  /\ SliceHeld(slice[v])'
             /\ slice'[v].at \in {"naming", "slice"} => run'[slice'[v].run].status # "none"
  <2>1. CASE v = w
    BY <1>1, <2>1 DEF SliceHeld, Reuses
  <2>2. CASE v # w
    <3>1. slice'[v] = slice[v] /\ slice[v] \in SliceRows
      BY <1>1, <2>2 DEF RunHeld, RunTypeOK
    <3>2. /\ SliceHeld(slice[v])
          /\ slice[v].at \in {"naming", "slice"} => run[slice[v].run].status # "none"
      BY DEF RunHeld
    <3>3. slice[v].saw = "none" \/ slice[v].saw \in Runs
      BY <3>1 DEF SliceRows
    <3>4. QED  BY <3>1, <3>2, <3>3 DEF SliceHeld, Reuses
  <2>3. QED  BY <2>1, <2>2
<1>4. ASSUME NEW r \in Runs, run'[r].status = "RUNNING"
      PROVE  Owned(r)'
  <2>1. ASSUME NEW v \in Naming \ {w}, slice[v].run = r
        PROVE  \E u \in Slices : slice'[u].at = "naming" /\ slice'[u].run = r
    BY <1>1, <2>1 DEF Naming
  <2>2. ASSUME m.at = "naming", m.run = r
        PROVE  \E u \in Slices : slice'[u].at = "naming" /\ slice'[u].run = r
    BY <1>1, <2>2
  <2>3. QED  BY <1>4, <2>1, <2>2 DEF Owned, Naming
<1>5. QED
  BY <1>2, <1>3, <1>4 DEF RunHeld, UnderWay, SliceHeld, Reuses, Owned

(* A slice opens a run only where the one it saw has ended, and names it.    *)
LEMMA OpeningStep ==
  ASSUME RunHeld, NEW w \in Slices,
         ReadContext(w) \/ CheckRun(w) \/ CreateRun(w) \/ NameRun(w)
  PROVE  RunHeld'
<1> USE AgentAssumption
<1>1. PICK m \in SliceRows : m = slice[w] /\ SliceHeld(m)
  BY DEF RunHeld, RunTypeOK
<1>2. /\ job \in [run : Runs \cup {"none"}, lost : SUBSET (Runs \cup {"none"})]
      /\ run \in [Runs -> RunRows]
      /\ job.run \in Runs => run[job.run].status # "none"
  BY DEF RunHeld, RunTypeOK
<1>3. \A r \in Runs : run[r].status = "RUNNING" =>
        \/ r \in {job.run} \cup job.lost \/ (m.at = "naming" /\ m.run = r)
        \/ \E v \in Naming \ {w} : slice[v].run = r
  BY <1>1 DEF RunHeld, UnderWay, Owned, Naming
<1>4. CASE ReadContext(w)
  <2>1. PICK n : n = [Away EXCEPT !.at = "looking", !.saw = job.run]
    OBVIOUS
  <2>2. n \in SliceRows /\ n.at = "looking" /\ n.saw = job.run
    BY <1>2, <2>1 DEF Away, SliceRows
  <2>3. SliceAt(w, n) /\ m.at # "naming" /\ UNCHANGED <<run, job>>
    BY <1>1, <1>4, <2>1 DEF ReadContext
  <2>4. QED  BY <1>2, <1>3, <2>2, <2>3, SliceMoves
<1>5. CASE CheckRun(w)
  <2>1. m.at = "looking" /\ UNCHANGED <<run, job>>
    BY <1>1, <1>5 DEF CheckRun
  <2>2. CASE Reuses(m.saw)
    <3>1. PICK n : n = [Away EXCEPT !.at = "slice", !.run = m.saw]
      OBVIOUS
    <3>2. n \in SliceRows /\ n.at = "slice" /\ n.run = m.saw /\ n.saw = "none" /\ m.saw \in Runs
      BY <2>2, <3>1 DEF Away, SliceRows, Reuses
    <3>3. SliceAt(w, n)
      BY <1>1, <1>5, <2>2, <3>1 DEF CheckRun
    <3>4. run[m.saw].status # "none"
      BY <1>1, <3>2 DEF SliceHeld
    <3>5. QED  BY <1>2, <1>3, <2>1, <3>2, <3>3, <3>4, SliceMoves
  <2>3. CASE ~Reuses(m.saw)
    <3>1. PICK n : n = [m EXCEPT !.at = "opening"]
      OBVIOUS
    <3>2. n \in SliceRows /\ n.at = "opening" /\ n.saw = m.saw
      BY <3>1 DEF SliceRows
    <3>3. SliceAt(w, n)
      BY <1>1, <1>5, <2>3, <3>1 DEF CheckRun
    <3>4. QED  BY <1>1, <1>2, <1>3, <2>1, <2>3, <3>2, <3>3, SliceMoves DEF SliceHeld, Reuses
  <2>4. QED  BY <2>2, <2>3
<1>6. CASE CreateRun(w)
  <2>1. PICK r \in Runs : /\ run[r].status = "none"
                          /\ run' = [run EXCEPT ![r].status = "RUNNING"]
                          /\ SliceAt(w, [m EXCEPT !.at = "naming", !.run = r])
    BY <1>1, <1>6 DEF CreateRun
  <2>2. PICK n : n = [m EXCEPT !.at = "naming", !.run = r]
    OBVIOUS
  <2>3. n \in SliceRows /\ n.at = "naming" /\ n.run = r /\ n.saw = m.saw /\ m.at = "opening"
    BY <1>1, <1>6, <2>2 DEF SliceRows, CreateRun
  <2>4. SliceAt(w, n) /\ UNCHANGED job
    BY <1>6, <2>1, <2>2 DEF CreateRun
  <2>5. PICK x \in RunRows : x = run[r]
    BY <1>2
  <2>6. PICK y : y = [x EXCEPT !.status = "RUNNING"]
    OBVIOUS
  <2>7. y \in RunRows /\ y.status = "RUNNING" /\ run' = [run EXCEPT ![r] = y]
    BY <2>1, <2>5, <2>6 DEF RunRows, RunEnds
  <2>8. run' \in [Runs -> RunRows] /\ run'[r] = y /\ \A q \in Runs \ {r} : run'[q] = run[q]
    BY <1>2, <2>7
  <2>9. m.saw # "none" => m.saw \in Runs /\ m.saw # r /\ run[m.saw].status # "RUNNING"
    BY <1>1, <2>1, <2>3 DEF SliceHeld, Reuses, SliceRows
  <2>10. m.saw \in Runs => run[m.saw].status # "none"
    BY <1>1 DEF SliceHeld
  <2>11. \A q \in Runs : run'[q].status = "RUNNING" =>
           \/ q \in {job'.run} \cup job'.lost \/ (n.at = "naming" /\ n.run = q)
           \/ \E v \in Naming \ {w} : slice[v].run = q
    BY <1>3, <2>3, <2>4, <2>8
  <2>12. \A q \in Runs : run[q].status # "none" => run'[q] = run[q]
    BY <2>1, <2>8
  <2>13. run'[r].status # "none"
    BY <2>7, <2>8
  <2>14. QED
    BY <1>2, <2>3, <2>4, <2>8, <2>9, <2>10, <2>11, <2>12, <2>13, SliceMoves
<1>7. CASE NameRun(w)
  <2>1. PICK n : n = [Away EXCEPT !.at = "slice", !.run = m.run]
    OBVIOUS
  <2>2. n \in SliceRows /\ n.at = "slice" /\ n.run = m.run /\ n.saw = "none"
    BY <2>1 DEF Away, SliceRows
  <2>3. SliceAt(w, n) /\ m.at = "naming" /\ UNCHANGED run
    BY <1>1, <1>7, <2>1 DEF NameRun
  <2>4. m.run \in Runs /\ run[m.run].status # "none" /\ ~Reuses(m.saw)
    BY <1>1, <2>3 DEF RunHeld, SliceHeld
  <2>5. PICK l : l = IF job.run = m.saw THEN job.lost ELSE job.lost \cup {job.run}
    OBVIOUS
  <2>6. PICK i : i = [job EXCEPT !.run = m.run, !.lost = l]
    OBVIOUS
  <2>7. job' = i
    BY <1>1, <1>7, <2>5, <2>6 DEF NameRun
  <2>8. /\ job' \in [run : Runs \cup {"none"}, lost : SUBSET (Runs \cup {"none"})]
        /\ job'.run = m.run /\ job'.lost = l
    BY <1>2, <2>4, <2>5, <2>6, <2>7
  <2>9. \A r \in Runs : run'[r].status = "RUNNING" =>
          \/ r \in {job'.run} \cup job'.lost \/ (n.at = "naming" /\ n.run = r)
          \/ \E v \in Naming \ {w} : slice[v].run = r
    BY <1>3, <2>3, <2>4, <2>5, <2>8 DEF Reuses
  <2>10. QED  BY <1>2, <2>2, <2>3, <2>4, <2>8, <2>9, SliceMoves
<1>8. QED  BY <1>4, <1>5, <1>6, <1>7

(* A slice that leaves takes no run with it but the one it did not name.     *)
LEMMA LeavingStep ==
  ASSUME RunHeld, NEW w \in Slices, EndSlice(w) \/ SliceDies(w) \/ FinishRun(w)
  PROVE  RunHeld'
<1> USE AgentAssumption
<1>1. PICK m \in SliceRows : m = slice[w] /\ SliceHeld(m)
  BY DEF RunHeld, RunTypeOK
<1>2. /\ job \in [run : Runs \cup {"none"}, lost : SUBSET (Runs \cup {"none"})]
      /\ run \in [Runs -> RunRows]
      /\ job.run \in Runs => run[job.run].status # "none"
  BY DEF RunHeld, RunTypeOK
<1>3. \A r \in Runs : run[r].status = "RUNNING" =>
        \/ r \in {job.run} \cup job.lost \/ (m.at = "naming" /\ m.run = r)
        \/ \E v \in Naming \ {w} : slice[v].run = r
  BY <1>1 DEF RunHeld, UnderWay, Owned, Naming
<1>4. SliceAt(w, Away) /\ Away \in SliceRows /\ Away.at = "between" /\ Away.saw = "none"
  BY DEF EndSlice, SliceDies, FinishRun, Away, SliceRows
<1>5. CASE EndSlice(w)
  <2>1. m.at # "naming" /\ UNCHANGED <<run, job>>
    BY <1>1, <1>5 DEF EndSlice
  <2>2. QED  BY <1>2, <1>3, <1>4, <2>1, SliceMoves
<1>6. CASE SliceDies(w)
  <2>1. PICK l : l = IF m.at = "naming" THEN job.lost \cup {m.run} ELSE job.lost
    OBVIOUS
  <2>2. PICK i : i = [job EXCEPT !.lost = l]
    OBVIOUS
  <2>3. job' = i /\ UNCHANGED run
    BY <1>1, <1>6, <2>1, <2>2 DEF SliceDies
  <2>4. m.run \in Runs \cup {"none"}
    BY DEF SliceRows
  <2>5. /\ job' \in [run : Runs \cup {"none"}, lost : SUBSET (Runs \cup {"none"})]
        /\ job'.run = job.run /\ job'.lost = l
    BY <1>2, <2>1, <2>2, <2>3, <2>4
  <2>6. \A r \in Runs : run'[r].status = "RUNNING" =>
          \/ r = job'.run \/ r \in job'.lost
          \/ \E v \in Naming \ {w} : slice[v].run = r
    BY <1>3, <2>1, <2>3, <2>5
  <2>7. QED  BY <1>2, <1>4, <2>3, <2>5, <2>6, SliceMoves
<1>7. CASE FinishRun(w)
  <2>1. PICK s \in {"COMPLETED", "FAILED"} :
          run' = [run EXCEPT ![m.run].status = s, ![m.run].old = FALSE]
    BY <1>1, <1>7 DEF FinishRun
  <2>2. m.at = "slice" /\ m.run \in Runs /\ UNCHANGED job
    BY <1>1, <1>7 DEF FinishRun, SliceHeld
  <2>3. PICK x \in RunRows : x = run[m.run]
    BY <1>2, <2>2
  <2>4. PICK y : y = [x EXCEPT !.status = s, !.old = FALSE]
    OBVIOUS
  <2>5. y \in RunRows /\ y.status = s /\ run' = [run EXCEPT ![m.run] = y]
    BY <2>1, <2>3, <2>4 DEF RunRows, RunEnds
  <2>6. /\ run' \in [Runs -> RunRows] /\ run'[m.run].status = s
        /\ \A q \in Runs \ {m.run} : run'[q] = run[q]
    BY <1>2, <2>2, <2>5
  <2>7. QED  BY <1>2, <1>3, <1>4, <2>2, <2>6, SliceMoves
<1>8. QED  BY <1>5, <1>6, <1>7

(* A step that ends runs or lets time pass: what was opened stays opened.    *)
LEMMA RunsEnd ==
  ASSUME RunHeld, UNCHANGED <<job, slice>>, run' \in [Runs -> RunRows],
         \A r \in Runs : /\ run[r].status # "none" => run'[r].status # "none"
                         /\ run'[r].status = "RUNNING" => run[r].status = "RUNNING"
  PROVE  RunHeld'
<1>1. RunTypeOK'
  BY DEF RunHeld, RunTypeOK
<1>2. ASSUME NEW w \in Slices
      PROVE  /\ SliceHeld(slice[w])'
             /\ slice[w].at \in {"naming", "slice"} => run'[slice[w].run].status # "none"
  <2>1. /\ SliceHeld(slice[w]) /\ slice[w] \in SliceRows
        /\ slice[w].at \in {"naming", "slice"} => run[slice[w].run].status # "none"
    BY DEF RunHeld, RunTypeOK
  <2>2. slice[w].saw = "none" \/ slice[w].saw \in Runs
    BY <2>1 DEF SliceRows
  <2>3. QED  BY <2>1, <2>2 DEF SliceHeld, Reuses
<1>3. \A r \in Runs : run'[r].status = "RUNNING" => Owned(r)'
  BY DEF RunHeld, UnderWay, Owned, Naming
<1>4. QED
  BY <1>1, <1>2, <1>3 DEF RunHeld, UnderWay

(* A job's runs are opened, named and ended as its slices do.                *)
LEMMA RunsStep ==
    ASSUME RunHeld, RunsNext \/ UNCHANGED runVars
    PROVE  RunHeld'
<1>1. CASE UNCHANGED runVars
  <2>1. run' \in [Runs -> RunRows] /\ UNCHANGED <<run, job, slice>>
    BY <1>1 DEF runVars, RunHeld, RunTypeOK
  <2>2. QED  BY <2>1, RunsEnd
<1>2. CASE \E w \in Slices :
            \/ ReadContext(w) \/ CheckRun(w) \/ CreateRun(w) \/ NameRun(w)
            \/ EndSlice(w) \/ SliceDies(w) \/ FinishRun(w)
  BY <1>2, OpeningStep, LeavingStep
<1>3. CASE DayPasses \/ ReclaimStaleRuns
  <2>1. UNCHANGED <<job, slice>> /\ run \in [Runs -> RunRows]
    BY <1>3 DEF DayPasses, ReclaimStaleRuns, RunHeld, RunTypeOK
  <2>2. ASSUME NEW r \in Runs
        PROVE  /\ run'[r] \in RunRows
               /\ run[r].status # "none" => run'[r].status # "none"
               /\ run'[r].status = "RUNNING" => run[r].status = "RUNNING"
    <3>1. PICK x \in RunRows : x = run[r]
      BY <2>1
    <3>2. PICK y : y = [x EXCEPT !.status = "FAILED"]
      OBVIOUS
    <3>3. PICK b \in BOOLEAN : b = (x.status = "RUNNING")
      OBVIOUS
    <3>4. PICK z : z = [x EXCEPT !.old = b]
      OBVIOUS
    <3>5. y \in RunRows /\ y.status = "FAILED" /\ z \in RunRows /\ z.status = x.status
      BY <3>2, <3>4 DEF RunRows, RunEnds
    <3>6. run'[r] \in {x, y, z}
      BY <1>3, <3>1, <3>2, <3>3, <3>4 DEF DayPasses, ReclaimStaleRuns
    <3>7. QED  BY <3>1, <3>5, <3>6
  <2>3. run' \in [Runs -> RunRows]
    BY <1>3, <2>2 DEF DayPasses, ReclaimStaleRuns
  <2>4. QED  BY <2>1, <2>2, <2>3, RunsEnd
<1>4. QED  BY <1>1, <1>2, <1>3 DEF RunsNext

(* The patches' state keeps its types.                                       *)
LEMMA PatchTypeStep ==
    ASSUME PatchesHeld, PatchesNext
    PROVE  PatchTypeOK'
<1> USE DEF PatchesHeld, PatchTypeOK
<1>1. Free \in CallRows
  BY DEF Free, CallRows, Contents
<1>2. ASSUME NEW o \in Operators, NEW c \in CallRows, CallAt(o, c)
      PROVE  call' \in [Operators -> CallRows]
  BY <1>2 DEF CallAt
<1>3. ASSUME NEW b \in Branches
      PROVE  Switched(b) \in Trees
  BY DEF Switched, Trees
<1>4. ASSUME NEW x \in Contents
      PROVE  [tree EXCEPT !.work = x] \in Trees
  BY DEF Trees
<1>5. ASSUME NEW p \in Patches, NEW s \in {"APPROVED", "REJECTED"},
             ProposePatch(p) \/ ResolveApproval(p, s)
      PROVE  PatchTypeOK'
  <2>1. approval' \in [Patches -> Approvals]
    <3>1. tree.work \in Contents
      BY DEF Trees
    <3>2. QED  BY <1>5, <3>1 DEF ProposePatch, ResolveApproval, Approvals
  <2>2. QED  BY <1>5, <2>1 DEF ProposePatch, ResolveApproval
<1>6. ASSUME NEW o \in Operators, NEW p \in Patches, ApplyPatch(o, p)
      PROVE  PatchTypeOK'
  <2>1. [pc |-> "branch", patch |-> p, base |-> tree.head, undo |-> tree.work] \in CallRows
    BY DEF CallRows, Trees, Holding
  <2>2. QED  BY <1>2, <1>6, <2>1 DEF ApplyPatch
<1>7. ASSUME NEW o \in Operators, CheckoutBranch(o)
      PROVE  PatchTypeOK'
  <2>1. [call[o] EXCEPT !.pc = "write"] \in CallRows
    BY DEF CallRows, Holding
  <2>2. call[o].patch \in Branches
    BY <1>7 DEF CheckoutBranch, Holding, Branches
  <2>3. [tree EXCEPT !.tip[call[o].patch] = tree.tip[tree.head], !.head = call[o].patch] \in Trees
    BY <2>2 DEF Trees
  <2>4. QED  BY <1>1, <1>2, <1>7, <2>1, <2>3 DEF CheckoutBranch
<1>8. ASSUME NEW o \in Operators, WriteFiles(o)
      PROVE  PatchTypeOK'
  <2>1. [call[o] EXCEPT !.pc = "commit", !.undo = tree.work] \in CallRows
    BY DEF CallRows, Holding, Trees
  <2>2. call[o].patch \in Contents
    BY DEF CallRows, Contents
  <2>3. QED  BY <1>2, <1>4, <1>8, <2>1, <2>2 DEF WriteFiles
<1>9. ASSUME NEW o \in Operators, CommitFiles(o)
      PROVE  PatchTypeOK'
  <2>1. [call[o] EXCEPT !.pc = "record"] \in CallRows
    BY DEF CallRows, Holding
  <2>2. [tree EXCEPT !.tip[tree.head] = tree.work] \in Trees
    BY DEF Trees
  <2>3. QED  BY <1>2, <1>9, <2>1, <2>2 DEF CommitFiles
<1>10. ASSUME NEW o \in Operators, RecordResult(o)
       PROVE  PatchTypeOK'
  <2>1. approval' \in [Patches -> Approvals]
    <3>1. PICK m \in CallRows : m = call[o]
      OBVIOUS
    <3>2. approval' = [approval EXCEPT ![m.patch].undo = m.undo, ![m.patch].base = m.base]
      BY <1>10, <3>1 DEF RecordResult
    <3>3. m.undo \in Contents /\ m.base \in Branches \cup {"none"}
      BY DEF CallRows
    <3>4. ASSUME NEW p \in Patches
          PROVE  [approval[p] EXCEPT !.undo = m.undo, !.base = m.base] \in Approvals
      BY <3>3 DEF Approvals
    <3>5. ASSUME NEW p \in Patches
          PROVE  approval'[p] \in {approval[p],
                                 [approval[p] EXCEPT !.undo = m.undo, !.base = m.base]}
      BY <3>2
    <3>6. approval' = [p \in Patches |-> approval'[p]]
      BY <3>2
    <3>7. QED  BY <3>4, <3>5, <3>6
  <2>2. QED  BY <1>1, <1>2, <1>10, <2>1 DEF RecordResult
<1>11. ASSUME NEW o \in Operators, NEW p \in Patches, RevertPatch(o, p)
       PROVE  PatchTypeOK'
  <2>1. [Free EXCEPT !.pc = "return", !.patch = p, !.base = approval[p].base] \in CallRows
    BY <1>1 DEF CallRows, Approvals
  <2>2. approval[p].undo \in Contents
    BY DEF Approvals
  <2>3. QED  BY <1>2, <1>4, <1>11, <2>1, <2>2 DEF RevertPatch
<1>12. ASSUME NEW o \in Operators, ReturnToBase(o)
       PROVE  PatchTypeOK'
  BY <1>1, <1>2, <1>3, <1>12 DEF ReturnToBase
<1>13. ASSUME NEW o \in Operators, CallDies(o)
       PROVE  PatchTypeOK'
  BY <1>1, <1>2, <1>13 DEF CallDies
<1>14. CASE OperatorUndo
  <2>1. "main" \in Branches
    BY DEF Branches
  <2>2. QED  BY <1>3, <1>14, <2>1 DEF OperatorUndo
<1>15. QED
  BY <1>5, <1>6, <1>7, <1>8, <1>9, <1>10, <1>11, <1>12, <1>13, <1>14 DEF PatchesNext

(* What can reach the disk stays approved while the rest is unchanged.       *)
LEMMA ApprovalKept ==
    ASSUME PatchTypeOK, PatchesNext, NEW p \in Patches, approval[p].status = "APPROVED"
    PROVE  approval'[p].status = "APPROVED"
<1> USE DEF PatchTypeOK
<1>1. ASSUME NEW q \in Patches, ProposePatch(q) \/ \E s : ResolveApproval(q, s)
      PROVE  approval'[p].status = "APPROVED"
  BY <1>1 DEF ProposePatch, ResolveApproval
<1>2. ASSUME NEW o \in Operators, RecordResult(o)
      PROVE  approval'[p].status = "APPROVED"
  <2>1. PICK m \in CallRows : m = call[o]
    OBVIOUS
  <2>2. approval' = [approval EXCEPT ![m.patch].undo = m.undo, ![m.patch].base = m.base]
    BY <1>2, <2>1 DEF RecordResult
  <2>3. QED  BY <2>2 DEF Approvals
<1>3. ASSUME NEW o \in Operators, NEW q \in Patches,
             \/ CheckoutBranch(o) \/ WriteFiles(o) \/ CommitFiles(o) \/ ReturnToBase(o)
             \/ CallDies(o) \/ ApplyPatch(o, q) \/ RevertPatch(o, q) \/ OperatorUndo
      PROVE  approval'[p].status = "APPROVED"
  BY <1>3 DEF CheckoutBranch, WriteFiles, CommitFiles, ReturnToBase, CallDies, ApplyPatch,
              RevertPatch, OperatorUndo
<1>4. OperatorUndo => UNCHANGED approval
  BY DEF OperatorUndo
<1>5. \A o \in Operators : CheckoutBranch(o) \/ WriteFiles(o) \/ CommitFiles(o) \/ ReturnToBase(o)
        \/ CallDies(o) => UNCHANGED approval
  BY DEF CheckoutBranch, WriteFiles, CommitFiles, ReturnToBase, CallDies
<1>6. QED
  BY <1>1, <1>2, <1>3, <1>4, <1>5 DEF PatchesNext

\* What the tree holds, and what a checkout may put there.
TreeApproved(t) == Approved(t.work) /\ \A b \in Branches : Approved(t.tip[b])

(* Switching branches brings no content that no branch had.                  *)
LEMMA SwitchedApproved ==
    ASSUME PatchesHeld, NEW b \in Branches
    PROVE  TreeApproved(Switched(b))
<1>1. PICK t \in Trees : t = tree
  BY DEF PatchesHeld, PatchTypeOK
<1>2. Switched(b).tip = t.tip /\ (Switched(b).work = t.work \/ Switched(b).work = t.tip[b])
  BY <1>1 DEF Switched, Trees
<1>3. QED
  BY <1>1, <1>2 DEF TreeApproved, PatchesHeld

(* A step of a call leaves only approved contents in the tree.               *)
LEMMA TreeStep ==
    ASSUME PatchesHeld, PatchesNext
    PROVE  TreeApproved(tree')
<1>1. PICK t \in Trees : t = tree
  BY DEF PatchesHeld, PatchTypeOK
<1>2. TreeApproved(t)
  BY <1>1 DEF TreeApproved, PatchesHeld
<1>3. ASSUME NEW x \in Contents, Approved(x)
      PROVE  TreeApproved([t EXCEPT !.work = x])
  BY <1>2, <1>3 DEF TreeApproved, Trees
<1>4. ASSUME NEW o \in Operators, CheckoutBranch(o)
      PROVE  TreeApproved(tree')
  <2>1. tree' = t \/ tree' = [t EXCEPT !.tip[call[o].patch] = t.tip[t.head],
                                       !.head = call[o].patch]
    BY <1>1, <1>4 DEF CheckoutBranch
  <2>2. TreeApproved([t EXCEPT !.tip[call[o].patch] = t.tip[t.head], !.head = call[o].patch])
    BY <1>2 DEF TreeApproved, Trees
  <2>3. QED  BY <1>2, <2>1, <2>2
<1>5. ASSUME NEW o \in Operators, WriteFiles(o)
      PROVE  TreeApproved(tree')
  <2>1. call[o].patch \in Patches /\ Approved(call[o].patch)
    BY <1>5 DEF WriteFiles, PatchesHeld, Holding
  <2>2. tree' = [t EXCEPT !.work = call[o].patch]
    BY <1>1, <1>5 DEF WriteFiles
  <2>3. QED  BY <1>3, <2>1, <2>2 DEF Contents
<1>6. ASSUME NEW o \in Operators, CommitFiles(o)
      PROVE  TreeApproved(tree')
  <2>1. tree' = t \/ tree' = [t EXCEPT !.tip[t.head] = t.work]
    BY <1>1, <1>6 DEF CommitFiles
  <2>2. TreeApproved([t EXCEPT !.tip[t.head] = t.work])
    BY <1>2 DEF TreeApproved, Trees
  <2>3. QED  BY <1>2, <2>1, <2>2
<1>7. ASSUME NEW o \in Operators, NEW p \in Patches, RevertPatch(o, p)
      PROVE  TreeApproved(tree')
  <2>1. approval[p].undo \in Contents /\ Approved(approval[p].undo)
    BY DEF PatchesHeld, PatchTypeOK, Approvals
  <2>2. tree' = [t EXCEPT !.work = approval[p].undo]
    BY <1>1, <1>7 DEF RevertPatch
  <2>3. QED  BY <1>3, <2>1, <2>2
<1>8. ASSUME NEW o \in Operators, ReturnToBase(o)
      PROVE  TreeApproved(tree')
  BY <1>8, SwitchedApproved DEF ReturnToBase, PatchesHeld
<1>9. CASE OperatorUndo
  BY <1>9, SwitchedApproved DEF OperatorUndo, Branches
<1>10. CASE UNCHANGED tree
  BY <1>1, <1>2, <1>10
<1>11. \A p \in Patches, o \in Operators : ProposePatch(p) \/ (\E s : ResolveApproval(p, s))
         \/ RecordResult(o) \/ CallDies(o) \/ ApplyPatch(o, p) => UNCHANGED tree
  BY DEF ProposePatch, ResolveApproval, RecordResult, CallDies, ApplyPatch
<1>12. QED
  BY <1>4, <1>5, <1>6, <1>7, <1>8, <1>9, <1>10, <1>11 DEF PatchesNext, ProposePatch,
     ResolveApproval, RecordResult, CallDies, ApplyPatch

\* What a call holds is approved, and its branches exist.
CallApproved(c) ==
    /\ Approved(c.undo)
    /\ c.pc \in Holding => c.patch \in Patches /\ Approved(c.patch) /\ c.base \in Branches
    /\ c.pc = "return" => c.base \in Branches

(* What calls hold after a step was approved before it.                      *)
LEMMA CallsStep ==
    ASSUME PatchesHeld, PatchesNext, NEW o \in Operators
    PROVE  CallApproved(call'[o])
<1>1. CallApproved(call[o])
  BY DEF PatchesHeld, CallApproved
<1>2. CallApproved(Free)
  BY AgentAssumption DEF CallApproved, Free, Holding, Approved
<1>3. ASSUME NEW q \in Operators, NEW c, CallAt(q, c), CallApproved(c)
      PROVE  CallApproved(call'[o])
  BY <1>1, <1>3 DEF CallAt, PatchesHeld, PatchTypeOK
<1>4. ASSUME NEW q \in Operators, NEW p \in Patches, ApplyPatch(q, p)
      PROVE  CallApproved(call'[o])
  <2>1. tree.head \in Branches /\ Approved(tree.work) /\ Approved(p)
    BY <1>4 DEF ApplyPatch, MayApply, PatchesHeld, PatchTypeOK, Trees, Approved
  <2>2. CallApproved([pc |-> "branch", patch |-> p, base |-> tree.head, undo |-> tree.work])
    BY <2>1 DEF CallApproved
  <2>3. QED  BY <1>3, <1>4, <2>2 DEF ApplyPatch
<1>5. ASSUME NEW q \in Operators, CheckoutBranch(q) \/ WriteFiles(q) \/ CommitFiles(q)
      PROVE  CallApproved(call'[o])
  <2>1. PICK m \in CallRows : m = call[q]
    BY DEF PatchesHeld, PatchTypeOK
  <2>2. m.pc \in Holding
    BY <1>5, <2>1 DEF CheckoutBranch, WriteFiles, CommitFiles, Holding
  <2>3. CallApproved(m) /\ Approved(tree.work)
    BY <2>1 DEF PatchesHeld, CallApproved
  <2>4. CallApproved([m EXCEPT !.pc = "write"]) /\ CallApproved([m EXCEPT !.pc = "record"])
        /\ CallApproved([m EXCEPT !.pc = "commit", !.undo = tree.work])
    BY <2>2, <2>3 DEF CallApproved, CallRows
  <2>5. \/ CallAt(q, Free) \/ CallAt(q, [m EXCEPT !.pc = "write"])
        \/ CallAt(q, [m EXCEPT !.pc = "record"])
        \/ CallAt(q, [m EXCEPT !.pc = "commit", !.undo = tree.work])
    BY <1>5, <2>1 DEF CheckoutBranch, WriteFiles, CommitFiles
  <2>6. QED  BY <1>2, <1>3, <2>4, <2>5
<1>6. ASSUME NEW q \in Operators, NEW p \in Patches, RevertPatch(q, p)
      PROVE  CallApproved(call'[o])
  <2>1. approval[p].base \in Branches
    BY <1>6 DEF RevertPatch, PatchesHeld
  <2>2. CallApproved([Free EXCEPT !.pc = "return", !.patch = p, !.base = approval[p].base])
    BY <1>2, <2>1 DEF CallApproved, Free, Holding
  <2>3. QED  BY <1>3, <1>6, <2>2 DEF RevertPatch
<1>7. ASSUME NEW q \in Operators, RecordResult(q) \/ ReturnToBase(q) \/ CallDies(q)
      PROVE  CallApproved(call'[o])
  BY <1>2, <1>3, <1>7 DEF RecordResult, ReturnToBase, CallDies
<1>8. (\E p \in Patches : ProposePatch(p) \/ \E s : ResolveApproval(p, s)) \/ OperatorUndo
      => UNCHANGED call
  BY DEF ProposePatch, ResolveApproval, OperatorUndo
<1>9. QED
  BY <1>1, <1>4, <1>5, <1>6, <1>7, <1>8 DEF PatchesNext

(* Nothing unapproved gets near the disk.                                    *)
LEMMA PatchesStep ==
    ASSUME PatchesHeld, PatchesNext
    PROVE  PatchesHeld'
<1>1. PatchTypeOK'
  BY PatchTypeStep
<1>2. ASSUME NEW x, Approved(x)
      PROVE  x \in Patches => approval'[x].status = "APPROVED"
  BY <1>2, ApprovalKept DEF PatchesHeld, Approved
<1>3. \A p \in Patches : \/ approval'[p].undo = approval[p].undo /\ approval'[p].base = approval[p].base
                         \/ \E o \in Operators : /\ call[o].pc \in Holding
                                                 /\ approval'[p].undo = call[o].undo
                                                 /\ approval'[p].base = call[o].base
  <2> USE DEF PatchesHeld, PatchTypeOK
  <2>1. ASSUME NEW q \in Patches, ProposePatch(q) \/ \E s : ResolveApproval(q, s), NEW p \in Patches
        PROVE  approval'[p].undo = approval[p].undo /\ approval'[p].base = approval[p].base
    BY <2>1 DEF ProposePatch, ResolveApproval, Approvals
  <2>2. ASSUME NEW o \in Operators, RecordResult(o), NEW p \in Patches
        PROVE  \/ approval'[p].undo = approval[p].undo /\ approval'[p].base = approval[p].base
               \/ /\ call[o].pc \in Holding
                  /\ approval'[p].undo = call[o].undo /\ approval'[p].base = call[o].base
    <3>1. PICK m \in CallRows : m = call[o]
      OBVIOUS
    <3>2. approval' = [approval EXCEPT ![m.patch].undo = m.undo, ![m.patch].base = m.base]
          /\ m.pc \in Holding
      BY <2>2, <3>1 DEF RecordResult, Holding
    <3>3. QED  BY <3>1, <3>2 DEF Approvals
  <2>3. \A o \in Operators, p \in Patches : CheckoutBranch(o) \/ WriteFiles(o) \/ CommitFiles(o)
          \/ ReturnToBase(o) \/ CallDies(o) \/ ApplyPatch(o, p) \/ RevertPatch(o, p)
          => UNCHANGED approval
    BY DEF CheckoutBranch, WriteFiles, CommitFiles, ReturnToBase, CallDies, ApplyPatch, RevertPatch
  <2>4. \A o \in Operators : CheckoutBranch(o) \/ WriteFiles(o) \/ CommitFiles(o)
          \/ ReturnToBase(o) \/ CallDies(o) => UNCHANGED approval
    BY DEF CheckoutBranch, WriteFiles, CommitFiles, ReturnToBase, CallDies
  <2>5. OperatorUndo => UNCHANGED approval
    BY DEF OperatorUndo
  <2>6. QED  BY <2>1, <2>2, <2>3, <2>4, <2>5 DEF PatchesNext
<1>4. TreeApproved(tree') /\ \A o \in Operators : CallApproved(call'[o])
  BY TreeStep, CallsStep
<1>5. \A p \in Patches : /\ Approved(approval'[p].undo)
                         /\ approval'[p].undo # "none" => approval'[p].base \in Branches
  BY <1>3 DEF PatchesHeld
<1>6. QED
  BY <1>1, <1>2, <1>4, <1>5 DEF PatchesHeld, TreeApproved, CallApproved, Approved

(* A fresh checkout holds no patch, a new job no run.                        *)
LEMMA AgentStart == AgentInit => RunHeld /\ PatchesHeld
<1> SUFFICES ASSUME AgentInit PROVE RunHeld /\ PatchesHeld
  OBVIOUS
<1>1. RunHeld
  <2>1. RunTypeOK
    BY DEF AgentInit, RunTypeOK, RunRows, RunEnds, SliceRows, Away
  <2>2. /\ job.run = "none" /\ \A r \in Runs : run[r].status = "none"
        /\ \A w \in Slices : slice[w].at = "between" /\ slice[w].saw = "none"
    BY DEF AgentInit, Away
  <2>3. QED  BY <2>1, <2>2, AgentAssumption DEF RunHeld, SliceHeld, UnderWay
<1>2. PatchTypeOK
  BY DEF AgentInit, PatchTypeOK, Approvals, Trees, CallRows, Contents, Branches, Free
<1>3. QED
  BY <1>1, <1>2, AgentAssumption DEF AgentInit, PatchesHeld, Approved, Free, Holding

(* Nothing a model proposed is on disk or in a commit before it was approved, *)
(* in whatever order any number of patches are applied and reverted, and a   *)
(* job has a second run under way only where a slice died before it named    *)
(* its own or two opened one at a time (codeops.py, orchestrator.py).        *)
THEOREM AgentsStayHeld == AgentSpec => []AgentsAreHeld
<1>1. ASSUME RunHeld, PatchesHeld, [AgentNext]_agentVars
      PROVE  RunHeld' /\ PatchesHeld'
  <2>1. CASE RunsNext
    <3>1. UNCHANGED <<approval, tree, call>>
      BY <2>1 DEF RunsNext, patchVars
    <3>2. PatchesHeld'
      BY <1>1, <3>1 DEF PatchesHeld, PatchTypeOK, Approved
    <3>3. QED  BY <1>1, <2>1, <3>2, RunsStep
  <2>2. CASE PatchesNext
    BY <1>1, <2>2, RunsStep, PatchesStep DEF PatchesNext
  <2>3. CASE UNCHANGED agentVars
    <3>1. UNCHANGED runVars /\ UNCHANGED <<approval, tree, call>>
      BY <2>3 DEF agentVars, patchVars
    <3>2. PatchesHeld'
      BY <1>1, <3>1 DEF PatchesHeld, PatchTypeOK, Approved
    <3>3. QED  BY <1>1, <3>1, <3>2, RunsStep
  <2>4. QED  BY <1>1, <2>1, <2>2, <2>3 DEF AgentNext
<1>2. RunHeld /\ PatchesHeld => AgentsAreHeld
  <2> SUFFICES ASSUME RunHeld, PatchesHeld PROVE AgentsAreHeld
    OBVIOUS
  <2>1. OnlyApprovedOnDisk
    BY DEF PatchesHeld, OnlyApprovedOnDisk, Approved
  <2>2. OneRunUnderWay
    <3>1. \A r \in UnderWay : r \in {job.run} \cup job.lost \cup {slice[w].run : w \in Naming}
      BY DEF RunHeld, Owned
    <3>2. ASSUME NEW w \in Naming, slice[w].saw = job.run
          PROVE  job.run \notin UnderWay
      BY <3>2, AgentAssumption DEF RunHeld, SliceHeld, Reuses, Naming, UnderWay
    <3>3. QED  BY <3>1, <3>2 DEF OneRunUnderWay
  <2>3. QED  BY <2>1, <2>2 DEF AgentsAreHeld
<1>3. QED
  BY <1>1, <1>2, AgentStart, PTL DEF AgentSpec

-----------------------------------------------------------------------------
(* Admission: campaigns before jobs, one verdict per lead, audited contacts. *)

Steps == {"idle", "refused", "counted", "committed", "created", "lost"}

\* A request past the commit of its campaign left the campaign there, and a job
\* is enqueued only then.
CampaignsFirst ==
    /\ campaign \in [at : [Requests -> Steps], rows : SUBSET Requests, jobs : SUBSET Requests]
    /\ \A r \in Requests : campaign.at[r] = "committed" => r \in campaign.rows
    /\ JobHasCampaign

Sides == {"APPROVED", "REJECTED"}
PolicyRefs == Policies \cup {"none"}
DeskCalls == [pc : {"idle", "decide", "decrypt", "give"}, lead : Leads \cup {"none"},
              policy : PolicyRefs, approve : BOOLEAN]
Decisions == [lead : Leads, policy : PolicyRefs, verdict : {"ALLOWED", "BLOCKED"}]
Desks == [state : [Leads -> Sides \cup {"READY_FOR_REVIEW"}], policy : PolicyRefs,
          decisions : SUBSET Decisions, sent : SUBSET (Leads \X Sides),
          audit : SUBSET Leads, given : SUBSET Leads,
          call : [Managers -> DeskCalls], calls : Nat]

ApprovedLeads == {l \in Leads : desk.state[l] = "APPROVED"}

\* What is announced of a lead is its state, and an approval has its decision.
Announced ==
    \A l \in Leads :
      /\ \A s \in Sides : <<l, s>> \in desk.sent <=> desk.state[l] = s
      /\ l \in ApprovedLeads => \E d \in desk.decisions : d.lead = l /\ d.verdict = "ALLOWED"

\* A reader past its check holds an approved lead, past the vault an audited one.
ReaderHolds(c) ==
    /\ c.pc # "idle" => c.lead \in Leads
    /\ c.pc \in {"decrypt", "give"} => c.lead \in ApprovedLeads
    /\ c.pc = "give" => c.lead \in desk.audit

DeskInv ==
    /\ desk \in Desks
    /\ Announced
    /\ \A m \in Managers : ReaderHolds(desk.call[m])
    /\ desk.given \subseteq desk.audit \cap ApprovedLeads

(* A campaign is committed before its job is enqueued (campaigns.py), however *)
(* the requests interleave and wherever a process stops.                      *)
LEMMA CampaignStep ==
  CampaignsFirst /\ (CampaignNext \/ UNCHANGED campaign) => CampaignsFirst'
<1> SUFFICES ASSUME CampaignsFirst, CampaignNext \/ UNCHANGED campaign
             PROVE  CampaignsFirst'
  OBVIOUS
<1> USE DEF CampaignsFirst, JobHasCampaign, Steps
<1>1. ASSUME NEW r \in Requests, CountJobs(r)
      PROVE  CampaignsFirst'
  BY <1>1 DEF CountJobs
<1>2. ASSUME NEW r \in Requests, CommitCampaign(r)
      PROVE  CampaignsFirst'
  BY <1>2 DEF CommitCampaign, AfterCount
<1>3. ASSUME NEW r \in Requests, EnqueueJob(r)
      PROVE  CampaignsFirst'
  BY <1>3 DEF EnqueueJob
<1>4. ASSUME NEW r \in Requests, ProcessStops(r)
      PROVE  CampaignsFirst'
  BY <1>4 DEF ProcessStops
<1>5. ASSUME NEW r \in Requests, JobEnds(r)
      PROVE  CampaignsFirst'
  BY <1>5 DEF JobEnds
<1>6. CASE UNCHANGED campaign
  BY <1>6
<1>7. QED
  BY <1>1, <1>2, <1>3, <1>4, <1>5, <1>6 DEF CampaignNext

(* A step that only moves the call of one manager keeps the desk in order.    *)
LEMMA CallMoves ==
  ASSUME DeskInv, NEW m \in Managers, NEW c \in DeskCalls, ReaderHolds(c),
         desk' \in Desks, desk'.state = desk.state, desk'.sent = desk.sent,
         desk.decisions \subseteq desk'.decisions, desk'.audit = desk.audit,
         desk'.given \subseteq desk.audit \cap ApprovedLeads,
         desk'.call = [desk.call EXCEPT ![m] = c]
  PROVE  DeskInv'
<1>1. ApprovedLeads' = ApprovedLeads
  BY DEF ApprovedLeads
<1>2. Announced'
  BY <1>1 DEF DeskInv, Announced
<1>3. ASSUME NEW n \in Managers
      PROVE  ReaderHolds(desk.call[n])'
  BY <1>1 DEF DeskInv, ReaderHolds, Desks
<1>4. QED  BY <1>1, <1>2, <1>3 DEF DeskInv

(* Decisions and readers of one review desk (reviews.py, contacts.py).       *)
LEMMA DeskStep ==
  DeskInv /\ (ReviewNext \/ UNCHANGED desk) => DeskInv'
<1> SUFFICES ASSUME DeskInv, ReviewNext \/ UNCHANGED desk
             PROVE  DeskInv'
  OBVIOUS
<1> USE DEF DeskInv
<1>1. ASSUME PublishPolicy
      PROVE  DeskInv'
  <2>1. PICK p \in Policies : desk' = [desk EXCEPT !.policy = p]
    BY <1>1 DEF PublishPolicy
  <2>2. QED
    BY <2>1 DEF Desks, PolicyRefs, Announced, ApprovedLeads, ReaderHolds
<1>2. ASSUME NEW m \in Managers, ReadLead(m)
      PROVE  DeskInv'
  <2>1. PICK l \in Leads, approve \in BOOLEAN :
          desk' = [desk EXCEPT !.calls = @ + 1,
                     !.call[m] = [pc |-> "decide", lead |-> l, policy |-> desk.policy,
                                  approve |-> approve]]
    BY <1>2 DEF ReadLead
  <2>2. PICK k \in DeskCalls :
          k = [pc |-> "decide", lead |-> l, policy |-> desk.policy, approve |-> approve]
    BY DEF DeskCalls, Desks
  <2>3. /\ desk' \in Desks /\ desk'.state = desk.state /\ desk'.sent = desk.sent
        /\ desk'.decisions = desk.decisions /\ desk'.audit = desk.audit
        /\ desk'.given = desk.given
        /\ desk'.call = [desk.call EXCEPT ![m] = k]
    <3>1. desk' = [desk EXCEPT !.calls = @ + 1, !.call[m] = k]
      BY <2>1, <2>2
    <3>2. /\ desk.call \in [Managers -> DeskCalls] /\ desk.calls + 1 \in Nat
          /\ [desk.call EXCEPT ![m] = k] \in [Managers -> DeskCalls]
      BY <2>2 DEF Desks
    <3>3. [desk EXCEPT !.calls = @ + 1, !.call[m] = k]
             = [desk EXCEPT !.calls = desk.calls + 1, !.call = [desk.call EXCEPT ![m] = k]]
      BY DEF Desks
    <3>4. QED  BY <3>1, <3>2, <3>3 DEF Desks
  <2>4. QED  BY <2>2, <2>3, CallMoves DEF ReaderHolds
<1>3. NoCall \in DeskCalls /\ ReaderHolds(NoCall)
  BY DEF NoCall, DeskCalls, PolicyRefs, ReaderHolds
<1>4. ASSUME NEW m \in Managers, RefuseDecision(m)
      PROVE  DeskInv'
  <2>1. PICK c \in DeskCalls : c = desk.call[m]
    BY DEF Desks
  <2>2. /\ c.pc = "decide" /\ c.lead \in Leads
        /\ desk' = [desk EXCEPT !.decisions = @ \cup {Recorded(c)}, !.call[m] = NoCall]
    BY <1>4, <2>1 DEF RefuseDecision, ReaderHolds
  <2>3. Recorded(c) \in Decisions
    BY <2>2 DEF Recorded, Verdict, Decisions, DeskCalls
  <2>4. /\ desk' \in Desks /\ desk'.state = desk.state /\ desk'.sent = desk.sent
        /\ desk.decisions \subseteq desk'.decisions /\ desk'.audit = desk.audit
        /\ desk'.given = desk.given /\ desk'.call = [desk.call EXCEPT ![m] = NoCall]
    BY <1>3, <2>2, <2>3 DEF Desks
  <2>5. QED  BY <1>3, <2>4, CallMoves
<1>5. ASSUME NEW m \in Managers, DecideLead(m)
      PROVE  DeskInv'
  <2>1. PICK c \in DeskCalls : c = desk.call[m]
    BY DEF Desks
  <2>2. c.pc = "decide" /\ c.lead \in Leads /\ ~Refuses(c)
    BY <1>5, <2>1 DEF DecideLead, ReaderHolds
  <2>3. CASE ~Awaits(c.lead)
    <3>1. desk' = [desk EXCEPT !.call[m] = NoCall]
      BY <1>5, <2>1, <2>3 DEF DecideLead
    <3>2. /\ desk' \in Desks /\ desk'.state = desk.state /\ desk'.sent = desk.sent
          /\ desk'.decisions = desk.decisions /\ desk'.audit = desk.audit
          /\ desk'.given = desk.given /\ desk'.call = [desk.call EXCEPT ![m] = NoCall]
      BY <1>3, <3>1 DEF Desks
    <3>3. QED  BY <1>3, <3>2, CallMoves
  <2>4. CASE Awaits(c.lead)
    <3> DEFINE side == IF c.approve THEN "APPROVED" ELSE "REJECTED"
    <3>1. desk' = [desk EXCEPT !.state[c.lead] = side, !.decisions = @ \cup {Recorded(c)},
                     !.sent = @ \cup {<<c.lead, side>>}, !.call[m] = NoCall]
      BY <1>5, <2>1, <2>4 DEF DecideLead
    <3>2. side \in Sides /\ desk.state[c.lead] = "READY_FOR_REVIEW"
      BY <2>4 DEF Sides, Awaits
    <3>3. Recorded(c) \in Decisions /\ Recorded(c).lead = c.lead
      BY <2>2 DEF Recorded, Verdict, Decisions, DeskCalls
    <3>4. c.approve => Recorded(c).verdict = "ALLOWED"
      BY <2>2 DEF Recorded, Verdict, Refuses
    <3> HIDE DEF side
    <3>5. /\ desk'.state = [desk.state EXCEPT ![c.lead] = side]
          /\ desk'.decisions = desk.decisions \cup {Recorded(c)}
          /\ desk'.sent = desk.sent \cup {<<c.lead, side>>}
          /\ desk'.call = [desk.call EXCEPT ![m] = NoCall]
          /\ desk'.audit = desk.audit /\ desk'.given = desk.given
          /\ desk' \in Desks
      <4>1. <<c.lead, side>> \in Leads \X Sides
        BY <2>2, <3>2
      <4>2. /\ desk'.state = [desk.state EXCEPT ![c.lead] = side]
            /\ desk'.decisions = desk.decisions \cup {Recorded(c)}
            /\ desk'.sent = desk.sent \cup {<<c.lead, side>>}
            /\ desk'.call = [desk.call EXCEPT ![m] = NoCall]
            /\ desk'.policy = desk.policy /\ desk'.calls = desk.calls
            /\ desk'.audit = desk.audit /\ desk'.given = desk.given
            /\ DOMAIN desk' = DOMAIN desk
        BY <3>1 DEF Desks
      <4>3. desk' = [state |-> desk'.state, policy |-> desk'.policy,
                     decisions |-> desk'.decisions, sent |-> desk'.sent,
                     audit |-> desk'.audit, given |-> desk'.given,
                     call |-> desk'.call, calls |-> desk'.calls]
        BY <3>1 DEF Desks
      <4>4. desk.call \in [Managers -> DeskCalls]
        BY DEF Desks
      <4>5. desk.state \in [Leads -> Sides \cup {"READY_FOR_REVIEW"}]
        BY DEF Desks
      <4>6. desk'.call \in [Managers -> DeskCalls]
        BY <1>3, <4>2, <4>4
      <4>7. desk'.state \in [Leads -> Sides \cup {"READY_FOR_REVIEW"}]
        BY <3>2, <4>2, <4>5
      <4>8. QED  BY <3>3, <4>1, <4>2, <4>3, <4>6, <4>7 DEF Desks
    <3>6. ApprovedLeads \subseteq ApprovedLeads'
      BY <2>2, <3>2, <3>5 DEF ApprovedLeads, Desks
    <3>7. Announced'
      <4>1. ASSUME NEW l \in Leads, NEW s \in Sides
            PROVE  <<l, s>> \in desk'.sent <=> desk'.state[l] = s
        <5>1. CASE l = c.lead
          <6>1. <<l, s>> \notin desk.sent
            BY <3>2, <5>1 DEF Announced, Sides
          <6>2. desk'.state[l] = side
            BY <2>2, <3>5, <5>1 DEF Desks
          <6>3. QED  BY <3>5, <5>1, <6>1, <6>2
        <5>2. CASE l # c.lead
          <6>1. desk'.state[l] = desk.state[l]
            BY <2>2, <3>5, <5>2 DEF Desks
          <6>2. <<l, s>> \in desk'.sent <=> <<l, s>> \in desk.sent
            BY <3>5, <5>2
          <6>3. QED  BY <6>1, <6>2 DEF Announced
        <5>3. QED  BY <5>1, <5>2
      <4>2. ASSUME NEW l \in Leads, desk'.state[l] = "APPROVED"
            PROVE  \E d \in desk'.decisions : d.lead = l /\ d.verdict = "ALLOWED"
        BY <2>2, <3>3, <3>4, <3>5, <4>2 DEF Announced, Desks, ApprovedLeads, side
      <4>3. QED  BY <4>1, <4>2 DEF Announced, ApprovedLeads
    <3>8. ASSUME NEW n \in Managers
          PROVE  ReaderHolds(desk.call[n])'
      BY <3>5, <3>6 DEF ReaderHolds, Desks, NoCall
    <3>9. QED  BY <3>5, <3>6, <3>7, <3>8
  <2>5. QED  BY <2>3, <2>4
<1>6. ASSUME NEW m \in Managers, CheckApproved(m)
      PROVE  DeskInv'
  <2>1. PICK l \in Leads :
          /\ desk.state[l] = "APPROVED"
          /\ desk' = [desk EXCEPT !.calls = @ + 1,
                        !.call[m] = [NoCall EXCEPT !.pc = "decrypt", !.lead = l]]
    BY <1>6 DEF CheckApproved
  <2>2. PICK k \in DeskCalls : k = [NoCall EXCEPT !.pc = "decrypt", !.lead = l]
    BY DEF DeskCalls, NoCall, PolicyRefs
  <2>3. /\ desk' \in Desks /\ desk'.state = desk.state /\ desk'.sent = desk.sent
        /\ desk'.decisions = desk.decisions /\ desk'.audit = desk.audit
        /\ desk'.given = desk.given
        /\ desk'.call = [desk.call EXCEPT ![m] = k]
    <3>1. desk' = [desk EXCEPT !.calls = @ + 1, !.call[m] = k]
      BY <2>1, <2>2
    <3>2. /\ desk.call \in [Managers -> DeskCalls] /\ desk.calls + 1 \in Nat
          /\ [desk.call EXCEPT ![m] = k] \in [Managers -> DeskCalls]
      BY <2>2 DEF Desks
    <3>3. [desk EXCEPT !.calls = @ + 1, !.call[m] = k]
             = [desk EXCEPT !.calls = desk.calls + 1, !.call = [desk.call EXCEPT ![m] = k]]
      BY DEF Desks
    <3>4. QED  BY <3>1, <3>2, <3>3 DEF Desks
  <2>4. ReaderHolds(k)
    BY <2>1, <2>2 DEF ReaderHolds, ApprovedLeads, NoCall
  <2>5. QED  BY <2>2, <2>3, <2>4, CallMoves
<1>7. ASSUME NEW m \in Managers, Decrypt(m)
      PROVE  DeskInv'
  <2>1. PICK c \in DeskCalls : c = desk.call[m]
    BY DEF Desks
  <2>2. /\ c.pc = "decrypt" /\ c.lead \in Leads
        /\ desk' = [desk EXCEPT !.audit = @ \cup {c.lead}, !.call[m].pc = "give"]
    BY <1>7, <2>1 DEF Decrypt, ReaderHolds
  <2>3. [c EXCEPT !.pc = "give"] \in DeskCalls
    BY DEF DeskCalls
  <2>4. /\ desk'.state = desk.state /\ desk'.decisions = desk.decisions
        /\ desk'.sent = desk.sent /\ desk'.given = desk.given
        /\ desk'.audit = desk.audit \cup {c.lead}
        /\ desk'.call = [desk.call EXCEPT ![m] = [c EXCEPT !.pc = "give"]]
        /\ desk' \in Desks
    BY <2>1, <2>2, <2>3 DEF Desks
  <2>5. Announced' /\ ApprovedLeads' = ApprovedLeads
    BY <2>4 DEF Announced, ApprovedLeads
  <2>6. ASSUME NEW n \in Managers
        PROVE  ReaderHolds(desk.call[n])'
    <3>1. CASE n = m
      <4>1. desk'.call[n] = [c EXCEPT !.pc = "give"] /\ [c EXCEPT !.pc = "give"].pc = "give"
            /\ [c EXCEPT !.pc = "give"].lead = c.lead
        BY <2>4, <3>1 DEF Desks, DeskCalls
      <4>2. QED  BY <2>1, <2>2, <2>4, <2>5, <4>1 DEF ReaderHolds
    <3>2. CASE n # m
      <4>1. desk'.call[n] = desk.call[n]
        BY <2>4, <3>2 DEF Desks
      <4>2. QED  BY <2>4, <2>5, <4>1 DEF ReaderHolds
    <3>3. QED  BY <3>1, <3>2
  <2>7. QED  BY <2>4, <2>5, <2>6
<1>8. ASSUME NEW m \in Managers, Give(m)
      PROVE  DeskInv'
  <2>1. /\ desk.call[m].lead \in Leads
        /\ desk.call[m].lead \in ApprovedLeads \cap desk.audit
        /\ desk' = [desk EXCEPT !.given = @ \cup {desk.call[m].lead}, !.call[m] = NoCall]
    BY <1>8 DEF Give, ReaderHolds
  <2>2. /\ desk' \in Desks /\ desk'.state = desk.state /\ desk'.sent = desk.sent
        /\ desk'.decisions = desk.decisions /\ desk'.audit = desk.audit
        /\ desk'.given = desk.given \cup {desk.call[m].lead}
        /\ desk'.call = [desk.call EXCEPT ![m] = NoCall]
    BY <1>3, <2>1 DEF Desks
  <2>3. desk'.given \subseteq desk.audit \cap ApprovedLeads
    BY <2>1, <2>2
  <2>4. QED  BY <1>3, <2>2, <2>3, CallMoves
<1>9. CASE UNCHANGED desk
  BY <1>9 DEF Announced, ApprovedLeads, ReaderHolds
<1>10. QED
  BY <1>1, <1>2, <1>4, <1>5, <1>6, <1>7, <1>8, <1>9 DEF ReviewNext

(* For any number of requests, managers and leads: a job has its campaign, a  *)
(* lead is decided once and announced as decided, with a policy decision that *)
(* allowed an approval, and a contact is handed out only audited and approved. *)
THEOREM UseCasesAlwaysHold == AdmissionSpec => []UseCasesHold
<1>1. AdmissionInit => CampaignsFirst /\ DeskInv
  BY DEF AdmissionInit, CampaignsFirst, Steps, JobHasCampaign, DeskInv, Desks, PolicyRefs,
         DeskCalls, NoCall, Announced, ApprovedLeads, ReaderHolds, Sides
<1>2. CampaignsFirst /\ DeskInv /\ [AdmissionNext]_admissionVars => (CampaignsFirst /\ DeskInv)'
  BY CampaignStep, DeskStep
  DEF AdmissionNext, admissionVars, CampaignNext, ReviewNext, WebhookNext
<1>3. ASSUME CampaignsFirst, DeskInv
      PROVE  UseCasesHold
  <2>1. ASSUME NEW l \in Leads
        PROVE  {s \in Sides : <<l, s>> \in desk.sent} = {desk.state[l]} \ {"READY_FOR_REVIEW"}
    <3>1. desk.state[l] \in Sides \cup {"READY_FOR_REVIEW"}
      BY <1>3 DEF DeskInv, Desks
    <3>2. \A s \in Sides : <<l, s>> \in desk.sent <=> desk.state[l] = s
      BY <1>3 DEF DeskInv, Announced
    <3>3. QED  BY <3>1, <3>2 DEF Sides
  <2>4. OneVerdict
    BY <1>3, <2>1 DEF DeskInv, Announced, ApprovedLeads, OneVerdict, Sides
  <2>2. OutreachIsApproved
    BY <1>3 DEF DeskInv, OutreachIsApproved, ApprovedLeads
  <2>3. QED  BY <1>3, <2>4, <2>2 DEF UseCasesHold, CampaignsFirst
<1>4. QED
  BY <1>1, <1>2, <1>3, PTL DEF AdmissionSpec

-----------------------------------------------------------------------------
(* LegacyRouter: callers that share the providers of a task.                 *)

Listing(s) == {s[i] : i \in DOMAIN s}

\* What a caller holds on its way through the rows.
Holder(r) ==
    /\ DOMAIN r = {"pc", "rows", "usable", "due", "tried", "at", "key", "keyTry", "retry"}
    /\ r.rows \in Seq(ProviderNames)
    /\ r.pc = "read" => ProviderNames \subseteq Listing(r.rows)
    /\ r.pc = "expire" => r.due \subseteq ProviderNames \X {"month", "cooldown"}
    /\ r.pc \in {"expire", "pick", "request"} => r.usable \subseteq r.tried \cup Listing(r.rows)
    /\ r.pc \in {"request", "count"} => r.at \in r.usable
    /\ r.pc = "count" => r.at \in ProviderNames
    /\ r.pc \in {"expire", "pick", "request"} => r.usable \subseteq ProviderNames

RouteShape ==
    /\ DOMAIN route = Callers
    /\ \A c \in Callers : DOMAIN route[c] = {"here", "made", "index"}

\* The callers that were told they may use a provider, and have not counted it.
\* One that found a new month may use it only once it has reset the row.
MayCount(r, p) ==
    /\ p \in r.usable
    /\ r.pc \in {"pick", "request", "count"} \/ (r.pc = "expire" /\ <<p, "month">> \notin r.due)
MayYetCount(p) == {c \in Callers : MayCount(route[c].here, p)}

Quota(p) == Limit[p] * Keys[p]

Untils == {"none", "later", "past"}
ProviderRows == [status : Statuses, until : Untils, used : Nat]
RowsOfProviders == provider \in [ProviderNames -> ProviderRows]

\* What some callers may yet count.
Owed(C) == MaxUnits * Cardinality(C)

\* Each of them has an answer of its own in what the quota may be overshot by.
UnitsInFlight ==
    \A p \in ProviderNames : Limit[p] > 0 =>
      provider[p].used + Owed(MayYetCount(p)) <= Quota(p) - 1 + Owed(Callers)

RouterInv ==
    /\ RowsOfProviders /\ RouteShape
    /\ \A c \in Callers : Holder(route[c].here)
    /\ UnitsInFlight

(* A limited provider has a unit to use up.                                  *)
LEMMA QuotaType ==
  \A p \in ProviderNames : Quota(p) \in Nat /\ (Limit[p] > 0 => Quota(p) > 0)
<1> SUFFICES ASSUME NEW p \in ProviderNames
             PROVE  Quota(p) \in Nat /\ (Limit[p] > 0 => Quota(p) > 0)
  OBVIOUS
<1>1. PICK l \in Nat, k \in Nat \ {0} : l = Limit[p] /\ k = Keys[p]
  BY RouterAssumption
<1>2. l * k \in Nat /\ (l > 0 => l * k > 0)
  OBVIOUS
<1>3. QED  BY <1>1, <1>2 DEF Quota

(* Fewer callers have fewer units, by those of the one that is missing.      *)
LEMMA FewerOwed ==
  ASSUME NEW C \in SUBSET Callers, NEW D \in SUBSET C
  PROVE  /\ Owed(C) \in Nat /\ Owed(D) \in Nat /\ Owed(D) <= Owed(C)
         /\ \A c \in C : Owed(C \ {c}) = Owed(C) - MaxUnits
         /\ D = {} => Owed(D) = 0
         /\ C # {} => Owed(C) >= MaxUnits
<1>1. IsFiniteSet(C) /\ IsFiniteSet(D)
  BY RouterAssumption, FS_Subset
<1>2. PICK u \in Nat \ {0}, m \in Nat, n \in Nat :
        u = MaxUnits /\ m = Cardinality(D) /\ n = Cardinality(C) /\ m <= n
  BY <1>1, RouterAssumption, FS_Subset, FS_CardinalityType
<1>3. u * m \in Nat /\ u * n \in Nat /\ u * m <= u * n
  <2>1. PICK k \in Nat : n = m + k
    <3>1. n - m \in Nat /\ n = m + (n - m)
      BY <1>2
    <3>2. QED  BY <3>1
  <2>2. u * n = u * m + u * k /\ u * k \in Nat /\ u * m \in Nat
    BY <2>1
  <2>3. QED  BY <2>2
<1>4. ASSUME NEW c \in C
      PROVE  Owed(C \ {c}) = Owed(C) - MaxUnits
  <2>1. Cardinality(C \ {c}) = n - 1
    BY <1>1, <1>2, FS_RemoveElement
  <2>2. u * (n - 1) = u * n - u
    OBVIOUS
  <2>3. QED  BY <1>2, <2>1, <2>2 DEF Owed
<1>5. D = {} => Owed(D) = 0
  BY <1>2, FS_EmptySet DEF Owed
<1>6. C # {} => u * n >= u
  <2>1. n = 0 \/ n - 1 \in Nat
    BY <1>2
  <2>2. n = 0 => C = {}
    BY <1>1, <1>2, FS_EmptySet
  <2>3. n - 1 \in Nat => u * n = u * (n - 1) + u /\ u * (n - 1) \in Nat
    OBVIOUS
  <2>4. QED  BY <2>1, <2>2, <2>3
<1>7. QED
  BY <1>2, <1>3, <1>4, <1>5, <1>6 DEF Owed

(* Rows that are left are the first one and those behind it.                 *)
LEMMA ListingTail ==
  ASSUME NEW s \in Seq(ProviderNames), s # <<>>
  PROVE  /\ Head(s) \in ProviderNames /\ Tail(s) \in Seq(ProviderNames)
         /\ Listing(s) \subseteq {Head(s)} \cup Listing(Tail(s))
<1>1. ASSUME NEW i \in DOMAIN s
      PROVE  s[i] \in {Head(s)} \cup Listing(Tail(s))
  <2>1. CASE i = 1
    BY <2>1
  <2>2. CASE i # 1
    <3>1. i - 1 \in DOMAIN Tail(s) /\ Tail(s)[i - 1] = s[i]
      BY <2>2
    <3>2. QED  BY <3>1 DEF Listing
  <2>3. QED  BY <2>1, <2>2
<1>2. QED  BY <1>1 DEF Listing

(* A pinned provider only leads: every provider stays in the waterfall.      *)
LEMMA PinnedCovers ==
  ASSUME NEW pin \in ProviderNames \cup {"none"}
  PROVE  Pinned(pin) \in Seq(ProviderNames) /\ ProviderNames \subseteq Listing(Pinned(pin))
<1>1. Order \in Seq(ProviderNames) /\ Listing(Order) = ProviderNames
  <2>1. Order \in Seq(STRING) /\ DOMAIN Order = 1 .. Len(Order)
    BY RouterAssumption
  <2>2. Listing(Order) = ProviderNames
    BY <2>1 DEF ProviderNames, Listing
  <2>3. \A i \in 1 .. Len(Order) : Order[i] \in ProviderNames
    BY DEF ProviderNames
  <2>4. Order \in Seq(ProviderNames)
    BY <2>1, <2>3
  <2>5. QED  BY <2>2, <2>4
<1>2. CASE pin = "none"
  BY <1>1, <1>2 DEF Pinned
<1>3. CASE pin # "none"
  <2>1. PICK row \in DOMAIN Order :
          /\ Order[row] = pin
          /\ Pinned(pin) = <<pin>> \o SubSeq(Order, 1, row - 1)
                                   \o SubSeq(Order, row + 1, Len(Order))
    <3>1. \E i \in DOMAIN Order : Order[i] = pin
      BY <1>1, <1>3 DEF Listing
    <3>2. QED  BY <1>3, <3>1 DEF Pinned
  <2> DEFINE s == SubSeq(Order, 1, row - 1)
             t == SubSeq(Order, row + 1, Len(Order))
  <2>2. /\ s \in Seq(ProviderNames) /\ Len(s) = row - 1
        /\ \A i \in 1 .. row - 1 : s[i] = Order[i]
    BY <1>1
  <2>3. /\ t \in Seq(ProviderNames) /\ Len(t) = Len(Order) - row
        /\ \A i \in 1 .. Len(Order) - row : t[i] = Order[i + row]
    BY <1>1
  <2>4. pin \in ProviderNames
    BY <1>3
  <2> HIDE DEF s, t
  <2> DEFINE u == <<pin>> \o s
  <2>5. /\ u \in Seq(ProviderNames) /\ Len(u) = row
        /\ u[1] = pin /\ \A i \in 1 .. row - 1 : u[i + 1] = Order[i]
    BY <1>1, <2>2, <2>4
  <2> HIDE DEF u
  <2>6. /\ u \o t \in Seq(ProviderNames) /\ Len(u \o t) = Len(Order)
        /\ \A i \in 1 .. row : (u \o t)[i] = u[i]
        /\ \A i \in 1 .. Len(Order) - row : (u \o t)[i + row] = Order[i + row]
    BY <1>1, <2>3, <2>5
  <2>7. Pinned(pin) = u \o t
    BY <2>1 DEF u, s, t
  <2>8. ASSUME NEW i \in DOMAIN Order
        PROVE  Order[i] \in Listing(u \o t)
    <3>1. /\ i \in 1 .. Len(Order) /\ row \in 1 .. Len(Order) /\ Len(Order) \in Nat
          /\ DOMAIN (u \o t) = 1 .. Len(Order)
      BY <1>1, <2>6
    <3>2. CASE i < row
      <4>1. i + 1 \in DOMAIN (u \o t) /\ (u \o t)[i + 1] = Order[i]
        <5>1. i \in 1 .. row - 1 /\ i + 1 \in 1 .. row /\ i + 1 \in 1 .. Len(Order)
          BY <3>1, <3>2
        <5>2. (u \o t)[i + 1] = u[i + 1] /\ u[i + 1] = Order[i]
          BY <2>5, <2>6, <5>1
        <5>3. QED  BY <3>1, <5>1, <5>2
      <4>2. QED  BY <4>1 DEF Listing
    <3>3. CASE i = row
      <4>1. 1 \in DOMAIN (u \o t) /\ (u \o t)[1] = Order[i]
        <5>1. 1 \in 1 .. row /\ 1 \in 1 .. Len(Order)
          BY <3>1
        <5>2. (u \o t)[1] = pin
          BY <2>5, <2>6, <5>1
        <5>3. QED  BY <2>1, <3>1, <3>3, <5>1, <5>2
      <4>2. QED  BY <4>1 DEF Listing
    <3>4. CASE i > row
      <4>1. i - row \in 1 .. Len(Order) - row /\ (i - row) + row = i
        BY <3>1, <3>4
      <4>2. i \in DOMAIN (u \o t) /\ (u \o t)[i] = Order[i]
        BY <2>6, <3>1, <4>1
      <4>3. QED  BY <4>2 DEF Listing
    <3>5. QED  BY <3>1, <3>2, <3>3, <3>4
  <2>9. ProviderNames \subseteq Listing(u \o t)
    <3>1. ASSUME NEW p \in ProviderNames
          PROVE  \E i \in DOMAIN Order : p = Order[i]
      BY <1>1 DEF Listing
    <3>2. QED  BY <2>8, <3>1
  <2>10. QED  BY <2>6, <2>7, <2>9
<1>4. QED  BY <1>2, <1>3

(* A caller that moves on: what every caller holds stays in order, and the    *)
(* units in flight stay within bounds if the caller takes none more.          *)
LEMMA CallerMoves ==
  ASSUME RouterInv, NEW c \in Callers, NEW r, Holder(r), RouteShape', RowsOfProviders',
         \A d \in Callers : route'[d].here = IF d = c THEN r ELSE route[d].here,
         \A p \in ProviderNames :
           /\ provider'[p].used <= provider[p].used
           /\ MayCount(r, p) => MayCount(route[c].here, p)
  PROVE  RouterInv'
<1>1. \A d \in Callers : Holder(route[d].here)'
  <2>1. ASSUME NEW d \in Callers
        PROVE  Holder(route'[d].here)
    BY DEF RouterInv
  <2>2. QED  BY <2>1 DEF Holder, Listing, ProviderNames
<1>2. ASSUME NEW p \in ProviderNames, Limit[p] > 0
      PROVE  provider'[p].used + Owed(MayYetCount(p)') <= Quota(p) - 1 + Owed(Callers)
  <2>1. MayYetCount(p)' \subseteq MayYetCount(p) /\ MayYetCount(p) \subseteq Callers
    BY DEF MayYetCount, MayCount
  <2>2. /\ Owed(MayYetCount(p)') \in Nat /\ Owed(MayYetCount(p)) \in Nat /\ Owed(Callers) \in Nat
        /\ Owed(MayYetCount(p)') <= Owed(MayYetCount(p))
    BY <2>1, FewerOwed
  <2>3. provider'[p].used \in Nat /\ provider[p].used \in Nat
    BY DEF RouterInv, RowsOfProviders, ProviderRows
  <2>4. provider[p].used + Owed(MayYetCount(p)) <= Quota(p) - 1 + Owed(Callers)
    BY <1>2 DEF RouterInv, UnitsInFlight
  <2>5. QED  BY <2>2, <2>3, <2>4, QuotaType
<1>3. QED  BY <1>1, <1>2 DEF RouterInv, UnitsInFlight, Quota, Owed, MayYetCount

(* Steps that move no caller and use no quota up.                             *)
LEMMA RowsMove ==
  ASSUME RouterInv, route' = route, RowsOfProviders',
         \A p \in ProviderNames : provider'[p].used <= provider[p].used
  PROVE  RouterInv'
<1>1. ASSUME NEW p \in ProviderNames, Limit[p] > 0
      PROVE  provider'[p].used + Owed(MayYetCount(p)') <= Quota(p) - 1 + Owed(Callers)
  <2>1. MayYetCount(p)' = MayYetCount(p) /\ MayYetCount(p) \subseteq Callers
    BY DEF MayYetCount
  <2>2. Owed(MayYetCount(p)) \in Nat /\ Owed(Callers) \in Nat
    BY <2>1, FewerOwed
  <2>3. provider'[p].used \in Nat /\ provider[p].used \in Nat
    BY DEF RouterInv, RowsOfProviders, ProviderRows
  <2>4. provider[p].used + Owed(MayYetCount(p)) <= Quota(p) - 1 + Owed(Callers)
    BY <1>1 DEF RouterInv, UnitsInFlight
  <2>5. QED  BY <2>1, <2>2, <2>3, <2>4, QuotaType
<1>2. RouteShape' /\ \A c \in Callers : Holder(route[c].here)'
  <2>1. ASSUME NEW c \in Callers
        PROVE  Holder(route'[c].here)
    BY DEF RouterInv
  <2>2. QED  BY <2>1 DEF RouterInv, RouteShape, Holder, Listing, ProviderNames
<1>3. QED  BY <1>1, <1>2 DEF RouterInv, UnitsInFlight, Quota, Owed, MayYetCount

(* A read lets the caller count an answer of each provider with quota left,   *)
(* save those whose month it has yet to turn.                                 *)
LEMMA ReadStep ==
  ASSUME RouterInv, NEW c \in Callers, ReadRegistry(c)
  PROVE  RouterInv'
<1> DEFINE h == route[c].here
<1>0. PICK U \in SUBSET ProviderNames : U = {p \in ProviderNames : UsableRow(p)}
  OBVIOUS
<1> DEFINE r == [h EXCEPT !.pc = "expire", !.due = Outdated, !.usable = U]
<1>1. h.pc = "read" /\ Holder(h)
  BY DEF ReadRegistry, RouterInv
<1>2. route' = [route EXCEPT ![c].here = r] /\ provider' = provider
  BY <1>0 DEF ReadRegistry, Step
<1>3. Holder(r) /\ r.pc = "expire" /\ r.usable = U /\ r.due = Outdated
  <2>1. /\ r.pc = "expire" /\ r.usable = U /\ r.rows = h.rows /\ r.tried = h.tried
        /\ r.due = Outdated /\ DOMAIN r = DOMAIN h
    BY <1>1 DEF Holder
  <2>2. h.rows \in Seq(ProviderNames) /\ U \subseteq Listing(h.rows)
    BY <1>1 DEF Holder
  <2>3. Outdated \subseteq ProviderNames \X {"month", "cooldown"}
    BY DEF RouterInv, Outdated
  <2>4. QED  BY <1>1, <2>1, <2>2, <2>3 DEF Holder
<1>4. RouteShape' /\ \A d \in Callers : route'[d].here = IF d = c THEN r ELSE route[d].here
  BY <1>2 DEF RouterInv, RouteShape
<1>5. RowsOfProviders'
  BY <1>2 DEF RouterInv, RowsOfProviders
<1>6. \A d \in Callers : Holder(route[d].here)'
  <2>1. ASSUME NEW d \in Callers
        PROVE  Holder(route'[d].here)
    BY <1>3, <1>4 DEF RouterInv
  <2>2. QED  BY <2>1 DEF Holder, Listing, ProviderNames
<1>7. ASSUME NEW p \in ProviderNames, Limit[p] > 0
      PROVE  provider'[p].used + Owed(MayYetCount(p)') <= Quota(p) - 1 + Owed(Callers)
  <2>1. /\ MayYetCount(p) \subseteq Callers /\ MayYetCount(p)' \subseteq Callers
        /\ \A d \in MayYetCount(p)' : d # c => d \in MayYetCount(p)
    BY <1>4 DEF MayYetCount
  <2>2. /\ Owed(MayYetCount(p)') \in Nat /\ Owed(MayYetCount(p)) \in Nat /\ Owed(Callers) \in Nat
        /\ Owed(MayYetCount(p)') <= Owed(Callers)
    BY <2>1, FewerOwed
  <2>3. provider[p].used \in Nat /\ provider'[p].used = provider[p].used
    BY <1>2 DEF RouterInv, RowsOfProviders, ProviderRows
  <2>4. CASE UsableRow(p) /\ p \notin stale
    <3>1. Expired(p).used = provider[p].used
      BY <2>4 DEF Expired, RouterInv, RowsOfProviders, ProviderRows
    <3>2. provider[p].used < Quota(p)
      BY <1>7, <2>4, <3>1, RouterAssumption DEF UsableRow, Quota
    <3>3. QED  BY <2>2, <2>3, <3>2, QuotaType
  <2>5. CASE ~(UsableRow(p) /\ p \notin stale)
    <3>1. ~MayCount(r, p)
      BY <1>0, <1>3, <2>5 DEF MayCount, Outdated
    <3>2. MayYetCount(p)' \subseteq MayYetCount(p)
      BY <1>4, <2>1, <3>1 DEF MayYetCount
    <3>3. Owed(MayYetCount(p)') <= Owed(MayYetCount(p))
      BY <2>1, <3>2, FewerOwed
    <3>4. provider[p].used + Owed(MayYetCount(p)) <= Quota(p) - 1 + Owed(Callers)
      BY <1>7 DEF RouterInv, UnitsInFlight
    <3>5. QED  BY <2>2, <2>3, <3>3, <3>4, QuotaType
  <2>6. QED  BY <2>4, <2>5
<1>8. QED  BY <1>4, <1>5, <1>6, <1>7 DEF RouterInv, UnitsInFlight, Quota, Owed, MayYetCount

(* A row is written as its reader took it: with nothing used, a whole answer  *)
(* of each caller fits.                                                       *)
LEMMA ExpireStep ==
  ASSUME RouterInv, NEW c \in Callers, ExpireRow(c)
  PROVE  RouterInv'
<1> DEFINE h == route[c].here
<1>1. h.pc = "expire" /\ Holder(h) /\ h.due \subseteq ProviderNames \X {"month", "cooldown"}
  BY DEF ExpireRow, RouterInv, Holder
<1>2. PICK x \in h.due :
        /\ route' = [route EXCEPT ![c].here = [h EXCEPT !.due = @ \ {x}]]
        /\ IF x[2] = "month" THEN provider' = [provider EXCEPT ![x[1]] = Renewed]
           ELSE provider' = Mark(x[1], "active", "none")
  BY DEF ExpireRow, Step
<1>3. x[1] \in ProviderNames /\ x[2] \in {"month", "cooldown"} /\ x = <<x[1], x[2]>>
  BY <1>1
<1> DEFINE r == [h EXCEPT !.due = @ \ {x}]
<1>4. /\ Holder(r) /\ r.pc = "expire" /\ r.usable = h.usable /\ r.due = h.due \ {x}
  <2>1. /\ r.pc = "expire" /\ r.usable = h.usable /\ r.due = h.due \ {x} /\ r.rows = h.rows
        /\ r.tried = h.tried /\ DOMAIN r = DOMAIN h
    BY <1>1 DEF Holder
  <2>2. QED  BY <1>1, <2>1 DEF Holder
<1>5. RouteShape' /\ \A d \in Callers : route'[d].here = IF d = c THEN r ELSE route[d].here
  BY <1>2 DEF RouterInv, RouteShape
<1>6. provider \in [ProviderNames -> ProviderRows]
  BY DEF RouterInv, RowsOfProviders
<1>7. PICK v \in ProviderRows : v = provider[x[1]]
  BY <1>3, <1>6
<1>8. PICK w \in ProviderRows :
        /\ provider' = [provider EXCEPT ![x[1]] = w]
        /\ IF x[2] = "month" THEN w.used = 0 ELSE w.used = v.used
  <2>1. CASE x[2] = "month"
    <3>1. Renewed \in ProviderRows /\ Renewed.used = 0
      BY DEF Renewed, ProviderRows, Statuses, Untils
    <3>2. QED  BY <1>2, <2>1, <3>1
  <2>2. CASE x[2] # "month"
    <3>1. PICK w : w = [v EXCEPT !.status = "active", !.until = "none"]
      OBVIOUS
    <3>2. w \in ProviderRows /\ w.used = v.used
      BY <1>7, <3>1 DEF ProviderRows, Statuses, Untils
    <3>3. provider' = [provider EXCEPT ![x[1]] = w]
      BY <1>2, <1>3, <1>6, <1>7, <2>2, <3>1 DEF Mark
    <3>4. QED  BY <2>2, <3>2, <3>3
  <2>3. QED  BY <2>1, <2>2
<1>9. RowsOfProviders'
  BY <1>6, <1>8 DEF RowsOfProviders
<1>10. \A d \in Callers : Holder(route[d].here)'
  <2>1. ASSUME NEW d \in Callers
        PROVE  Holder(route'[d].here)
    BY <1>4, <1>5 DEF RouterInv
  <2>2. QED  BY <2>1 DEF Holder, Listing, ProviderNames
<1>11. ASSUME NEW p \in ProviderNames, Limit[p] > 0
       PROVE  provider'[p].used + Owed(MayYetCount(p)') <= Quota(p) - 1 + Owed(Callers)
  <2>1. MayYetCount(p) \subseteq Callers /\ MayYetCount(p)' \subseteq Callers
    BY DEF MayYetCount
  <2>2. /\ Owed(MayYetCount(p)') \in Nat /\ Owed(MayYetCount(p)) \in Nat /\ Owed(Callers) \in Nat
        /\ Owed(MayYetCount(p)') <= Owed(Callers)
    BY <2>1, FewerOwed
  <2>3. provider[p].used \in Nat /\ provider'[p].used = IF p = x[1] THEN w.used ELSE provider[p].used
    BY <1>3, <1>6, <1>8 DEF ProviderRows
  <2>4. CASE x = <<p, "month">>
    <3>1. provider'[p].used = 0
      BY <1>8, <2>3, <2>4
    <3>2. QED  BY <1>11, <2>2, <3>1, QuotaType
  <2>5. CASE x # <<p, "month">>
    <3>1. provider'[p].used = provider[p].used
      BY <1>3, <1>7, <1>8, <2>3, <2>5
    <3>2. MayCount(r, p) => MayCount(h, p)
      BY <1>1, <1>4, <2>5 DEF MayCount
    <3>3. MayYetCount(p)' \subseteq MayYetCount(p)
      BY <1>5, <3>2 DEF MayYetCount
    <3>4. Owed(MayYetCount(p)') <= Owed(MayYetCount(p))
      BY <2>1, <3>3, FewerOwed
    <3>5. provider[p].used + Owed(MayYetCount(p)) <= Quota(p) - 1 + Owed(Callers)
      BY <1>11 DEF RouterInv, UnitsInFlight
    <3>6. QED  BY <2>2, <2>3, <3>1, <3>4, <3>5, QuotaType
  <2>6. QED  BY <2>4, <2>5
<1>12. QED  BY <1>5, <1>9, <1>10, <1>11 DEF RouterInv, UnitsInFlight, Quota, Owed, MayYetCount

(* More units in a row of the registry.                                       *)
LEMMA UsedMore ==
  ASSUME NEW x \in ProviderRows, NEW u \in Nat, NEW y, y = [x EXCEPT !.used = @ + u]
  PROVE  y \in ProviderRows /\ y.used = x.used + u
BY DEF ProviderRows

(* The units that are counted were the caller's own.                          *)
LEMMA CountStep ==
  ASSUME RouterInv, NEW c \in Callers, CountQuota(c)
  PROVE  RouterInv'
<1> DEFINE h == route[c].here
           r == [h EXCEPT !.pc = "mark"]
<1>1. h.pc = "count" /\ Holder(h) /\ h.at \in h.usable /\ h.at \in ProviderNames
  BY DEF CountQuota, RouterInv, Holder
<1>2. PICK u \in 0 .. MaxUnits :
        /\ route' = [route EXCEPT ![c].here = r]
        /\ provider' = [provider EXCEPT ![h.at].used = @ + u]
  BY DEF CountQuota, Step
<1>units. u \in Nat /\ u <= MaxUnits /\ MaxUnits \in Nat
  BY RouterAssumption
<1>3. Holder(r) /\ r.pc = "mark"
  BY <1>1 DEF Holder
<1>4. RouteShape' /\ \A d \in Callers : route'[d].here = IF d = c THEN r ELSE route[d].here
  BY <1>2 DEF RouterInv, RouteShape
<1>5. /\ RowsOfProviders'
      /\ \A p \in ProviderNames : provider'[p].used =
            IF p = h.at THEN provider[p].used + u ELSE provider[p].used
  <2>1. provider \in [ProviderNames -> ProviderRows]
    BY DEF RouterInv, RowsOfProviders
  <2>2. PICK x \in ProviderRows : x = provider[h.at]
    BY <1>1, <2>1
  <2>3. PICK y : y = [x EXCEPT !.used = @ + u]
    OBVIOUS
  <2>4. y \in ProviderRows /\ y.used = x.used + u
    BY <1>units, <2>2, <2>3, UsedMore, Zenon
  <2>5. provider' = [provider EXCEPT ![h.at] = y]
    BY <1>2, <2>2, <2>3
  <2>6. RowsOfProviders'
    BY <2>1, <2>4, <2>5 DEF RowsOfProviders
  <2>7. QED  BY <1>1, <2>1, <2>2, <2>4, <2>5, <2>6
<1>6. \A d \in Callers : Holder(route[d].here)'
  <2>1. ASSUME NEW d \in Callers
        PROVE  Holder(route'[d].here)
    BY <1>3, <1>4 DEF RouterInv
  <2>2. QED  BY <2>1 DEF Holder, Listing, ProviderNames
<1>7. ASSUME NEW p \in ProviderNames, Limit[p] > 0
      PROVE  provider'[p].used + Owed(MayYetCount(p)') <= Quota(p) - 1 + Owed(Callers)
  <2>1. MayYetCount(p)' = MayYetCount(p) \ {c} /\ MayYetCount(p) \subseteq Callers
    BY <1>3, <1>4 DEF MayYetCount, MayCount
  <2>2. /\ Owed(MayYetCount(p)) \in Nat /\ Owed(MayYetCount(p)') \in Nat /\ Owed(Callers) \in Nat
        /\ Owed(MayYetCount(p)') <= Owed(MayYetCount(p))
        /\ c \in MayYetCount(p) => Owed(MayYetCount(p) \ {c}) = Owed(MayYetCount(p)) - MaxUnits
    BY <2>1, FewerOwed
  <2>3. p = h.at => c \in MayYetCount(p)
    BY <1>1 DEF MayYetCount, MayCount
  <2>4. provider[p].used + Owed(MayYetCount(p)) <= Quota(p) - 1 + Owed(Callers)
    BY <1>7 DEF RouterInv, UnitsInFlight
  <2>5. provider[p].used \in Nat
    BY DEF RouterInv, RowsOfProviders, ProviderRows
  <2>6. provider'[p].used = IF p = h.at THEN provider[p].used + u ELSE provider[p].used
    BY <1>5
  <2>7. CASE p = h.at
    BY <1>units, <2>1, <2>2, <2>3, <2>4, <2>5, <2>6, <2>7, QuotaType
  <2>8. CASE p # h.at
    BY <2>2, <2>4, <2>5, <2>6, <2>8, QuotaType
  <2>9. QED  BY <2>7, <2>8
<1>8. QED  BY <1>4, <1>5, <1>6, <1>7 DEF RouterInv, UnitsInFlight, Quota, Owed, MayYetCount

(* One caller's way through the waterfall (router.py), step by step.          *)
LEMMA RouteStepKeeps ==
  ASSUME RouterInv, NEW c \in Callers, RouteStep(c)
  PROVE  RouterInv'
<1> DEFINE h == route[c].here
<1>1. /\ Holder(h) /\ RowsOfProviders
      /\ DOMAIN route = Callers
      /\ \A d \in Callers : DOMAIN route[d] = {"here", "made", "index"}
      /\ DOMAIN h = {"pc", "rows", "usable", "due", "tried", "at", "key", "keyTry", "retry"}
  BY DEF RouterInv, RouteShape, Holder
<1>2. ASSUME NEW r, Holder(r), RouteShape', RowsOfProviders',
             \A p \in ProviderNames : provider'[p].used <= provider[p].used,
             \A p \in ProviderNames : MayCount(r, p) => MayCount(h, p),
             \A d \in Callers : route'[d].here = IF d = c THEN r ELSE route[d].here
      PROVE  RouterInv'
  BY <1>2, CallerMoves
<1>3. ASSUME NEW r, route' = [route EXCEPT ![c].here = r]
      PROVE  /\ RouteShape'
             /\ \A d \in Callers : route'[d].here = IF d = c THEN r ELSE route[d].here
  BY <1>1, <1>3 DEF RouteShape
<1>4. provider' = provider =>
        /\ RowsOfProviders'
        /\ \A p \in ProviderNames : provider'[p].used <= provider[p].used
  BY DEF RouterInv, RowsOfProviders, ProviderRows
<1>5. ASSUME NEW p, NEW s \in Statuses, NEW u \in Untils, provider' = Mark(p, s, u)
      PROVE  /\ RowsOfProviders'
             /\ \A q \in ProviderNames : provider'[q].used <= provider[q].used
  <2>1. \A q \in ProviderNames : provider[q].used \in Nat
    BY <1>1 DEF RowsOfProviders, ProviderRows
  <2>2. ASSUME NEW q \in ProviderNames
        PROVE  /\ provider'[q] \in ProviderRows
               /\ provider'[q].used = provider[q].used
    <3>1. PICK v \in ProviderRows : v = provider[q]
      BY <1>1 DEF RowsOfProviders
    <3>2. provider'[q] \in {v, [v EXCEPT !.status = s, !.until = u]}
      BY <1>1, <1>5, <3>1 DEF Mark, RowsOfProviders
    <3>3. QED  BY <3>1, <3>2 DEF ProviderRows
  <2>3. provider' = [q \in ProviderNames |-> provider'[q]]
    BY <1>1, <1>5 DEF Mark, RowsOfProviders
  <2>4. QED  BY <2>1, <2>2, <2>3 DEF RowsOfProviders
<1>6. Holder(NoRoute) /\ \A p \in ProviderNames : ~MayCount(NoRoute, p)
  BY DEF Holder, NoRoute, MayCount
<1>7. ASSUME BeginRoute(c)
      PROVE  RouterInv'
  <2>1. PICK pin \in ProviderNames \cup {"none"}, go \in {"read", "none"} :
          route' = [route EXCEPT ![c].made = @ + 1,
                      ![c].here = [NoRoute EXCEPT !.pc = go, !.rows = Pinned(pin)]]
    BY <1>7 DEF BeginRoute
  <2>2. PICK s \in Seq(ProviderNames) : s = Pinned(pin) /\ ProviderNames \subseteq Listing(s)
    BY PinnedCovers
  <2> DEFINE r == [NoRoute EXCEPT !.pc = go, !.rows = s]
  <2>3. r.pc = go /\ r.rows = s /\ r.usable = {} /\ DOMAIN r = DOMAIN NoRoute
    BY DEF NoRoute
  <2>4. Holder(r) /\ \A p \in ProviderNames : ~MayCount(r, p)
    BY <1>6, <2>2, <2>3 DEF Holder, MayCount
  <2>5. /\ RouteShape'
        /\ \A d \in Callers : route'[d].here = IF d = c THEN r ELSE route[d].here
    BY <1>1, <2>1, <2>2 DEF RouteShape
  <2>6. provider' = provider
    BY <1>7 DEF BeginRoute
  <2>7. QED  BY <1>2, <1>4, <2>4, <2>5, <2>6
<1>8. ASSUME CacheHit(c)
      PROVE  RouterInv'
  <2>1. /\ RouteShape'
        /\ \A d \in Callers : route'[d].here = IF d = c THEN h ELSE route[d].here
    BY <1>1, <1>8 DEF CacheHit, RouteShape
  <2>2. QED  BY <1>1, <1>2, <1>4, <1>8, <2>1 DEF CacheHit
<1>9. ASSUME PickProvider(c)
      PROVE  RouterInv'
  <2> DEFINE p == Head(h.rows)
  <2>1. h.pc = "pick" /\ h.rows \in Seq(ProviderNames) /\ h.rows # <<>>
    BY <1>1, <1>9 DEF PickProvider, Holder
  <2>2. PICK t \in Seq(ProviderNames) :
          t = Tail(h.rows) /\ Listing(h.rows) \subseteq {p} \cup Listing(t)
    BY <2>1, ListingTail
  <2>3. p \in ProviderNames
    BY <2>1, ListingTail
  <2>4. h.usable \subseteq h.tried \cup {p} \cup Listing(t) /\ h.usable \subseteq ProviderNames
    BY <1>1, <2>1, <2>2 DEF Holder
  <2>5. CASE p \notin h.usable /\ Step(c, [h EXCEPT !.rows = Tail(@)]) /\ UNCHANGED provider
    <3> DEFINE r == [h EXCEPT !.rows = t]
    <3>1. /\ r.pc = "pick" /\ r.rows = t /\ r.usable = h.usable /\ r.tried = h.tried
          /\ DOMAIN r = DOMAIN h
      BY <1>1, <2>1
    <3>2. Holder(r) /\ \A q \in ProviderNames : MayCount(r, q) => MayCount(h, q)
      BY <1>1, <2>1, <2>4, <2>5, <3>1 DEF Holder, MayCount
    <3>3. route' = [route EXCEPT ![c].here = r]
      BY <1>1, <2>2, <2>5 DEF Step
    <3>4. QED  BY <1>2, <1>3, <1>4, <2>5, <3>2, <3>3
  <2>6. CASE /\ p \in h.usable /\ provider' = Mark(p, "cooldown", "later")
             /\ Step(c, [h EXCEPT !.rows = Tail(@), !.tried = @ \cup {p}])
    <3> DEFINE r == [h EXCEPT !.rows = t, !.tried = @ \cup {p}]
    <3>1. /\ r.pc = "pick" /\ r.rows = t /\ r.usable = h.usable
          /\ r.tried = h.tried \cup {p} /\ DOMAIN r = DOMAIN h
      BY <1>1, <2>1
    <3>2. Holder(r) /\ \A q \in ProviderNames : MayCount(r, q) => MayCount(h, q)
      BY <1>1, <2>1, <2>4, <3>1 DEF Holder, MayCount
    <3>3. route' = [route EXCEPT ![c].here = r]
      BY <1>1, <2>2, <2>6 DEF Step
    <3>4. QED  BY <1>2, <1>3, <1>5, <2>6, <3>2, <3>3 DEF Statuses, Untils
  <2>7. ASSUME p \in h.usable, UNCHANGED provider, NEW k, k = BudgetKey(p, route[c].index[p]),
               route' = [route EXCEPT ![c].index[p] = k, ![c].here =
                 [h EXCEPT !.rows = Tail(@), !.pc = "request", !.at = p, !.key = k,
                           !.keyTry = 0, !.retry = 0, !.tried = @ \cup {p}]]
        PROVE  RouterInv'
    <3> DEFINE r == [h EXCEPT !.rows = t, !.pc = "request", !.at = p, !.key = k,
                              !.keyTry = 0, !.retry = 0, !.tried = @ \cup {p}]
    <3>1. /\ r.pc = "request" /\ r.rows = t /\ r.usable = h.usable /\ r.at = p
          /\ r.tried = h.tried \cup {p} /\ DOMAIN r = DOMAIN h
      BY <1>1, <2>1
    <3>2. Holder(r) /\ \A q \in ProviderNames : MayCount(r, q) => MayCount(h, q)
      BY <1>1, <2>1, <2>3, <2>4, <2>7, <3>1 DEF Holder, MayCount
    <3>3. /\ RouteShape'
          /\ \A d \in Callers : route'[d].here = IF d = c THEN r ELSE route[d].here
      BY <1>1, <2>2, <2>7 DEF RouteShape
    <3>4. QED  BY <1>2, <1>4, <2>7, <3>2, <3>3
  <2>8. QED  BY <1>9, <2>5, <2>6, <2>7 DEF PickProvider
<1>10. ASSUME RequestSucceeds(c)
       PROVE  RouterInv'
  <2> DEFINE r == [h EXCEPT !.pc = "count"]
  <2>1. h.pc = "request" /\ route' = [route EXCEPT ![c].here = r] /\ provider' = provider
    BY <1>10 DEF RequestSucceeds, Step
  <2>2. /\ r.pc = "count" /\ r.rows = h.rows /\ r.usable = h.usable /\ r.at = h.at
        /\ DOMAIN r = DOMAIN h
    BY <1>1
  <2>3. Holder(r) /\ \A q \in ProviderNames : MayCount(r, q) => MayCount(h, q)
    BY <1>1, <2>1, <2>2 DEF Holder, MayCount
  <2>4. QED  BY <1>2, <1>3, <1>4, <2>1, <2>3
<1>11. ASSUME MarkQuota(c)
       PROVE  RouterInv'
  <2>1. route' = [route EXCEPT ![c].here = NoRoute]
    BY <1>11 DEF MarkQuota, Step
  <2>2. \/ provider' = provider
        \/ provider' = Mark(h.at, "exhausted", "none")
        \/ provider' = Mark(h.at, "cooldown", "later")
    BY <1>11 DEF MarkQuota
  <2>3. QED  BY <1>2, <1>3, <1>4, <1>5, <1>6, <2>1, <2>2 DEF Statuses, Untils
<1>12. ASSUME NoProvider(c)
       PROVE  RouterInv'
  <2>1. route' = [route EXCEPT ![c].here = NoRoute] /\ provider' = provider
    BY <1>12 DEF NoProvider, Step
  <2>2. QED  BY <1>2, <1>3, <1>4, <1>6, <2>1
<1>13. ASSUME NEW f \in Failures, RequestFails(c, f)
       PROVE  RouterInv'
  <2>1. h.pc = "request"
    BY <1>13 DEF RequestFails
  <2>2. CASE f = "5xx" /\ h.retry < Retries5xx
    <3> DEFINE r == [h EXCEPT !.retry = @ + 1]
    <3>1. route' = [route EXCEPT ![c].here = r] /\ provider' = provider
      BY <1>13, <2>2 DEF RequestFails, Step
    <3>2. /\ r.pc = "request" /\ r.rows = h.rows /\ r.usable = h.usable /\ r.at = h.at
          /\ r.tried = h.tried /\ DOMAIN r = DOMAIN h
      BY <1>1, <2>1
    <3>3. Holder(r) /\ \A q \in ProviderNames : MayCount(r, q) => MayCount(h, q)
      BY <1>1, <2>1, <3>2 DEF Holder, MayCount
    <3>4. QED  BY <1>2, <1>3, <1>4, <3>1, <3>3
  <2>3. CASE f \in {"429", "quota", "auth"} /\ h.key < Keys[h.at]
    <3> DEFINE r == [h EXCEPT !.key = @ + 1, !.keyTry = @ + 1]
    <3>1. /\ route' = [route EXCEPT ![c].index[h.at] = h.key + 1, ![c].here = r]
          /\ provider' = provider
      BY <1>13, <2>3 DEF RequestFails
    <3>2. /\ r.pc = "request" /\ r.rows = h.rows /\ r.usable = h.usable /\ r.at = h.at
          /\ r.tried = h.tried /\ DOMAIN r = DOMAIN h
      BY <1>1, <2>1
    <3>3. Holder(r) /\ \A q \in ProviderNames : MayCount(r, q) => MayCount(h, q)
      BY <1>1, <2>1, <3>2 DEF Holder, MayCount
    <3>4. /\ RouteShape'
          /\ \A d \in Callers : route'[d].here = IF d = c THEN r ELSE route[d].here
      BY <1>1, <3>1 DEF RouteShape
    <3>5. QED  BY <1>2, <1>4, <3>1, <3>3, <3>4
  <2>4. CASE /\ ~(f = "5xx" /\ h.retry < Retries5xx)
             /\ ~(f \in {"429", "quota", "auth"} /\ h.key < Keys[h.at])
    <3> DEFINE r == [h EXCEPT !.pc = "pick"]
    <3>1. /\ route' = [route EXCEPT ![c].here = r]
          /\ provider' = IF f = "error" THEN provider
                         ELSE Mark(h.at, MarkedAs(f)[1], MarkedAs(f)[2])
      BY <1>13, <2>4 DEF RequestFails, Step
    <3>2. ASSUME f # "error"
          PROVE  MarkedAs(f)[1] \in Statuses /\ MarkedAs(f)[2] \in Untils
      <4>1. MarkedAs(f) \in {<<"exhausted", "none">>, <<"cooldown", "later">>}
        BY <3>2 DEF MarkedAs, Failures
      <4>2. CASE MarkedAs(f) = <<"exhausted", "none">>
        BY <4>2 DEF Statuses, Untils
      <4>3. CASE MarkedAs(f) = <<"cooldown", "later">>
        BY <4>3 DEF Statuses, Untils
      <4>4. QED  BY <4>1, <4>2, <4>3
    <3>3. /\ r.pc = "pick" /\ r.rows = h.rows /\ r.usable = h.usable
          /\ r.tried = h.tried /\ DOMAIN r = DOMAIN h
      BY <1>1
    <3>4. Holder(r) /\ \A q \in ProviderNames : MayCount(r, q) => MayCount(h, q)
      BY <1>1, <2>1, <3>3 DEF Holder, MayCount
    <3>5. QED  BY <1>2, <1>3, <1>4, <1>5, <3>1, <3>2, <3>4
  <2>5. QED  BY <2>2, <2>3, <2>4
<1>14. ASSUME StartWaterfall(c)
       PROVE  RouterInv'
  <2> DEFINE r == [h EXCEPT !.pc = "pick"]
  <2>1. h.pc = "expire" /\ h.due = {} /\ route' = [route EXCEPT ![c].here = r]
        /\ provider' = provider
    BY <1>14 DEF StartWaterfall, Step
  <2>2. /\ r.pc = "pick" /\ r.rows = h.rows /\ r.usable = h.usable /\ r.tried = h.tried
        /\ DOMAIN r = DOMAIN h
    BY <1>1
  <2>3. Holder(r) /\ \A q \in ProviderNames : MayCount(r, q) => MayCount(h, q)
    BY <1>1, <2>1, <2>2 DEF Holder, MayCount
  <2>4. QED  BY <1>2, <1>3, <1>4, <2>1, <2>3
<1>15. QED
  BY <1>7, <1>8, <1>9, <1>10, <1>11, <1>12, <1>13, <1>14, ReadStep, ExpireStep, CountStep
     DEF RouteStep

(* However many callers share the providers of a task: a quota is overshot by *)
(* less than an answer of each, however months turn, and a job that pauses    *)
(* has tried every provider it was told it may use.                           *)
THEOREM ProvidersStayShared == RouterSpec => []ProvidersAreShared
<1>1. ASSUME RouterInit
      PROVE  RouterInv
  <2>1. RowsOfProviders /\ \A p \in ProviderNames : provider[p].used <= Quota(p)
    <3>1. ASSUME NEW p \in ProviderNames
          PROVE  provider[p] \in ProviderRows
      <4>1. PICK n \in 0 .. MaxUsed :
              provider[p] = [status |-> "active", until |-> "none", used |-> n]
        BY <1>1 DEF RouterInit
      <4>2. n \in Nat
        OBVIOUS
      <4>3. QED  BY <4>1, <4>2 DEF ProviderRows, Statuses, Untils
    <3>2. RowsOfProviders
      BY <1>1, <3>1 DEF RouterInit, RowsOfProviders
    <3>3. \A p \in ProviderNames : provider[p].used <= Quota(p)
      BY <1>1 DEF RouterInit, Quota
    <3>4. QED  BY <3>2, <3>3
  <2>2. RouteShape /\ \A c \in Callers : route[c].here = NoRoute
    BY <1>1 DEF RouterInit, RouteShape
  <2>3. \A c \in Callers : Holder(route[c].here)
    <3>1. Holder(NoRoute)
      BY DEF Holder, NoRoute
    <3>2. QED  BY <2>2, <3>1
  <2>4. ASSUME NEW p \in ProviderNames
        PROVE  provider[p].used + Owed(MayYetCount(p)) <= Quota(p) - 1 + Owed(Callers)
    <3>1. MayYetCount(p) = {}
      BY <2>2 DEF MayYetCount, MayCount, NoRoute
    <3>2. /\ Owed(MayYetCount(p)) = 0 /\ Owed(Callers) \in Nat /\ Owed(Callers) >= MaxUnits
          /\ MaxUnits \in Nat \ {0}
      BY <3>1, FewerOwed, RouterAssumption
    <3>3. provider[p].used \in Nat /\ provider[p].used <= Quota(p)
      BY <2>1 DEF RowsOfProviders, ProviderRows
    <3>4. QED  BY <3>2, <3>3, QuotaType
  <2>5. QED  BY <2>1, <2>2, <2>3, <2>4 DEF RouterInv, UnitsInFlight
<1>2. ASSUME RouterInv, [RouterNext]_routerVars
      PROVE  RouterInv'
  <2>1. CASE \E c \in Callers : RouteStep(c)
    BY <1>2, <2>1, RouteStepKeeps
  <2>2. ASSUME route' = route, provider' = provider
        PROVE  RouterInv'
    BY <1>2, <2>2, RowsMove DEF RouterInv, RowsOfProviders, ProviderRows
  <2>3. ASSUME NEW p \in ProviderNames, CooldownEnds(p)
        PROVE  RouterInv'
    <3>1. PICK v \in ProviderRows : v = provider[p]
      BY <1>2 DEF RouterInv, RowsOfProviders, ProviderRows
    <3>2. provider' = [provider EXCEPT ![p] = [v EXCEPT !.until = "past"]] /\ route' = route
      BY <2>3, <3>1 DEF CooldownEnds
    <3>3. /\ RowsOfProviders'
          /\ \A q \in ProviderNames : provider'[q].used = provider[q].used
                                      /\ provider[q].used \in Nat
      <4>1. PICK w : w = [v EXCEPT !.until = "past"]
        OBVIOUS
      <4>2. w \in ProviderRows /\ w.used = v.used
        BY <3>1, <4>1 DEF ProviderRows, Untils
      <4>3. provider' = [provider EXCEPT ![p] = w]
        BY <3>2, <4>1
      <4>4. QED  BY <1>2, <3>1, <4>2, <4>3 DEF RouterInv, RowsOfProviders, ProviderRows
    <3>4. QED  BY <1>2, <3>2, <3>3, RowsMove
  <2>4. QED
    BY <1>2, <2>1, <2>2, <2>3 DEF RouterNext, CacheExpires, MonthTurns, routerVars
<1>3. ASSUME RouterInv
      PROVE  ProvidersAreShared
  <2>1. ASSUME NEW p \in ProviderNames, Limit[p] > 0
        PROVE  provider[p].used <= Quota(p) - 1 + Owed(Callers)
    <3>1. Owed(MayYetCount(p)) \in Nat /\ Owed(Callers) \in Nat
      <4>1. MayYetCount(p) \subseteq Callers
        BY DEF MayYetCount
      <4>2. QED  BY <4>1, FewerOwed
    <3>2. provider[p].used + Owed(MayYetCount(p)) <= Quota(p) - 1 + Owed(Callers)
      BY <1>3, <2>1 DEF RouterInv, UnitsInFlight
    <3>3. QED  BY <1>3, <3>1, <3>2, QuotaType DEF RouterInv, RowsOfProviders, ProviderRows
  <2>2. ASSUME NEW c \in Callers, route[c].here.pc = "pick", route[c].here.rows = <<>>
        PROVE  route[c].here.usable \subseteq route[c].here.tried
    <3>1. route[c].here.usable \subseteq route[c].here.tried \cup Listing(<<>>)
      BY <1>3, <2>2 DEF RouterInv, Holder
    <3>2. Listing(<<>>) = {}
      BY DEF Listing
    <3>3. QED  BY <3>1, <3>2
  <2>3. QED
    BY <2>1, <2>2 DEF ProvidersAreShared, QuotaOvershootBounded, PauseIsJustified, Quota, Owed
<1>4. QED
  BY <1>1, <1>2, <1>3, PTL DEF RouterSpec

-----------------------------------------------------------------------------
(* Guards: the token bucket, and the gate with its list.                     *)

\* The requests let through that read the clock within a stretch of time, and
\* the units of the bucket at a time, were it never full.
Within(a, b) == {k \in DOMAIN passed : passed[k] \in a .. b}
Let(a, b) == Cardinality(Within(a, b))
Left(b) == bucket.units + (b - bucket.at) * Rate
Allowance(a, b) == Burst * Cost + (b - a) * Rate

LimiterType ==
    /\ clock \in Nat /\ bucket \in [units : Int, at : Nat] /\ passed \in Seq(Nat)
    /\ DOMAIN asks = Threads
    /\ \A t \in Threads : /\ DOMAIN asks[t] = {"pc", "now", "retry", "n"}
                          /\ asks[t].now \in Nat

\* What was let through and what is left of the bucket are within the allowance
\* of every stretch of time, the bucket's own time before or after it.
WithinAllowance ==
    \A a, b \in Nat : a <= b =>
      /\ Let(a, b) # 0 => Let(a, b) * Cost + Left(b) <= Allowance(a, b)
      /\ Let(a, b) * Cost <= Allowance(a, b)

Typed == {s.address : s \in Spellings} \cup {"none"}
ListRows == [channel : {"email", "all", "none"}, value : Typed]
Edits == [pc : {"idle", "update", "insert", "done"}, op : {"none", "add", "remove"},
          row : ListRows, told : {"none", "ok", "error", "404"}]

\* A row that an add saw or put on the list is there until it is removed.
ListKept ==
    /\ list \subseteq ListRows /\ edits \in [Editors -> Edits]
    /\ \A e \in Editors :
         /\ edits[e].op = "remove" => edits[e].pc = "done"
         /\ (\/ edits[e].pc = "update"
             \/ edits[e].pc = "done" /\ edits[e].op = "add" /\ edits[e].told = "ok")
            => \/ edits[e].row \in list
               \/ \E f \in Editors : edits[f].op = "remove" /\ edits[f].row = edits[e].row
    /\ verdict.listed => verdict.decision = "BLOCK"

(* Products of the bucket's arithmetic.                                      *)
LEMMA BucketArithmetic ==
  ASSUME NEW r \in Nat, NEW c \in Nat
  PROVE  /\ \A n \in Nat : n * c \in Nat /\ (n + 1) * c = n * c + c
         /\ \A a, b, d \in Int : (b - a) * r \in Int /\ (b - d) * r + (d - a) * r = (b - a) * r
         /\ \A a, b \in Int : a <= b => (b - a) * r >= 0
OBVIOUS

(* A stretch of time holds finitely many requests.                           *)
LEMMA WithinFinite ==
  ASSUME passed \in Seq(Nat), NEW a \in Nat, NEW b \in Nat
  PROVE  IsFiniteSet(Within(a, b)) /\ Let(a, b) \in Nat
<1>1. DOMAIN passed = 1 .. Len(passed) /\ Len(passed) \in Int /\ 1 \in Int
  OBVIOUS
<1>2. IsFiniteSet(DOMAIN passed)
  BY <1>1, FS_Interval
<1>3. IsFiniteSet(Within(a, b))
  BY <1>2, FS_Subset DEF Within
<1>4. QED  BY <1>3, FS_CardinalityType DEF Let

(* One request more, in the stretches that hold the time it read.            *)
LEMMA LetOneMore ==
  ASSUME passed \in Seq(Nat), NEW n \in Nat, passed' = Append(passed, n),
         NEW a \in Nat, NEW b \in Nat
  PROVE  Let(a, b)' = IF n \in a .. b THEN Let(a, b) + 1 ELSE Let(a, b)
<1>1. /\ Len(passed) \in Nat /\ DOMAIN passed = 1 .. Len(passed)
      /\ DOMAIN passed' = 1 .. Len(passed) + 1
      /\ passed'[Len(passed) + 1] = n
      /\ \A k \in 1 .. Len(passed) : passed'[k] = passed[k]
  OBVIOUS
<1>2. Len(passed) + 1 \notin Within(a, b)
  BY <1>1 DEF Within
<1>3. CASE n \in a .. b
  <2>1. Within(a, b)' = Within(a, b) \cup {Len(passed) + 1}
    BY <1>1, <1>3 DEF Within
  <2>2. Cardinality(Within(a, b) \cup {Len(passed) + 1}) = Cardinality(Within(a, b)) + 1
    BY <1>2, WithinFinite, FS_AddElement
  <2>3. QED  BY <1>3, <2>1, <2>2 DEF Let
<1>4. CASE n \notin a .. b
  <2>1. Within(a, b)' = Within(a, b)
    BY <1>1, <1>4 DEF Within
  <2>2. QED  BY <1>4, <2>1 DEF Let
<1>5. QED  BY <1>3, <1>4

(* A request at the bucket, whose time may lie before the bucket's own.      *)
LEMMA AllowStep ==
  ASSUME LimiterType, WithinAllowance, NEW t \in Threads, Allow(t)
  PROVE  LimiterType' /\ WithinAllowance'
<1> DEFINE n == asks[t].now
           full == Burst * Cost
           u == Units(n)
<1>1. /\ n \in Nat /\ bucket.units \in Int /\ bucket.at \in Nat
      /\ Rate \in Nat /\ Cost \in Nat /\ full \in Nat /\ passed \in Seq(Nat)
      /\ bucket.units + (n - bucket.at) * Rate \in Int
  BY GuardAssumption DEF LimiterType
<1>2. u \in Int /\ u <= full /\ u <= Left(n)
  BY <1>1 DEF Units, Left
<1>3. /\ clock' = clock
      /\ bucket' = [units |-> IF u >= Cost THEN u - Cost ELSE u, at |-> n]
      /\ passed' = IF u >= Cost THEN Append(passed, n) ELSE passed
      /\ asks' = [asks EXCEPT ![t].pc = "idle", ![t].retry =
                     IF u >= Cost THEN -1 ELSE RetryAfter(u)]
  BY DEF Allow
<1>4. LimiterType'
  <2>1. bucket' \in [units : Int, at : Nat]
    BY <1>1, <1>2, <1>3
  <2>2. passed' \in Seq(Nat)
    BY <1>1, <1>3
  <2>3. QED  BY <1>3, <2>1, <2>2 DEF LimiterType
<1> HIDE DEF n, u, full
<1>5. ASSUME NEW b \in Nat
      PROVE  /\ Left(b) \in Int /\ Left(b)' \in Int
             /\ u >= Cost => Left(b)' = u - Cost + (b - n) * Rate /\ Left(b)' <= Left(b) - Cost
             /\ u < Cost => Left(b)' <= Left(b)
  <2>1. Left(n) + (b - n) * Rate = Left(b) /\ (b - n) * Rate \in Int /\ Left(b) \in Int
    <3>1. PICK x \in Int, y \in Int, z \in Int :
            /\ x = (n - bucket.at) * Rate /\ y = (b - n) * Rate /\ z = (b - bucket.at) * Rate
            /\ z = y + x
      BY <1>1, BucketArithmetic
    <3>2. Left(n) = bucket.units + x /\ Left(b) = bucket.units + z
      BY <3>1 DEF Left
    <3>3. bucket.units \in Int
      BY <1>1
    <3>4. QED  BY <3>1, <3>2, <3>3
  <2>2. Left(b)' = (IF u >= Cost THEN u - Cost ELSE u) + (b - n) * Rate
    BY <1>3 DEF Left
  <2>3. Left(n) \in Int
    BY <1>1, BucketArithmetic DEF Left
  <2>4. QED  BY <1>1, <1>2, <2>1, <2>2, <2>3
<1>6. ASSUME NEW a \in Nat, NEW b \in Nat, a <= b
      PROVE  /\ Let(a, b)' # 0 => Let(a, b)' * Cost + Left(b)' <= Allowance(a, b)
             /\ Let(a, b)' * Cost <= Allowance(a, b)
  <2>1. Let(a, b) \in Nat
    BY <1>1, WithinFinite
  <2>2. PICK x \in Nat : x = Let(a, b) * Cost /\ (Let(a, b) + 1) * Cost = x + Cost
    <3>1. Cost \in Nat
      BY <1>1
    <3>2. \A k \in Nat : k * Cost \in Nat /\ (k + 1) * Cost = k * Cost + Cost
      BY <3>1, BucketArithmetic
    <3>3. QED  BY <2>1, <3>2
  <2>3. PICK r \in Nat : r = (b - a) * Rate /\ Allowance(a, b) = full + r
    BY <1>1, <1>6, BucketArithmetic DEF Allowance, full
  <2>4. PICK l \in Int, m \in Int : l = Left(b) /\ m = Left(b)'
    BY <1>5
  <2>5. (Let(a, b) # 0 => x + l <= full + r) /\ x <= full + r
    BY <1>6, <2>2, <2>3, <2>4 DEF WithinAllowance
  <2>6. CASE u < Cost
    <3>1. passed' = passed
      BY <1>1, <1>2, <1>3, <2>6
    <3>2. Let(a, b)' = Let(a, b)
      BY <3>1 DEF Let, Within
    <3>3. m <= l
      BY <1>5, <2>4, <2>6
    <3>4. Let(a, b) # 0 => x + m <= full + r
      BY <1>1, <2>5, <3>3
    <3>5. QED  BY <2>2, <2>3, <2>4, <2>5, <3>2, <3>4
  <2>7. CASE u >= Cost /\ n \notin a .. b
    <3>1. Let(a, b)' = Let(a, b)
      BY <1>1, <1>3, <2>7, LetOneMore
    <3>2. m <= l
      BY <1>1, <1>5, <2>4, <2>7
    <3>3. Let(a, b) # 0 => x + m <= full + r
      BY <1>1, <2>5, <3>2
    <3>4. QED  BY <2>2, <2>3, <2>4, <2>5, <3>1, <3>3
  <2>8. CASE u >= Cost /\ n \in a .. b
    <3>1. Let(a, b)' * Cost = x + Cost
      <4>1. Let(a, b)' = Let(a, b) + 1
        BY <1>1, <1>3, <2>8, LetOneMore
      <4>2. QED  BY <2>2, <4>1
    <3>2. PICK p \in Nat, q \in Nat : p = (b - n) * Rate /\ q = (n - a) * Rate /\ p + q = r
      BY <1>1, <2>3, <2>8, BucketArithmetic
    <3>3. m = u - Cost + p /\ m <= l - Cost
      BY <1>5, <2>4, <2>8, <3>2
    <3>4. Let(a, b) = 0 => x = 0
      BY <1>1, <2>2
    <3>5. u \in Int /\ u <= full /\ u >= Cost /\ Cost \in Nat /\ full \in Nat /\ p <= r
      <4>1. p + q = r
        BY <3>2
      <4>2. p <= r
        BY <4>1
      <4>3. QED  BY <1>1, <1>2, <2>8, <4>2
    <3>6. m >= 0
      BY <3>3, <3>5
    <3>7. x + Cost + m <= full + r
      <4>1. CASE Let(a, b) = 0
        BY <3>3, <3>4, <3>5, <4>1
      <4>2. CASE Let(a, b) # 0
        BY <2>5, <3>3, <3>5, <4>2
      <4>3. QED  BY <4>1, <4>2
    <3>8. x + Cost <= full + r
      BY <3>5, <3>6, <3>7
    <3>9. QED  BY <2>3, <2>4, <3>1, <3>7, <3>8
  <2>9. QED  BY <1>1, <1>2, <2>6, <2>7, <2>8
<1>7. QED  BY <1>4, <1>6 DEF WithinAllowance, Allowance

(* The limiter's other steps leave the bucket alone.                         *)
LEMMA LimiterStep ==
  ASSUME LimiterType, WithinAllowance,
         \/ LimiterNext
         \/ UNCHANGED <<clock, bucket, asks, passed>>
  PROVE  LimiterType' /\ WithinAllowance'
<1>1. ASSUME bucket' = bucket, passed' = passed
      PROVE  WithinAllowance'
  BY <1>1 DEF WithinAllowance, Let, Within, Left, Allowance
<1>2. ASSUME TickClock
      PROVE  LimiterType'
  BY <1>2 DEF TickClock, LimiterType
<1>3. ASSUME NEW t \in Threads, ReadClock(t)
      PROVE  LimiterType'
  BY <1>3 DEF ReadClock, LimiterType
<1>4. CASE UNCHANGED <<clock, bucket, asks, passed>>
  BY <1>1, <1>4 DEF LimiterType
<1>5. QED
  BY <1>1, <1>2, <1>3, <1>4, AllowStep DEF LimiterNext, TickClock, ReadClock

(* Edits of the list and verdicts of the gate, in any order.                 *)
LEMMA GateStep ==
  ASSUME ListKept, GateNext \/ UNCHANGED <<list, edits, verdict>>
  PROVE  ListKept'
<1>1. ASSUME NEW e \in Editors, NEW c \in {"email", "all"}, NEW s \in Spellings,
             BeginAdd(e, c, s)
      PROVE  ListKept'
  <2>1. PICK row \in ListRows : row = Normalize(c, s)
    BY DEF Normalize, ListRows, Typed
  <2> DEFINE pc == IF row \in list THEN "update" ELSE "insert"
  <2>2. PICK d \in Edits : d = [pc |-> pc, op |-> "add", row |-> row, told |-> "none"]
    <3>1. pc \in {"update", "insert"}
      OBVIOUS
    <3> HIDE DEF pc
    <3>2. [pc |-> pc, op |-> "add", row |-> row, told |-> "none"] \in Edits
      BY <3>1 DEF Edits
    <3>3. QED  BY <3>2
  <2>3. /\ edits[e].pc = "idle" /\ edits' = [edits EXCEPT ![e] = d]
        /\ list' = list /\ verdict' = verdict
    BY <1>1, <2>1, <2>2 DEF BeginAdd
  <2>4. QED  BY <2>2, <2>3 DEF ListKept
<1>2. ASSUME NEW e \in Editors, EndAdd(e)
      PROVE  ListKept'
  <2>1. PICK v \in Edits : v = edits[e]
    BY DEF ListKept
  <2> DEFINE told == IF v.pc = "insert" /\ v.row \in list THEN "error" ELSE "ok"
  <2>2. PICK d \in Edits : d = [v EXCEPT !.pc = "done", !.told = told]
    BY DEF Edits
  <2>3. d.pc = "done" /\ d.row = v.row /\ d.op = v.op /\ v.pc \in {"update", "insert"}
    BY <1>2, <2>1, <2>2 DEF EndAdd, Edits
  <2>4. /\ edits' = [edits EXCEPT ![e] = d] /\ verdict' = verdict
        /\ list' = IF v.pc = "insert" THEN list \cup {v.row} ELSE list
    BY <1>2, <2>1, <2>2 DEF EndAdd, Inserted
  <2>5. v.row \in ListRows
    BY DEF Edits
  <2>6. QED  BY <2>1, <2>3, <2>4, <2>5 DEF ListKept
<1>3. ASSUME NEW e \in Editors, NEW row \in list, RemoveEntry(e, row)
      PROVE  ListKept'
  <2>1. PICK d \in Edits : d = [pc |-> "done", op |-> "remove", row |-> row, told |-> "ok"]
    BY DEF Edits, ListKept
  <2>2. /\ edits[e].pc = "idle" /\ edits' = [edits EXCEPT ![e] = d]
        /\ list' = list \ {row} /\ verdict' = verdict
    BY <1>3, <2>1 DEF RemoveEntry
  <2>3. \A f \in Editors : edits'[f] = IF f = e THEN d ELSE edits[f]
    BY <2>2 DEF ListKept
  <2>4. edits[e].op # "remove"
    BY <2>2 DEF ListKept
  <2>5. ASSUME NEW g \in Editors,
               \/ edits'[g].pc = "update"
               \/ edits'[g].pc = "done" /\ edits'[g].op = "add" /\ edits'[g].told = "ok"
        PROVE  \/ edits'[g].row \in list'
               \/ \E f \in Editors : edits'[f].op = "remove" /\ edits'[f].row = edits'[g].row
    <3>1. g # e
      BY <2>1, <2>3, <2>5
    <3>2. \/ edits[g].row \in list
          \/ \E f \in Editors : edits[f].op = "remove" /\ edits[f].row = edits[g].row
      BY <2>3, <2>5, <3>1 DEF ListKept
    <3>3. CASE edits[g].row = row
      BY <2>1, <2>3, <3>1, <3>3
    <3>4. CASE edits[g].row # row
      BY <2>2, <2>3, <2>4, <3>1, <3>2, <3>4
    <3>5. QED  BY <3>3, <3>4
  <2>6. QED  BY <2>1, <2>2, <2>3, <2>5 DEF ListKept
<1>4. ASSUME NEW c \in {"email", "whatsapp", "all"}, NEW s \in Spellings, NEW enabled \in Enabled,
             NEW sends, NEW b, Evaluate(c, s, enabled, sends, b)
      PROVE  ListKept'
  <2>1. ASSUME NEW row \in list, row.value = s.address, row.channel \in {c, "all"}
        PROVE  Suppressed(c, s)
    <3>1. row = [channel |-> row.channel, value |-> s.address]
      BY <2>1 DEF ListKept, ListRows
    <3>2. QED  BY <2>1, <3>1 DEF Suppressed, Normalize
  <2>2. verdict'.listed => verdict'.decision = "BLOCK"
    BY <1>4, <2>1 DEF Evaluate
  <2>3. QED  BY <1>4, <2>2 DEF Evaluate, ListKept
<1>5. CASE UNCHANGED <<list, edits, verdict>>
  BY <1>5 DEF ListKept
<1>6. QED
  BY <1>1, <1>2, <1>3, <1>4, <1>5 DEF GateNext

(* For any rate, burst and number of threads no stretch of time lets through  *)
(* more than a full bucket and what it adds, even when threads take the lock  *)
(* out of order; and the gate blocks whatever was listed and not removed.     *)
THEOREM GuardsAlwaysHold == GuardsSpec => []GuardsHold
<1> DEFINE Inv == LimiterType /\ WithinAllowance /\ ListKept
<1>1. ASSUME GuardsInit
      PROVE  Inv
  <2>1. passed = <<>> /\ bucket = [units |-> Burst * Cost, at |-> 0]
    BY <1>1 DEF GuardsInit
  <2>2. LimiterType
    BY <1>1, <2>1, GuardAssumption DEF GuardsInit, LimiterType, Fresh
  <2>3. ASSUME NEW a \in Nat, NEW b \in Nat, a <= b
        PROVE  Let(a, b) = 0 /\ Let(a, b) * Cost <= Allowance(a, b)
    <3>1. Within(a, b) = {}
      BY <2>1 DEF Within
    <3>2. Let(a, b) = 0
      BY <3>1, FS_EmptySet DEF Let
    <3>3. (b - a) * Rate >= 0 /\ Burst * Cost >= 0 /\ 0 * Cost = 0
      BY <2>3, GuardAssumption, BucketArithmetic
    <3>4. QED  BY <3>2, <3>3, GuardAssumption DEF Allowance
  <2>4. WithinAllowance
    BY <2>3 DEF WithinAllowance
  <2>5. NoEdit \in Edits
    BY DEF NoEdit, Edits, ListRows, Typed
  <2>6. ListKept
    BY <1>1, <2>5 DEF GuardsInit, ListKept, NoEdit, NoVerdict
  <2>7. QED  BY <2>2, <2>4, <2>6
<1>2. ASSUME Inv, [GuardsNext]_guardVars
      PROVE  Inv'
  <2>1. LimiterNext => UNCHANGED <<list, edits, verdict>>
    BY DEF LimiterNext, TickClock, ReadClock, Allow
  <2>2. GateNext => UNCHANGED <<clock, bucket, asks, passed>>
    BY DEF GateNext, BeginAdd, EndAdd, RemoveEntry, Evaluate
  <2>3. LimiterType' /\ WithinAllowance'
    BY <1>2, <2>2, LimiterStep DEF GuardsNext, guardVars
  <2>4. ListKept'
    BY <1>2, <2>1, GateStep DEF GuardsNext, guardVars
  <2>5. QED  BY <2>3, <2>4
<1>3. ASSUME Inv
      PROVE  GuardsHold
  <2>1. ASSUME NEW i \in DOMAIN passed, NEW j \in DOMAIN passed, passed[i] <= passed[j]
        PROVE  Let(passed[i], passed[j]) * Cost <= Burst * Cost + (passed[j] - passed[i]) * Rate
    <3>1. passed[i] \in Nat /\ passed[j] \in Nat
      BY <1>3 DEF LimiterType
    <3>2. QED  BY <1>3, <2>1, <3>1 DEF WithinAllowance, Allowance
  <2>2. ASSUME NEW e \in Editors, NEW s \in Spellings, NEW c \in {"email", "whatsapp"},
               edits[e].pc = "done", edits[e].op = "add", edits[e].told = "ok",
               \A f \in Editors : edits[f].op = "remove" => edits[f].row # edits[e].row,
               s.address = edits[e].row.value, edits[e].row.channel \in {c, "all"}
        PROVE  Suppressed(c, s)
    <3>1. PICK row \in ListRows : row = edits[e].row /\ row \in list
      BY <1>3, <2>2 DEF ListKept
    <3>2. row = [channel |-> row.channel, value |-> s.address]
      BY <2>2, <3>1 DEF ListRows
    <3>3. QED  BY <2>2, <3>1, <3>2 DEF Suppressed, Normalize
  <2>3. verdict.listed => verdict.decision = "BLOCK"
    BY <1>3 DEF ListKept
  <2>4. QED
    BY <2>1, <2>2, <2>3 DEF GuardsHold, Let, Within
<1>4. QED
  BY <1>1, <1>2, <1>3, PTL DEF GuardsSpec

-----------------------------------------------------------------------------
(* Intake: one live company per site, no page visited in vain.               *)

RowKinds == {"visited", "companies", "claims", "contacts", "secrets", "conflicts", "verdicts",
           "cache", "leads"}

IntakeShape ==
    /\ DOMAIN db = RowKinds /\ DOMAIN tx = Miners
    /\ \A j \in Miners :
         /\ DOMAIN tx[j] = {"pc", "todo", "page", "match", "rows", "mine", "attempts", "met"}
         /\ DOMAIN tx[j].rows = RowKinds

OneSite(cs, ds) == \A c \in cs, d \in ds : Site[c] = Site[d] /\ Site[c] # "none" => c = d
Ingested(p, claims) == \E c \in claims : c.value = p

\* Rows that may ever be committed agree with each other and with those that are.
SitesApart ==
    /\ OneSite(db.companies, db.companies)
    /\ \A j \in Miners : OneSite(tx[j].rows.companies, db.companies)
    /\ \A j, o \in Miners : OneSite(tx[j].rows.companies, tx[o].rows.companies)
    /\ \A j \in Miners :
         tx[j].pc = "store" /\ tx[j].match = tx[j].page =>
           OneSite({tx[j].page}, tx[j].rows.companies)

\* A transaction that is not about to store a page has stored all it visited.
PagesIngested ==
    /\ \A p \in db.visited \ Listed : Ingested(p, db.claims)
    /\ \A j \in Miners : \A p \in tx[j].rows.visited \ Listed :
         Ingested(p, tx[j].rows.claims) \/ (tx[j].pc = "store" /\ tx[j].page = p)

IntakeInv == IntakeShape /\ SitesApart /\ PagesIngested

(* What a step of one job leaves to the others, and what it must bring itself. *)
LEMMA JobMoves ==
  ASSUME IntakeInv, NEW j \in Miners, IntakeShape',
         \A o \in Miners \ {j} : tx'[o] = tx[o],
         db'.companies = db.companies, db'.visited = db.visited, db'.claims = db.claims,
         OneSite(tx'[j].rows.companies, db.companies),
         \A o \in Miners \ {j} : OneSite(tx'[j].rows.companies, tx[o].rows.companies),
         OneSite(tx'[j].rows.companies, tx'[j].rows.companies),
         tx'[j].pc = "store" /\ tx'[j].match = tx'[j].page =>
           OneSite({tx'[j].page}, tx'[j].rows.companies),
         \A p \in tx'[j].rows.visited \ Listed :
           Ingested(p, tx'[j].rows.claims) \/ (tx'[j].pc = "store" /\ tx'[j].page = p)
  PROVE  IntakeInv'
<1>1. SitesApart'
  <2>1. \A o, q \in Miners : OneSite(tx'[o].rows.companies, tx'[q].rows.companies)
    BY DEF IntakeInv, SitesApart, OneSite
  <2>2. \A o \in Miners : OneSite(tx'[o].rows.companies, db'.companies)
    BY DEF IntakeInv, SitesApart
  <2>3. \A o \in Miners : tx'[o].pc = "store" /\ tx'[o].match = tx'[o].page =>
                            OneSite({tx'[o].page}, tx'[o].rows.companies)
    BY DEF IntakeInv, SitesApart
  <2>4. OneSite(db'.companies, db'.companies)
    BY DEF IntakeInv, SitesApart
  <2>5. QED  BY <2>1, <2>2, <2>3, <2>4 DEF SitesApart, OneSite
<1>2. PagesIngested'
  BY DEF IntakeInv, PagesIngested, Ingested
<1>3. QED  BY <1>1, <1>2 DEF IntakeInv

(* A page is resolved to a company, or skipped.                              *)
LEMMA ResolveStep ==
  ASSUME IntakeInv, NEW j \in Miners, Resolve(j)
  PROVE  IntakeInv'
<1>1. PICK p \in tx[j].todo :
        /\ tx[j].pc = "next"
        /\ \/ tx' = [tx EXCEPT ![j].todo = @ \ {p}]
           \/ /\ p \in Listed
              /\ tx' = [tx EXCEPT ![j].todo = @ \ {p}, ![j].rows = Adds(@, "visited", {p})]
           \/ \E c \in IF Matches(j, p) = {} THEN {p} ELSE Matches(j, p) :
                tx' = [tx EXCEPT ![j].todo = @ \ {p}, ![j].pc = "store",
                                 ![j].page = p, ![j].match = c,
                                 ![j].rows = Adds(@, "visited", {p})]
        /\ db' = db
  BY DEF Resolve
<1>2. /\ DOMAIN tx = Miners /\ DOMAIN tx[j].rows = RowKinds /\ DOMAIN db = RowKinds
      /\ DOMAIN tx[j] = {"pc", "todo", "page", "match", "rows", "mine", "attempts", "met"}
  BY DEF IntakeInv, IntakeShape
<1>3. PICK v : v = Adds(tx[j].rows, "visited", {p})
  OBVIOUS
<1>4. /\ DOMAIN v = RowKinds /\ v.companies = tx[j].rows.companies /\ v.claims = tx[j].rows.claims
      /\ v.visited = tx[j].rows.visited \cup {p}
  BY <1>2, <1>3 DEF Adds, RowKinds
<1>5. \A o \in Miners : OneSite(tx[j].rows.companies, tx[o].rows.companies)
  BY DEF IntakeInv, SitesApart
<1>6. CASE tx' = [tx EXCEPT ![j].todo = @ \ {p}]
  <2>1. /\ IntakeShape' /\ \A o \in Miners \ {j} : tx'[o] = tx[o]
        /\ tx'[j].rows = tx[j].rows /\ tx'[j].pc = "next"
    BY <1>1, <1>2, <1>6 DEF IntakeInv, IntakeShape
  <2>2. QED
    BY <1>1, <1>5, <2>1, JobMoves DEF IntakeInv, SitesApart, PagesIngested
<1>7. CASE p \in Listed /\ tx' = [tx EXCEPT ![j].todo = @ \ {p}, ![j].rows = v]
  <2>1. /\ IntakeShape' /\ \A o \in Miners \ {j} : tx'[o] = tx[o]
        /\ tx'[j].rows = v /\ tx'[j].pc = "next"
    BY <1>1, <1>2, <1>4, <1>7 DEF IntakeInv, IntakeShape
  <2>2. \A q \in v.visited \ Listed : Ingested(q, v.claims)
    BY <1>1, <1>4, <1>7 DEF IntakeInv, PagesIngested
  <2>3. QED
    BY <1>1, <1>4, <1>5, <2>1, <2>2, JobMoves DEF IntakeInv, SitesApart
<1>8. ASSUME NEW c \in IF Matches(j, p) = {} THEN {p} ELSE Matches(j, p),
             tx' = [tx EXCEPT ![j].todo = @ \ {p}, ![j].pc = "store", ![j].page = p,
                              ![j].match = c, ![j].rows = v]
      PROVE  IntakeInv'
  <2>1. /\ IntakeShape' /\ \A o \in Miners \ {j} : tx'[o] = tx[o]
        /\ tx'[j].rows = v /\ tx'[j].pc = "store" /\ tx'[j].page = p /\ tx'[j].match = c
    BY <1>1, <1>2, <1>4, <1>8 DEF IntakeInv, IntakeShape
  <2>2. \A q \in v.visited \ Listed : Ingested(q, v.claims) \/ q = p
    BY <1>1, <1>4 DEF IntakeInv, PagesIngested
  <2>3. ASSUME c = p
        PROVE  OneSite({p}, v.companies)
    <3>1. SUFFICES ASSUME NEW d \in tx[j].rows.companies, Site[p] = Site[d], Site[p] # "none"
                   PROVE  p = d
      BY <1>4 DEF OneSite
    <3>2. Seen(j).companies = db.companies \cup tx[j].rows.companies
      BY <1>2 DEF Seen, Plus, RowKinds
    <3>3. d \in {e \in Seen(j).companies : Site[e] = Site[p]}
      BY <3>1, <3>2
    <3>4. p \in {e \in Seen(j).companies : Site[e] = Site[p]}
      BY <1>8, <2>3, <3>1, <3>3 DEF Matches
    <3>5. p \in db.companies \/ p \in tx[j].rows.companies
      BY <3>2, <3>4
    <3>6. QED  BY <1>5, <3>1, <3>5 DEF IntakeInv, SitesApart, OneSite
  <2>4. QED
    BY <1>1, <1>4, <1>5, <2>1, <2>2, <2>3, JobMoves DEF IntakeInv, SitesApart
<1>9. QED  BY <1>1, <1>3, <1>6, <1>7, <1>8

(* A rolled back query keeps nothing.                                        *)
LEMMA RefusedStep ==
  ASSUME IntakeInv, NEW j \in Miners, Refused(j)
  PROVE  IntakeInv'
<1>1. /\ DOMAIN tx = Miners
      /\ DOMAIN tx[j] = {"pc", "todo", "page", "match", "rows", "mine", "attempts", "met"}
  BY DEF IntakeInv, IntakeShape
<1>2. /\ \A o \in Miners \ {j} : tx'[o] = tx[o]
      /\ tx'[j].rows = NoRows /\ tx'[j].pc # "store" /\ db' = db
      /\ DOMAIN tx' = Miners /\ DOMAIN tx'[j] = DOMAIN tx[j]
  <2> DEFINE p == IF tx[j].attempts < MaxAttempts THEN "discover" ELSE "failed"
             met == IF tx[j].pc = "store" /\ ~Taken(j, tx[j].page)
                    THEN tx[j].met \cup {[company |-> tx[j].match, value |-> tx[j].page]}
                    ELSE tx[j].met
             tries == IF tx[j].attempts < MaxAttempts THEN tx[j].attempts + 1
                                                      ELSE tx[j].attempts
  <2>1. /\ tx' = [tx EXCEPT ![j].pc = p, ![j].attempts = tries, ![j].met = met, ![j].todo = {},
                           ![j].rows = NoRows, ![j].page = "none", ![j].match = "none"]
        /\ db' = db
    BY Zenon DEF Refused, RolledBack
  <2>2. p \in {"discover", "failed"}
    OBVIOUS
  <2> HIDE DEF p, met, tries
  <2>3. /\ DOMAIN tx' = Miners /\ DOMAIN tx'[j] = DOMAIN tx[j]
        /\ \A o \in Miners \ {j} : tx'[o] = tx[o]
    BY <1>1, <2>1
  <2>4. tx'[j].rows = NoRows
    BY <1>1, <2>1
  <2>5. tx'[j].pc = p
    BY <1>1, <2>1
  <2>6. QED  BY <2>1, <2>2, <2>3, <2>4, <2>5
<1>3. DOMAIN NoRows = RowKinds /\ NoRows.companies = {} /\ NoRows.visited = {}
  BY DEF NoRows, RowKinds
<1>4. IntakeShape'
  BY <1>2, <1>3 DEF IntakeInv, IntakeShape
<1>5. QED  BY <1>2, <1>3, <1>4, JobMoves DEF OneSite

(* A stored page has its claim, and a new company a site of its own.         *)
LEMMA StoreStep ==
  ASSUME IntakeInv, NEW j \in Miners, Store(j)
  PROVE  IntakeInv'
<1> DEFINE p == tx[j].page
           c == tx[j].match
           made == IF c = p THEN {p} ELSE {}
           rows == Adds(Adds(tx[j].rows, "companies", made), "claims",
                        {[company |-> c, value |-> p]})
<1>1. /\ DOMAIN tx = Miners /\ DOMAIN tx[j].rows = RowKinds /\ DOMAIN db = RowKinds
      /\ DOMAIN tx[j] = {"pc", "todo", "page", "match", "rows", "mine", "attempts", "met"}
  BY DEF IntakeInv, IntakeShape
<1>2. /\ DOMAIN rows = RowKinds
      /\ rows.companies = tx[j].rows.companies \cup made
      /\ rows.visited = tx[j].rows.visited
      /\ rows.claims = tx[j].rows.claims \cup {[company |-> c, value |-> p]}
  BY <1>1 DEF Adds, RowKinds
<1>3. /\ tx[j].pc = "store" /\ db' = db /\ ~Taken(j, p)
      /\ ~Waits(j, "companies", LAMBDA row : c = p /\ Site[row] = Site[p] /\ Site[p] # "none")
  BY DEF Store
<1>4. \A o \in Miners \ {j} : \A d \in tx[o].rows.companies :
        ~(c = p /\ Site[d] = Site[p] /\ Site[p] # "none")
  BY <1>3 DEF Waits
<1>5. PICK r \in IF Mailboxes[p] = {} THEN {rows} ELSE ContactRows(rows, j, p) :
        tx' = [tx EXCEPT ![j].pc = "next", ![j].rows = r, ![j].mine = @ \cup {c}]
  BY DEF Store
<1> HIDE DEF rows
<1>6. /\ DOMAIN r = RowKinds /\ r.companies = rows.companies /\ r.visited = rows.visited
      /\ r.claims = rows.claims
  BY <1>2, <1>5 DEF ContactRows, RowKinds
<1>7. /\ \A o \in Miners \ {j} : tx'[o] = tx[o]
      /\ tx'[j].rows = r /\ tx'[j].pc = "next" /\ IntakeShape'
  BY <1>1, <1>3, <1>5, <1>6 DEF IntakeInv, IntakeShape
<1>8. OneSite(r.companies, db.companies)
  <2>1. OneSite(tx[j].rows.companies, db.companies)
    BY DEF IntakeInv, SitesApart
  <2>2. c = p /\ Site[p] # "none" => \A d \in db.companies : Site[d] # Site[p]
    BY <1>3 DEF Taken
  <2>3. r.companies = tx[j].rows.companies \cup made
    BY <1>2, <1>6
  <2>4. QED  BY <2>1, <2>2, <2>3 DEF OneSite
<1>9. \A o \in Miners \ {j} : OneSite(r.companies, tx[o].rows.companies)
  BY <1>2, <1>4, <1>6 DEF IntakeInv, SitesApart, OneSite
<1>10. OneSite(r.companies, r.companies)
  BY <1>2, <1>3, <1>6 DEF IntakeInv, SitesApart, OneSite
<1>11. \A q \in r.visited \ Listed : Ingested(q, r.claims)
  <2>1. Ingested(p, r.claims)
    <3>1. PICK k : k = [company |-> c, value |-> p]
      OBVIOUS
    <3>2. k \in r.claims /\ k.value = p
      BY <1>2, <1>6, <3>1
    <3>3. QED  BY <3>2 DEF Ingested
  <2>2. QED  BY <1>2, <1>3, <1>6, <2>1 DEF IntakeInv, PagesIngested, Ingested
<1>12. QED
  BY <1>3, <1>7, <1>8, <1>9, <1>10, <1>11, JobMoves

(* What a query found is committed at once.                                  *)
LEMMA CommitStep ==
  ASSUME IntakeInv, NEW j \in Miners, Commit(j)
  PROVE  IntakeInv'
<1>1. /\ DOMAIN tx = Miners /\ DOMAIN tx[j].rows = RowKinds /\ DOMAIN db = RowKinds
      /\ DOMAIN tx[j] = {"pc", "todo", "page", "match", "rows", "mine", "attempts", "met"}
  BY DEF IntakeInv, IntakeShape
<1>2. /\ \A o \in Miners \ {j} : tx'[o] = tx[o]
      /\ tx'[j].rows = NoRows /\ tx'[j].pc = "enrich" /\ tx[j].pc = "next"
      /\ DOMAIN tx' = Miners /\ DOMAIN tx'[j] = DOMAIN tx[j]
  BY <1>1 DEF Commit
<1>3. DOMAIN NoRows = RowKinds /\ NoRows.companies = {} /\ NoRows.visited = {}
  BY DEF NoRows, RowKinds
<1>4. /\ DOMAIN db' = RowKinds
      /\ db'.companies = db.companies \cup tx[j].rows.companies
      /\ db'.visited = db.visited \cup tx[j].rows.visited
      /\ db'.claims = db.claims \cup tx[j].rows.claims
  BY <1>1 DEF Commit, Plus, RowKinds
<1>5. IntakeShape'
  BY <1>2, <1>3, <1>4 DEF IntakeInv, IntakeShape
<1>6. SitesApart'
  <2>1. OneSite(db'.companies, db'.companies)
    BY <1>4 DEF IntakeInv, SitesApart, OneSite
  <2>2. \A o \in Miners : OneSite(tx'[o].rows.companies, db'.companies)
    BY <1>2, <1>3, <1>4 DEF IntakeInv, SitesApart, OneSite
  <2>3. \A o, q \in Miners : OneSite(tx'[o].rows.companies, tx'[q].rows.companies)
    BY <1>2, <1>3 DEF IntakeInv, SitesApart, OneSite
  <2>4. \A o \in Miners : tx'[o].pc = "store" /\ tx'[o].match = tx'[o].page =>
                            OneSite({tx'[o].page}, tx'[o].rows.companies)
    BY <1>2 DEF IntakeInv, SitesApart
  <2>5. QED  BY <2>1, <2>2, <2>3, <2>4 DEF SitesApart, OneSite
<1>7. PagesIngested'
  BY <1>2, <1>3, <1>4 DEF IntakeInv, PagesIngested, Ingested
<1>8. QED  BY <1>5, <1>6, <1>7 DEF IntakeInv

(* The first and the later phases write no row of the discovery.             *)
LEMMA OtherStep ==
  ASSUME IntakeInv, NEW j \in Miners,
         Query(j) \/ NothingFound(j) \/ Enrich(j) \/ Verify(j) \/ Qualify(j)
  PROVE  IntakeInv'
<1>1. /\ DOMAIN tx = Miners /\ DOMAIN tx[j].rows = RowKinds /\ DOMAIN db = RowKinds
      /\ DOMAIN tx[j] = {"pc", "todo", "page", "match", "rows", "mine", "attempts", "met"}
  BY DEF IntakeInv, IntakeShape
<1>2. /\ \A o \in Miners \ {j} : tx'[o] = tx[o]
      /\ tx'[j].rows = tx[j].rows /\ tx[j].pc # "store" /\ tx'[j].pc # "store"
      /\ DOMAIN tx' = Miners /\ DOMAIN tx'[j] = DOMAIN tx[j]
  <2>1. CASE Query(j)
    BY <1>1, <2>1 DEF Query
  <2>2. CASE NothingFound(j)
    BY <1>1, <2>2 DEF NothingFound
  <2>3. ASSUME NEW c, NEW phase, NEW next, Advance(j, c, phase, next), tx[j].pc = phase,
               phase # "store", next # "store"
        PROVE  <1>2!:
    BY <1>1, <2>3 DEF Advance
  <2>4. CASE Enrich(j)
    BY <2>3, <2>4 DEF Enrich
  <2>5. CASE Verify(j)
    BY <2>3, <2>5 DEF Verify
  <2>6. CASE Qualify(j)
    BY <2>3, <2>6 DEF Qualify
  <2>7. QED  BY <2>1, <2>2, <2>4, <2>5, <2>6
<1>3. /\ DOMAIN db' = RowKinds /\ db'.companies = db.companies /\ db'.visited = db.visited
      /\ db'.claims = db.claims
  <2>1. CASE Query(j) \/ NothingFound(j)
    BY <1>1, <2>1 DEF Query, NothingFound
  <2>2. CASE Enrich(j)
    BY <1>1, <2>2 DEF Enrich, RowKinds
  <2>3. CASE Verify(j)
    BY <1>1, <2>3 DEF Verify, RowKinds
  <2>4. CASE Qualify(j)
    BY <1>1, <2>4 DEF Qualify, Adds, RowKinds
  <2>5. QED  BY <2>1, <2>2, <2>3, <2>4
<1>4. IntakeShape'
  BY <1>1, <1>2, <1>3 DEF IntakeInv, IntakeShape
<1>5. QED
  BY <1>2, <1>3, <1>4, JobMoves DEF IntakeInv, SitesApart, PagesIngested

(* For any number of jobs and whatever they find: one live company per site, *)
(* and no page marked as visited without its claim.                          *)
THEOREM IntakeStaysSound == IntakeSpec => []IntakeIsSound
<1>1. ASSUME IntakeInit
      PROVE  IntakeInv
  <2>1. DOMAIN NoRows = RowKinds /\ NoRows.companies = {} /\ NoRows.visited = {}
    BY DEF NoRows, RowKinds
  <2>2. /\ db = NoRows /\ DOMAIN tx = Miners
        /\ \A j \in Miners :
             /\ DOMAIN tx[j] = {"pc", "todo", "page", "match", "rows", "mine", "attempts", "met"}
             /\ tx[j].rows = NoRows /\ tx[j].pc = "discover"
    BY <1>1 DEF IntakeInit
  <2>3. QED
    BY <2>1, <2>2 DEF IntakeInv, IntakeShape, SitesApart, PagesIngested, OneSite
<1>2. IntakeInv /\ [IntakeNext]_intakeVars => IntakeInv'
  <2>1. IntakeInv /\ UNCHANGED intakeVars => IntakeInv'
    BY DEF intakeVars, IntakeInv, IntakeShape, SitesApart, PagesIngested, OneSite, Ingested
  <2>2. QED
    BY <2>1, ResolveStep, RefusedStep, StoreStep, CommitStep, OtherStep DEF IntakeNext
<1>3. IntakeInv => IntakeIsSound
  BY DEF IntakeInv, SitesApart, PagesIngested, OneSite, Ingested, IntakeIsSound,
         OneCompanyPerSite, VisitedIsIngested
<1>4. QED
  BY <1>1, <1>2, <1>3, PTL DEF IntakeSpec

-----------------------------------------------------------------------------
(* TruthLayer: the facts of a field and their conflicts, and the lead row.    *)

Sources == Domains \cup {"inferred", "email_verify"}
FactRows == [status : FactStatuses \cup {"none"}, fresh : BOOLEAN, sources : SUBSET Sources]
Beliefs == [pc : {"idle", "insert", "source", "detect", "conflicts", "open", "flag",
                  "write", "verdict", "winner", "mark"},
            value : Values \cup {"none"}, from : Domains \cup {"inferred", "none"},
            new : BOOLEAN, rivals : SUBSET Values,
            status : FactStatuses \cup Values \cup {"none"}]

FactShape ==
    /\ fact \in [Values -> FactRows]
    /\ dispute \in [Pairs -> [open : Nat, closed : BOOLEAN]]
    /\ writer \in [Writers -> Beliefs]
    /\ decided \subseteq Values /\ uncompared \subseteq Values

\* On what a value may be called VERIFIED.
Grounded(v) == Cardinality(Observed(v)) >= 2 \/ v \in decided

\* What a writer, m, may rely on.
Believes(m) ==
    /\ m.pc \notin {"idle", "mark"} => m.value \in Values
    /\ m.pc \in {"insert", "source"} => m.from \in Domains \cup {"inferred"}
    /\ m.pc = "insert" => m.new
    /\ m.pc \in {"source", "detect", "conflicts", "open", "flag", "write"} =>
         fact[m.value].status # "none"
    /\ m.pc \in {"conflicts", "open", "flag"} => m.value \notin m.rivals
    /\ m.pc = "open" => m.status \in m.rivals
    /\ m.pc = "flag" => m.status \in Values \ {m.value}
    /\ m.pc = "mark" => ~m.new
    /\ m.pc = "write" => m.status \in FactStatuses /\ (m.status = "VERIFIED" => Grounded(m.value))
    /\ m.pc = "winner" => \E u \in Values \ {m.value} : m.rivals = {u}

\* The first writer m of value v will still look at u or has it on its list.
Looking(m, v, u) ==
    /\ m.value = v /\ m.new
    /\ m.pc \in {"source", "detect"} \/ (m.pc \in {"conflicts", "open", "flag"} /\ u \in m.rivals)

\* The writer m is about to write what settled the conflict of v and u.
Settling(m, v, u) == m.pc = "winner" /\ m.rivals \cup {m.value} = {v, u}

\* Of two values that stand, and that nobody decided for or brought back, the
\* conflict is open, being settled, or about to be seen.
Noticed(v, u) ==
    \/ {v, u} \cap (decided \cup uncompared) # {}
    \/ dispute[{v, u}].open > 0
    \/ \E w \in Writers : Looking(writer[w], v, u) \/ Looking(writer[w], u, v)
                          \/ Settling(writer[w], v, u)

FactInv ==
    /\ FactShape
    /\ \A v \in Values : /\ IsFiniteSet(fact[v].sources)
                         /\ fact[v].status = "none" => fact[v].sources = {} /\ ~fact[v].fresh
    /\ \A w \in Writers : Believes(writer[w])
    /\ VerifiedHasGrounds
    /\ \A v, u \in Values : v # u /\ Standing(v) /\ Standing(u) => Noticed(v, u)

-----------------------------------------------------------------------------
(* Pairs of values, and what grows.                                          *)

(* A pair is two values.                                                     *)
LEMMA PairsAre ==
  /\ \A p \in Pairs : \E v, u \in Values : v # u /\ p = {v, u}
  /\ \A v, u \in Values : v # u => {v, u} \in Pairs
BY DEF Pairs

(* More sources, and more decisions, are grounds still.                      *)
LEMMA GroundsGrow ==
  ASSUME NEW v, Grounded(v), fact[v].sources \subseteq fact'[v].sources,
         IsFiniteSet(fact'[v].sources), decided \subseteq decided'
  PROVE  Grounded(v)'
<1>1. Observed(v) \subseteq Observed(v)' /\ IsFiniteSet(Observed(v)')
  BY FS_Subset DEF Observed
<1>2. Cardinality(Observed(v)) <= Cardinality(Observed(v)') /\ Cardinality(Observed(v)) \in Nat
      /\ Cardinality(Observed(v)') \in Nat
  BY <1>1, FS_Subset, FS_CardinalityType
<1>3. QED
  BY <1>2 DEF Grounded

\* What a step takes from no fact.
Grows ==
    /\ \A v \in Values : /\ fact[v].sources \subseteq fact'[v].sources
                         /\ IsFiniteSet(fact'[v].sources)
                         /\ fact[v].status # "none" => fact'[v].status # "none"
                         /\ fact'[v].status = "none" => fact'[v] = fact[v]
    /\ decided \subseteq decided' /\ uncompared \subseteq uncompared'

(* The writer of a step, and then the others, keep what they rely on.        *)
LEMMA BeliefsHold ==
  ASSUME FactInv, FactShape', Grows, NEW w \in Writers, NEW r \in Beliefs,
         writer' = [writer EXCEPT ![w] = r], Believes(r)'
  PROVE  \A o \in Writers : Believes(writer[o])'
<1> SUFFICES ASSUME NEW o \in Writers PROVE Believes(writer[o])'
  OBVIOUS
<1>1. CASE o = w
  <2>1. writer'[o] = r
    BY <1>1 DEF FactInv, FactShape
  <2>2. QED  BY <2>1 DEF Believes, Grounded, Observed
<1>2. CASE o # w
  <2>1. writer'[o] = writer[o] /\ writer[o] \in Beliefs
    BY <1>2 DEF FactInv, FactShape
  <2>2. PICK m \in Beliefs : m = writer[o]
    BY <2>1
  <2>3. Believes(m)
    BY <2>2 DEF FactInv
  <2>4. m.value \in Values /\ Grounded(m.value) => Grounded(m.value)'
    BY GroundsGrow DEF Grows
  <2>5. Believes(m)'
    BY <2>3, <2>4 DEF Believes, Grows
  <2>6. QED  BY <2>1, <2>2, <2>5 DEF Believes, Grounded, Observed
<1>3. QED
  BY <1>1, <1>2

(* A pair that is seen to stays so, unless the writer of the step was all    *)
(* that saw it.                                                              *)
LEMMA SeenStays ==
  ASSUME FactInv, Grows, NEW w \in Writers, NEW r,
         writer' = [writer EXCEPT ![w] = r],
         NEW v \in Values, NEW u \in Values, Noticed(v, u),
         \/ {v, u} \cap (decided' \cup uncompared') # {}
         \/ /\ dispute[{v, u}].open > 0 => dispute'[{v, u}].open > 0 \/ Settling(r, v, u)
            /\ \/ Looking(writer[w], v, u) \/ Looking(writer[w], u, v) \/ Settling(writer[w], v, u)
               => \/ Looking(r, v, u) \/ Looking(r, u, v) \/ Settling(r, v, u)
                  \/ dispute'[{v, u}].open > 0
  PROVE  Noticed(v, u)'
<1>1. writer'[w] = r /\ \A o \in Writers \ {w} : writer'[o] = writer[o]
  BY DEF FactInv, FactShape
<1>2. CASE {v, u} \cap (decided' \cup uncompared') # {}
  BY <1>2 DEF Noticed
<1>3. CASE ~({v, u} \cap (decided' \cup uncompared') # {})
  <2>1. {v, u} \cap (decided \cup uncompared) = {}
    BY <1>3 DEF Grows
  <2>2. CASE dispute[{v, u}].open > 0
    BY <1>1, <1>3, <2>2 DEF Noticed
  <2>3. ASSUME NEW o \in Writers, \/ Looking(writer[o], v, u) \/ Looking(writer[o], u, v)
                                  \/ Settling(writer[o], v, u)
        PROVE  Noticed(v, u)'
    <3>1. CASE o = w
      BY <1>1, <1>3, <2>3, <3>1 DEF Noticed
    <3>2. CASE o # w
      <4>1. writer'[o] = writer[o]
        BY <1>1, <3>2
      <4>2. \/ Looking(writer'[o], v, u) \/ Looking(writer'[o], u, v)
            \/ Settling(writer'[o], v, u)
        BY <2>3, <4>1
      <4>3. QED  BY <4>2 DEF Noticed
    <3>3. QED  BY <3>1, <3>2
  <2>4. QED  BY <2>1, <2>2, <2>3 DEF Noticed
<1>4. QED
  BY <1>2, <1>3

(* What a step of one writer has to show.                                    *)
LEMMA FactMoves ==
  ASSUME FactInv, FactShape', Grows, NEW w \in Writers, NEW r \in Beliefs,
         writer' = [writer EXCEPT ![w] = r], Believes(r)',
         \A v \in Values : fact'[v].status = "VERIFIED" =>
           fact[v].status = "VERIFIED" \/ Grounded(v)',
         \A v, u \in Values : v # u /\ Standing(v)' /\ Standing(u)' =>
           \/ {v, u} \cap (decided' \cup uncompared') # {}
           \/ Looking(r, v, u) \/ Looking(r, u, v)
           \/ /\ Standing(v) /\ Standing(u)
              /\ dispute[{v, u}].open > 0 => dispute'[{v, u}].open > 0 \/ Settling(r, v, u)
              /\ \/ Looking(writer[w], v, u) \/ Looking(writer[w], u, v)
                 \/ Settling(writer[w], v, u)
                 => \/ Looking(r, v, u) \/ Looking(r, u, v) \/ Settling(r, v, u)
                    \/ dispute'[{v, u}].open > 0
  PROVE  FactInv'
<1>1. \A v \in Values : /\ IsFiniteSet(fact'[v].sources)
                        /\ fact'[v].status = "none" => fact'[v].sources = {} /\ ~fact'[v].fresh
  BY DEF FactInv, Grows
<1>2. \A o \in Writers : Believes(writer[o])'
  BY BeliefsHold
<1>3. VerifiedHasGrounds'
  <2>1. ASSUME NEW v \in Values, fact'[v].status = "VERIFIED"
        PROVE  Grounded(v)'
    <3>1. fact[v].status = "VERIFIED" => Grounded(v)
      BY DEF FactInv, VerifiedHasGrounds, Grounded, Observed
    <3>2. fact[v].status = "VERIFIED" => Grounded(v)'
      BY <3>1, GroundsGrow DEF Grows
    <3>3. QED  BY <2>1, <3>2
  <2>2. QED  BY <2>1 DEF VerifiedHasGrounds, Grounded, Observed
<1>4. ASSUME NEW v \in Values, NEW u \in Values, v # u, Standing(v)', Standing(u)'
      PROVE  Noticed(v, u)'
  <2>1. writer'[w] = r
    BY DEF FactInv, FactShape
  <2>2. CASE {v, u} \cap (decided' \cup uncompared') # {}
    BY <2>2 DEF Noticed
  <2>3. CASE Looking(r, v, u) \/ Looking(r, u, v)
    <3>1. Looking(writer'[w], v, u) \/ Looking(writer'[w], u, v)
      BY <2>1, <2>3
    <3>2. QED  BY <3>1 DEF Noticed
  <2>4. CASE /\ Standing(v) /\ Standing(u)
             /\ dispute[{v, u}].open > 0 => dispute'[{v, u}].open > 0 \/ Settling(r, v, u)
             /\ \/ Looking(writer[w], v, u) \/ Looking(writer[w], u, v)
                \/ Settling(writer[w], v, u)
                => \/ Looking(r, v, u) \/ Looking(r, u, v) \/ Settling(r, v, u)
                   \/ dispute'[{v, u}].open > 0
    <3>1. Noticed(v, u)
      BY <1>4, <2>4 DEF FactInv
    <3>2. QED  BY <2>4, <3>1, SeenStays
  <2>5. QED  BY <1>4, <2>2, <2>3, <2>4
<1>5. QED
  BY <1>1, <1>2, <1>3, <1>4 DEF FactInv

(* A step that writes no fact.                                               *)
LEMMA QuietFact ==
  ASSUME FactInv, NEW w \in Writers, NEW r \in Beliefs,
         writer' = [writer EXCEPT ![w] = r],
         UNCHANGED <<fact, dispute, decided, uncompared>>, Believes(r),
         \A v, u \in Values :
           /\ v # u /\ Standing(v) /\ Standing(u)
           /\ Looking(writer[w], v, u) \/ Settling(writer[w], v, u)
           => Looking(r, v, u) \/ Settling(r, v, u) \/ dispute[{v, u}].open > 0
  PROVE  FactInv'
<1>1. FactShape'
  BY DEF FactInv, FactShape
<1>2. Grows
  BY DEF FactInv, Grows
<1>3. Believes(r)'
  BY DEF Believes, Grounded, Observed
<1>4. \A v, u \in Values : /\ {v, u} = {u, v}
                           /\ Settling(writer[w], v, u) <=> Settling(writer[w], u, v)
                           /\ Settling(r, v, u) <=> Settling(r, u, v)
  BY DEF Settling
<1>5. \A v, u \in Values : v # u /\ Standing(v)' /\ Standing(u)' =>
         /\ Standing(v) /\ Standing(u)
         /\ dispute[{v, u}].open > 0 => dispute'[{v, u}].open > 0
         /\ \/ Looking(writer[w], v, u) \/ Looking(writer[w], u, v) \/ Settling(writer[w], v, u)
            => \/ Looking(r, v, u) \/ Looking(r, u, v) \/ Settling(r, v, u)
               \/ dispute'[{v, u}].open > 0
  BY <1>4 DEF Standing
<1>6. \A v \in Values : fact'[v].status = "VERIFIED" => fact[v].status = "VERIFIED"
  OBVIOUS
<1>7. QED
  BY <1>1, <1>2, <1>3, <1>5, <1>6, FactMoves

(* At first there are no facts.                                              *)
LEMMA FactInit == TruthInit => FactInv
<1> SUFFICES ASSUME TruthInit PROVE FactInv
  OBVIOUS
<1>1. FactShape
  BY DEF TruthInit, FactShape, FactRows, Beliefs, AtRest
<1>2. \A v \in Values : IsFiniteSet(fact[v].sources) /\ fact[v].sources = {} /\ ~fact[v].fresh
                        /\ fact[v].status = "none"
  BY FS_EmptySet DEF TruthInit
<1>3. \A w \in Writers : Believes(writer[w])
  BY DEF TruthInit, AtRest, Believes
<1>4. QED
  BY <1>1, <1>2, <1>3 DEF FactInv, VerifiedHasGrounds, Standing

(* The types of what a writer holds.                                         *)
LEMMA WriterIs ==
  ASSUME FactInv, NEW w \in Writers
  PROVE  writer[w] \in Beliefs /\ Believes(writer[w])
BY DEF FactInv, FactShape

(* record_fact has read.                                                     *)
LEMMA RecordKeeps ==
  ASSUME FactInv, NEW w \in Writers, NEW v \in Values, NEW d \in Domains \cup {"inferred"},
         RecordFact(w, v, d)
  PROVE  FactInv'
<1>1. PICK r \in Beliefs :
        /\ r.value = v /\ r.from = d /\ writer' = [writer EXCEPT ![w] = r]
        /\ r.pc = IF fact[v].status = "none" THEN "insert" ELSE "source"
        /\ r.new <=> fact[v].status = "none"
  <2> DEFINE r == [AtRest EXCEPT !.value = v, !.from = d,
                     !.new = fact[v].status = "none",
                     !.pc = IF fact[v].status = "none" THEN "insert" ELSE "source"]
  <2>1. /\ r \in Beliefs /\ r.value = v /\ r.from = d
        /\ r.pc = IF fact[v].status = "none" THEN "insert" ELSE "source"
        /\ r.new <=> fact[v].status = "none"
    BY DEF AtRest, Beliefs
  <2>2. writer' = [writer EXCEPT ![w] = r]
    BY DEF RecordFact, Begin, Hold
  <2>3. QED  BY <2>1, <2>2
<1>2. Believes(r)
  BY <1>1 DEF Believes
<1>3. writer[w].pc = "idle" /\ UNCHANGED <<fact, dispute, decided, uncompared>>
  BY DEF RecordFact, Begin
<1>4. QED
  BY <1>1, <1>2, <1>3, QuietFact DEF Looking, Settling

(* A value is inserted, and its writer has yet to look for rivals.           *)
LEMMA InsertKeeps ==
  ASSUME FactInv, NEW w \in Writers, InsertFact(w)
  PROVE  FactInv'
<1> DEFINE m == writer[w]
<1>1. m.pc = "insert" /\ m \in Beliefs /\ m.value \in Values /\ m.new
      /\ m.from \in Domains \cup {"inferred"}
      /\ UNCHANGED <<dispute, decided, uncompared>>
  BY WriterIs DEF InsertFact, Believes
<1>2. CASE fact[m.value].status # "none"
  <2>1. writer' = [writer EXCEPT ![w] = AtRest] /\ fact' = fact
    BY <1>2 DEF InsertFact, Hold
  <2>2. AtRest \in Beliefs /\ Believes(AtRest)
    BY DEF AtRest, Beliefs, Believes
  <2>3. QED  BY <1>1, <2>1, <2>2, QuietFact DEF Looking, Settling
<1>3. CASE fact[m.value].status = "none"
  <2>1. PICK r \in Beliefs : r.pc = "source" /\ r.value = m.value /\ r.from = m.from
                            /\ r.new /\ writer' = [writer EXCEPT ![w] = r]
    <3>1. [m EXCEPT !.pc = "source"] \in Beliefs
      BY <1>1 DEF Beliefs
    <3>2. QED  BY <1>1, <1>3, <3>1 DEF InsertFact, Hold, Beliefs
  <2>2. PICK f \in FactRows :
          /\ f.fresh /\ f.sources = {} /\ f.status \in {"INFERRED", "UNVERIFIED"}
          /\ fact' = [fact EXCEPT ![m.value] = f]
    <3> DEFINE f == [fresh |-> TRUE, sources |-> {},
                     status |-> IF m.from = "inferred" THEN "INFERRED" ELSE "UNVERIFIED"]
    <3>1. f \in FactRows /\ f.fresh /\ f.sources = {} /\ f.status \in {"INFERRED", "UNVERIFIED"}
      BY DEF FactRows, FactStatuses
    <3>2. fact' = [fact EXCEPT ![m.value] = f]
      BY <1>3 DEF InsertFact
    <3>3. QED  BY <3>1, <3>2
  <2>3. fact'[m.value] = f /\ \A v \in Values \ {m.value} : fact'[v] = fact[v]
    BY <1>1, <2>2 DEF FactInv, FactShape
  <2>4. FactShape'
    BY <1>1, <2>1, <2>2 DEF FactInv, FactShape
  <2>5. Grows
    BY <1>1, <1>3, <2>2, <2>3, FS_EmptySet DEF FactInv, Grows
  <2>6. Believes(r)'
    BY <1>1, <2>1, <2>2, <2>3 DEF Believes
  <2>7. \A v \in Values : fact'[v].status = "VERIFIED" => fact[v].status = "VERIFIED"
    BY <2>2, <2>3
  <2>8. \A v, u \in Values : v # u /\ Standing(v)' /\ Standing(u)' =>
           \/ Looking(r, v, u) \/ Looking(r, u, v)
           \/ /\ Standing(v) /\ Standing(u)
              /\ ~Looking(writer[w], v, u) /\ ~Looking(writer[w], u, v)
              /\ ~Settling(writer[w], v, u)
    BY <1>1, <2>1, <2>3 DEF Standing, Looking, Settling
  <2>9. QED  BY <1>1, <2>1, <2>4, <2>5, <2>6, <2>7, <2>8, FactMoves
<1>4. QED
  BY <1>2, <1>3

(* New sources leave the rest of the facts.                                  *)
LEMMA SourcesAdded ==
  ASSUME FactInv, NEW v \in Values, NEW s \in SUBSET Sources,
         fact' = [fact EXCEPT ![v].sources = @ \cup s]
  PROVE  /\ fact' \in [Values -> FactRows]
         /\ \A u \in Values : /\ fact'[u].status = fact[u].status
                              /\ fact'[u].fresh = fact[u].fresh
                              /\ fact'[u].sources = fact[u].sources \cup (IF u = v THEN s ELSE {})
<1>1. fact \in [Values -> FactRows]
  BY DEF FactInv, FactShape
<1>2. PICK f \in FactRows : f = [fact[v] EXCEPT !.sources = @ \cup s]
  BY <1>1 DEF FactRows
<1>3. /\ f.status = fact[v].status /\ f.fresh = fact[v].fresh
      /\ f.sources = fact[v].sources \cup s
  BY <1>1, <1>2 DEF FactRows
<1>4. fact' = [fact EXCEPT ![v] = f]
  BY <1>1, <1>2
<1>5. fact' \in [Values -> FactRows]
  BY <1>1, <1>4
<1>6. \A u \in Values : fact'[u] = IF u = v THEN f ELSE fact[u]
  BY <1>1, <1>4
<1>7. QED
  BY <1>3, <1>5, <1>6

(* A step that adds sources to a value there is.                             *)
LEMMA SourcesKept ==
  ASSUME FactInv, NEW w \in Writers, NEW r \in Beliefs, writer' = [writer EXCEPT ![w] = r],
         NEW v \in Values, NEW s \in SUBSET Sources, IsFiniteSet(s),
         fact' = [fact EXCEPT ![v].sources = @ \cup s], fact[v].status # "none",
         UNCHANGED <<dispute, decided, uncompared>>, Believes(r)',
         \A x, y \in Values : /\ Looking(writer[w], x, y) => Looking(r, x, y)
                              /\ ~Settling(writer[w], x, y)
  PROVE  FactInv'
<1>1. /\ fact' \in [Values -> FactRows]
      /\ \A u \in Values : /\ fact'[u].status = fact[u].status
                           /\ fact'[u].fresh = fact[u].fresh
                           /\ fact'[u].sources = fact[u].sources \cup (IF u = v THEN s ELSE {})
  BY SourcesAdded
<1>2. FactShape'
  BY <1>1 DEF FactInv, FactShape
<1>3. Grows
  <2>1. ASSUME NEW u \in Values
        PROVE  /\ fact[u].sources \subseteq fact'[u].sources /\ IsFiniteSet(fact'[u].sources)
               /\ fact'[u].status = "none" => fact'[u] = fact[u]
    <3>1. IsFiniteSet(fact[u].sources)
      BY DEF FactInv
    <3>2. IsFiniteSet(fact'[u].sources)
      <4>1. PICK t : t = IF u = v THEN s ELSE {}
        OBVIOUS
      <4>2. IsFiniteSet(t)
        BY <4>1, FS_EmptySet
      <4>3. IsFiniteSet(fact[u].sources \cup t)
        BY <3>1, <4>2, FS_Union
      <4>4. QED  BY <1>1, <4>1, <4>3
    <3>3. u # v => fact'[u] = fact[u]
      BY DEF FactInv, FactShape
    <3>4. QED  BY <1>1, <3>2, <3>3
  <2>2. QED  BY <1>1, <2>1 DEF Grows
<1>4. \A x \in Values : Standing(x)' <=> Standing(x)
  BY <1>1 DEF Standing
<1>5. \A x \in Values : fact'[x].status = "VERIFIED" => fact[x].status = "VERIFIED"
  BY <1>1
<1>6. QED
  BY <1>2, <1>3, <1>4, <1>5, FactMoves

(* Its source.                                                               *)
LEMMA SourceKeeps ==
  ASSUME FactInv, NEW w \in Writers, AddSource(w)
  PROVE  FactInv'
<1> DEFINE m == writer[w]
<1>1. m.pc = "source" /\ m \in Beliefs /\ m.value \in Values /\ fact[m.value].status # "none"
      /\ m.from \in Domains \cup {"inferred"}
      /\ UNCHANGED <<dispute, decided, uncompared>>
  BY WriterIs DEF AddSource, Believes
<1>2. PICK r \in Beliefs : /\ r.pc = "detect" /\ r.value = m.value /\ r.new = m.new
                           /\ writer' = [writer EXCEPT ![w] = r]
  <2>1. [m EXCEPT !.pc = "detect"] \in Beliefs
    BY <1>1 DEF Beliefs
  <2>2. QED  BY <1>1, <2>1 DEF AddSource, Hold, Beliefs
<1>3. PICK s \in SUBSET {m.from} : s \subseteq Sources /\ fact' =
        [fact EXCEPT ![m.value].sources = @ \cup s]
  <2> DEFINE s == IF m.from = "inferred" THEN {} ELSE {m.from}
  <2>1. s \in SUBSET {m.from} /\ s \subseteq Sources
    BY <1>1 DEF Sources
  <2>2. fact' = [fact EXCEPT ![m.value].sources = @ \cup s]
    BY <1>1 DEF AddSource, FactInv, FactShape
  <2>3. QED  BY <2>1, <2>2
<1>4. IsFiniteSet(s)
  BY FS_Singleton, FS_Subset
<1>5. Believes(r)'
  <2>1. fact'[m.value].status # "none"
    BY <1>1, <1>3, SourcesAdded
  <2>2. QED  BY <1>1, <1>2, <2>1 DEF Believes
<1>6. QED
  BY <1>1, <1>2, <1>3, <1>4, <1>5, SourcesKept DEF Looking, Settling

(* A step that changes statuses and clocks.                                  *)
LEMMA StatusMoves ==
  ASSUME FactInv, FactShape', NEW w \in Writers, NEW r \in Beliefs,
         writer' = [writer EXCEPT ![w] = r],
         \A v \in Values : /\ fact'[v].sources = fact[v].sources
                           /\ fact'[v] = fact[v] \/ fact'[v].status # "none",
         decided \subseteq decided', uncompared \subseteq uncompared', Believes(r)',
         \A v \in Values : fact'[v].status = "VERIFIED" =>
           fact[v].status = "VERIFIED" \/ Grounded(v)',
         \A v, u \in Values : v # u /\ Standing(v)' /\ Standing(u)' =>
           \/ {v, u} \cap (decided' \cup uncompared') # {}
           \/ /\ Standing(v) /\ Standing(u)
              /\ dispute[{v, u}].open > 0 => dispute'[{v, u}].open > 0
              /\ Looking(writer[w], v, u) \/ Settling(writer[w], v, u) =>
                   Looking(r, v, u) \/ dispute'[{v, u}].open > 0
  PROVE  FactInv'
<1>1. Grows
  BY DEF FactInv, Grows
<1>2. \A v, u \in Values : {v, u} = {u, v}
  OBVIOUS
<1>3. \A v, u \in Values : v # u /\ Standing(v)' /\ Standing(u)' =>
        \/ {v, u} \cap (decided' \cup uncompared') # {}
        \/ /\ Standing(v) /\ Standing(u)
           /\ dispute[{v, u}].open > 0 => dispute'[{v, u}].open > 0 \/ Settling(r, v, u)
           /\ \/ Looking(writer[w], v, u) \/ Looking(writer[w], u, v)
              \/ Settling(writer[w], v, u)
              => \/ Looking(r, v, u) \/ Looking(r, u, v) \/ Settling(r, v, u)
                 \/ dispute'[{v, u}].open > 0
  BY <1>2
<1>4. QED
  BY <1>1, <1>3, FactMoves

(* The rivals that stand are put on the writer's list.                       *)
LEMMA DetectKeeps ==
  ASSUME FactInv, NEW w \in Writers, DetectConflicts(w)
  PROVE  FactInv'
<1> DEFINE m == writer[w]
<1>1. m.pc = "detect" /\ m \in Beliefs /\ Believes(m)
      /\ UNCHANGED <<fact, dispute, decided, uncompared>>
  BY WriterIs DEF DetectConflicts
<1>2. PICK r \in Beliefs : /\ r.pc = "conflicts" /\ r.value = m.value /\ r.new = m.new
                           /\ r.rivals = {u \in Values \ {m.value} : Standing(u)}
                           /\ writer' = [writer EXCEPT ![w] = r]
  <2> DEFINE r == [m EXCEPT !.pc = "conflicts", !.rivals = Rivals(m.value)]
  <2>1. r \in Beliefs /\ r.pc = "conflicts" /\ r.value = m.value /\ r.new = m.new
        /\ r.rivals = {u \in Values \ {m.value} : Standing(u)}
    BY <1>1 DEF Beliefs, Rivals
  <2>2. writer' = [writer EXCEPT ![w] = r]
    BY DEF DetectConflicts, Hold
  <2>3. QED  BY <2>1, <2>2
<1>3. Believes(r)
  BY <1>1, <1>2 DEF Believes
<1>4. QED
  BY <1>1, <1>2, <1>3, QuietFact DEF Looking, Settling

(* A rival leaves the list only for an open conflict.                        *)
LEMMA FindKeeps ==
  ASSUME FactInv, NEW w \in Writers, FindConflict(w)
  PROVE  FactInv'
<1> DEFINE m == writer[w]
<1>1. m.pc = "conflicts" /\ m \in Beliefs /\ Believes(m)
      /\ UNCHANGED <<fact, dispute, decided, uncompared>>
  BY WriterIs DEF FindConflict
<1>2. PICK u \in m.rivals :
        writer' = [writer EXCEPT ![w] = IF dispute[{u, m.value}].open > 0
                                        THEN [m EXCEPT !.rivals = @ \ {u}]
                                        ELSE [m EXCEPT !.pc = "open", !.status = u]]
  BY DEF FindConflict, Hold
<1>3. CASE dispute[{u, m.value}].open > 0
  <2>1. PICK r \in Beliefs : /\ r.pc = "conflicts" /\ r.value = m.value /\ r.new = m.new
                             /\ r.rivals = m.rivals \ {u}
                             /\ writer' = [writer EXCEPT ![w] = r]
    <3> DEFINE r == [m EXCEPT !.rivals = @ \ {u}]
    <3>1. /\ r \in Beliefs /\ r.pc = "conflicts" /\ r.value = m.value /\ r.new = m.new
          /\ r.rivals = m.rivals \ {u}
      BY <1>1 DEF Beliefs
    <3>2. writer' = [writer EXCEPT ![w] = r]
      BY <1>2, <1>3
    <3>3. QED  BY <3>1, <3>2
  <2>2. Believes(r)
    BY <1>1, <2>1 DEF Believes
  <2>3. {m.value, u} = {u, m.value}
    OBVIOUS
  <2>4. QED  BY <1>1, <1>3, <2>1, <2>2, <2>3, QuietFact DEF Looking, Settling
<1>4. CASE ~(dispute[{u, m.value}].open > 0)
  <2>1. PICK r \in Beliefs : /\ r.pc = "open" /\ r.value = m.value /\ r.new = m.new
                             /\ r.rivals = m.rivals /\ r.status = u
                             /\ writer' = [writer EXCEPT ![w] = r]
    <3> DEFINE r == [m EXCEPT !.pc = "open", !.status = u]
    <3>1. /\ r \in Beliefs /\ r.pc = "open" /\ r.value = m.value /\ r.new = m.new
          /\ r.rivals = m.rivals /\ r.status = u
      BY <1>1, <1>2 DEF Beliefs
    <3>2. writer' = [writer EXCEPT ![w] = r]
      BY <1>2, <1>4
    <3>3. QED  BY <3>1, <3>2
  <2>2. Believes(r)
    BY <1>1, <1>2, <2>1 DEF Believes
  <2>3. QED  BY <1>1, <2>1, <2>2, QuietFact DEF Looking, Settling
<1>5. QED
  BY <1>3, <1>4

(* The conflict is opened.                                                   *)
LEMMA OpenKeeps ==
  ASSUME FactInv, NEW w \in Writers, OpenConflict(w)
  PROVE  FactInv'
<1> DEFINE m == writer[w]
<1>1. m.pc = "open" /\ m \in Beliefs /\ m.value \in Values /\ m.status \in m.rivals
      /\ m.value \notin m.rivals /\ fact[m.value].status # "none"
      /\ UNCHANGED <<fact, decided, uncompared>>
  BY WriterIs DEF OpenConflict, Believes
<1>2. PICK p \in Pairs : p = {m.status, m.value}
  <2>1. m.status \in Values /\ m.status # m.value
    BY <1>1 DEF Beliefs
  <2>2. QED  BY <1>1, <2>1, PairsAre
<1>3. PICK r \in Beliefs : /\ r.pc = "flag" /\ r.value = m.value /\ r.new = m.new
                           /\ r.rivals = m.rivals \ {m.status} /\ r.status = m.status
                           /\ writer' = [writer EXCEPT ![w] = r]
  <2> DEFINE r == [m EXCEPT !.pc = "flag", !.rivals = @ \ {m.status}]
  <2>1. /\ r \in Beliefs /\ r.pc = "flag" /\ r.value = m.value /\ r.new = m.new
        /\ r.rivals = m.rivals \ {m.status} /\ r.status = m.status
    BY <1>1 DEF Beliefs
  <2>2. writer' = [writer EXCEPT ![w] = r]
    BY DEF OpenConflict, Hold
  <2>3. QED  BY <2>1, <2>2
<1>4. dispute' = [dispute EXCEPT ![p].open = @ + 1]
  BY <1>2 DEF OpenConflict
<1>5. /\ dispute' \in [Pairs -> [open : Nat, closed : BOOLEAN]]
      /\ dispute'[p].open > 0
      /\ \A q \in Pairs : dispute[q].open > 0 => dispute'[q].open > 0
  <2>1. \A q \in Pairs : dispute[q] \in [open : Nat, closed : BOOLEAN]
    BY DEF FactInv, FactShape
  <2>2. PICK d \in [open : Nat, closed : BOOLEAN] : d = dispute[p]
    BY <2>1
  <2>3. d.open + 1 \in Nat /\ d.open + 1 > 0
    OBVIOUS
  <2>4. [d EXCEPT !.open = @ + 1] \in [open : Nat, closed : BOOLEAN]
        /\ [d EXCEPT !.open = @ + 1].open = d.open + 1
    BY <2>3
  <2>5. PICK o \in [open : Nat, closed : BOOLEAN] : o = [dispute[p] EXCEPT !.open = @ + 1] /\ o.open > 0
    BY <2>2, <2>3, <2>4
  <2>6. dispute' = [dispute EXCEPT ![p] = o]
    BY <1>4, <2>5 DEF FactInv, FactShape
  <2>7. QED  BY <2>1, <2>5, <2>6 DEF FactInv, FactShape
<1>6. FactShape'
  BY <1>1, <1>3, <1>5 DEF FactInv, FactShape
<1>7. Believes(r)'
  <2>1. m.status \in Values \ {m.value}
    BY <1>1 DEF Beliefs
  <2>2. QED  BY <1>1, <1>3, <2>1 DEF Believes
<1>8. ASSUME NEW v \in Values, NEW u \in Values, v # u, Standing(v)', Standing(u)'
      PROVE  /\ Standing(v) /\ Standing(u)
             /\ dispute[{v, u}].open > 0 => dispute'[{v, u}].open > 0
             /\ Looking(writer[w], v, u) \/ Settling(writer[w], v, u) =>
                  Looking(r, v, u) \/ dispute'[{v, u}].open > 0
  <2>1. Standing(v) /\ Standing(u)
    BY <1>1, <1>8 DEF Standing
  <2>2. {v, u} \in Pairs
    BY <1>8, PairsAre
  <2>3. Looking(m, v, u) => Looking(r, v, u) \/ {v, u} = p
    BY <1>1, <1>2, <1>3 DEF Looking
  <2>4. ~Settling(m, v, u)
    BY <1>1 DEF Settling
  <2>5. QED  BY <1>5, <2>1, <2>2, <2>3, <2>4
<1>9. \A v \in Values : /\ fact'[v] = fact[v]
                        /\ fact'[v].status = "VERIFIED" => fact[v].status = "VERIFIED"
  BY <1>1
<1>10. QED
  BY <1>1, <1>3, <1>6, <1>7, <1>8, <1>9, StatusMoves

(* Both values are marked, and one that did not stand is brought back.       *)
LEMMA FlagKeeps ==
  ASSUME FactInv, NEW w \in Writers, FlagRivals(w)
  PROVE  FactInv'
<1> DEFINE m == writer[w]
<1>1. m.pc = "flag" /\ m \in Beliefs /\ m.value \in Values /\ m.status \in Values \ {m.value}
      /\ m.value \notin m.rivals /\ fact[m.value].status # "none"
      /\ UNCHANGED <<dispute, decided>>
  BY WriterIs DEF FlagRivals, Believes
<1>2. PICK p \in Pairs : p = {m.status, m.value}
  BY <1>1, PairsAre
<1>3. PICK r \in Beliefs : /\ r.pc = "conflicts" /\ r.value = m.value /\ r.new = m.new
                           /\ r.rivals = m.rivals
                           /\ writer' = [writer EXCEPT ![w] = r]
  <2> DEFINE r == [m EXCEPT !.pc = "conflicts"]
  <2>1. /\ r \in Beliefs /\ r.pc = "conflicts" /\ r.value = m.value /\ r.new = m.new
        /\ r.rivals = m.rivals
    BY <1>1 DEF Beliefs
  <2>2. writer' = [writer EXCEPT ![w] = r]
    BY DEF FlagRivals, Hold
  <2>3. QED  BY <2>1, <2>2
<1>4. fact' = [v \in Values |-> IF v \in p THEN [fact[v] EXCEPT !.status = "CONFLICTED"]
                                           ELSE fact[v]]
      /\ uncompared' = uncompared \cup {v \in p : ~Standing(v)}
  BY <1>2 DEF FlagRivals, Revives
<1>5. \A v \in Values :
        /\ fact'[v] \in FactRows /\ fact'[v].sources = fact[v].sources
        /\ fact'[v].fresh = fact[v].fresh
        /\ v \in p => fact'[v].status = "CONFLICTED"
        /\ v \notin p => fact'[v] = fact[v]
  <2>1. \A v \in Values : fact[v] \in FactRows
    BY DEF FactInv, FactShape
  <2>2. QED  BY <1>4, <2>1 DEF FactRows, FactStatuses
<1>6. FactShape'
  <2>1. fact' \in [Values -> FactRows]
    BY <1>4, <1>5
  <2>2. p \subseteq Values
    BY PairsAre
  <2>3. QED  BY <1>1, <1>3, <1>4, <2>1, <2>2 DEF FactInv, FactShape
<1>7. Believes(r)'
  BY <1>1, <1>2, <1>3, <1>5 DEF Believes
<1>8. \A v \in Values : /\ fact'[v] = fact[v] \/ fact'[v].status # "none"
                        /\ fact'[v].status = "VERIFIED" => fact[v].status = "VERIFIED"
                        /\ Standing(v)' => Standing(v) \/ v \in uncompared'
  BY <1>4, <1>5 DEF Standing
<1>9. \A v, u \in Values : v # u /\ Standing(v)' /\ Standing(u)' =>
         \/ {v, u} \cap (decided' \cup uncompared') # {}
         \/ /\ Standing(v) /\ Standing(u)
            /\ dispute[{v, u}].open > 0 => dispute'[{v, u}].open > 0
            /\ Looking(m, v, u) \/ Settling(m, v, u) =>
                 Looking(r, v, u) \/ dispute'[{v, u}].open > 0
  BY <1>1, <1>3, <1>8 DEF Looking, Settling
<1>10. \A v \in Values : /\ fact'[v].sources = fact[v].sources
                         /\ fact'[v] = fact[v] \/ fact'[v].status # "none"
                         /\ fact'[v].status = "VERIFIED" => fact[v].status = "VERIFIED"
  BY <1>5, <1>8
<1>11. decided \subseteq decided' /\ uncompared \subseteq uncompared'
  BY <1>1, <1>4
<1>12. QED
  BY <1>1, <1>3, <1>6, <1>7, <1>9, <1>10, <1>11, StatusMoves

(* What a recorder's status rests on.                                        *)
LEMMA StatusIs ==
  ASSUME FactInv, NEW v \in Values
  PROVE  RecomputeStatus(v) \in FactStatuses
         /\ (RecomputeStatus(v) = "VERIFIED" => Grounded(v))
<1>1. fact[v].status = "VERIFIED" => Grounded(v)
  BY DEF FactInv, VerifiedHasGrounds, Grounded, Observed
<1>2. CASE OpenOn(v)
  BY <1>2 DEF RecomputeStatus, FactStatuses
<1>3. CASE ~OpenOn(v) /\ (fact[v].status = "VERIFIED" \/ Cardinality(Observed(v)) >= 2)
  BY <1>1, <1>3 DEF RecomputeStatus, FactStatuses, Grounded
<1>4. CASE ~OpenOn(v) /\ ~(fact[v].status = "VERIFIED" \/ Cardinality(Observed(v)) >= 2)
  BY <1>4 DEF RecomputeStatus, FactStatuses
<1>5. QED
  BY <1>2, <1>3, <1>4

LEMMA RecomputeKeeps ==
  ASSUME FactInv, NEW w \in Writers, Recompute(w)
  PROVE  FactInv'
<1> DEFINE m == writer[w]
<1>1. m.pc = "conflicts" /\ m.rivals = {} /\ m \in Beliefs /\ Believes(m) /\ m.value \in Values
      /\ UNCHANGED <<fact, dispute, decided, uncompared>>
  BY WriterIs DEF Recompute, Believes
<1>2. PICK s \in FactStatuses : s = RecomputeStatus(m.value) /\ (s = "VERIFIED" => Grounded(m.value))
  BY <1>1, StatusIs
<1>3. PICK r \in Beliefs : /\ r.pc = "write" /\ r.value = m.value /\ r.status = s
                           /\ writer' = [writer EXCEPT ![w] = r]
  <2> DEFINE r == [m EXCEPT !.pc = "write", !.status = s]
  <2>1. r \in Beliefs /\ r.pc = "write" /\ r.value = m.value /\ r.status = s
    BY <1>1, <1>2 DEF Beliefs
  <2>2. writer' = [writer EXCEPT ![w] = r]
    BY <1>2 DEF Recompute, Hold
  <2>3. QED  BY <2>1, <2>2
<1>4. Believes(r)
  BY <1>1, <1>2, <1>3 DEF Believes
<1>5. QED
  BY <1>1, <1>3, <1>4, QuietFact DEF Looking, Settling

(* A writer at rest.                                                         *)
LEMMA RestIs == AtRest \in Beliefs /\ AtRest.pc = "idle"
BY DEF AtRest, Beliefs

LEMMA RestBelieves == Believes(AtRest)'
BY DEF AtRest, Believes

(* The status is written; a value that did not stand is brought back.        *)
LEMMA WriteStatusKeeps ==
  ASSUME FactInv, NEW w \in Writers, WriteStatus(w)
  PROVE  FactInv'
<1> DEFINE m == writer[w]
<1>1. m.pc = "write" /\ m \in Beliefs /\ m.value \in Values /\ m.status \in FactStatuses
      /\ (m.status = "VERIFIED" => Grounded(m.value))
      /\ UNCHANGED <<dispute, decided>> /\ writer' = [writer EXCEPT ![w] = AtRest]
      /\ uncompared' = uncompared \cup {v \in {m.value} : ~Standing(v)}
  BY WriterIs DEF WriteStatus, Believes, Hold, Revives
<1>2. PICK f \in FactRows : /\ f.sources = fact[m.value].sources /\ f.status = m.status
                            /\ fact' = [fact EXCEPT ![m.value] = f]
  <2> DEFINE g == fact[m.value]
  <2>1. g \in FactRows /\ g.fresh \in BOOLEAN /\ m.new \in BOOLEAN
    BY <1>1 DEF FactInv, FactShape, FactRows, Beliefs
  <2>fresh. PICK b \in BOOLEAN : b = (g.fresh \/ ~m.new)
    BY <2>1
  <2> DEFINE f == [g EXCEPT !.status = m.status, !.fresh = b]
  <2>2. f \in FactRows /\ f.sources = g.sources /\ f.status = m.status
    BY <1>1, <2>1 DEF FactRows
  <2>3. f = [g EXCEPT !.status = m.status, !.fresh = @ \/ ~m.new]
    BY <2>fresh
  <2>4. fact' = [fact EXCEPT ![m.value] = f]
    BY <1>1, <2>3 DEF WriteStatus, FactInv, FactShape
  <2>5. QED  BY <2>2, <2>4
<1>3. fact'[m.value] = f /\ \A v \in Values \ {m.value} : fact'[v] = fact[v]
  BY <1>1, <1>2 DEF FactInv, FactShape
<1>4. FactShape'
  BY <1>1, <1>2, RestIs DEF FactInv, FactShape
<1>5. \A v \in Values : /\ fact'[v].sources = fact[v].sources
                        /\ fact'[v] = fact[v] \/ fact'[v].status # "none"
  BY <1>1, <1>2, <1>3 DEF FactStatuses
<1>6. \A v \in Values : fact'[v].status = "VERIFIED" => fact[v].status = "VERIFIED" \/ Grounded(v)'
  <2>1. PICK v \in Values : v = m.value
    BY <1>1
  <2>2. Grounded(v) => Grounded(v)'
    BY <1>1, <1>2, <1>3, <2>1 DEF Grounded, Observed
  <2>3. QED  BY <1>1, <1>2, <1>3, <2>1, <2>2
<1>7. ASSUME NEW v \in Values, NEW u \in Values, v # u, Standing(v)', Standing(u)'
      PROVE  \/ {v, u} \cap (decided' \cup uncompared') # {}
             \/ /\ Standing(v) /\ Standing(u)
                /\ dispute[{v, u}].open > 0 => dispute'[{v, u}].open > 0
                /\ ~Looking(writer[w], v, u) /\ ~Settling(writer[w], v, u)
  <2>1. \A x \in {v, u} : Standing(x) \/ x \in uncompared'
    BY <1>1, <1>3, <1>7 DEF Standing
  <2>2. ~Looking(m, v, u) /\ ~Settling(m, v, u)
    BY <1>1 DEF Looking, Settling
  <2>3. QED  BY <1>1, <2>1, <2>2
<1>8. QED
  BY <1>1, <1>4, <1>5, <1>6, <1>7, RestIs, RestBelieves, StatusMoves

(* verify_fact begins.                                                       *)
LEMMA VerifyKeeps ==
  ASSUME FactInv, NEW w \in Writers, NEW v \in Values, NEW o \in {"VERIFIED", "STALE", "none"},
         VerifyFact(w, v, o)
  PROVE  FactInv'
<1>1. PICK r \in Beliefs : r.pc = "verdict" /\ r.value = v /\ writer' = [writer EXCEPT ![w] = r]
  <2> DEFINE r == [AtRest EXCEPT !.pc = "verdict", !.value = v, !.status = o]
  <2>1. r \in Beliefs /\ r.pc = "verdict" /\ r.value = v
    BY DEF AtRest, Beliefs, FactStatuses
  <2>2. writer' = [writer EXCEPT ![w] = r]
    BY DEF VerifyFact, Begin, Hold
  <2>3. QED  BY <2>1, <2>2
<1>2. PICK s \in SUBSET Sources : s = {"email_verify"}
  BY DEF Sources
<1>3. IsFiniteSet(s)
  BY <1>2, FS_Singleton
<1>4. writer[w].pc = "idle" /\ fact[v].status # "none" /\ UNCHANGED <<dispute, decided, uncompared>>
      /\ fact' = [fact EXCEPT ![v].sources = @ \cup s]
  BY <1>2 DEF VerifyFact, Begin
<1>5. Believes(r)'
  BY <1>1 DEF Believes
<1>6. QED
  BY <1>1, <1>3, <1>4, <1>5, SourcesKept DEF Looking, Settling

(* A verdict: the verifier decided for the value, or the value is stale.     *)
LEMMA VerdictKeeps ==
  ASSUME FactInv, NEW w \in Writers, WriteVerdict(w)
  PROVE  FactInv'
<1> DEFINE m == writer[w]
<1>1. m.pc = "verdict" /\ m \in Beliefs /\ m.value \in Values
      /\ UNCHANGED <<dispute, uncompared>> /\ writer' = [writer EXCEPT ![w] = AtRest]
  BY WriterIs DEF WriteVerdict, Believes, Hold
<1>2. \A x, y : ~Looking(m, x, y) /\ ~Settling(m, x, y)
  BY <1>1 DEF Looking, Settling
<1>3. fact[m.value] \in FactRows
  BY <1>1 DEF FactInv, FactShape
<1>4. CASE UNCHANGED <<fact, decided>>
  <2>1. Believes(AtRest)
    BY DEF AtRest, Believes
  <2>2. QED  BY <1>1, <1>2, <1>4, <2>1, RestIs, QuietFact
<1>5. ASSUME NEW f \in FactRows, f.sources = fact[m.value].sources,
             fact' = [fact EXCEPT ![m.value] = f],
             \/ f.status = "VERIFIED" /\ decided' = decided \cup {m.value}
             \/ f.status = "STALE" /\ decided' = decided
      PROVE  FactInv'
  <2>1. fact'[m.value] = f /\ \A v \in Values \ {m.value} : fact'[v] = fact[v]
    BY <1>1, <1>5 DEF FactInv, FactShape
  <2>2. FactShape'
    BY <1>1, <1>5, RestIs DEF FactInv, FactShape
  <2>3. \A v \in Values : /\ fact'[v].sources = fact[v].sources
                          /\ fact'[v] = fact[v] \/ fact'[v].status # "none"
    BY <1>5, <2>1
  <2>4. \A v \in Values : fact'[v].status = "VERIFIED" => fact[v].status = "VERIFIED" \/ Grounded(v)'
    BY <1>5, <2>1 DEF Grounded
  <2>5. \A v \in Values : Standing(v)' => Standing(v) \/ v \in decided'
    BY <1>5, <2>1 DEF Standing, Rivalling
  <2>6. \A v, u \in Values : v # u /\ Standing(v)' /\ Standing(u)' =>
           \/ {v, u} \cap (decided' \cup uncompared') # {}
           \/ Standing(v) /\ Standing(u)
    BY <2>5
  <2>7. decided \subseteq decided' /\ uncompared \subseteq uncompared'
    BY <1>1, <1>5
  <2>8. QED
    BY <1>1, <1>2, <2>2, <2>3, <2>4, <2>6, <2>7, RestIs, RestBelieves, StatusMoves
<1>6. CASE m.status = "VERIFIED"
  <2>1. PICK f \in FactRows : /\ f.status = "VERIFIED" /\ f.sources = fact[m.value].sources
                              /\ f = [fact[m.value] EXCEPT !.status = "VERIFIED", !.fresh = TRUE]
    BY <1>3 DEF FactRows, FactStatuses
  <2>2. fact' = [fact EXCEPT ![m.value] = f] /\ decided' = decided \cup {m.value}
    BY <1>1, <1>6, <2>1 DEF WriteVerdict, FactInv, FactShape
  <2>3. QED  BY <1>5, <2>1, <2>2
<1>7. CASE m.status = "STALE"
  <2>1. PICK f \in FactRows : /\ f.status = "STALE" /\ f.sources = fact[m.value].sources
                              /\ f = [fact[m.value] EXCEPT !.status = "STALE"]
    BY <1>3 DEF FactRows, FactStatuses
  <2>2. fact' = [fact EXCEPT ![m.value] = f] /\ decided' = decided
    BY <1>1, <1>7, <2>1 DEF WriteVerdict, FactInv, FactShape
  <2>3. QED  BY <1>5, <2>1, <2>2
<1>8. CASE m.status \notin {"VERIFIED", "STALE"}
  BY <1>4, <1>8 DEF WriteVerdict
<1>9. QED
  BY <1>6, <1>7, <1>8

(* A conflict is resolved: its row may have no open side left, and the writer *)
(* is about to write who won.                                                *)
LEMMA ResolveKeeps ==
  ASSUME FactInv, NEW w \in Writers, NEW p \in Pairs, NEW v \in Values, ResolveConflict(w, p, v)
  PROVE  FactInv'
<1>1. v \in p /\ writer[w].pc = "idle" /\ UNCHANGED <<fact, decided, uncompared>>
      /\ dispute' = [dispute EXCEPT ![p].closed = TRUE,
                       ![p].open = IF @ > 0 THEN @ - 1 ELSE 0]
  BY DEF ResolveConflict, Begin
<1>2. PICK u \in Values : u # v /\ p = {v, u}
  BY <1>1, PairsAre
<1>3. PICK r \in Beliefs : /\ r.pc = "winner" /\ r.value = v /\ r.rivals = {u}
                           /\ writer' = [writer EXCEPT ![w] = r]
  <2> DEFINE others == \E q \in Pairs : v \in q /\ dispute'[q].open > 0
  <2>1. PICK s \in FactStatuses : s = IF others THEN "CONFLICTED" ELSE "VERIFIED"
    BY DEF FactStatuses
  <2> DEFINE r == [AtRest EXCEPT !.pc = "winner", !.value = v, !.rivals = p \ {v},
                     !.status = s]
  <2>2. r \in Beliefs /\ r.pc = "winner" /\ r.value = v /\ r.rivals = {u}
    BY <1>2 DEF AtRest, Beliefs
  <2>3. writer' = [writer EXCEPT ![w] = r]
    BY <2>1 DEF ResolveConflict, Begin, Hold
  <2>4. QED  BY <2>2, <2>3
<1>4. /\ dispute' \in [Pairs -> [open : Nat, closed : BOOLEAN]]
      /\ \A q \in Pairs \ {p} : dispute'[q] = dispute[q]
  <2>1. \A q \in Pairs : dispute[q] \in [open : Nat, closed : BOOLEAN]
    BY DEF FactInv, FactShape
  <2>2. PICK d \in [open : Nat, closed : BOOLEAN] : d = dispute[p]
    BY <2>1
  <2>3. PICK n \in Nat : n = IF d.open > 0 THEN d.open - 1 ELSE 0
    OBVIOUS
  <2>4. dispute' = [dispute EXCEPT ![p] = [d EXCEPT !.closed = TRUE, !.open = n]]
    BY <1>1, <2>2, <2>3 DEF FactInv, FactShape
  <2>5. [d EXCEPT !.closed = TRUE, !.open = n] \in [open : Nat, closed : BOOLEAN]
    OBVIOUS
  <2>6. QED  BY <2>4, <2>5 DEF FactInv, FactShape
<1>5. FactShape'
  BY <1>1, <1>3, <1>4 DEF FactInv, FactShape
<1>6. Grows
  BY <1>1 DEF FactInv, Grows
<1>7. Believes(r)'
  BY <1>2, <1>3 DEF Believes
<1>8. ASSUME NEW x \in Values, NEW y \in Values, x # y, Standing(x)', Standing(y)'
      PROVE  /\ Standing(x) /\ Standing(y)
             /\ dispute[{x, y}].open > 0 => dispute'[{x, y}].open > 0 \/ Settling(r, x, y)
             /\ ~Looking(writer[w], x, y) /\ ~Looking(writer[w], y, x)
             /\ ~Settling(writer[w], x, y)
  <2>1. {x, y} \in Pairs
    BY <1>8, PairsAre
  <2>2. {x, y} = p => Settling(r, x, y)
    BY <1>2, <1>3 DEF Settling
  <2>3. ~Looking(writer[w], x, y) /\ ~Looking(writer[w], y, x) /\ ~Settling(writer[w], x, y)
    BY <1>1 DEF Looking, Settling
  <2>4. Standing(x) /\ Standing(y)
    BY <1>1, <1>8 DEF Standing
  <2>5. QED  BY <1>4, <2>1, <2>2, <2>3, <2>4
<1>9. \A x \in Values : fact'[x].status = "VERIFIED" => fact[x].status = "VERIFIED"
  BY <1>1
<1>10. QED
  BY <1>3, <1>5, <1>6, <1>7, <1>8, <1>9, FactMoves

(* Statuses are written from a list of values: those of the list are stale.  *)
LEMMA StaleMarked ==
  ASSUME FactInv, NEW s \in SUBSET Values, NEW t \in SUBSET Values, s \cap t = {},
         fact' = [v \in Values |-> IF v \in s THEN [fact[v] EXCEPT !.status = "STALE"]
                                   ELSE IF v \in t THEN [fact[v] EXCEPT !.status = "VERIFIED"]
                                   ELSE fact[v]]
  PROVE  /\ fact' \in [Values -> FactRows]
         /\ \A v \in Values : /\ fact'[v].sources = fact[v].sources
                              /\ fact'[v].fresh = fact[v].fresh
                              /\ v \in s => fact'[v].status = "STALE"
                              /\ v \in t => fact'[v].status = "VERIFIED"
                              /\ v \notin s \cup t => fact'[v] = fact[v]
<1>1. \A v \in Values : fact[v] \in FactRows
  BY DEF FactInv, FactShape
<1>2. QED
  BY <1>1 DEF FactRows, FactStatuses

(* The loser of a conflict stands no more, and the winner has been decided   *)
(* for, or is in conflict with another still.                                *)
LEMMA WinnerKeeps ==
  ASSUME FactInv, NEW w \in Writers, WriteWinner(w)
  PROVE  FactInv'
<1> DEFINE m == writer[w]
<1>1. m.pc = "winner" /\ m \in Beliefs /\ m.value \in Values
      /\ UNCHANGED <<dispute, uncompared>> /\ writer' = [writer EXCEPT ![w] = AtRest]
  BY WriterIs DEF WriteWinner, Believes, Hold
<1>2. PICK x \in Values, u \in Values : m.value = x /\ u # x /\ m.rivals = {u}
  BY <1>1, WriterIs DEF Believes
<1>3. PICK t \in SUBSET {x} : t = IF m.status = "VERIFIED" THEN {x} ELSE {}
  OBVIOUS
<1>losers. PICK s \in SUBSET Values : s = m.rivals /\ s = {u}
  BY <1>2
<1>4. decided' = decided \cup t
      /\ fact' = [v \in Values |-> IF v \in s THEN [fact[v] EXCEPT !.status = "STALE"]
                                   ELSE IF v \in t THEN [fact[v] EXCEPT !.status = "VERIFIED"]
                                   ELSE fact[v]]
  BY <1>2, <1>3, <1>losers DEF WriteWinner
<1>5. /\ fact' \in [Values -> FactRows]
      /\ \A v \in Values : /\ fact'[v].sources = fact[v].sources
                           /\ fact'[v].fresh = fact[v].fresh
                           /\ v \in s => fact'[v].status = "STALE"
                           /\ v \in t => fact'[v].status = "VERIFIED"
                           /\ v \notin s \cup t => fact'[v] = fact[v]
  <2>1. t \in SUBSET Values /\ s \cap t = {}
    BY <1>2, <1>3, <1>losers
  <2>2. QED  BY <1>4, <2>1, StaleMarked
<1>6. FactShape'
  BY <1>1, <1>4, <1>5, RestIs DEF FactInv, FactShape
<1>7. \A v \in Values : fact'[v].status = "VERIFIED" => fact[v].status = "VERIFIED" \/ Grounded(v)'
  BY <1>4, <1>5 DEF Grounded
<1>8. ASSUME NEW y \in Values, NEW z \in Values, y # z, Standing(y)', Standing(z)'
      PROVE  \/ {y, z} \cap (decided' \cup uncompared') # {}
             \/ /\ Standing(y) /\ Standing(z)
                /\ ~Looking(m, y, z) /\ ~Settling(m, y, z)
  <2>1. y # u /\ z # u
    BY <1>losers, <1>5, <1>8 DEF Standing, Rivalling
  <2>2. \A v \in Values : Standing(v)' => v \in decided' \/ Standing(v)
    BY <1>4, <1>5 DEF Standing, Rivalling
  <2>3. ~Looking(m, y, z) /\ ~Settling(m, y, z)
    BY <1>1, <1>2, <2>1 DEF Looking, Settling
  <2>4. QED  BY <1>8, <2>2, <2>3
<1>9. decided \subseteq decided' /\ \A v \in Values : fact'[v] = fact[v] \/ fact'[v].status # "none"
  BY <1>4, <1>5
<1>10. \A v \in Values : /\ fact'[v].sources = fact[v].sources
                         /\ fact'[v] = fact[v] \/ fact'[v].status # "none"
  BY <1>5, <1>9
<1>11. QED
  BY <1>1, <1>6, <1>7, <1>8, <1>9, <1>10, RestIs, RestBelieves, StatusMoves

(* A writer dies: a new value it did not compare, and one whose conflict it   *)
(* closed without writing who won, are on record as such.                    *)
LEMMA DiesKeeps ==
  ASSUME FactInv, NEW w \in Writers, WriterDies(w)
  PROVE  FactInv'
<1> DEFINE m == writer[w]
<1>1. m.pc # "idle" /\ m \in Beliefs /\ Believes(m)
      /\ UNCHANGED <<fact, dispute, decided>> /\ writer' = [writer EXCEPT ![w] = AtRest]
  BY WriterIs DEF WriterDies, Hold
<1>2. PICK s \in SUBSET Values : /\ uncompared' = uncompared \cup s
                                 /\ \/ m.pc = "winner"
                                    \/ m.new /\ (m.pc \in {"source", "detect"} \/ m.rivals # {})
                                    => m.value \in s
  <2> DEFINE s == IF \/ m.pc = "winner"
                     \/ m.new /\ (m.pc \in {"source", "detect"} \/ m.rivals # {})
                  THEN {m.value} ELSE {}
  <2>1. s \in SUBSET Values
    BY <1>1 DEF Believes
  <2>2. uncompared' = uncompared \cup s
    BY DEF WriterDies
  <2>3. QED  BY <2>1, <2>2
<1>3. FactShape'
  BY <1>1, <1>2, RestIs DEF FactInv, FactShape
<1>4. \A v, u \in Values : Looking(m, v, u) \/ Settling(m, v, u)
        => {v, u} \cap uncompared' # {}
  <2>1. ASSUME NEW v \in Values, NEW u \in Values, Looking(m, v, u)
        PROVE  v \in uncompared'
    BY <1>2, <2>1 DEF Looking
  <2>2. ASSUME NEW v \in Values, NEW u \in Values, Settling(m, v, u)
        PROVE  m.value \in {v, u} /\ m.value \in uncompared'
    BY <1>2, <2>2 DEF Settling
  <2>3. QED  BY <2>1, <2>2
<1>5. \A v, u \in Values : v # u /\ Standing(v)' /\ Standing(u)' =>
         \/ {v, u} \cap (decided' \cup uncompared') # {}
         \/ /\ Standing(v) /\ Standing(u)
            /\ dispute[{v, u}].open > 0 => dispute'[{v, u}].open > 0
            /\ ~(Looking(m, v, u) \/ Settling(m, v, u))
  BY <1>1, <1>4 DEF Standing
<1>6. \A v \in Values : /\ fact'[v].sources = fact[v].sources
                        /\ fact'[v] = fact[v] \/ fact'[v].status # "none"
                        /\ fact'[v].status = "VERIFIED" => fact[v].status = "VERIFIED"
  BY <1>1
<1>7. decided \subseteq decided' /\ uncompared \subseteq uncompared'
  BY <1>1, <1>2
<1>8. QED
  BY <1>1, <1>3, <1>5, <1>6, <1>7, RestIs, RestBelieves, StatusMoves

(* A snapshot looks for expired facts, and then marks them.                  *)
LEMMA SnapshotKeeps ==
  ASSUME FactInv, NEW w \in Writers, Snapshot(w)
  PROVE  FactInv'
<1>1. PICK r \in Beliefs : r.pc = "mark" /\ ~r.new /\ writer' = [writer EXCEPT ![w] = r]
  <2> DEFINE r == [AtRest EXCEPT !.pc = "mark", !.rivals =
                     {v \in Values : fact[v].status \in Rivalling /\ ~fact[v].fresh}]
  <2>1. r \in Beliefs /\ r.pc = "mark" /\ ~r.new
    BY DEF AtRest, Beliefs
  <2>2. writer' = [writer EXCEPT ![w] = r]
    BY DEF Snapshot, Begin, Hold
  <2>3. QED  BY <2>1, <2>2
<1>2. writer[w].pc = "idle" /\ UNCHANGED <<fact, dispute, decided, uncompared>>
  BY DEF Snapshot, Begin
<1>3. Believes(r)
  BY <1>1 DEF Believes
<1>4. QED
  BY <1>1, <1>2, <1>3, QuietFact DEF Looking, Settling

LEMMA MarkKeeps ==
  ASSUME FactInv, NEW w \in Writers, MarkStale(w)
  PROVE  FactInv'
<1> DEFINE m == writer[w]
<1>1. m.pc = "mark" /\ m \in Beliefs
      /\ UNCHANGED <<dispute, decided, uncompared>> /\ writer' = [writer EXCEPT ![w] = AtRest]
  BY WriterIs DEF MarkStale, Hold
<1>2. PICK s \in SUBSET Values : s = m.rivals
  BY <1>1 DEF Beliefs
<1>none. PICK t \in SUBSET Values : t = {}
  OBVIOUS
<1>3. fact' = [v \in Values |-> IF v \in s THEN [fact[v] EXCEPT !.status = "STALE"]
                                ELSE IF v \in t THEN [fact[v] EXCEPT !.status = "VERIFIED"]
                                ELSE fact[v]]
  BY <1>2, <1>none DEF MarkStale
<1>4. /\ fact' \in [Values -> FactRows]
      /\ \A v \in Values : /\ fact'[v].sources = fact[v].sources
                           /\ fact'[v].fresh = fact[v].fresh
                           /\ v \in s => fact'[v].status = "STALE"
                           /\ v \notin s => fact'[v] = fact[v]
  <2>1. s \cap t = {}
    BY <1>none
  <2>2. /\ fact' \in [Values -> FactRows]
        /\ \A v \in Values : /\ fact'[v].sources = fact[v].sources
                             /\ fact'[v].fresh = fact[v].fresh
                             /\ v \in s => fact'[v].status = "STALE"
                             /\ v \notin s \cup t => fact'[v] = fact[v]
    BY <1>3, <2>1, StaleMarked
  <2>3. QED  BY <1>none, <2>2
<1>5. FactShape'
  BY <1>1, <1>4, RestIs DEF FactInv, FactShape
<1>6. \A v \in Values : /\ fact'[v].sources = fact[v].sources
                        /\ fact'[v] = fact[v] \/ fact'[v].status # "none"
                        /\ fact'[v].status = "VERIFIED" => fact[v].status = "VERIFIED"
                        /\ Standing(v)' => Standing(v)
  BY <1>4 DEF Standing, Rivalling
<1>7. \A x, y \in Values : ~Looking(m, x, y) /\ ~Settling(m, x, y)
  BY <1>1 DEF Looking, Settling
<1>8. QED
  BY <1>1, <1>5, <1>6, <1>7, RestIs, RestBelieves, StatusMoves

(* A value expires: it stands no more.                                       *)
LEMMA ExpiresKeeps ==
  ASSUME FactInv, NEW x \in Values, Expires(x)
  PROVE  FactInv'
<1>1. fact[x].fresh /\ UNCHANGED <<dispute, writer, decided, uncompared>>
  BY DEF Expires
<1>2. PICK f \in FactRows : f = [fact[x] EXCEPT !.fresh = FALSE]
  BY DEF FactInv, FactShape, FactRows
<1>3. fact' = [fact EXCEPT ![x] = f]
  BY <1>2 DEF Expires, FactInv, FactShape
<1>4. \A v \in Values : /\ fact'[v] \in FactRows /\ fact'[v].status = fact[v].status
                        /\ fact'[v].sources = fact[v].sources
                        /\ Standing(v)' => Standing(v)
  <2>1. fact[x] \in FactRows /\ f.status = fact[x].status /\ f.sources = fact[x].sources /\ ~f.fresh
    BY <1>2 DEF FactInv, FactShape, FactRows
  <2>2. \A v \in Values : fact'[v] = IF v = x THEN f ELSE fact[v]
    BY <1>3 DEF FactInv, FactShape
  <2>3. QED  BY <2>1, <2>2 DEF FactInv, FactShape, Standing
<1>5. FactShape'
  BY <1>1, <1>3 DEF FactInv, FactShape
<1>6. \A v \in Values : /\ IsFiniteSet(fact'[v].sources)
                        /\ fact'[v].status = "none" => fact'[v].sources = {} /\ ~fact'[v].fresh
  <2>1. fact[x].status # "none"
    BY <1>1 DEF FactInv
  <2>2. \A v \in Values \ {x} : fact'[v] = fact[v]
    BY <1>3 DEF FactInv, FactShape
  <2>3. QED  BY <1>4, <2>1, <2>2 DEF FactInv
<1>7. ASSUME NEW w \in Writers
      PROVE  Believes(writer[w])'
  <2>1. PICK m \in Beliefs : m = writer[w] /\ Believes(m)
    BY WriterIs
  <2>2. m.value \in Values => (Grounded(m.value) => Grounded(m.value)')
    BY <1>1, <1>4 DEF Grounded, Observed
  <2>3. Believes(m)'
    BY <1>1, <1>4, <2>1, <2>2 DEF Believes
  <2>4. writer'[w] = m
    BY <1>1, <2>1
  <2>5. QED  BY <2>3, <2>4 DEF Believes, Grounded, Observed
<1>8. VerifiedHasGrounds'
  BY <1>1, <1>4 DEF FactInv, VerifiedHasGrounds
<1>9. \A v, u \in Values : v # u /\ Standing(v)' /\ Standing(u)' => Noticed(v, u)'
  BY <1>1, <1>4 DEF FactInv, Noticed
<1>10. QED
  BY <1>5, <1>6, <1>7, <1>8, <1>9 DEF FactInv

-----------------------------------------------------------------------------
(* The lead row, and the theorem.                                            *)

LeadShape ==
    lead \in [there : BOOLEAN, pii : BOOLEAN, raw : BOOLEAN, mark : BOOLEAN,
              old : BOOLEAN, decision : BOOLEAN]
    /\ clerk \in [Writers -> [pc : {"idle", "ask", "erase"}, raw : BOOLEAN]]

TruthInv == FactInv /\ LeadShape

LEMMA FactsKeep ==
  ASSUME TruthInv, FactsNext
  PROVE  TruthInv' /\ (lead.decision /\ lead'.there => lead'.decision)
<1>1. UNCHANGED <<lead, clerk>>
  BY DEF FactsNext, leadVars
<1>2. LeadShape' /\ (lead.decision /\ lead'.there => lead'.decision)
  BY <1>1 DEF TruthInv, LeadShape
<1>3. FactInv
  BY DEF TruthInv
<1>4. ASSUME NEW w \in Writers,
             \/ InsertFact(w) \/ AddSource(w) \/ DetectConflicts(w) \/ FindConflict(w)
             \/ OpenConflict(w) \/ FlagRivals(w) \/ Recompute(w) \/ WriteStatus(w)
             \/ WriteVerdict(w) \/ WriteWinner(w) \/ Snapshot(w) \/ MarkStale(w)
             \/ WriterDies(w)
      PROVE  FactInv'
  BY <1>3, <1>4, InsertKeeps, SourceKeeps, DetectKeeps, FindKeeps, OpenKeeps, FlagKeeps,
     RecomputeKeeps, WriteStatusKeeps, VerdictKeeps, WinnerKeeps, SnapshotKeeps, MarkKeeps,
     DiesKeeps
<1>5. ASSUME NEW w \in Writers,
             \/ \E v \in Values, d \in Domains \cup {"inferred"} : RecordFact(w, v, d)
             \/ \E v \in Values, o \in {"VERIFIED", "STALE", "none"} : VerifyFact(w, v, o)
             \/ \E p \in Pairs, v \in Values : ResolveConflict(w, p, v)
      PROVE  FactInv'
  BY <1>3, <1>5, RecordKeeps, VerifyKeeps, ResolveKeeps
<1>6. FactInv'
  BY <1>3, <1>4, <1>5, ExpiresKeeps DEF FactsNext
<1>7. QED
  BY <1>2, <1>6 DEF TruthInv

(* What leaves the facts alone.                                              *)
LEMMA FactsAlone ==
  ASSUME FactInv, UNCHANGED factVars
  PROVE  FactInv'
<1>1. UNCHANGED <<fact, dispute, writer, decided, uncompared>>
  BY DEF factVars
<1>2. FactShape' /\ VerifiedHasGrounds'
  BY <1>1 DEF FactInv, FactShape, VerifiedHasGrounds
<1>3. \A v \in Values : Standing(v)' <=> Standing(v)
  BY <1>1 DEF Standing
<1>4. \A v, u \in Values : Noticed(v, u) => Noticed(v, u)'
  BY <1>1 DEF Noticed
<1>5. \A w \in Writers : Believes(writer[w])'
  <2>1. ASSUME NEW w \in Writers PROVE Believes(writer[w])'
    <3>1. Believes(writer[w])
      BY DEF FactInv
    <3>2. QED  BY <1>1, <3>1 DEF Believes, Grounded, Observed
  <2>2. QED  BY <2>1
<1>6. QED
  BY <1>1, <1>2, <1>3, <1>4, <1>5 DEF FactInv

(* Whatever writes the row leaves the decision of the human in it.           *)
LEMMA LeadKeeps ==
  ASSUME TruthInv, LeadNext
  PROVE  TruthInv' /\ (lead.decision /\ lead'.there => lead'.decision)
<1>1. FactInv'
  BY FactsAlone DEF TruthInv, LeadNext
<1> DEFINE Rows == [there : BOOLEAN, pii : BOOLEAN, raw : BOOLEAN, mark : BOOLEAN,
                    old : BOOLEAN, decision : BOOLEAN]
           Clerks == [pc : {"idle", "ask", "erase"}, raw : BOOLEAN]
           Kept == lead' \in Rows /\ (lead.decision /\ lead'.there => lead'.decision)
<1>2. lead \in Rows /\ clerk \in [Writers -> Clerks]
  BY DEF TruthInv, LeadShape
<1>3. MaterializeLead => Kept
  BY <1>2 DEF MaterializeLead, Upsert, NoLead
<1>4. LeadDecision => Kept
  BY <1>2 DEF LeadDecision
<1>5. DeleteLead => Kept
  BY <1>2 DEF DeleteLead, NoLead
<1>6. LeadAges => Kept
  BY <1>2 DEF LeadAges
<1>7. ASSUME NEW c \in Writers,
             Requalify(c) \/ WriteQualified(c) \/ SelectErasure(c) \/ Anonymize(c)
      PROVE  Kept /\ clerk' \in [Writers -> Clerks]
  <2>1. clerk[c] \in Clerks
    BY <1>2
  <2>2. CASE Requalify(c)
    BY <1>2, <2>2 DEF Requalify, Serve
  <2>3. CASE WriteQualified(c)
    BY <1>2, <2>1, <2>3 DEF WriteQualified, Serve
  <2>4. CASE SelectErasure(c)
    BY <1>2, <2>4 DEF SelectErasure, Serve
  <2>5. CASE Anonymize(c)
    BY <1>2, <2>5 DEF Anonymize, Serve, Anonymized
  <2>6. QED  BY <1>7, <2>2, <2>3, <2>4, <2>5
<1>8. Kept /\ clerk' \in [Writers -> Clerks]
  <2>1. MaterializeLead \/ LeadDecision \/ DeleteLead \/ LeadAges => clerk' = clerk
    BY DEF MaterializeLead, LeadDecision, DeleteLead, LeadAges
  <2>2. MaterializeLead \/ LeadDecision \/ DeleteLead \/ LeadAges => Kept
    BY <1>3, <1>4, <1>5, <1>6
  <2>3. \/ MaterializeLead \/ LeadDecision \/ DeleteLead \/ LeadAges
        \/ \E c \in Writers : Requalify(c) \/ WriteQualified(c) \/ SelectErasure(c) \/ Anonymize(c)
    BY DEF LeadNext
  <2>4. QED  BY <1>2, <1>7, <2>1, <2>2, <2>3
<1>9. QED
  BY <1>1, <1>8 DEF TruthInv, LeadShape

(* A pair with no writer is in conflict, decided or brought back.            *)
LEMMA SilenceIsSeen == FactInv => VerifiedHasGrounds /\ NoSilentRival
<1> SUFFICES ASSUME FactInv, NEW p \in Pairs,
                    \A v \in p : fact[v].fresh /\ fact[v].status \in {"VERIFIED", "UNVERIFIED"},
                    \A w \in Writers : writer[w].value \notin p
             PROVE  dispute[p].open > 0 \/ p \cap (decided \cup uncompared) # {}
  BY DEF FactInv, NoSilentRival
<1>1. PICK v \in Values, u \in Values : v # u /\ p = {v, u}
  BY PairsAre
<1>2. Standing(v) /\ Standing(u)
  BY <1>1 DEF Standing, Rivalling
<1>3. Noticed(v, u)
  BY <1>1, <1>2 DEF FactInv
<1>4. \A w \in Writers : ~Looking(writer[w], v, u) /\ ~Looking(writer[w], u, v)
                         /\ ~Settling(writer[w], v, u)
  BY <1>1 DEF Looking, Settling
<1>5. QED
  BY <1>1, <1>3, <1>4 DEF Noticed

(* A fact is VERIFIED only on grounds, two fresh values nobody decided for   *)
(* are in open conflict, and the decision of a human outlives what is done   *)
(* to the lead, for every set of values, domains and writers.                *)
THEOREM TruthStaysEarned == TruthSpec => TruthIsEarned
<1>1. TruthInit => TruthInv
  BY FactInit DEF TruthInit, TruthInv, LeadShape, NoLead
<1>2. ASSUME TruthInv, [TruthNext]_truthVars
      PROVE  TruthInv' /\ [lead.decision /\ lead'.there => lead'.decision]_truthVars
  <2>1. CASE FactsNext
    BY <1>2, <2>1, FactsKeep
  <2>2. CASE LeadNext
    BY <1>2, <2>2, LeadKeeps
  <2>3. CASE IcpNext \/ UNCHANGED truthVars
    <3>1. UNCHANGED factVars /\ UNCHANGED leadVars
      BY <2>3 DEF IcpNext, truthVars
    <3>2. FactInv'
      BY <1>2, <3>1, FactsAlone DEF TruthInv
    <3>3. QED  BY <1>2, <3>1, <3>2 DEF TruthInv, LeadShape, leadVars
  <2>4. QED  BY <1>2, <2>1, <2>2, <2>3 DEF TruthNext
<1>3. TruthInv => VerifiedHasGrounds /\ NoSilentRival
  BY SilenceIsSeen DEF TruthInv
<1>4. QED
  BY <1>1, <1>2, <1>3, PTL DEF TruthSpec, TruthIsEarned, DecisionSurvives

-----------------------------------------------------------------------------
(* Accounts: provisioning.                                                   *)

Provisioning == {"idle", "start", "PROVISIONING?", "PROVISIONING", "validate", "infrastructure",
                 "ACTIVE?", "ACTIVE", "ended"}
TenantStates == {"none", "REQUESTED", "PROVISIONING", "ACTIVE", "FAILED"}
Tenants == [state : TenantStates, at : [Calls -> Provisioning],
            ready : SUBSET (Calls \X {"validate", "infrastructure"})]

\* A call past a step has run it.
TenantInv ==
    /\ tenant \in Tenants
    /\ \A c \in Calls :
         /\ tenant.at[c] \in {"infrastructure", "ACTIVE?", "ACTIVE"} => <<c, "validate">> \in tenant.ready
         /\ tenant.at[c] \in {"ACTIVE?", "ACTIVE"} => <<c, "infrastructure">> \in tenant.ready
    /\ ActiveIsEarned

(* A call goes to p, the state to s, and r is ready.                         *)
LEMMA TenantMoves ==
  ASSUME TenantInv, NEW c \in Calls, NEW p \in Provisioning, NEW s \in TenantStates,
         NEW r \in SUBSET (Calls \X {"validate", "infrastructure"}), tenant.ready \subseteq r,
         tenant' = [state |-> s, at |-> [tenant.at EXCEPT ![c] = p], ready |-> r],
         p \in {"infrastructure", "ACTIVE?", "ACTIVE"} => <<c, "validate">> \in r,
         p \in {"ACTIVE?", "ACTIVE"} => <<c, "infrastructure">> \in r,
         s = "ACTIVE" => \/ tenant.state = "ACTIVE"
                         \/ {<<c, "validate">>, <<c, "infrastructure">>} \subseteq r
  PROVE  TenantInv'
<1>1. tenant' \in Tenants
  BY DEF TenantInv, Tenants
<1>2. \A o \in Calls : tenant'.at[o] = IF o = c THEN p ELSE tenant.at[o]
  BY DEF TenantInv, Tenants
<1>3. \A o \in Calls :
         /\ tenant'.at[o] \in {"infrastructure", "ACTIVE?", "ACTIVE"} => <<o, "validate">> \in r
         /\ tenant'.at[o] \in {"ACTIVE?", "ACTIVE"} => <<o, "infrastructure">> \in r
  BY <1>2 DEF TenantInv
<1>4. s = "ACTIVE" => \E o \in Calls : {<<o, "validate">>, <<o, "infrastructure">>} \subseteq r
  BY DEF TenantInv, ActiveIsEarned
<1>5. QED
  BY <1>1, <1>3, <1>4 DEF TenantInv, ActiveIsEarned

(* A call that goes on without a step.                                       *)
LEMMA ProvisionsKeeps ==
  ASSUME TenantInv, NEW c \in Calls, NEW p \in Provisioning, NEW s \in TenantStates,
         Provisions(c, p, s), p # "infrastructure",
         p \in {"ACTIVE?", "ACTIVE"} =>
           {<<c, "validate">>, <<c, "infrastructure">>} \subseteq tenant.ready,
         s = "ACTIVE" => \/ tenant.state = "ACTIVE"
                         \/ {<<c, "validate">>, <<c, "infrastructure">>} \subseteq tenant.ready
  PROVE  TenantInv'
<1>1. PICK r \in SUBSET (Calls \X {"validate", "infrastructure"}) : r = tenant.ready
  BY DEF TenantInv, Tenants
<1>2. tenant' = [state |-> s, at |-> [tenant.at EXCEPT ![c] = p], ready |-> r]
  BY <1>1 DEF Provisions, TenantInv, Tenants
<1>3. tenant.ready \subseteq r
      /\ (p \in {"infrastructure", "ACTIVE?", "ACTIVE"} => <<c, "validate">> \in r)
      /\ (p \in {"ACTIVE?", "ACTIVE"} => <<c, "infrastructure">> \in r)
      /\ (s = "ACTIVE" => \/ tenant.state = "ACTIVE"
                          \/ {<<c, "validate">>, <<c, "infrastructure">>} \subseteq r)
  BY <1>1
<1>4. QED
  BY <1>2, <1>3, TenantMoves

LEMMA TenantKeeps ==
  ASSUME TenantInv, ProvisionNext
  PROVE  TenantInv'
<1>1. PICK c \in Calls : \/ AskStatus(c) \/ StartRecord(c) \/ CheckTransition(c)
                         \/ WriteTransition(c) \/ RunStep(c) \/ CallStops(c)
  BY DEF ProvisionNext
<1>2. tenant.state \in TenantStates /\ tenant.at[c] \in Provisioning
      /\ tenant.ready \in SUBSET (Calls \X {"validate", "infrastructure"})
  BY DEF TenantInv, Tenants
<1>3. CASE AskStatus(c)
  <2>1. Provisions(c, "start", tenant.state)
    BY <1>3 DEF AskStatus
  <2>2. QED  BY <1>2, <2>1, ProvisionsKeeps DEF Provisioning
<1>4. CASE StartRecord(c)
  <2>1. PICK s \in TenantStates :
          /\ s # "ACTIVE" \/ tenant.state = "ACTIVE"
          /\ s = IF tenant.state = "none" THEN "REQUESTED" ELSE tenant.state
    BY <1>2 DEF TenantStates
  <2>2. s = "ACTIVE" => tenant.state = "ACTIVE"
    BY <2>1
  <2>3. Provisions(c, "PROVISIONING?", s)
    BY <1>4, <2>1 DEF StartRecord
  <2>4. QED  BY <2>2, <2>3, ProvisionsKeeps DEF Provisioning
<1>5. CASE CheckTransition(c)
  <2>1. PICK to \in {"PROVISIONING", "ACTIVE"} :
          /\ tenant.at[c] = Asking[to]
          /\ Provisions(c, IF to \in Successors(tenant.state) THEN to ELSE "ended", tenant.state)
    BY <1>5 DEF CheckTransition
  <2>2. PICK p \in {to, "ended"} : p = IF to \in Successors(tenant.state) THEN to ELSE "ended"
    OBVIOUS
  <2>3. p \in Provisioning /\ Provisions(c, p, tenant.state)
    BY <2>1, <2>2 DEF Provisioning
  <2>4. p = "ACTIVE" => tenant.at[c] = "ACTIVE?"
    BY <2>1, <2>2 DEF Asking
  <2>5. /\ p # "infrastructure"
        /\ p \in {"ACTIVE?", "ACTIVE"} =>
             {<<c, "validate">>, <<c, "infrastructure">>} \subseteq tenant.ready
    BY <2>2, <2>4 DEF TenantInv
  <2>6. QED  BY <1>2, <2>3, <2>5, ProvisionsKeeps
<1>6. CASE WriteTransition(c)
  <2>1. PICK to \in {"PROVISIONING", "ACTIVE"} :
          tenant.at[c] = to /\ Provisions(c, IF to = "ACTIVE" THEN "ended" ELSE "validate", to)
    BY <1>6 DEF WriteTransition
  <2>2. PICK p \in {"ended", "validate"} : p = IF to = "ACTIVE" THEN "ended" ELSE "validate"
    OBVIOUS
  <2>3. p \in Provisioning /\ to \in TenantStates /\ Provisions(c, p, to)
    BY <2>1, <2>2 DEF Provisioning, TenantStates
  <2>4. to = "ACTIVE" => {<<c, "validate">>, <<c, "infrastructure">>} \subseteq tenant.ready
    BY <2>1 DEF TenantInv
  <2>5. QED  BY <1>2, <2>2, <2>3, <2>4, ProvisionsKeeps
<1>7. CASE RunStep(c)
  <2>1. PICK step \in {"validate", "infrastructure"}, ok \in BOOLEAN :
          /\ tenant.at[c] = step
          /\ tenant' = [tenant EXCEPT !.at[c] = AfterStep(step, ok),
                          !.state = IF ok THEN @ ELSE "FAILED",
                          !.ready = IF ok THEN @ \cup {<<c, step>>} ELSE @]
    BY <1>7 DEF RunStep
  <2>2. PICK p \in {"ended", "infrastructure", "ACTIVE?"} :
          /\ p = AfterStep(step, ok)
          /\ p = "infrastructure" => ok /\ step = "validate"
          /\ p = "ACTIVE?" => ok /\ step = "infrastructure"
    <3>1. CASE ~ok
      BY <3>1 DEF AfterStep
    <3>2. CASE ok /\ step = "validate"
      BY <3>2 DEF AfterStep
    <3>3. CASE ok /\ step = "infrastructure"
      BY <3>3 DEF AfterStep
    <3>4. QED  BY <3>1, <3>2, <3>3
  <2>3. PICK s \in TenantStates : s = (IF ok THEN tenant.state ELSE "FAILED")
                                  /\ (s = "ACTIVE" => tenant.state = "ACTIVE")
    BY <1>2 DEF TenantStates
  <2>4. PICK r \in SUBSET (Calls \X {"validate", "infrastructure"}) :
          /\ r = IF ok THEN tenant.ready \cup {<<c, step>>} ELSE tenant.ready
          /\ tenant.ready \subseteq r /\ (ok => <<c, step>> \in r)
    <3>1. tenant.ready \cup {<<c, step>>} \in SUBSET (Calls \X {"validate", "infrastructure"})
      BY <1>2
    <3>2. CASE ok
      BY <3>1, <3>2
    <3>3. CASE ~ok
      BY <1>2, <3>3
    <3>4. QED  BY <3>2, <3>3
  <2>5. tenant' = [state |-> s, at |-> [tenant.at EXCEPT ![c] = p], ready |-> r]
    BY <2>1, <2>2, <2>3, <2>4 DEF TenantInv, Tenants
  <2>6. step = "infrastructure" => <<c, "validate">> \in tenant.ready
    BY <2>1 DEF TenantInv
  <2>7. p \in Provisioning /\ (p \in {"infrastructure", "ACTIVE?", "ACTIVE"} => <<c, "validate">> \in r)
        /\ (p \in {"ACTIVE?", "ACTIVE"} => <<c, "infrastructure">> \in r)
    BY <2>2, <2>4, <2>6 DEF Provisioning
  <2>8. QED  BY <2>3, <2>4, <2>5, <2>7, TenantMoves
<1>8. CASE CallStops(c)
  <2>1. Provisions(c, "ended", tenant.state)
    BY <1>8 DEF CallStops
  <2>2. QED  BY <1>2, <2>1, ProvisionsKeeps DEF Provisioning
<1>9. QED
  BY <1>1, <1>3, <1>4, <1>5, <1>6, <1>7, <1>8

-----------------------------------------------------------------------------
(* Accounts: billing.                                                        *)

Subs == [state : {"none", "active", "paused", "deleted"}, claimed : Paid \cup {"free"},
         paid : Paid \cup {"free"}, tagged : BOOLEAN]
Letters == [type : {"completed", "paused", "deleted", "active"}, sub : Subscriptions]

Bought == {s \in Subscriptions : plan.subs[s].state # "none"}

\* The events of s, when it is the only subscription and was never resumed, and
\* how far they were read.
Story(s) ==
    LET sub == plan.subs[s] IN
    /\ \A i \in 1..Len(plan.sent) : plan.sent[i].sub = s
    /\ sub.state = "none" => Len(plan.sent) = 0
    /\ sub.state = "active" => Len(plan.sent) = 1 /\ plan.sent[1].type = "completed"
    /\ sub.state \in {"paused", "deleted"} =>
         /\ Len(plan.sent) = 2 /\ plan.sent[1].type = "completed"
         /\ plan.sent[2].type = sub.state
    /\ ~plan.disorder =>
         \/ plan.seen = {}
         \/ /\ Len(plan.sent) >= 1 /\ plan.seen = {1}
            /\ plan.limits \in Paid /\ plan.known = s
         \/ Len(plan.sent) = 2 /\ plan.seen = {1, 2} /\ plan.limits = "free"

NoResume == \A i \in 1..Len(plan.sent) : plan.sent[i].type # "active"

Plans == [limits : Paid \cup {"free"}, known : Subscriptions \cup {"none"}, seen : SUBSET Nat,
          disorder : BOOLEAN, subs : [Subscriptions -> Subs], sent : Seq(Letters)]

PlanInv ==
    /\ plan \in Plans
    /\ IsFiniteSet(Bought)
    /\ \A s \in Bought : plan.subs[s].claimed \in Paid /\ plan.subs[s].paid \in Paid
    /\ \A s \in Subscriptions : Bought \subseteq {s} /\ NoResume => Story(s)

(* A subscription goes to row r, and Stripe tells of it by t.                *)
LEMMA SubMoves ==
  ASSUME PlanInv, NEW s \in Subscriptions, NEW r \in Subs, NEW t \in {"completed", "paused", "deleted", "active"},
         r.state # "none", r.claimed \in Paid, r.paid \in Paid,
         plan' = [plan EXCEPT !.sent = Append(@, [type |-> t, sub |-> s]), !.subs[s] = r],
         \/ plan.subs[s].state = "none" /\ r.state = "active" /\ t = "completed"
         \/ plan.subs[s].state # "none" /\ t = "active"
         \/ plan.subs[s].state = "active" /\ r.state = t /\ t \in {"paused", "deleted"}
  PROVE  PlanInv'
<1> DEFINE e == [type |-> t, sub |-> s]
<1>1. e \in Letters /\ plan.sent \in Seq(Letters) /\ plan.subs \in [Subscriptions -> Subs]
  BY DEF Letters, PlanInv, Plans
<1>2. PICK q \in Seq(Letters), f \in [Subscriptions -> Subs] :
        /\ q = Append(plan.sent, e) /\ f = [plan.subs EXCEPT ![s] = r]
        /\ Len(q) = Len(plan.sent) + 1 /\ q[Len(plan.sent) + 1] = e
        /\ \A i \in 1..Len(plan.sent) : q[i] = plan.sent[i]
  <2> HIDE DEF e
  <2>1. /\ Append(plan.sent, e) \in Seq(Letters) /\ Len(Append(plan.sent, e)) = Len(plan.sent) + 1
        /\ Append(plan.sent, e)[Len(plan.sent) + 1] = e
        /\ \A i \in 1..Len(plan.sent) : Append(plan.sent, e)[i] = plan.sent[i]
    BY <1>1
  <2>2. [plan.subs EXCEPT ![s] = r] \in [Subscriptions -> Subs]
    BY <1>1
  <2>3. QED  BY <1>1, <2>1, <2>2
<1>3. /\ plan' \in Plans /\ plan'.sent = q /\ plan'.subs = f /\ plan'.limits = plan.limits
      /\ plan'.known = plan.known /\ plan'.seen = plan.seen /\ plan'.disorder = plan.disorder
  <2>1. plan' = [limits |-> plan.limits, known |-> plan.known, seen |-> plan.seen,
                 disorder |-> plan.disorder, subs |-> f, sent |-> q]
    BY <1>2 DEF PlanInv, Plans
  <2>2. QED  BY <1>2, <2>1 DEF PlanInv, Plans
<1>4. \A o \in Subscriptions : plan'.subs[o] = IF o = s THEN r ELSE plan.subs[o]
  BY <1>1, <1>2, <1>3
<1>5. Bought' = Bought \cup {s} /\ IsFiniteSet(Bought')
  <2>1. Bought' = Bought \cup {s}
    BY <1>4 DEF Bought
  <2>2. QED  BY <2>1, FS_AddElement DEF PlanInv
<1>6. \A o \in Bought' : plan'.subs[o].claimed \in Paid /\ plan'.subs[o].paid \in Paid
  BY <1>4, <1>5 DEF PlanInv, Bought
<1>7. ASSUME NEW o \in Subscriptions, Bought' \subseteq {o}, NoResume'
      PROVE  Story(o)'
  <2>1. o = s /\ Bought \subseteq {s}
    BY <1>5, <1>7
  <2>2. Len(plan.sent) \in Nat
    BY <1>1
  <2>3. t # "active" /\ NoResume
    <3>1. \A i \in 1..Len(q) : q[i].type # "active"
      BY <1>3, <1>7 DEF NoResume
    <3>2. Len(plan.sent) + 1 \in 1..Len(q) /\ \A i \in 1..Len(plan.sent) : i \in 1..Len(q)
      BY <1>2, <2>2
    <3>3. QED  BY <1>2, <3>1, <3>2 DEF NoResume
  <2>4. Story(s)
    BY <2>1, <2>3 DEF PlanInv
  <2>5. CASE plan.subs[s].state = "none"
    <3>1. r.state = "active" /\ t = "completed" /\ Len(plan.sent) = 0
      BY <2>3, <2>4, <2>5 DEF Story
    <3>2. Len(q) = 1 /\ q[1] = e
      BY <1>2, <3>1
    <3>3. ~plan.disorder => plan.seen = {}
      BY <2>4, <3>1 DEF Story
    <3>4. \A i \in 1..Len(q) : q[i].sub = s
      BY <3>2
    <3>5. QED  BY <1>3, <1>4, <2>1, <3>1, <3>2, <3>3, <3>4 DEF Story
  <2>6. CASE plan.subs[s].state # "none"
    <3>1. plan.subs[s].state = "active" /\ r.state = t /\ t \in {"paused", "deleted"}
      BY <2>3, <2>6
    <3>2. Len(plan.sent) = 1 /\ plan.sent[1].type = "completed" /\ plan.sent[1].sub = s
      BY <2>4, <3>1 DEF Story
    <3>3. Len(q) = 2 /\ q[1] = plan.sent[1] /\ q[2] = e
      BY <1>2, <3>2
    <3>4. ~plan.disorder => \/ plan.seen = {}
                            \/ plan.seen = {1} /\ plan.limits \in Paid /\ plan.known = s
      BY <2>4, <3>2 DEF Story
    <3>5. \A i \in 1..Len(q) : q[i].sub = s
      BY <3>2, <3>3
    <3>6. QED  BY <1>3, <1>4, <2>1, <3>1, <3>2, <3>3, <3>4, <3>5 DEF Story
  <2>7. QED  BY <2>5, <2>6
<1>8. QED
  BY <1>3, <1>5, <1>6, <1>7 DEF PlanInv

(* What a payment grants is a paid plan.                                     *)
LEMMA GrantedIsPaid ==
  ASSUME NEW s, plan.subs[s].claimed \in Paid, plan.subs[s].paid \in Paid
  PROVE  Granted(s) \subseteq Paid
BY DEF Granted

(* An event is handled.                                                      *)
LEMMA WebhookKeeps ==
  ASSUME PlanInv, StripeWebhook
  PROVE  PlanInv'
<1>1. PICK i \in 1..Len(plan.sent) :
        LET e == plan.sent[i]
            limits == IF e.type = "completed" THEN Granted(e.sub)
                      ELSE IF EndsPlan(e) /\ Attributed(e) THEN {"free"} ELSE {plan.limits}
        IN \E l \in limits :
             plan' = [plan EXCEPT !.limits = l, !.seen = @ \cup {i},
               !.known = IF e.type = "completed" THEN e.sub ELSE @,
               !.disorder = @ \/ i \in plan.seen \/ \E k \in 1..(i - 1) : k \notin plan.seen]
  BY DEF StripeWebhook
<1>2. PICK e \in Letters : e = plan.sent[i]
  BY DEF PlanInv, Plans
<1>3. PICK l :
        /\ l \in IF e.type = "completed" THEN Granted(e.sub)
                 ELSE IF EndsPlan(e) /\ Attributed(e) THEN {"free"} ELSE {plan.limits}
        /\ plan' = [plan EXCEPT !.limits = l, !.seen = @ \cup {i},
               !.known = IF e.type = "completed" THEN e.sub ELSE @,
               !.disorder = @ \/ i \in plan.seen \/ \E k \in 1..(i - 1) : k \notin plan.seen]
  BY <1>1, <1>2
<1>pick. PICK n \in Subscriptions \cup {"none"}, b \in BOOLEAN :
        /\ n = IF e.type = "completed" THEN e.sub ELSE plan.known
        /\ b = (plan.disorder \/ i \in plan.seen \/ \E k \in 1..(i - 1) : k \notin plan.seen)
        /\ plan' = [plan EXCEPT !.limits = l, !.seen = @ \cup {i}, !.known = n, !.disorder = b]
  <2>1. (IF e.type = "completed" THEN e.sub ELSE plan.known) \in Subscriptions \cup {"none"}
    BY DEF Letters, PlanInv, Plans
  <2>2. (plan.disorder \/ i \in plan.seen \/ \E k \in 1..(i - 1) : k \notin plan.seen) \in BOOLEAN
    OBVIOUS
  <2>3. QED  BY <1>3, <2>1, <2>2
<1>4. l \in Paid \cup {"free"}
  <2>1. Granted(e.sub) \subseteq Paid \cup {"free"}
    BY DEF Granted, PlanInv, Plans, Subs, Letters
  <2>2. QED  BY <1>3, <2>1 DEF PlanInv, Plans
<1>5. /\ plan' \in Plans /\ plan'.sent = plan.sent /\ plan'.subs = plan.subs /\ plan'.limits = l
      /\ plan'.known = n /\ plan'.seen = plan.seen \cup {i} /\ plan'.disorder = b
  <2>1. plan' = [limits |-> l, known |-> n, seen |-> plan.seen \cup {i}, disorder |-> b,
                 subs |-> plan.subs, sent |-> plan.sent]
    BY <1>pick DEF PlanInv, Plans
  <2>2. i \in Nat
    OBVIOUS
  <2>3. QED  BY <1>4, <2>1, <2>2 DEF PlanInv, Plans
<1>6. Bought' = Bought /\ (NoResume' <=> NoResume)
  BY <1>5 DEF Bought, NoResume
<1>7. ASSUME NEW s \in Subscriptions, Bought \subseteq {s}, NoResume
      PROVE  Story(s)'
  <2>1. Story(s)
    BY <1>7 DEF PlanInv
  <2>2. Len(plan.sent) \in Nat /\ 1 <= i /\ i <= Len(plan.sent) /\ i \in Nat
    BY DEF PlanInv, Plans
  <2>3. e.sub = s /\ plan.subs[s] \in Subs
    BY <1>2, <2>1 DEF Story, PlanInv, Plans
  <2>4. plan.subs[s].state # "none" /\ Len(plan.sent) \in {1, 2}
    BY <2>1, <2>2, <2>3 DEF Story, Subs
  <2>len. i = 1 \/ (i = 2 /\ Len(plan.sent) = 2)
    <3>1. PICK m \in Nat : m = Len(plan.sent)
      BY <2>2
    <3>2. i \in Nat /\ 1 <= i /\ i <= m /\ (m = 1 \/ m = 2)
      BY <2>2, <2>4, <3>1
    <3>3. i = 1 \/ (i = 2 /\ m = 2)
      BY <3>2
    <3>4. QED  BY <3>1, <3>3
  <2>5. ASSUME ~b
        PROVE  \/ Len(plan.sent) >= 1 /\ plan.seen \cup {i} = {1} /\ l \in Paid /\ n = s
               \/ Len(plan.sent) = 2 /\ plan.seen \cup {i} = {1, 2} /\ l = "free"
    <3>1. ~plan.disorder /\ i \notin plan.seen /\ \A k \in 1..(i - 1) : k \in plan.seen
      BY <1>pick, <2>5
    <3>2. CASE i = 1
      <4>1. plan.seen = {} /\ e.type = "completed"
        BY <1>2, <2>1, <2>3, <2>4, <3>1, <3>2 DEF Story, Subs
      <4>2. s \in Bought
        BY <2>4 DEF Bought
      <4>3. l \in Paid
        BY <1>3, <2>3, <4>1, <4>2, GrantedIsPaid DEF PlanInv
      <4>4. QED  BY <1>pick, <2>2, <2>3, <3>2, <4>1, <4>3
    <3>3. CASE i = 2
      <4>1. 1 \in plan.seen /\ Len(plan.sent) = 2
        <5>1. 1 \in 1..(i - 1)
          BY <3>3
        <5>2. QED  BY <2>len, <3>1, <3>3, <5>1
      <4>2. plan.seen = {1} /\ plan.known = s
        BY <2>1, <3>1, <3>3, <4>1 DEF Story
      <4>3. e.type \in {"paused", "deleted"}
        BY <1>2, <2>1, <2>3, <2>4, <3>3, <4>1 DEF Story, Subs
      <4>4. EndsPlan(e) /\ Attributed(e)
        BY <2>3, <4>2, <4>3 DEF EndsPlan, Attributed
      <4>5. l = "free"
        BY <1>3, <4>3, <4>4
      <4>6. QED  BY <3>3, <4>1, <4>2, <4>5
    <3>4. QED  BY <2>len, <3>2, <3>3
  <2>6. QED  BY <1>5, <2>1, <2>5 DEF Story
<1>8. QED
  BY <1>5, <1>6, <1>7 DEF PlanInv, Bought

LEMMA PlanKeeps ==
  ASSUME PlanInv, BillingNext
  PROVE  PlanInv'
<1>1. ASSUME NEW s \in Subscriptions, Buy(s)
      PROVE  PlanInv'
  <2>1. PICK claimed \in Paid, tagged \in BOOLEAN, paid \in Paid :
          plan' = [plan EXCEPT !.sent = Append(@, [type |-> "completed", sub |-> s]),
           !.subs[s] = [state |-> "active", claimed |-> claimed, paid |-> paid,
                        tagged |-> tagged]]
    BY <1>1 DEF Buy
  <2>2. PICK r \in Subs : r = [state |-> "active", claimed |-> claimed, paid |-> paid, tagged |-> tagged]
    BY DEF Subs
  <2>3. plan.subs[s].state = "none"
    BY <1>1 DEF Buy
  <2>4. QED  BY <2>1, <2>2, <2>3, SubMoves
<1>2. ASSUME NEW s \in Subscriptions, Turns(s)
      PROVE  PlanInv'
  <2>1. PICK turn \in {<<"active", "paused">>, <<"active", "deleted">>, <<"paused", "active">>} :
          /\ plan.subs[s].state = turn[1]
          /\ plan' = [plan EXCEPT !.subs[s].state = turn[2],
                        !.sent = Append(@, [type |-> turn[2], sub |-> s])]
    BY <1>2 DEF Turns
  <2>2. plan.subs \in [Subscriptions -> Subs] /\ plan.subs[s] \in Subs
    BY DEF PlanInv, Plans
  <2>3. PICK t \in {"active", "paused", "deleted"} : t = turn[2]
                  /\ (t = "active" \/ plan.subs[s].state = "active") /\ plan.subs[s].state # "none"
    BY <2>1
  <2>4. PICK r \in Subs : /\ r = [plan.subs[s] EXCEPT !.state = t] /\ r.state = t
                          /\ r.claimed = plan.subs[s].claimed /\ r.paid = plan.subs[s].paid
    <3>1. t \in {"none", "active", "paused", "deleted"}
      OBVIOUS
    <3>2. PICK q \in Subs : q = plan.subs[s]
      BY <2>2
    <3>3. [q EXCEPT !.state = t] \in Subs /\ [q EXCEPT !.state = t].state = t
          /\ [q EXCEPT !.state = t].claimed = q.claimed /\ [q EXCEPT !.state = t].paid = q.paid
      BY <3>1 DEF Subs
    <3>4. QED  BY <3>2, <3>3
  <2>5. plan' = [plan EXCEPT !.sent = Append(@, [type |-> t, sub |-> s]), !.subs[s] = r]
    BY <2>1, <2>2, <2>3, <2>4 DEF PlanInv, Plans
  <2>6. r.claimed \in Paid /\ r.paid \in Paid
    BY <2>3, <2>4 DEF PlanInv, Bought
  <2>7. QED  BY <2>3, <2>4, <2>5, <2>6, SubMoves
<1>3. QED
  BY <1>1, <1>2, WebhookKeeps DEF BillingNext

LEMMA PlanIsPaid == PlanInv => PaidUntilCancelled
<1> SUFFICES ASSUME PlanInv, ~plan.disorder, plan.seen = 1..Len(plan.sent),
                    Cardinality(Bought) = 1, NoResume
             PROVE  (plan.limits # "free") = (\E s \in Subscriptions : plan.subs[s].state = "active")
  BY DEF PaidUntilCancelled, Bought, NoResume
<1>1. PICK s : Bought = {s}
  BY FS_Singleton DEF PlanInv
<1>2. s \in Subscriptions /\ plan.subs[s].state # "none" /\ plan.subs[s] \in Subs
  BY <1>1 DEF Bought, PlanInv, Plans
<1>3. Story(s)
  BY <1>1, <1>2 DEF PlanInv
<1>4. \A o \in Subscriptions : plan.subs[o].state = "active" => o = s
  BY <1>1 DEF Bought
<1>5. CASE plan.subs[s].state = "active"
  <2>1. plan.seen = 1..1
    <3>1. Len(plan.sent) = 1
      BY <1>3, <1>5 DEF Story
    <3>2. QED  BY <3>1
  <2>2. 1 \in plan.seen /\ 2 \notin plan.seen
    <3>1. 1 \in 1..1 /\ 2 \notin 1..1
      OBVIOUS
    <3>2. QED  BY <2>1, <3>1
  <2>3. plan.limits \in Paid
    BY <1>3, <2>2 DEF Story
  <2>4. QED  BY <1>2, <1>5, <2>3 DEF Paid
<1>6. CASE plan.subs[s].state \in {"paused", "deleted"}
  <2>1. plan.seen = 1..2
    <3>1. Len(plan.sent) = 2
      BY <1>3, <1>6 DEF Story
    <3>2. QED  BY <3>1
  <2>2. 2 \in plan.seen
    <3>1. 2 \in 1..2
      OBVIOUS
    <3>2. QED  BY <2>1, <3>1
  <2>3. plan.limits = "free"
    BY <1>3, <2>2 DEF Story
  <2>4. QED  BY <1>4, <1>6, <2>3
<1>7. QED
  BY <1>2, <1>5, <1>6 DEF Subs

-----------------------------------------------------------------------------
(* Accounts: the tokens of a connection.                                     *)

Processes == {Process[s] : s \in Senders} \cup {"none"}
Locked == {"reread", "post", "write"}
Homes == [pc : {"idle", "lock"} \cup Locked, refresh : Nat, new : Nat]
Connections ==
    [status : {"none", "pending", "error", "connected", "revoked"}, access : BOOLEAN,
     refresh : Nat, near : BOOLEAN, live : SUBSET Nat, issued : Nat,
     usedBy : [1..MaxTokens -> Processes], again : BOOLEAN, lost : Nat,
     at : [Senders -> Homes]]

\* The sender s has a new token in hand.
Bearing(o, s) == o.at[s].pc = "write" /\ o.at[s].new # 0

\* Token t was used up by the process of s.
UsedUp(o, s, t) == t \notin o.live /\ o.usedBy[t] = Process[s]

\* A process uses up the token of the row only while it has the next one in hand,
\* and that one is nowhere else.
Tokens(o) ==
    /\ o \in Connections
    /\ o.issued <= MaxTokens /\ o.refresh <= o.issued /\ o.live \subseteq 1..o.issued
    /\ \A s \in Senders :
         /\ o.at[s].pc = "post" => o.at[s].refresh \in 1..o.issued /\ o.at[s].new = 0
         /\ o.at[s].pc = "write" => o.at[s].new <= o.issued
    /\ \A s, r \in Senders :
         s # r /\ Process[s] = Process[r] => o.at[s].pc \notin Locked \/ o.at[r].pc \notin Locked
    /\ o.lost = 0 =>
         /\ ~o.again
         /\ \A s \in Senders : o.at[s].pc = "post" => ~UsedUp(o, s, o.at[s].refresh)
         /\ \A s \in Senders : o.refresh # 0 /\ UsedUp(o, s, o.refresh) =>
              \E r \in Senders : Process[r] = Process[s] /\ Bearing(o, r)
         /\ \A s \in Senders : Bearing(o, s) =>
              /\ o.at[s].new \in o.live /\ o.at[s].new # o.refresh
              /\ \A r \in Senders :
                   /\ o.at[r].pc = "post" => o.at[r].refresh # o.at[s].new
                   /\ r # s /\ Bearing(o, r) => o.at[r].new # o.at[s].new

(* The row changes, and its refresh token is kept or cleared.                *)
LEMMA RowChanges ==
  ASSUME NEW o, Tokens(o), NEW n \in Connections,
         n.live = o.live, n.issued = o.issued, n.usedBy = o.usedBy, n.again = o.again,
         n.lost = o.lost, n.at = o.at, n.refresh \in {0, o.refresh}
  PROVE  Tokens(n)
<1>1. n.refresh <= n.issued
  BY DEF Tokens, Connections
<1>2. \A p \in Senders : /\ \A t : UsedUp(n, p, t) <=> UsedUp(o, p, t)
                         /\ Bearing(n, p) <=> Bearing(o, p)
  BY DEF UsedUp, Bearing
<1>3. ASSUME n.lost = 0
      PROVE  /\ ~n.again
             /\ \A p \in Senders : n.at[p].pc = "post" => ~UsedUp(n, p, n.at[p].refresh)
             /\ \A p \in Senders : n.refresh # 0 /\ UsedUp(n, p, n.refresh) =>
                  \E q \in Senders : Process[q] = Process[p] /\ Bearing(n, q)
  BY <1>2, <1>3 DEF Tokens
<1>4. ASSUME n.lost = 0, NEW p \in Senders, Bearing(n, p)
      PROVE  /\ n.at[p].new \in n.live /\ n.at[p].new # n.refresh
             /\ \A q \in Senders :
                  /\ n.at[q].pc = "post" => n.at[q].refresh # n.at[p].new
                  /\ q # p /\ Bearing(n, q) => n.at[q].new # n.at[p].new
  <2>1. n.at[p].new # 0
    BY <1>4 DEF Bearing
  <2>2. QED  BY <1>2, <1>4, <2>1 DEF Tokens
<1>5. QED  BY <1>1, <1>3, <1>4 DEF Tokens

(* A sender goes to r, and not to or from the write of tokens.                *)
LEMMA SenderGoes ==
  ASSUME NEW o, Tokens(o), NEW n \in Connections, NEW s \in Senders, NEW r \in Homes,
         n.live = o.live, n.issued = o.issued, n.usedBy = o.usedBy, n.again = o.again,
         n.lost = o.lost, n.refresh = o.refresh, n.at = [o.at EXCEPT ![s] = r],
         o.at[s].pc # "write" /\ r.pc # "write",
         r.pc \in Locked /\ o.at[s].pc \notin Locked =>
           \A p \in Senders \ {s} : Process[p] = Process[s] => o.at[p].pc \notin Locked,
         r.pc = "post" => /\ r.refresh = o.refresh /\ o.refresh # 0 /\ o.at[s].pc \in Locked
                          /\ r.new = 0
  PROVE  Tokens(n)
<1>1. \A p \in Senders : /\ n.at[p] = (IF p = s THEN r ELSE o.at[p])
                         /\ Bearing(n, p) <=> Bearing(o, p)
                         /\ Bearing(o, p) => p # s
  BY DEF Bearing, Tokens, Connections
<1>2. \A p \in Senders : \A t : UsedUp(n, p, t) <=> UsedUp(o, p, t)
  BY DEF UsedUp
<1>3. \A p, q \in Senders :
         p # q /\ Process[p] = Process[q] => n.at[p].pc \notin Locked \/ n.at[q].pc \notin Locked
  BY <1>1 DEF Tokens
<1>4. ASSUME o.lost = 0, r.pc = "post"
      PROVE  ~UsedUp(o, s, o.refresh)
  <2>1. SUFFICES ASSUME UsedUp(o, s, o.refresh) PROVE FALSE
    OBVIOUS
  <2>2. PICK p \in Senders : Process[p] = Process[s] /\ Bearing(o, p)
    BY <1>4, <2>1 DEF Tokens
  <2>3. p # s /\ o.at[p].pc \in Locked /\ o.at[s].pc \in Locked
    BY <1>1, <1>4, <2>2 DEF Bearing, Locked
  <2>4. QED  BY <2>2, <2>3 DEF Tokens
<1>5. ASSUME NEW p \in Senders
      PROVE  /\ n.at[p].pc = "post" => n.at[p].refresh \in 1..n.issued /\ n.at[p].new = 0
             /\ n.at[p].pc = "write" => n.at[p].new <= n.issued
  BY <1>1 DEF Tokens, Connections
<1>6. ASSUME n.lost = 0
      PROVE  /\ ~n.again
             /\ \A p \in Senders : n.at[p].pc = "post" => ~UsedUp(n, p, n.at[p].refresh)
             /\ \A p \in Senders : n.refresh # 0 /\ UsedUp(n, p, n.refresh) =>
                  \E q \in Senders : Process[q] = Process[p] /\ Bearing(n, q)
             /\ \A p \in Senders : Bearing(n, p) =>
                  /\ n.at[p].new \in n.live /\ n.at[p].new # n.refresh
                  /\ \A q \in Senders :
                       /\ n.at[q].pc = "post" => n.at[q].refresh # n.at[p].new
                       /\ q # p /\ Bearing(n, q) => n.at[q].new # n.at[p].new
  BY <1>1, <1>2, <1>4, <1>6 DEF Tokens
<1>7. QED
  BY <1>3, <1>5, <1>6 DEF Tokens

(* A new token comes with a callback.                                        *)
LEMMA CallbackIssues ==
  ASSUME NEW o, Tokens(o), NEW n \in Connections, o.issued < MaxTokens,
         n.live = o.live \cup {o.issued + 1}, n.issued = o.issued + 1, n.usedBy = o.usedBy,
         n.again = o.again, n.lost = o.lost, n.refresh = o.issued + 1, n.at = o.at
  PROVE  Tokens(n)
<1>1. /\ n.issued <= MaxTokens /\ n.refresh <= n.issued /\ n.live \subseteq 1..n.issued
      /\ \A s \in Senders :
           /\ n.at[s].pc = "post" => n.at[s].refresh \in 1..n.issued /\ n.at[s].new = 0
           /\ n.at[s].pc = "write" => n.at[s].new <= n.issued
  BY AccountsAssumption DEF Tokens, Connections, Homes
<1>2. \A s \in Senders : \A t : UsedUp(n, s, t) => UsedUp(o, s, t) /\ t # n.refresh
  BY DEF UsedUp
<1>3. \A s \in Senders : /\ Bearing(n, s) <=> Bearing(o, s)
                         /\ Bearing(n, s) => n.at[s].new # n.refresh
  BY DEF Bearing, Tokens, Connections, Homes
<1>4. QED
  BY <1>1, <1>2, <1>3 DEF Tokens

(* The provider has answered; it may have rotated the token.                 *)
LEMMA AnswerComes ==
  ASSUME NEW o, Tokens(o), NEW n \in Connections, NEW s \in Senders, NEW r \in Homes,
         o.at[s].pc = "post", r.pc \in {"write", "idle"},
         n.refresh = o.refresh, n.lost = o.lost, n.at = [o.at EXCEPT ![s] = r],
         n.again = (o.again \/ UsedUp(o, s, o.at[s].refresh)),
         \/ /\ n.live = o.live /\ n.issued = o.issued /\ n.usedBy = o.usedBy
            /\ r.pc = "write" => r.new = 0
         \/ /\ o.issued < MaxTokens /\ n.issued = o.issued + 1
            /\ n.live = (o.live \cup {o.issued + 1}) \ {o.at[s].refresh}
            /\ n.usedBy = [o.usedBy EXCEPT ![o.at[s].refresh] = Process[s]]
            /\ r.pc = "write" /\ r.new = o.issued + 1
  PROVE  Tokens(n)
<1> DEFINE t == o.at[s].refresh
<1>1. /\ t \in 1..o.issued /\ t \in 1..MaxTokens /\ o.issued \in Nat /\ o.issued <= MaxTokens
      /\ \A p \in Senders : n.at[p] = IF p = s THEN r ELSE o.at[p]
  BY AccountsAssumption DEF Tokens, Connections
<1>2. /\ n.issued <= MaxTokens /\ n.refresh <= n.issued /\ n.live \subseteq 1..n.issued
      /\ n.issued >= o.issued
  BY <1>1, AccountsAssumption DEF Tokens, Connections
<1>3. \A p \in Senders :
           /\ n.at[p].pc = "post" => n.at[p].refresh \in 1..n.issued /\ n.at[p].new = 0
           /\ n.at[p].pc = "write" => n.at[p].new <= n.issued
  <2>1. o.issued \in Nat /\ n.issued \in Nat
    BY <1>1 DEF Connections
  <2>2. ASSUME NEW p \in Senders, p # s
        PROVE  /\ n.at[p].pc = "post" => n.at[p].refresh \in 1..n.issued /\ n.at[p].new = 0
               /\ n.at[p].pc = "write" => n.at[p].new <= n.issued
    <3>1. n.at[p] = o.at[p] /\ o.at[p] \in Homes
      BY <1>1, <2>2 DEF Tokens, Connections
    <3>2. /\ o.at[p].pc = "post" => o.at[p].refresh \in 1..o.issued /\ o.at[p].new = 0
          /\ o.at[p].pc = "write" => o.at[p].new <= o.issued
      BY DEF Tokens
    <3>3. o.at[p].new \in Nat
      BY <3>1 DEF Homes
    <3>4. QED  BY <1>2, <2>1, <3>1, <3>2, <3>3
  <2>3. r.pc # "post" /\ (r.pc = "write" => r.new <= n.issued)
    BY <1>1, <2>1
  <2>4. n.at[s] = r
    BY <1>1
  <2>5. QED  BY <2>2, <2>3, <2>4
<1>4. \A p, q \in Senders :
         p # q /\ Process[p] = Process[q] => n.at[p].pc \notin Locked \/ n.at[q].pc \notin Locked
  BY <1>1 DEF Tokens, Locked
<1>5. ASSUME n.lost = 0
      PROVE  /\ ~n.again
             /\ \A p \in Senders : n.at[p].pc = "post" => ~UsedUp(n, p, n.at[p].refresh)
             /\ \A p \in Senders : n.refresh # 0 /\ UsedUp(n, p, n.refresh) =>
                  \E q \in Senders : Process[q] = Process[p] /\ Bearing(n, q)
             /\ \A p \in Senders : Bearing(n, p) =>
                  /\ n.at[p].new \in n.live /\ n.at[p].new # n.refresh
                  /\ \A q \in Senders :
                       /\ n.at[q].pc = "post" => n.at[q].refresh # n.at[p].new
                       /\ q # p /\ Bearing(n, q) => n.at[q].new # n.at[p].new
  <2>1. ~n.again
    BY <1>5 DEF Tokens
  <2>2. CASE n.live = o.live /\ n.issued = o.issued /\ n.usedBy = o.usedBy
             /\ (r.pc = "write" => r.new = 0)
    <3>1. \A p \in Senders : /\ Bearing(n, p) <=> Bearing(o, p)
                             /\ Bearing(o, p) => n.at[p] = o.at[p]
                             /\ n.at[p].pc = "post" => n.at[p] = o.at[p]
      BY <1>1, <2>2 DEF Bearing
    <3>2. \A p \in Senders : \A u : UsedUp(n, p, u) <=> UsedUp(o, p, u)
      BY <2>2 DEF UsedUp
    <3>3. \A p \in Senders : n.at[p].pc = "post" => ~UsedUp(n, p, n.at[p].refresh)
      <4>1. \A p \in Senders : o.at[p].pc = "post" => ~UsedUp(o, p, o.at[p].refresh)
        BY <1>5 DEF Tokens
      <4>2. QED  BY <3>1, <3>2, <4>1
    <3>4. \A p \in Senders : n.refresh # 0 /\ UsedUp(n, p, n.refresh) =>
            \E q \in Senders : Process[q] = Process[p] /\ Bearing(n, q)
      BY <1>5, <3>1, <3>2 DEF Tokens
    <3>5. ASSUME NEW p \in Senders, Bearing(n, p)
          PROVE  /\ n.at[p].new \in n.live /\ n.at[p].new # n.refresh
                 /\ \A q \in Senders :
                      /\ n.at[q].pc = "post" => n.at[q].refresh # n.at[p].new
                      /\ q # p /\ Bearing(n, q) => n.at[q].new # n.at[p].new
      <4>1. Bearing(o, p) /\ n.at[p] = o.at[p]
        BY <3>1, <3>5
      <4>2. /\ o.at[p].new \in o.live /\ o.at[p].new # o.refresh
            /\ \A q \in Senders :
                 /\ o.at[q].pc = "post" => o.at[q].refresh # o.at[p].new
                 /\ q # p /\ Bearing(o, q) => o.at[q].new # o.at[p].new
        BY <1>5, <4>1 DEF Tokens
      <4>3. QED  BY <2>2, <3>1, <4>1, <4>2
    <3>6. QED  BY <2>1, <3>3, <3>4, <3>5
  <2>3. CASE /\ o.issued < MaxTokens /\ n.issued = o.issued + 1
             /\ n.live = (o.live \cup {o.issued + 1}) \ {t}
             /\ n.usedBy = [o.usedBy EXCEPT ![t] = Process[s]]
             /\ r.pc = "write" /\ r.new = o.issued + 1
    <3>1. \A u \in 1..o.issued, p \in Senders :
             UsedUp(n, p, u) => IF u = t THEN Process[p] = Process[s] ELSE UsedUp(o, p, u)
      <4>1. ASSUME NEW u \in 1..o.issued
            PROVE  /\ n.usedBy[u] = IF u = t THEN Process[s] ELSE o.usedBy[u]
                   /\ u # t /\ u \notin n.live => u \notin o.live
        <5>1. u \in 1..MaxTokens
          BY <1>1, AccountsAssumption
        <5>2. o.usedBy \in [1..MaxTokens -> Processes]
          BY DEF Tokens, Connections
        <5>3. QED  BY <1>1, <2>3, <5>1, <5>2
      <4>2. QED  BY <4>1 DEF UsedUp
    <3>2. Bearing(n, s) /\ \A p \in Senders \ {s} : Bearing(n, p) <=> Bearing(o, p)
      BY <1>1, <2>3 DEF Bearing
    <3>3. \A p \in Senders : n.at[p].pc = "post" => ~UsedUp(n, p, n.at[p].refresh)
      <4>1. ASSUME NEW p \in Senders, n.at[p].pc = "post", UsedUp(n, p, n.at[p].refresh)
            PROVE  FALSE
        <5>1. p # s /\ n.at[p] = o.at[p] /\ o.at[p].refresh \in 1..o.issued
              /\ ~UsedUp(o, p, o.at[p].refresh)
          BY <1>1, <1>5, <4>1 DEF Tokens
        <5>2. o.at[p].refresh = t /\ Process[p] = Process[s]
          BY <3>1, <4>1, <5>1
        <5>3. QED  BY <4>1, <5>1, <5>2 DEF Tokens, Locked
      <4>2. QED  BY <4>1
    <3>4. \A p \in Senders : n.refresh # 0 /\ UsedUp(n, p, n.refresh) =>
            \E q \in Senders : Process[q] = Process[p] /\ Bearing(n, q)
      <4>1. ASSUME NEW p \in Senders, n.refresh # 0, UsedUp(n, p, n.refresh)
            PROVE  \E q \in Senders : Process[q] = Process[p] /\ Bearing(n, q)
        <5>1. o.refresh \in 1..o.issued
          <6>1. o.refresh \in Nat /\ o.refresh # 0 /\ o.refresh <= o.issued
            BY <4>1 DEF Tokens, Connections
          <6>2. QED  BY <1>1, <6>1
        <5>2. CASE o.refresh = t
          BY <3>1, <3>2, <4>1, <5>1, <5>2
        <5>3. CASE o.refresh # t
          <6>1. PICK q \in Senders : Process[q] = Process[p] /\ Bearing(o, q)
            BY <1>5, <3>1, <4>1, <5>1, <5>3 DEF Tokens
          <6>2. q # s
            BY <6>1 DEF Bearing
          <6>3. QED  BY <3>2, <6>1, <6>2
        <5>4. QED  BY <5>2, <5>3
      <4>2. QED  BY <4>1
    <3>5. ASSUME NEW p \in Senders, Bearing(n, p)
          PROVE  /\ n.at[p].new \in n.live /\ n.at[p].new # n.refresh
                 /\ \A q \in Senders :
                      /\ n.at[q].pc = "post" => n.at[q].refresh # n.at[p].new
                      /\ q # p /\ Bearing(n, q) => n.at[q].new # n.at[p].new
      <4>1. CASE p = s
        <5>1. n.at[p].new = o.issued + 1 /\ o.issued + 1 \in n.live /\ o.issued + 1 # n.refresh
          BY <1>1, <2>3, <4>1 DEF Tokens, Connections
        <5>2. \A q \in Senders \ {s} : n.at[q] = o.at[q] /\ (Bearing(n, q) <=> Bearing(o, q))
          BY <1>1, <3>2
        <5>3. \A q \in Senders : o.at[q].pc = "post" => o.at[q].refresh # o.issued + 1
          BY <1>1 DEF Tokens
        <5>4. \A q \in Senders : Bearing(o, q) => o.at[q].new # o.issued + 1
          <6>1. ASSUME NEW q \in Senders, Bearing(o, q)
                PROVE  o.at[q].new <= o.issued /\ o.at[q].new \in Nat
            <7>1. o.at[q].new <= o.issued
              BY <6>1 DEF Tokens, Bearing
            <7>2. o.at[q] \in Homes
              BY DEF Tokens, Connections
            <7>3. QED  BY <7>1, <7>2 DEF Homes
          <6>2. QED  BY <1>1, <6>1
        <5>5. QED  BY <1>1, <2>3, <4>1, <5>1, <5>2, <5>3, <5>4
      <4>2. CASE p # s
        <5>1. Bearing(o, p) /\ n.at[p] = o.at[p]
          BY <1>1, <3>2, <3>5, <4>2
        <5>2. o.at[p].new \in o.live /\ o.at[p].new # t /\ o.at[p].new # o.refresh
          BY <1>5, <5>1 DEF Tokens
        <5>3. \A q \in Senders : /\ o.at[q].pc = "post" => o.at[q].refresh # o.at[p].new
                                 /\ q # p /\ Bearing(o, q) => o.at[q].new # o.at[p].new
          BY <1>5, <5>1 DEF Tokens
        <5>4. o.at[p].new # o.issued + 1
          <6>1. o.live \subseteq 1..o.issued /\ o.issued \in Nat
            BY <1>1 DEF Tokens
          <6>2. \A u \in 1..o.issued : u # o.issued + 1
            BY <6>1
          <6>3. QED  BY <5>2, <6>1, <6>2
        <5>5. \A q \in Senders \ {s} : n.at[q] = o.at[q] /\ (Bearing(n, q) <=> Bearing(o, q))
          BY <1>1, <3>2
        <5>6. n.at[s] = r /\ r.pc = "write" /\ r.new = o.issued + 1
          BY <1>1, <2>3
        <5>7. QED  BY <2>3, <5>1, <5>2, <5>3, <5>4, <5>5, <5>6
      <4>3. QED  BY <4>1, <4>2
    <3>6. QED  BY <2>1, <3>3, <3>4, <3>5
  <2>4. QED  BY <2>2, <2>3
<1>6. QED
  BY <1>2, <1>3, <1>4, <1>5 DEF Tokens

(* A sender writes what it got: the next token is in the row.                *)
LEMMA TokenWritten ==
  ASSUME NEW o, Tokens(o), NEW n \in Connections, NEW s \in Senders, NEW r \in Homes,
         o.at[s].pc = "write", r.pc = "idle",
         n.live = o.live, n.issued = o.issued, n.usedBy = o.usedBy, n.again = o.again,
         n.at = [o.at EXCEPT ![s] = r],
         \/ /\ n.lost = o.lost
            /\ n.refresh = IF o.at[s].new # 0 THEN o.at[s].new ELSE o.refresh
         \/ n.lost > 0 /\ n.refresh = o.refresh
  PROVE  Tokens(n)
<1>1. \A p \in Senders : n.at[p] = IF p = s THEN r ELSE o.at[p]
  BY DEF Tokens, Connections
<1>2. /\ n.issued <= MaxTokens /\ n.refresh <= n.issued /\ n.live \subseteq 1..n.issued
      /\ \A p \in Senders :
           /\ n.at[p].pc = "post" => n.at[p].refresh \in 1..n.issued /\ n.at[p].new = 0
           /\ n.at[p].pc = "write" => n.at[p].new <= n.issued
  BY <1>1 DEF Tokens
<1>3. \A p, q \in Senders :
         p # q /\ Process[p] = Process[q] => n.at[p].pc \notin Locked \/ n.at[q].pc \notin Locked
  BY <1>1 DEF Tokens, Locked
<1>4. ASSUME n.lost = 0
      PROVE  /\ ~n.again
             /\ \A p \in Senders : n.at[p].pc = "post" => ~UsedUp(n, p, n.at[p].refresh)
             /\ \A p \in Senders : n.refresh # 0 /\ UsedUp(n, p, n.refresh) =>
                  \E q \in Senders : Process[q] = Process[p] /\ Bearing(n, q)
             /\ \A p \in Senders : Bearing(n, p) =>
                  /\ n.at[p].new \in n.live /\ n.at[p].new # n.refresh
                  /\ \A q \in Senders :
                       /\ n.at[q].pc = "post" => n.at[q].refresh # n.at[p].new
                       /\ q # p /\ Bearing(n, q) => n.at[q].new # n.at[p].new
  <2>1. o.lost = 0 /\ n.refresh = IF o.at[s].new # 0 THEN o.at[s].new ELSE o.refresh
    BY <1>4
  <2>2. ~Bearing(n, s) /\ \A p \in Senders \ {s} : n.at[p] = o.at[p] /\ (Bearing(n, p) <=> Bearing(o, p))
    BY <1>1 DEF Bearing
  <2>3. \A p \in Senders : \A u : UsedUp(n, p, u) <=> UsedUp(o, p, u)
    BY DEF UsedUp
  <2>4. /\ ~n.again
        /\ \A p \in Senders : n.at[p].pc = "post" => ~UsedUp(n, p, n.at[p].refresh)
    BY <1>1, <2>1, <2>3 DEF Tokens
  <2>5. /\ n.refresh = o.refresh \/ (Bearing(o, s) /\ n.refresh = o.at[s].new)
        /\ Bearing(o, s) => n.refresh = o.at[s].new
    BY <2>1 DEF Bearing
  <2>6. \A p \in Senders : n.refresh # 0 /\ UsedUp(n, p, n.refresh) =>
          \E q \in Senders : Process[q] = Process[p] /\ Bearing(n, q)
    <3>1. CASE Bearing(o, s)
      <4>1. n.refresh \in n.live
        BY <2>1, <2>5, <3>1 DEF Tokens
      <4>2. QED  BY <4>1 DEF UsedUp
    <3>2. CASE ~Bearing(o, s)
      <4>1. ASSUME NEW p \in Senders, n.refresh # 0, UsedUp(n, p, n.refresh)
            PROVE  \E q \in Senders : Process[q] = Process[p] /\ Bearing(n, q)
        <5>1. PICK q \in Senders : Process[q] = Process[p] /\ Bearing(o, q)
          BY <2>1, <2>3, <2>5, <3>2, <4>1 DEF Tokens
        <5>2. QED  BY <2>2, <3>2, <5>1
      <4>2. QED  BY <4>1
    <3>3. QED  BY <3>1, <3>2
  <2>7. ASSUME NEW p \in Senders, Bearing(n, p)
        PROVE  /\ n.at[p].new \in n.live /\ n.at[p].new # n.refresh
               /\ \A q \in Senders :
                    /\ n.at[q].pc = "post" => n.at[q].refresh # n.at[p].new
                    /\ q # p /\ Bearing(n, q) => n.at[q].new # n.at[p].new
    <3>1. p # s /\ Bearing(o, p) /\ n.at[p] = o.at[p]
      BY <2>2, <2>7
    <3>2. /\ o.at[p].new \in o.live /\ o.at[p].new # o.refresh
          /\ \A q \in Senders :
               /\ o.at[q].pc = "post" => o.at[q].refresh # o.at[p].new
               /\ q # p /\ Bearing(o, q) => o.at[q].new # o.at[p].new
      BY <2>1, <3>1 DEF Tokens
    <3>3. n.at[p].new # n.refresh
      BY <2>5, <3>1, <3>2
    <3>4. n.at[s].pc # "post"
      BY <1>1
    <3>5. QED  BY <2>2, <3>1, <3>2, <3>3, <3>4
  <2>8. QED  BY <2>4, <2>6, <2>7
<1>5. QED
  BY <1>2, <1>3, <1>4 DEF Tokens

LEMMA RowKeeps ==
  ASSUME Tokens(oauth), StartConnect \/ OauthCallback \/ RevokeConnection \/ NearsExpiry
  PROVE  Tokens(oauth')
<1>1. PICK o \in Connections : o = oauth /\ Tokens(o)
  BY DEF Tokens
<1>2. 0 \in Nat /\ o.issued \in Nat /\ o.issued + 1 \in Nat
  BY DEF Connections
<1>3. CASE StartConnect
  <2>1. PICK n \in Connections : n = [o EXCEPT !.status = "pending"]
    BY DEF Connections
  <2>2. QED  BY <1>1, <1>3, <2>1, RowChanges DEF StartConnect, Connections
<1>4. CASE oauth' = [oauth EXCEPT !.status = "error"]
  <2>1. PICK n \in Connections : n = [o EXCEPT !.status = "error"]
    BY DEF Connections
  <2>2. QED  BY <1>1, <1>4, <2>1, RowChanges DEF Connections
<1>5. CASE oauth' = [oauth EXCEPT !.status = "connected", !.access = TRUE, !.near = FALSE,
                       !.refresh = 0]
  <2>1. PICK n \in Connections :
          n = [o EXCEPT !.status = "connected", !.access = TRUE, !.near = FALSE, !.refresh = 0]
    BY <1>2 DEF Connections
  <2>2. QED  BY <1>1, <1>5, <2>1, RowChanges DEF Connections
<1>6. CASE /\ MayIssue
           /\ oauth' = [Issue(oauth, oauth.issued + 1) EXCEPT !.status = "connected",
                          !.access = TRUE, !.near = FALSE, !.refresh = oauth.issued + 1]
  <2>1. PICK n \in Connections :
          n = [o EXCEPT !.issued = o.issued + 1, !.live = @ \cup {o.issued + 1},
                 !.status = "connected", !.access = TRUE, !.near = FALSE, !.refresh = o.issued + 1]
    BY <1>2 DEF Connections
  <2>2. oauth' = n
    <3>1. PICK i \in Connections :
            i = [o EXCEPT !.issued = o.issued + 1, !.live = @ \cup {o.issued + 1}]
      BY <1>2 DEF Connections
    <3>2. i = Issue(oauth, oauth.issued + 1)
      BY <1>1, <3>1 DEF Issue
    <3>3. oauth' = [i EXCEPT !.status = "connected", !.access = TRUE, !.near = FALSE,
                             !.refresh = o.issued + 1]
      BY <1>1, <1>6, <3>2
    <3>4. QED  BY <2>1, <3>1, <3>3 DEF Connections
  <2>3. o.issued < MaxTokens
    BY <1>1, <1>6 DEF MayIssue
  <2>4. /\ n.live = o.live \cup {o.issued + 1} /\ n.issued = o.issued + 1 /\ n.usedBy = o.usedBy
        /\ n.again = o.again /\ n.lost = o.lost /\ n.refresh = o.issued + 1 /\ n.at = o.at
    BY <1>2, <2>1 DEF Connections
  <2>5. Tokens(o)
    BY <1>1
  <2>6. Tokens(n)
    BY <2>1, <2>3, <2>4, <2>5, CallbackIssues, Zenon
  <2>7. QED  BY <2>2, <2>6, Zenon
<1>7. CASE RevokeConnection
  <2>1. PICK n \in Connections : n = [o EXCEPT !.status = "revoked", !.access = FALSE, !.refresh = 0]
    BY <1>2 DEF Connections
  <2>2. QED  BY <1>1, <1>7, <2>1, RowChanges DEF RevokeConnection, Connections
<1>8. CASE NearsExpiry
  <2>1. PICK n \in Connections : n = [o EXCEPT !.near = TRUE]
    BY DEF Connections
  <2>2. QED  BY <1>1, <1>8, <2>1, RowChanges DEF NearsExpiry, Connections
<1>9. QED
  BY <1>3, <1>4, <1>5, <1>6, <1>7, <1>8 DEF OauthCallback

LEMMA SenderKeeps ==
  ASSUME Tokens(oauth), NEW s \in Senders,
         \/ LoadConnection(s) \/ AcquireLock(s) \/ RereadLocked(s)
         \/ PostRefresh(s) \/ WriteTokens(s) \/ AnswerLost(s)
  PROVE  Tokens(oauth')
<1>1. PICK o \in Connections : o = oauth /\ Tokens(o)
  BY DEF Tokens
<1>2. /\ o.at \in [Senders -> Homes] /\ o.at[s] \in Homes /\ o.refresh \in Nat
      /\ o.issued \in Nat /\ o.issued + 1 \in Nat /\ 0 \in Nat
  BY DEF Connections
<1>3. AtHome \in Homes /\ AtHome.pc = "idle" /\ AtHome.refresh = 0 /\ AtHome.new = 0
  BY DEF AtHome, Homes
<1>4. ASSUME NEW r \in Homes, oauth' = [oauth EXCEPT !.at[s] = r],
             o.at[s].pc # "write" /\ r.pc # "write",
             r.pc \in Locked /\ o.at[s].pc \notin Locked =>
               \A p \in Senders \ {s} : Process[p] = Process[s] => o.at[p].pc \notin Locked,
             r.pc = "post" => /\ r.refresh = o.refresh /\ o.refresh # 0 /\ o.at[s].pc \in Locked
                              /\ r.new = 0
      PROVE  Tokens(oauth')
  <2>1. PICK f \in [Senders -> Homes] : f = [o.at EXCEPT ![s] = r]
    BY <1>2
  <2>2. PICK n \in Connections : n = [o EXCEPT !.at = f]
    BY DEF Connections
  <2>3. oauth' = n
    BY <1>1, <1>4, <2>1, <2>2 DEF Connections
  <2>4. /\ n.live = o.live /\ n.issued = o.issued /\ n.usedBy = o.usedBy /\ n.again = o.again
        /\ n.lost = o.lost /\ n.refresh = o.refresh /\ n.at = [o.at EXCEPT ![s] = r]
    BY <2>1, <2>2 DEF Connections
  <2>5. Tokens(n)
    BY <1>1, <1>4, <2>4, SenderGoes
  <2>6. QED  BY <2>3, <2>5
<1>5. CASE LoadConnection(s)
  <2> DEFINE r == [AtHome EXCEPT !.pc = "lock", !.refresh = o.refresh]
  <2>1. r \in Homes /\ r.pc = "lock"
    BY <1>2 DEF AtHome, Homes
  <2>2. o.at[s].pc = "idle" /\ oauth' = [oauth EXCEPT !.at[s] = r]
    BY <1>1, <1>5 DEF LoadConnection, Sender
  <2> HIDE DEF r
  <2>3. QED  BY <1>4, <2>1, <2>2 DEF Locked
<1>6. CASE AcquireLock(s)
  <2> DEFINE r == [o.at[s] EXCEPT !.pc = "reread"]
  <2>1. r \in Homes /\ r.pc = "reread"
    BY <1>2 DEF Homes, Locked
  <2>2. \A p \in Senders \ {s} : Process[p] = Process[s] => o.at[p].pc \notin Locked
    BY <1>1, <1>6 DEF AcquireLock, Locked
  <2>3. o.at[s].pc = "lock" /\ oauth' = [oauth EXCEPT !.at[s] = r]
    BY <1>1, <1>6 DEF AcquireLock, Sender
  <2> HIDE DEF r
  <2>4. QED  BY <1>4, <2>1, <2>2, <2>3
<1>7. CASE RereadLocked(s)
  <2>1. o.at[s].pc = "reread" /\ oauth' = [oauth EXCEPT !.at[s] = Reread(s)]
    BY <1>1, <1>7 DEF RereadLocked, Sender
  <2>2. CASE Refreshable
    <3> DEFINE r == [AtHome EXCEPT !.pc = "post", !.refresh = o.refresh]
    <3>1. r \in Homes /\ r.pc = "post" /\ r.refresh = o.refresh /\ r.new = 0
      BY <1>2 DEF AtHome, Homes, Locked
    <3>2. o.refresh # 0 /\ oauth' = [oauth EXCEPT !.at[s] = r]
      BY <1>1, <2>1, <2>2 DEF Refreshable, Reread
    <3> HIDE DEF r
    <3>3. QED  BY <1>4, <2>1, <3>1, <3>2 DEF Locked
  <2>3. CASE ~Refreshable
    <3>1. oauth' = [oauth EXCEPT !.at[s] = AtHome]
      BY <2>1, <2>3 DEF Reread
    <3>2. QED  BY <1>3, <1>4, <2>1, <3>1 DEF Locked
  <2>4. QED  BY <2>2, <2>3
<1>8. CASE PostRefresh(s)
  <2> DEFINE t == o.at[s].refresh
  <2>1. /\ o.at[s].pc = "post" /\ t \in 1..o.issued /\ o.at[s].new = 0 /\ t \in 1..MaxTokens
        /\ o.issued <= MaxTokens /\ t \in Nat
    <3>1. o.at[s].pc = "post"
      BY <1>1, <1>8 DEF PostRefresh
    <3>2. t \in 1..o.issued /\ o.at[s].new = 0
      BY <1>1, <3>1 DEF Tokens
    <3>3. o.issued <= MaxTokens /\ o.issued \in Nat /\ MaxTokens \in Nat
      BY <1>1, AccountsAssumption DEF Tokens, Connections
    <3>4. t \in Nat /\ t \in 1..MaxTokens
      BY <3>2, <3>3
    <3>5. QED  BY <3>1, <3>2, <3>3, <3>4
  <2>2. PICK b \in BOOLEAN : b = (o.again \/ UsedUp(o, s, t))
    BY DEF Connections
  <2> DEFINE told == [o EXCEPT !.again = b]
  <2>11. told \in Connections /\ told.again = b
    BY DEF Connections
  <2>12. /\ told.at = o.at /\ told.live = o.live /\ told.issued = o.issued
         /\ told.usedBy = o.usedBy /\ told.refresh = o.refresh /\ told.lost = o.lost
    BY DEF Connections
  <2>3. PICK asked \in Connections :
          /\ asked = told
          /\ asked.at = o.at /\ asked.live = o.live /\ asked.issued = o.issued /\ asked.again = b
          /\ asked.usedBy = o.usedBy /\ asked.refresh = o.refresh /\ asked.lost = o.lost
    BY <2>11, <2>12
  <2>4. asked = [oauth EXCEPT !.again = @ \/ (o.at[s].refresh \notin oauth.live
                                              /\ oauth.usedBy[o.at[s].refresh] = Process[s])]
    BY <1>1, <2>2, <2>3 DEF UsedUp, Connections
  <2>5. ASSUME NEW r \in Homes, oauth' = [asked EXCEPT !.at[s] = r],
               r.pc \in {"write", "idle"}, r.new = 0
        PROVE  Tokens(oauth')
    <3>1. PICK f \in [Senders -> Homes] : f = [o.at EXCEPT ![s] = r]
      BY <1>2
    <3>2. PICK n \in Connections : n = [asked EXCEPT !.at = f]
      BY DEF Connections
    <3>3. oauth' = n
      BY <2>3, <2>5, <3>1, <3>2 DEF Connections
    <3>4. /\ n.live = o.live /\ n.issued = o.issued /\ n.usedBy = o.usedBy /\ n.again = b
          /\ n.lost = o.lost /\ n.refresh = o.refresh /\ n.at = [o.at EXCEPT ![s] = r]
      BY <2>3, <3>1, <3>2 DEF Connections
    <3>5. n.again = (o.again \/ UsedUp(o, s, o.at[s].refresh))
      BY <2>2, <3>4
    <3>6. Tokens(n)
      <4> HIDE DEF t
      <4>1. QED  BY <1>1, <2>1, <2>5, <3>4, <3>5, AnswerComes
    <3>7. QED  BY <3>3, <3>6
  <2>6. CASE oauth' = [asked EXCEPT !.at[s] = AtHome]
    BY <1>3, <2>5, <2>6
  <2>7. CASE oauth' = [asked EXCEPT !.at[s].pc = "write"]
    <3> DEFINE r == [o.at[s] EXCEPT !.pc = "write"]
    <3>1. r \in Homes /\ r.pc = "write" /\ r.new = 0
      BY <1>2, <2>1 DEF Homes, Locked
    <3>2. oauth' = [asked EXCEPT !.at[s] = r]
      BY <2>3, <2>7
    <3> HIDE DEF r
    <3>3. QED  BY <2>5, <3>1, <3>2
  <2>8. CASE /\ MayIssue
             /\ oauth' = [[Issue(asked, asked.issued + 1) EXCEPT
                             !.live = (@ \cup {asked.issued + 1}) \ {o.at[s].refresh},
                             !.usedBy[o.at[s].refresh] = Process[s]]
                          EXCEPT !.at[s] = [pc |-> "write", refresh |-> o.at[s].refresh,
                                            new |-> oauth.issued + 1]]
    <3>1. PICK r \in Homes : r = [pc |-> "write", refresh |-> t, new |-> o.issued + 1]
      BY <1>2, <2>1 DEF Homes, Locked
    <3>2. PICK f \in [Senders -> Homes] : f = [o.at EXCEPT ![s] = r]
      BY <1>2
    <3>3. PICK u \in [1..MaxTokens -> Processes] : u = [o.usedBy EXCEPT ![t] = Process[s]]
      BY <2>1 DEF Connections, Processes
    <3>4. PICK l \in SUBSET Nat : l = (o.live \cup {o.issued + 1}) \ {t}
      BY <1>2 DEF Connections
    <3>5. PICK n \in Connections :
            n = [asked EXCEPT !.issued = o.issued + 1, !.live = l, !.usedBy = u, !.at = f]
      BY <1>2 DEF Connections
    <3>6. /\ n.live = (o.live \cup {o.issued + 1}) \ {t} /\ n.issued = o.issued + 1
          /\ n.usedBy = [o.usedBy EXCEPT ![t] = Process[s]] /\ n.again = b
          /\ n.lost = o.lost /\ n.refresh = o.refresh /\ n.at = [o.at EXCEPT ![s] = r]
      BY <2>3, <3>2, <3>3, <3>4, <3>5 DEF Connections
    <3>7. oauth' = n
      <4>1. PICK a \in Connections :
              a = [asked EXCEPT !.issued = o.issued + 1, !.live = o.live \cup {o.issued + 1}]
        BY <1>2 DEF Connections
      <4>2. a = Issue(asked, asked.issued + 1)
        BY <2>3, <4>1 DEF Issue, Connections
      <4>3. a.live = o.live \cup {o.issued + 1} /\ a.usedBy = o.usedBy /\ a.at = o.at
        BY <2>3, <4>1 DEF Connections
      <4>4. PICK c \in Connections : c = [a EXCEPT !.live = l, !.usedBy = u]
        BY DEF Connections
      <4>5. c = [a EXCEPT !.live = (@ \cup {asked.issued + 1}) \ {t}, !.usedBy[t] = Process[s]]
        <5>1. asked.issued = o.issued /\ a.live = o.live \cup {o.issued + 1}
          BY <2>3, <4>3
        <5>2. (a.live \cup {asked.issued + 1}) \ {t} = l
          BY <3>4, <5>1
        <5>3. [a.usedBy EXCEPT ![t] = Process[s]] = u
          BY <3>3, <4>3
        <5>4. QED  BY <4>4, <5>2, <5>3 DEF Connections
      <4>6. c.at = o.at
        BY <4>3, <4>4 DEF Connections
      <4>7. oauth' = [c EXCEPT !.at[s] = r]
        BY <1>1, <2>8, <3>1, <4>2, <4>5
      <4>8. oauth' = [c EXCEPT !.at = f]
        BY <3>2, <4>6, <4>7 DEF Connections
      <4>9. [c EXCEPT !.at = f] = n
        BY <3>5, <4>1, <4>4 DEF Connections
      <4>10. QED  BY <4>8, <4>9
    <3>8. o.issued < MaxTokens /\ r.pc = "write" /\ r.new = o.issued + 1
      BY <1>1, <2>8, <3>1 DEF MayIssue
    <3>9. Tokens(n)
      BY <1>1, <2>1, <2>2, <3>6, <3>8, AnswerComes
    <3>10. QED  BY <3>7, <3>9
  <2>9. \/ oauth' = [asked EXCEPT !.at[s] = AtHome]
        \/ oauth' = [asked EXCEPT !.at[s].pc = "write"]
        \/ /\ MayIssue
           /\ oauth' = [[Issue(asked, asked.issued + 1) EXCEPT
                           !.live = (@ \cup {asked.issued + 1}) \ {o.at[s].refresh},
                           !.usedBy[o.at[s].refresh] = Process[s]]
                        EXCEPT !.at[s] = [pc |-> "write", refresh |-> o.at[s].refresh,
                                          new |-> oauth.issued + 1]]
    BY <1>1, <1>8, <2>4 DEF PostRefresh
  <2>10. QED  BY <2>6, <2>7, <2>8, <2>9
<1>9. CASE WriteTokens(s)
  <2>1. PICK f \in [Senders -> Homes] : f = [o.at EXCEPT ![s] = AtHome]
    BY <1>2, <1>3
  <2>2. PICK v \in Nat : v = IF o.at[s].new # 0 THEN o.at[s].new ELSE o.refresh
    BY <1>2 DEF Homes
  <2>3. PICK n \in Connections :
          n = [o EXCEPT !.access = TRUE, !.near = FALSE, !.at = f, !.refresh = v]
    BY DEF Connections
  <2>4. oauth' = n /\ o.at[s].pc = "write"
    BY <1>1, <1>9, <2>1, <2>2, <2>3 DEF WriteTokens, Connections
  <2>5. /\ n.live = o.live /\ n.issued = o.issued /\ n.usedBy = o.usedBy /\ n.again = o.again
        /\ n.lost = o.lost /\ n.refresh = (IF o.at[s].new # 0 THEN o.at[s].new ELSE o.refresh)
        /\ n.at = [o.at EXCEPT ![s] = AtHome]
    BY <2>1, <2>2, <2>3 DEF Connections
  <2>6. Tokens(n)
    BY <1>1, <1>3, <2>4, <2>5, TokenWritten
  <2>7. QED  BY <2>4, <2>6
<1>10. CASE AnswerLost(s)
  <2>1. PICK f \in [Senders -> Homes] : f = [o.at EXCEPT ![s] = AtHome]
    BY <1>2, <1>3
  <2>2. o.lost + 1 \in Nat /\ o.lost + 1 > 0
    BY DEF Connections
  <2>3. PICK n \in Connections : n = [o EXCEPT !.lost = o.lost + 1, !.at = f]
    BY <2>2 DEF Connections
  <2>4. oauth' = n /\ o.at[s].pc = "write"
    BY <1>1, <1>10, <2>1, <2>3 DEF AnswerLost, Connections
  <2>5. /\ n.live = o.live /\ n.issued = o.issued /\ n.usedBy = o.usedBy /\ n.again = o.again
        /\ n.lost > 0 /\ n.refresh = o.refresh /\ n.at = [o.at EXCEPT ![s] = AtHome]
    BY <2>1, <2>2, <2>3 DEF Connections
  <2>6. Tokens(n)
    BY <1>1, <1>3, <2>4, <2>5, TokenWritten
  <2>7. QED  BY <2>4, <2>6
<1>11. QED
  BY <1>5, <1>6, <1>7, <1>8, <1>9, <1>10

-----------------------------------------------------------------------------
(* Accounts: the copy of a job.                                              *)

Holds == [step : Nat, found : Syncs \cup {"none", "new"}, pick : Seq(Syncs \cup {"none"}),
          known : SUBSET {Company, Contact}]
Working(c, s) == c.at[s].step \in 1..10
KeyOf(c, s, k) == [p \in Parents[k] |-> c.at[s].pick[p]]
Seeks(a, k) == k \notin Appended /\ (k \in {Company, Contact} => k \in a.known)
Alike(c, s, k) == {r \in c.rows : r.known /\ r.table = k /\ r.key = KeyOf(c, s, k)}

\* Without an overlap one sync works at a time, and what it did not find is not there.
Copied(c) ==
    /\ c = [rows |-> c.rows, overlap |-> c.overlap, at |-> c.at]
    /\ c.overlap \in BOOLEAN /\ c.at \in [Syncs -> Holds]
    /\ \A r \in c.rows : r.by \in Syncs
    /\ \A s \in Syncs : c.at[s].found # "none" => Working(c, s)
    /\ ~c.overlap =>
         /\ \A s, o \in Syncs : Working(c, s) /\ Working(c, o) => s = o
         /\ \A s \in Syncs :
              c.at[s].found = "new" /\ Seeks(c.at[s], c.at[s].step)
              => Alike(c, s, c.at[s].step) = {}
         /\ \A r, q \in c.rows :
              r.known /\ q.known /\ r.table = q.table /\ r.key = q.key => r = q

(* A sync goes to h, and no row changes.                                     *)
LEMMA SyncGoes ==
  ASSUME NEW c, Copied(c), NEW s \in Syncs, NEW h \in Holds, NEW b \in BOOLEAN,
         h.pick = c.at[s].pick, h.found # "none" => h.step \in 1..10,
         ~b => /\ ~c.overlap
               /\ h.step \in 1..10 => \A o \in Syncs \ {s} : ~Working(c, o)
               /\ h.found = "new" /\ Seeks(h, h.step) => Alike(c, s, h.step) = {}
  PROVE  Copied([rows |-> c.rows, overlap |-> b, at |-> [c.at EXCEPT ![s] = h]])
<1> DEFINE m == [rows |-> c.rows, overlap |-> b, at |-> [c.at EXCEPT ![s] = h]]
<1>1. PICK n : n = m
  OBVIOUS
<1>2. /\ n.rows = c.rows /\ n.overlap = b /\ n.at \in [Syncs -> Holds]
      /\ \A o \in Syncs : n.at[o] = IF o = s THEN h ELSE c.at[o]
      /\ n = [rows |-> n.rows, overlap |-> n.overlap, at |-> n.at]
  BY <1>1 DEF Copied
<1>3. \A o \in Syncs : Working(n, o) <=> IF o = s THEN h.step \in 1..10 ELSE Working(c, o)
  BY <1>2 DEF Working
<1>4. ASSUME NEW o \in Syncs, NEW k PROVE Alike(n, o, k) = Alike(c, o, k)
  <2>1. n.at[o].pick = c.at[o].pick
    BY <1>2
  <2>2. KeyOf(n, o, k) = KeyOf(c, o, k)
    BY <2>1 DEF KeyOf
  <2>3. QED  BY <1>2, <2>2 DEF Alike
<1>5. \A o \in Syncs : n.at[o].found # "none" => Working(n, o)
  BY <1>2, <1>3 DEF Copied
<1>6. ASSUME ~b PROVE \A o, q \in Syncs : Working(n, o) /\ Working(n, q) => o = q
  BY <1>3, <1>6 DEF Copied
<1>7. ASSUME ~b, NEW o \in Syncs, n.at[o].found = "new", Seeks(n.at[o], n.at[o].step)
      PROVE  Alike(n, o, n.at[o].step) = {}
  <2>1. CASE o = s
    BY <1>2, <1>4, <1>7, <2>1
  <2>2. CASE o # s
    BY <1>2, <1>4, <1>7, <2>2 DEF Copied
  <2>3. QED  BY <2>1, <2>2
<1>8. Copied(n)
  BY <1>2, <1>5, <1>6, <1>7 DEF Copied
<1>9. QED  BY <1>1, <1>8

MadeBy(c, s) == [table |-> c.at[s].step, key |-> KeyOf(c, s, c.at[s].step), by |-> s,
                 known |-> Seeks(c.at[s], c.at[s].step)]

(* A sync that works on a row goes on to the next; it adds the row it did not find. *)
LEMMA RowPut ==
  ASSUME NEW c, Copied(c), NEW s \in Syncs, NEW h \in Holds, NEW R,
         Working(c, s), h.found = "none",
         \/ R = c.rows
         \/ /\ c.at[s].found = "new"
            /\ R = c.rows \cup {MadeBy(c, s)}
  PROVE  Copied([rows |-> R, overlap |-> c.overlap, at |-> [c.at EXCEPT ![s] = h]])
<1> DEFINE m == [rows |-> R, overlap |-> c.overlap, at |-> [c.at EXCEPT ![s] = h]]
<1>1. PICK n : n = m
  OBVIOUS
<1>2. /\ n.rows = R /\ n.overlap = c.overlap /\ n.at \in [Syncs -> Holds]
      /\ \A o \in Syncs : n.at[o] = IF o = s THEN h ELSE c.at[o]
      /\ n = [rows |-> n.rows, overlap |-> n.overlap, at |-> n.at]
  BY <1>1 DEF Copied
<1>3. \A o \in Syncs : /\ Working(n, o) => Working(c, o)
                       /\ n.at[o].found # "none" => Working(n, o) /\ o # s
  BY <1>2 DEF Working, Copied
<1>4. \A r \in R : r.by \in Syncs
  BY DEF Copied, MadeBy
<1>5. ASSUME ~c.overlap, NEW r \in R, NEW q \in R,
             r.known, q.known, r.table = q.table, r.key = q.key
      PROVE  r = q
  <2>1. CASE R = c.rows
    BY <1>5, <2>1 DEF Copied
  <2>2. CASE /\ c.at[s].found = "new"
             /\ R = c.rows \cup {MadeBy(c, s)}
    <3>1. PICK made : made = MadeBy(c, s)
      OBVIOUS
    <3>2. /\ made.table = c.at[s].step /\ made.key = KeyOf(c, s, made.table)
          /\ made.known = Seeks(c.at[s], made.table) /\ R = c.rows \cup {made}
      BY <2>2, <3>1 DEF MadeBy
    <3>3. made.known => Alike(c, s, made.table) = {}
      BY <1>5, <2>2, <3>2 DEF Copied
    <3>4. made.known =>
            \A x \in c.rows : ~(x.known /\ x.table = made.table /\ x.key = made.key)
      BY <3>2, <3>3 DEF Alike
    <3>5. QED  BY <1>5, <3>2, <3>4 DEF Copied
  <2>3. QED  BY <2>1, <2>2
<1>6. ASSUME ~c.overlap PROVE \A o \in Syncs : n.at[o].found = "none"
  BY <1>3, <1>6 DEF Copied
<1>7. ASSUME ~c.overlap PROVE \A o, q \in Syncs : Working(n, o) /\ Working(n, q) => o = q
  BY <1>3, <1>7 DEF Copied
<1>8. Copied(n)
  <2>1. ~n.overlap =>
         /\ \A o, q \in Syncs : Working(n, o) /\ Working(n, q) => o = q
         /\ \A o \in Syncs :
              n.at[o].found = "new" /\ Seeks(n.at[o], n.at[o].step)
              => Alike(n, o, n.at[o].step) = {}
         /\ \A r, q \in n.rows :
              r.known /\ q.known /\ r.table = q.table /\ r.key = q.key => r = q
    BY <1>2, <1>5, <1>6, <1>7
  <2>2. QED  BY <1>2, <1>3, <1>4, <2>1 DEF Copied
<1>9. QED  BY <1>1, <1>8

LEMMA SyncKeeps ==
  ASSUME Copied(crm), NEW s \in Syncs,
         BeginSync(s) \/ FindRow(s) \/ LacksContact(s) \/ PutRow(s) \/ SyncFails(s)
  PROVE  Copied(crm')
<1>1. PICK c : c = crm
  OBVIOUS
<1>2. /\ Copied(c) /\ Len(Tables) = 10 /\ c.at[s] \in Holds /\ c.overlap \in BOOLEAN
      /\ c = [rows |-> c.rows, overlap |-> c.overlap, at |-> c.at]
      /\ c.at \in [Syncs -> Holds]
  BY <1>1 DEF Copied, Tables
<1>3. PICK a \in Holds : a = c.at[s]
  BY <1>2
<1>4. CASE BeginSync(s)
  <2>7. PICK k \in SUBSET {Company, Contact} :
          crm' = [crm EXCEPT !.at[s].step = 1, !.at[s].known = k,
                    !.overlap = @ \/ \E o \in Syncs : At(o).step \in 1..Len(Tables)]
    BY <1>4 DEF BeginSync
  <2>1. PICK h \in Holds : /\ h = [a EXCEPT !.step = 1, !.known = k]
                           /\ h.step = 1 /\ h.found = a.found /\ h.pick = a.pick
    <3> DEFINE g == [a EXCEPT !.step = 1, !.known = k]
    <3>1. g \in Holds /\ g.step = 1 /\ g.found = a.found /\ g.pick = a.pick
      BY DEF Holds
    <3>2. QED  BY <3>1
  <2>2. PICK b \in BOOLEAN : b = (c.overlap \/ \E o \in Syncs : At(o).step \in 1..Len(Tables))
    OBVIOUS
  <2>3. h.found = "none" /\ 1 \in 1..10
    <3>1. c.at[s].step = 0
      BY <1>1, <1>4 DEF BeginSync, At
    <3>2. ~Working(c, s)
      BY <3>1 DEF Working
    <3>3. c.at[s].found = "none"
      BY <1>2, <3>2 DEF Copied
    <3>4. h.found = "none"
      BY <1>3, <2>1, <3>3
    <3>5. 1 \in 1..10
      OBVIOUS
    <3>6. QED  BY <3>4, <3>5
  <2>4. ~b => ~c.overlap /\ \A o \in Syncs \ {s} : ~Working(c, o)
    BY <1>1, <1>2, <2>2 DEF Working, At
  <2>5. crm' = [rows |-> c.rows, overlap |-> b, at |-> [c.at EXCEPT ![s] = h]]
    <3>1. crm' = [c EXCEPT !.at = [c.at EXCEPT ![s] = h], !.overlap = b]
      BY <1>1, <1>2, <1>3, <2>1, <2>2, <2>7
    <3>2. QED  BY <1>2, <3>1
  <2>6. Copied([rows |-> c.rows, overlap |-> b, at |-> [c.at EXCEPT ![s] = h]])
    BY <1>2, <1>3, <2>1, <2>3, <2>4, SyncGoes
  <2>8. QED  BY <2>5, <2>6
<1>5. CASE FindRow(s)
  <2>1. /\ Working(c, s) /\ a.step \in 1..10
        /\ \E f \in IF Looks(s, a.step) /\ Same(s, a.step) # {} THEN {r.by : r \in Same(s, a.step)}
                    ELSE {"new"} :
             crm' = [crm EXCEPT !.at[s].found = f]
    BY <1>1, <1>2, <1>3, <1>5 DEF FindRow, At, Working
  <2>2. Same(s, a.step) = Alike(c, s, a.step)
    BY <1>1 DEF Same, Alike, Key, KeyOf, At
  <2>3. PICK f \in Syncs \cup {"new"} :
          /\ crm' = [crm EXCEPT !.at[s].found = f]
          /\ f = "new" /\ Seeks(a, a.step) => Alike(c, s, a.step) = {}
    <3>1. CASE Looks(s, a.step) /\ Same(s, a.step) # {}
      <4>1. PICK r \in Same(s, a.step) : crm' = [crm EXCEPT !.at[s].found = r.by]
        BY <2>1, <3>1
      <4>2. r.by \in Syncs /\ r.by # "new"
        BY <1>2, <2>2, <4>1, AccountsAssumption DEF Copied, Alike
      <4>3. QED  BY <4>1, <4>2
    <3>2. CASE ~(Looks(s, a.step) /\ Same(s, a.step) # {})
      <4>1. Looks(s, a.step) = Seeks(a, a.step)
        BY <1>1, <1>3 DEF Looks, Seeks, At
      <4>2. QED  BY <2>1, <2>2, <3>2, <4>1
    <3>3. QED  BY <3>1, <3>2
  <2>4. PICK h \in Holds : /\ h = [a EXCEPT !.found = f] /\ h.step = a.step /\ h.found = f
                           /\ h.pick = a.pick /\ h.known = a.known
    <3> DEFINE g == [a EXCEPT !.found = f]
    <3>1. /\ g \in Holds /\ g.step = a.step /\ g.found = f
          /\ g.pick = a.pick /\ g.known = a.known
      BY DEF Holds
    <3>2. QED  BY <3>1
  <2>5. crm' = [rows |-> c.rows, overlap |-> c.overlap, at |-> [c.at EXCEPT ![s] = h]]
    <3>1. crm' = [c EXCEPT !.at[s] = h]
      BY <1>1, <1>2, <1>3, <2>3, <2>4
    <3>2. QED  BY <1>2, <3>1
  <2>6. ~c.overlap => \A o \in Syncs \ {s} : ~Working(c, o)
    BY <1>2, <2>1 DEF Copied
  <2>7. Copied([rows |-> c.rows, overlap |-> c.overlap, at |-> [c.at EXCEPT ![s] = h]])
    <3>1. Seeks(h, h.step) = Seeks(a, a.step)
      BY <2>4 DEF Seeks
    <3>2. h.found = "new" /\ Seeks(h, h.step) => Alike(c, s, h.step) = {}
      BY <2>3, <2>4, <3>1
    <3>3. QED  BY <1>2, <1>3, <2>1, <2>4, <2>6, <3>2, SyncGoes
  <2>8. QED  BY <2>5, <2>7
<1>6. ASSUME crm' = [crm EXCEPT !.at[s].step = Len(Tables) + 1, !.at[s].found = "none"]
      PROVE  Copied(crm')
  <2>1. PICK h \in Holds : /\ h = [a EXCEPT !.step = 11, !.found = "none"]
                           /\ h.step = 11 /\ h.found = "none" /\ h.pick = a.pick
    <3> DEFINE g == [a EXCEPT !.step = 11, !.found = "none"]
    <3>1. g \in Holds /\ g.step = 11 /\ g.found = "none" /\ g.pick = a.pick
      BY DEF Holds
    <3>2. QED  BY <3>1
  <2>2. crm' = [rows |-> c.rows, overlap |-> c.overlap, at |-> [c.at EXCEPT ![s] = h]]
    <3>1. Len(Tables) + 1 = 11
      BY <1>2
    <3>2. crm' = [c EXCEPT !.at = [c.at EXCEPT ![s] = h]]
      BY <1>1, <1>2, <1>3, <1>6, <2>1, <3>1
    <3>3. QED  BY <1>2, <3>2
  <2>3. Copied([rows |-> c.rows, overlap |-> c.overlap, at |-> [c.at EXCEPT ![s] = h]])
    <3>1. 11 \notin 1..10 /\ "none" # "new"
      OBVIOUS
    <3>2. c.overlap \in BOOLEAN /\ h.pick = c.at[s].pick /\ h.found # "new" /\ h.step \notin 1..10
      BY <1>2, <1>3, <2>1, <3>1
    <3>3. QED  BY <1>2, <2>1, <3>2, SyncGoes
  <2>4. QED  BY <2>2, <2>3
<1>7. CASE PutRow(s)
  <2> DEFINE made == [table |-> a.step, key |-> Key(s, a.step), by |-> s,
                      known |-> Looks(s, a.step)]
             pick == IF a.found = "new" THEN s ELSE a.found
  <2>1. /\ a.found # "none"
        /\ \/ crm' = [crm EXCEPT !.at[s].step = Len(Tables) + 1, !.at[s].found = "none"]
           \/ crm' = [crm EXCEPT !.at[s] = [step |-> a.step + 1, found |-> "none",
                                            pick |-> Append(a.pick, pick), known |-> a.known],
                        !.rows = IF a.found = "new" THEN @ \cup {made} ELSE @]
    BY <1>1, <1>3, <1>7 DEF PutRow, At
  <2>2. CASE crm' = [crm EXCEPT !.at[s] = [step |-> a.step + 1, found |-> "none",
                                            pick |-> Append(a.pick, pick), known |-> a.known],
                        !.rows = IF a.found = "new" THEN @ \cup {made} ELSE @]
    <3>1. /\ a.step + 1 \in Nat /\ pick \in Syncs \cup {"none"}
          /\ a.pick \in Seq(Syncs \cup {"none"}) /\ a.known \in SUBSET {Company, Contact}
      BY <2>1 DEF Holds
    <3>2. Append(a.pick, pick) \in Seq(Syncs \cup {"none"})
      BY <3>1
    <3>3. PICK h \in Holds : /\ h = [step |-> a.step + 1, found |-> "none",
                                     pick |-> Append(a.pick, pick), known |-> a.known]
                             /\ h.found = "none"
      <4> DEFINE g == [step |-> a.step + 1, found |-> "none", pick |-> Append(a.pick, pick),
                       known |-> a.known]
      <4>1. g \in Holds /\ g.found = "none"
        <5> HIDE DEF pick
        <5>1. QED  BY <3>1, <3>2 DEF Holds
      <4> HIDE DEF g
      <4>2. QED  BY <4>1 DEF g
    <3>4. PICK R : R = IF a.found = "new" THEN c.rows \cup {made} ELSE c.rows
      OBVIOUS
    <3>5. crm' = [rows |-> R, overlap |-> c.overlap, at |-> [c.at EXCEPT ![s] = h]]
      <4>1. crm' = [c EXCEPT !.at = [c.at EXCEPT ![s] = h], !.rows = R]
        BY <1>1, <1>2, <2>2, <3>3, <3>4
      <4>2. QED  BY <1>2, <4>1
    <3>6. Working(c, s)
      BY <1>2, <1>3, <2>1 DEF Copied
    <3>7. made = MadeBy(c, s)
      <4>1. Key(s, a.step) = KeyOf(c, s, a.step)
        BY <1>1 DEF Key, KeyOf, At
      <4>2. Looks(s, a.step) = Seeks(a, a.step)
        BY <1>1, <1>3 DEF Looks, Seeks, At
      <4>3. QED  BY <1>3, <4>1, <4>2 DEF MadeBy
    <3>8. Copied([rows |-> R, overlap |-> c.overlap, at |-> [c.at EXCEPT ![s] = h]])
      BY <1>2, <1>3, <3>3, <3>4, <3>6, <3>7, RowPut
    <3>9. QED  BY <3>5, <3>8
  <2>3. QED  BY <1>6, <2>1, <2>2
<1>8. CASE LacksContact(s)
  <2>1. /\ a.step = 8 /\ a.pick \o <<"none", "none">> \in Seq(Syncs \cup {"none"})
        /\ a.found = "none" /\ a.known \in SUBSET {Company, Contact}
        /\ crm' = [crm EXCEPT !.at[s].step = 10, !.at[s].pick = a.pick \o <<"none", "none">>]
    <3>1. a.pick \in Seq(Syncs \cup {"none"})
      BY DEF Holds
    <3>2. <<"none", "none">> \in Seq(Syncs \cup {"none"})
      OBVIOUS
    <3>3. a.pick \o <<"none", "none">> \in Seq(Syncs \cup {"none"})
      BY <3>1, <3>2
    <3>4. At(s) = a
      BY <1>1, <1>3 DEF At
    <3>5. /\ a.step = 8 /\ a.found = "none" /\ a.known \in SUBSET {Company, Contact}
      BY <1>8, <3>4 DEF LacksContact, Contact, Holds
    <3>6. crm' = [crm EXCEPT !.at[s].step = 10, !.at[s].pick = crm.at[s].pick \o <<"none", "none">>]
      BY <1>2, <1>8 DEF LacksContact
    <3>7. crm.at[s].pick = a.pick
      BY <1>1, <1>3
    <3>8. QED  BY <3>3, <3>5, <3>6, <3>7
  <2>2. PICK h \in Holds : /\ h = [a EXCEPT !.step = 10, !.pick = a.pick \o <<"none", "none">>]
                           /\ h.found = "none"
    <3> DEFINE p == a.pick \o <<"none", "none">>
               g == [a EXCEPT !.step = 10, !.pick = p]
    <3>1. p \in Seq(Syncs \cup {"none"})
      BY <2>1
    <3> HIDE DEF p
    <3>2. g \in Holds /\ g.found = "none"
      BY <2>1, <3>1 DEF Holds
    <3>3. QED  BY <3>2 DEF p
  <2>3. crm' = [rows |-> c.rows, overlap |-> c.overlap, at |-> [c.at EXCEPT ![s] = h]]
    <3>1. crm' = [c EXCEPT !.at = [c.at EXCEPT ![s] = h]]
      BY <1>1, <1>2, <1>3, <2>1, <2>2
    <3>2. QED  BY <1>2, <3>1
  <2>4. Working(c, s)
    BY <1>3, <2>1 DEF Working
  <2>5. Copied([rows |-> c.rows, overlap |-> c.overlap, at |-> [c.at EXCEPT ![s] = h]])
    BY <1>2, <2>2, <2>4, RowPut
  <2>6. QED  BY <2>3, <2>5
<1>9. QED
  BY <1>4, <1>5, <1>6, <1>7, <1>8 DEF SyncFails

-----------------------------------------------------------------------------
(* Accounts: together.                                                       *)

AccountsInv == TenantInv /\ PlanInv /\ Tokens(oauth) /\ Copied(crm)

(* A tenant that is active has earned it; with one subscription whose events came in *)
(* order the plan is in force while it is paid; no token is used twice by one        *)
(* process while no answer is lost; a sync again adds no row that it can look up     *)
(* (provisioning.py, billing_api.py, integrations.py, sync.py).                      *)
THEOREM AccountsStayEarned == AccountsSpec => []AccountsAreEarned
<1>1. AccountsInit => AccountsInv
  <2> SUFFICES ASSUME AccountsInit PROVE AccountsInv
    OBVIOUS
  <2>1. TenantInv
    BY DEF AccountsInit, TenantInv, Tenants, Provisioning, TenantStates, ActiveIsEarned
  <2>2. Copied(crm)
    <3>1. [step |-> 0, found |-> "none", pick |-> <<>>, known |-> {}] \in Holds
      BY DEF Holds
    <3>2. PICK f \in [Syncs -> Holds] :
            f = [s \in Syncs |-> [step |-> 0, found |-> "none", pick |-> <<>>, known |-> {}]]
      BY <3>1
    <3>3. crm = [rows |-> {}, overlap |-> FALSE, at |-> f]
      BY <3>2 DEF AccountsInit
    <3>4. \A s \in Syncs : f[s].step = 0 /\ f[s].found = "none"
      BY <3>2
    <3>5. QED  BY <3>3, <3>4 DEF Copied, Working
  <2>3. Tokens(oauth)
    <3>1. PICK f \in [Senders -> Homes] : f = [s \in Senders |-> AtHome]
      BY DEF AtHome, Homes
    <3>2. PICK u \in [1..MaxTokens -> Processes] : u = [t \in 1..MaxTokens |-> "none"]
      BY DEF Processes
    <3>3. PICK o \in Connections :
            o = [status |-> "none", access |-> FALSE, refresh |-> 0, near |-> FALSE,
                 live |-> {}, issued |-> 0, usedBy |-> u, again |-> FALSE, lost |-> 0, at |-> f]
      BY DEF Connections
    <3>4. oauth = o
      BY <3>1, <3>2, <3>3 DEF AccountsInit
    <3>5. /\ o.refresh = 0 /\ o.live = {} /\ o.issued = 0 /\ ~o.again /\ o.lost = 0
          /\ \A s \in Senders : o.at[s].pc = "idle"
      BY <3>1, <3>3 DEF AtHome
    <3>6. QED  BY <3>4, <3>5, AccountsAssumption DEF Tokens, Bearing, Locked
  <2>4. PlanInv
    <3>1. PICK l \in Seq(Letters) : l = <<>> /\ Len(l) = 0
      <4>1. <<>> \in Seq(Letters) /\ Len(<<>>) = 0
        OBVIOUS
      <4>2. QED  BY <4>1
    <3>2. PICK f \in [Subscriptions -> Subs] : f = [s \in Subscriptions |-> NoSub]
      BY DEF NoSub, Subs, Paid
    <3>3. plan = [limits |-> "free", known |-> "none", seen |-> {}, disorder |-> FALSE,
                  subs |-> f, sent |-> l]
      BY <3>1, <3>2 DEF AccountsInit
    <3>4. plan \in Plans
      BY <3>1, <3>3 DEF Plans
    <3>5. \A s \in Subscriptions : plan.subs[s].state = "none"
      BY <3>2, <3>3 DEF NoSub
    <3>6. Bought = {} /\ IsFiniteSet({})
      BY <3>5, FS_EmptySet DEF Bought
    <3>7. \A s \in Subscriptions : Story(s)
      BY <3>1, <3>3, <3>5 DEF Story
    <3>8. QED  BY <3>4, <3>6, <3>7 DEF PlanInv
  <2>5. QED  BY <2>1, <2>2, <2>3, <2>4 DEF AccountsInv
<1>2. AccountsInv /\ [AccountsNext]_accountVars => AccountsInv'
  <2> SUFFICES ASSUME AccountsInv, [AccountsNext]_accountVars PROVE AccountsInv'
    OBVIOUS
  <2>1. /\ tenant' = tenant => TenantInv'
        /\ plan' = plan => PlanInv'
        /\ oauth' = oauth => Tokens(oauth')
        /\ crm' = crm => Copied(crm')
    <3>1. tenant' = tenant => TenantInv'
      BY DEF AccountsInv, TenantInv, ActiveIsEarned
    <3>2. ASSUME plan' = plan PROVE PlanInv'
      <4>1. Bought' = Bought /\ NoResume' = NoResume
        BY <3>2 DEF Bought, NoResume
      <4>2. \A s \in Subscriptions : Story(s)' <=> Story(s)
        BY <3>2 DEF Story
      <4>3. QED  BY <3>2, <4>1, <4>2 DEF AccountsInv, PlanInv
    <3>3. QED  BY <3>1, <3>2 DEF AccountsInv
  <2>2. CASE ProvisionNext
    BY <2>1, <2>2, TenantKeeps DEF ProvisionNext, AccountsInv
  <2>3. CASE BillingNext
    BY <2>1, <2>3, PlanKeeps DEF BillingNext, AccountsInv
  <2>4. CASE IntegrationNext
    BY <2>1, <2>4, RowKeeps, SenderKeeps DEF IntegrationNext, AccountsInv
  <2>5. CASE SyncNext
    BY <2>1, <2>5, SyncKeeps DEF SyncNext, AccountsInv
  <2>6. CASE UNCHANGED accountVars
    BY <2>1, <2>6 DEF accountVars, AccountsInv
  <2>7. QED  BY <2>2, <2>3, <2>4, <2>5, <2>6 DEF AccountsNext
<1>3. AccountsInv => AccountsAreEarned
  <2> SUFFICES ASSUME AccountsInv PROVE AccountsAreEarned
    OBVIOUS
  <2>1. ActiveIsEarned
    BY DEF AccountsInv, TenantInv
  <2>2. PaidUntilCancelled
    BY PlanIsPaid DEF AccountsInv
  <2>3. RefreshedOnce
    BY DEF AccountsInv, Tokens, Connections, RefreshedOnce
  <2>4. ResyncAddsNothing
    BY DEF AccountsInv, Copied, ResyncAddsNothing
  <2>5. QED  BY <2>1, <2>2, <2>3, <2>4 DEF AccountsAreEarned
<1>4. QED
  BY <1>1, <1>2, <1>3, PTL DEF AccountsSpec

-----------------------------------------------------------------------------
(* Sentinel: outages and alerts.                                             *)

Rounds == {"idle", "maintained", "examining", "examined", "looked", "written"}
RoundFields == {"pc", "report", "n", "out", "seen", "run", "alone"}
IsRound(r) ==
    /\ DOMAIN r = RoundFields /\ r.pc \in Rounds /\ r.alone \in BOOLEAN
    /\ r.n \in 0 .. Len(Stretches) /\ r.out \subseteq Checks
IsAlert(a) == a = [check |-> a.check, by |-> a.by, run |-> a.run, status |-> a.status]

\* The checks a round has read, and what its report must say: it passes over no
\* outage that has lasted, and until another worker writes, what was found is there.
Read(r) == UNION {Stretches[i] : i \in 1 .. r.n}
Sound(r, open) ==
    /\ r.pc \in {"idle", "maintained", "written"} => r.n = 0 /\ r.out = {}
    /\ r.pc = "examining" => r.n < Len(Stretches)
    /\ r.pc \in {"examined", "looked"} => r.n = Len(Stretches)
    /\ \A c \in r.out \cap Read(r) : r.report[c] # "OK"
    /\ r.pc = "looked" /\ r.alone => \A s \in r.seen : s \in open /\ r.report[s.check] # "OK"

WatchInv ==
    /\ DOMAIN watch = Doctors /\ watch = [d \in Doctors |-> watch[d]]
    /\ \A d \in Doctors : /\ IsRound(watch[d]) /\ Sound(watch[d], alerts)
                         /\ watch[d].out \subseteq Outages(platform)
    /\ \A a \in alerts : IsAlert(a)

(* The checks in two stretches after another; all of them after the last.    *)
LEMMA StretchesRead ==
  /\ Len(Stretches) \in Nat \ {0}
  /\ \A r : r.n = 0 => Read(r) = {}
  /\ \A r : r.n = Len(Stretches) => Read(r) = Checks
  /\ \A r, q : r.n \in 0 .. (Len(Stretches) - 1) /\ q.n = r.n + 1
       => Read(q) = Read(r) \cup Stretches[q.n]
<1>1. /\ Len(Stretches) \in Nat \ {0} /\ DOMAIN Stretches = 1 .. Len(Stretches)
      /\ UNION {Stretches[i] : i \in DOMAIN Stretches} = Checks
  BY SentinelAssumption
<1>2. \A r : r.n = 0 => Read(r) = {}
  BY DEF Read
<1>3. \A r : r.n = Len(Stretches) => Read(r) = Checks
  BY <1>1 DEF Read
<1>4. ASSUME NEW r, NEW q, r.n \in 0 .. (Len(Stretches) - 1), q.n = r.n + 1
      PROVE  Read(q) = Read(r) \cup Stretches[q.n]
  <2>1. 1 .. q.n = 1 .. r.n \cup {q.n}
    BY <1>1, <1>4
  <2>2. QED  BY <2>1 DEF Read
<1>5. QED  BY <1>1, <1>2, <1>3, <1>4

(* A check says so when what it looks at is out.                             *)
LEMMA OutagesReported ==
  ASSUME NEW p, NEW open, NEW org, NEW production, NEW c \in Outages(p)
  PROVE  c \in Checks /\ Finding(c, p, open, org, production) # "OK"
<1>1. CASE c = "events.outbox"
  <2>1. \E e \in Pending(p) : p.events[e] = "old"
    BY <1>1 DEF Outages, Pending
  <2>2. Finding(c, p, open, org, production) = OutboxStall(p)
    BY <1>1 DEF Finding
  <2>3. QED  BY <1>1, <2>1, <2>2 DEF OutboxStall, Fail, Checks
<1>2. CASE c = "queue.stuck"
  <2>1. \E j \in InState(p, {"RUNNING"}) : p.jobs[j].lease = "expired"
    BY <1>2 DEF Outages, InState
  <2>2. Finding(c, p, open, org, production) = StuckJobs(p)
    BY <1>2 DEF Finding
  <2>3. QED  BY <1>2, <2>1, <2>2 DEF StuckJobs, Fail, Checks
<1>3. CASE c = "queue.orphaned"
  <2>1. \E j \in InState(p, {"QUEUED"}) : ~p.jobs[j].org
    BY <1>3 DEF Outages, InState
  <2>2. Finding(c, p, open, org, production) = OrphanedJobs(p)
    BY <1>3 DEF Finding
  <2>3. QED  BY <1>3, <2>1, <2>2 DEF OrphanedJobs, Fail, Checks
<1>4. CASE c = "workers.alive"
  <2>1. \A w \in Watchers : p.beats[w] # "fresh"
    BY <1>4 DEF Outages
  <2>2. Finding(c, p, open, org, production) = WorkersAlive(p)
    BY <1>4 DEF Finding
  <2>3. QED  BY <1>4, <2>1, <2>2 DEF WorkersAlive, Fail, Checks
<1>5. CASE c = "providers.health"
  <2>1. p.calls = [ok |-> 0, failed |-> 3]
    BY <1>5 DEF Outages
  <2>2. Finding(c, p, open, org, production) = ProviderHealth(p)
    BY <1>5 DEF Finding
  <2>3. p.calls.failed >= 3 /\ p.calls.ok = 0
    BY <2>1
  <2>4. QED  BY <1>5, <2>2, <2>3 DEF ProviderHealth, Fail, Checks
<1>6. CASE c = "effects.uncertain"
  <2>1. p.effect = "old"
    BY <1>6 DEF Outages
  <2>2. Finding(c, p, open, org, production) = UncertainEffects(p)
    BY <1>6 DEF Finding
  <2>3. QED  BY <1>6, <2>1, <2>2 DEF UncertainEffects, Warn, Checks
<1>7. CASE c = "db.migrations"
  <2>1. p.fault \in {"drifted", "missing"}
    BY <1>7 DEF Outages
  <2>2. Finding(c, p, open, org, production) = Migrations(p)
    BY <1>7 DEF Finding
  <2>3. QED  BY <1>7, <2>1, <2>2 DEF Migrations, Fail, Checks
<1>8. QED  BY <1>1, <1>2, <1>3, <1>4, <1>5, <1>6, <1>7 DEF Outages

(* A round at rest is sound, and one that starts.                            *)
LEMMA RestSound ==
  ASSUME NEW open, NEW r, DOMAIN r = RoundFields, r.pc \in {"idle", "maintained", "written"},
         r.n = 0, r.out = {}, r.alone \in BOOLEAN
  PROVE  IsRound(r) /\ Sound(r, open)
<1>1. IsRound(r)
  <2>1. 0 \in 0 .. Len(Stretches)
    BY StretchesRead
  <2>2. QED  BY <2>1 DEF IsRound, Rounds
<1>2. Sound(r, open)
  BY DEF Sound
<1>3. QED  BY <1>1, <1>2

LEMMA IdleSound ==
  ASSUME NEW open, NEW round, NEW r, r = [Idle EXCEPT !.run = round]
  PROVE  IsRound(r) /\ Sound(r, open) /\ r.pc = "idle" /\ r.out = {}
<1>1. /\ DOMAIN r = RoundFields /\ r.pc = "idle" /\ r.alone = TRUE /\ r.n = 0 /\ r.out = {}
  BY DEF Idle, RoundFields
<1>2. QED  BY <1>1, RestSound

\* A step of d's round that neither ends a report nor writes alerts.
Quiet(d) ==
    /\ ~(watch[d].pc # "examined" /\ watch'[d].pc = "examined")
    /\ ~(watch[d].pc = "looked" /\ watch'[d].pc = "written")

(* What happens on the platform may only end an outage.                      *)
LEMMA LastingKeeps ==
  ASSUME WatchInv, NEW p, NEW d \in Doctors
  PROVE  /\ DOMAIN Lasting(p) = Doctors /\ IsRound(Lasting(p)[d]) /\ Sound(Lasting(p)[d], alerts)
         /\ Lasting(p)[d].pc = watch[d].pc /\ Lasting(p)[d].out \subseteq Outages(p)
<1> DEFINE o == watch[d]
           r == Lasting(p)[d]
<1>1. IsRound(o) /\ Sound(o, alerts)
  BY DEF WatchInv
<1>2. DOMAIN Lasting(p) = Doctors /\ r = [o EXCEPT !.out = @ \cap Outages(p)]
  BY DEF Lasting
<1> HIDE DEF o, r
<1>3. /\ DOMAIN r = RoundFields /\ r.pc = o.pc /\ r.alone = o.alone /\ r.n = o.n
      /\ r.out = o.out \cap Outages(p) /\ r.report = o.report /\ r.seen = o.seen /\ r.run = o.run
  BY <1>1, <1>2 DEF IsRound, RoundFields
<1>4. IsRound(r)
  BY <1>1, <1>3 DEF IsRound
<1>5. Sound(r, alerts)
  BY <1>1, <1>3 DEF Sound, Read
<1>6. QED  BY <1>2, <1>3, <1>4, <1>5 DEF o, r

LEMMA PlatformMoves ==
  ASSUME WatchInv, alerts' = alerts, watch' = Lasting(platform')
  PROVE  WatchInv' /\ \A d \in Doctors : Quiet(d)
<1>1. /\ DOMAIN watch' = Doctors /\ watch' = [d \in Doctors |-> watch'[d]]
  BY DEF Lasting
<1>2. \A d \in Doctors : IsRound(watch'[d]) /\ Sound(watch'[d], alerts') /\ watch'[d].pc = watch[d].pc
                         /\ watch'[d].out \subseteq Outages(platform')
  BY LastingKeeps
<1>3. QED  BY <1>1, <1>2 DEF WatchInv, Quiet

(* A round goes on to r, and no alert is written.                            *)
LEMMA RoundMoves ==
  ASSUME WatchInv, alerts' = alerts, NEW d \in Doctors, NEW r, IsRound(r), Sound(r, alerts),
         r.out \subseteq Outages(platform'),
         \/ watch' = [watch EXCEPT ![d] = r] /\ platform' = platform
         \/ watch' = [Lasting(platform') EXCEPT ![d] = r]
  PROVE  /\ WatchInv' /\ watch'[d] = r
         /\ \A v \in Doctors : v # d => Quiet(v)
<1>1. /\ DOMAIN watch' = Doctors /\ watch' = [v \in Doctors |-> watch'[v]] /\ watch'[d] = r
      /\ \A v \in Doctors \ {d} : /\ IsRound(watch'[v]) /\ Sound(watch'[v], alerts')
                                  /\ watch'[v].out \subseteq Outages(platform')
                                  /\ watch'[v].pc = watch[v].pc
  <2>1. CASE watch' = [watch EXCEPT ![d] = r] /\ platform' = platform
    <3>1. /\ DOMAIN watch' = Doctors /\ watch'[d] = r
          /\ watch' = [v \in Doctors |-> watch'[v]]
          /\ \A v \in Doctors \ {d} : watch'[v] = watch[v]
      BY <2>1 DEF WatchInv
    <3>2. QED  BY <2>1, <3>1 DEF WatchInv
  <2>2. CASE watch' = [Lasting(platform') EXCEPT ![d] = r]
    <3>1. DOMAIN Lasting(platform') = Doctors
      BY DEF Lasting
    <3>2. /\ DOMAIN watch' = Doctors /\ watch'[d] = r
          /\ watch' = [v \in Doctors |-> watch'[v]]
          /\ \A v \in Doctors \ {d} : watch'[v] = Lasting(platform')[v]
      BY <2>2, <3>1
    <3>3. QED  BY <3>2, LastingKeeps
  <2>3. QED  BY <2>1, <2>2
<1>2. QED  BY <1>1 DEF WatchInv, Quiet

(* The start of a round and its end.                                         *)
LEMMA RoundStarts ==
  ASSUME WatchInv, NEW d \in Doctors, Ask(d) \/ Maintain(d)
  PROVE  WatchInv' /\ \A v \in Doctors : Quiet(v)
<1>1. watch[d].pc = "idle" /\ alerts' = alerts
  BY DEF Ask, Maintain
<1>2. ASSUME NEW o, IsRound(o), Sound(o, alerts), o.pc = "idle", NEW r,
             r = [o EXCEPT !.pc = "maintained", !.run = @ + 1]
      PROVE  IsRound(r) /\ Sound(r, alerts) /\ r.pc = "maintained" /\ r.out = {}
  <2>1. /\ DOMAIN r = RoundFields /\ r.pc = "maintained" /\ r.alone = o.alone /\ r.n = o.n
        /\ r.out = o.out /\ o.n = 0 /\ o.out = {} /\ o.alone \in BOOLEAN
    BY <1>2 DEF IsRound, RoundFields, Sound
  <2>2. QED  BY <2>1, RestSound
<1>3. CASE Ask(d)
  <2>1. PICK r : r = [watch[d] EXCEPT !.pc = "maintained", !.run = @ + 1]
    OBVIOUS
  <2>2. /\ watch' = [watch EXCEPT ![d].pc = "maintained", ![d].run = @ + 1]
        /\ platform' = platform
    BY <1>3, Zenon DEF Ask
  <2>3. watch' = [watch EXCEPT ![d] = r]
    BY <2>1, <2>2 DEF WatchInv
  <2>4. IsRound(r) /\ Sound(r, alerts) /\ r.pc = "maintained" /\ r.out = {}
    BY <1>1, <1>2, <2>1 DEF WatchInv
  <2>5. QED  BY <1>1, <2>2, <2>3, <2>4, RoundMoves DEF Quiet
<1>4. CASE Maintain(d)
  <2>1. watch' = [Lasting(platform') EXCEPT ![d].pc = "maintained", ![d].run = @ + 1]
    BY <1>4 DEF Maintain
  <2>2. PICK L : L = Lasting(platform') /\ DOMAIN L = Doctors
    <3>1. DOMAIN Lasting(platform') = Doctors
      BY DEF Lasting
    <3>2. QED  BY <3>1
  <2>3. IsRound(L[d]) /\ Sound(L[d], alerts) /\ L[d].pc = "idle"
    <3>1. /\ IsRound(Lasting(platform')[d]) /\ Sound(Lasting(platform')[d], alerts)
          /\ Lasting(platform')[d].pc = watch[d].pc
      BY LastingKeeps
    <3>2. QED  BY <1>1, <2>2, <3>1
  <2>4. PICK r : r = [L[d] EXCEPT !.pc = "maintained", !.run = @ + 1]
    OBVIOUS
  <2>5. watch' = [L EXCEPT ![d] = r]
    BY <2>1, <2>2, <2>4
  <2>6. IsRound(r) /\ Sound(r, alerts) /\ r.pc = "maintained" /\ r.out = {}
    BY <1>2, <2>3, <2>4
  <2>7. QED  BY <1>1, <2>2, <2>5, <2>6, RoundMoves DEF Quiet
<1>5. QED  BY <1>3, <1>4

LEMMA RoundEnds ==
  ASSUME WatchInv, NEW d \in Doctors, Beat(d) \/ Answer(d) \/ DoctorDies(d)
  PROVE  WatchInv' /\ \A v \in Doctors : Quiet(v)
<1>1. PICK r : r = [Idle EXCEPT !.run = watch[d].run]
  OBVIOUS
<1>2. IsRound(r) /\ Sound(r, alerts) /\ r.pc = "idle" /\ r.out = {}
  BY <1>1, IdleSound
<1>3. /\ alerts' = alerts
      /\ \/ watch' = [watch EXCEPT ![d] = r] /\ platform' = platform
         \/ watch' = [Lasting(platform') EXCEPT ![d] = r]
  <2>1. CASE Beat(d)
    BY <1>1, <2>1, Zenon DEF Beat
  <2>2. CASE Answer(d) \/ DoctorDies(d)
    BY <1>1, <2>2, Zenon DEF Answer, DoctorDies
  <2>3. QED  BY <2>1, <2>2
<1>4. QED  BY <1>2, <1>3, RoundMoves DEF Quiet

(* A stretch is read; with the last of them the report is complete.          *)
LEMMA Examined ==
  ASSUME WatchInv, NEW d \in Doctors, Examine(d)
  PROVE  /\ WatchInv' /\ \A v \in Doctors : v = d \/ Quiet(v)
         /\ watch[d].pc # "looked"
         /\ watch'[d].pc = "examined" => \A c \in watch'[d].out : watch'[d].report[c] # "OK"
<1> DEFINE o == watch[d]
           n == o.n + 1
           pc == IF n = Len(Stretches) THEN "examined" ELSE "examining"
           out == IF n = 1 THEN Outages(platform) ELSE o.out
<1>1. IsRound(o) /\ Sound(o, alerts) /\ o.out \subseteq Outages(platform)
  BY DEF WatchInv
<1>2. o.pc \in {"maintained", "examining"} /\ alerts' = alerts /\ platform' = platform
  BY DEF Examine
<1>3. PICK production \in BOOLEAN, boom \in {{}} \cup {{c} : c \in Crashable} :
        watch' = [watch EXCEPT ![d].pc = pc, ![d].n = n, ![d].out = out,
            ![d].report = Report(o.report, Stretches[n], platform, alerts, d \in Readers,
                                 production, boom)]
  BY Zenon DEF Examine
<1>4. PICK R : R = Report(o.report, Stretches[n], platform, alerts, d \in Readers, production, boom)
  OBVIOUS
<1>5. PICK r : r = [o EXCEPT !.pc = pc, !.n = n, !.out = out, !.report = R]
  OBVIOUS
<1>6. watch' = [watch EXCEPT ![d] = r] /\ alerts' = alerts
  <2>1. watch' = [watch EXCEPT ![d].pc = pc, ![d].n = n, ![d].out = out, ![d].report = R]
    BY <1>3, <1>4, Zenon
  <2> HIDE DEF pc, n, out
  <2>2. [watch EXCEPT ![d].pc = pc, ![d].n = n, ![d].out = out, ![d].report = R]
          = [watch EXCEPT ![d] = r]
    BY <1>5 DEF WatchInv
  <2>3. QED  BY <1>2, <2>1, <2>2, Zenon
<1>7. /\ DOMAIN r = RoundFields /\ r.pc = pc /\ r.alone = o.alone /\ r.n = n
      /\ r.out = out /\ r.report = R
  BY <1>1, <1>5 DEF IsRound, RoundFields
<1>8. o.n \in 0 .. (Len(Stretches) - 1) /\ n \in 1 .. Len(Stretches)
  BY <1>1, <1>2, StretchesRead DEF IsRound, Sound
<1>9. \A c \in Outages(platform) : c \in Checks
  BY OutagesReported, Zenon
<1>10. Read(r) = Read(o) \cup Stretches[n] /\ (n = 1 => Read(o) = {})
  <2>1. r.n = o.n + 1
    BY <1>7
  <2>2. Read(r) = Read(o) \cup Stretches[r.n]
    BY <1>8, <2>1, StretchesRead
  <2>3. n = 1 => o.n = 0
    BY <1>8
  <2>4. QED  BY <2>1, <2>2, <2>3, StretchesRead
<1>11. IsRound(r)
  BY <1>1, <1>7, <1>8, <1>9 DEF IsRound, Rounds
<1>12. \A c \in r.out \cap Read(r) : R[c] # "OK"
  <2>1. ASSUME NEW c \in r.out \cap Read(r), c \in Stretches[n]
        PROVE  R[c] # "OK"
    <3>1. c \in Checks
      BY <1>11, <2>1 DEF IsRound
    <3>2. R[c] = IF c \in boom THEN "FAIL"
                 ELSE Finding(c, platform, alerts, d \in Readers, production)
      BY <1>4, <2>1, <3>1 DEF Report
    <3>3. c \in Outages(platform)
      BY <1>1, <1>7, <2>1
    <3>4. QED  BY <3>2, <3>3, OutagesReported
  <2>2. ASSUME NEW c \in r.out \cap Read(r), c \notin Stretches[n]
        PROVE  R[c] # "OK"
    <3>1. c \in Checks /\ c \in Read(o) /\ c \in o.out
      BY <1>7, <1>10, <1>11, <2>2 DEF IsRound
    <3>2. R[c] = o.report[c]
      BY <1>4, <2>2, <3>1 DEF Report
    <3>3. QED  BY <1>1, <3>1, <3>2 DEF Sound
  <2>3. QED  BY <2>1, <2>2
<1>13. Sound(r, alerts)
  BY <1>7, <1>8, <1>12 DEF Sound
<1>14. WatchInv' /\ watch'[d] = r /\ \A v \in Doctors : v = d \/ Quiet(v)
  <2>1. r.out \subseteq Outages(platform)
    BY <1>1, <1>7
  <2>2. QED  BY <1>2, <1>6, <1>11, <1>13, <2>1, RoundMoves
<1>15. r.pc = "examined" => \A c \in r.out : r.report[c] # "OK"
  <2>1. r.pc = "examined" => Read(r) = Checks
    BY <1>7, <1>8, StretchesRead
  <2>2. QED  BY <1>7, <1>11, <1>12, <2>1 DEF IsRound
<1>16. QED  BY <1>2, <1>14, <1>15

(* Open rows are looked up for what is not OK.                               *)
LEMMA LooksUp ==
  ASSUME WatchInv, NEW d \in Doctors, LookUp(d)
  PROVE  WatchInv' /\ \A v \in Doctors : Quiet(v)
<1>1. IsRound(watch[d]) /\ Sound(watch[d], alerts) /\ watch[d].out \subseteq Outages(platform)
  BY DEF WatchInv
<1>2. watch[d].pc = "examined" /\ alerts' = alerts /\ platform' = platform
  BY DEF LookUp
<1>3. PICK seen \in SUBSET {a \in alerts : watch[d].report[a.check] # "OK"} :
        watch' = [watch EXCEPT ![d].pc = "looked", ![d].alone = TRUE, ![d].seen = seen]
  BY DEF LookUp
<1>4. PICK r : r = [watch[d] EXCEPT !.pc = "looked", !.alone = TRUE, !.seen = seen]
  OBVIOUS
<1>5. watch' = [watch EXCEPT ![d] = r]
  BY <1>3, <1>4 DEF WatchInv
<1>6. /\ DOMAIN r = RoundFields /\ r.pc = "looked" /\ r.alone = TRUE /\ r.n = watch[d].n
      /\ r.out = watch[d].out /\ r.seen = seen /\ r.report = watch[d].report
  BY <1>1, <1>4 DEF IsRound, RoundFields
<1>7. IsRound(r)
  BY <1>1, <1>6 DEF IsRound, Rounds
<1>8. Sound(r, alerts)
  BY <1>1, <1>2, <1>3, <1>6 DEF Sound, Read
<1>9. QED  BY <1>1, <1>2, <1>5, <1>6, <1>7, <1>8, RoundMoves DEF Quiet

(* What a worker writes when none wrote between.                             *)
LEMMA AlertsWritten ==
  ASSUME WatchInv, NEW w \in Doctors, WriteAlerts(w)
  PROVE  /\ WatchInv'
         /\ \A v \in Doctors : Quiet(v) \/ v = w
         /\ ~(watch[w].pc # "examined" /\ watch'[w].pc = "examined")
         /\ \A c \in watch[w].out : watch[w].report[c] # "OK" /\ c \in Checks
         /\ watch[w].alone =>
              \A c \in Checks :
                 IF watch[w].report[c] = "OK" THEN \A a \in alerts' : a.check # c
                 ELSE \E a \in alerts' : a.check = c /\ a.status = watch[w].report[c]
<1> DEFINE Told(a) == \E s \in watch[w].seen : SameRow(s, a)
           Row(a) == IF Told(a) THEN [a EXCEPT !.status = watch[w].report[a.check]] ELSE a
<1>1. watch[w].pc = "looked" /\ alerts' = Opened(w) \cup {Row(a) : a \in Settled(w)}
  BY DEF WriteAlerts
<1>2. ASSUME NEW a \in Settled(w)
      PROVE  /\ IsAlert(Row(a)) /\ Row(a).check = a.check /\ watch[w].report[a.check] # "OK"
             /\ Told(a) => Row(a).status = watch[w].report[a.check]
  <2>1. IsAlert(a) /\ watch[w].report[a.check] # "OK"
    BY DEF Settled, WatchInv
  <2> HIDE DEF Told
  <2>2. QED  BY <2>1 DEF IsAlert
<1>3. ASSUME NEW a \in Opened(w)
      PROVE  IsAlert(a) /\ watch[w].report[a.check] # "OK"
  BY DEF Opened, IsAlert
<1> HIDE DEF Told, Row
<1>4. \A a \in alerts' : IsAlert(a) /\ watch[w].report[a.check] # "OK"
  BY <1>1, <1>2, <1>3
<1>5. ASSUME watch[w].alone, NEW c \in Checks, watch[w].report[c] # "OK"
      PROVE  \E a \in alerts' : a.check = c /\ a.status = watch[w].report[c]
  <2>1. CASE \E s \in watch[w].seen : s.check = c
    <3>1. PICK s \in watch[w].seen : s.check = c
      BY <2>1
    <3>2. s \in alerts /\ watch[w].report[s.check] # "OK"
      BY <1>1, <1>5, <3>1 DEF WatchInv, Sound
    <3>3. s \in Settled(w) /\ Told(s)
      BY <3>1, <3>2 DEF Settled, Told, SameRow
    <3>4. QED  BY <1>1, <1>2, <3>1, <3>3
  <2>2. CASE \A s \in watch[w].seen : s.check # c
    <3>1. PICK a : a = [check |-> c, by |-> w, run |-> watch[w].run, status |-> watch[w].report[c]]
      OBVIOUS
    <3>2. a \in Opened(w) /\ a.check = c /\ a.status = watch[w].report[c]
      BY <1>5, <2>2, <3>1 DEF Opened
    <3>3. QED  BY <1>1, <3>2
  <2>3. QED  BY <2>1, <2>2
<1>6. \A c \in watch[w].out : watch[w].report[c] # "OK" /\ c \in Checks
  <2>1. IsRound(watch[w]) /\ Sound(watch[w], alerts)
    BY DEF WatchInv
  <2>2. Read(watch[w]) = Checks
    BY <1>1, <2>1, StretchesRead DEF Sound
  <2>3. QED  BY <2>1, <2>2 DEF Sound, IsRound
<1>7. /\ DOMAIN watch' = Doctors /\ watch' = [v \in Doctors |-> watch'[v]] /\ platform' = platform
      /\ watch'[w] = [Idle EXCEPT !.pc = "written", !.run = watch[w].run]
      /\ \A v \in Doctors \ {w} : watch'[v] = [watch[v] EXCEPT !.alone = FALSE]
  BY DEF WriteAlerts
<1>8. /\ IsRound(watch'[w]) /\ Sound(watch'[w], alerts') /\ watch'[w].pc = "written"
      /\ watch'[w].out = {}
  <2>1. PICK r : r = watch'[w]
    OBVIOUS
  <2>2. /\ DOMAIN r = RoundFields /\ r.pc = "written" /\ r.n = 0 /\ r.out = {} /\ r.alone = TRUE
    BY <1>7, <2>1 DEF Idle, RoundFields
  <2>3. QED  BY <2>1, <2>2, RestSound
<1>9. ASSUME NEW v \in Doctors \ {w}
      PROVE  /\ IsRound(watch'[v]) /\ Sound(watch'[v], alerts') /\ watch'[v].pc = watch[v].pc
             /\ watch'[v].out = watch[v].out
  <2>1. PICK o, q : o = watch[v] /\ q = watch'[v] /\ IsRound(o) /\ Sound(o, alerts)
    BY DEF WatchInv
  <2>2. q = [o EXCEPT !.alone = FALSE]
    BY <1>7, <2>1
  <2>3. /\ DOMAIN q = RoundFields /\ q.pc = o.pc /\ q.alone = FALSE /\ q.n = o.n
        /\ q.out = o.out /\ q.report = o.report
    BY <2>1, <2>2 DEF IsRound, RoundFields
  <2>4. IsRound(q)
    BY <2>1, <2>3 DEF IsRound
  <2>5. Sound(q, alerts')
    BY <2>1, <2>3 DEF Sound, Read
  <2>6. QED  BY <2>1, <2>3, <2>4, <2>5
<1>10. WatchInv'
  <2>1. \A v \in Doctors : /\ IsRound(watch'[v]) /\ Sound(watch'[v], alerts')
                           /\ watch'[v].out \subseteq Outages(platform)
    BY <1>8, <1>9 DEF WatchInv
  <2>2. QED  BY <1>4, <1>7, <2>1 DEF WatchInv
<1>11. \A v \in Doctors : Quiet(v) \/ v = w
  BY <1>9 DEF Quiet
<1>12. QED
  BY <1>1, <1>4, <1>5, <1>6, <1>8, <1>10, <1>11

\* What OutagesReachAlerts says of a step.
AlertsFollow ==
    \A d \in Doctors :
      /\ (watch[d].pc # "examined" /\ watch'[d].pc = "examined") =>
           \A c \in watch'[d].out : watch'[d].report[c] # "OK"
      /\ (watch[d].pc = "looked" /\ watch'[d].pc = "written" /\ watch[d].alone) =>
           /\ \A c \in watch[d].out : \E a \in alerts' : a.check = c
           /\ \A c \in Checks :
                IF watch[d].report[c] = "OK" THEN \A a \in alerts' : a.check # c
                ELSE \E a \in alerts' : a.check = c /\ a.status = watch[d].report[c]

(* A report passes over no outage that lasts while it is read, and a worker that   *)
(* writes alone leaves the alerts of its report (application/doctor/doctor.py,     *)
(* infrastructure/doctor/registry.py), however the checks are cut into stretches.  *)
THEOREM OutagesAreAlerted == SentinelSpec => OutagesReachAlerts
<1>1. SentinelInit => WatchInv
  <2> SUFFICES ASSUME SentinelInit PROVE WatchInv
    OBVIOUS
  <2>1. /\ DOMAIN watch = Doctors /\ watch = [d \in Doctors |-> watch[d]]
        /\ \A d \in Doctors : watch[d] = Idle
    BY DEF SentinelInit
  <2>2. IsRound(Idle) /\ Sound(Idle, alerts) /\ Idle.out = {}
    <3>1. /\ DOMAIN Idle = RoundFields /\ Idle.pc = "idle" /\ Idle.alone = TRUE
          /\ Idle.n = 0 /\ Idle.out = {}
      BY DEF Idle, RoundFields
    <3>2. QED  BY <3>1, RestSound
  <2>3. QED  BY <2>1, <2>2 DEF SentinelInit, WatchInv
<1>2. WatchInv /\ [SentinelNext]_sentinelVars => WatchInv' /\ AlertsFollow
  <2> SUFFICES ASSUME WatchInv, [SentinelNext]_sentinelVars PROVE WatchInv' /\ AlertsFollow
    OBVIOUS
  <2>1. ASSUME WatchInv', \A d \in Doctors : Quiet(d)
        PROVE  WatchInv' /\ AlertsFollow
    BY <2>1 DEF AlertsFollow, Quiet
  <2>2. CASE UNCHANGED sentinelVars
    <3>1. WatchInv'
      BY <2>2 DEF WatchInv, sentinelVars, IsRound, Sound, Read
    <3>2. QED  BY <2>1, <2>2, <3>1 DEF Quiet, sentinelVars
  <2>3. CASE PlatformNext
    <3>1. watch' = Lasting(platform') /\ alerts' = alerts
      BY <2>3 DEF PlatformNext, Enqueue, Claim, DeleteOrg, Finish, EmitEvent, BuryEvent,
            LoseAnswer, CallProvider, LeakDisplay, VerifyEmail, Deploy, Tick, Change
    <3>2. QED  BY <2>1, <3>1, PlatformMoves
  <2>4. ASSUME NEW d \in Doctors, Ask(d) \/ Maintain(d) \/ LookUp(d) \/ Beat(d) \/ Answer(d) \/ DoctorDies(d)
        PROVE  WatchInv' /\ AlertsFollow
    BY <2>1, <2>4, RoundStarts, RoundEnds, LooksUp
  <2>5. ASSUME NEW d \in Doctors, Examine(d)
        PROVE  WatchInv' /\ AlertsFollow
    BY <2>5, Examined DEF AlertsFollow, Quiet
  <2>6. ASSUME NEW w \in Doctors, WriteAlerts(w)
        PROVE  WatchInv' /\ AlertsFollow
    <3>1. \A v \in Doctors : Quiet(v) \/ v = w
      BY <2>6, AlertsWritten
    <3>2. QED  BY <2>6, <3>1, AlertsWritten DEF AlertsFollow, Quiet
  <2>7. QED
    BY <2>2, <2>3, <2>4, <2>5, <2>6 DEF SentinelNext, RoundNext, RequestNext, Doctors
<1>3. AlertsFollow =>
        (\A d \in Doctors :
      /\ (watch[d].pc # "examined" /\ watch'[d].pc = "examined") =>
           \A c \in watch'[d].out : watch'[d].report[c] # "OK"
      /\ (watch[d].pc = "looked" /\ watch'[d].pc = "written" /\ watch[d].alone) =>
           /\ \A c \in watch[d].out : \E a \in alerts' : a.check = c
           /\ \A c \in Checks :
                IF watch[d].report[c] = "OK" THEN \A a \in alerts' : a.check # c
                ELSE \E a \in alerts' : a.check = c /\ a.status = watch[d].report[c])
  BY DEF AlertsFollow
<1>4. QED
  BY <1>1, <1>2, <1>3, PTL DEF SentinelSpec, OutagesReachAlerts

=============================================================================
