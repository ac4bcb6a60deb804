-------------------------- MODULE ManusStageProofs --------------------------
(***************************************************************************)
(* Theorems about ManusStage: for every list of cities, every pool of keys  *)
(* and every number of workers, no city is paid for more often than the job *)
(* has attempts, but for the creations whose answer was lost, the stage is  *)
(* left for enrichment only when every city was researched, and no task's   *)
(* credits are booked twice.                                                *)
(*                                                                          *)
(* Why a city is not paid for without bound: an attempt that is given back  *)
(* (Park) has its purchases in the checkpoint, and every other attempt that *)
(* could still buy is one the row has counted.  Tally is that balance.      *)
(*                                                                          *)
(* Why no key is overcharged: what a checkpoint has booked on a key was     *)
(* used by tasks that it no longer holds (Honest), which is so of every     *)
(* checkpoint alone, saved or in the memory of a lost attempt.              *)
(***************************************************************************)
EXTENDS ManusStage, SumTheorems, SequenceTheorems, TLAPS

Covers(c) == c.submitted \union ToSet(c.unsubmitted) = Cities

\* What a checkpoint says of the cities, in the row or in memory.
CityBook(c) ==
  /\ c.submitted \subseteq {t.city : t \in bought}
  /\ c.submitted \intersect ToSet(c.unsubmitted) = {}
  /\ IsInjective(c.unsubmitted)
  /\ c.phase = "PLANNING" => c.submitted = {} /\ c.unsubmitted = <<>>
  /\ c.phase = "MANUS" => Covers(c) \/ (c.submitted = {} /\ c.unsubmitted = <<>>)
  /\ c.phase = "ENRICHING" => c.tasks = <<>> /\ c.submitted = Cities

Passing == {"poll", "ingest", "savecompanies", "decide", "park", "cancel",
            "finishcancel", "cancelled", "saveenrich"}

\* A worker at l can hold checkpoint c.
Fits(c, l) ==
  /\ l = "plan" => c.phase = "PLANNING"
  /\ l \in {"submit", "raise"} \union Passing => c.phase = "MANUS" /\ Covers(c)
  /\ l = "saveenrich" => Finished(c)
  /\ l = "rest" => c.phase = "ENRICHING"

BookInv ==
  /\ CityBook(saved)
  /\ \A w \in Workers : CityBook(ck[w]) /\ Fits(ck[w], at[w])

\* The attempt that holds the lease runs.
Active == owner \in Workers /\ at[owner] # "idle"

RowBook ==
  /\ state = "ACTIVE" <=> owner # NoWorker
  /\ owner # NoWorker => attempts > 0
  /\ Active => /\ saved.submitted \subseteq ck[owner].submitted
               /\ at[owner] \in Passing => saved.submitted = ck[owner].submitted

\* Workers whose attempt is lost and that may still pay for c.
Zombies(c) ==
  {w \in Workers : /\ at[w] # "idle" /\ ~(Active /\ w = owner)
                   /\ c \notin ck[w].submitted}

\* The cities the next attempt will find submitted.
Known == IF Active THEN ck[owner].submitted ELSE saved.submitted

\* The attempts that are over.
Spent == IF Active THEN attempts - 1 ELSE attempts

One(b) == IF b THEN 1 ELSE 0

Tally ==
  \A c \in Cities :
    /\ Paid(c) + Cardinality(Zombies(c)) <= Spent + One(c \in Known)
    /\ Paid(c) + Cardinality(Zombies(c)) <= MaxAttempts

StageInv ==
  /\ StageTypeOK
  /\ IsFiniteSet(bought)
  /\ BookInv
  /\ RowBook
  /\ Tally

Price == [t \in Tasks |-> Credits[t.city]]

\* The tasks of b on key k that checkpoint c has done with.
Settled(c, b, k) == {t \in b : t.key = k /\ t \notin ToSet(c.tasks)}

\* A checkpoint has booked no more than those tasks used.
Honest(c, b) ==
  /\ IsInjective(c.tasks) /\ ToSet(c.tasks) \subseteq b
  /\ \A k \in Keys :
       c.balance[k] > 0 => Balance <= c.balance[k] + Total(Price, Settled(c, b, k))

\* No two tasks are the same, a poll meets each task of its checkpoint once, and
\* the checkpoints are honest.
CreditInv ==
  /\ \A t \in bought : t.n <= Paid(t.city)
  /\ Honest(saved, bought)
  /\ \A w \in Workers :
       /\ Honest(ck[w], bought)
       /\ at[w] = "poll" => IsInjective(todo[w]) /\ ToSet(todo[w]) \subseteq ToSet(ck[w].tasks)

-----------------------------------------------------------------------------
(* The operators of the engine.                                              *)

USE ManusAssumption

(* A finite set of keys has one with the most of anything counted in integers. *)
LEMMA Greatest ==
  ASSUME NEW ks, IsFiniteSet(ks), ks # {}, NEW f, \A k \in ks : f[k] \in Int
  PROVE  \E k \in ks : \A l \in ks : f[l] <= f[k]
<1> DEFINE Above(k) == {l \in ks : f[l] > f[k]}
           F == {Above(k) : k \in ks}
<1>1. F \subseteq FiniteSubsetsOf(ks)
  <2>1. \A k \in ks : Above(k) \in SUBSET ks
    OBVIOUS
  <2>2. \A k \in ks : Above(k) \subseteq ks /\ IsFiniteSet(Above(k))
    BY <2>1, FS_Subset
  <2>3. QED  BY <2>2 DEF FiniteSubsetsOf
<1>2. PICK x \in F : \A y \in F : ~(y \subseteq x /\ y # x)
  <2>1. F # {}
    <3>1. PICK k \in ks : TRUE
      OBVIOUS
    <3>2. Above(k) \in F
      BY <3>1
    <3>3. QED  BY <3>2
  <2> HIDE DEF F
  <2>2. QED  BY <1>1, <2>1, MinimalSet
<1>3. PICK k \in ks : x = Above(k)
  OBVIOUS
<1>4. ASSUME NEW l \in ks, ~(f[l] <= f[k])
      PROVE  FALSE
  <2>1. f[l] > f[k] /\ \A m \in ks : f[m] > f[l] => f[m] > f[k]
    BY <1>4
  <2>2. Above(l) \subseteq x /\ l \in x /\ l \notin Above(l)
    BY <1>3, <1>4, <2>1
  <2>3. Above(l) \in F /\ Above(l) # x
    BY <2>2
  <2>4. QED  BY <1>2, <2>2, <2>3
<1>5. QED
  BY <1>4

(* Min of a nonempty set of naturals is one of them.                         *)
LEMMA MinMember ==
  ASSUME NEW S, S \subseteq Nat, S # {}
  PROVE  Min(S) \in S
<1> PICK n \in S : TRUE
  OBVIOUS
<1> DEFINE B == {m \in S : m <= n}
           f == [m \in Nat |-> 0 - m]
<1>1. IsFiniteSet(B)
  BY FS_BoundedSetOfNaturals
<1>2. PICK m \in B : \A l \in B : f[l] <= f[m]
  <2>1. B # {} /\ \A l \in B : f[l] \in Int
    OBVIOUS
  <2> HIDE DEF B, f
  <2>2. QED  BY <1>1, <2>1, Greatest
<1>3. \A l \in S : m <= l
  <2>1. ASSUME NEW l \in B
        PROVE  m <= l
    <3>1. f[l] = 0 - l /\ f[m] = 0 - m /\ l \in Nat /\ m \in Nat
      OBVIOUS
    <3> HIDE DEF f, B
    <3>2. QED  BY <1>2, <3>1
  <2>2. m \in S /\ m \in Nat /\ n \in Nat /\ m <= n
    OBVIOUS
  <2>3. QED  BY <2>1, <2>2
<1>4. QED
  BY <1>3 DEF Min

(* The pool is finite, and a key is its position in it.                      *)
LEMMA KeysFinite == IsFiniteSet(Keys) /\ Keys \subseteq Nat
<1>1. NumKeys \in Nat /\ NumKeys \in Int /\ 1 \in Int
  OBVIOUS
<1>2. IsFiniteSet(1 .. NumKeys)
  BY <1>1, FS_Interval
<1>3. QED
  BY <1>1, <1>2 DEF Keys

(* The credit of a key is an integer.                                        *)
LEMMA AvailableType ==
  ASSUME NEW c \in Checkpoints, NEW k \in Keys
  PROVE  Available(c, k) \in Int
<1> DEFINE held == {i \in DOMAIN c.tasks : c.tasks[i].key = k}
<1>1. c.tasks \in Seq(Tasks) /\ c.balance[k] \in Nat /\ Estimate \in Nat
  BY DEF Checkpoints
<1>2. Len(c.tasks) \in Nat /\ DOMAIN c.tasks = 1 .. Len(c.tasks)
  BY <1>1, LenProperties
<1>3. IsFiniteSet(held)
  <2>1. held \in SUBSET (1 .. Len(c.tasks))
    BY <1>2
  <2>2. IsFiniteSet(1 .. Len(c.tasks))
    <3>1. 1 \in Int /\ Len(c.tasks) \in Int
      BY <1>2
    <3>2. QED  BY <3>1, FS_Interval
  <2> HIDE DEF held
  <2>3. QED  BY <2>1, <2>2, FS_Subset
<1>4. Cardinality(held) \in Nat
  BY <1>3, FS_CardinalityType
<1> HIDE DEF held
<1>5. c.balance[k] - Estimate * Cardinality(held) \in Int
  BY <1>1, <1>4
<1>6. QED
  BY <1>5 DEF Available, held

(* _reserve takes one of the keys it was given.                              *)
LEMMA BestMember ==
  ASSUME NEW c \in Checkpoints, NEW ks \in SUBSET Keys, ks # {}
  PROVE  Best(c, ks) \in ks
<1> DEFINE f == [k \in Keys |-> Available(c, k)]
           top == {k \in ks : \A l \in ks : Available(c, l) <= Available(c, k)}
<1>1. IsFiniteSet(ks)
  BY KeysFinite, FS_Subset
<1>2. \A k \in ks : f[k] = Available(c, k) /\ f[k] \in Int
  BY AvailableType
<1> HIDE DEF f
<1>3. PICK k \in ks : \A l \in ks : f[l] <= f[k]
  BY <1>1, <1>2, Greatest
<1>4. top # {}
  BY <1>2, <1>3
<1>5. top \subseteq Nat
  BY KeysFinite
<1>6. Min(top) \in top
  <2> HIDE DEF top
  <2> QED  BY <1>4, <1>5, MinMember
<1>7. QED
  BY <1>6 DEF Best

(* What is left of a sequence without the first occurrence of an element is  *)
(* a sequence of its elements.                                               *)
LEMMA RemoveFirstType ==
  ASSUME NEW S, NEW s \in Seq(S), NEW e
  PROVE  RemoveFirst(s, e) \in Seq(S)
<1> DEFINE I == {i \in 1 .. Len(s) : s[i] = e}
<1>1. Len(s) \in Nat
  BY LenProperties
<1>2. CASE I # {}
  <2>1. Min(I) \in I
    <3>1. I \subseteq Nat
      BY <1>1
    <3> HIDE DEF I
    <3>2. QED  BY <1>2, <3>1, MinMember
  <2>2. PICK m \in 1 .. Len(s) : m = Min(I)
    BY <2>1
  <2>3. RemoveFirst(s, e) = SubSeq(s, 1, m - 1) \o SubSeq(s, m + 1, Len(s))
    BY <1>2, <2>2 DEF RemoveFirst, RemoveAt, SelectInSeq
  <2>4. SubSeq(s, 1, m - 1) \in Seq(S) /\ SubSeq(s, m + 1, Len(s)) \in Seq(S)
    BY <1>1, SubSeqProperties
  <2>5. QED
    BY <2>3, <2>4, ConcatProperties
<1>3. CASE I = {}
  BY <1>3 DEF RemoveFirst
<1>4. QED
  BY <1>2, <1>3

(* A nonempty sequence without repetitions is its head and a tail without it. *)
LEMMA HeadAndTail ==
  ASSUME NEW S, NEW s \in Seq(S), s # <<>>
  PROVE  /\ Head(s) \in S /\ Tail(s) \in Seq(S)
         /\ ToSet(s) = {Head(s)} \union ToSet(Tail(s))
         /\ IsInjective(s) => IsInjective(Tail(s)) /\ Head(s) \notin ToSet(Tail(s))
<1>1. /\ Len(s) \in Nat \ {0} /\ DOMAIN s = 1 .. Len(s)
      /\ Head(s) = s[1] /\ Head(s) \in S /\ Tail(s) \in Seq(S)
      /\ Len(Tail(s)) = Len(s) - 1
      /\ \A i \in 1 .. Len(Tail(s)) : Tail(s)[i] = s[i + 1]
  BY HeadTailProperties, LenProperties, ElementOfSeq, EmptySeq
<1>2. DOMAIN Tail(s) = 1 .. Len(s) - 1
  BY <1>1, LenProperties
<1>3. \A i \in DOMAIN s \ {1} : i - 1 \in DOMAIN Tail(s) /\ Tail(s)[i - 1] = s[i]
  BY <1>1, <1>2
<1>4. \A i \in DOMAIN Tail(s) : i + 1 \in DOMAIN s \ {1} /\ Tail(s)[i] = s[i + 1]
  BY <1>1, <1>2
<1>5. ToSet(s) = {Head(s)} \union ToSet(Tail(s))
  <2>1. ASSUME NEW x \in ToSet(s)
        PROVE  x \in {Head(s)} \union ToSet(Tail(s))
    <3>1. PICK i \in DOMAIN s : x = s[i]
      BY <2>1 DEF ToSet
    <3>2. CASE i = 1
      BY <1>1, <3>1, <3>2
    <3>3. CASE i # 1
      BY <1>3, <3>1, <3>3 DEF ToSet
    <3>4. QED  BY <3>2, <3>3
  <2>2. ASSUME NEW x \in ToSet(Tail(s))
        PROVE  x \in ToSet(s)
    BY <1>4 DEF ToSet
  <2>3. Head(s) \in ToSet(s)
    <3>1. 1 \in DOMAIN s /\ Head(s) = s[1]
      BY <1>1
    <3>2. QED  BY <3>1 DEF ToSet
  <2>4. QED  BY <2>1, <2>2, <2>3
<1>6. ASSUME IsInjective(s)
      PROVE  IsInjective(Tail(s)) /\ Head(s) \notin ToSet(Tail(s))
  <2>1. \A i, k \in DOMAIN s : s[i] = s[k] => i = k
    BY <1>6 DEF IsInjective
  <2>2. \A i, k \in DOMAIN Tail(s) : Tail(s)[i] = Tail(s)[k] => i = k
    BY <1>1, <1>2, <1>4, <2>1
  <2>3. Head(s) \notin ToSet(Tail(s))
    <3>1. ASSUME NEW i \in DOMAIN Tail(s), Tail(s)[i] = s[1]
          PROVE  FALSE
      <4>1. i + 1 \in DOMAIN s /\ s[i + 1] = s[1] /\ i + 1 # 1
        BY <1>4, <3>1
      <4>2. 1 \in DOMAIN s
        BY <1>1
      <4>3. QED  BY <2>1, <4>1, <4>2
    <3>2. QED  BY <1>1, <3>1 DEF ToSet
  <2>4. QED  BY <2>2, <2>3 DEF IsInjective
<1>7. QED
  BY <1>1, <1>5, <1>6

-----------------------------------------------------------------------------
(* Types.                                                                    *)

(* submit's first lines change the cities that are left, nothing else.       *)
LEMMA OpenedType ==
  ASSUME NEW c \in Checkpoints
  PROVE  /\ Opened(c) \in Checkpoints
         /\ Opened(c).phase = c.phase /\ Opened(c).submitted = c.submitted
         /\ Opened(c).tasks = c.tasks /\ Opened(c).balance = c.balance
         /\ Opened(c).unsubmitted =
              IF c.submitted = {} /\ c.unsubmitted = <<>> THEN CityList ELSE c.unsubmitted
BY DEF Opened, Checkpoints

(* Settling a task leaves a checkpoint that names the same cities.           *)
LEMMA ClosedType ==
  ASSUME NEW c \in Checkpoints, NEW t \in Tasks, NEW credits \in Nat
  PROVE  /\ Closed(c, t, credits) \in Checkpoints
         /\ Closed(c, t, credits).phase = c.phase
         /\ Closed(c, t, credits).submitted = c.submitted
         /\ Closed(c, t, credits).unsubmitted = c.unsubmitted
<1>1. RemoveFirst(c.tasks, t) \in Seq(Tasks)
  BY RemoveFirstType DEF Checkpoints
<1> DEFINE b == IF credits >= c.balance[t.key] THEN 0 ELSE c.balance[t.key] - credits
<1>2. t.key \in Keys /\ c.balance \in [Keys -> Nat]
  BY DEF Tasks, Checkpoints
<1>3. b \in Nat
  BY <1>2
<1>4. Closed(c, t, credits) = [c EXCEPT !.tasks = RemoveFirst(c.tasks, t),
                                        !.balance = [c.balance EXCEPT ![t.key] = b]]
  BY DEF Closed, Checkpoints
<1>5. [c.balance EXCEPT ![t.key] = b] \in [Keys -> Nat]
  <2> HIDE DEF b
  <2> QED  BY <1>2, <1>3
<1> HIDE DEF b
<1>6. QED
  BY <1>1, <1>4, <1>5 DEF Checkpoints

(* The checkpoint a new job starts with.                                     *)
LEMMA NewCheckpointType == NewCheckpoint \in Checkpoints
<1>1. <<>> \in Seq(Tasks) /\ <<>> \in Seq(Cities)
  BY EmptySeq
<1>2. [k \in Keys |-> Balance] \in [Keys -> Nat]
  OBVIOUS
<1>3. QED
  BY <1>1, <1>2 DEF NewCheckpoint, Checkpoints

(* What create_task is called with: the first city left, and a key of the    *)
(* pool that has not failed for it.                                          *)
LEMMA NextCall ==
  ASSUME StageTypeOK, NEW w \in Workers, CanSubmit(w)
  PROVE  /\ Head(ck[w].unsubmitted) \in Cities
         /\ Tail(ck[w].unsubmitted) \in Seq(Cities)
         /\ Best(ck[w], Usable(w)) \in Usable(w) /\ Usable(w) \subseteq Keys
<1>1. ck[w] \in Checkpoints /\ ck[w].unsubmitted \in Seq(Cities)
  BY DEF StageTypeOK, Checkpoints
<1>2. Usable(w) \in SUBSET Keys /\ Usable(w) # {} /\ ck[w].unsubmitted # <<>>
  BY DEF CanSubmit, Usable, Affordable
<1>3. QED
  BY <1>1, <1>2, BestMember, HeadTailProperties

Places == {"idle", "plan", "submit", "poll", "ingest", "savecompanies", "decide", "park",
           "cancel", "finishcancel", "cancelled", "saveenrich", "rest", "raise"}

(* The place and the checkpoint Resume gives a worker.                       *)
LEMMA ResumeType ==
  ASSUME StageTypeOK, NEW w \in Workers, NEW c \in Checkpoints, Resume(w, c)
  PROVE  /\ ck' \in [Workers -> Checkpoints] /\ at' \in [Workers -> Places]
         /\ \E d \in Checkpoints :
           /\ d = (IF c.phase = "MANUS" THEN Opened(c) ELSE c)
           /\ ck' = [ck EXCEPT ![w] = d]
           /\ at' = [at EXCEPT ![w] = IF c.phase = "PLANNING" THEN "plan"
                                      ELSE IF c.phase = "MANUS" THEN "submit" ELSE "rest"]
<1>1. c.phase \in {"PLANNING", "MANUS", "ENRICHING"}
  BY DEF Checkpoints
<1>2. (IF c.phase = "MANUS" THEN Opened(c) ELSE c) \in Checkpoints
  BY OpenedType
<1>3. ck' = [ck EXCEPT ![w] = IF c.phase = "MANUS" THEN Opened(c) ELSE c]
  BY DEF Resume
<1>4. at' = [at EXCEPT ![w] = IF c.phase = "PLANNING" THEN "plan"
                              ELSE IF c.phase = "MANUS" THEN "submit" ELSE "rest"]
  BY <1>1 DEF Resume, Goto
<1>5. at' \in [Workers -> Places]
  BY <1>4 DEF StageTypeOK, Places
<1>6. ck' \in [Workers -> Checkpoints]
  BY <1>2, <1>3 DEF StageTypeOK
<1>7. QED
  BY <1>2, <1>3, <1>4, <1>5, <1>6

(* The tasks of a city that were paid for are counted in naturals.           *)
LEMMA PaidType ==
  ASSUME IsFiniteSet(bought), NEW c
  PROVE  IsFiniteSet({t \in bought : t.city = c}) /\ Paid(c) \in Nat
<1>1. {t \in bought : t.city = c} \in SUBSET bought
  OBVIOUS
<1>2. IsFiniteSet({t \in bought : t.city = c})
  BY <1>1, FS_Subset
<1>3. QED
  BY <1>2, FS_CardinalityType DEF Paid

(* A paid call: the task, and what the worker's checkpoint becomes.          *)
LEMMA Purchase ==
  ASSUME StageTypeOK, IsFiniteSet(bought), NEW w \in Workers, CreateTask(w)
  PROVE  \E task \in Tasks, d \in Checkpoints :
           /\ task.city = Head(ck[w].unsubmitted)
           /\ bought' = bought \union {task}
           /\ ck' = [ck EXCEPT ![w] = d]
           /\ d.phase = ck[w].phase
           /\ d.submitted = ck[w].submitted \union {task.city}
           /\ d.unsubmitted = Tail(ck[w].unsubmitted)
           /\ task.n = Paid(task.city) + 1
           /\ d.tasks = Append(ck[w].tasks, task) /\ d.balance = ck[w].balance
<1> DEFINE city == Head(ck[w].unsubmitted)
           task == [city |-> city, key |-> Best(ck[w], Usable(w)), n |-> Paid(city) + 1]
           d == [ck[w] EXCEPT !.tasks = Append(@, task),
                              !.submitted = @ \union {city},
                              !.unsubmitted = Tail(@)]
<1>1. CanSubmit(w) /\ bought' = bought \union {task}
  BY DEF CreateTask
<1>2. ck' = [ck EXCEPT ![w] = d]
  BY DEF CreateTask
<1>3. city \in Cities /\ Best(ck[w], Usable(w)) \in Keys
      /\ Tail(ck[w].unsubmitted) \in Seq(Cities)
  BY <1>1, NextCall
<1>4. Paid(city) + 1 \in Nat
  <2>1. Paid(city) \in Nat
    BY PaidType
  <2>2. QED  BY <2>1
<1>5. task \in Tasks /\ task.city = city /\ task.n = Paid(city) + 1
  BY <1>3, <1>4 DEF Tasks
<1>6. ck[w] \in Checkpoints
  BY DEF StageTypeOK
<1> HIDE DEF task
<1>7. Append(ck[w].tasks, task) \in Seq(Tasks)
  BY <1>5, <1>6, AppendProperties DEF Checkpoints
<1>8. d \in Checkpoints /\ d.phase = ck[w].phase
      /\ d.submitted = ck[w].submitted \union {city}
      /\ d.unsubmitted = Tail(ck[w].unsubmitted)
      /\ d.tasks = Append(ck[w].tasks, task) /\ d.balance = ck[w].balance
  BY <1>3, <1>6, <1>7 DEF Checkpoints
<1>9. QED
  BY <1>1, <1>2, <1>5, <1>8

(* A failed call may leave a task behind that nobody will hear of.           *)
LEMMA LostCall ==
  ASSUME StageTypeOK, NEW w \in Workers, CreateFails(w)
  PROVE  /\ unheard' \subseteq Tasks /\ faults' = faults + 1
         /\ unheard' = unheard \/ \E t \in Tasks : unheard' = unheard \union {t}
<1> DEFINE city == Head(ck[w].unsubmitted)
           key == Best(ck[w], Usable(w))
           lost == [city |-> city, key |-> key, n |-> faults + 1]
<1>1. city \in Cities /\ key \in Keys
  BY NextCall DEF CreateFails
<1>a. faults \in 0 .. MaxFaults
  BY DEF StageTypeOK
<1>b. faults + 1 \in Nat
  <2>1. faults \in Nat
    BY <1>a
  <2>2. QED  BY <2>1
<1>2. unheard' = unheard \/ unheard' = unheard \union {lost}
  BY DEF CreateFails
<1> HIDE DEF city, key
<1>3. lost \in Tasks
  BY <1>1, <1>b DEF Tasks
<1> HIDE DEF lost
<1>4. unheard \subseteq Tasks /\ faults' = faults + 1
  BY DEF StageTypeOK, CreateFails
<1>5. QED
  BY <1>2, <1>3, <1>4

(* A failed call changes what is known of its key, and nothing of the cities. *)
LEMMA FailedCall ==
  ASSUME StageTypeOK, NEW w \in Workers, CreateFails(w)
  PROVE  /\ tried' \in [Workers -> SUBSET Keys]
         /\ \E d \in Checkpoints :
              /\ ck' = [ck EXCEPT ![w] = d]
              /\ d.phase = ck[w].phase /\ d.submitted = ck[w].submitted
              /\ d.unsubmitted = ck[w].unsubmitted /\ d.tasks = ck[w].tasks
              /\ \A l \in Keys : d.balance[l] \in {0, ck[w].balance[l]}
<1> DEFINE k == Best(ck[w], Usable(w))
<1>1. k \in Keys /\ tried' = [tried EXCEPT ![w] = @ \union {k}]
  BY NextCall DEF CreateFails
<1>2. \/ ck' = [ck EXCEPT ![w].retired = @ \union {k}]
      \/ ck' = [ck EXCEPT ![w].balance[k] = 0]
      \/ ck' = ck
  BY DEF CreateFails
<1> HIDE DEF k
<1>3. ck \in [Workers -> Checkpoints] /\ ck[w] \in Checkpoints
  BY DEF StageTypeOK
<1>4. tried' \in [Workers -> SUBSET Keys]
  BY <1>1 DEF StageTypeOK
<1>5. CASE ck' = [ck EXCEPT ![w].retired = @ \union {k}]
  <2> DEFINE r == ck[w].retired \union {k}
             d == [ck[w] EXCEPT !.retired = r]
  <2>1. ck' = [ck EXCEPT ![w] = d]
    BY <1>5
  <2>2. r \in SUBSET Keys
    BY <1>1, <1>3 DEF Checkpoints
  <2> HIDE DEF r
  <2>3. d \in Checkpoints
    BY <1>3, <2>2 DEF Checkpoints
  <2>4. QED  BY <1>3, <1>4, <2>1, <2>3 DEF Checkpoints
<1>6. CASE ck' = [ck EXCEPT ![w].balance[k] = 0]
  <2> DEFINE b == [ck[w].balance EXCEPT ![k] = 0]
             d == [ck[w] EXCEPT !.balance = b]
  <2>1. ck' = [ck EXCEPT ![w] = d]
    BY <1>3, <1>6
  <2>2. b \in [Keys -> Nat] /\ \A l \in Keys : b[l] \in {0, ck[w].balance[l]}
    BY <1>1, <1>3 DEF Checkpoints
  <2> HIDE DEF b
  <2>3. d \in Checkpoints
    BY <1>3, <2>2 DEF Checkpoints
  <2>4. QED  BY <1>3, <1>4, <2>1, <2>2, <2>3 DEF Checkpoints
<1>7. CASE ck' = ck
  BY <1>3, <1>4, <1>7
<1>8. QED
  BY <1>2, <1>5, <1>6, <1>7

(* A poll settles or keeps a task, and changes nothing of the cities.        *)
LEMMA PolledTask ==
  ASSUME StageTypeOK, NEW w \in Workers, Poll(w)
  PROVE  /\ todo' \in [Workers -> Seq(Tasks)]
         /\ found' \in [Workers -> SUBSET Cities]
         /\ \E d \in Checkpoints :
              /\ ck' = [ck EXCEPT ![w] = d]
              /\ d.phase = ck[w].phase /\ d.submitted = ck[w].submitted
              /\ d.unsubmitted = ck[w].unsubmitted
<1> DEFINE t == Head(todo[w])
<1>1. t \in Tasks /\ todo' \in [Workers -> Seq(Tasks)]
  BY HeadTailProperties DEF Poll, NextTask, StageTypeOK
<1>2. Keep(w, t) \/ Abandon(w, t) \/ Collect(w, t)
  BY DEF Poll
<1> HIDE DEF t
<1>3. /\ t.city \in Cities /\ Credits[t.city] \in Nat
      /\ ck \in [Workers -> Checkpoints] /\ ck[w] \in Checkpoints
      /\ found \in [Workers -> SUBSET Cities]
  BY <1>1 DEF Tasks, StageTypeOK
<1>4. ck' = ck \/ \E credits \in Nat : ck' = [ck EXCEPT ![w] = Closed(ck[w], t, credits)]
  BY <1>2, <1>3 DEF Keep, Abandon, Collect
<1>5. found' = found \/ found' = [found EXCEPT ![w] = @ \union {t.city}]
  BY <1>2 DEF Keep, Abandon, Collect
<1>6. found' \in [Workers -> SUBSET Cities]
  <2>1. found[w] \union {t.city} \in SUBSET Cities
    BY <1>3
  <2>2. QED  BY <1>3, <1>5, <2>1
<1>7. CASE ck' = ck
  <2>1. ck' = [ck EXCEPT ![w] = ck[w]]
    BY <1>3, <1>7
  <2>2. QED  BY <1>1, <1>3, <1>6, <2>1
<1>8. ASSUME NEW credits \in Nat, ck' = [ck EXCEPT ![w] = Closed(ck[w], t, credits)]
      PROVE  \E d \in Checkpoints :
               /\ ck' = [ck EXCEPT ![w] = d]
               /\ d.phase = ck[w].phase /\ d.submitted = ck[w].submitted
               /\ d.unsubmitted = ck[w].unsubmitted
  <2>1. PICK d \in Checkpoints :
          /\ d = Closed(ck[w], t, credits) /\ d.phase = ck[w].phase
          /\ d.submitted = ck[w].submitted /\ d.unsubmitted = ck[w].unsubmitted
    BY <1>1, <1>3, ClosedType
  <2>2. QED  BY <1>8, <2>1
<1>9. QED
  BY <1>1, <1>4, <1>6, <1>7, <1>8

(* Whether a company was seen is a field apart.                              *)
LEMMA SeenType ==
  ASSUME NEW c \in Checkpoints, NEW b \in BOOLEAN
  PROVE  \E d \in Checkpoints :
           /\ d = [c EXCEPT !.seen = b]
           /\ d.phase = c.phase /\ d.submitted = c.submitted
           /\ d.unsubmitted = c.unsubmitted /\ d.tasks = c.tasks /\ d.balance = c.balance
<1> DEFINE d == [c EXCEPT !.seen = b]
<1>1. d \in Checkpoints
  BY DEF Checkpoints
<1>2. QED
  BY <1>1 DEF Checkpoints

(* A step keeps the row, the checkpoints and the workers' memory well typed. *)
LEMMA TypeStep ==
  ASSUME StageTypeOK, IsFiniteSet(bought), RowBook, [Next]_vars
  PROVE  StageTypeOK' /\ IsFiniteSet(bought')
<1> USE DEF StageTypeOK, Ended, row, memory, manus, Goto, Running
<1>1. CASE Done \/ UNCHANGED vars
  BY <1>1 DEF Done, vars
<1>2. CASE RequestCancel \/ Lapse \/ Wake \/ DeadlinePasses
  BY <1>2 DEF RequestCancel, Lapse, Wake, DeadlinePasses
<1>3. ASSUME NEW w \in Workers, Claim(w)
      PROVE  StageTypeOK' /\ IsFiniteSet(bought')
  <2>1. saved \in Checkpoints /\ Resume(w, saved)
    BY <1>3 DEF Claim
  <2>2. ck' \in [Workers -> Checkpoints] /\ at' \in [Workers -> Places]
    BY <2>1, ResumeType
  <2>3. QED
    BY <1>3, <2>2 DEF Claim, Places
<1>4. ASSUME NEW w \in Workers, Plan(w)
      PROVE  StageTypeOK' /\ IsFiniteSet(bought')
  <2> DEFINE c == [ck[w] EXCEPT !.phase = "MANUS"]
  <2>1. c \in Checkpoints /\ Resume(w, c) /\ saved' = c
    BY <1>4 DEF Plan, Save, Checkpoints
  <2> HIDE DEF c
  <2>2. ck' \in [Workers -> Checkpoints] /\ at' \in [Workers -> Places]
    BY <2>1, ResumeType
  <2>3. QED
    BY <1>4, <2>1, <2>2 DEF Plan, Places
<1>5. ASSUME NEW w \in Workers, CreateTask(w)
      PROVE  StageTypeOK' /\ IsFiniteSet(bought')
  <2>1. PICK task \in Tasks, d \in Checkpoints :
           bought' = bought \union {task} /\ ck' = [ck EXCEPT ![w] = d]
    BY <1>5, Purchase
  <2>2. IsFiniteSet(bought')
    BY <2>1, FS_AddElement
  <2>3. UNCHANGED <<row, saved, visited, at, todo, found, late, unheard, faults>>
        /\ tried' = [tried EXCEPT ![w] = {}]
    BY <1>5 DEF CreateTask
  <2>4. ck' \in [Workers -> Checkpoints] /\ bought' \subseteq Tasks /\ late' \subseteq bought'
    BY <2>1, <2>3
  <2>5. QED
    BY <2>2, <2>3, <2>4
<1>6. ASSUME NEW w \in Workers, CreateFails(w)
      PROVE  StageTypeOK' /\ IsFiniteSet(bought')
  <2>1. tried' \in [Workers -> SUBSET Keys] /\ ck' \in [Workers -> Checkpoints]
    <3>1. PICK d \in Checkpoints : ck' = [ck EXCEPT ![w] = d]
      BY <1>6, FailedCall
    <3>2. tried' \in [Workers -> SUBSET Keys]
      BY <1>6, FailedCall
    <3>3. QED  BY <3>1, <3>2
  <2>2. faults' \in 0 .. MaxFaults
    BY <1>6 DEF CreateFails
  <2>3. unheard' \subseteq Tasks
    BY <1>6, LostCall
  <2>4. UNCHANGED <<row, saved, visited, at, todo, found, bought, late>>
    BY <1>6 DEF CreateFails
  <2>5. QED
    BY <2>1, <2>2, <2>3, <2>4
<1>7. ASSUME NEW w \in Workers, SaveTasks(w)
      PROVE  StageTypeOK' /\ IsFiniteSet(bought')
  <2>1. saved' \in Checkpoints
    BY <1>7 DEF SaveTasks, Save, Checkpoints
  <2>2. todo' \in [Workers -> Seq(Tasks)]
    BY <1>7 DEF SaveTasks, Checkpoints
  <2>3. at' \in [Workers -> Places] /\ tried' \in [Workers -> SUBSET Keys]
    BY <1>7 DEF SaveTasks, Places
  <2>4. QED
    BY <1>7, <2>1, <2>2, <2>3 DEF SaveTasks, Places
<1>8. ASSUME NEW w \in Workers, Poll(w)
      PROVE  StageTypeOK' /\ IsFiniteSet(bought')
  <2>1. /\ todo' \in [Workers -> Seq(Tasks)] /\ found' \in [Workers -> SUBSET Cities]
        /\ ck' \in [Workers -> Checkpoints]
    <3>1. PICK d \in Checkpoints : ck' = [ck EXCEPT ![w] = d]
      BY <1>8, PolledTask
    <3>2. todo' \in [Workers -> Seq(Tasks)] /\ found' \in [Workers -> SUBSET Cities]
      BY <1>8, PolledTask
    <3>3. QED  BY <3>1, <3>2
  <2>2. QED
    BY <1>8, <2>1 DEF Poll
<1>9. ASSUME NEW w \in Workers, SavePoll(w)
      PROVE  StageTypeOK' /\ IsFiniteSet(bought')
  <2> DEFINE c == [ck[w] EXCEPT !.seen = @ \/ found[w] # {}]
  <2>1. c \in Checkpoints
    BY DEF Checkpoints
  <2>2. saved' = c /\ ck' = [ck EXCEPT ![w] = c] /\ at' \in [Workers -> Places]
    BY <1>9 DEF SavePoll, Save, Places
  <2>3. UNCHANGED <<row, visited, tried, todo, found, manus, faults>>
    BY <1>9 DEF SavePoll
  <2> HIDE DEF c
  <2>4. QED
    BY <2>1, <2>2, <2>3 DEF Places
<1>10. ASSUME NEW w \in Workers, Ingest(w)
      PROVE  StageTypeOK' /\ IsFiniteSet(bought')
  <2>1. ck' \in [Workers -> Checkpoints]
    <3>1. PICK c : c = [ck[w] EXCEPT !.companies = @ \union (found[w] \ visited)]
      OBVIOUS
    <3>2. found[w] \subseteq Cities
      OBVIOUS
    <3>3. c \in Checkpoints
      BY <3>1, <3>2 DEF Checkpoints
    <3>4. ck' = [ck EXCEPT ![w] = c]
      BY <1>10, <3>1 DEF Ingest
    <3>5. QED  BY <3>3, <3>4
  <2>2. QED
    BY <1>10, <2>1 DEF Ingest
<1>11. ASSUME NEW w \in Workers, SaveCompanies(w) \/ Decide(w) \/ Cancel(w) \/ Raise(w)
      PROVE  StageTypeOK' /\ IsFiniteSet(bought')
  <2>1. CASE SaveCompanies(w)
    BY <2>1 DEF SaveCompanies, Save
  <2>2. CASE Decide(w) \/ Cancel(w)
    BY <2>2 DEF Decide, Cancel
  <2>3. CASE Raise(w)
    BY <2>3 DEF Raise
  <2>4. QED  BY <1>11, <2>1, <2>2, <2>3
<1>12. ASSUME NEW w \in Workers, Park(w) \/ FinishCancelled(w) \/ Return(w) \/ Lost(w) \/ Crash(w)
      PROVE  StageTypeOK' /\ IsFiniteSet(bought')
  <2>1. Leave(w) => /\ at' \in [Workers -> Places] /\ ck' \in [Workers -> Checkpoints]
                    /\ tried' \in [Workers -> SUBSET Keys]
                    /\ todo' \in [Workers -> Seq(Tasks)]
                    /\ found' \in [Workers -> SUBSET Cities]
    BY NewCheckpointType, EmptySeq DEF Leave, Places
  <2>2. CASE Park(w)
    <3>1. attempts' = attempts - 1 /\ attempts > 0
      BY <2>2 DEF Park, RowBook
    <3>2. attempts' \in 0 .. MaxAttempts
      BY <3>1
    <3>3. QED  BY <2>1, <2>2, <3>2 DEF Park, Release, Places
  <2>3. CASE FinishCancelled(w)
    BY <2>3 DEF FinishCancelled, Release
  <2>4. CASE Return(w)
    <3>1. Leave(w) /\ UNCHANGED <<attempts, cancelRequested, saved, visited, manus, faults>>
      BY <2>4 DEF Return
    <3>2. /\ state' \in {"QUEUED", "ACTIVE", "WAITING_FOR_CAPACITY"} \union Ended
          /\ owner' = NoWorker
      BY <2>4 DEF Return, Release, Outcome
    <3>3. QED  BY <2>1, <3>1, <3>2 DEF Places
  <2>5. CASE Lost(w)
    BY <2>1, <2>5 DEF Lost, Places
  <2>6. CASE Crash(w)
    <3>1. Leave(w) /\ UNCHANGED <<row, saved, visited, manus>> /\ faults' = faults + 1
          /\ faults < MaxFaults
      BY <2>6 DEF Crash
    <3>2. QED  BY <2>1, <3>1 DEF Places
  <2>7. QED  BY <1>12, <2>2, <2>3, <2>4, <2>5, <2>6
<1>13. ASSUME NEW w \in Workers, SaveEnrich(w)
      PROVE  StageTypeOK' /\ IsFiniteSet(bought')
  <2> DEFINE c == [ck[w] EXCEPT !.phase = "ENRICHING"]
  <2>1. c \in Checkpoints /\ Resume(w, c) /\ saved' = c
    BY <1>13 DEF SaveEnrich, Save, Checkpoints
  <2> HIDE DEF c
  <2>2. ck' \in [Workers -> Checkpoints] /\ at' \in [Workers -> Places]
    BY <2>1, ResumeType
  <2>3. QED
    BY <1>13, <2>1, <2>2 DEF SaveEnrich, Places
<1>14. QED
  BY <1>1, <1>2, <1>3, <1>4, <1>5, <1>6, <1>7, <1>8, <1>9, <1>10, <1>11, <1>12, <1>13
  DEF Next, Step

-----------------------------------------------------------------------------
(* The cities.                                                               *)

(* What a checkpoint says of the cities depends on no other field, and stays *)
(* true as tasks are bought.                                                 *)
LEMMA SameBook ==
  ASSUME NEW c \in Checkpoints, NEW d \in Checkpoints, CityBook(c), bought \subseteq bought',
         d.phase = c.phase, d.submitted = c.submitted, d.unsubmitted = c.unsubmitted,
         c.phase = "ENRICHING" => d.tasks = c.tasks
  PROVE  CityBook(d)' /\ (Covers(c) => Covers(d))
<1>1. d.submitted \subseteq {t.city : t \in bought'}
  BY DEF CityBook
<1>2. QED
  BY <1>1 DEF CityBook, Covers

(* submit begins with every city.                                            *)
LEMMA OpenedBook ==
  ASSUME NEW c \in Checkpoints, CityBook(c), c.phase = "MANUS"
  PROVE  CityBook(Opened(c)) /\ Covers(Opened(c))
<1>1. CASE c.submitted = {} /\ c.unsubmitted = <<>>
  <2>1. Opened(c).submitted = {} /\ Opened(c).unsubmitted = CityList
        /\ Opened(c).phase = "MANUS"
    BY <1>1, OpenedType
  <2>2. Covers(Opened(c))
    BY <2>1 DEF Covers, Cities
  <2>3. QED
    BY <2>1, <2>2 DEF CityBook
<1>2. CASE ~(c.submitted = {} /\ c.unsubmitted = <<>>)
  BY <1>2 DEF Opened, CityBook
<1>3. QED
  BY <1>1, <1>2

(* A step that changes one worker's place and checkpoint keeps the books of  *)
(* the others.                                                               *)
LEMMA BookFrame ==
  ASSUME StageTypeOK, BookInv, bought \subseteq bought', NEW w \in Workers,
         NEW d \in Checkpoints, NEW s \in Checkpoints, NEW l,
         ck' = [ck EXCEPT ![w] = d], at' = [at EXCEPT ![w] = l], saved' = s,
         CityBook(d)', Fits(d, l), s = saved \/ CityBook(s)'
  PROVE  BookInv'
<1>1. ck \in [Workers -> Checkpoints] /\ saved \in Checkpoints /\ DOMAIN at = Workers
  BY DEF StageTypeOK
<1>2. CityBook(saved)'
  <2>1. CASE s = saved
    BY <1>1, <2>1, SameBook DEF BookInv, CityBook
  <2>2. CASE CityBook(s)'
    BY <2>2 DEF CityBook
  <2>3. QED  BY <2>1, <2>2
<1>3. ASSUME NEW v \in Workers, v # w
      PROVE  CityBook(ck[v])' /\ Fits(ck[v], at[v])'
  <2>1. ck'[v] = ck[v] /\ at'[v] = at[v]
    BY <1>1, <1>3
  <2>2. CityBook(ck[v]) /\ Fits(ck[v], at[v])
    BY DEF BookInv
  <2>3. QED
    BY <1>1, <2>1, <2>2, SameBook DEF CityBook, Fits, Covers, Finished
<1>4. ck'[w] = d /\ at'[w] = l
  BY <1>1
<1>5. CityBook(ck[w])' /\ Fits(ck[w], at[w])'
  BY <1>4 DEF CityBook, Fits, Covers, Finished
<1>6. QED
  BY <1>2, <1>3, <1>5 DEF BookInv, CityBook

(* A handler that goes on with a checkpoint opens its cities where it must.  *)
LEMMA ResumeBook ==
  ASSUME StageTypeOK, BookInv, NEW w \in Workers, NEW c \in Checkpoints, CityBook(c),
         Resume(w, c), bought' = bought, saved' = saved \/ saved' = c
  PROVE  BookInv'
<1>1. PICK d \in Checkpoints :
        /\ d = (IF c.phase = "MANUS" THEN Opened(c) ELSE c)
        /\ ck' = [ck EXCEPT ![w] = d]
        /\ at' = [at EXCEPT ![w] = IF c.phase = "PLANNING" THEN "plan"
                                   ELSE IF c.phase = "MANUS" THEN "submit" ELSE "rest"]
  BY ResumeType
<1>2. PICK l : l = IF c.phase = "PLANNING" THEN "plan"
                   ELSE IF c.phase = "MANUS" THEN "submit" ELSE "rest"
  OBVIOUS
<1>3. CityBook(d) /\ (c.phase = "MANUS" => Covers(d)) /\ d.phase = c.phase
  BY <1>1, OpenedBook, OpenedType
<1>4. c.phase \in {"PLANNING", "MANUS", "ENRICHING"}
  BY DEF Checkpoints
<1>5. Fits(d, l)
  BY <1>2, <1>3, <1>4 DEF Fits, Passing
<1>6. CityBook(d)' /\ CityBook(c)'
  BY <1>3 DEF CityBook
<1>7. saved \in Checkpoints
  BY DEF StageTypeOK
<1>8. PICK s \in Checkpoints : s = saved' /\ (s = saved \/ s = c)
  BY <1>7
<1>9. QED
  BY <1>1, <1>2, <1>5, <1>6, <1>8, BookFrame

(* A step keeps what the checkpoints say of the cities.                      *)
LEMMA BookStep ==
  ASSUME StageTypeOK, IsFiniteSet(bought), BookInv, [Next]_vars
  PROVE  BookInv'
<1> USE DEF Running, Goto
<1>0. /\ ck \in [Workers -> Checkpoints] /\ saved \in Checkpoints
      /\ at \in [Workers -> Places] /\ \A w \in Workers : ck[w] \in Checkpoints
  BY DEF StageTypeOK, Places
<1>a. CityBook(saved) /\ \A w \in Workers : CityBook(ck[w]) /\ Fits(ck[w], at[w])
  BY DEF BookInv
<1>1. CASE bought' = bought /\ UNCHANGED <<saved, ck, at>>
  BY <1>1 DEF BookInv, CityBook, Fits, Covers, Finished
<1>2. CASE Done \/ UNCHANGED vars \/ RequestCancel \/ Lapse \/ Wake \/ DeadlinePasses
  BY <1>1, <1>2 DEF Done, vars, RequestCancel, Lapse, Wake, DeadlinePasses, memory, manus
<1>3. ASSUME NEW w \in Workers, Claim(w)
      PROVE  BookInv'
  BY <1>0, <1>3, <1>a, ResumeBook DEF Claim, manus
<1>4. ASSUME NEW w \in Workers, Plan(w)
      PROVE  BookInv'
  <2> DEFINE c == [ck[w] EXCEPT !.phase = "MANUS"]
  <2>1. ck[w].phase = "PLANNING" /\ ck[w].submitted = {} /\ ck[w].unsubmitted = <<>>
    BY <1>4, <1>a DEF Plan, Fits, CityBook
  <2>2. c \in Checkpoints /\ c.phase = "MANUS" /\ c.submitted = {} /\ c.unsubmitted = <<>>
    BY <1>0, <2>1 DEF Checkpoints
  <2>3. Resume(w, c) /\ saved' = c /\ bought' = bought
    BY <1>4 DEF Plan, Save, manus
  <2> HIDE DEF c
  <2>4. CityBook(c)
    BY <2>2 DEF CityBook, ToSet, IsInjective
  <2>5. QED
    BY <2>2, <2>3, <2>4, ResumeBook
<1>5. ASSUME NEW w \in Workers, CreateTask(w)
      PROVE  BookInv'
  <2>1. PICK task \in Tasks, d \in Checkpoints :
           /\ task.city = Head(ck[w].unsubmitted)
           /\ bought' = bought \union {task}
           /\ ck' = [ck EXCEPT ![w] = d]
           /\ d.phase = ck[w].phase
           /\ d.submitted = ck[w].submitted \union {task.city}
           /\ d.unsubmitted = Tail(ck[w].unsubmitted)
    BY <1>5, Purchase
  <2>2. at[w] = "submit" /\ ck[w].unsubmitted # <<>> /\ saved' = saved /\ at' = at
    BY <1>5 DEF CreateTask, CanSubmit
  <2>3. CityBook(ck[w]) /\ ck[w].phase = "MANUS" /\ Covers(ck[w])
    BY <1>a, <2>2 DEF Fits
  <2>4. ck[w].unsubmitted \in Seq(Cities)
    BY <1>0 DEF Checkpoints
  <2>5. /\ ToSet(ck[w].unsubmitted) = {task.city} \union ToSet(d.unsubmitted)
        /\ IsInjective(d.unsubmitted) /\ task.city \notin ToSet(d.unsubmitted)
    BY <2>1, <2>2, <2>3, <2>4, HeadAndTail DEF CityBook
  <2>6. Covers(d) /\ d.phase = "MANUS"
    BY <2>1, <2>3, <2>5 DEF Covers
  <2>7. d.submitted \subseteq {t.city : t \in bought'}
    BY <2>1, <2>3 DEF CityBook
  <2>8. d.submitted \intersect ToSet(d.unsubmitted) = {}
    BY <2>1, <2>3, <2>5 DEF CityBook
  <2>9. CityBook(d)' /\ Fits(d, "submit")
    BY <2>5, <2>6, <2>7, <2>8 DEF CityBook, Covers, Fits, Passing
  <2>10. at' = [at EXCEPT ![w] = "submit"]
    BY <1>0, <2>2
  <2>11. QED
    BY <1>0, <2>1, <2>2, <2>9, <2>10, BookFrame
<1>6. ASSUME NEW w \in Workers, NEW d \in Checkpoints, NEW l, NEW s \in Checkpoints,
             bought' = bought, at' = [at EXCEPT ![w] = l],
             ck' = [ck EXCEPT ![w] = d], saved' = s,
             d.phase = ck[w].phase, d.submitted = ck[w].submitted,
             d.unsubmitted = ck[w].unsubmitted,
             ck[w].phase = "ENRICHING" => d.tasks = ck[w].tasks,
             Fits(d, l), s = saved \/ CityBook(s)'
      PROVE  BookInv'
  BY <1>0, <1>6, <1>a, SameBook, BookFrame
\* The steps of a pass: the city fields of the worker's checkpoint stay.
<1>7. ASSUME NEW w \in Workers, CreateFails(w)
      PROVE  BookInv'
  <2>1. PICK d \in Checkpoints :
          /\ ck' = [ck EXCEPT ![w] = d]
          /\ d.phase = ck[w].phase /\ d.submitted = ck[w].submitted
          /\ d.unsubmitted = ck[w].unsubmitted /\ d.tasks = ck[w].tasks
    BY <1>7, FailedCall
  <2>2. at[w] = "submit" /\ at' = at /\ saved' = saved /\ bought' = bought
    BY <1>7 DEF CreateFails, CanSubmit, manus
  <2>3. Fits(d, "submit") /\ at' = [at EXCEPT ![w] = "submit"]
    BY <1>0, <1>a, <2>1, <2>2 DEF Fits, Covers, Passing
  <2>4. QED
    BY <1>0, <1>6, <2>1, <2>2, <2>3
<1>8. ASSUME NEW w \in Workers, SaveTasks(w)
      PROVE  BookInv'
  <2>0. PICK s : s = [ck[w] EXCEPT !.seen = FALSE]
    OBVIOUS
  <2>1. saved' = s /\ ck' = ck /\ bought' = bought /\ at[w] = "submit"
        /\ \E l \in {"raise", "poll"} : at' = [at EXCEPT ![w] = l]
    BY <1>8, <2>0 DEF SaveTasks, Save, manus
  <2>2. s \in Checkpoints /\ s.phase = ck[w].phase /\ s.submitted = ck[w].submitted
        /\ s.unsubmitted = ck[w].unsubmitted /\ s.tasks = ck[w].tasks
    BY <1>0, <2>0 DEF Checkpoints
  <2>3. CityBook(s)' /\ ck' = [ck EXCEPT ![w] = ck[w]]
    BY <1>0, <1>a, <2>1, <2>2, SameBook
  <2>4. \A l \in {"raise", "poll"} : Fits(ck[w], l)
    BY <1>a, <2>1 DEF Fits, Passing
  <2>5. QED
    BY <1>0, <1>6, <2>1, <2>2, <2>3, <2>4
<1>9. ASSUME NEW w \in Workers, Poll(w)
      PROVE  BookInv'
  <2>1. PICK d \in Checkpoints :
          /\ ck' = [ck EXCEPT ![w] = d]
          /\ d.phase = ck[w].phase /\ d.submitted = ck[w].submitted
          /\ d.unsubmitted = ck[w].unsubmitted
    BY <1>9, PolledTask
  <2>2. at[w] = "poll" /\ at' = at /\ saved' = saved /\ bought' = bought
    BY <1>9 DEF Poll, manus
  <2>3. Fits(d, "poll") /\ at' = [at EXCEPT ![w] = "poll"] /\ ck[w].phase = "MANUS"
    BY <1>0, <1>a, <2>1, <2>2 DEF Fits, Covers, Passing
  <2>4. QED
    BY <1>0, <1>6, <2>1, <2>2, <2>3
<1>10. ASSUME NEW w \in Workers, SavePoll(w)
       PROVE  BookInv'
  <2>0. PICK c : c = [ck[w] EXCEPT !.seen = @ \/ found[w] # {}]
    OBVIOUS
  <2>1. saved' = c /\ ck' = [ck EXCEPT ![w] = c] /\ bought' = bought /\ at[w] = "poll"
        /\ \E l \in {"ingest", "decide"} : at' = [at EXCEPT ![w] = l]
    BY <1>10, <2>0 DEF SavePoll, Save, manus
  <2>2. c \in Checkpoints /\ c.phase = ck[w].phase /\ c.submitted = ck[w].submitted
        /\ c.unsubmitted = ck[w].unsubmitted /\ c.tasks = ck[w].tasks
    BY <1>0, <2>0 DEF Checkpoints
  <2>3. CityBook(c)'
    BY <1>0, <1>a, <2>1, <2>2, SameBook
  <2>4. \A l \in {"ingest", "decide"} : Fits(c, l)
    BY <1>a, <2>1, <2>2 DEF Fits, Passing, Covers
  <2>5. QED
    BY <1>0, <1>6, <2>1, <2>2, <2>3, <2>4
<1>11. ASSUME NEW w \in Workers, Ingest(w)
       PROVE  BookInv'
  <2> DEFINE c == [ck[w] EXCEPT !.companies = @ \union (found[w] \ visited)]
  <2>1. saved' = saved /\ ck' = [ck EXCEPT ![w] = c] /\ bought' = bought /\ at[w] = "ingest"
        /\ at' = [at EXCEPT ![w] = "savecompanies"]
    BY <1>11 DEF Ingest, manus
  <2>2. c \in Checkpoints /\ c.phase = ck[w].phase /\ c.submitted = ck[w].submitted
        /\ c.unsubmitted = ck[w].unsubmitted /\ c.tasks = ck[w].tasks
    BY <1>0 DEF Checkpoints, StageTypeOK
  <2> HIDE DEF c
  <2>3. Fits(c, "savecompanies")
    BY <1>a, <2>1, <2>2 DEF Fits, Passing, Covers
  <2>4. QED
    BY <1>0, <1>6, <2>1, <2>2, <2>3
<1>12. ASSUME NEW w \in Workers, SaveCompanies(w) \/ Decide(w) \/ Cancel(w) \/ Raise(w)
       PROVE  BookInv'
  <2>1. bought' = bought /\ ck' = ck /\ (saved' = saved \/ saved' = ck[w])
    BY <1>12 DEF SaveCompanies, Save, Decide, Cancel, Raise, manus, memory
  <2>2. CityBook(ck[w])' /\ ck' = [ck EXCEPT ![w] = ck[w]]
    BY <1>0, <1>a, <2>1 DEF CityBook
  <2>3. PICK l : at' = [at EXCEPT ![w] = l] /\ Fits(ck[w], l)
    <3>1. CASE SaveCompanies(w)
      <4>1. at' = [at EXCEPT ![w] = "decide"] /\ Fits(ck[w], "decide")
        BY <1>a, <3>1 DEF SaveCompanies, Fits, Passing
      <4>2. QED  BY <4>1
    <3>2. CASE Decide(w)
      <4> DEFINE l == IF cancelRequested THEN "cancel"
                      ELSE IF Finished(ck[w]) THEN "saveenrich" ELSE "park"
      <4>1. at' = [at EXCEPT ![w] = l] /\ Fits(ck[w], l)
        BY <1>a, <3>2 DEF Decide, Fits, Passing
      <4> HIDE DEF l
      <4>2. QED  BY <4>1
    <3>3. CASE Cancel(w)
      <4> DEFINE l == IF owner = w THEN "finishcancel" ELSE "cancelled"
      <4>1. at' = [at EXCEPT ![w] = l] /\ Fits(ck[w], l)
        BY <1>a, <3>3 DEF Cancel, Fits, Passing
      <4> HIDE DEF l
      <4>2. QED  BY <4>1
    <3>4. CASE Raise(w)
      <4>1. at' = [at EXCEPT ![w] = "raise"] /\ Fits(ck[w], "raise")
        BY <1>a, <3>4 DEF Raise, Fits, Passing
      <4>2. QED  BY <4>1
    <3>5. QED  BY <1>12, <3>1, <3>2, <3>3, <3>4
  <2>4. PICK s \in Checkpoints : s = saved' /\ (s = saved \/ s = ck[w])
    BY <1>0, <2>1
  <2>5. QED
    BY <1>0, <1>6, <2>1, <2>2, <2>3, <2>4
<1>13. ASSUME NEW w \in Workers, Leave(w), bought' = bought, saved' = saved
       PROVE  BookInv'
  <2>1. CityBook(NewCheckpoint)' /\ Fits(NewCheckpoint, "idle")
    BY DEF NewCheckpoint, CityBook, Fits, Passing, ToSet, IsInjective
  <2>2. ck' = [ck EXCEPT ![w] = NewCheckpoint] /\ at' = [at EXCEPT ![w] = "idle"]
    BY <1>13 DEF Leave
  <2>3. QED
    BY <1>0, <1>13, <2>1, <2>2, NewCheckpointType, BookFrame
<1>14. ASSUME NEW w \in Workers, Park(w) \/ Return(w) \/ Lost(w) \/ Crash(w)
       PROVE  BookInv'
  BY <1>13, <1>14 DEF Park, Return, Lost, Crash, manus
<1>15. ASSUME NEW w \in Workers, FinishCancelled(w)
       PROVE  BookInv'
  <2>1. bought' = bought /\ ck' = ck /\ saved' = saved /\ at[w] = "finishcancel"
        /\ at' = [at EXCEPT ![w] = "cancelled"]
    BY <1>15 DEF FinishCancelled, manus, memory
  <2>2. Fits(ck[w], "cancelled") /\ ck' = [ck EXCEPT ![w] = ck[w]]
    BY <1>0, <1>a, <2>1 DEF Fits, Passing
  <2>3. QED
    BY <1>0, <1>6, <2>1, <2>2
<1>16. ASSUME NEW w \in Workers, SaveEnrich(w)
       PROVE  BookInv'
  <2> DEFINE c == [ck[w] EXCEPT !.phase = "ENRICHING"]
  <2>1. Covers(ck[w]) /\ Finished(ck[w]) /\ CityBook(ck[w])
    BY <1>16, <1>a DEF SaveEnrich, Fits, Passing
  <2>2. c \in Checkpoints /\ c.phase = "ENRICHING" /\ c.submitted = ck[w].submitted
        /\ c.unsubmitted = <<>> /\ c.tasks = <<>>
    BY <1>0, <2>1 DEF Checkpoints, Finished
  <2>3. Resume(w, c) /\ saved' = c /\ bought' = bought
    BY <1>16 DEF SaveEnrich, Save, manus
  <2> HIDE DEF c
  <2>4. c.submitted = Cities
    <3>1. ToSet(<<>>) = {}
      BY DEF ToSet
    <3>2. QED  BY <2>1, <2>2, <3>1 DEF Covers, Finished
  <2>5. CityBook(c)
    BY <2>1, <2>2, <2>4 DEF CityBook, ToSet, IsInjective
  <2>6. QED
    BY <2>2, <2>3, <2>5, ResumeBook
<1>17. QED
  BY <1>2, <1>3, <1>4, <1>5, <1>7, <1>8, <1>9, <1>10, <1>11, <1>12, <1>14, <1>15, <1>16
  DEF Next, Step

-----------------------------------------------------------------------------
(* The tally of attempts.                                                    *)

(* The numbers the tally adds.                                               *)
LEMMA Counts ==
  ASSUME StageTypeOK, IsFiniteSet(bought), RowBook, NEW c \in Cities
  PROVE  /\ Paid(c) \in Nat /\ Cardinality(Zombies(c)) \in Nat
         /\ Spent \in Nat /\ attempts \in Nat /\ MaxAttempts \in Nat
         /\ attempts <= MaxAttempts
         /\ IsFiniteSet(Zombies(c)) /\ Zombies(c) \subseteq Workers
         /\ One(c \in Known) \in {0, 1}
<1>1. Zombies(c) \in SUBSET Workers
  BY DEF Zombies
<1>2. IsFiniteSet(Zombies(c))
  BY <1>1, FS_Subset
<1>3. Cardinality(Zombies(c)) \in Nat
  BY <1>2, FS_CardinalityType
<1>4. attempts \in Nat /\ MaxAttempts \in Nat /\ attempts <= MaxAttempts
  BY DEF StageTypeOK
<1>5. Active => attempts > 0
  BY DEF Active, RowBook
<1>6. Spent \in Nat
  BY <1>4, <1>5 DEF Spent
<1>7. QED
  BY <1>1, <1>2, <1>3, <1>4, <1>6, PaidType DEF One

(* A set that gains at most one element has at most one more.                *)
LEMMA GrowsByOne ==
  ASSUME NEW S, NEW T, NEW x, IsFiniteSet(S), T \subseteq S \union {x}
  PROVE  IsFiniteSet(T) /\ Cardinality(T) <= Cardinality(S) + 1
<1>1. /\ IsFiniteSet(S \union {x}) /\ Cardinality(S) \in Nat
      /\ Cardinality(S \union {x}) <= Cardinality(S) + 1
  <2>1. Cardinality(S) \in Nat
    BY FS_CardinalityType
  <2>2. /\ IsFiniteSet(S \union {x})
        /\ Cardinality(S \union {x}) =
             IF x \in S THEN Cardinality(S) ELSE Cardinality(S) + 1
    BY FS_AddElement
  <2>3. QED  BY <2>1, <2>2
<1>2. T \in SUBSET (S \union {x})
  OBVIOUS
<1>3. IsFiniteSet(T) /\ Cardinality(T) <= Cardinality(S \union {x})
  BY <1>1, <1>2, FS_Subset
<1>4. Cardinality(T) \in Nat /\ Cardinality(S \union {x}) \in Nat
  BY <1>1, <1>3, FS_CardinalityType
<1>5. QED
  BY <1>1, <1>3, <1>4

(* Nothing bought, and no attempt over: fewer zombies, the same account.     *)
LEMMA TallyKept ==
  ASSUME StageTypeOK, IsFiniteSet(bought), RowBook, Tally,
         bought' = bought,
         \A c \in Cities : Zombies(c)' \subseteq Zombies(c),
         Spent' = Spent, Known' = Known
  PROVE  Tally'
<1>1. ASSUME NEW c \in Cities
      PROVE  /\ Paid(c)' + Cardinality(Zombies(c)') <= Spent' + One(c \in Known')
             /\ Paid(c)' + Cardinality(Zombies(c)') <= MaxAttempts
  <2>1. Zombies(c)' \in SUBSET Zombies(c)
    OBVIOUS
  <2>2. Cardinality(Zombies(c)') <= Cardinality(Zombies(c)) /\ IsFiniteSet(Zombies(c)')
    BY <2>1, Counts, FS_Subset
  <2>3. Cardinality(Zombies(c)') \in Nat
    BY <2>2, FS_CardinalityType
  <2>4. Paid(c)' = Paid(c)
    BY DEF Paid
  <2>5. One(c \in Known') = One(c \in Known) /\ One(c \in Known) \in {0, 1}
    BY DEF One
  <2>6. PICK p \in Nat, z \in Nat, y \in Nat :
          p = Paid(c) /\ z = Cardinality(Zombies(c)) /\ y = Cardinality(Zombies(c)')
    BY <2>3, Counts
  <2>7. y <= z /\ p + z <= Spent + One(c \in Known) /\ p + z <= MaxAttempts
    BY <2>2, <2>6 DEF Tally
  <2>8. Spent \in Nat /\ MaxAttempts \in Nat
    BY Counts
  <2>9. p + y <= Spent + One(c \in Known) /\ p + y <= MaxAttempts
    BY <2>5, <2>7, <2>8
  <2>10. QED
    BY <2>4, <2>5, <2>6, <2>9
<1>2. QED
  BY <1>1 DEF Tally, One

(* An attempt is over and counted: it may have left a purchase unsaved, or   *)
(* become one that can still buy, never both.                                *)
LEMMA TallyEnds ==
  ASSUME StageTypeOK, IsFiniteSet(bought), RowBook, Tally, NEW w \in Workers,
         bought' = bought, Active, owner = w, attempts' = attempts, saved' = saved,
         ~Active',
         \A c \in Cities : /\ Zombies(c)' \subseteq Zombies(c) \union {w}
                           /\ c \in ck[w].submitted => Zombies(c)' \subseteq Zombies(c)
  PROVE  Tally'
<1>1. Spent' = attempts /\ Spent = attempts - 1 /\ Known = ck[w].submitted
      /\ Known' = saved.submitted
  BY DEF Spent, Known
<1>2. ASSUME NEW c \in Cities
      PROVE  /\ Paid(c)' + Cardinality(Zombies(c)') <= Spent' + One(c \in Known')
             /\ Paid(c)' + Cardinality(Zombies(c)') <= MaxAttempts
  <2>1. Cardinality(Zombies(c)') \in Nat
        /\ Cardinality(Zombies(c)') <= Cardinality(Zombies(c)) + 1
    BY Counts, GrowsByOne, FS_CardinalityType
  <2>2. Paid(c)' = Paid(c)
    BY DEF Paid
  <2>3. One(c \in Known') \in {0, 1}
    BY DEF One
  <2>4. PICK p \in Nat, z \in Nat, y \in Nat :
          /\ p = Paid(c) /\ z = Cardinality(Zombies(c)) /\ y = Cardinality(Zombies(c)')
          /\ p + z <= Spent + One(c \in Known) /\ p + z <= MaxAttempts
    BY <2>1, Counts DEF Tally
  <2>5. /\ Spent \in Nat /\ attempts \in Nat /\ MaxAttempts \in Nat
        /\ Spent = attempts - 1 /\ Spent' = attempts /\ attempts <= MaxAttempts
    BY <1>1, Counts
  <2>6. CASE c \in ck[w].submitted
    <3>1. Zombies(c)' \in SUBSET Zombies(c)
      BY <2>6
    <3>2. y <= z
      <4>1. IsFiniteSet(Zombies(c))
        BY Counts
      <4>2. Cardinality(Zombies(c)') <= Cardinality(Zombies(c))
        BY <3>1, <4>1, FS_Subset
      <4>3. QED  BY <2>4, <4>2
    <3>3. One(c \in Known) = 1
      BY <1>1, <2>6 DEF One
    <3>4. p + y <= attempts /\ p + y <= MaxAttempts
      <4>1. p + z <= attempts /\ p + z <= MaxAttempts
        BY <2>4, <2>5, <3>3
      <4>2. attempts \in Nat /\ MaxAttempts \in Nat
        BY <2>5
      <4>3. QED  BY <3>2, <4>1, <4>2
    <3>5. p + y <= Spent' + One(c \in Known')
      BY <2>3, <2>5, <3>4
    <3>6. QED  BY <2>2, <2>4, <3>4, <3>5
  <2>7. CASE c \notin ck[w].submitted
    <3>1. One(c \in Known) = 0
      BY <1>1, <2>7 DEF One
    <3>2. y <= z + 1
      BY <2>1, <2>4
    <3>3. p + y <= attempts /\ p + y <= MaxAttempts
      <4>1. p + z <= attempts - 1
        BY <2>4, <2>5, <3>1
      <4>2. attempts \in Nat /\ MaxAttempts \in Nat /\ attempts <= MaxAttempts
        BY <2>5
      <4>3. p + y <= attempts
        BY <3>2, <4>1, <4>2
      <4>4. QED  BY <4>2, <4>3
    <3>4. p + y <= Spent' + One(c \in Known')
      BY <2>3, <2>5, <3>3
    <3>5. QED  BY <2>2, <2>4, <3>3, <3>4
  <2>8. QED  BY <2>6, <2>7
<1>3. QED
  BY <1>2 DEF Tally, One

(* A city is bought: the next attempt will find it submitted, or a zombie has *)
(* used up its purchase.                                                     *)
LEMMA TallyBuys ==
  ASSUME StageTypeOK, IsFiniteSet(bought), RowBook, BookInv, Tally,
         NEW w \in Workers, CreateTask(w)
  PROVE  Tally'
<1>1. PICK task \in Tasks, d \in Checkpoints :
         /\ task.city = Head(ck[w].unsubmitted)
         /\ bought' = bought \union {task}
         /\ ck' = [ck EXCEPT ![w] = d]
         /\ d.phase = ck[w].phase
         /\ d.submitted = ck[w].submitted \union {task.city}
         /\ d.unsubmitted = Tail(ck[w].unsubmitted)
         /\ task.n = Paid(task.city) + 1
         /\ d.tasks = Append(ck[w].tasks, task) /\ d.balance = ck[w].balance
  BY Purchase, Zenon
<1>2. /\ at[w] = "submit" /\ at' = at /\ owner' = owner /\ attempts' = attempts
      /\ saved' = saved /\ ck[w].unsubmitted # <<>>
  BY DEF CreateTask, CanSubmit, Running, row
<1>3. task.city \in Cities /\ task.city \notin ck[w].submitted
  <2>1. ck[w].unsubmitted \in Seq(Cities)
    BY DEF StageTypeOK, Checkpoints
  <2>2. task.city \in ToSet(ck[w].unsubmitted)
    BY <1>1, <1>2, <2>1, HeadAndTail
  <2>3. QED  BY <2>2 DEF BookInv, CityBook, Tasks
<1>4. /\ ck'[w] = d /\ \A v \in Workers \ {w} : ck'[v] = ck[v]
      /\ Active' = Active /\ Spent' = Spent
  BY <1>1, <1>2 DEF StageTypeOK, Active, Spent
<1>5. /\ Paid(task.city)' \in Nat /\ Paid(task.city)' <= Paid(task.city) + 1
      /\ \A c \in Cities \ {task.city} : Paid(c)' = Paid(c)
  <2>1. IsFiniteSet({t \in bought : t.city = task.city})
    BY PaidType
  <2>2. {t \in bought' : t.city = task.city}
          \subseteq {t \in bought : t.city = task.city} \union {task}
    BY <1>1
  <2>3. Cardinality({t \in bought' : t.city = task.city})
          <= Cardinality({t \in bought : t.city = task.city}) + 1
        /\ IsFiniteSet({t \in bought' : t.city = task.city})
    BY <2>1, <2>2, GrowsByOne
  <2>4. ASSUME NEW c \in Cities \ {task.city}
        PROVE  Paid(c)' = Paid(c)
    <3>1. {t \in bought' : t.city = c} = {t \in bought : t.city = c}
      BY <1>1
    <3>2. QED  BY <3>1 DEF Paid
  <2>5. QED  BY <2>3, <2>4, FS_CardinalityType DEF Paid
<1>6. \A c \in Cities : Zombies(c)' \subseteq Zombies(c) /\ (owner # w => w \notin Zombies(task.city)')
  BY <1>1, <1>2, <1>4 DEF Zombies
<1>7. ASSUME NEW c \in Cities
      PROVE  /\ Paid(c)' + Cardinality(Zombies(c)') <= Spent' + One(c \in Known')
             /\ Paid(c)' + Cardinality(Zombies(c)') <= MaxAttempts
  <2>1. Zombies(c)' \in SUBSET Zombies(c)
    BY <1>6
  <2>2. Cardinality(Zombies(c)') <= Cardinality(Zombies(c)) /\ IsFiniteSet(Zombies(c)')
    BY <2>1, Counts, FS_Subset
  <2>3. Cardinality(Zombies(c)') \in Nat
    BY <2>2, FS_CardinalityType
  <2>a. /\ Paid(c) \in Nat /\ Cardinality(Zombies(c)) \in Nat /\ Spent \in Nat
        /\ One(c \in Known) \in {0, 1} /\ MaxAttempts \in Nat
        /\ Paid(c) + Cardinality(Zombies(c)) <= Spent + One(c \in Known)
        /\ Paid(c) + Cardinality(Zombies(c)) <= MaxAttempts
    BY Counts DEF Tally
  <2>b. c # task.city => Paid(c)' = Paid(c)
    BY <1>5
  <2>c. c = task.city => Paid(c)' \in Nat /\ Paid(c)' <= Paid(c) + 1
    BY <1>5
  <2>4. CASE c # task.city
    <3>1. c \in Known' <=> c \in Known
      BY <1>1, <1>2, <1>4, <2>4 DEF Known, Active
    <3>2. One(c \in Known') = One(c \in Known)
      BY <3>1 DEF One
    <3>3. QED
      BY <1>4, <2>2, <2>3, <2>4, <2>a, <2>b, <3>2
  <2>5. CASE c = task.city /\ owner = w
    <3>1. Active /\ c \notin Known /\ c \in Known'
      BY <1>1, <1>2, <1>3, <1>4, <2>5 DEF Known, Active
    <3>2. One(c \in Known) = 0 /\ One(c \in Known') = 1
      BY <3>1 DEF One
    <3>3. Spent + 1 <= MaxAttempts
      BY <3>1, Counts DEF Spent
    <3>4. QED
      BY <1>4, <2>2, <2>3, <2>5, <2>a, <2>c, <3>2, <3>3
  <2>6. CASE c = task.city /\ owner # w
    <3>1. w \in Zombies(c)
      BY <1>2, <1>3, <2>6 DEF Zombies
    <3>2. Zombies(c)' \in SUBSET (Zombies(c) \ {w})
      BY <1>6, <2>6
    <3>3. /\ IsFiniteSet(Zombies(c) \ {w})
          /\ Cardinality(Zombies(c) \ {w}) = Cardinality(Zombies(c)) - 1
      BY <3>1, Counts, FS_RemoveElement
    <3>4. Cardinality(Zombies(c)') <= Cardinality(Zombies(c)) - 1
      BY <3>2, <3>3, FS_Subset
    <3>5. c \in Known' <=> c \in Known
      BY <1>1, <1>2, <1>4, <2>6 DEF Known, Active
    <3>6. One(c \in Known') = One(c \in Known)
      BY <3>5 DEF One
    <3>7. QED
      BY <1>4, <2>3, <2>6, <2>a, <2>c, <3>4, <3>6
  <2>7. QED  BY <2>4, <2>5, <2>6
<1>8. QED
  BY <1>7 DEF Tally, One

(* A worker in the handler does something that neither buys nor leaves.      *)
LEMMA RowWork ==
  ASSUME StageTypeOK, IsFiniteSet(bought), RowBook, Tally,
         NEW w \in Workers, NEW d \in Checkpoints, NEW l \in Places \ {"idle"},
         ck' = [ck EXCEPT ![w] = d], at' = [at EXCEPT ![w] = l], at[w] # "idle",
         d.submitted = ck[w].submitted, bought' = bought,
         state' = state, owner' = owner, attempts' = attempts,
         saved' = saved \/ (owner = w /\ saved'.submitted = d.submitted),
         owner = w /\ l \in Passing => saved'.submitted = d.submitted
  PROVE  RowBook' /\ Tally'
<1>1. /\ \A v \in Workers : ck'[v].submitted = ck[v].submitted
      /\ \A v \in Workers : at'[v] = "idle" <=> at[v] = "idle"
      /\ \A v \in Workers \ {w} : ck'[v] = ck[v] /\ at'[v] = at[v]
      /\ ck'[w] = d /\ at'[w] = l
  BY DEF StageTypeOK
<1>2. Active' = Active /\ Spent' = Spent
  BY <1>1 DEF Active, Spent
<1>3. Known' = Known
  <2>1. CASE Active
    BY <1>1, <1>2, <2>1 DEF Known, Active
  <2>2. CASE ~Active
    BY <1>1, <1>2, <2>2 DEF Known, Active
  <2>3. QED  BY <2>1, <2>2
<1>4. \A c \in Cities : Zombies(c)' \subseteq Zombies(c)
  BY <1>1, <1>2 DEF Zombies
<1>5. Tally'
  BY <1>2, <1>3, <1>4, TallyKept
<1>6. RowBook'
  BY <1>1, <1>2 DEF RowBook, Active
<1>7. QED
  BY <1>5, <1>6

(* A worker's memory is lost with the row as it was.                         *)
LEMMA RowAbandoned ==
  ASSUME StageTypeOK, IsFiniteSet(bought), RowBook, Tally, NEW w \in Workers, at[w] # "idle",
         Leave(w), bought' = bought, saved' = saved,
         state' = state, owner' = owner, attempts' = attempts
  PROVE  RowBook' /\ Tally'
<1>1. /\ \A v \in Workers \ {w} : ck'[v] = ck[v] /\ at'[v] = at[v]
      /\ at'[w] = "idle"
  BY DEF StageTypeOK, Leave, Goto
<1>2. RowBook'
  BY <1>1 DEF RowBook, Active
<1>3. CASE owner = w
  <2>1. Active /\ ~Active'
    BY <1>1, <1>3 DEF Active
  <2>2. \A c \in Cities : Zombies(c)' \subseteq Zombies(c)
    BY <1>1, <1>3, <2>1 DEF Zombies
  <2>3. QED
    BY <1>2, <1>3, <2>1, <2>2, TallyEnds
<1>4. CASE owner # w
  <2>1. Active' = Active /\ Spent' = Spent /\ Known' = Known
    BY <1>1, <1>4 DEF Active, Spent, Known
  <2>2. \A c \in Cities : Zombies(c)' \subseteq Zombies(c)
    BY <1>1, <2>1 DEF Zombies
  <2>3. QED
    BY <1>2, <2>1, <2>2, TallyKept
<1>5. QED
  BY <1>3, <1>4

(* The row lets the lease go, and the attempt stays counted.                 *)
LEMMA RowReleased ==
  ASSUME StageTypeOK, IsFiniteSet(bought), RowBook, Tally, NEW w \in Workers, owner = w,
         state' # "ACTIVE", owner' = NoWorker, attempts' = attempts,
         bought' = bought, saved' = saved,
         \A v \in Workers \ {w} : ck'[v] = ck[v] /\ at'[v] = at[v],
         at'[w] = "idle" \/ (at[w] # "idle" /\ ck'[w] = ck[w])
  PROVE  RowBook' /\ Tally'
<1>1. ~Active' /\ RowBook'
  BY DEF Active, RowBook
<1>2. CASE Active
  <2>1. ASSUME NEW c \in Cities
        PROVE  /\ Zombies(c)' \subseteq Zombies(c) \union {w}
               /\ c \in ck[w].submitted => Zombies(c)' \subseteq Zombies(c)
    BY <1>1 DEF Zombies
  <2>2. QED
    BY <1>1, <1>2, <2>1, TallyEnds
<1>3. CASE ~Active
  <2>1. Spent' = Spent /\ Known' = Known /\ at[w] = "idle"
    BY <1>1, <1>3 DEF Spent, Known, Active
  <2>2. \A c \in Cities : Zombies(c)' \subseteq Zombies(c)
    BY <1>1, <1>3, <2>1 DEF Zombies
  <2>3. QED
    BY <1>1, <2>1, <2>2, TallyKept
<1>4. QED
  BY <1>2, <1>3

(* A step keeps the row and the tally.                                       *)
LEMMA RowStep ==
  ASSUME StageTypeOK, IsFiniteSet(bought), BookInv, RowBook, Tally, [Next]_vars
  PROVE  RowBook' /\ Tally'
<1> USE DEF Running, Goto
<1>0. /\ ck \in [Workers -> Checkpoints] /\ at \in [Workers -> Places]
      /\ \A w \in Workers : ck[w] \in Checkpoints
      /\ \A w \in Workers : ck = [ck EXCEPT ![w] = ck[w]]
  BY DEF StageTypeOK, Places
<1>1. CASE /\ UNCHANGED <<owner, attempts, saved, at, ck, bought>>
           /\ state' = "ACTIVE" <=> state = "ACTIVE"
  <2>1. /\ Active' = Active /\ Spent' = Spent /\ Known' = Known /\ RowBook'
        /\ \A c \in Cities : Zombies(c)' = Zombies(c)
    BY <1>1 DEF Active, Spent, Known, RowBook, Zombies
  <2>2. QED
    BY <1>1, <2>1, TallyKept
<1>2. CASE Done \/ UNCHANGED vars \/ RequestCancel \/ Wake \/ DeadlinePasses
  BY <1>1, <1>2 DEF Done, vars, row, RequestCancel, Wake, DeadlinePasses, memory, manus
<1>3. CASE Lapse
  <2>1. PICK w \in Workers : owner = w
    BY <1>3 DEF Lapse, RowBook, StageTypeOK
  <2>2. /\ UNCHANGED <<attempts, saved, at, ck, bought>>
        /\ owner' = NoWorker /\ state' # "ACTIVE"
    BY <1>3 DEF Lapse, memory, manus
  <2>3. QED
    BY <2>1, <2>2, RowReleased
<1>4. ASSUME NEW w \in Workers, Claim(w)
      PROVE  RowBook' /\ Tally'
  <2>1. /\ state' = "ACTIVE" /\ owner' = w /\ attempts' = attempts + 1 /\ at[w] = "idle"
        /\ saved' = saved /\ bought' = bought /\ state = "QUEUED"
    BY <1>4 DEF Claim, manus
  <2>2. saved \in Checkpoints /\ Resume(w, saved)
    BY <1>4 DEF Claim, StageTypeOK
  <2>3. PICK d \in Checkpoints :
           /\ d = (IF saved.phase = "MANUS" THEN Opened(saved) ELSE saved)
           /\ ck' = [ck EXCEPT ![w] = d]
           /\ at' = [at EXCEPT ![w] = IF saved.phase = "PLANNING" THEN "plan"
                                      ELSE IF saved.phase = "MANUS" THEN "submit" ELSE "rest"]
    BY <2>2, ResumeType
  <2>4. d.submitted = saved.submitted
    BY <2>2, <2>3, OpenedType
  <2>5. /\ ck'[w] = d /\ at'[w] \in {"plan", "submit", "rest"}
        /\ \A v \in Workers \ {w} : ck'[v] = ck[v] /\ at'[v] = at[v]
    BY <1>0, <2>3
  <2>6. ~Active /\ Active' /\ owner = NoWorker
    BY <2>1, <2>5 DEF Active, RowBook
  <2>7. attempts \in Nat
    BY DEF StageTypeOK
  <2>8. Spent' = Spent /\ Known' = Known
    <3>1. Spent = attempts /\ Spent' = attempts' - 1
      BY <2>6 DEF Spent
    <3>2. attempts' - 1 = attempts
      BY <2>1, <2>7
    <3>3. Known = saved.submitted /\ Known' = d.submitted
      BY <2>1, <2>5, <2>6 DEF Known
    <3>4. QED  BY <2>4, <3>1, <3>2, <3>3
  <2>9. \A c \in Cities : Zombies(c)' \subseteq Zombies(c)
    BY <2>1, <2>5, <2>6 DEF Zombies
  <2>10. RowBook'
    BY <2>1, <2>4, <2>5, <2>7 DEF RowBook, Active, Passing
  <2>11. QED
    BY <2>1, <2>8, <2>9, <2>10, TallyKept
<1>5. ASSUME NEW w \in Workers, CreateTask(w)
      PROVE  RowBook' /\ Tally'
  <2>1. PICK task \in Tasks, d \in Checkpoints :
           /\ task.city = Head(ck[w].unsubmitted)
           /\ bought' = bought \union {task}
           /\ ck' = [ck EXCEPT ![w] = d]
           /\ d.phase = ck[w].phase
           /\ d.submitted = ck[w].submitted \union {task.city}
           /\ d.unsubmitted = Tail(ck[w].unsubmitted)
           /\ task.n = Paid(task.city) + 1
           /\ d.tasks = Append(ck[w].tasks, task) /\ d.balance = ck[w].balance
    BY <1>5, Purchase, Zenon
  <2>2. UNCHANGED <<state, owner, attempts, saved, at>> /\ at[w] = "submit"
    BY <1>5 DEF CreateTask, CanSubmit, row
  <2>3. RowBook'
    BY <1>0, <2>1, <2>2 DEF RowBook, Active, Passing
  <2>4. QED
    BY <1>5, <2>3, TallyBuys
<1>6. ASSUME NEW w \in Workers, Plan(w) \/ SaveEnrich(w)
      PROVE  RowBook' /\ Tally'
  <2>1. PICK c : /\ saved' = c /\ Resume(w, c) /\ owner = w
                 /\ c = [ck[w] EXCEPT !.phase = "MANUS"] \/ c = [ck[w] EXCEPT !.phase = "ENRICHING"]
    BY <1>6 DEF Plan, SaveEnrich, Save
  <2>2. UNCHANGED <<state, owner, attempts, bought>> /\ at[w] # "idle"
    BY <1>6 DEF Plan, SaveEnrich, row, manus
  <2>3. c \in Checkpoints /\ c.submitted = ck[w].submitted
    BY <1>0, <2>1 DEF Checkpoints
  <2>4. PICK d \in Checkpoints :
           /\ d = (IF c.phase = "MANUS" THEN Opened(c) ELSE c)
           /\ ck' = [ck EXCEPT ![w] = d]
           /\ at' = [at EXCEPT ![w] = IF c.phase = "PLANNING" THEN "plan"
                                      ELSE IF c.phase = "MANUS" THEN "submit" ELSE "rest"]
    BY <2>1, <2>3, ResumeType
  <2>5. d.submitted = ck[w].submitted
    BY <2>3, <2>4, OpenedType
  <2>6. PICK l \in Places \ {"idle"} : at' = [at EXCEPT ![w] = l]
    <3>1. \E l \in {"plan", "submit", "rest"} : at' = [at EXCEPT ![w] = l]
      BY <2>4
    <3>2. QED  BY <3>1 DEF Places
  <2>7. QED
    BY <2>1, <2>2, <2>3, <2>4, <2>5, <2>6, RowWork
<1>7. ASSUME NEW w \in Workers, CreateFails(w) \/ Poll(w) \/ Ingest(w)
      PROVE  RowBook' /\ Tally'
  <2>1. /\ UNCHANGED <<state, owner, attempts, saved, bought>>
        /\ at[w] \in {"submit", "poll", "ingest"}
    BY <1>7 DEF CreateFails, CanSubmit, Poll, Ingest, row, manus
  <2>2. at' = [at EXCEPT ![w] = at[w]] \/ at' = [at EXCEPT ![w] = "savecompanies"]
    BY <1>0, <1>7 DEF CreateFails, Poll, Ingest
  <2>3. PICK d \in Checkpoints : ck' = [ck EXCEPT ![w] = d] /\ d.submitted = ck[w].submitted
    <3>1. CASE CreateFails(w)
      BY <3>1, FailedCall
    <3>2. CASE Poll(w)
      BY <3>2, PolledTask
    <3>3. CASE Ingest(w)
      <4> DEFINE d == [ck[w] EXCEPT !.companies = @ \union (found[w] \ visited)]
      <4>1. ck' = [ck EXCEPT ![w] = d]
        BY <3>3 DEF Ingest
      <4>2. d \in Checkpoints /\ d.submitted = ck[w].submitted
        BY <1>0 DEF Checkpoints, StageTypeOK
      <4> HIDE DEF d
      <4>3. QED  BY <4>1, <4>2
    <3>4. QED  BY <1>7, <3>1, <3>2, <3>3
  <2>4. owner = w /\ at[w] \in Passing => saved'.submitted = d.submitted
    BY <2>1, <2>3 DEF RowBook, Active
  <2>5. CASE at' = [at EXCEPT ![w] = at[w]]
    <3>1. at[w] \in Places \ {"idle"}
      BY <2>1 DEF Places
    <3>2. QED  BY <2>1, <2>3, <2>4, <2>5, <3>1, RowWork
  <2>6. CASE ~(at' = [at EXCEPT ![w] = at[w]])
    <3>1. Ingest(w)
      BY <1>0, <1>7, <2>6 DEF CreateFails, Poll
    <3>2. at[w] \in Passing /\ "savecompanies" \in Places \ {"idle"}
      BY <3>1 DEF Ingest, Passing, Places
    <3>3. QED  BY <2>1, <2>2, <2>3, <2>4, <2>6, <3>2, RowWork
  <2>7. QED  BY <2>5, <2>6
<1>8. ASSUME NEW w \in Workers, SaveTasks(w) \/ SavePoll(w) \/ SaveCompanies(w)
      PROVE  RowBook' /\ Tally'
  <2>1. UNCHANGED <<state, owner, attempts, bought>> /\ at[w] # "idle" /\ owner = w
    BY <1>8 DEF SaveTasks, SavePoll, SaveCompanies, Save, row, manus
  <2>2. PICK d \in Checkpoints : /\ ck' = [ck EXCEPT ![w] = d]
                                 /\ d.submitted = ck[w].submitted
                                 /\ saved'.submitted = d.submitted
    <3>1. CASE SaveTasks(w)
      <4>1. ck' = ck /\ saved' = [ck[w] EXCEPT !.seen = FALSE]
        BY <3>1 DEF SaveTasks, Save
      <4>2. saved'.submitted = ck[w].submitted
        BY <1>0, <4>1 DEF Checkpoints
      <4>3. QED  BY <1>0, <4>1, <4>2
    <3>2. CASE SavePoll(w)
      <4> DEFINE b == ck[w].seen \/ found[w] # {}
      <4>1. ck' = [ck EXCEPT ![w] = [ck[w] EXCEPT !.seen = b]]
            /\ saved' = [ck[w] EXCEPT !.seen = b]
        BY <3>2 DEF SavePoll, Save
      <4>2. b \in BOOLEAN
        BY <1>0 DEF Checkpoints
      <4> HIDE DEF b
      <4>3. PICK d \in Checkpoints : d = [ck[w] EXCEPT !.seen = b]
                                    /\ d.submitted = ck[w].submitted
        BY <1>0, <4>2, SeenType
      <4>4. QED  BY <4>1, <4>3
    <3>3. CASE SaveCompanies(w)
      BY <1>0, <3>3 DEF SaveCompanies, Save, memory
    <3>4. QED  BY <1>8, <3>1, <3>2, <3>3
  <2>3. \E l \in Places \ {"idle"} : at' = [at EXCEPT ![w] = l]
    <3>1. \E l \in {"raise", "poll", "ingest", "decide"} : at' = [at EXCEPT ![w] = l]
      BY <1>8 DEF SaveTasks, SavePoll, SaveCompanies
    <3>2. QED  BY <3>1 DEF Places
  <2>4. QED
    BY <2>1, <2>2, <2>3, RowWork
<1>9. ASSUME NEW w \in Workers, Decide(w) \/ Cancel(w) \/ Raise(w)
      PROVE  RowBook' /\ Tally'
  <2>1. UNCHANGED <<state, owner, attempts, saved, ck, bought>> /\ at[w] # "idle"
    BY <1>9 DEF Decide, Cancel, Raise, row, memory, manus
  <2>2. PICK l \in Places \ {"idle"} : at' = [at EXCEPT ![w] = l]
                                       /\ (l \in Passing => at[w] \in Passing)
    <3>1. CASE Decide(w)
      <4>1. \E l \in {"cancel", "saveenrich", "park"} : at' = [at EXCEPT ![w] = l]
        BY <3>1 DEF Decide
      <4>2. at[w] \in Passing
        BY <3>1 DEF Decide, Passing
      <4>3. QED  BY <4>1, <4>2 DEF Places
    <3>2. CASE Cancel(w)
      <4>1. \E l \in {"finishcancel", "cancelled"} : at' = [at EXCEPT ![w] = l]
        BY <3>2 DEF Cancel
      <4>2. at[w] \in Passing
        BY <3>2 DEF Cancel, Passing
      <4>3. QED  BY <4>1, <4>2 DEF Places
    <3>3. CASE Raise(w)
      <4>1. at' = [at EXCEPT ![w] = "raise"] /\ "raise" \in Places \ {"idle"}
            /\ "raise" \notin Passing
        BY <3>3 DEF Raise, Places, Passing
      <4>2. QED  BY <4>1
    <3>4. QED  BY <1>9, <3>1, <3>2, <3>3
  <2>3. owner = w /\ l \in Passing => saved'.submitted = ck[w].submitted
    BY <2>1, <2>2 DEF RowBook, Active
  <2>4. QED
    BY <1>0, <2>1, <2>2, <2>3, RowWork
<1>10. ASSUME NEW w \in Workers, FinishCancelled(w)
       PROVE  RowBook' /\ Tally'
  <2>1. /\ UNCHANGED <<attempts, saved, ck, bought>> /\ at[w] = "finishcancel"
        /\ at' = [at EXCEPT ![w] = "cancelled"]
        /\ IF owner = w THEN state' = "CANCELLED" /\ owner' = NoWorker
           ELSE UNCHANGED <<state, owner>>
    BY <1>10 DEF FinishCancelled, Release, memory, manus
  <2>2. CASE owner = w
    BY <1>0, <2>1, <2>2, RowReleased
  <2>3. CASE owner # w
    <3>1. "cancelled" \in Places \ {"idle"}
      BY DEF Places
    <3>2. QED  BY <1>0, <2>1, <2>3, <3>1, RowWork
  <2>4. QED  BY <2>2, <2>3
<1>11. ASSUME NEW w \in Workers, Return(w)
       PROVE  RowBook' /\ Tally'
  <2>1. /\ UNCHANGED <<attempts, saved, bought>> /\ owner = w
        /\ state' # "ACTIVE" /\ owner' = NoWorker
        /\ ck' = [ck EXCEPT ![w] = NewCheckpoint] /\ at' = [at EXCEPT ![w] = "idle"]
    BY <1>11 DEF Return, Release, Leave, Outcome, manus
  <2>2. QED
    BY <1>0, <2>1, RowReleased
<1>12. ASSUME NEW w \in Workers, Lost(w) \/ Crash(w)
       PROVE  RowBook' /\ Tally'
  <2>1. at[w] # "idle" /\ Leave(w) /\ UNCHANGED <<state, owner, attempts, saved, bought>>
    BY <1>12 DEF Lost, FencedStep, Crash, row, manus
  <2>2. QED
    BY <2>1, RowAbandoned
<1>13. ASSUME NEW w \in Workers, Park(w)
       PROVE  RowBook' /\ Tally'
  <2>1. /\ UNCHANGED <<saved, bought>> /\ owner = w /\ at[w] = "park"
        /\ state' = "WAITING_FOR_CAPACITY" /\ owner' = NoWorker
        /\ attempts' = attempts - 1
        /\ ck' = [ck EXCEPT ![w] = NewCheckpoint] /\ at' = [at EXCEPT ![w] = "idle"]
    BY <1>13 DEF Park, Release, Leave, manus
  <2>2. /\ at'[w] = "idle"
        /\ \A v \in Workers \ {w} : ck'[v] = ck[v] /\ at'[v] = at[v]
    BY <1>0, <2>1
  <2>3. Active /\ ~Active' /\ saved.submitted = ck[w].submitted
    BY <2>1 DEF Active, RowBook, Passing
  <2>4. Spent' = Spent /\ Known' = Known
    BY <2>1, <2>3 DEF Spent, Known
  <2>5. \A c \in Cities : Zombies(c)' \subseteq Zombies(c)
    BY <2>2, <2>3, <2>1 DEF Zombies
  <2>6. RowBook'
    BY <2>1 DEF RowBook, Active
  <2>7. QED
    BY <2>1, <2>4, <2>5, <2>6, TallyKept
<1>14. QED
  BY <1>2, <1>3, <1>4, <1>5, <1>6, <1>7, <1>8, <1>9, <1>10, <1>11, <1>12, <1>13
  DEF Next, Step

-----------------------------------------------------------------------------
(* Credits.                                                                  *)

(* The credits of paid tasks are counted in naturals.                        *)
LEMMA PricesFinite ==
  ASSUME NEW b \in SUBSET Tasks, IsFiniteSet(b), NEW s \in SUBSET b
  PROVE  IsFiniteSet(s) /\ IsFiniteSet(Units(Price, s)) /\ Total(Price, s) \in Nat
<1>1. IsFiniteSet(s)
  BY FS_Subset
<1>2. \A t \in s : Price[t] \in Nat
  BY DEF Price, Tasks
<1>3. IsFiniteSet(Units(Price, s))
  BY <1>1, <1>2, UnitsFinite
<1>4. QED
  BY <1>1, <1>3, TotalMonotone

(* The sum NeverOvercharged takes.                                           *)
LEMMA CreditsAreTotal ==
  ASSUME NEW s \in SUBSET Tasks, IsFiniteSet(s)
  PROVE  MapThenSumSet(LAMBDA t : Credits[t.city], s) = Total(Price, s)
<1> DEFINE Eq(g) == g = [u \in SUBSET s |->
                           IF u = {} THEN 0
                           ELSE Credits[(CHOOSE x \in u : TRUE).city]
                                + g[u \ {CHOOSE x \in u : TRUE}]]
           it == CHOOSE g : Eq(g)
<1>1. MapThenSumSet(LAMBDA t : Credits[t.city], s) = it[s]
  BY DEF MapThenSumSet, MapThenFoldSet
<1>2. \A t \in s : Price[t] \in Nat
  BY DEF Price, Tasks
<1>3. ASSUME NEW g
      PROVE  Eq(g) <=> Sums(g, Price, s)
  <2>1. ASSUME NEW u \in SUBSET s, u # {}
        PROVE  Price[Some(u)] = Credits[(CHOOSE x \in u : TRUE).city]
    <3>1. Some(u) \in Tasks /\ Some(u) = CHOOSE x \in u : TRUE
      BY <2>1 DEF Some
    <3>2. Price[Some(u)] = Credits[Some(u).city]
      BY <3>1 DEF Price
    <3>3. QED  BY <3>1, <3>2
  <2>2. [u \in SUBSET s |-> IF u = {} THEN 0
                            ELSE Credits[(CHOOSE x \in u : TRUE).city]
                                 + g[u \ {CHOOSE x \in u : TRUE}]]
        = [u \in SUBSET s |-> IF u = {} THEN 0 ELSE Price[Some(u)] + g[u \ {Some(u)}]]
    BY <2>1 DEF Some
  <2>3. QED  BY <2>2 DEF Sums
<1> HIDE DEF Eq
<1>4. \E g : Eq(g)
  BY <1>2, <1>3, SumsExist
<1>5. Eq(it)
  BY <1>4
<1>6. it[s] = Total(Price, s)
  <2> HIDE DEF it
  <2> QED  BY <1>2, <1>3, <1>5, SumsUnique
<1>7. QED
  BY <1>1, <1>6

(* A sequence without repetitions is without the element that is removed.    *)
LEMMA RemoveFirstSet ==
  ASSUME NEW S, NEW s \in Seq(S), IsInjective(s), NEW e \in ToSet(s)
  PROVE  /\ IsInjective(RemoveFirst(s, e))
         /\ ToSet(RemoveFirst(s, e)) = ToSet(s) \ {e}
<1> DEFINE I == {i \in 1 .. Len(s) : s[i] = e}
<1>1. Len(s) \in Nat /\ DOMAIN s = 1 .. Len(s)
  BY LenProperties
<1>2. I # {}
  BY <1>1 DEF ToSet
<1>3. Min(I) \in I
  <2>1. I \subseteq Nat
    BY <1>1
  <2> HIDE DEF I
  <2>2. QED  BY <1>2, <2>1, MinMember
<1>4. PICK m \in 1 .. Len(s) : m = Min(I) /\ s[m] = e
  BY <1>3
<1>19. PICK n \in Nat : n = Len(s) /\ m \in 1 .. n
  BY <1>1
<1>5. n = Len(s) /\ m \in 1 .. n /\ m - 1 \in Nat /\ m + 1 \in Nat /\ n - m \in Nat /\ m \in Nat
  <2>1. m \in Int /\ n \in Int /\ 1 <= m /\ m <= n
    BY <1>19
  <2> HIDE DEF I
  <2>2. QED  BY <1>19, <2>1
<1>6. PICK r : r = RemoveFirst(s, e)
  OBVIOUS
<1>7. r = SubSeq(s, 1, m - 1) \o SubSeq(s, m + 1, n)
  BY <1>2, <1>4, <1>5, <1>6 DEF RemoveFirst, RemoveAt, SelectInSeq
<1>8. \A i, k \in 1 .. n : s[i] = s[k] => i = k
  BY <1>1, <1>5 DEF IsInjective
<1>9. PICK p \in Seq(S) : p = SubSeq(s, 1, m - 1) /\ Len(p) = m - 1 /\ \A i \in 1 .. m - 1 : p[i] = s[i]
  <2>1. 1 \in Int /\ m - 1 \in Int /\ (m - 1) - 1 + 1 = m - 1 /\ (1 <= m - 1 \/ m - 1 = 0)
    BY <1>5
  <2>2. \A i \in 1 .. m - 1 : s[i] \in S /\ 1 + i - 1 = i
    BY <1>1, <1>5, ElementOfSeq
  <2>3. /\ SubSeq(s, 1, m - 1) \in Seq(S)
        /\ Len(SubSeq(s, 1, m - 1)) = IF 1 <= m - 1 THEN (m - 1) - 1 + 1 ELSE 0
        /\ \A i \in 1 .. (m - 1) - 1 + 1 : SubSeq(s, 1, m - 1)[i] = s[1 + i - 1]
    BY <2>1, <2>2, SubSeqProperties
  <2>4. \A i \in 1 .. m - 1 : SubSeq(s, 1, m - 1)[i] = s[i]
    BY <2>1, <2>2, <2>3
  <2>5. Len(SubSeq(s, 1, m - 1)) = m - 1
    BY <2>1, <2>3
  <2>6. QED  BY <2>3, <2>4, <2>5
<1>10. PICK q \in Seq(S) : /\ q = SubSeq(s, m + 1, n) /\ Len(q) = n - m
                           /\ \A i \in 1 .. n - m : q[i] = s[i + m]
  <2>1. m + 1 \in Int /\ n \in Int /\ n - (m + 1) + 1 = n - m /\ (m + 1 <= n \/ n - m = 0)
    BY <1>5
  <2>2. \A i \in m + 1 .. n : s[i] \in S
    BY <1>1, <1>5, ElementOfSeq
  <2>3. /\ SubSeq(s, m + 1, n) \in Seq(S)
        /\ Len(SubSeq(s, m + 1, n)) = IF m + 1 <= n THEN n - (m + 1) + 1 ELSE 0
        /\ \A i \in 1 .. n - (m + 1) + 1 : SubSeq(s, m + 1, n)[i] = s[m + 1 + i - 1]
    BY <2>1, <2>2, SubSeqProperties
  <2>4. \A i \in 1 .. n - m : m + 1 + i - 1 = i + m
    BY <1>5
  <2>5. \A i \in 1 .. n - m : SubSeq(s, m + 1, n)[i] = s[i + m]
    BY <2>1, <2>3, <2>4
  <2>6. Len(SubSeq(s, m + 1, n)) = n - m
    <3>1. m + 1 <= n => Len(SubSeq(s, m + 1, n)) = n - m
      BY <2>1, <2>3
    <3>2. ~(m + 1 <= n) => n - m = 0
      BY <2>1
    <3>3. QED  BY <2>3, <3>1, <3>2
  <2>7. QED  BY <2>3, <2>5, <2>6
<1>11. r = p \o q
  BY <1>7, <1>9, <1>10
<1>12. r \in Seq(S) /\ Len(r) = n - 1
       /\ \A i \in 1 .. n - 1 : r[i] = IF i <= m - 1 THEN p[i] ELSE q[i - (m - 1)]
  <2>1. Len(p) + Len(q) = n - 1
    <3>1. (m - 1) + (n - m) = n - 1
      BY <1>5
    <3>2. QED  BY <1>9, <1>10, <3>1
  <2>2. Len(p) = m - 1
    BY <1>9
  <2>3. /\ p \o q \in Seq(S) /\ Len(p \o q) = Len(p) + Len(q)
        /\ \A i \in 1 .. Len(p) + Len(q) : (p \o q)[i] = IF i <= Len(p) THEN p[i] ELSE q[i - Len(p)]
    BY ConcatProperties
  <2>4. QED  BY <1>11, <2>1, <2>2, <2>3
<1>13. DOMAIN r = 1 .. n - 1
  BY <1>12, LenProperties
<1>14. ASSUME NEW i \in 1 .. n - 1
       PROVE  /\ i < m => r[i] = s[i] /\ i \in 1 .. n
              /\ i >= m => r[i] = s[i + 1] /\ i + 1 \in 1 .. n
  <2>1. i \in Int /\ m \in Int /\ n \in Int /\ i >= 1 /\ i <= n - 1
    BY <1>5
  <2>2. CASE i < m
    <3>1. i <= m - 1 /\ i \in 1 .. m - 1 /\ i \in 1 .. n
      BY <2>1, <2>2
    <3>2. QED  BY <1>9, <1>12, <2>2, <3>1
  <2>3. CASE i >= m
    <3>1. ~(i <= m - 1) /\ i - (m - 1) \in 1 .. n - m /\ i - (m - 1) + m = i + 1 /\ i + 1 \in 1 .. n
      BY <2>1, <2>3
    <3>2. QED  BY <1>10, <1>12, <2>1, <2>3, <3>1
  <2>4. QED  BY <2>1, <2>2, <2>3
<1>15. IsInjective(r)
  <2>1. ASSUME NEW i \in 1 .. n - 1, NEW k \in 1 .. n - 1, r[i] = r[k]
        PROVE  i = k
    <3>1. i \in Int /\ k \in Int /\ m \in Int
      BY <1>5
    <3>2. CASE i < m /\ k < m
      BY <1>8, <1>14, <2>1, <3>2
    <3>3. CASE i < m /\ k >= m
      <4>1. i = k + 1
        BY <1>8, <1>14, <2>1, <3>3
      <4>2. QED  BY <3>1, <3>3, <4>1
    <3>4. CASE i >= m /\ k < m
      <4>1. i + 1 = k
        BY <1>8, <1>14, <2>1, <3>4
      <4>2. QED  BY <3>1, <3>4, <4>1
    <3>5. CASE i >= m /\ k >= m
      <4>1. i + 1 = k + 1
        BY <1>8, <1>14, <2>1, <3>5
      <4>2. QED  BY <3>1, <4>1
    <3>6. QED  BY <3>1, <3>2, <3>3, <3>4, <3>5
  <2>2. QED  BY <1>13, <2>1 DEF IsInjective
<1>16. ASSUME NEW x \in ToSet(r)
       PROVE  x \in ToSet(s) /\ x # e
  <2>1. PICK i \in 1 .. n - 1 : x = r[i]
    BY <1>13 DEF ToSet
  <2>2. i \in Int /\ m \in Int
    BY <1>5
  <2>3. PICK k \in 1 .. n : x = s[k] /\ k # m
    <3>1. CASE i < m
      BY <1>14, <2>1, <2>2, <3>1
    <3>2. CASE i >= m
      <4>1. i + 1 # m
        BY <2>2, <3>2
      <4>2. QED  BY <1>14, <2>1, <3>2, <4>1
    <3>3. QED  BY <2>2, <3>1, <3>2
  <2>4. QED  BY <1>1, <1>4, <1>5, <1>8, <2>3 DEF ToSet
<1>17. ASSUME NEW x \in ToSet(s), x # e
       PROVE  x \in ToSet(r)
  <2>1. PICK k \in 1 .. n : x = s[k] /\ k # m
    BY <1>1, <1>4, <1>5, <1>17 DEF ToSet
  <2>2. k \in Int /\ m \in Int /\ n \in Int /\ 1 <= k /\ k <= n /\ 1 <= m /\ m <= n
    BY <1>5, <2>1
  <2>3. PICK i \in 1 .. n - 1 : r[i] = x
    <3>1. CASE k < m
      <4>1. k \in 1 .. n - 1
        BY <2>2, <3>1
      <4>2. QED  BY <1>14, <2>1, <3>1, <4>1
    <3>2. CASE k > m
      <4>1. k - 1 \in 1 .. n - 1 /\ k - 1 >= m /\ k - 1 + 1 = k
        BY <2>2, <3>2
      <4>2. QED  BY <1>14, <2>1, <4>1
    <3>3. QED  BY <2>1, <2>2, <3>1, <3>2
  <2>4. QED  BY <1>13, <2>3 DEF ToSet
<1>18. QED
  BY <1>6, <1>15, <1>16, <1>17

(* A checkpoint with other cities, or less credit on a key given up.         *)
LEMMA HonestKept ==
  ASSUME NEW b, NEW c \in Checkpoints, NEW d \in Checkpoints, Honest(c, b), d.tasks = c.tasks,
         \A k \in Keys : d.balance[k] \in {0, c.balance[k]}
  PROVE  Honest(d, b)
<1>1. \A k \in Keys : Settled(d, b, k) = Settled(c, b, k)
  BY DEF Settled
<1>2. QED
  BY <1>1 DEF Honest

(* Some other attempt buys a task.                                           *)
LEMMA HonestGrows ==
  ASSUME NEW b \in SUBSET Tasks, IsFiniteSet(b), NEW c \in Checkpoints, Honest(c, b), NEW t \in Tasks
  PROVE  Honest(c, b \union {t})
<1> DEFINE e == b \union {t}
<1>1. IsFiniteSet(e) /\ e \in SUBSET Tasks
  BY FS_AddElement
<1>2. ASSUME NEW k \in Keys, c.balance[k] > 0
      PROVE  Balance <= c.balance[k] + Total(Price, Settled(c, e, k))
  <2>1. Settled(c, b, k) \in SUBSET Settled(c, e, k) /\ Settled(c, e, k) \in SUBSET e
    BY DEF Settled
  <2>2. IsFiniteSet(Units(Price, Settled(c, e, k)))
    <3> HIDE DEF e
    <3> QED  BY <1>1, <2>1, PricesFinite
  <2>3. /\ Total(Price, Settled(c, b, k)) \in Nat /\ Total(Price, Settled(c, e, k)) \in Nat
        /\ Total(Price, Settled(c, b, k)) <= Total(Price, Settled(c, e, k))
    <3> HIDE DEF e
    <3> QED  BY <2>1, <2>2, TotalMonotone
  <2>4. Balance <= c.balance[k] + Total(Price, Settled(c, b, k)) /\ c.balance[k] \in Nat
    BY <1>2 DEF Honest, Checkpoints
  <2> HIDE DEF e
  <2>5. QED  BY <2>3, <2>4
<1>3. QED
  BY <1>2 DEF Honest

(* The attempt itself buys a new one.                                        *)
LEMMA HonestBuys ==
  ASSUME NEW b, NEW c \in Checkpoints, NEW d \in Checkpoints, Honest(c, b), NEW t \in Tasks,
         t \notin b, d.tasks = Append(c.tasks, t), d.balance = c.balance
  PROVE  Honest(d, b \union {t})
<1>1. c.tasks \in Seq(Tasks)
  BY DEF Checkpoints
<1>2. PICK n \in Nat : n = Len(c.tasks) /\ DOMAIN c.tasks = 1 .. n
  BY <1>1, LenProperties
<1>3. /\ DOMAIN d.tasks = 1 .. n + 1 /\ d.tasks[n + 1] = t
      /\ \A i \in 1 .. n : d.tasks[i] = c.tasks[i] /\ i \in 1 .. n + 1 /\ i # n + 1
  <2>1. d.tasks \in Seq(Tasks) /\ Len(d.tasks) = n + 1 /\ d.tasks[n + 1] = t
        /\ \A i \in 1 .. n : d.tasks[i] = c.tasks[i]
    BY <1>1, <1>2, AppendProperties
  <2>2. QED  BY <1>2, <2>1, LenProperties
<1>4. \A i \in 1 .. n + 1 : i \in 1 .. n \/ i = n + 1
  BY <1>2
<1>5. ToSet(d.tasks) = ToSet(c.tasks) \union {t}
  <2>1. n + 1 \in 1 .. n + 1
    BY <1>2
  <2>2. QED  BY <1>2, <1>3, <1>4, <2>1 DEF ToSet
<1>6. \A i \in 1 .. n : d.tasks[i] # t
  BY <1>2, <1>3 DEF Honest, ToSet
<1>7. IsInjective(d.tasks)
  <2>1. ASSUME NEW i \in 1 .. n + 1, NEW k \in 1 .. n + 1, d.tasks[i] = d.tasks[k]
        PROVE  i = k
    <3>1. CASE i \in 1 .. n /\ k \in 1 .. n
      BY <1>2, <1>3, <2>1, <3>1 DEF Honest, IsInjective
    <3>2. QED  BY <1>3, <1>4, <1>6, <2>1, <3>1
  <2>2. QED  BY <1>3, <2>1 DEF IsInjective
<1>8. \A k \in Keys : Settled(d, b \union {t}, k) = Settled(c, b, k)
  BY <1>5 DEF Settled
<1>9. QED
  BY <1>5, <1>7, <1>8 DEF Honest

(* A task is settled, for what it used or for nothing.                       *)
LEMMA HonestCloses ==
  ASSUME NEW b \in SUBSET Tasks, IsFiniteSet(b), NEW c \in Checkpoints, Honest(c, b),
         NEW t \in ToSet(c.tasks), NEW credits \in {0, Credits[t.city]}
  PROVE  /\ Honest(Closed(c, t, credits), b)
         /\ ToSet(Closed(c, t, credits).tasks) = ToSet(c.tasks) \ {t}
<1>1. t \in b /\ t \in Tasks /\ Credits[t.city] \in Nat /\ credits \in Nat /\ credits <= Credits[t.city]
  BY DEF Honest, Tasks
<1>2. c.tasks \in Seq(Tasks) /\ c.balance \in [Keys -> Nat] /\ t.key \in Keys
  BY <1>1 DEF Checkpoints, Tasks
<1>3. PICK v \in Nat : v = IF credits >= c.balance[t.key] THEN 0 ELSE c.balance[t.key] - credits
  BY <1>1, <1>2
<1>4. PICK d : d = Closed(c, t, credits)
  OBVIOUS
<1>5. d.tasks = RemoveFirst(c.tasks, t) /\ d.balance = [c.balance EXCEPT ![t.key] = v]
  BY <1>3, <1>4 DEF Closed, Checkpoints
<1>6. ToSet(d.tasks) = ToSet(c.tasks) \ {t} /\ IsInjective(d.tasks)
  BY <1>2, <1>5, RemoveFirstSet DEF Honest
<1>7. ASSUME NEW k \in Keys, d.balance[k] > 0
      PROVE  Balance <= d.balance[k] + Total(Price, Settled(d, b, k))
  <2>1. c.balance[k] \in Nat
    BY <1>2
  <2>2. CASE k # t.key
    <3>1. d.balance[k] = c.balance[k] /\ Settled(d, b, k) = Settled(c, b, k)
      BY <1>2, <1>5, <1>6, <2>2 DEF Settled
    <3>2. QED  BY <1>7, <3>1 DEF Honest
  <2>3. CASE k = t.key
    <3>1. d.balance[k] = v
      BY <1>2, <1>5, <2>3
    <3>2. PICK x \in Nat : x = c.balance[k]
      BY <2>1
    <3>10. v = (IF credits >= x THEN 0 ELSE x - credits) /\ v > 0
      BY <1>3, <1>7, <2>3, <3>1, <3>2
    <3>11. x = v + credits /\ x > 0
      BY <1>1, <3>10
    <3>3. PICK u : u = Settled(c, b, k)
      OBVIOUS
    <3>4. Settled(d, b, k) = u \union {t} /\ t \notin u /\ u \in SUBSET b
      BY <1>1, <1>6, <2>3, <3>3 DEF Settled
    <3>5. Price[t] = Credits[t.city] /\ Price[t] \in Nat
      BY <1>1 DEF Price
    <3>6. Total(Price, u) \in Nat /\ IsFiniteSet(Units(Price, u))
      BY <3>4, PricesFinite
    <3>7. Total(Price, Settled(d, b, k)) = Total(Price, u) + Price[t]
      BY <3>4, <3>5, <3>6, TotalAdd
    <3>8. Balance <= x + Total(Price, u)
      BY <3>2, <3>3, <3>11 DEF Honest
    <3>9. PICK y \in Nat, z \in Nat : y = Total(Price, u) /\ z = Credits[t.city]
      BY <1>1, <3>6
    <3>12. Balance <= v + (y + z)
      <4>1. credits \in Nat /\ credits <= z /\ Balance <= x + y /\ Balance \in Nat
        BY <1>1, <3>8, <3>9
      <4>2. QED  BY <3>11, <4>1
    <3>13. QED  BY <3>1, <3>5, <3>7, <3>9, <3>12
  <2>4. QED  BY <2>2, <2>3
<1>8. QED
  BY <1>4, <1>6, <1>7 DEF Honest

(* Nothing is bought, and a worker goes on with checkpoint d.                *)
LEMMA CreditMoves ==
  ASSUME StageTypeOK, CreditInv, bought' = bought, Honest(saved', bought),
         NEW w \in Workers, NEW d, ck' = [ck EXCEPT ![w] = d], Honest(d, bought),
         \A v \in Workers \ {w} : todo'[v] = todo[v] /\ (at'[v] = "poll" => at[v] = "poll"),
         at'[w] = "poll" => IsInjective(todo'[w]) /\ ToSet(todo'[w]) \subseteq ToSet(d.tasks)
  PROVE  CreditInv'
<1>1. \A v \in Workers : ck'[v] = IF v = w THEN d ELSE ck[v]
  BY DEF StageTypeOK
<1>2. \A c : Paid(c)' = Paid(c)
  BY DEF Paid
<1>3. \A v \in Workers :
        /\ Honest(ck'[v], bought)
        /\ at'[v] = "poll" => IsInjective(todo'[v]) /\ ToSet(todo'[v]) \subseteq ToSet(ck'[v].tasks)
  BY <1>1 DEF CreditInv
<1>4. QED
  BY <1>2, <1>3 DEF CreditInv

(* The checkpoint of a new attempt has booked nothing.                       *)
LEMMA NewIsHonest ==
  ASSUME NEW b \in SUBSET Tasks, IsFiniteSet(b)
  PROVE  Honest(NewCheckpoint, b)
<1>1. NewCheckpoint.tasks = <<>> /\ ToSet(<<>>) = {} /\ IsInjective(<<>>)
  BY DEF NewCheckpoint, ToSet, IsInjective
<1>2. ASSUME NEW k \in Keys
      PROVE  Balance <= NewCheckpoint.balance[k] + Total(Price, Settled(NewCheckpoint, b, k))
  <2>1. NewCheckpoint.balance[k] = Balance
    BY DEF NewCheckpoint
  <2>2. Settled(NewCheckpoint, b, k) \in SUBSET b
    BY DEF Settled
  <2>3. Total(Price, Settled(NewCheckpoint, b, k)) \in Nat
    BY <2>2, PricesFinite
  <2>4. QED  BY <2>1, <2>3
<1>3. QED
  BY <1>1, <1>2 DEF Honest

(* A step keeps the credits of checkpoints honest.                           *)
LEMMA CreditStep ==
  ASSUME StageTypeOK, IsFiniteSet(bought), CreditInv, [Next]_vars
  PROVE  CreditInv'
<1> USE DEF Running, Goto
<1>0. /\ ck \in [Workers -> Checkpoints] /\ at \in [Workers -> Places]
      /\ \A w \in Workers : ck[w] \in Checkpoints /\ Honest(ck[w], bought)
      /\ \A w \in Workers : ck = [ck EXCEPT ![w] = ck[w]]
      /\ todo \in [Workers -> Seq(Tasks)] /\ saved \in Checkpoints
      /\ Honest(saved, bought) /\ bought \in SUBSET Tasks
  BY DEF StageTypeOK, Places, CreditInv
<1>1. CASE Done \/ UNCHANGED vars \/ RequestCancel \/ Lapse \/ Wake \/ DeadlinePasses
  <2>1. UNCHANGED <<saved, at, ck, todo, bought>>
    BY <1>1 DEF Done, vars, row, RequestCancel, Lapse, Wake, DeadlinePasses, memory, manus
  <2>2. \A c : Paid(c)' = Paid(c)
    BY <2>1 DEF Paid
  <2>3. QED  BY <2>1, <2>2 DEF CreditInv
<1>2. ASSUME NEW w \in Workers, NEW c \in Checkpoints, Resume(w, c), Honest(c, bought),
             Honest(saved', bought), bought' = bought, todo' = todo
      PROVE  CreditInv'
  <2>1. PICK d \in Checkpoints :
           /\ d = (IF c.phase = "MANUS" THEN Opened(c) ELSE c)
           /\ ck' = [ck EXCEPT ![w] = d]
           /\ at' = [at EXCEPT ![w] = IF c.phase = "PLANNING" THEN "plan"
                                      ELSE IF c.phase = "MANUS" THEN "submit" ELSE "rest"]
    BY <1>2, ResumeType
  <2>2. d.tasks = c.tasks /\ d.balance = c.balance
    BY <2>1, OpenedType
  <2>3. Honest(d, bought)
    BY <1>2, <2>2, HonestKept
  <2>4. at'[w] # "poll" /\ \A v \in Workers \ {w} : at'[v] = at[v]
    BY <1>0, <2>1
  <2>5. QED  BY <1>2, <2>1, <2>3, <2>4, CreditMoves
<1>3. ASSUME NEW w \in Workers, Claim(w)
      PROVE  CreditInv'
  <2>1. Resume(w, saved) /\ UNCHANGED <<saved, bought, todo>>
    BY <1>3 DEF Claim, manus
  <2>2. QED  BY <1>0, <1>2, <2>1
<1>4. ASSUME NEW w \in Workers, Plan(w) \/ SaveEnrich(w)
      PROVE  CreditInv'
  <2>1. PICK c : /\ saved' = c /\ Resume(w, c) /\ UNCHANGED <<bought, todo>>
                 /\ c = [ck[w] EXCEPT !.phase = "MANUS"] \/ c = [ck[w] EXCEPT !.phase = "ENRICHING"]
    <3>1. CASE Plan(w)
      BY <3>1 DEF Plan, Save, manus
    <3>2. CASE SaveEnrich(w)
      BY <3>2 DEF SaveEnrich, Save, manus
    <3>3. QED  BY <1>4, <3>1, <3>2
  <2>2. c \in Checkpoints /\ c.tasks = ck[w].tasks /\ c.balance = ck[w].balance
    <3>1. PICK p \in {"MANUS", "ENRICHING"} : c = [ck[w] EXCEPT !.phase = p]
      BY <2>1
    <3>2. ck[w] \in Checkpoints
      BY <1>0
    <3>3. QED  BY <3>1, <3>2 DEF Checkpoints
  <2>3. Honest(c, bought)
    BY <1>0, <2>2, HonestKept
  <2>4. QED  BY <1>2, <2>1, <2>2, <2>3
<1>5. ASSUME NEW w \in Workers, CreateTask(w)
      PROVE  CreditInv'
  <2>1. PICK t \in Tasks, d \in Checkpoints :
           /\ bought' = bought \union {t} /\ ck' = [ck EXCEPT ![w] = d]
           /\ t.n = Paid(t.city) + 1
           /\ d.tasks = Append(ck[w].tasks, t) /\ d.balance = ck[w].balance
    BY <1>5, Purchase
  <2>2. UNCHANGED <<saved, at, todo>> /\ at[w] = "submit"
    BY <1>5 DEF CreateTask, CanSubmit
  <2>3. \A c : Paid(c) \in Nat /\ IsFiniteSet({u \in bought : u.city = c})
    BY PaidType
  <2>4. t \notin bought
    <3>1. PICK x \in Nat : x = Paid(t.city)
      BY <2>3
    <3>2. t.n = x + 1 /\ (t \in bought => t.n <= x)
      BY <2>1, <3>1 DEF CreditInv
    <3>3. QED  BY <3>1, <3>2
  <2>5. \A c : Paid(c)' >= Paid(c) /\ (c = t.city => Paid(c)' = Paid(c) + 1)
    <3>1. ASSUME NEW c
          PROVE  Paid(c)' >= Paid(c) /\ (c = t.city => Paid(c)' = Paid(c) + 1)
      <4>6. PICK x \in Nat : x = Paid(c)
        BY <2>3
      <4>1. PICK s : s = {u \in bought : u.city = c} /\ IsFiniteSet(s) /\ Cardinality(s) = x
        BY <2>3, <4>6 DEF Paid
      <4>2. Paid(c)' = Cardinality({u \in bought \union {t} : u.city = c})
        BY <2>1 DEF Paid
      <4>3. CASE c = t.city
        <5>1. {u \in bought \union {t} : u.city = c} = s \union {t} /\ t \notin s
          BY <2>4, <4>1, <4>3
        <5>2. Cardinality(s \union {t}) = Cardinality(s) + 1
          BY <4>1, <5>1, FS_AddElement
        <5>3. Paid(c)' = x + 1
          BY <4>1, <4>2, <5>1, <5>2
        <5>4. QED  BY <4>6, <5>3
      <4>4. CASE c # t.city
        <5>1. {u \in bought \union {t} : u.city = c} = s
          BY <4>1, <4>4
        <5>2. Paid(c)' = x
          BY <4>1, <4>2, <5>1
        <5>3. QED  BY <4>4, <4>6, <5>2
      <4>5. QED  BY <4>3, <4>4
    <3>2. QED  BY <3>1
  <2>6. \A u \in bought' : u.n <= Paid(u.city)'
    <3>1. ASSUME NEW u \in bought
          PROVE  u.n <= Paid(u.city)'
      <4>1. u.n \in Nat /\ u.n <= Paid(u.city)
        BY <1>0 DEF CreditInv, Tasks
      <4>2. PICK x \in Nat : x = Paid(u.city)
        BY <2>3
      <4>3. Paid(u.city)' = x \/ Paid(u.city)' = x + 1
        <5>1. Paid(u.city)' >= x /\ (u.city = t.city => Paid(u.city)' = x + 1)
          BY <2>5, <4>2
        <5>2. u.city # t.city => Paid(u.city)' = x
          <6>1. ASSUME u.city # t.city
                PROVE  {z \in bought' : z.city = u.city} = {z \in bought : z.city = u.city}
            BY <2>1, <6>1
          <6>2. QED  BY <4>2, <6>1 DEF Paid
        <5>3. QED  BY <5>1, <5>2
      <4>4. QED  BY <4>1, <4>2, <4>3
    <3>2. t.n <= Paid(t.city)'
      <4>1. Paid(t.city)' = Paid(t.city) + 1
        BY <2>5
      <4>2. t.n \in Nat /\ t.n = Paid(t.city)'
        BY <2>1, <4>1 DEF Tasks
      <4>3. QED  BY <4>2
    <3>3. QED  BY <2>1, <3>1, <3>2
  <2>7. Honest(d, bought \union {t}) /\ Honest(saved, bought \union {t})
    BY <1>0, <2>1, <2>4, HonestBuys, HonestGrows
  <2>8. \A v \in Workers : Honest(ck[v], bought \union {t})
    BY <1>0, HonestGrows
  <2>9. \A v \in Workers : ck'[v] = IF v = w THEN d ELSE ck[v]
    BY <1>0, <2>1
  <2>10. \A v \in Workers :
        /\ Honest(ck'[v], bought')
        /\ at'[v] = "poll" => IsInjective(todo'[v]) /\ ToSet(todo'[v]) \subseteq ToSet(ck'[v].tasks)
    BY <2>1, <2>2, <2>7, <2>8, <2>9 DEF CreditInv
  <2>11. QED
    BY <2>1, <2>2, <2>6, <2>7, <2>10 DEF CreditInv
<1>6. ASSUME NEW w \in Workers, CreateFails(w)
      PROVE  CreditInv'
  <2>1. PICK d \in Checkpoints : /\ ck' = [ck EXCEPT ![w] = d] /\ d.tasks = ck[w].tasks
                                 /\ \A l \in Keys : d.balance[l] \in {0, ck[w].balance[l]}
    BY <1>6, FailedCall
  <2>2. UNCHANGED <<saved, at, todo, bought>> /\ at[w] = "submit"
    BY <1>6 DEF CreateFails, CanSubmit, manus
  <2>3. Honest(d, bought)
    BY <1>0, <2>1, HonestKept
  <2>4. QED  BY <1>0, <2>1, <2>2, <2>3, CreditMoves
<1>7. ASSUME NEW w \in Workers, SaveTasks(w)
      PROVE  CreditInv'
  <2>1. /\ saved' = [ck[w] EXCEPT !.seen = FALSE] /\ UNCHANGED <<bought, ck>>
        /\ \/ at' = [at EXCEPT ![w] = "raise"] /\ todo' = todo
           \/ at' = [at EXCEPT ![w] = "poll"] /\ todo' = [todo EXCEPT ![w] = ck[w].tasks]
    BY <1>7 DEF SaveTasks, Save, manus
  <2>2. PICK d \in Checkpoints : d = saved' /\ d.tasks = ck[w].tasks /\ d.balance = ck[w].balance
    BY <1>0, <2>1, SeenType
  <2>3. Honest(saved', bought)
    BY <1>0, <2>2, HonestKept
  <2>4. /\ \A v \in Workers \ {w} : todo'[v] = todo[v] /\ at'[v] = at[v]
        /\ at'[w] = "poll" => todo'[w] = ck[w].tasks
    BY <1>0, <2>1
  <2>5. IsInjective(ck[w].tasks)
    BY <1>0 DEF Honest
  <2>6. QED  BY <1>0, <2>1, <2>3, <2>4, <2>5, CreditMoves
<1>8. ASSUME NEW w \in Workers, Poll(w)
      PROVE  CreditInv'
  <2>1. /\ at[w] = "poll" /\ todo[w] # <<>> /\ todo' = [todo EXCEPT ![w] = Tail(@)]
        /\ Keep(w, Head(todo[w])) \/ Abandon(w, Head(todo[w])) \/ Collect(w, Head(todo[w]))
        /\ UNCHANGED <<saved, bought, at>>
    BY <1>8 DEF Poll, NextTask, manus
  <2>2. PICK t : t = Head(todo[w])
    OBVIOUS
  <2>3. /\ IsInjective(todo[w]) /\ ToSet(todo[w]) \subseteq ToSet(ck[w].tasks)
        /\ todo[w] \in Seq(Tasks)
    BY <1>0, <2>1 DEF CreditInv
  <2>4. /\ t \in Tasks /\ ToSet(todo[w]) = {t} \union ToSet(Tail(todo[w]))
        /\ IsInjective(Tail(todo[w])) /\ t \notin ToSet(Tail(todo[w]))
    BY <2>1, <2>2, <2>3, HeadAndTail
  <2>5. t \in ToSet(ck[w].tasks) /\ todo'[w] = Tail(todo[w])
    BY <1>0, <2>1, <2>3, <2>4
  <2>6. CASE ck' = ck
    BY <1>0, <2>1, <2>3, <2>4, <2>5, <2>6, CreditMoves
  <2>7. ASSUME NEW credits \in {0, Credits[t.city]}, ck' = [ck EXCEPT ![w] = Closed(ck[w], t, credits)]
        PROVE  CreditInv'
    <3>1. PICK d : d = Closed(ck[w], t, credits)
      OBVIOUS
    <3>2. Honest(d, bought) /\ ToSet(d.tasks) = ToSet(ck[w].tasks) \ {t}
      <4>1. bought \in SUBSET Tasks /\ IsFiniteSet(bought) /\ ck[w] \in Checkpoints
        BY <1>0
      <4>2. Honest(ck[w], bought) /\ t \in ToSet(ck[w].tasks)
        BY <1>0, <2>5
      <4>3. QED  BY <2>7, <3>1, <4>1, <4>2, HonestCloses
    <3>3. ck' = [ck EXCEPT ![w] = d]
      BY <2>7, <3>1
    <3>4. ToSet(todo'[w]) \subseteq ToSet(d.tasks)
      BY <2>3, <2>4, <2>5, <3>2
    <3>5. /\ at' = at /\ Honest(saved', bought) /\ bought' = bought
          /\ \A v \in Workers \ {w} : todo'[v] = todo[v]
      BY <1>0, <2>1 DEF CreditInv
    <3>6. IsInjective(todo'[w])
      BY <2>4, <2>5
    <3>7. QED  BY <1>0, <3>2, <3>3, <3>4, <3>5, <3>6, CreditMoves
  <2>8. ck' = ck \/ \E credits \in {0, Credits[t.city]} : ck' = [ck EXCEPT ![w] = Closed(ck[w], t, credits)]
    BY <2>1, <2>2 DEF Keep, Abandon, Collect
  <2>9. QED  BY <2>6, <2>7, <2>8
<1>9. ASSUME NEW w \in Workers, SavePoll(w)
      PROVE  CreditInv'
  <2> DEFINE b == ck[w].seen \/ found[w] # {}
  <2>1. /\ ck' = [ck EXCEPT ![w] = [ck[w] EXCEPT !.seen = b]] /\ saved' = [ck[w] EXCEPT !.seen = b]
        /\ UNCHANGED <<todo, bought>>
        /\ at' = [at EXCEPT ![w] = "ingest"] \/ at' = [at EXCEPT ![w] = "decide"]
    BY <1>9 DEF SavePoll, Save, manus
  <2>2. b \in BOOLEAN
    BY <1>0 DEF Checkpoints
  <2> HIDE DEF b
  <2>3. PICK d \in Checkpoints : /\ d = [ck[w] EXCEPT !.seen = b]
                                 /\ d.tasks = ck[w].tasks /\ d.balance = ck[w].balance
    BY <1>0, <2>2, SeenType
  <2>4. Honest(d, bought)
    BY <1>0, <2>3, HonestKept
  <2>5. at'[w] # "poll" /\ \A v \in Workers \ {w} : at'[v] = at[v]
    BY <1>0, <2>1
  <2>6. QED  BY <2>1, <2>3, <2>4, <2>5, CreditMoves
<1>10. ASSUME NEW w \in Workers, Ingest(w)
       PROVE  CreditInv'
  <2> DEFINE d == [ck[w] EXCEPT !.companies = @ \union (found[w] \ visited)]
  <2>1. /\ ck' = [ck EXCEPT ![w] = d] /\ UNCHANGED <<saved, todo, bought>>
        /\ at' = [at EXCEPT ![w] = "savecompanies"]
    BY <1>10 DEF Ingest, manus
  <2>2. d \in Checkpoints /\ d.tasks = ck[w].tasks /\ d.balance = ck[w].balance
    BY <1>0 DEF Checkpoints, StageTypeOK
  <2> HIDE DEF d
  <2>3. Honest(d, bought)
    BY <1>0, <2>2, HonestKept
  <2>4. at'[w] # "poll" /\ \A v \in Workers \ {w} : at'[v] = at[v]
    BY <1>0, <2>1
  <2>5. QED  BY <1>0, <2>1, <2>3, <2>4, CreditMoves
<1>11. ASSUME NEW w \in Workers, SaveCompanies(w) \/ Decide(w) \/ Cancel(w) \/ FinishCancelled(w) \/ Raise(w)
       PROVE  CreditInv'
  <2>1. UNCHANGED <<ck, todo, bought>> /\ (saved' = saved \/ saved' = ck[w])
    BY <1>11 DEF SaveCompanies, Decide, Cancel, FinishCancelled, Raise, Save, memory, manus
  <2>2. PICK l \in {"decide", "cancel", "saveenrich", "park", "finishcancel", "cancelled", "raise"} :
          at' = [at EXCEPT ![w] = l]
    <3>1. CASE Decide(w)
      BY <3>1 DEF Decide
    <3>2. CASE Cancel(w)
      BY <3>2 DEF Cancel
    <3>3. QED  BY <1>11, <3>1, <3>2 DEF SaveCompanies, FinishCancelled, Raise
  <2>3. at'[w] # "poll" /\ \A v \in Workers \ {w} : at'[v] = at[v]
    BY <1>0, <2>2
  <2>4. Honest(saved', bought) /\ ck' = [ck EXCEPT ![w] = ck[w]] /\ Honest(ck[w], bought)
    BY <1>0, <2>1
  <2>5. \A v \in Workers \ {w} : todo'[v] = todo[v] /\ (at'[v] = "poll" => at[v] = "poll")
    BY <2>1, <2>3
  <2>6. QED  BY <2>1, <2>3, <2>4, <2>5, CreditMoves
<1>12. ASSUME NEW w \in Workers, Park(w) \/ Return(w) \/ Lost(w) \/ Crash(w)
       PROVE  CreditInv'
  <2>1. /\ ck' = [ck EXCEPT ![w] = NewCheckpoint] /\ UNCHANGED <<saved, bought>>
        /\ at' = [at EXCEPT ![w] = "idle"] /\ todo' = [todo EXCEPT ![w] = <<>>]
    BY <1>12 DEF Park, Return, Lost, Crash, Leave, manus
  <2>2. /\ at'[w] # "poll"
        /\ \A v \in Workers \ {w} : at'[v] = at[v] /\ todo'[v] = todo[v]
    BY <1>0, <2>1
  <2>3. Honest(NewCheckpoint, bought)
    BY <1>0, NewIsHonest
  <2>4. QED  BY <1>0, <2>1, <2>2, <2>3, CreditMoves
<1>13. QED
  BY <1>1, <1>3, <1>4, <1>5, <1>6, <1>7, <1>8, <1>9, <1>10, <1>11, <1>12
  DEF Next, Step

-----------------------------------------------------------------------------
(* The tasks nobody heard of.                                                *)

\* Each of them is a fault of its own.
LostInv == IsFiniteSet(unheard) /\ Cardinality(unheard) <= faults

(* A step counts the answer it loses.                                        *)
LEMMA LostStep ==
  ASSUME StageTypeOK, LostInv, [Next]_vars
  PROVE  LostInv'
<1>1. faults \in Nat /\ Cardinality(unheard) \in Nat
  BY FS_CardinalityType DEF StageTypeOK, LostInv
<1>2. ASSUME NEW w \in Workers, CreateFails(w)
      PROVE  LostInv'
  <2>1. faults' = faults + 1
    BY <1>2, LostCall
  <2>2. CASE unheard' = unheard
    BY <1>1, <2>1, <2>2 DEF LostInv
  <2>3. ASSUME NEW t, unheard' = unheard \union {t}
        PROVE  LostInv'
    <3>1. /\ IsFiniteSet(unheard \union {t})
          /\ Cardinality(unheard \union {t}) \in {Cardinality(unheard), Cardinality(unheard) + 1}
      BY FS_AddElement DEF LostInv
    <3>2. QED  BY <1>1, <2>1, <2>3, <3>1 DEF LostInv
  <2>4. QED  BY <1>2, <2>2, <2>3, LostCall
<1>3. CASE ~\E w \in Workers : CreateFails(w)
  <2>1. unheard' = unheard /\ faults' \in {faults, faults + 1}
    <3>1. CASE \/ Done \/ RequestCancel \/ Lapse \/ Wake \/ DeadlinePasses \/ UNCHANGED vars
      BY <3>1 DEF Done, RequestCancel, Lapse, Wake, DeadlinePasses, vars, manus
    <3>2. ASSUME NEW w \in Workers, Raise(w) \/ Crash(w)
          PROVE  unheard' = unheard /\ faults' \in {faults, faults + 1}
      BY <3>2 DEF Raise, Crash, manus
    <3>3. ASSUME NEW w \in Workers, Step(w)
          PROVE  unheard' = unheard /\ faults' = faults
      BY <1>3, <3>3 DEF Step, Claim, Plan, CreateTask, SaveTasks, Poll, SavePoll, Ingest,
         SaveCompanies, Decide, Park, Cancel, FinishCancelled, SaveEnrich, Return, Lost, manus
    <3>4. QED  BY <3>1, <3>2, <3>3 DEF Next
  <2>2. QED  BY <1>1, <2>1 DEF LostInv
<1>4. QED
  BY <1>2, <1>3

(* A city has no more of them than there are.                                *)
LEMMA LostCounts ==
  ASSUME LostInv, NEW c
  PROVE  Unheard(c) \in Nat /\ Unheard(c) <= Cardinality(unheard)
<1>1. {t \in unheard : t.city = c} \in SUBSET unheard
  OBVIOUS
<1>2. QED
  BY <1>1, FS_Subset, FS_CardinalityType DEF Unheard, LostInv

-----------------------------------------------------------------------------
(* The theorems.                                                             *)

(* A job that was just created has bought nothing.                           *)
LEMMA StageStart == Init => StageInv
<1> SUFFICES ASSUME Init
             PROVE  StageInv
  OBVIOUS
<1> USE DEF Init
<1>1. NewCheckpoint \in Checkpoints /\ CityBook(NewCheckpoint)
  BY NewCheckpointType DEF CityBook, NewCheckpoint, ToSet, IsInjective
<1>2. StageTypeOK
  <2>1. /\ ck \in [Workers -> Checkpoints] /\ saved \in Checkpoints
        /\ todo \in [Workers -> Seq(Tasks)]
    BY <1>1, EmptySeq
  <2>2. attempts \in 0 .. MaxAttempts /\ faults \in 0 .. MaxFaults
    OBVIOUS
  <2>3. QED  BY <2>1, <2>2 DEF StageTypeOK
<1>3. BookInv
  BY <1>1 DEF BookInv, Fits, Passing
<1>4. ~Active /\ RowBook
  BY DEF Active, RowBook
<1>5. IsFiniteSet(bought) /\ Cardinality({}) = 0
  BY FS_EmptySet
<1>6. ASSUME NEW c \in Cities
      PROVE  /\ Paid(c) + Cardinality(Zombies(c)) <= Spent + One(c \in Known)
             /\ Paid(c) + Cardinality(Zombies(c)) <= MaxAttempts
  <2>1. Zombies(c) = {} /\ {t \in bought : t.city = c} = {}
    BY DEF Zombies
  <2>2. Paid(c) = 0 /\ Cardinality(Zombies(c)) = 0
    BY <1>5, <2>1 DEF Paid
  <2>3. Spent = 0 /\ One(c \in Known) \in {0, 1}
    BY <1>4 DEF Spent, One
  <2>4. QED  BY <2>2, <2>3
<1>7. QED
  BY <1>2, <1>3, <1>4, <1>5, <1>6 DEF StageInv, Tally

(* The invariant the theorems rest on.                                       *)
THEOREM StageInvariant == Spec => []StageInv
<1>1. StageInv /\ [Next]_vars => StageInv'
  BY TypeStep, BookStep, RowStep DEF StageInv
<1>2. QED
  BY <1>1, StageStart, PTL DEF Spec

(* For any cities, keys and workers: the stage's state is well formed, no    *)
(* city is paid for more often than the job has attempts and creations       *)
(* failed, and the stage is left for enrichment only with every city paid    *)
(* for and no task unsettled.                                                *)
THEOREM EveryStageIsSound == Spec => []StageIsSound
<1>1. ASSUME StageInv, LostInv
      PROVE  StageIsSound
  <2>1. StageTypeOK /\ IsFiniteSet(bought) /\ RowBook /\ BookInv /\ Tally
    BY <1>1 DEF StageInv
  <2>2. ASSUME NEW c \in Cities
        PROVE  Paid(c) <= MaxAttempts /\ Paid(c) + Unheard(c) <= MaxAttempts + faults
    <3>1. Paid(c) <= MaxAttempts /\ Paid(c) \in Nat /\ MaxAttempts \in Nat
      BY <2>1, Counts DEF Tally
    <3>2. Unheard(c) \in Nat /\ Unheard(c) <= Cardinality(unheard)
      BY <1>1, LostCounts
    <3>3. Cardinality(unheard) \in Nat /\ Cardinality(unheard) <= faults /\ faults \in Nat
      BY <1>1, <2>1, FS_CardinalityType DEF LostInv, StageTypeOK
    <3>4. QED  BY <3>1, <3>2, <3>3
  <2>3. ASSUME saved.phase = "ENRICHING", NEW c \in Cities
        PROVE  Paid(c) > 0
    <3>1. PICK t \in bought : t.city = c
      BY <2>1, <2>3 DEF BookInv, CityBook
    <3>2. IsFiniteSet({u \in bought : u.city = c}) /\ Paid(c) \in Nat
      BY <2>1, PaidType
    <3>3. \A S : IsFiniteSet(S) => (Cardinality(S) = 0 <=> S = {})
      BY FS_EmptySet
    <3>4. {u \in bought : u.city = c} # {}
      BY <3>1
    <3>5. Cardinality({u \in bought : u.city = c}) # 0
      BY <3>2, <3>3, <3>4
    <3>6. Paid(c) # 0
      BY <3>5 DEF Paid
    <3>7. QED  BY <3>2, <3>6
  <2>4. saved.phase = "ENRICHING" => saved.tasks = <<>>
    BY <2>1 DEF BookInv, CityBook
  <2>5. QED
    BY <2>1, <2>2, <2>3, <2>4 DEF StageIsSound, PaidBounded, CitiesResearched
<1>2. Init => LostInv
  BY FS_EmptySet DEF Init, LostInv
<1>3. StageInv /\ LostInv /\ [Next]_vars => LostInv'
  BY LostStep DEF StageInv
<1>4. QED
  BY <1>1, <1>2, <1>3, StageInvariant, PTL DEF Spec

(* For any cities, keys and workers: what the checkpoint has booked on a key *)
(* that is not given up is at most what the settled tasks on it used, so a   *)
(* task's credits are booked once over all the passes that meet it.          *)
THEOREM NoKeyIsOvercharged == Spec => []NeverOvercharged
<1>1. Init => CreditInv
  <2> SUFFICES ASSUME Init
               PROVE  CreditInv
    OBVIOUS
  <2>1. bought = {} /\ IsFiniteSet({}) /\ {} \in SUBSET Tasks
    BY FS_EmptySet DEF Init
  <2>2. Honest(NewCheckpoint, bought)
    BY <2>1, NewIsHonest
  <2>3. QED  BY <2>1, <2>2 DEF Init, CreditInv
<1>2. StageInv /\ CreditInv /\ [Next]_vars => CreditInv'
  BY CreditStep DEF StageInv
<1>3. StageInv /\ CreditInv => NeverOvercharged
  <2> SUFFICES ASSUME StageInv, CreditInv, NEW k \in Keys, saved.balance[k] > 0
               PROVE  Balance - saved.balance[k] <=
                        MapThenSumSet(LAMBDA t : Credits[t.city],
                                      {t \in bought : t.key = k /\ t \notin ToSet(saved.tasks)})
    BY DEF NeverOvercharged
  <2>1. bought \in SUBSET Tasks /\ IsFiniteSet(bought) /\ saved.balance[k] \in Nat
    BY DEF StageInv, StageTypeOK, Checkpoints
  <2>2. PICK s \in SUBSET bought : s = Settled(saved, bought, k)
    BY DEF Settled
  <2>3. s = {t \in bought : t.key = k /\ t \notin ToSet(saved.tasks)}
    BY <2>2 DEF Settled
  <2>4. IsFiniteSet(s) /\ Total(Price, s) \in Nat
    BY <2>1, PricesFinite
  <2>5. MapThenSumSet(LAMBDA t : Credits[t.city], s) = Total(Price, s)
    BY <2>1, <2>4, CreditsAreTotal
  <2>6. Balance <= saved.balance[k] + Total(Price, s)
    BY <2>2 DEF CreditInv, Honest
  <2>7. Balance - saved.balance[k] <= Total(Price, s)
    BY <2>1, <2>4, <2>6
  <2>8. QED  BY <2>3, <2>5, <2>7
<1>4. QED
  BY <1>1, <1>2, <1>3, StageInvariant, PTL DEF Spec

=============================================================================
