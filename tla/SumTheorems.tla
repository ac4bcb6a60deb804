---------------------------- MODULE SumTheorems -----------------------------
(***************************************************************************)
(* Sums of natural numbers over finite sets, as the ledger's SUM and the    *)
(* credits of tasks are modelled: MapThenSumSet of the community modules.   *)
(*                                                                          *)
(* A sum is the cardinality of the set of its units, the pairs of an        *)
(* element and a number up to its value.  What a sum does when the set or   *)
(* the values change follows from what cardinalities do.                    *)
(***************************************************************************)
EXTENDS Integers, FiniteSets, FiniteSetsExt, FiniteSetTheorems, WellFoundedInduction, TLAPS

Some(s) == CHOOSE x \in s : TRUE

\* The equation MapThenSumSet solves, for values f and a set S.
Sums(g, f, S) ==
  g = [s \in SUBSET S |-> IF s = {} THEN 0 ELSE f[Some(s)] + g[s \ {Some(s)}]]

Units(f, s) == UNION {{x} \X (1 .. f[x]) : x \in s}

\* The sum of f over s.
Total(f, s) == Cardinality(Units(f, s))

(* The units of no element.                                                  *)
LEMMA UnitsEmpty ==
  ASSUME NEW f
  PROVE  Units(f, {}) = {}
BY DEF Units

(* The units of one element are as many as its value.                        *)
LEMMA UnitsOfOne ==
  ASSUME NEW x, NEW n \in Nat
  PROVE  IsFiniteSet({x} \X (1 .. n)) /\ Cardinality({x} \X (1 .. n)) = n
<1>1. IsFiniteSet({x}) /\ Cardinality({x}) = 1
  BY FS_Singleton
<1>2. n \in Int /\ 1 \in Int
  OBVIOUS
<1>3. IsFiniteSet(1 .. n) /\ Cardinality(1 .. n) = IF 1 > n THEN 0 ELSE n - 1 + 1
  BY <1>2, FS_Interval
<1>4. Cardinality(1 .. n) = n
  BY <1>3
<1>5. /\ IsFiniteSet({x} \X (1 .. n))
      /\ Cardinality({x} \X (1 .. n)) = Cardinality({x}) * Cardinality(1 .. n)
  BY <1>1, <1>3, FS_Product
<1>6. QED
  BY <1>1, <1>4, <1>5

(* One element more.                                                         *)
LEMMA TotalAdd ==
  ASSUME NEW f, NEW s, NEW x, x \notin s, f[x] \in Nat, IsFiniteSet(Units(f, s))
  PROVE  /\ IsFiniteSet(Units(f, s \union {x}))
         /\ Total(f, s \union {x}) = Total(f, s) + f[x]
<1> DEFINE U == Units(f, s)
           V == {x} \X (1 .. f[x])
<1>1. Units(f, s \union {x}) = U \union V
  BY DEF Units
<1>2. U \intersect V = {}
  BY DEF Units
<1>3. IsFiniteSet(V) /\ Cardinality(V) = f[x]
  BY UnitsOfOne
<1> HIDE DEF U, V
<1>4. /\ IsFiniteSet(U \union V)
      /\ Cardinality(U \union V) = Cardinality(U) + Cardinality(V) - Cardinality(U \intersect V)
  BY <1>3, FS_Union DEF U
<1>5. Cardinality({}) = 0 /\ Cardinality(U) \in Nat
  BY FS_EmptySet, FS_CardinalityType DEF U
<1>6. Cardinality(U \union V) = Cardinality(U) + f[x]
  <2>1. Cardinality(U \intersect V) = 0
    BY <1>2, <1>5
  <2>2. Cardinality(U \union V) = Cardinality(U) + f[x] - 0
    BY <1>3, <1>4, <2>1
  <2>3. QED  BY <1>5, <2>2
<1>7. Total(f, s) = Cardinality(U) /\ Total(f, s \union {x}) = Cardinality(U \union V)
  BY <1>1 DEF Total, U
<1>8. QED
  BY <1>1, <1>4, <1>6, <1>7

(* Fewer elements have fewer units.                                          *)
LEMMA TotalMonotone ==
  ASSUME NEW f, NEW s, NEW t \in SUBSET s, IsFiniteSet(Units(f, s))
  PROVE  /\ IsFiniteSet(Units(f, t)) /\ Total(f, t) \in Nat /\ Total(f, s) \in Nat
         /\ Total(f, t) <= Total(f, s)
<1>1. Units(f, t) \in SUBSET Units(f, s)
  BY DEF Units
<1>2. QED
  BY <1>1, FS_Subset, FS_CardinalityType DEF Total

(* The values of the elements of a set decide its total.                     *)
LEMMA TotalSame ==
  ASSUME NEW f, NEW g, NEW s, \A x \in s : f[x] = g[x]
  PROVE  Units(f, s) = Units(g, s) /\ Total(f, s) = Total(g, s)
BY DEF Units, Total

(* Strict inclusion among finite sets has minima.                            *)
LEMMA MinimalSet ==
  ASSUME NEW S, NEW F, F \subseteq FiniteSubsetsOf(S), F # {}
  PROVE  \E x \in F : \A y \in F : ~(y \subseteq x /\ y # x)
<1> DEFINE R == StrictSubsetOrdering(S)
<1>1. IsWellFoundedOn(R, FiniteSubsetsOf(S))
  BY FS_StrictSubsetOrderingWellFounded
<1>2. PICK x \in F : \A y \in F : ~(<<y, x>> \in R)
  <2> HIDE DEF R
  <2> QED  BY <1>1, WFMin
<1>3. \A y \in F : y \subseteq x /\ y # x => <<y, x>> \in R
  BY DEF StrictSubsetOrdering, FiniteSubsetsOf
<1> HIDE DEF R
<1>4. \A y \in F : ~(y \subseteq x /\ y # x)
  BY <1>2, <1>3
<1>5. QED
  BY <1>4

(* The units of a finite set are finite.                                     *)
LEMMA UnitsFinite ==
  ASSUME NEW S, IsFiniteSet(S), NEW f, \A x \in S : f[x] \in Nat
  PROVE  IsFiniteSet(Units(f, S))
<1> DEFINE F == {s \in SUBSET S : ~IsFiniteSet(Units(f, s))}
<1>1. SUFFICES ASSUME F # {}
               PROVE  FALSE
  OBVIOUS
<1>2. F \subseteq FiniteSubsetsOf(S)
  BY FS_Subset DEF FiniteSubsetsOf
<1>3. PICK s \in F : \A t \in F : ~(t \subseteq s /\ t # s)
  <2> HIDE DEF F
  <2> QED  BY <1>1, <1>2, MinimalSet
<1>4. s # {}
  BY UnitsEmpty, FS_EmptySet
<1>5. PICK x \in s : TRUE
  BY <1>4
<1>6. s \ {x} \notin F
  BY <1>3, <1>5
<1>7. IsFiniteSet(Units(f, s \ {x}))
  BY <1>6
<1>8. IsFiniteSet(Units(f, (s \ {x}) \union {x}))
  <2>1. x \notin s \ {x} /\ f[x] \in Nat
    OBVIOUS
  <2>2. QED  BY <1>7, <2>1, TotalAdd
<1>9. (s \ {x}) \union {x} = s
  OBVIOUS
<1>10. QED
  BY <1>8, <1>9

(* Totals solve the equation.                                                *)
LEMMA SumsExist ==
  ASSUME NEW S, IsFiniteSet(S), NEW f, \A x \in S : f[x] \in Nat
  PROVE  \E g : Sums(g, f, S)
<1> DEFINE g == [s \in SUBSET S |-> Total(f, s)]
<1>1. ASSUME NEW s \in SUBSET S, s # {}
      PROVE  Total(f, s) = f[Some(s)] + Total(f, s \ {Some(s)})
  <2>1. Some(s) \in s
    BY <1>1 DEF Some
  <2>2. PICK x \in s : x = Some(s)
    BY <2>1
  <2>3. IsFiniteSet(Units(f, s)) /\ IsFiniteSet(Units(f, s \ {x}))
    BY UnitsFinite, TotalMonotone
  <2>4. Total(f, (s \ {x}) \union {x}) = Total(f, s \ {x}) + f[x]
    <3>1. x \notin s \ {x} /\ f[x] \in Nat
      OBVIOUS
    <3>2. QED  BY <2>3, <3>1, TotalAdd
  <2>5. (s \ {x}) \union {x} = s
    OBVIOUS
  <2>6. Total(f, s \ {x}) \in Nat /\ f[x] \in Nat
    BY <2>3, FS_CardinalityType DEF Total
  <2>7. Total(f, s) = Total(f, s \ {x}) + f[x]
    BY <2>4, <2>5
  <2>8. Total(f, s) = f[x] + Total(f, s \ {x})
    BY <2>6, <2>7
  <2>9. QED
    BY <2>2, <2>8
<1>2. Total(f, {}) = 0
  BY UnitsEmpty, FS_EmptySet DEF Total
<1>3. \A s \in SUBSET S :
        g[s] = IF s = {} THEN 0 ELSE f[Some(s)] + g[s \ {Some(s)}]
  BY <1>1, <1>2
<1>4. g = [s \in SUBSET S |-> g[s]]
  OBVIOUS
<1> HIDE DEF g
<1>5. Sums(g, f, S)
  BY <1>3, <1>4 DEF Sums
<1>6. QED
  BY <1>5

(* Nothing else does.                                                        *)
LEMMA SumsUnique ==
  ASSUME NEW S, IsFiniteSet(S), NEW f, \A x \in S : f[x] \in Nat, NEW g, Sums(g, f, S)
  PROVE  g[S] = Total(f, S)
<1> DEFINE F == {s \in SUBSET S : g[s] # Total(f, s)}
<1>1. SUFFICES ASSUME F # {}
               PROVE  FALSE
  OBVIOUS
<1>2. F \subseteq FiniteSubsetsOf(S)
  BY FS_Subset DEF FiniteSubsetsOf
<1>3. PICK s \in F : \A t \in F : ~(t \subseteq s /\ t # s)
  <2> HIDE DEF F
  <2> QED  BY <1>1, <1>2, MinimalSet
<1>4. g[s] = IF s = {} THEN 0 ELSE f[Some(s)] + g[s \ {Some(s)}]
  BY DEF Sums
<1>5. s # {}
  BY <1>4, UnitsEmpty, FS_EmptySet DEF Total
<1>6. PICK x \in s : x = Some(s)
  BY <1>5 DEF Some
<1>7. g[s \ {x}] = Total(f, s \ {x})
  BY <1>3, <1>6
<1>8. IsFiniteSet(Units(f, s \ {x}))
  BY UnitsFinite, TotalMonotone
<1>9. Total(f, (s \ {x}) \union {x}) = Total(f, s \ {x}) + f[x]
  <2>1. x \notin s \ {x} /\ f[x] \in Nat
    OBVIOUS
  <2>2. QED  BY <1>8, <2>1, TotalAdd
<1>10. (s \ {x}) \union {x} = s
  OBVIOUS
<1>11. Total(f, s \ {x}) \in Nat /\ f[x] \in Nat
  BY <1>8, FS_CardinalityType DEF Total
<1>12. QED
  BY <1>4, <1>5, <1>6, <1>7, <1>9, <1>10, <1>11

(* One value changes, from nothing.                                          *)
LEMMA TotalUpdate ==
  ASSUME NEW S, IsFiniteSet(S), NEW f, \A x \in S : f[x] \in Nat,
         NEW g, NEW k \in S, f[k] = 0, g[k] \in Nat, \A x \in S \ {k} : g[x] = f[x]
  PROVE  Total(g, S) = Total(f, S) + g[k]
<1>1. IsFiniteSet(S \ {k}) /\ IsFiniteSet(Units(f, S \ {k})) /\ IsFiniteSet(Units(g, S \ {k}))
  <2>1. IsFiniteSet(S \ {k})
    BY FS_RemoveElement
  <2>2. \A x \in S \ {k} : f[x] \in Nat /\ g[x] \in Nat
    OBVIOUS
  <2>3. QED  BY <2>1, <2>2, UnitsFinite
<1>2. k \notin S \ {k} /\ (S \ {k}) \union {k} = S /\ f[k] \in Nat
  OBVIOUS
<1>3. Total(f, (S \ {k}) \union {k}) = Total(f, S \ {k}) + f[k]
  BY <1>1, <1>2, TotalAdd
<1>4. Total(g, (S \ {k}) \union {k}) = Total(g, S \ {k}) + g[k]
  BY <1>1, <1>2, TotalAdd
<1>5. Total(g, S \ {k}) = Total(f, S \ {k})
  BY TotalSame
<1>6. Total(f, S \ {k}) \in Nat
  BY <1>1, FS_CardinalityType DEF Total
<1>7. Total(f, S) = Total(f, S \ {k}) + f[k] /\ Total(g, S) = Total(g, S \ {k}) + g[k]
  BY <1>2, <1>3, <1>4
<1>8. QED
  BY <1>5, <1>6, <1>7

=============================================================================
