------------------------ MODULE StopPressureProofs ------------------------
(***************************************************************************)
(* What clustering, weighting, the gates and negative evidence guarantee   *)
(* for every pool of events, every order of ingestion and any number of    *)
(* reports and days.                                                       *)
(*                                                                         *)
(* The score and the clusters are folds.  The library's induction          *)
(* theorems take operators, which the provers cannot instantiate; the      *)
(* lemmas of the first section state the same inductions about sets and    *)
(* functions.                                                              *)
(***************************************************************************)
EXTENDS StopPressure, FiniteSetTheorems, SequenceTheorems, TLAPS

(***************************************************************************)
(* Induction and folds                                                     *)
(***************************************************************************)

LEMMA NatSetInduction ==
    ASSUME NEW T, 0 \in T, \A n \in Nat : n \in T => n + 1 \in T
    PROVE  Nat \subseteq T
<1> DEFINE F == {n \in Nat : n \notin T}
           R == OpToRel(<, Nat)
<1> SUFFICES ASSUME F # {} PROVE FALSE
  OBVIOUS
<1>1. IsWellFoundedOn(R, Nat)
  BY NatLessThanWellFounded
<1>2. F \subseteq Nat
  OBVIOUS
<1>3. \A x \in Nat, y \in Nat : x < y => <<x, y>> \in R
  BY DEF OpToRel
<1>4. PICK x \in F : \A y \in F : ~(<<y, x>> \in R)
  <2> HIDE DEF F, R
  <2> QED
    BY <1>1, <1>2, WFMin
<1>5. x - 1 \in Nat /\ x - 1 < x
  OBVIOUS
<1>6. x - 1 \in T
  BY <1>3, <1>4, <1>5
<1>7. x - 1 + 1 \in T
  BY <1>5, <1>6
<1> QED
  BY <1>7

\* Removing one element after the other reaches the empty set.
LEMMA SubsetInduction ==
    ASSUME NEW S, IsFiniteSet(S), NEW T, {} \in T,
           \A s \in SUBSET S : s # {} /\ (\A x \in s : s \ {x} \in T) => s \in T
    PROVE  SUBSET S \subseteq T
<1> DEFINE N == {n \in Nat : \A s \in SUBSET S : Cardinality(s) = n => s \in T}
<1>1. \A s \in SUBSET S : IsFiniteSet(s) /\ Cardinality(s) \in Nat /\ (Cardinality(s) = 0 <=> s = {})
  BY FS_Subset, FS_CardinalityType, FS_EmptySet
<1>2. 0 \in N
  BY <1>1
<1>3. ASSUME NEW n \in Nat, n \in N PROVE n + 1 \in N
  <2> SUFFICES ASSUME NEW s \in SUBSET S, Cardinality(s) = n + 1 PROVE s \in T
    OBVIOUS
  <2>1. s # {}
    BY <1>1
  <2>2. ASSUME NEW x \in s PROVE Cardinality(s \ {x}) = n
    <3>1. Cardinality(s \ {x}) = IF x \in s THEN Cardinality(s) - 1 ELSE Cardinality(s)
      BY <1>1, FS_RemoveElement
    <3> QED
      BY <3>1
  <2>3. \A x \in s : s \ {x} \in T
    BY <1>3, <2>2
  <2> QED
    BY <2>1, <2>3
<1>4. Nat \subseteq N
  <2> HIDE DEF N
  <2> QED
    BY <1>2, <1>3, NatSetInduction
<1> QED
  BY <1>1, <1>4

\* A fold over the subsets of a finite set: c chooses the element that is taken
\* last, step adds it to what the fold is of the others.
Chooses(c, S) == \A s \in SUBSET S : s # {} => c[s] \in s
Steps(step, S, V) == \A x \in S, v \in V : step[x][v] \in V
Folds(g, S, base, c, step) ==
    \A s \in SUBSET S : g[s] = IF s = {} THEN base ELSE step[c[s]][g[s \ {c[s]}]]

LEMMA FoldExists ==
    ASSUME NEW S, IsFiniteSet(S), NEW V, NEW base \in V, NEW c, Chooses(c, S),
           NEW step, Steps(step, S, V)
    PROVE  \E g \in [SUBSET S -> V] : Folds(g, S, base, c, step)
<1>0. /\ \A s \in SUBSET S : s # {} => c[s] \in s
      /\ \A x \in S, v \in V : step[x][v] \in V
  BY DEF Chooses, Steps
<1> DEFINE Value(g, s) == IF s = {} THEN base ELSE step[c[s]][g[s \ {c[s]}]]
           Upto(g, n) == \A s \in SUBSET S : Cardinality(s) <= n => g[s] = Value(g, s)
           T == {n \in Nat : \E g \in [SUBSET S -> V] : Upto(g, n)}
<1>1. \A s \in SUBSET S : IsFiniteSet(s) /\ Cardinality(s) \in Nat /\ (Cardinality(s) = 0 <=> s = {})
  BY FS_Subset, FS_CardinalityType, FS_EmptySet
<1>2. \A s \in SUBSET S : s # {} => Cardinality(s \ {c[s]}) = Cardinality(s) - 1
  BY <1>0, <1>1, FS_RemoveElement
<1>3. \A g \in [SUBSET S -> V], s \in SUBSET S : Value(g, s) \in V
  <2> SUFFICES ASSUME NEW g \in [SUBSET S -> V], NEW s \in SUBSET S PROVE Value(g, s) \in V
    OBVIOUS
  <2>1. CASE s = {}
    BY <2>1
  <2>2. CASE s # {}
    <3>1. c[s] \in S /\ s \ {c[s]} \in SUBSET S
      BY <1>0, <2>2
    <3>2. g[s \ {c[s]}] \in V
      BY <3>1
    <3> QED
      BY <1>0, <2>2, <3>1, <3>2
  <2> QED
    BY <2>1, <2>2
<1>4. 0 \in T
  <2> DEFINE g == [s \in SUBSET S |-> base]
  <2>1. g \in [SUBSET S -> V]
    OBVIOUS
  <2>2. ASSUME NEW s \in SUBSET S, Cardinality(s) <= 0 PROVE g[s] = Value(g, s)
    BY <1>1, <2>2
  <2> HIDE DEF g
  <2>3. Upto(g, 0)
    BY <2>2
  <2> QED
    BY <2>1, <2>3
<1>5. ASSUME NEW n \in Nat, n \in T PROVE n + 1 \in T
  <2>1. PICK g \in [SUBSET S -> V] : Upto(g, n)
    BY <1>5
  <2> DEFINE h == [s \in SUBSET S |-> IF Cardinality(s) <= n THEN g[s] ELSE Value(g, s)]
  <2> HIDE DEF Value
  <2>2. h \in [SUBSET S -> V]
    BY <1>3
  <2>3. ASSUME NEW s \in SUBSET S, Cardinality(s) <= n + 1 PROVE h[s] = Value(g, s)
    BY <1>1, <2>1, <2>3
  <2>4. ASSUME NEW s \in SUBSET S, Cardinality(s) <= n + 1 PROVE Value(h, s) = Value(g, s)
    <3>1. CASE s = {}
      BY <3>1 DEF Value
    <3>2. CASE s # {}
      <4>1. s \ {c[s]} \in SUBSET S /\ Cardinality(s \ {c[s]}) <= n
        BY <1>0, <1>1, <1>2, <2>4, <3>2
      <4>2. h[s \ {c[s]}] = g[s \ {c[s]}]
        BY <4>1
      <4> QED
        BY <3>2, <4>2 DEF Value
    <3> QED
      BY <3>1, <3>2
  <2> HIDE DEF h
  <2>5. Upto(h, n + 1)
    BY <2>3, <2>4
  <2> QED
    BY <2>2, <2>5
<1>6. Cardinality(S) \in T
  <2> HIDE DEF T
  <2>1. Nat \subseteq T
    BY <1>4, <1>5, NatSetInduction
  <2> QED
    BY <1>1, <2>1
<1>7. PICK g \in [SUBSET S -> V] : Upto(g, Cardinality(S))
  BY <1>6
<1>8. \A s \in SUBSET S : Cardinality(s) <= Cardinality(S)
  BY FS_Subset
<1> QED
  BY <1>7, <1>8 DEF Folds

LEMMA MaxOfFinite ==
    ASSUME NEW S \in SUBSET Int, IsFiniteSet(S), S # {}
    PROVE  Max(S) \in S /\ \A y \in S : y <= Max(S)
<1> DEFINE T == {s \in SUBSET S : s # {} => \E x \in s : \A y \in s : x >= y}
<1>1. {} \in T
  OBVIOUS
<1>2. ASSUME NEW s \in SUBSET S, NEW x \in s, s \ {x} \in T PROVE s \in T
  <2>1. CASE s \ {x} = {}
    BY <2>1
  <2>2. CASE s \ {x} # {}
    <3>1. PICK z \in s \ {x} : \A y \in s \ {x} : z >= y
      BY <1>2, <2>2
    <3>2. CASE z >= x
      BY <3>1, <3>2
    <3>3. CASE x >= z
      BY <3>1, <3>3
    <3> QED
      BY <3>2, <3>3
  <2> QED
    BY <2>1, <2>2
<1>3. S \in T
  <2> HIDE DEF T
  <2>1. \A s \in SUBSET S : s # {} /\ (\A x \in s : s \ {x} \in T) => s \in T
    BY <1>2
  <2>2. SUBSET S \subseteq T
    BY <1>1, <2>1, SubsetInduction
  <2> QED
    BY <2>2
<1>4. PICK x \in S : \A y \in S : x >= y
  BY <1>3
<1> QED
  BY <1>4 DEF Max

LEMMA MinOfFinite ==
    ASSUME NEW S \in SUBSET Int, IsFiniteSet(S), S # {}
    PROVE  Min(S) \in S /\ \A y \in S : Min(S) <= y
<1> DEFINE T == {s \in SUBSET S : s # {} => \E x \in s : \A y \in s : x <= y}
<1>1. {} \in T
  OBVIOUS
<1>2. ASSUME NEW s \in SUBSET S, NEW x \in s, s \ {x} \in T PROVE s \in T
  <2>1. CASE s \ {x} = {}
    BY <2>1
  <2>2. CASE s \ {x} # {}
    <3>1. PICK z \in s \ {x} : \A y \in s \ {x} : z <= y
      BY <1>2, <2>2
    <3>2. CASE z <= x
      BY <3>1, <3>2
    <3>3. CASE x <= z
      BY <3>1, <3>3
    <3> QED
      BY <3>2, <3>3
  <2> QED
    BY <2>1, <2>2
<1>3. S \in T
  <2> HIDE DEF T
  <2>1. \A s \in SUBSET S : s # {} /\ (\A x \in s : s \ {x} \in T) => s \in T
    BY <1>2
  <2>2. SUBSET S \subseteq T
    BY <1>1, <2>1, SubsetInduction
  <2> QED
    BY <2>2
<1>4. PICK x \in S : \A y \in S : x <= y
  BY <1>3
<1> QED
  BY <1>4 DEF Min

(***************************************************************************)
(* The order of evaluation                                                 *)
(***************************************************************************)

Place(R, e) == Cardinality({f \in R : Before(f, e)})

LEMMA BeforeIsOrder ==
    ASSUME NEW x \in Pool, NEW y \in Pool
    PROVE  /\ ~Before(x, x)
           /\ x # y => Before(x, y) \/ Before(y, x)
           /\ \A z \in Pool : Before(z, x) /\ Before(x, y) => Before(z, y)
BY PoolAssumption DEF Before

LEMMA PlaceBound ==
    ASSUME NEW R \in SUBSET Pool, IsFiniteSet(R), NEW e \in R
    PROVE  Place(R, e) \in Nat /\ Cardinality(R) \in Nat /\ Place(R, e) < Cardinality(R)
<1> DEFINE earlier == {f \in R : Before(f, e)}
<1>1. earlier \in SUBSET R /\ e \notin earlier
  BY BeforeIsOrder
<1>2. /\ IsFiniteSet(earlier) /\ Cardinality(earlier) <= Cardinality(R)
      /\ Cardinality(earlier) # Cardinality(R)
  <2> HIDE DEF earlier
  <2> QED
    BY <1>1, FS_Subset
<1>3. Cardinality(earlier) \in Nat /\ Cardinality(R) \in Nat
  BY <1>2, FS_CardinalityType
<1>4. Place(R, e) = Cardinality(earlier)
  BY DEF Place
<1> HIDE DEF earlier
<1> QED
  BY <1>2, <1>3, <1>4

LEMMA PlaceGrows ==
    ASSUME NEW R \in SUBSET Pool, IsFiniteSet(R), NEW x \in R, NEW y \in R, Before(x, y)
    PROVE  Place(R, x) < Place(R, y)
<1> DEFINE beforeX == {f \in R : Before(f, x)}
           beforeY == {f \in R : Before(f, y)}
<1>1. beforeX \in SUBSET beforeY /\ x \in beforeY /\ x \notin beforeX
  BY BeforeIsOrder
<1>2. beforeY \in SUBSET R
  OBVIOUS
<1>3. Place(R, x) = Cardinality(beforeX) /\ Place(R, y) = Cardinality(beforeY)
  BY DEF Place
<1> HIDE DEF beforeX, beforeY
<1>4. IsFiniteSet(beforeY)
  BY <1>2, FS_Subset
<1>5. /\ Cardinality(beforeX) <= Cardinality(beforeY)
      /\ Cardinality(beforeX) # Cardinality(beforeY)
  BY <1>1, <1>4, FS_Subset
<1> QED
  BY <1>3, <1>5, PlaceBound

LEMMA PlaceUnique ==
    ASSUME NEW R \in SUBSET Pool, IsFiniteSet(R), NEW x \in R, NEW y \in R,
           Place(R, x) = Place(R, y)
    PROVE  x = y
<1>1. ~Before(x, y) /\ ~Before(y, x)
  BY PlaceGrows, PlaceBound
<1> QED
  BY <1>1, BeforeIsOrder

LEMMA PlacesFill ==
    ASSUME NEW R \in SUBSET Pool, IsFiniteSet(R), NEW k \in 0..(Cardinality(R) - 1)
    PROVE  \E e \in R : Place(R, e) = k
<1> DEFINE T == 0..(Cardinality(R) - 1)
           f == [e \in R |-> Place(R, e)]
<1>1. PICK n \in Nat : n = Cardinality(R)
  BY FS_CardinalityType
<1>2. IsFiniteSet(T) /\ Cardinality(T) = Cardinality(R)
  <2>1. /\ IsFiniteSet(0..(n - 1))
        /\ Cardinality(0..(n - 1)) = IF 0 > n - 1 THEN 0 ELSE n - 1 - 0 + 1
    BY FS_Interval
  <2> QED
    BY <1>1, <2>1
<1>3. f \in [R -> T]
  BY PlaceBound
<1>4. f \in Injection(R, T)
  BY <1>3, PlaceUnique DEF Injection, IsInjective
<1>5. f \in Surjection(R, T)
  <2> HIDE DEF f, T
  <2> QED
    BY <1>2, <1>4, FS_Injection
<1> QED
  BY <1>5 DEF Surjection

\* Sorting lists every event once.
LEMMA SortedLists ==
    ASSUME NEW R \in SUBSET Pool, IsFiniteSet(R)
    PROVE  /\ DOMAIN Sorted(R) \in SUBSET Int /\ IsFiniteSet(DOMAIN Sorted(R))
           /\ \A i \in DOMAIN Sorted(R) : Sorted(R)[i] \in R
           /\ \A i, j \in DOMAIN Sorted(R) : Sorted(R)[i] = Sorted(R)[j] => i = j
           /\ \A e \in R : \E i \in DOMAIN Sorted(R) : Sorted(R)[i] = e
<1>1. PICK n \in Nat : n = Cardinality(R)
  BY FS_CardinalityType
<1>2. DOMAIN Sorted(R) = 1..n
  BY <1>1 DEF Sorted
<1>3. ASSUME NEW i \in 1..n PROVE Sorted(R)[i] \in R /\ Place(R, Sorted(R)[i]) = i - 1
  <2>1. \E e \in R : Place(R, e) = i - 1
    <3>1. i - 1 \in 0..(Cardinality(R) - 1)
      BY <1>1
    <3> QED
      BY <3>1, PlacesFill
  <2>2. Sorted(R)[i] = CHOOSE e \in R : Place(R, e) = i - 1
    BY <1>1 DEF Sorted, Place
  <2> QED
    BY <2>1, <2>2
<1>4. IsFiniteSet(1..n)
  BY FS_Interval
<1>5. ASSUME NEW e \in R PROVE \E i \in 1..n : Sorted(R)[i] = e
  <2>1. PICK k \in Nat : k = Place(R, e) /\ k < n
    BY <1>1, PlaceBound
  <2>2. k + 1 \in 1..n /\ k + 1 - 1 = k
    BY <2>1
  <2>3. Sorted(R)[k + 1] \in R /\ Place(R, Sorted(R)[k + 1]) = Place(R, e)
    BY <1>3, <2>1, <2>2
  <2>4. Sorted(R)[k + 1] = e
    BY <2>3, PlaceUnique
  <2> QED
    BY <2>2, <2>4
<1>6. ASSUME NEW i \in 1..n, NEW j \in 1..n, Sorted(R)[i] = Sorted(R)[j] PROVE i = j
  BY <1>3, <1>6
<1>7. PICK D : D = 1..n /\ D \in SUBSET Int /\ IsFiniteSet(D) /\ DOMAIN Sorted(R) = D
  BY <1>2, <1>4
<1> QED
  BY <1>3, <1>5, <1>6, <1>7

(***************************************************************************)
(* Clusters                                                                *)
(***************************************************************************)

\* The clusters v hold the events X: each once.
Partition(v, X) ==
    /\ \A e \in X : \E j \in DOMAIN v : e \in v[j]
    /\ \A j \in DOMAIN v : v[j] \subseteq X
    /\ \A j, k \in DOMAIN v : j # k => v[j] \cap v[k] = {}

\* An event opens a cluster or joins one.
LEMMA AssignChoice ==
    ASSUME NEW E, NEW v \in Seq(SUBSET E), NEW e
    PROVE  \/ Assign(v, e) = Append(v, {e})
           \/ \E j \in DOMAIN v : Assign(v, e) = [v EXCEPT ![j] = v[j] \cup {e}]
<1> DEFINE near == {i \in DOMAIN v :
                       ScaledDistance(e, v[i]) <= CLUSTER_RADIUS * Cardinality(v[i])}
<1>1. CASE near = {}
  BY <1>1 DEF Assign
<1>2. CASE near # {}
  <2>1. PICK n \in Nat : DOMAIN v = 1..n
    BY LenProperties
  <2>2. near \in SUBSET Int /\ near \in SUBSET (1..n) /\ IsFiniteSet(1..n)
    BY <2>1, FS_Interval
  <2>3. Min(near) \in near
    <3> HIDE DEF near
    <3> QED
      BY <1>2, <2>2, FS_Subset, MinOfFinite
  <2>4. Assign(v, e) = [v EXCEPT ![Min(near)] = v[Min(near)] \cup {e}]
    BY <1>2, <2>3 DEF Assign
  <2> QED
    BY <2>3, <2>4
<1> QED
  BY <1>1, <1>2

LEMMA AssignKeepsPartition ==
    ASSUME NEW E, NEW v \in Seq(SUBSET E), NEW e \in E
    PROVE  /\ Assign(v, e) \in Seq(SUBSET E)
           /\ \A X : e \notin X /\ Partition(v, X) => Partition(Assign(v, e), X \cup {e})
<1>1. CASE Assign(v, e) = Append(v, {e})
  <2>1. PICK w : w = Append(v, {e})
    OBVIOUS
  <2>2. {e} \in SUBSET E
    OBVIOUS
  <2>3. /\ w \in Seq(SUBSET E) /\ Len(v) \in Nat /\ DOMAIN v = 1..Len(v)
        /\ DOMAIN w = 1..(Len(v) + 1) /\ w[Len(v) + 1] = {e}
        /\ \A i \in 1..Len(v) : w[i] = v[i]
    BY <2>1, <2>2, AppendProperties, LenProperties
  <2>4. PICK n \in Nat : n = Len(v)
    BY <2>3
  <2>5. \A j \in DOMAIN w : (j \in DOMAIN v /\ w[j] = v[j]) \/ (j = n + 1 /\ j \notin DOMAIN v /\ w[j] = {e})
    BY <2>3, <2>4
  <2>6. n + 1 \in DOMAIN w /\ w[n + 1] = {e} /\ \A j \in DOMAIN v : j \in DOMAIN w /\ w[j] = v[j]
    BY <2>3, <2>4
  <2>7. ASSUME NEW X, e \notin X, Partition(v, X) PROVE Partition(w, X \cup {e})
    <3>1. \A f \in X \cup {e} : \E j \in DOMAIN w : f \in w[j]
      BY <2>6, <2>7 DEF Partition
    <3>2. \A j \in DOMAIN w : w[j] \subseteq X \cup {e}
      BY <2>5, <2>7 DEF Partition
    <3>3. \A j, k \in DOMAIN w : j # k => w[j] \cap w[k] = {}
      BY <2>5, <2>7 DEF Partition
    <3> QED
      BY <3>1, <3>2, <3>3 DEF Partition
  <2> QED
    BY <1>1, <2>1, <2>3, <2>7
<1>2. ASSUME NEW i \in DOMAIN v, Assign(v, e) = [v EXCEPT ![i] = v[i] \cup {e}]
      PROVE  /\ Assign(v, e) \in Seq(SUBSET E)
             /\ \A X : e \notin X /\ Partition(v, X) => Partition(Assign(v, e), X \cup {e})
  <2>1. PICK w : w = [v EXCEPT ![i] = v[i] \cup {e}]
    OBVIOUS
  <2>2. v[i] \cup {e} \in SUBSET E
    <3>1. v[i] \in SUBSET E
      BY ElementOfSeq, LenProperties
    <3> QED
      BY <3>1
  <2>3. w \in Seq(SUBSET E) /\ DOMAIN w = DOMAIN v /\ w[i] = v[i] \cup {e}
        /\ \A j \in DOMAIN v : j # i => w[j] = v[j]
    BY <2>1, <2>2, ExceptSeq, LenProperties
  <2>4. ASSUME NEW X, e \notin X, Partition(v, X) PROVE Partition(w, X \cup {e})
    <3>1. \A f \in X \cup {e} : \E j \in DOMAIN w : f \in w[j]
      BY <2>3, <2>4 DEF Partition
    <3>2. \A j \in DOMAIN w : w[j] \subseteq X \cup {e}
      BY <2>3, <2>4 DEF Partition
    <3>3. \A j, k \in DOMAIN w : j # k => w[j] \cap w[k] = {}
      BY <2>3, <2>4 DEF Partition
    <3> QED
      BY <3>1, <3>2, <3>3 DEF Partition
  <2> QED
    BY <1>2, <2>1, <2>3, <2>4
<1> QED
  BY <1>1, <1>2, AssignChoice

\* The running clusters while the events of seq are assigned one after the other.
Running(seq) ==
    CHOOSE g : g = [s \in SUBSET DOMAIN seq |->
        IF s = {} THEN <<>> ELSE Assign(g[s \ {Max(s)}], seq[Max(s)])]

LEMMA RunningIsFold ==
    ASSUME NEW seq
    PROVE  FoldLeft(Assign, <<>>, seq) = Running(seq)[DOMAIN seq]
BY DEF FoldLeft, MapThenFoldSet, Running

LEMMA RunningIs ==
    ASSUME NEW E, NEW seq, DOMAIN seq \in SUBSET Int, IsFiniteSet(DOMAIN seq),
           \A i \in DOMAIN seq : seq[i] \in E
    PROVE  \A s \in SUBSET DOMAIN seq : Running(seq)[s] =
              IF s = {} THEN <<>> ELSE Assign(Running(seq)[s \ {Max(s)}], seq[Max(s)])
<1> DEFINE S == DOMAIN seq
           V == Seq(SUBSET E)
           last == [s \in SUBSET S |-> Max(s)]
           step == [i \in S |-> [v \in V |-> Assign(v, seq[i])]]
           Is(g) == g = [s \in SUBSET S |->
                       IF s = {} THEN <<>> ELSE Assign(g[s \ {Max(s)}], seq[Max(s)])]
<1>1. Chooses(last, S)
  <2> SUFFICES ASSUME NEW s \in SUBSET S, s # {} PROVE Max(s) \in s
    BY DEF Chooses
  <2>1. s \in SUBSET Int /\ IsFiniteSet(s)
    BY FS_Subset
  <2> QED
    BY <2>1, MaxOfFinite
<1>2. Steps(step, S, V)
  BY AssignKeepsPartition DEF Steps
<1>3. PICK none : none \in V /\ none = <<>>
  BY EmptySeq
<1>4. PICK g \in [SUBSET S -> V] : Folds(g, S, none, last, step)
  <2> HIDE DEF S, V, last, step
  <2>1. IsFiniteSet(S)
    BY DEF S
  <2> QED
    BY <1>1, <1>2, <1>3, <2>1, FoldExists
<1>5. Is(g)
  <2>1. ASSUME NEW s \in SUBSET S, s # {} PROVE g[s] = Assign(g[s \ {Max(s)}], seq[Max(s)])
    <3>1. last[s] = Max(s)
      OBVIOUS
    <3>2. Max(s) \in S /\ s \ {Max(s)} \in SUBSET S
      BY <1>1, <2>1, <3>1 DEF Chooses
    <3>3. g[s \ {Max(s)}] \in V
      BY <3>2
    <3>4. step[Max(s)][g[s \ {Max(s)}]] = Assign(g[s \ {Max(s)}], seq[Max(s)])
      BY <3>2, <3>3
    <3> HIDE DEF last, step
    <3> QED
      BY <1>4, <2>1, <3>1, <3>4 DEF Folds
  <2>2. g[{}] = <<>>
    <3>1. g[{}] = none
      <4> HIDE DEF last, step
      <4> QED
        BY <1>4 DEF Folds
    <3> QED
      BY <1>3, <3>1
  <2> QED
    BY <2>1, <2>2
<1>6. Is(Running(seq))
  <2>1. Running(seq) = CHOOSE h : Is(h)
    BY DEF Running
  <2> HIDE DEF Is
  <2> QED
    BY <1>5, <2>1
<1> QED
  BY <1>6

\* A list of distinct elements of a set.
Lists(seq, E) ==
    /\ DOMAIN seq \in SUBSET Int /\ IsFiniteSet(DOMAIN seq)
    /\ \A i \in DOMAIN seq : seq[i] \in E
    /\ \A i, j \in DOMAIN seq : seq[i] = seq[j] => i = j

LEMMA RunningPartitions ==
    ASSUME NEW E, NEW seq, Lists(seq, E)
    PROVE  Partition(FoldLeft(Assign, <<>>, seq), {seq[i] : i \in DOMAIN seq})
<1> DEFINE Good(s) == /\ Running(seq)[s] \in Seq(SUBSET E)
                      /\ Partition(Running(seq)[s], {seq[i] : i \in s})
           T == {s \in SUBSET DOMAIN seq : Good(s)}
<1> USE DEF Lists
<1>1. \A s \in SUBSET DOMAIN seq : Running(seq)[s] =
         IF s = {} THEN <<>> ELSE Assign(Running(seq)[s \ {Max(s)}], seq[Max(s)])
  BY RunningIs
<1>2. {} \in T
  <2>1. Running(seq)[{}] = <<>>
    BY <1>1
  <2>2. Partition(<<>>, {})
    BY DEF Partition
  <2> QED
    BY <2>1, <2>2, EmptySeq
<1>3. ASSUME NEW s \in SUBSET DOMAIN seq, s # {}, \A x \in s : s \ {x} \in T
      PROVE  s \in T
  <2> DEFINE m == Max(s)
             X == {seq[i] : i \in s \ {m}}
  <2>1. m \in s
    <3>1. s \in SUBSET Int /\ IsFiniteSet(s) /\ s # {}
      BY <1>3, FS_Subset
    <3> QED
      BY <3>1, MaxOfFinite
  <2>2. Running(seq)[s] = Assign(Running(seq)[s \ {m}], seq[m])
    BY <1>1, <2>1
  <2>3. Good(s \ {m})
    BY <1>3, <2>1
  <2>4. seq[m] \in E /\ seq[m] \notin X /\ {seq[i] : i \in s} = X \cup {seq[m]}
    <3>1. m \in DOMAIN seq
      BY <2>1
    <3> HIDE DEF m
    <3> QED
      BY <2>1, <3>1
  <2> HIDE DEF m, X
  <2>5. /\ Running(seq)[s \ {m}] \in Seq(SUBSET E) /\ Partition(Running(seq)[s \ {m}], X)
    BY <2>3 DEF X
  <2>6. PICK v \in Seq(SUBSET E) : v = Running(seq)[s \ {m}] /\ Partition(v, X)
    BY <2>5
  <2>7. PICK e \in E : e = seq[m] /\ e \notin X /\ {seq[i] : i \in s} = X \cup {e}
    BY <2>4
  <2>8. Assign(v, e) \in Seq(SUBSET E) /\ Partition(Assign(v, e), X \cup {e})
    BY <2>6, <2>7, AssignKeepsPartition
  <2>9. Running(seq)[s] = Assign(v, e)
    BY <2>2, <2>6, <2>7
  <2> QED
    BY <2>7, <2>8, <2>9
<1>4. DOMAIN seq \in T
  <2> HIDE DEF T
  <2>1. PICK S : S = DOMAIN seq
    OBVIOUS
  <2>2. \A s \in SUBSET S : s # {} /\ (\A x \in s : s \ {x} \in T) => s \in T
    BY <1>3, <2>1
  <2>3. SUBSET S \subseteq T
    BY <1>2, <2>1, <2>2, SubsetInduction
  <2> QED
    BY <2>1, <2>3
<1> QED
  BY <1>4, RunningIsFold

Located(R) == {e \in R : e.pos # NoPos}

\* cluster_evidence neither loses nor repeats an event.
LEMMA EvidenceIsClustered ==
    ASSUME NEW R \in SUBSET Pool, IsFiniteSet(R)
    PROVE  \E v : ClusterEvidence(R) = {v[j] : j \in DOMAIN v} /\ Partition(v, Located(R))
<1>1. PICK E \in SUBSET Pool : E = Located(R) /\ IsFiniteSet(E)
  <2>1. Located(R) \in SUBSET R
    BY DEF Located
  <2> QED
    BY <2>1, FS_Subset
<1>2. PICK seq : seq = Sorted(E)
  OBVIOUS
<1>3. /\ DOMAIN seq \in SUBSET Int /\ IsFiniteSet(DOMAIN seq)
      /\ \A i \in DOMAIN seq : seq[i] \in E
      /\ \A i, j \in DOMAIN seq : seq[i] = seq[j] => i = j
      /\ \A e \in E : \E i \in DOMAIN seq : seq[i] = e
  BY <1>1, <1>2, SortedLists
<1>4. Partition(FoldLeft(Assign, <<>>, seq), {seq[i] : i \in DOMAIN seq})
  <2>1. Lists(seq, E)
    BY <1>3 DEF Lists
  <2> QED
    BY <2>1, RunningPartitions
<1>5. {seq[i] : i \in DOMAIN seq} = E
  BY <1>3
<1>6. PICK v : v = Running(seq)[DOMAIN seq]
  OBVIOUS
<1>7. Partition(v, E)
  BY <1>4, <1>5, <1>6, RunningIsFold
<1>8. ClusterEvidence(R) = ToSet(FoldLeft(Assign, <<>>, Sorted(E)))
  BY <1>1 DEF ClusterEvidence, Located
<1>9. ClusterEvidence(R) = ToSet(FoldLeft(Assign, <<>>, seq))
  BY <1>2, <1>8
<1>10. ClusterEvidence(R) = ToSet(v)
  BY <1>6, <1>9, RunningIsFold
<1> QED
  BY <1>1, <1>7, <1>10 DEF ToSet

LEMMA ClustersAreEvidence ==
    ASSUME NEW R \in SUBSET Pool, IsFiniteSet(R), NEW c \in ClusterEvidence(R)
    PROVE  c \in SUBSET R /\ IsFiniteSet(c)
<1>1. PICK v : ClusterEvidence(R) = {v[j] : j \in DOMAIN v} /\ Partition(v, Located(R))
  BY EvidenceIsClustered
<1>2. c \in SUBSET R
  BY <1>1 DEF Partition, Located
<1> QED
  BY <1>2, FS_Subset

(***************************************************************************)
(* The evidence                                                            *)
(***************************************************************************)

EvidenceOK == rows \in SUBSET Pool /\ IsFiniteSet(rows)

LEMMA EvidenceAlwaysOK == Spec => []EvidenceOK
<1>1. Init => EvidenceOK
  BY FS_EmptySet DEF Init, EvidenceOK
<1>2. EvidenceOK /\ [Next]_vars => EvidenceOK'
  <2> SUFFICES ASSUME EvidenceOK, [Next]_vars PROVE EvidenceOK'
    OBVIOUS
  <2>1. CASE rows' = rows
    BY <2>1 DEF EvidenceOK
  <2>2. ASSUME NEW e \in Pool, rows' = rows \cup {e} PROVE EvidenceOK'
    <3>1. IsFiniteSet(rows \cup {e})
      BY FS_AddElement DEF EvidenceOK
    <3> QED
      BY <2>2, <3>1 DEF EvidenceOK
  <2>3. ASSUME NEW e \in Pool, Ingest(e) PROVE EvidenceOK'
    BY <2>2, <2>3 DEF Ingest, Commits
  <2>4. ASSUME NEW pos \in Places, Report(pos) PROVE rows' = rows
    BY <2>4 DEF Report
  <2>5. NextDay => rows' = rows
    BY DEF NextDay
  <2>6. ASSUME NEW c \in ClusterEvidence(rows), Create(c) \/ Cycle(c) PROVE rows' = rows
    BY <2>6 DEF Create, Cycle
  <2>7. UNCHANGED vars => rows' = rows
    BY DEF vars
  <2> QED
    BY <2>1, <2>3, <2>4, <2>5, <2>6, <2>7 DEF Next
<1> QED
  BY <1>1, <1>2, PTL DEF Spec

\* Clustering neither loses nor repeats evidence, however events are placed and
\* in whatever order they come (stop_aggregation.py, cluster_evidence, INV-A1).
THEOREM EvidenceIsPartitioned == Spec => []ClustersPartitionEvidence
<1>1. EvidenceOK => ClustersPartitionEvidence
  <2> SUFFICES ASSUME EvidenceOK, NEW e \in rows, e.pos # NoPos
               PROVE  Cardinality({c \in ClusterEvidence(rows) : e \in c}) = 1
    BY DEF ClustersPartitionEvidence
  <2>1. PICK v : ClusterEvidence(rows) = {v[j] : j \in DOMAIN v} /\ Partition(v, Located(rows))
    BY EvidenceIsClustered DEF EvidenceOK
  <2>2. PICK j \in DOMAIN v : e \in v[j]
    BY <2>1 DEF Partition, Located
  <2>3. {c \in ClusterEvidence(rows) : e \in c} = {v[j]}
    BY <2>1, <2>2 DEF Partition
  <2> QED
    BY <2>3, FS_Singleton
<1> QED
  BY <1>1, EvidenceAlwaysOK, PTL

\* Nobody creates a Stop alone (stop_creation.py, INV-C2): not with any number
\* of events of any types on any days.
THEOREM NobodyCreatesAlone == Spec => []NoLoneContributor
<1>1. EvidenceOK => NoLoneContributor
  <2> SUFFICES ASSUME EvidenceOK, NEW who \in Contributors(rows),
                      NEW c \in QualifyingClusters({e \in rows : e.who = who})
               PROVE  FALSE
    BY DEF NoLoneContributor
  <2>1. PICK R \in SUBSET Pool : R = {e \in rows : e.who = who} /\ IsFiniteSet(R)
    <3>1. {e \in rows : e.who = who} \in SUBSET rows
      OBVIOUS
    <3> QED
      BY <3>1, FS_Subset DEF EvidenceOK
  <2>2. c \in ClusterEvidence(R) /\ AllGatesPass(c)
    BY <2>1 DEF QualifyingClusters, ShouldCreate
  <2>3. c \in SUBSET R
    BY <2>1, <2>2, ClustersAreEvidence
  <2>4. Contributors(c) \in SUBSET {who}
    BY <2>1, <2>3 DEF Contributors
  <2>5. Cardinality(Contributors(c)) <= 1 /\ Cardinality(Contributors(c)) \in Nat
    <3>1. IsFiniteSet({who}) /\ Cardinality({who}) = 1
      BY FS_Singleton
    <3>2. /\ IsFiniteSet(Contributors(c))
          /\ Cardinality(Contributors(c)) <= Cardinality({who})
      BY <2>4, <3>1, FS_Subset
    <3>3. Cardinality(Contributors(c)) \in Nat
      BY <3>2, FS_CardinalityType
    <3> QED
      BY <3>1, <3>2, <3>3
  <2> QED
    BY <2>2, <2>5 DEF AllGatesPass, MIN_INDEPENDENT_CONTRIBUTORS
<1> QED
  BY <1>1, EvidenceAlwaysOK, PTL

(***************************************************************************)
(* Weights                                                                 *)
(***************************************************************************)

LEMMA MaxOfTwo == ASSUME NEW a \in Int, NEW b \in Int PROVE Max({a, b}) = IF a >= b THEN a ELSE b
<1>1. PICK m \in {a, b} : \A y \in {a, b} : m >= y
  OBVIOUS
<1> QED
  BY <1>1 DEF Max

LEMMA MinOfTwo == ASSUME NEW a \in Int, NEW b \in Int PROVE Min({a, b}) = IF a <= b THEN a ELSE b
<1>1. PICK m \in {a, b} : \A y \in {a, b} : m <= y
  OBVIOUS
<1> QED
  BY <1>1 DEF Min

LEMMA Quotient ==
    ASSUME NEW n \in Nat, NEW d \in Nat, d > 0, NEW k \in Nat, n <= k * d
    PROVE  n \div d \in 0..k
<1>1. PICK q \in Int : q = n \div d
  OBVIOUS
<1>2. PICK r \in Int : r = n % d
  OBVIOUS
<1>3. n = d * q + r /\ 0 <= r /\ r < d
  BY <1>1, <1>2
<1>4. q >= 0
  <2>1. SUFFICES ASSUME q <= -1 PROVE FALSE
    BY <1>1
  <2>2. d * q <= d * (-1)
    BY <2>1
  <2> QED
    BY <1>3, <2>2
<1>5. q <= k
  <2>1. SUFFICES ASSUME q >= k + 1 PROVE FALSE
    BY <1>1
  <2>2. d * q >= d * (k + 1)
    BY <2>1
  <2> QED
    BY <1>3, <2>2
<1> QED
  BY <1>1, <1>4, <1>5

LEMMA AccuracyIsBounded == ASSUME NEW acc \in Int PROVE AccuracyWeight(acc) \in 10..1000
<1>1. CASE acc <= 100
  BY SMT, <1>1 DEF AccuracyWeight, NoAccuracy, Between
<1>2. CASE acc > 100
  <2>1. AccuracyWeight(acc) = Max({10, 20000 \div acc})
    BY SMT, <1>2 DEF AccuracyWeight, NoAccuracy
  <2>2. PICK q \in 0..200 : q = 20000 \div acc
    BY SMT, <1>2, Quotient
  <2>3. Max({10, q}) = IF 10 >= q THEN 10 ELSE q
    BY MaxOfTwo
  <2> QED
    BY SMT, <2>1, <2>2, <2>3
<1> QED
  BY <1>1, <1>2

LEMMA DampeningIsBounded ==
    ASSUME NEW n \in Nat
    PROVE  UserDampening(n) = IF n = 0 THEN 1000 ELSE IF n = 1 THEN 500
                              ELSE IF n = 2 THEN 250 ELSE IF n = 3 THEN 125 ELSE 100
<1>1. CASE n = 0
  BY <1>1 DEF UserDampening
<1>2. CASE n = 1
  <2>1. UserDampening(n) = 1000 \div 2^1
    BY <1>2 DEF UserDampening
  <2> QED
    BY <1>2, <2>1
<1>3. CASE n = 2
  <2>1. UserDampening(n) = 1000 \div 2^2
    BY <1>3 DEF UserDampening
  <2> QED
    BY <1>3, <2>1
<1>4. CASE n = 3
  <2>1. UserDampening(n) = 1000 \div 2^3
    BY <1>4 DEF UserDampening
  <2> QED
    BY <1>4, <2>1
<1>5. CASE n > 3
  BY <1>5 DEF UserDampening
<1> QED
  BY <1>1, <1>2, <1>3, <1>4, <1>5

LEMMA TimeIsBounded ==
    ASSUME NEW R \in SUBSET Pool, IsFiniteSet(R), NEW e \in R
    PROVE  TemporalWeight(e.time, Min(Times(R)), Max(Times(R))) \in 500..1000
<1>1. Times(R) \in SUBSET Int /\ e.time \in Times(R)
  BY PoolAssumption DEF Times
<1>2. IsFiniteSet(Times(R))
  <2> DEFINE f == [x \in R |-> x.time]
  <2>1. f \in Surjection(R, Times(R))
    BY DEF Times, Surjection
  <2> QED
    BY <2>1, FS_Surjection
<1>3. PICK x \in Int : x = Min(Times(R)) /\ x <= e.time
  BY <1>1, <1>2, MinOfFinite
<1>4. PICK y \in Int : y = Max(Times(R)) /\ e.time <= y
  BY <1>1, <1>2, MaxOfFinite
<1>5. PICK t \in Int : t = e.time
  BY <1>1
<1>6. PICK edge \in Int : edge = Min({t - x, y - t}) /\ 0 <= edge /\ edge <= y - x
  BY <1>3, <1>4, <1>5, MinOfTwo
<1>7. TemporalWeight(t, x, y) = IF y - x <= 0 THEN 750 ELSE 500 + (500 * ((y - x) - edge)) \div (y - x)
  BY <1>6 DEF TemporalWeight
<1>8. CASE y - x <= 0
  BY <1>3, <1>4, <1>5, <1>7, <1>8
<1>9. CASE y - x > 0
  <2>1. PICK d \in Nat : d = y - x /\ d > 0
    BY <1>9
  <2>2. PICK m \in Nat : m = 500 * (d - edge) /\ m <= 500 * d
    BY <1>6, <2>1
  <2>3. m \div d \in 0..500
    BY <2>1, <2>2, Quotient
  <2> QED
    BY <1>3, <1>4, <1>5, <1>7, <2>1, <2>2, <2>3
<1> QED
  BY <1>8, <1>9

\* The events that dampen an event.
Earlier(e, R) == {f \in R : f.who = e.who /\ Before(f, e)}

LEMMA EarlierIsFinite ==
    ASSUME NEW R, IsFiniteSet(R), NEW e
    PROVE  IsFiniteSet(Earlier(e, R)) /\ Cardinality(Earlier(e, R)) \in Nat
<1>1. Earlier(e, R) \in SUBSET R
  BY DEF Earlier
<1> QED
  BY <1>1, FS_Subset, FS_CardinalityType

LEMMA WeightIsBounded ==
    ASSUME NEW R \in SUBSET Pool, IsFiniteSet(R), NEW e \in R
    PROVE  /\ EvidenceWeight(e, R) \in Nat
           /\ EvidenceWeight(e, R) > 0
           /\ EvidenceWeight(e, R) <= 100 * UserDampening(Cardinality(Earlier(e, R)))
<1>1. PICK a \in 10..1000 : a = AccuracyWeight(e.accuracy)
  BY AccuracyIsBounded, PoolAssumption
<1>2. PICK n \in Nat : n = Cardinality(Earlier(e, R))
  BY EarlierIsFinite
<1>3. PICK u \in {1000, 500, 250, 125, 100} : u = UserDampening(n)
  BY DampeningIsBounded
<1>4. PICK t \in 500..1000 : t = TemporalWeight(e.time, Min(Times(R)), Max(Times(R)))
  BY TimeIsBounded
<1>5. EvidenceWeight(e, R) = (a * u * t) \div 10000
  BY SMT, <1>1, <1>2, <1>3, <1>4 DEF EvidenceWeight, Earlier
<1>6. PICK p \in Int : p = a * t /\ 5000 <= p /\ p <= 1000000
  <2>1. a * t >= 10 * t /\ a * t <= 1000 * t
    BY SMT
  <2> QED
    BY SMT, <2>1
<1>7. a * u * t = p * u
  BY SMT, <1>6
<1>8. (p * u) \div 10000 > 0 /\ (p * u) \div 10000 <= 100 * u
  <2>1. CASE u = 1000
    <3>1. (p * 1000) \div 10000 > 0 /\ (p * 1000) \div 10000 <= 100000
      BY SMT, <1>6
    <3> QED
      BY SMT, <2>1, <3>1
  <2>2. CASE u = 500
    <3>1. (p * 500) \div 10000 > 0 /\ (p * 500) \div 10000 <= 50000
      BY SMT, <1>6
    <3> QED
      BY SMT, <2>2, <3>1
  <2>3. CASE u = 250
    <3>1. (p * 250) \div 10000 > 0 /\ (p * 250) \div 10000 <= 25000
      BY SMT, <1>6
    <3> QED
      BY SMT, <2>3, <3>1
  <2>4. CASE u = 125
    <3>1. (p * 125) \div 10000 > 0 /\ (p * 125) \div 10000 <= 12500
      BY SMT, <1>6
    <3> QED
      BY SMT, <2>4, <3>1
  <2>5. CASE u = 100
    <3>1. (p * 100) \div 10000 > 0 /\ (p * 100) \div 10000 <= 10000
      BY SMT, <1>6
    <3> QED
      BY SMT, <2>5, <3>1
  <2> QED
    BY SMT, <2>1, <2>2, <2>3, <2>4, <2>5
<1> QED
  BY SMT, <1>2, <1>3, <1>5, <1>7, <1>8

(***************************************************************************)
(* Scores                                                                  *)
(***************************************************************************)

\* The sum of a cluster, as the fold it is defined by.
ScoreFold(S, R) == CHOOSE g : g = [s \in SUBSET S |->
    IF s = {} THEN 0
    ELSE EvidenceWeight(CHOOSE x \in s : TRUE, R) + g[s \ {CHOOSE x \in s : TRUE}]]

LEMMA ScoreIsFold ==
    ASSUME NEW S, NEW R
    PROVE  WeightedScore(S, R) = ScoreFold(S, R)[S]
BY DEF WeightedScore, MapThenSumSet, MapThenFoldSet, ScoreFold

Weighed(S, R) == \A e \in S : EvidenceWeight(e, R) \in Nat
AddsUp(h, S, R) ==
    /\ h \in [SUBSET S -> Nat]
    /\ h[{}] = 0
    /\ \A s \in SUBSET S : s # {} => \E x \in s : h[s] = EvidenceWeight(x, R) + h[s \ {x}]

LEMMA ScoreFolds ==
    ASSUME NEW S, IsFiniteSet(S), NEW R, Weighed(S, R)
    PROVE  AddsUp(ScoreFold(S, R), S, R)
<1> DEFINE c == [s \in SUBSET S |-> CHOOSE x \in s : TRUE]
           step == [x \in S |-> [v \in Nat |-> EvidenceWeight(x, R) + v]]
           Is(g) == g = [s \in SUBSET S |->
               IF s = {} THEN 0
               ELSE EvidenceWeight(CHOOSE x \in s : TRUE, R) + g[s \ {CHOOSE x \in s : TRUE}]]
<1> USE DEF Weighed
<1>1. Chooses(c, S)
  BY DEF Chooses
<1>2. Steps(step, S, Nat)
  BY DEF Steps
<1>3. PICK g \in [SUBSET S -> Nat] : Folds(g, S, 0, c, step)
  <2> HIDE DEF c, step
  <2> QED
    BY <1>1, <1>2, FoldExists
<1>4. g[{}] = 0
  <2> HIDE DEF c, step
  <2> QED
    BY <1>3 DEF Folds
<1>5. ASSUME NEW s \in SUBSET S, s # {}
      PROVE  /\ c[s] = CHOOSE x \in s : TRUE
             /\ c[s] \in s
             /\ g[s] = EvidenceWeight(c[s], R) + g[s \ {c[s]}]
  <2>1. c[s] = CHOOSE x \in s : TRUE
    OBVIOUS
  <2>2. c[s] \in s
    BY <1>1, <1>5 DEF Chooses
  <2>3. step[c[s]][g[s \ {c[s]}]] = EvidenceWeight(c[s], R) + g[s \ {c[s]}]
    <3> HIDE DEF c
    <3>1. c[s] \in S /\ s \ {c[s]} \in SUBSET S
      BY <2>2
    <3>2. g[s \ {c[s]}] \in Nat
      BY <3>1
    <3> QED
      BY <3>1, <3>2
  <2>4. g[s] = step[c[s]][g[s \ {c[s]}]]
    <3> HIDE DEF c, step
    <3> QED
      BY <1>3, <1>5 DEF Folds
  <2> HIDE DEF c, step
  <2> QED
    BY <2>1, <2>2, <2>3, <2>4
<1>6. Is(g)
  <2> HIDE DEF c, step
  <2>1. \A s \in SUBSET S : s # {} =>
           g[s] = EvidenceWeight(CHOOSE x \in s : TRUE, R) + g[s \ {CHOOSE x \in s : TRUE}]
    BY <1>5
  <2> QED
    BY <1>4, <2>1
<1>7. Is(ScoreFold(S, R))
  <2>1. ScoreFold(S, R) = CHOOSE h : Is(h)
    BY DEF ScoreFold
  <2> HIDE DEF Is
  <2> QED
    BY <1>6, <2>1
<1>8. PICK h : h = ScoreFold(S, R)
  OBVIOUS
<1>9. Is(h)
  BY <1>7, <1>8
<1>10. h[{}] = 0 /\ DOMAIN h = SUBSET S
  BY <1>9
<1>11. ASSUME NEW s \in SUBSET S, s # {}
       PROVE  \E x \in s : h[s] = EvidenceWeight(x, R) + h[s \ {x}]
  <2>1. PICK x \in s : x = CHOOSE y \in s : TRUE
    BY <1>11
  <2>2. h[s] = EvidenceWeight(CHOOSE y \in s : TRUE, R) + h[s \ {CHOOSE y \in s : TRUE}]
    BY <1>9, <1>11
  <2> QED
    BY <2>1, <2>2
<1>12. \A s \in SUBSET S : h[s] \in Nat
  <2> DEFINE T == {s \in SUBSET S : h[s] \in Nat}
  <2>1. {} \in T
    BY <1>10
  <2>2. ASSUME NEW s \in SUBSET S, s # {}, \A x \in s : s \ {x} \in T PROVE s \in T
    <3>1. PICK x \in s : h[s] = EvidenceWeight(x, R) + h[s \ {x}]
      BY <1>11, <2>2
    <3>2. h[s \ {x}] \in Nat /\ EvidenceWeight(x, R) \in Nat
      BY <2>2
    <3> QED
      BY <3>1, <3>2
  <2> HIDE DEF T
  <2>3. SUBSET S \subseteq T
    BY <2>1, <2>2, SubsetInduction
  <2> QED
    BY <2>3 DEF T
<1>13. h \in [SUBSET S -> Nat]
  <2>1. h = [s \in SUBSET S |-> h[s]]
    BY <1>9
  <2> HIDE DEF Is
  <2> QED
    BY <1>12, <2>1
<1> HIDE DEF Is
<1> QED
  BY <1>8, <1>10, <1>11, <1>13 DEF AddsUp

\* A score is a natural number.
LEMMA ScoreIsNatural ==
    ASSUME NEW R \in SUBSET Pool, IsFiniteSet(R), NEW c \in SUBSET R
    PROVE  WeightedScore(c, R) \in Nat
<1>1. IsFiniteSet(c)
  BY FS_Subset
<1>2. Weighed(c, R)
  BY WeightIsBounded DEF Weighed
<1>3. ScoreFold(c, R) \in [SUBSET c -> Nat]
  BY <1>1, <1>2, ScoreFolds DEF AddsUp
<1> QED
  BY <1>3, ScoreIsFold

\* What grows with every event by at least its weight bounds the score.
Outweighs(f, S, R) ==
    \A s \in SUBSET S : \A x \in s : EvidenceWeight(x, R) + f[s \ {x}] <= f[s]

LEMMA ScoreIsOutweighed ==
    ASSUME NEW S, IsFiniteSet(S), NEW R, Weighed(S, R),
           NEW f \in [SUBSET S -> Nat], Outweighs(f, S, R)
    PROVE  WeightedScore(S, R) <= f[S]
<1>1. PICK h : h = ScoreFold(S, R) /\ AddsUp(h, S, R)
  BY ScoreFolds
<1> DEFINE T == {s \in SUBSET S : h[s] <= f[s]}
<1>2. {} \in T
  BY <1>1 DEF AddsUp
<1>3. ASSUME NEW s \in SUBSET S, s # {}, \A x \in s : s \ {x} \in T PROVE s \in T
  <2>1. PICK x \in s : h[s] = EvidenceWeight(x, R) + h[s \ {x}]
    BY <1>1, <1>3 DEF AddsUp
  <2>2. EvidenceWeight(x, R) \in Nat /\ h[s] \in Nat /\ h[s \ {x}] \in Nat
        /\ f[s] \in Nat /\ f[s \ {x}] \in Nat
    BY <1>1 DEF AddsUp, Weighed
  <2>3. h[s \ {x}] <= f[s \ {x}]
    BY <1>3
  <2>4. EvidenceWeight(x, R) + f[s \ {x}] <= f[s]
    BY DEF Outweighs
  <2> QED
    BY <2>1, <2>2, <2>3, <2>4
<1>4. SUBSET S \subseteq T
  <2> HIDE DEF T
  <2>1. \A s \in SUBSET S : s # {} /\ (\A x \in s : s \ {x} \in T) => s \in T
    BY <1>3
  <2> QED
    BY <1>2, <2>1, SubsetInduction
<1> QED
  BY <1>1, <1>4, ScoreIsFold

(***************************************************************************)
(* Dampening                                                               *)
(***************************************************************************)

\* Two events of one contributor are never the same repetition.
LEMMA RepetitionsDiffer ==
    ASSUME NEW R \in SUBSET Pool, IsFiniteSet(R), NEW e \in R, NEW f \in R,
           e.who = f.who, Before(f, e)
    PROVE  Cardinality(Earlier(f, R)) < Cardinality(Earlier(e, R))
<1>1. PICK E \in SUBSET R : E = Earlier(e, R) /\ IsFiniteSet(E) /\ Cardinality(E) \in Nat
  BY EarlierIsFinite DEF Earlier
<1>2. PICK F \in SUBSET R : F = Earlier(f, R) /\ IsFiniteSet(F) /\ Cardinality(F) \in Nat
  BY EarlierIsFinite DEF Earlier
<1>3. F \in SUBSET E
  BY <1>1, <1>2, BeforeIsOrder DEF Earlier
<1>4. f \in E /\ f \notin F
  BY <1>1, <1>2, BeforeIsOrder DEF Earlier
<1>5. Cardinality(F) <= Cardinality(E) /\ (Cardinality(E) = Cardinality(F) => E = F)
  BY <1>1, <1>3, FS_Subset
<1> QED
  BY <1>1, <1>2, <1>4, <1>5

\* The events of a cluster that are the k-th contribution of someone.
Repetition(k, s, R) == {e \in s : Cardinality(Earlier(e, R)) = k}

LEMMA OneRepetitionEach ==
    ASSUME NEW R \in SUBSET Pool, IsFiniteSet(R), NEW c \in SUBSET R, NEW k \in Nat
    PROVE  /\ Cardinality(Repetition(k, c, R)) \in Nat
           /\ Cardinality(Contributors(c)) \in Nat
           /\ Cardinality(Repetition(k, c, R)) <= Cardinality(Contributors(c))
<1>1. IsFiniteSet(c)
  BY FS_Subset
<1>2. IsFiniteSet(Contributors(c))
  <2> DEFINE w == [e \in c |-> e.who]
  <2>1. w \in Surjection(c, Contributors(c))
    BY DEF Contributors, Surjection
  <2> QED
    BY <1>1, <2>1, FS_Surjection
<1>3. PICK A \in SUBSET c : A = Repetition(k, c, R)
  BY DEF Repetition
<1>4. ASSUME NEW e \in A, NEW f \in A, e.who = f.who PROVE e = f
  <2>1. Cardinality(Earlier(e, R)) = k /\ Cardinality(Earlier(f, R)) = k /\ e \in R /\ f \in R
    BY <1>3, <1>4 DEF Repetition
  <2>2. ~Before(f, e) /\ ~Before(e, f)
    BY <1>4, <2>1, RepetitionsDiffer
  <2>3. e \in Pool /\ f \in Pool
    BY <2>1
  <2> QED
    BY <2>2, <2>3, BeforeIsOrder
<1>5. IsFiniteSet(A) /\ Cardinality(A) <= Cardinality(Contributors(c))
  <2> DEFINE w == [e \in A |-> e.who]
  <2>1. w \in [A -> Contributors(c)]
    BY <1>3 DEF Contributors
  <2>2. \A e, f \in A : w[e] = w[f] => e = f
    BY <1>4
  <2> HIDE DEF w
  <2>3. w \in Injection(A, Contributors(c))
    BY <2>1, <2>2 DEF Injection, IsInjective
  <2> QED
    BY <1>2, <2>3, FS_Injection
<1> QED
  BY <1>2, <1>3, <1>5, FS_CardinalityType

\* What the events of each repetition can weigh.
Allowance(s, R) ==
    10000 * Cardinality(s)
        + 90000 * Cardinality(Repetition(0, s, R)) + 40000 * Cardinality(Repetition(1, s, R))
        + 15000 * Cardinality(Repetition(2, s, R)) + 2500 * Cardinality(Repetition(3, s, R))

LEMMA RepetitionWithout ==
    ASSUME NEW s, IsFiniteSet(s), NEW x \in s, NEW R, NEW k \in Nat
    PROVE  /\ Cardinality(Repetition(k, s, R)) \in Nat
           /\ Cardinality(Repetition(k, s \ {x}, R)) =
                 Cardinality(Repetition(k, s, R))
                    - IF Cardinality(Earlier(x, R)) = k THEN 1 ELSE 0
<1>1. PICK A \in SUBSET s : A = Repetition(k, s, R)
  BY DEF Repetition
<1>2. IsFiniteSet(A)
  BY FS_Subset
<1>3. Repetition(k, s \ {x}, R) = A \ {x}
  BY <1>1 DEF Repetition
<1>4. Cardinality(A \ {x}) = IF x \in A THEN Cardinality(A) - 1 ELSE Cardinality(A)
  BY <1>2, FS_RemoveElement
<1>5. x \in A <=> Cardinality(Earlier(x, R)) = k
  BY <1>1 DEF Repetition
<1>6. Cardinality(A) \in Nat
  BY <1>2, FS_CardinalityType
<1> QED
  BY <1>1, <1>3, <1>4, <1>5, <1>6

LEMMA AllowanceGrows ==
    ASSUME NEW R \in SUBSET Pool, IsFiniteSet(R), NEW s \in SUBSET R, NEW x \in s
    PROVE  EvidenceWeight(x, R) + Allowance(s \ {x}, R) <= Allowance(s, R)
<1>1. IsFiniteSet(s)
  BY FS_Subset
<1>2. PICK n \in Nat : n = Cardinality(Earlier(x, R))
  BY EarlierIsFinite
<1>3. /\ EvidenceWeight(x, R) \in Nat
      /\ EvidenceWeight(x, R) <= 100 * UserDampening(n)
  BY <1>2, WeightIsBounded
<1>4. UserDampening(n) = IF n = 0 THEN 1000 ELSE IF n = 1 THEN 500
                         ELSE IF n = 2 THEN 250 ELSE IF n = 3 THEN 125 ELSE 100
  BY DampeningIsBounded
<1>5. Cardinality(s) \in Nat /\ Cardinality(s \ {x}) = Cardinality(s) - 1
  BY <1>1, FS_CardinalityType, FS_RemoveElement
<1>6. \A k \in 0..3 : /\ Cardinality(Repetition(k, s, R)) \in Nat
                      /\ Cardinality(Repetition(k, s \ {x}, R)) =
                            Cardinality(Repetition(k, s, R)) - IF n = k THEN 1 ELSE 0
  BY <1>1, <1>2, RepetitionWithout
<1>7. \E a, b, c, d \in Nat :
         /\ Cardinality(Repetition(0, s, R)) = a /\ Cardinality(Repetition(1, s, R)) = b
         /\ Cardinality(Repetition(2, s, R)) = c /\ Cardinality(Repetition(3, s, R)) = d
         /\ Cardinality(Repetition(0, s \ {x}, R)) = a - IF n = 0 THEN 1 ELSE 0
         /\ Cardinality(Repetition(1, s \ {x}, R)) = b - IF n = 1 THEN 1 ELSE 0
         /\ Cardinality(Repetition(2, s \ {x}, R)) = c - IF n = 2 THEN 1 ELSE 0
         /\ Cardinality(Repetition(3, s \ {x}, R)) = d - IF n = 3 THEN 1 ELSE 0
  BY SMT, <1>6
<1> QED
  BY SMT, <1>3, <1>4, <1>5, <1>7 DEF Allowance

\* The first contributions of a cluster's contributors bound its score, and the
\* floor of each repetition.
LEMMA ScoreIsDampened ==
    ASSUME NEW R \in SUBSET Pool, IsFiniteSet(R), NEW c \in SUBSET R
    PROVE  WeightedScore(c, R)
               <= 147500 * Cardinality(Contributors(c)) + 10000 * Cardinality(c)
<1> DEFINE f == [s \in SUBSET c |-> Allowance(s, R)]
<1>1. IsFiniteSet(c) /\ Cardinality(c) \in Nat
  BY FS_Subset, FS_CardinalityType
<1>2. Weighed(c, R)
  BY WeightIsBounded DEF Weighed
<1>3. ASSUME NEW s \in SUBSET c PROVE Allowance(s, R) \in Nat
  <2>1. IsFiniteSet(s) /\ Cardinality(s) \in Nat
    BY <1>1, FS_Subset, FS_CardinalityType
  <2>2. \A k \in 0..3 : Cardinality(Repetition(k, s, R)) \in Nat
    BY OneRepetitionEach
  <2>3. /\ Cardinality(Repetition(0, s, R)) \in Nat /\ Cardinality(Repetition(1, s, R)) \in Nat
        /\ Cardinality(Repetition(2, s, R)) \in Nat /\ Cardinality(Repetition(3, s, R)) \in Nat
    BY <2>2
  <2> QED
    BY SMT, <2>1, <2>3 DEF Allowance
<1>4. f \in [SUBSET c -> Nat]
  BY <1>3
<1>5. Outweighs(f, c, R)
  <2> SUFFICES ASSUME NEW s \in SUBSET c, NEW x \in s
               PROVE  EvidenceWeight(x, R) + f[s \ {x}] <= f[s]
    BY DEF Outweighs
  <2>1. s \in SUBSET R /\ f[s] = Allowance(s, R) /\ f[s \ {x}] = Allowance(s \ {x}, R)
    OBVIOUS
  <2> HIDE DEF f
  <2> QED
    BY <2>1, AllowanceGrows
<1>6. WeightedScore(c, R) <= f[c]
  <2> HIDE DEF f
  <2> QED
    BY <1>1, <1>2, <1>4, <1>5, ScoreIsOutweighed
<1>7. f[c] = Allowance(c, R)
  OBVIOUS
<1>8. \A k \in 0..3 : /\ Cardinality(Repetition(k, c, R)) \in Nat
                      /\ Cardinality(Contributors(c)) \in Nat
                      /\ Cardinality(Repetition(k, c, R)) <= Cardinality(Contributors(c))
  BY OneRepetitionEach
<1>9. Allowance(c, R) <= 147500 * Cardinality(Contributors(c)) + 10000 * Cardinality(c)
  <2>1. \E x \in Nat : \E p, q, r, t \in 0..x :
           /\ Cardinality(Contributors(c)) = x
           /\ Cardinality(Repetition(0, c, R)) = p /\ Cardinality(Repetition(1, c, R)) = q
           /\ Cardinality(Repetition(2, c, R)) = r /\ Cardinality(Repetition(3, c, R)) = t
    BY SMT, <1>8
  <2> QED
    BY SMT, <1>1, <2>1 DEF Allowance
<1>10. WeightedScore(c, R) \in Nat /\ Allowance(c, R) \in Nat
  BY <1>3, ScoreIsNatural
<1> HIDE DEF f
<1> QED
  BY SMT, <1>1, <1>6, <1>7, <1>8, <1>9, <1>10

\* One contributor's repeated events add less than another contributor, and no
\* event is weighed down to nothing (stop_aggregation.py,
\* calculate_user_dampening, _calculate_evidence_weight; INV-D1).
THEOREM ContributorsAreDampened == Spec => []RepeatsAreDampened
<1>1. EvidenceOK => RepeatsAreDampened
  <2> SUFFICES ASSUME EvidenceOK PROVE RepeatsAreDampened
    OBVIOUS
  <2>1. \A e \in rows : EvidenceWeight(e, rows) > 0
    BY WeightIsBounded DEF EvidenceOK
  <2>2. ASSUME NEW c \in ClusterEvidence(rows)
        PROVE  WeightedScore(c, rows)
                  <= 150000 * Cardinality(Contributors(c)) + 10000 * Cardinality(c)
    <3>1. rows \in SUBSET Pool /\ IsFiniteSet(rows) /\ c \in SUBSET rows /\ IsFiniteSet(c)
      BY ClustersAreEvidence DEF EvidenceOK
    <3>2. WeightedScore(c, rows) <= 147500 * Cardinality(Contributors(c)) + 10000 * Cardinality(c)
      BY SMT, <3>1, ScoreIsDampened
    <3>3. Cardinality(Contributors(c)) \in Nat /\ Cardinality(c) \in Nat
      BY <3>1, OneRepetitionEach, FS_CardinalityType
    <3>4. WeightedScore(c, rows) \in Nat
      BY <3>1, ScoreIsNatural
    <3> QED
      BY SMT, <3>2, <3>3, <3>4
  <2> QED
    BY SMT, <2>1, <2>2 DEF RepeatsAreDampened
<1> QED
  BY <1>1, EvidenceAlwaysOK, PTL

(***************************************************************************)
(* Negative evidence                                                       *)
(***************************************************************************)

PressureOK ==
    /\ reports \in Seq([pos : Places, day : Nat])
    /\ today \in Nat
    /\ confidence \in Int

\* The score of the reports, whatever their places and days.
LEMMA ReportsScore ==
    ASSUME PressureOK, NEW c
    PROVE  /\ NegativeScore(c) \in Nat
           /\ Credible(c) => \E i \in DOMAIN reports : today - reports[i].day <= 7
<1>1. PICK n \in Nat : DOMAIN reports = 1..n
  BY LenProperties DEF PressureOK
<1>2. IsFiniteSet(1..n)
  BY FS_Interval
<1>3. PICK A \in SUBSET DOMAIN reports : A = Against(c)
  BY DEF Against
<1>4. IsFiniteSet(A)
  BY <1>1, <1>2, FS_Subset
<1>5. Cardinality(A) \in Nat /\ (Cardinality(A) = 0 <=> A = {})
  BY <1>4, FS_CardinalityType, FS_EmptySet
<1>6. NegativeScore(c) = 50000 * Cardinality(A)
  BY SMT, <1>3 DEF NegativeScore, REPORT_WEIGHT
<1>7. Credible(c) => A # {}
  BY SMT, <1>5, <1>6 DEF Credible, CREDIBILITY_THRESHOLD
<1>8. \A i \in A : today - reports[i].day <= 7
  BY <1>3 DEF Against, InScope, WINDOW_DAYS
<1>9. NegativeScore(c) \in Nat
  BY SMT, <1>5, <1>6
<1> QED
  BY <1>7, <1>8, <1>9

\* A cycle proposes to take off something between nothing and its cap.
LEMMA ReductionIsCapped ==
    ASSUME EvidenceOK, PressureOK, NEW c \in ClusterEvidence(rows)
    PROVE  Reduction(c) \in 0..1500
<1>1. PICK p \in Nat : p = WeightedScore(c, rows)
  <2>1. c \in SUBSET rows
    BY ClustersAreEvidence DEF EvidenceOK
  <2> QED
    BY <2>1, ScoreIsNatural DEF EvidenceOK
<1>2. PICK n \in Nat : n = NegativeScore(c)
  BY ReportsScore
<1>3. Proposal(c) \in Nat
  <2>1. CASE p = 0
    BY <1>1, <2>1 DEF Proposal, MAX_PROPOSAL
  <2>2. CASE p # 0
    <3>1. PICK q \in Nat : q = (1000 * n) \div p
      <4>1. PICK m \in Nat : m = 1000 * n
        OBVIOUS
      <4>2. m <= m * p
        BY SMT, <2>2
      <4>3. m \div p \in 0..m
        BY <2>2, <4>2, Quotient
      <4> QED
        BY <4>1, <4>3
    <3>2. Min({q, 2500}) = IF q <= 2500 THEN q ELSE 2500
      BY SMT, MinOfTwo
    <3> QED
      BY SMT, <1>1, <1>2, <2>2, <3>1, <3>2 DEF Proposal, MAX_PROPOSAL
  <2> QED
    BY <2>1, <2>2
<1>4. PICK q \in Nat : q = Proposal(c)
  BY <1>3
<1>5. Min({q, 1500}) = IF q <= 1500 THEN q ELSE 1500
  BY SMT, MinOfTwo
<1> QED
  BY SMT, <1>4, <1>5 DEF Reduction, MAX_REDUCTION_PER_CYCLE

LEMMA AdjustmentIsGradual ==
    ASSUME EvidenceOK, PressureOK, NEW c \in ClusterEvidence(rows)
    PROVE  /\ Adjusted(c) \in Int
           /\ confidence - Adjusted(c) <= 1500
           /\ confidence >= 500 => Adjusted(c) >= 500
           /\ Adjusted(c) < confidence => Credible(c)
<1>1. PICK k \in Int : k = confidence
  BY DEF PressureOK
<1>2. PICK r \in 0..1500 : r = Reduction(c)
  BY ReductionIsCapped
<1>3. PICK d \in Int : d = k - r
  OBVIOUS
<1>4. Max({d, 500}) = IF d >= 500 THEN d ELSE 500
  BY SMT, MaxOfTwo
<1>5. Adjusted(c) = IF Credible(c) THEN Max({d, 500}) ELSE k
  BY SMT, <1>1, <1>2, <1>3 DEF Adjusted, MINIMUM_CONFIDENCE_FLOOR
<1> QED
  BY SMT, <1>1, <1>2, <1>3, <1>4, <1>5

LEMMA PressureAlwaysOK == Spec => []PressureOK
<1>1. Init => PressureOK
  BY PressureAssumption, EmptySeq DEF Init, PressureOK, NoStop
<1>2. EvidenceOK /\ PressureOK /\ [Next]_vars => PressureOK'
  <2> SUFFICES ASSUME EvidenceOK, PressureOK, [Next]_vars PROVE PressureOK'
    OBVIOUS
  <2> USE DEF PressureOK
  <2>1. ASSUME NEW e \in Pool, Ingest(e) PROVE PressureOK'
    BY <2>1 DEF Ingest
  <2>2. ASSUME NEW pos \in Places, Report(pos) PROVE PressureOK'
    <3>1. [pos |-> pos, day |-> today] \in [pos : Places, day : Nat]
      OBVIOUS
    <3>2. Append(reports, [pos |-> pos, day |-> today]) \in Seq([pos : Places, day : Nat])
      BY <3>1, AppendProperties
    <3> QED
      BY <2>2, <3>2 DEF Report
  <2>3. ASSUME NextDay PROVE PressureOK'
    BY <2>3, PressureAssumption DEF NextDay
  <2>4. ASSUME NEW c \in ClusterEvidence(rows), Create(c) PROVE PressureOK'
    BY <2>4 DEF Create
  <2>5. ASSUME NEW c \in ClusterEvidence(rows), Cycle(c) PROVE PressureOK'
    <3>1. Adjusted(c) \in Int
      BY AdjustmentIsGradual
    <3> QED
      BY <2>5, <3>1 DEF Cycle
  <2>6. ASSUME UNCHANGED vars PROVE PressureOK'
    BY <2>6 DEF vars
  <2> QED
    BY <2>1, <2>2, <2>3, <2>4, <2>5, <2>6 DEF Next
<1> QED
  BY <1>1, <1>2, EvidenceAlwaysOK, PTL DEF Spec

\* The threshold rises by at most one contribution of full weight.
LEMMA ThresholdIsCapped ==
    ASSUME NEW n \in Nat
    PROVE  AdjustedThreshold(n) \in Nat /\ AdjustedThreshold(n) <= 300000
<1>1. CASE n <= 0
  BY SMT, <1>1 DEF AdjustedThreshold, BASE_CREATION_THRESHOLD
<1>2. CASE n > 0
  <2>1. PICK h \in Nat : h = n \div 2
    BY SMT
  <2>2. Min({h, 100000}) = IF h <= 100000 THEN h ELSE 100000
    BY SMT, MinOfTwo
  <2>3. AdjustedThreshold(n) = 200000 + Min({h, 100000})
    BY SMT, <1>2, <2>1 DEF AdjustedThreshold, BASE_CREATION_THRESHOLD, MAX_NEGATIVE_ADJUSTMENT
  <2> QED
    BY SMT, <2>1, <2>2, <2>3
<1> QED
  BY <1>1, <1>2

\* No number of reports blocks a creation (stop_creation.py,
\* _calculate_adjusted_threshold; INV-E3): evidence of weight three that passes
\* the gates creates its Stop.
THEOREM ReportsNeverBlock == Spec => []CreationIsNeverBlocked
<1>1. EvidenceOK /\ PressureOK => CreationIsNeverBlocked
  <2> SUFFICES ASSUME EvidenceOK, PressureOK, NEW c \in ClusterEvidence(rows),
                      AllGatesPass(c), WeightedScore(c, rows) >= 300000
               PROVE  ShouldCreate(c, rows, NegativeScore(c))
    BY SMT DEF CreationIsNeverBlocked
  <2>1. PICK n \in Nat : n = NegativeScore(c)
    BY ReportsScore
  <2>2. AdjustedThreshold(n) \in Nat /\ AdjustedThreshold(n) <= 300000
    BY SMT, ThresholdIsCapped
  <2>3. WeightedScore(c, rows) \in Nat
    <3>1. c \in SUBSET rows
      BY ClustersAreEvidence DEF EvidenceOK
    <3> QED
      BY <3>1, ScoreIsNatural DEF EvidenceOK
  <2> QED
    BY SMT, <2>1, <2>2, <2>3 DEF ShouldCreate
<1> QED
  BY <1>1, EvidenceAlwaysOK, PressureAlwaysOK, PTL

\* Reports wear a Stop down slowly, never below the floor and never without a
\* report of the last week (stop_negative_evidence.py,
\* compute_confidence_adjustment; INV-E1, INV-F1).
THEOREM ReportsWearDown == Spec => LossIsGradual
<1> DEFINE Gradual ==
        /\ confidence - confidence' <= 1500
        /\ confidence >= 500 => confidence' >= 500
        /\ confidence' < confidence =>
              \E i \in DOMAIN reports : today - reports[i].day <= 7
<1>1. EvidenceOK /\ PressureOK /\ [Next]_vars => Gradual
  <2> SUFFICES ASSUME EvidenceOK, PressureOK, [Next]_vars PROVE Gradual
    OBVIOUS
  <2>1. ASSUME confidence' = confidence PROVE Gradual
    BY <2>1 DEF PressureOK
  <2>2. ASSUME NEW c \in ClusterEvidence(rows), Create(c) PROVE Gradual
    BY <2>2 DEF Create, NoStop
  <2>3. ASSUME NEW c \in ClusterEvidence(rows), Cycle(c) PROVE Gradual
    <3>1. confidence' = Adjusted(c)
      BY <2>3 DEF Cycle
    <3>2. /\ Adjusted(c) \in Int
          /\ confidence - Adjusted(c) <= 1500
          /\ confidence >= 500 => Adjusted(c) >= 500
          /\ Adjusted(c) < confidence => Credible(c)
      BY AdjustmentIsGradual
    <3>3. Credible(c) => \E i \in DOMAIN reports : today - reports[i].day <= 7
      BY ReportsScore
    <3> QED
      BY <3>1, <3>2, <3>3
  <2> HIDE DEF Gradual
  <2>4. ASSUME NEW e \in Pool, Ingest(e) PROVE Gradual
    BY <2>1, <2>4 DEF Ingest
  <2>5. ASSUME NEW pos \in Places, Report(pos) PROVE Gradual
    BY <2>1, <2>5 DEF Report
  <2>6. ASSUME NextDay PROVE Gradual
    BY <2>1, <2>6 DEF NextDay
  <2>7. ASSUME UNCHANGED vars PROVE Gradual
    BY <2>1, <2>7 DEF vars
  <2> QED
    BY <2>2, <2>3, <2>4, <2>5, <2>6, <2>7 DEF Next
<1>2. EvidenceOK /\ PressureOK /\ [Next]_vars => [Gradual]_vars
  BY <1>1
<1> HIDE DEF Gradual
<1>3. Spec => [][Gradual]_vars
  BY <1>2, EvidenceAlwaysOK, PressureAlwaysOK, PTL DEF Spec
<1> QED
  BY <1>3 DEF LossIsGradual, Gradual
=============================================================================
