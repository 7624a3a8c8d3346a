------------------------- MODULE LeaderboardProofs --------------------------
(* What the operators of Leaderboard compute for any number of trips and     *)
(* drivers: sums of ratings are numbers, and the ranking lists each driver   *)
(* after exactly those that are ahead.                                       *)
EXTENDS Leaderboard, FiniteSetTheorems, TLAPS

-----------------------------------------------------------------------------
(* Induction, over sets of cases in place of predicates *)

(* Induction over the subsets of a finite set. *)
LEMMA SubsetInduction ==
  ASSUME NEW S, IsFiniteSet(S), NEW F,
         \A T \in SUBSET S : (\A U \in SUBSET T : U # T => U \in F) => T \in F
  PROVE  S \in F
<1> DEFINE G == (SUBSET S) \ F
<1>1. IsWellFoundedOn(StrictSubsetOrdering(S), SUBSET S)
  BY FS_StrictSubsetOrderingWellFounded, FS_FiniteSubsetsOfFinite
<1>2. SUFFICES ASSUME G # {} PROVE FALSE
  OBVIOUS
<1>3. G \subseteq SUBSET S
  OBVIOUS
<1> HIDE DEF G
<1>4. PICK T \in G : \A U \in G : ~ (<<U, T>> \in StrictSubsetOrdering(S))
  BY <1>1, <1>2, <1>3, WFMin
<1> QED BY <1>4 DEF G, StrictSubsetOrdering

(* Induction over the natural numbers. *)
LEMMA NumberInduction ==
  ASSUME NEW N, 0 \in N, \A n \in Nat : n \in N => n + 1 \in N, NEW k \in Nat
  PROVE  k \in N
<1>1. PICK S : S = 0..k /\ IsFiniteSet(S)
  BY FS_Interval
<1> DEFINE F == {T \in SUBSET S : \A n \in T : 0..n \subseteq T => n \in N}
<1>2. ASSUME NEW T \in SUBSET S, \A U \in SUBSET T : U # T => U \in F
      PROVE  T \in F
  <2>1. ASSUME NEW n \in T, 0..n \subseteq T, n # 0 PROVE n \in N
    <3>1. n \in Nat /\ n - 1 \in Nat /\ n \notin 0..(n - 1)
      BY <1>1, <2>1
    <3>2. 0..(n - 1) \in SUBSET T /\ 0..(n - 1) # T
      BY <2>1, <3>1
    <3>3. 0..(n - 1) \in F
      BY <1>2, <3>2
    <3>4. n - 1 \in 0..(n - 1)
      BY <3>1
    <3>5. n - 1 \in N
      BY <3>3, <3>4
    <3>6. (n - 1) + 1 = n
      BY <3>1
    <3> QED BY <3>1, <3>5, <3>6
  <2> QED BY <2>1
<1>3. \A T \in SUBSET S : (\A U \in SUBSET T : U # T => U \in F) => T \in F
  BY <1>2
<1>4. IsFiniteSet(S)
  BY <1>1
<1> HIDE DEF F
<1>5. S \in F
  BY <1>3, <1>4, SubsetInduction
<1> QED BY <1>1, <1>5 DEF F

-----------------------------------------------------------------------------
(* Sums *)

One(s) == CHOOSE x \in s : TRUE

(* g is the recursive function that sums f over the sets of F.               *)
SumsUp(g, f, F) == g = [s \in F |-> IF s = {} THEN 0 ELSE f[One(s)] + g[s \ {One(s)}]]

LEMMA SumDef ==
  ASSUME NEW f, NEW S
  PROVE  SumFunctionOnSet(f, S) = (CHOOSE g : SumsUp(g, f, SUBSET S))[S]
BY DEF SumFunctionOnSet, FoldFunctionOnSet, MapThenFoldSet, SumsUp, One

Small(S, n) == {s \in SUBSET S : Cardinality(s) <= n}

LEMMA SomeSum ==
  ASSUME NEW f, NEW S, IsFiniteSet(S)
  PROVE  \E g : SumsUp(g, f, SUBSET S)
<1> DEFINE N == {n \in Nat : \E g : SumsUp(g, f, Small(S, n))}
<1>0. \A s \in SUBSET S : IsFiniteSet(s) /\ Cardinality(s) \in Nat
  BY FS_Subset, FS_CardinalityType
<1>1. 0 \in N
  <2>1. \A s \in Small(S, 0) : s = {}
    BY <1>0, FS_EmptySet DEF Small
  <2>2. SumsUp([s \in Small(S, 0) |-> 0], f, Small(S, 0))
    BY <2>1 DEF SumsUp
  <2> QED BY <2>2
<1>2. ASSUME NEW n \in Nat, n \in N PROVE n + 1 \in N
  <2>1. PICK g : SumsUp(g, f, Small(S, n))
    BY <1>2
  <2> DEFINE h == [s \in Small(S, n + 1) |->
                     IF s = {} THEN 0 ELSE f[One(s)] + g[s \ {One(s)}]]
  <2>2. ASSUME NEW s \in Small(S, n + 1), s # {} PROVE s \ {One(s)} \in Small(S, n)
    <3>1. One(s) \in s
      BY <2>2 DEF One
    <3>2. Cardinality(s \ {One(s)}) = Cardinality(s) - 1
      BY <1>0, <3>1, FS_RemoveElement DEF Small
    <3> QED BY <1>0, <3>2 DEF Small
  <2>3. ASSUME NEW s \in Small(S, n) PROVE s \in Small(S, n + 1) /\ h[s] = g[s]
    <3>1. s \in Small(S, n + 1)
      BY <1>0 DEF Small
    <3>2. g[s] = IF s = {} THEN 0 ELSE f[One(s)] + g[s \ {One(s)}]
      BY <2>1 DEF SumsUp
    <3> QED BY <3>1, <3>2
  <2>4. SumsUp(h, f, Small(S, n + 1))
    BY <2>2, <2>3 DEF SumsUp
  <2> QED BY <2>4
<1>3. \A s \in SUBSET S : Cardinality(s) <= Cardinality(S)
  BY FS_Subset
<1>4. Cardinality(S) \in Nat /\ SUBSET S = Small(S, Cardinality(S))
  BY <1>0, <1>3 DEF Small
<1> HIDE DEF N
<1>5. Cardinality(S) \in N
  BY <1>1, <1>2, <1>4, NumberInduction
<1> QED BY <1>4, <1>5 DEF N

(* Two such functions agree where both are defined. *)
LEMMA SumsAgree ==
  ASSUME NEW f, NEW S, NEW R, R \subseteq S, IsFiniteSet(R)
  PROVE  \A g, h : SumsUp(g, f, SUBSET S) /\ SumsUp(h, f, SUBSET R) => g[R] = h[R]
<1> SUFFICES ASSUME NEW g, NEW h, SumsUp(g, f, SUBSET S), SumsUp(h, f, SUBSET R)
             PROVE  g[R] = h[R]
  OBVIOUS
<1> DEFINE F == {s \in SUBSET R : g[s] = h[s]}
<1>1. ASSUME NEW s \in SUBSET R, \A u \in SUBSET s : u # s => u \in F
      PROVE  s \in F
  <2>1. /\ g[s] = IF s = {} THEN 0 ELSE f[One(s)] + g[s \ {One(s)}]
        /\ h[s] = IF s = {} THEN 0 ELSE f[One(s)] + h[s \ {One(s)}]
    BY DEF SumsUp
  <2>2. s # {} => One(s) \in s
    BY DEF One
  <2>3. s # {} => s \ {One(s)} \in F
    BY <1>1, <2>2
  <2> QED BY <2>1, <2>3
<1> HIDE DEF F
<1>2. R \in F
  BY <1>1, SubsetInduction
<1> QED BY <1>2 DEF F

(* What a sum is, without a choice of its recursive function.                *)
LEMMA SumEquation ==
  ASSUME NEW f, NEW S, IsFiniteSet(S)
  PROVE  SumFunctionOnSet(f, S) =
           IF S = {} THEN 0 ELSE f[One(S)] + SumFunctionOnSet(f, S \ {One(S)})
<1>0. PICK R \in SUBSET S : R = S \ {One(S)}
  OBVIOUS
<1>1. PICK g : SumsUp(g, f, SUBSET S) /\ SumFunctionOnSet(f, S) = g[S]
  BY SomeSum, SumDef
<1>2. IsFiniteSet(R)
  BY FS_Subset
<1>3. PICK h : SumsUp(h, f, SUBSET R) /\ SumFunctionOnSet(f, R) = h[R]
  BY <1>2, SomeSum, SumDef
<1>4. g[S] = IF S = {} THEN 0 ELSE f[One(S)] + g[R]
  BY <1>0, <1>1 DEF SumsUp
<1>5. g[R] = h[R]
  <2>1. SumsUp(g, f, SUBSET S)
    BY <1>1
  <2>2. SumsUp(h, f, SUBSET R)
    BY <1>3
  <2>3. R \subseteq S
    BY <1>0
  <2> QED BY <1>2, <2>1, <2>2, <2>3, SumsAgree
<1> QED BY <1>0, <1>1, <1>3, <1>4, <1>5

LEMMA SumType ==
  ASSUME NEW f, NEW S, IsFiniteSet(S), \A x \in S : f[x] \in Nat
  PROVE  SumFunctionOnSet(f, S) \in Nat
<1> DEFINE F == {T \in SUBSET S : SumFunctionOnSet(f, T) \in Nat}
<1>1. ASSUME NEW T \in SUBSET S, \A U \in SUBSET T : U # T => U \in F
      PROVE  T \in F
  <2>1. SumFunctionOnSet(f, T) =
          IF T = {} THEN 0 ELSE f[One(T)] + SumFunctionOnSet(f, T \ {One(T)})
    BY SumEquation, FS_Subset
  <2>2. T # {} => One(T) \in T
    BY DEF One
  <2>3. T # {} => T \ {One(T)} \in F
    BY <1>1, <2>2
  <2> QED BY <2>1, <2>2, <2>3
<1> HIDE DEF F
<1>2. S \in F
  BY <1>1, SubsetInduction
<1> QED BY <1>2 DEF F

(* A sum depends on the values alone. *)
LEMMA SumOfSame ==
  ASSUME NEW f, NEW g, NEW S, IsFiniteSet(S), \A x \in S : f[x] = g[x]
  PROVE  SumFunctionOnSet(f, S) = SumFunctionOnSet(g, S)
<1> DEFINE F == {T \in SUBSET S : SumFunctionOnSet(f, T) = SumFunctionOnSet(g, T)}
<1>1. ASSUME NEW T \in SUBSET S, \A U \in SUBSET T : U # T => U \in F
      PROVE  T \in F
  <2>1. /\ SumFunctionOnSet(f, T) =
             IF T = {} THEN 0 ELSE f[One(T)] + SumFunctionOnSet(f, T \ {One(T)})
        /\ SumFunctionOnSet(g, T) =
             IF T = {} THEN 0 ELSE g[One(T)] + SumFunctionOnSet(g, T \ {One(T)})
    BY SumEquation, FS_Subset
  <2>2. T # {} => One(T) \in T
    BY DEF One
  <2>3. T # {} => T \ {One(T)} \in F
    BY <1>1, <2>2
  <2> QED BY <2>1, <2>2, <2>3
<1> HIDE DEF F
<1>2. S \in F
  BY <1>1, SubsetInduction
<1> QED BY <1>2 DEF F

(* ... and not on the order. *)
LEMMA SumRemove ==
  ASSUME NEW f, NEW S, IsFiniteSet(S), \A x \in S : f[x] \in Nat, NEW x \in S
  PROVE  SumFunctionOnSet(f, S) = f[x] + SumFunctionOnSet(f, S \ {x})
<1> DEFINE Total(T) == SumFunctionOnSet(f, T)
           F == {T \in SUBSET S : \A y \in T : Total(T) = f[y] + Total(T \ {y})}
<1>0. \A T \in SUBSET S : Total(T) \in Nat
  BY SumType, FS_Subset
<1>1. ASSUME NEW T \in SUBSET S, \A U \in SUBSET T : U # T => U \in F,
             NEW y \in T
      PROVE  Total(T) = f[y] + Total(T \ {y})
  <2>1. PICK o : o = One(T)
    OBVIOUS
  <2>2. o \in T /\ Total(T) = f[o] + Total(T \ {o})
    <3>1. o \in T
      BY <2>1 DEF One
    <3> QED BY <2>1, <3>1, SumEquation, FS_Subset
  <2>3. CASE o # y
    <3>1. Total(T \ {o}) = f[y] + Total((T \ {o}) \ {y})
      <4>1. T \ {o} \in F /\ y \in T \ {o}
        BY <1>1, <2>2, <2>3
      <4> HIDE DEF Total
      <4> QED BY <4>1
    <3>2. Total(T \ {y}) = f[o] + Total((T \ {y}) \ {o})
      <4>1. T \ {y} \in F /\ o \in T \ {y}
        BY <1>1, <2>2, <2>3
      <4> HIDE DEF Total
      <4> QED BY <4>1
    <3>3. (T \ {o}) \ {y} = (T \ {y}) \ {o}
      OBVIOUS
    <3>4. f[o] \in Nat /\ f[y] \in Nat /\ Total((T \ {y}) \ {o}) \in Nat
      BY <1>0, <2>2
    <3>5. Total(T \ {o}) = f[y] + Total((T \ {y}) \ {o})
      BY <3>1, <3>3
    <3>6. Total(T) = f[o] + Total(T \ {o})
      BY <2>2
    <3> HIDE DEF Total, F
    <3>7. PICK a, b, c : a = f[o] /\ b = f[y] /\ c = Total((T \ {y}) \ {o})
      OBVIOUS
    <3>8. a \in Nat /\ b \in Nat /\ c \in Nat
      BY <3>4, <3>7
    <3>9. Total(T) = a + (b + c) /\ Total(T \ {y}) = a + c
      BY <3>2, <3>5, <3>6, <3>7
    <3>10. Total(T) = b + Total(T \ {y})
      BY <3>8, <3>9
    <3> QED BY <3>7, <3>10
  <2> QED BY <2>2, <2>3
<1>2. ASSUME NEW T \in SUBSET S, \A U \in SUBSET T : U # T => U \in F
      PROVE  T \in F
  <2>1. \A y \in T : Total(T) = f[y] + Total(T \ {y})
    BY <1>1, <1>2
  <2> HIDE DEF Total
  <2> QED BY <2>1
<1> HIDE DEF F
<1>3. S \in F
  BY <1>2, SubsetInduction
<1> HIDE DEF Total
<1>4. Total(S) = f[x] + Total(S \ {x})
  BY <1>3 DEF F
<1> QED BY <1>4 DEF Total

(* One value changes. *)
LEMMA SumChange ==
  ASSUME NEW S, IsFiniteSet(S), NEW f, \A y \in S : f[y] \in Nat, NEW x \in S,
         NEW g, \A y \in S : g[y] \in Nat, \A y \in S : y # x => g[y] = f[y]
  PROVE  SumFunctionOnSet(g, S) = SumFunctionOnSet(f, S) - f[x] + g[x]
<1>1. PICK R \in SUBSET S : R = S \ {x}
  OBVIOUS
<1>2. IsFiniteSet(R)
  BY FS_Subset
<1>3. SumFunctionOnSet(f, R) = SumFunctionOnSet(g, R)
  BY <1>1, <1>2, SumOfSame
<1>4. SumFunctionOnSet(f, R) \in Nat
  BY <1>1, <1>2, SumType
<1>5. SumFunctionOnSet(f, S) = f[x] + SumFunctionOnSet(f, R)
  BY <1>1, SumRemove
<1>6. SumFunctionOnSet(g, S) = g[x] + SumFunctionOnSet(g, R)
  BY <1>1, SumRemove
<1>7. f[x] \in Nat /\ g[x] \in Nat
  OBVIOUS
<1> QED BY <1>3, <1>4, <1>5, <1>6, <1>7

(* Each value is at most the sum. *)
LEMMA SumBounds ==
  ASSUME NEW f, NEW S, IsFiniteSet(S), \A y \in S : f[y] \in Nat, NEW x \in S
  PROVE  f[x] <= SumFunctionOnSet(f, S)
<1>1. PICK R \in SUBSET S : R = S \ {x}
  OBVIOUS
<1>2. SumFunctionOnSet(f, R) \in Nat
  BY <1>1, SumType, FS_Subset
<1>3. SumFunctionOnSet(f, S) = f[x] + SumFunctionOnSet(f, R)
  BY <1>1, SumRemove
<1>4. f[x] \in Nat
  OBVIOUS
<1> QED BY <1>2, <1>3, <1>4

LEMMA SumOfZeros ==
  ASSUME NEW f, NEW S, IsFiniteSet(S), \A x \in S : f[x] = 0
  PROVE  SumFunctionOnSet(f, S) = 0
<1> DEFINE F == {T \in SUBSET S : SumFunctionOnSet(f, T) = 0}
<1>1. ASSUME NEW T \in SUBSET S, \A U \in SUBSET T : U # T => U \in F
      PROVE  T \in F
  <2>1. SumFunctionOnSet(f, T) =
          IF T = {} THEN 0 ELSE f[One(T)] + SumFunctionOnSet(f, T \ {One(T)})
    BY SumEquation, FS_Subset
  <2>2. T # {} => One(T) \in T
    BY DEF One
  <2>3. T # {} => T \ {One(T)} \in F
    BY <1>1, <2>2
  <2> QED BY <2>1, <2>2, <2>3
<1> HIDE DEF F
<1>2. S \in F
  BY <1>1, SubsetInduction
<1> QED BY <1>2 DEF F

-----------------------------------------------------------------------------
(* Scores *)

(* A finite set of numbers has a greatest one. *)
LEMMA Greatest ==
  ASSUME NEW S, IsFiniteSet(S), S \subseteq Int, S # {}
  PROVE  Max(S) \in S /\ \A y \in S : Max(S) >= y
<1> DEFINE F == {T \in SUBSET S : T # {} => \E x \in T : \A y \in T : x >= y}
<1>1. ASSUME NEW T \in SUBSET S, \A U \in SUBSET T : U # T => U \in F
      PROVE  T \in F
  <2>1. ASSUME NEW x \in T PROVE \E z \in T : \A y \in T : z >= y
    <3>1. PICK U \in SUBSET T : U = T \ {x}
      OBVIOUS
    <3>2. U \in F
      BY <1>1, <3>1
    <3>3. CASE U = {}
      <4>1. \A y \in T : x >= y
        BY <3>1, <3>3
      <4> QED BY <4>1
    <3>4. CASE U # {}
      <4>1. PICK m \in U : \A y \in U : m >= y
        BY <3>2, <3>4
      <4>2. CASE m >= x
        BY <3>1, <4>1, <4>2
      <4>3. CASE ~(m >= x)
        <5>1. \A y \in T : x >= y
          BY <3>1, <4>1, <4>3
        <5> QED BY <5>1
      <4> QED BY <4>2, <4>3
    <3> QED BY <3>3, <3>4
  <2> QED BY <2>1
<1> HIDE DEF F
<1>2. S \in F
  BY <1>1, SubsetInduction
<1>3. \E x \in S : \A y \in S : x >= y
  BY <1>2 DEF F
<1> QED BY <1>3 DEF Max

LEMMA ContributingIsFinite ==
  ASSUME NEW r, NEW d, NEW t
  PROVE  /\ Contributing(r, d, t) \subseteq Trips
         /\ IsFiniteSet(Contributing(r, d, t))
         /\ Cardinality(Contributing(r, d, t)) \in Nat
<1>1. PICK S \in SUBSET Trips : S = Contributing(r, d, t)
  BY DEF Contributing
<1>2. IsFiniteSet(S)
  BY TripsAssumption, FS_Subset
<1>3. Cardinality(S) \in Nat
  BY <1>2, FS_CardinalityType
<1> QED BY <1>1, <1>2, <1>3

(* A score is a row of the table. *)
LEMMA ScoreType ==
  ASSUME NEW r, \A e \in Trips : r[e] \in Nat, NEW d, NEW t \in Nat
  PROVE  ScoreOf(r, d, t) \in [sum : Nat, count : Nat, eligible : BOOLEAN, calculated : Nat]
<1>1. PICK S : S = Contributing(r, d, t) /\ S \subseteq Trips /\ IsFiniteSet(S) /\ Cardinality(S) \in Nat
  BY ContributingIsFinite
<1>2. PICK f : f = [e \in S |-> r[e]]
  OBVIOUS
<1>3. \A e \in S : f[e] \in Nat
  BY <1>1, <1>2
<1>4. SumFunctionOnSet(f, S) \in Nat
  BY <1>1, <1>3, SumType
<1>5. DOMAIN f = S
  BY <1>2
<1>6. SumFunction(f) \in Nat
  BY <1>4, <1>5 DEF SumFunction
<1> QED BY <1>1, <1>2, <1>6 DEF ScoreOf

-----------------------------------------------------------------------------
(* The order of the drivers *)

LEMMA Scale ==
  ASSUME NEW a \in Int, NEW b \in Int, NEW k \in Nat \ {0}
  PROVE  /\ a * k >= b * k <=> a >= b
         /\ a * k = b * k <=> a = b
<1>1. (a - b) * k = a * k - b * k /\ a * k \in Int /\ b * k \in Int
  OBVIOUS
<1>2. a > b => (a - b) * k > 0
  OBVIOUS
<1>3. b > a => (b - a) * k > 0 /\ (b - a) * k = b * k - a * k
  OBVIOUS
<1> QED BY <1>1, <1>2, <1>3

(* Fractions s1/c1 >= s2/c2 and s2/c2 >= s3/c3, compared crosswise. *)
LEMMA Fractions ==
  ASSUME NEW s1 \in Nat, NEW s2 \in Nat, NEW s3 \in Nat,
         NEW c1 \in Nat \ {0}, NEW c2 \in Nat \ {0}, NEW c3 \in Nat \ {0},
         s1 * c2 >= s2 * c1, s2 * c3 >= s3 * c2
  PROVE  /\ s1 * c3 >= s3 * c1
         /\ s1 * c3 = s3 * c1 => s1 * c2 = s2 * c1 /\ s2 * c3 = s3 * c2
<1>1. PICK a \in Nat : a = s1 * c2
  OBVIOUS
<1>2. PICK b \in Nat : b = s2 * c1
  OBVIOUS
<1>3. PICK c \in Nat : c = s2 * c3
  OBVIOUS
<1>4. PICK d \in Nat : d = s3 * c2
  OBVIOUS
<1>5. PICK e \in Nat : e = s1 * c3
  OBVIOUS
<1>6. PICK f \in Nat : f = s3 * c1
  OBVIOUS
<1>7. a * c3 = e * c2 /\ b * c3 = c * c1 /\ d * c1 = f * c2
  BY <1>1, <1>2, <1>3, <1>4, <1>5, <1>6
<1>8. a >= b /\ c >= d
  BY <1>1, <1>2, <1>3, <1>4
<1>9. PICK ac, bc, cc, dc, ec, fc \in Nat :
        /\ ac = a * c3 /\ bc = b * c3 /\ cc = c * c1 /\ dc = d * c1
        /\ ec = e * c2 /\ fc = f * c2
  OBVIOUS
<1>10. ac >= bc /\ (ac = bc => a = b)
  BY <1>8, <1>9, Scale
<1>11. cc >= dc /\ (cc = dc => c = d)
  BY <1>8, <1>9, Scale
<1>12. ec = ac /\ bc = cc /\ dc = fc
  BY <1>7, <1>9
<1>13. ec >= fc /\ (ec = fc => ac = bc /\ cc = dc)
  BY <1>10, <1>11, <1>12
<1>14. e >= f /\ (e = f => ec = fc)
  BY <1>9, <1>13, Scale
<1> QED BY <1>1, <1>2, <1>3, <1>4, <1>5, <1>6, <1>10, <1>11, <1>13, <1>14

(* Drivers whose averages can be compared. *)
Comparable(rows, D) ==
  /\ IsFiniteSet(D) /\ D \subseteq Nat
  /\ \A d \in D : rows[d].sum \in Nat /\ rows[d].count \in Nat \ {0}

(* Of two drivers exactly one is ahead. *)
LEMMA AheadIsTotal ==
  ASSUME NEW D, NEW rows, Comparable(rows, D), NEW d \in D, NEW e \in D
  PROVE  /\ Ahead(rows, d, e) => d # e /\ ~Ahead(rows, e, d)
         /\ d # e => Ahead(rows, d, e) \/ Ahead(rows, e, d)
<1> IsFiniteSet(D) /\ D \subseteq Nat
  BY DEF Comparable
<1>0. /\ rows[d].sum \in Nat /\ rows[d].count \in Nat
      /\ rows[e].sum \in Nat /\ rows[e].count \in Nat
  BY DEF Comparable
<1>1. PICK a \in Nat : a = rows[d].sum * rows[e].count
  BY <1>0
<1>2. PICK b \in Nat : b = rows[e].sum * rows[d].count
  BY <1>0
<1>3. PICK m \in Nat : m = rows[d].count
  BY DEF Comparable
<1>4. PICK n \in Nat : n = rows[e].count
  BY DEF Comparable
<1>5. Ahead(rows, d, e) <=> a > b \/ (a = b /\ m > n) \/ (a = b /\ m = n /\ d < e)
  BY <1>1, <1>2, <1>3, <1>4 DEF Ahead
<1>6. Ahead(rows, e, d) <=> b > a \/ (b = a /\ n > m) \/ (b = a /\ n = m /\ e < d)
  BY <1>1, <1>2, <1>3, <1>4 DEF Ahead
<1>7. d \in Nat /\ e \in Nat
  OBVIOUS
<1>8. d = e => a = b /\ m = n
  BY <1>1, <1>2, <1>3, <1>4
<1> QED BY <1>5, <1>6, <1>7, <1>8

LEMMA AheadIsTransitive ==
  ASSUME NEW D, NEW rows, Comparable(rows, D),
         NEW d \in D, NEW e \in D, NEW f \in D, Ahead(rows, d, e), Ahead(rows, e, f)
  PROVE  Ahead(rows, d, f)
<1> IsFiniteSet(D) /\ D \subseteq Nat
  BY DEF Comparable
<1>1. PICK s1, s2, s3 \in Nat : s1 = rows[d].sum /\ s2 = rows[e].sum /\ s3 = rows[f].sum
  BY DEF Comparable
<1>2. PICK c1, c2, c3 \in Nat \ {0} :
        c1 = rows[d].count /\ c2 = rows[e].count /\ c3 = rows[f].count
  BY DEF Comparable
<1>3. /\ s1 * c2 > s2 * c1 \/ (s1 * c2 = s2 * c1 /\ (c1 > c2 \/ (c1 = c2 /\ d < e)))
      /\ s2 * c3 > s3 * c2 \/ (s2 * c3 = s3 * c2 /\ (c2 > c3 \/ (c2 = c3 /\ e < f)))
  BY <1>1, <1>2 DEF Ahead
<1>4. s1 * c2 >= s2 * c1 /\ s2 * c3 >= s3 * c2
  BY <1>3
<1>5. /\ s1 * c3 >= s3 * c1
      /\ s1 * c3 = s3 * c1 => s1 * c2 = s2 * c1 /\ s2 * c3 = s3 * c2
  BY <1>4, Fractions
<1>6. PICK a, b \in Nat : a = s1 * c3 /\ b = s3 * c1
  OBVIOUS
<1>7. a > b \/ (a = b /\ (c1 > c3 \/ (c1 = c3 /\ d < f)))
  <2>1. CASE a # b
    BY <1>5, <1>6, <2>1
  <2>2. CASE a = b
    <3>1. s1 * c2 = s2 * c1 /\ s2 * c3 = s3 * c2
      BY <1>5, <1>6, <2>2
    <3>2. PICK x, y \in Nat : x = s1 * c2 /\ y = s2 * c3
      OBVIOUS
    <3>3. (c1 > c2 \/ (c1 = c2 /\ d < e)) /\ (c2 > c3 \/ (c2 = c3 /\ e < f))
      BY <1>3, <3>1, <3>2
    <3>4. d \in Nat /\ e \in Nat /\ f \in Nat
      OBVIOUS
    <3>5. c1 > c3 \/ (c1 = c3 /\ d < f)
      BY <3>3, <3>4
    <3> QED BY <2>2, <3>5
  <2> QED BY <2>1, <2>2
<1> QED BY <1>1, <1>2, <1>6, <1>7 DEF Ahead

-----------------------------------------------------------------------------
(* Ranks *)

AheadOf(rows, D, d) == {e \in D : Ahead(rows, e, d)}

RankIn(rows, D, d) == 1 + Cardinality(AheadOf(rows, D, d))

LEMMA RankRange ==
  ASSUME NEW D, NEW rows, Comparable(rows, D), NEW d \in D
  PROVE  /\ IsFiniteSet(AheadOf(rows, D, d)) /\ Cardinality(D) \in Nat
         /\ RankIn(rows, D, d) \in 1..Cardinality(D)
<1> IsFiniteSet(D) /\ D \subseteq Nat
  BY DEF Comparable
<1>1. PICK A \in SUBSET D : A = AheadOf(rows, D, d)
  BY DEF AheadOf
<1>2. d \notin A
  BY <1>1, AheadIsTotal DEF AheadOf
<1>3. IsFiniteSet(A) /\ Cardinality(A) <= Cardinality(D) /\ (Cardinality(D) = Cardinality(A) => D = A)
  BY FS_Subset
<1>4. Cardinality(A) \in Nat /\ Cardinality(D) \in Nat
  BY <1>3, FS_CardinalityType
<1>5. Cardinality(A) < Cardinality(D)
  BY <1>2, <1>3, <1>4
<1> QED BY <1>1, <1>3, <1>4, <1>5 DEF RankIn

LEMMA RankIsMonotone ==
  ASSUME NEW D, NEW rows, Comparable(rows, D),
         NEW d \in D, NEW e \in D, Ahead(rows, d, e)
  PROVE  RankIn(rows, D, d) < RankIn(rows, D, e)
<1> IsFiniteSet(D) /\ D \subseteq Nat
  BY DEF Comparable
<1>1. PICK B : B = AheadOf(rows, D, e) /\ IsFiniteSet(B)
  BY RankRange
<1>2. PICK A : A = AheadOf(rows, D, d)
  OBVIOUS
<1>3. A \subseteq B
  BY <1>1, <1>2, AheadIsTransitive DEF AheadOf
<1>4. d \in B /\ d \notin A
  BY <1>1, <1>2, AheadIsTotal DEF AheadOf
<1>5. A \in SUBSET B
  BY <1>3
<1>6. IsFiniteSet(A) /\ Cardinality(A) <= Cardinality(B) /\ (Cardinality(B) = Cardinality(A) => B = A)
  BY <1>1, <1>5, FS_Subset
<1>7. Cardinality(A) \in Nat /\ Cardinality(B) \in Nat
  BY <1>1, <1>6, FS_CardinalityType
<1>8. Cardinality(A) < Cardinality(B)
  BY <1>4, <1>6, <1>7
<1> QED BY <1>1, <1>2, <1>7, <1>8 DEF RankIn

(* Every rank is that of one driver. *)
LEMMA EveryRankIsTaken ==
  ASSUME NEW D, NEW rows, Comparable(rows, D),
         NEW i \in 1..Cardinality(D)
  PROVE  \E d \in D : RankIn(rows, D, d) = i
<1> IsFiniteSet(D) /\ D \subseteq Nat
  BY DEF Comparable
<1>1. PICK n \in Nat : n = Cardinality(D)
  BY FS_CardinalityType
<1>2. PICK f : f = [d \in D |-> RankIn(rows, D, d)]
  OBVIOUS
<1>3. \A d \in D : f[d] \in 1..n
  BY <1>1, <1>2, RankRange
<1>4. ASSUME NEW d \in D, NEW e \in D, d # e PROVE f[d] # f[e]
  <2>1. Ahead(rows, d, e) \/ Ahead(rows, e, d)
    BY <1>4, AheadIsTotal
  <2>2. f[d] < f[e] \/ f[e] < f[d]
    BY <1>2, <2>1, RankIsMonotone
  <2> QED BY <1>3, <2>2
<1>5. f \in Injection(D, 1..n)
  BY <1>2, <1>3, <1>4 DEF Injection, IsInjective
<1>6. IsFiniteSet(1..n) /\ Cardinality(1..n) = n
  BY FS_Interval
<1>7. f \in Surjection(D, 1..n)
  BY <1>1, <1>5, <1>6, FS_Injection
<1>8. \E d \in D : f[d] = i
  BY <1>1, <1>7 DEF Surjection
<1> QED BY <1>2, <1>8

Ordered(s, rows) == \A i, j \in DOMAIN s : i < j => Ahead(rows, s[i], s[j])

(* There is an order to choose. *)
LEMMA OrderExists ==
  ASSUME NEW D, NEW rows, Comparable(rows, D)
  PROVE  \E s \in SetToSeqs(D) : Ordered(s, rows)
<1>0. IsFiniteSet(D)
  BY DEF Comparable
<1>1. PICK n \in Nat : n = Cardinality(D)
  BY <1>0, FS_CardinalityType
<1>2. PICK s : s = [i \in 1..n |-> CHOOSE d \in D : RankIn(rows, D, d) = i]
  OBVIOUS
<1>3. ASSUME NEW i \in 1..n PROVE s[i] \in D /\ RankIn(rows, D, s[i]) = i
  <2>1. \E d \in D : RankIn(rows, D, d) = i
    <3>1. i \in 1..Cardinality(D)
      BY <1>1
    <3> QED BY <3>1, EveryRankIsTaken
  <2>2. s[i] = CHOOSE d \in D : RankIn(rows, D, d) = i
    BY <1>2
  <2> QED BY <2>1, <2>2
<1>4. s \in SetToSeqs(D)
  BY <1>1, <1>2, <1>3 DEF SetToSeqs
<1>5. ASSUME NEW i \in 1..n, NEW j \in 1..n, i < j PROVE Ahead(rows, s[i], s[j])
  <2>1. s[i] # s[j]
    BY <1>3, <1>5
  <2>2. Ahead(rows, s[j], s[i]) => RankIn(rows, D, s[j]) < RankIn(rows, D, s[i])
    BY <1>3, RankIsMonotone
  <2>3. ~Ahead(rows, s[j], s[i])
    BY <1>3, <1>5, <2>2
  <2> QED BY <1>3, <2>1, <2>3, AheadIsTotal
<1> QED BY <1>2, <1>4, <1>5 DEF Ordered

(* In such an order each driver has its rank. *)
LEMMA OrderHasRanks ==
  ASSUME NEW D, NEW rows, Comparable(rows, D),
         NEW s \in SetToSeqs(D), Ordered(s, rows)
  PROVE  /\ DOMAIN s = 1..Cardinality(D)
         /\ \A i \in DOMAIN s : s[i] \in D /\ RankIn(rows, D, s[i]) = i
         /\ \A d \in D : RankIn(rows, D, d) \in DOMAIN s /\ s[RankIn(rows, D, d)] = d
<1> IsFiniteSet(D) /\ D \subseteq Nat
  BY DEF Comparable
<1>1. PICK n \in Nat : n = Cardinality(D)
  BY FS_CardinalityType
<1>2. s \in [1..n -> D] /\ \A i, j \in 1..n : i # j => s[i] # s[j]
  BY <1>1 DEF SetToSeqs
<1>3. s \in Injection(1..n, D)
  BY <1>2 DEF Injection, IsInjective
<1>4. IsFiniteSet(1..n) /\ Cardinality(1..n) = n
  BY FS_Interval
<1>5. s \in Surjection(1..n, D)
  BY <1>1, <1>3, <1>4, FS_Injection
<1>6. \A d \in D : \E i \in 1..n : s[i] = d
  BY <1>5 DEF Surjection
<1>7. ASSUME NEW i \in 1..n PROVE RankIn(rows, D, s[i]) = i
  <2>1. PICK A : A = AheadOf(rows, D, s[i])
    OBVIOUS
  <2>2. PICK g : g = [j \in 1..(i - 1) |-> s[j]]
    OBVIOUS
  <2>3. \A j \in 1..n : s[j] \in A <=> j < i
    <3> SUFFICES ASSUME NEW j \in 1..n PROVE s[j] \in A <=> j < i
      OBVIOUS
    <3>1. s[i] \in D /\ s[j] \in D /\ DOMAIN s = 1..n
      BY <1>2
    <3>2. j < i => Ahead(rows, s[j], s[i])
      BY <3>1 DEF Ordered
    <3>3. i < j => Ahead(rows, s[i], s[j])
      BY <3>1 DEF Ordered
    <3>4. Ahead(rows, s[j], s[i]) => s[j] # s[i] /\ ~Ahead(rows, s[i], s[j])
      BY <3>1, AheadIsTotal
    <3>5. j < i \/ j = i \/ i < j
      OBVIOUS
    <3> QED BY <2>1, <3>1, <3>2, <3>3, <3>4, <3>5 DEF AheadOf
  <2>4. \A j \in 1..(i - 1) : j \in 1..n /\ j < i
    OBVIOUS
  <2>5. \A j \in 1..(i - 1) : g[j] = s[j] /\ g[j] \in A
    BY <2>2, <2>3, <2>4
  <2>6. \A a \in A : \E j \in 1..(i - 1) : g[j] = a
    <3> SUFFICES ASSUME NEW a \in A PROVE \E j \in 1..(i - 1) : g[j] = a
      OBVIOUS
    <3>1. PICK j \in 1..n : s[j] = a
      BY <1>6, <2>1 DEF AheadOf
    <3>2. j \in 1..(i - 1)
      BY <2>3, <3>1
    <3> QED BY <2>5, <3>1, <3>2
  <2>7. g \in Bijection(1..(i - 1), A)
    <3>1. g \in [1..(i - 1) -> A]
      BY <2>2, <2>5
    <3>2. \A j, k \in 1..(i - 1) : g[j] = g[k] => j = k
      BY <1>2, <2>4, <2>5
    <3> QED BY <2>6, <3>1, <3>2 DEF Bijection, Injection, Surjection, IsInjective
  <2>8. IsFiniteSet(1..(i - 1)) /\ Cardinality(1..(i - 1)) = i - 1
    BY FS_Interval
  <2>9. ExistsBijection(1..(i - 1), A)
    BY <2>7 DEF ExistsBijection
  <2>10. Cardinality(A) = i - 1
    BY <2>8, <2>9, FS_Bijection
  <2> QED BY <2>1, <2>10 DEF RankIn
<1>8. ASSUME NEW d \in D PROVE RankIn(rows, D, d) \in 1..n /\ s[RankIn(rows, D, d)] = d
  <2>1. PICK i \in 1..n : s[i] = d
    BY <1>6
  <2>2. RankIn(rows, D, d) = i
    BY <1>7, <2>1
  <2> QED BY <2>1, <2>2
<1> QED BY <1>1, <1>2, <1>7, <1>8

(* What a board shows of some comparable rows: at each place up to the limit *)
(* the driver of that rank, and nobody else.                                 *)
THEOREM RankedDriversAreRanked ==
  ASSUME NEW standing, Comparable(standing, DOMAIN standing)
  PROVE  /\ RankedDrivers(standing) \in Seq(DOMAIN standing)
         /\ Len(RankedDrivers(standing)) <= BoardLimit
         /\ \A i \in DOMAIN RankedDrivers(standing) :
              RankIn(standing, DOMAIN standing, RankedDrivers(standing)[i]) = i
         /\ \A d \in DOMAIN standing :
              LET rank == RankIn(standing, DOMAIN standing, d)
              IN rank <= BoardLimit => /\ rank \in DOMAIN RankedDrivers(standing)
                                       /\ RankedDrivers(standing)[rank] = d
<1>1. PICK D : D = DOMAIN standing
  OBVIOUS
<1> IsFiniteSet(D) /\ D \subseteq Nat
  BY <1>1 DEF Comparable
<1>2. PICK n \in Nat : n = Cardinality(D)
  BY <1>1, FS_CardinalityType
<1>3. PICK s : s = InOrder(D, standing)
  OBVIOUS
<1>4. s \in SetToSeqs(D) /\ Ordered(s, standing)
  <2>1. \E q \in SetToSeqs(D) : Ordered(q, standing)
    BY <1>1, OrderExists
  <2> QED BY <1>3, <2>1 DEF InOrder, Ordered
<1>5. /\ DOMAIN s = 1..n
      /\ \A i \in 1..n : s[i] \in D /\ RankIn(standing, D, s[i]) = i
      /\ \A d \in D : RankIn(standing, D, d) \in 1..n /\ s[RankIn(standing, D, d)] = d
  BY <1>1, <1>2, <1>4, OrderHasRanks
<1>6. s \in [1..n -> D]
  BY <1>2, <1>4 DEF SetToSeqs
<1>7. s \in Seq(D) /\ Len(s) = n
  BY <1>6
<1>8. PICK m : m = Min({BoardLimit, n})
  OBVIOUS
<1>9. m \in 0..n /\ m <= BoardLimit /\ (m = n \/ m = BoardLimit)
  <2>1. BoardLimit \in Nat
    BY LimitsAssumption
  <2>2. \E x \in {BoardLimit, n} : \A y \in {BoardLimit, n} : x <= y
    BY <2>1
  <2>3. m \in {BoardLimit, n} /\ m <= BoardLimit /\ m <= n
    BY <1>8, <2>2 DEF Min
  <2> QED BY <2>1, <2>3
<1>10. PICK r : r = RankedDrivers(standing)
  OBVIOUS
<1>11. r = SubSeq(s, 1, m)
  BY <1>1, <1>3, <1>7, <1>8, <1>10 DEF RankedDrivers
<1>12. r \in Seq(D) /\ Len(r) = m /\ DOMAIN r = 1..m /\ \A i \in 1..m : r[i] = s[i]
  BY <1>7, <1>9, <1>11
<1>13. \A i \in 1..m : RankIn(standing, D, r[i]) = i
  BY <1>5, <1>9, <1>12
<1>14. ASSUME NEW d \in D, RankIn(standing, D, d) <= BoardLimit
       PROVE  RankIn(standing, D, d) \in 1..m /\ r[RankIn(standing, D, d)] = d
  <2>1. PICK k : k = RankIn(standing, D, d)
    OBVIOUS
  <2>2. k \in 1..n /\ s[k] = d /\ k <= BoardLimit
    BY <1>5, <1>14, <2>1
  <2>3. k \in 1..m
    BY <1>9, <2>2
  <2> QED BY <1>12, <2>1, <2>2, <2>3
<1> QED BY <1>1, <1>9, <1>10, <1>12, <1>13, <1>14
=============================================================================
