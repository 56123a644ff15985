-------------------------- MODULE Analytics_proofs --------------------------
(***************************************************************************)
(* Proofs about Analytics, for any audience, any number of days and of     *)
(* openings, and any shapes of status records.                             *)
(***************************************************************************)
EXTENDS Analytics, FiniteSetTheorems, WellFoundedInduction, TLAPS

-----------------------------------------------------------------------------
(***************************************************************************)
(* A sent newsletter counts its audience, the openings of a deleted one    *)
(* are gone with it, and only a delivered mail has been opened.            *)
(***************************************************************************)
Audience == Cardinality(Recipients)

WorldInv ==
  /\ row.status = "sent" => row.total = Audience
  /\ ~ Exists => opens = {}
  /\ \A r \in Recipients : OpenDays(r) # {} => mail[r] = "delivered"

(***************************************************************************)
(* The email service forgets nothing.                                      *)
(***************************************************************************)
FiguresGrow ==
  /\ start.sent <= Figures.sent
  /\ start.failed <= Figures.failed
  /\ start.unique <= Figures.unique

(***************************************************************************)
(* What a request knows at each step.  A newsletter read as sent is never  *)
(* a draft again; the mails counted are the audience until the email       *)
(* service says how many it accepted, no fewer than when the request       *)
(* began.                                                                  *)
(***************************************************************************)
Reading == {"row", "aggregate", "daily", "engagement", "status"}

ReadInv ==
  /\ pc \in Reading /\ first.status = "sent" =>
       row.status # "draft" /\ first.total = Audience
  /\ pc \in {"aggregate", "daily"} /\ first.status = "sent" => got.total = Audience
  /\ pc = "engagement" => first.status = "sent" /\ got.total = Audience
  /\ pc = "status" =>
       /\ first.status = "sent" /\ got.source = "engagement"
       /\ got.total = Audience \/ got.total >= start.sent
       /\ got.failed \in {0} \cup (start.failed .. Figures.failed)
  /\ pc \in {"idle", "get", "row", "aggregate", "daily", "engagement"} =>
       got.source \in {"none", "local"}

(***************************************************************************)
(* The openers counted have openings in the table, and in the series once  *)
(* it is drawn, unless the newsletter was deleted meanwhile: then the      *)
(* series is all zeros, and no records have replaced it.                   *)
(***************************************************************************)
Emptied == ~ Exists /\ got.source # "records" /\ got.chart = EmptyChart

ChartInv ==
  /\ pc = "daily" => ~ Exists \/ got.unique <= Cardinality(Openers)
  /\ pc \in {"engagement", "status", "answered"} => (Uncharted => Emptied)

(***************************************************************************)
(* What the row and the table gave adds up, and what the totals replace of *)
(* it is replaced as a whole.                                              *)
(***************************************************************************)
HalfInv ==
  /\ pc \in {"idle", "get", "row", "aggregate", "daily", "engagement"} => got.failed = 0
  /\ pc \in {"aggregate", "daily", "engagement"} => got.delivered = got.total
  /\ pc \in {"daily", "engagement", "status"} => got.unique <= got.opens
  /\ pc = "status" => got.delivered + got.failed <= got.total

AnalyticsInv ==
  /\ TypeOK /\ WorldInv /\ FiguresGrow /\ ReadInv /\ ChartInv /\ HalfInv
  /\ FiguresWereTrue /\ OpenersAreCharted /\ HalfAnswersAddUp /\ RateIsARate

-----------------------------------------------------------------------------
(***************************************************************************)
(* A set of subsets of a finite set has a smallest member: what one step   *)
(* of removing an element refutes holds of every finite set.               *)
(***************************************************************************)
LEMMA SmallestSubset ==
  ASSUME NEW S, IsFiniteSet(S), NEW K \in SUBSET (SUBSET S), K # {}
  PROVE  \E T \in K : \A x \in T : T \ {x} \notin K
<1>1. IsWellFoundedOn(StrictSubsetOrdering(S), SUBSET S)
  BY FS_FiniteSubsetsOfFinite, FS_StrictSubsetOrderingWellFounded
<1>2. PICK T \in K : \A U \in K : <<U, T>> \notin StrictSubsetOrdering(S)
  BY <1>1, WFMin
<1>3. ASSUME NEW x \in T, T \ {x} \in K  PROVE FALSE
  BY <1>2, <1>3 DEF StrictSubsetOrdering
<1>4. QED
  BY <1>3

(***************************************************************************)
(* The recursion by which the library folds a set: i gives every subset of *)
(* S the sum of f over it.                                                 *)
(***************************************************************************)
Picked(s) == CHOOSE x \in s : TRUE

SumsOver(f, i, S) ==
  i = [s \in SUBSET S |-> IF s = {} THEN 0 ELSE f[Picked(s)] + i[s \ {Picked(s)}]]

(***************************************************************************)
(* What a set picks is a member of it.                                     *)
(***************************************************************************)
LEMMA PickedIsIn ==
  ASSUME NEW s, s # {}
  PROVE  Picked(s) \in s
  BY DEF Picked

(***************************************************************************)
(* The recursion, applied to one subset.                                   *)
(***************************************************************************)
LEMMA OneSum ==
  ASSUME NEW f, NEW i, NEW S, SumsOver(f, i, S), NEW s \in SUBSET S
  PROVE  i[s] = IF s = {} THEN 0 ELSE f[Picked(s)] + i[s \ {Picked(s)}]
<1> DEFINE g == [t \in SUBSET S |-> IF t = {} THEN 0
                                   ELSE f[Picked(t)] + i[t \ {Picked(t)}]]
<1>1. i = g
  BY DEF SumsOver
<1>2. g[s] = IF s = {} THEN 0 ELSE f[Picked(s)] + i[s \ {Picked(s)}]
  OBVIOUS
<1> HIDE DEF g
<1>3. QED
  BY <1>1, <1>2

(***************************************************************************)
(* Two of them give a set they both know the same sum.                     *)
(***************************************************************************)
LEMMA SumsAgree ==
  ASSUME NEW f, NEW S, NEW T, NEW i, NEW j, SumsOver(f, i, S), SumsOver(f, j, T),
         NEW w, w \subseteq S, w \subseteq T, IsFiniteSet(w)
  PROVE  i[w] = j[w]
<1> DEFINE K == {v \in SUBSET w : i[v] # j[v]}
<1> SUFFICES ASSUME K # {}  PROVE FALSE
  OBVIOUS
<1>1. PICK v \in K : \A x \in v : v \ {x} \notin K
  BY SmallestSubset
<1>2. v \in SUBSET S /\ v \in SUBSET T /\ v \subseteq w
  OBVIOUS
<1>3. i[v] = (IF v = {} THEN 0 ELSE f[Picked(v)] + i[v \ {Picked(v)}])
  BY <1>2, OneSum
<1>4. j[v] = (IF v = {} THEN 0 ELSE f[Picked(v)] + j[v \ {Picked(v)}])
  BY <1>2, OneSum
<1>5. CASE v = {}
  BY <1>3, <1>4, <1>5
<1>6. CASE v # {}
  <2>1. Picked(v) \in v
    BY <1>6, PickedIsIn
  <2>2. i[v \ {Picked(v)}] = j[v \ {Picked(v)}]
    BY <1>1, <1>2, <2>1
  <2>3. QED
    BY <1>3, <1>4, <1>6, <2>2
<1>7. QED
  BY <1>5, <1>6

(***************************************************************************)
(* There is one for every finite set.                                      *)
(***************************************************************************)
LEMMA SumsExist ==
  ASSUME NEW f, NEW S, IsFiniteSet(S)
  PROVE  \E i : SumsOver(f, i, S)
<1> DEFINE K == {T \in SUBSET S : ~ \E i : SumsOver(f, i, T)}
<1> SUFFICES ASSUME K # {}  PROVE FALSE
  OBVIOUS
<1>1. PICK T \in K : \A x \in T : T \ {x} \notin K
  BY SmallestSubset
<1>2. ASSUME NEW x \in T  PROVE \E i : SumsOver(f, i, T \ {x})
  BY <1>1
<1> DEFINE V(s) == (CHOOSE i : SumsOver(f, i, s))[s]
           Of(s) == IF s = {} THEN 0 ELSE f[Picked(s)] + V(s \ {Picked(s)})
           i == [s \in SUBSET T |-> Of(s)]
<1>3. ASSUME NEW s, s \subseteq T, s # T  PROVE \E j : SumsOver(f, j, s)
  <2>1. PICK x \in T : x \notin s
    BY <1>3
  <2>2. PICK j : SumsOver(f, j, T \ {x})
    BY <1>2
  <2> DEFINE k == [u \in SUBSET s |-> j[u]]
  <2>3. ASSUME NEW u \in SUBSET s
        PROVE  k[u] = IF u = {} THEN 0 ELSE f[Picked(u)] + k[u \ {Picked(u)}]
    <3>1. u \in SUBSET (T \ {x}) /\ u \ {Picked(u)} \in SUBSET s
      BY <1>3, <2>1
    <3>2. j[u] = IF u = {} THEN 0 ELSE f[Picked(u)] + j[u \ {Picked(u)}]
      BY <2>2, <3>1, OneSum
    <3>3. k[u] = j[u] /\ k[u \ {Picked(u)}] = j[u \ {Picked(u)}]
      BY <3>1
    <3> HIDE DEF k
    <3>4. QED
      BY <3>2, <3>3
  <2>4. k = [u \in SUBSET s |-> k[u]]
    OBVIOUS
  <2> HIDE DEF k
  <2>5. SumsOver(f, k, s)
    BY <2>3, <2>4 DEF SumsOver
  <2>6. QED
    BY <2>5
<1>4. ASSUME NEW s, s \subseteq T, s # T  PROVE V(s) = Of(s)
  <2>1. SumsOver(f, CHOOSE j : SumsOver(f, j, s), s)
    BY <1>3, <1>4
  <2> DEFINE j == CHOOSE j : SumsOver(f, j, s)
  <2>2. SumsOver(f, j, s) /\ V(s) = j[s]
    BY <2>1
  <2> HIDE DEF j
  <2>3. j[s] = IF s = {} THEN 0 ELSE f[Picked(s)] + j[s \ {Picked(s)}]
    BY <2>2, OneSum
  <2>4. CASE s = {}
    BY <2>2, <2>3, <2>4
  <2>5. CASE s # {}
    <3> DEFINE u == s \ {Picked(s)}
               k == CHOOSE k : SumsOver(f, k, u)
    <3>1. u \subseteq s /\ u \subseteq T /\ u # T
      BY <1>4
    <3>2. SumsOver(f, k, u) /\ V(u) = k[u]
      BY <1>3, <3>1
    <3>3. IsFiniteSet(u)
      BY <3>1, FS_Subset, <1>4
    <3> HIDE DEF k, V, u
    <3>4. j[u] = k[u]
      BY <2>2, <3>1, <3>2, <3>3, SumsAgree
    <3> USE DEF u
    <3>5. QED
      BY <2>2, <2>3, <2>5, <3>2, <3>4
  <2>6. QED
    BY <2>4, <2>5
<1> HIDE DEF V
<1>5. ASSUME NEW s \in SUBSET T
      PROVE  i[s] = IF s = {} THEN 0 ELSE f[Picked(s)] + i[s \ {Picked(s)}]
  <2>1. CASE s = {}
    BY <2>1
  <2>2. CASE s # {}
    <3> DEFINE u == s \ {Picked(s)}
    <3>1. u \subseteq T /\ u # T
      BY <2>2, PickedIsIn
    <3>2. V(u) = Of(u)
      BY <1>4, <3>1
    <3>3. i[s] = f[Picked(s)] + V(u) /\ i[u] = Of(u)
      BY <2>2, <3>1
    <3>4. QED
      BY <2>2, <3>2, <3>3
  <2>3. QED
    BY <2>1, <2>2
<1>6. i = [s \in SUBSET T |-> i[s]]
  OBVIOUS
<1> HIDE DEF i
<1>7. SumsOver(f, i, T)
  BY <1>5, <1>6 DEF SumsOver
<1>8. QED
  BY <1>1, <1>7

(***************************************************************************)
(* The sum of the library is what any such recursion gives the whole set.  *)
(***************************************************************************)
LEMMA SumIs ==
  ASSUME NEW f, NEW S, IsFiniteSet(S), NEW i, SumsOver(f, i, S)
  PROVE  Sum(f, S) = i[S]
<1> DEFINE j == CHOOSE j : SumsOver(f, j, S)
<1>1. Sum(f, S) = j[S]
  BY DEF Sum, MapThenSumSet, MapThenFoldSet, SumsOver, Picked
<1>2. SumsOver(f, j, S)
  BY SumsExist
<1> HIDE DEF j
<1>3. QED
  BY <1>1, <1>2, SumsAgree

(***************************************************************************)
(* The sum over nothing.                                                   *)
(***************************************************************************)
LEMMA SumOfNone ==
  ASSUME NEW f
  PROVE  Sum(f, {}) = 0
<1>1. IsFiniteSet({})
  BY FS_EmptySet
<1>2. PICK i : SumsOver(f, i, {})
  BY <1>1, SumsExist
<1>3. i[{}] = 0
  BY <1>2, OneSum
<1>4. QED
  BY <1>1, <1>2, <1>3, SumIs

(***************************************************************************)
(* The sum over a set is some element of it and the sum over the others.   *)
(***************************************************************************)
LEMMA SumOfSome ==
  ASSUME NEW f, NEW S, IsFiniteSet(S), S # {}
  PROVE  \E x \in S : Sum(f, S) = f[x] + Sum(f, S \ {x})
<1> DEFINE x == Picked(S)
<1>1. x \in S
  BY PickedIsIn
<1> HIDE DEF x
<1>2. PICK i : SumsOver(f, i, S)
  BY SumsExist
<1>3. IsFiniteSet(S \ {x})
  BY FS_Subset
<1>4. PICK j : SumsOver(f, j, S \ {x})
  BY <1>3, SumsExist
<1>5. Sum(f, S) = i[S] /\ Sum(f, S \ {x}) = j[S \ {x}]
  BY <1>2, <1>3, <1>4, SumIs
<1>6. i[S \ {x}] = j[S \ {x}]
  BY <1>2, <1>3, <1>4, SumsAgree
<1>7. i[S] = f[x] + i[S \ {x}]
  BY <1>2, OneSum DEF x
<1>8. QED
  BY <1>1, <1>5, <1>6, <1>7

(***************************************************************************)
(* A sum of natural numbers is one, over a set and over a part of it.      *)
(***************************************************************************)
LEMMA SubsetSum ==
  ASSUME NEW S, IsFiniteSet(S), NEW f \in [S -> Nat], NEW R \in SUBSET S
  PROVE  Sum(f, R) \in Nat
<1> DEFINE K == {T \in SUBSET S : Sum(f, T) \notin Nat}
<1> SUFFICES ASSUME K # {}  PROVE FALSE
  OBVIOUS
<1>1. PICK T \in K : \A x \in T : T \ {x} \notin K
  BY SmallestSubset
<1>2. IsFiniteSet(T) /\ T \subseteq S
  BY FS_Subset
<1>3. CASE T = {}
  BY <1>1, <1>3, SumOfNone
<1>4. CASE T # {}
  <2>1. PICK x \in T : Sum(f, T) = f[x] + Sum(f, T \ {x})
    BY <1>2, <1>4, SumOfSome
  <2>2. Sum(f, T \ {x}) \in Nat /\ f[x] \in Nat
    BY <1>1, <1>2
  <2>3. QED
    BY <1>1, <2>1, <2>2
<1>5. QED
  BY <1>3, <1>4

(***************************************************************************)
(* The set itself is a part of it.                                         *)
(***************************************************************************)
LEMMA SumType ==
  ASSUME NEW S, IsFiniteSet(S), NEW f \in [S -> Nat]
  PROVE  Sum(f, S) \in Nat
  BY SubsetSum

(***************************************************************************)
(* Two sets together have no more elements than both counted.              *)
(***************************************************************************)
LEMMA UnionIsBounded ==
  ASSUME NEW A, NEW B, IsFiniteSet(A), IsFiniteSet(B)
  PROVE  Cardinality(A \cup B) <= Cardinality(A) + Cardinality(B)
<1>1. IsFiniteSet(A \cap B)
  BY FS_Subset
<1>2. /\ Cardinality(A \cap B) \in Nat
      /\ Cardinality(A) \in Nat /\ Cardinality(B) \in Nat
  BY <1>1, FS_CardinalityType
<1>3. Cardinality(A \cup B) = Cardinality(A) + Cardinality(B) - Cardinality(A \cap B)
  BY FS_Union
<1>4. QED
  BY <1>2, <1>3

(***************************************************************************)
(* No summand exceeds the sum.                                             *)
(***************************************************************************)
LEMMA SummandIsBounded ==
  ASSUME NEW S, IsFiniteSet(S), NEW f \in [S -> Nat], NEW x \in S
  PROVE  f[x] <= Sum(f, S)
<1> DEFINE K == {T \in SUBSET S : x \in T /\ ~ (f[x] <= Sum(f, T))}
<1> SUFFICES ASSUME K # {}  PROVE FALSE
  OBVIOUS
<1>1. PICK T \in K : \A y \in T : T \ {y} \notin K
  BY SmallestSubset
<1>2. IsFiniteSet(T) /\ T \subseteq S /\ T # {}
  BY FS_Subset
<1>3. PICK y \in T : Sum(f, T) = f[y] + Sum(f, T \ {y})
  BY <1>2, SumOfSome
<1>5. f[x] \in Nat /\ f[y] \in Nat
  BY <1>2
<1>6. Sum(f, T \ {y}) \in Nat
  BY <1>2, SubsetSum
<1>7. CASE x = y
  BY <1>1, <1>3, <1>5, <1>6, <1>7
<1>8. CASE x # y
  <2>1. f[x] <= Sum(f, T \ {y})
    BY <1>1, <1>2, <1>8
  <2>2. QED
    BY <1>1, <1>3, <1>5, <1>6, <2>1
<1>9. QED
  BY <1>7, <1>8

(***************************************************************************)
(* A sum over none but zeros is zero.                                      *)
(***************************************************************************)
LEMMA SumOfZeros ==
  ASSUME NEW S, IsFiniteSet(S), NEW f, \A x \in S : f[x] = 0
  PROVE  Sum(f, S) = 0
<1> DEFINE K == {T \in SUBSET S : Sum(f, T) # 0}
<1> SUFFICES ASSUME K # {}  PROVE FALSE
  OBVIOUS
<1>1. PICK T \in K : \A x \in T : T \ {x} \notin K
  BY SmallestSubset
<1>2. IsFiniteSet(T) /\ T \subseteq S
  BY FS_Subset
<1>3. CASE T = {}
  BY <1>1, <1>3, SumOfNone
<1>4. CASE T # {}
  <2>1. PICK x \in T : Sum(f, T) = f[x] + Sum(f, T \ {x})
    BY <1>2, <1>4, SumOfSome
  <2>2. Sum(f, T \ {x}) = 0 /\ f[x] = 0
    BY <1>1, <1>2
  <2>3. QED
    BY <1>1, <2>1, <2>2
<1>5. QED
  BY <1>3, <1>4

(***************************************************************************)
(* A sum is positive if and only if something in it is.                    *)
(***************************************************************************)
LEMMA PositiveSum ==
  ASSUME NEW S, IsFiniteSet(S), NEW f \in [S -> Nat]
  PROVE  Sum(f, S) > 0 <=> \E x \in S : f[x] > 0
<1>1. Sum(f, S) \in Nat /\ \A x \in S : f[x] \in Nat /\ f[x] <= Sum(f, S)
  BY SumType, SummandIsBounded
<1>2. (\A x \in S : f[x] = 0) => Sum(f, S) = 0
  BY SumOfZeros
<1>3. QED
  BY <1>1, <1>2

(***************************************************************************)
(* Sets cover no more than the sum of what bounds each of them.            *)
(***************************************************************************)
LEMMA CoverIsBounded ==
  ASSUME NEW S, IsFiniteSet(S), NEW g \in [S -> Nat], NEW U, IsFiniteSet(U),
         NEW h \in [S -> SUBSET U], \A x \in S : Cardinality(h[x]) <= g[x]
  PROVE  Cardinality(UNION {h[x] : x \in S}) <= Sum(g, S)
<1> DEFINE C(T) == UNION {h[x] : x \in T}
           K == {T \in SUBSET S : ~ (Cardinality(C(T)) <= Sum(g, T))}
<1> SUFFICES ASSUME K # {}  PROVE FALSE
  OBVIOUS
<1>1. PICK T \in K : \A x \in T : T \ {x} \notin K
  BY SmallestSubset
<1>2. IsFiniteSet(T) /\ T \subseteq S
  BY FS_Subset
<1>3. CASE T = {}
  <2>1. C(T) = {} /\ Sum(g, T) = 0
    BY <1>3, SumOfNone
  <2>2. ~ (Cardinality(C(T)) <= Sum(g, T))
    BY <1>1
  <2>3. Cardinality(C(T)) = 0
    BY <2>1, FS_EmptySet
  <2> HIDE DEF C
  <2>4. QED
    BY <2>1, <2>2, <2>3
<1>4. CASE T # {}
  <2>1. PICK x \in T : Sum(g, T) = g[x] + Sum(g, T \ {x})
    BY <1>2, <1>4, SumOfSome
  <2>2. Cardinality(C(T \ {x})) <= Sum(g, T \ {x})
    BY <1>1, <1>2
  <2>3. C(T) = h[x] \cup C(T \ {x})
    OBVIOUS
  <2>4. h[x] \subseteq U /\ C(T \ {x}) \subseteq U
    BY <1>2
  <2> DEFINE A == h[x]
             B == C(T \ {x})
  <2> HIDE DEF C
  <2>5. IsFiniteSet(A) /\ IsFiniteSet(B)
    BY <2>4, FS_Subset
  <2>6. Cardinality(A \cup B) <= Cardinality(A) + Cardinality(B)
    BY <2>5, UnionIsBounded
  <2>7. /\ Cardinality(A) \in Nat /\ Cardinality(B) \in Nat
        /\ Cardinality(A \cup B) \in Nat
    BY <2>5, FS_CardinalityType, FS_Union
  <2>8. g[x] \in Nat /\ Sum(g, T \ {x}) \in Nat /\ Cardinality(A) <= g[x]
    BY <1>2, SubsetSum
  <2>9. ~ (Cardinality(A \cup B) <= Sum(g, T))
    BY <1>1, <2>3
  <2> HIDE DEF A
  <2>10. QED
    BY <2>1, <2>2, <2>6, <2>7, <2>8, <2>9
<1>5. QED
  BY <1>3, <1>4

-----------------------------------------------------------------------------
(***************************************************************************)
(* The days are finitely many.                                             *)
(***************************************************************************)
LEMMA ClockType == IsFiniteSet(Clock) /\ Clock \subseteq Nat
  BY FS_Interval, AnalyticsAssumption DEF Clock

(***************************************************************************)
(* There is a last one in every set of days.                               *)
(***************************************************************************)
LEMMA LastDay ==
  ASSUME NEW S \in SUBSET Clock, S # {}
  PROVE  Max(S) \in S
<1> DEFINE K == {T \in SUBSET S : T # {} /\ ~ \E x \in T : \A y \in T : x >= y}
<1>1. (\E x \in S : \A y \in S : x >= y) => Max(S) \in S
  BY DEF Max
<1> SUFFICES ASSUME K # {}  PROVE FALSE
  BY <1>1
<1>2. IsFiniteSet(S) /\ S \subseteq Nat
  BY ClockType, FS_Subset
<1>3. PICK T \in K : \A x \in T : T \ {x} \notin K
  BY <1>2, SmallestSubset
<1>4. PICK x : x \in T
  OBVIOUS
<1>5. CASE T \ {x} = {}
  <2>1. \A y \in T : x >= y
    BY <1>2, <1>4, <1>5
  <2>2. QED
    BY <1>3, <1>4, <2>1
<1>6. CASE T \ {x} # {}
  <2>1. PICK z \in T \ {x} : \A y \in T \ {x} : z >= y
    BY <1>3, <1>4, <1>6
  <2>2. T \subseteq Nat /\ z \in Nat /\ x \in Nat
    BY <1>2, <1>4
  <2>3. CASE z >= x
    <3>1. \A y \in T : z >= y
      BY <2>1, <2>3
    <3>2. QED
      BY <1>3, <2>1, <3>1
  <2>4. CASE x >= z
    <3>1. \A y \in T : x >= y
      BY <2>1, <2>2, <2>4
    <3>2. QED
      BY <1>3, <1>4, <3>1
  <2>5. QED
    BY <2>2, <2>3, <2>4
<1>7. QED
  BY <1>5, <1>6

(***************************************************************************)
(* The openings of one mail add up to a natural number, none of them more  *)
(* than the sum, and to more than zero if there is a day with one.         *)
(***************************************************************************)
LEMMA OpenedType ==
  ASSUME TypeOK, NEW r \in Recipients
  PROVE  /\ events[r] \in [Clock -> Nat]
         /\ OpenedBy(r) \in Nat
         /\ \A d \in Clock : events[r][d] <= OpenedBy(r)
         /\ OpenedBy(r) > 0 <=> OpenDays(r) # {}
<1>1. events[r] \in [Clock -> Nat]
  BY DEF TypeOK
<1>2. /\ Sum(events[r], Clock) \in Nat
      /\ \A d \in Clock : events[r][d] <= Sum(events[r], Clock)
      /\ Sum(events[r], Clock) > 0 <=> \E d \in Clock : events[r][d] > 0
  BY <1>1, ClockType, SumType, SummandIsBounded, PositiveSum
<1>3. QED
  BY <1>1, <1>2 DEF OpenedBy, OpenDays

(***************************************************************************)
(* The recipients whose mail has been opened.                              *)
(***************************************************************************)
Opened == {r \in Recipients : OpenDays(r) # {}}

(***************************************************************************)
(* The figures are natural numbers, and what those count that the          *)
(* properties speak of.                                                    *)
(***************************************************************************)
FiguresCount ==
  /\ Figures \in [sent : Nat, delivered : Nat, failed : Nat, opened : Nat, unique : Nat]
  /\ Figures.sent = Cardinality(Accepted)
  /\ Figures.failed = Cardinality(InState("failed"))
  /\ Figures.unique = Cardinality(Opened)
  /\ Figures.delivered + Figures.failed <= Figures.sent

(***************************************************************************)
(* So it is in every state that has its types.                             *)
(***************************************************************************)
LEMMA FiguresType == TypeOK => FiguresCount
<1> SUFFICES ASSUME TypeOK  PROVE FiguresCount
  OBVIOUS
<1>1. IsFiniteSet(Recipients)
  BY AnalyticsAssumption
<1>2. /\ IsFiniteSet(Accepted) /\ IsFiniteSet(InState("delivered"))
      /\ IsFiniteSet(InState("failed")) /\ IsFiniteSet(Opened)
  BY <1>1, FS_Subset DEF Accepted, InState, Opened
<1>3. /\ Cardinality(Accepted) \in Nat /\ Cardinality(InState("delivered")) \in Nat
      /\ Cardinality(InState("failed")) \in Nat /\ Cardinality(Opened) \in Nat
  BY <1>2, FS_CardinalityType
<1> DEFINE f == [r \in Recipients |-> OpenedBy(r)]
<1>4. f \in [Recipients -> Nat]
  BY OpenedType
<1> HIDE DEF f
<1>5. Sum(f, Recipients) \in Nat
  BY <1>1, <1>4, SumType
<1>6. {r \in Recipients : OpenedBy(r) > 0} = Opened
  BY OpenedType DEF Opened
<1>7. Cardinality(InState("delivered")) + Cardinality(InState("failed"))
        <= Cardinality(Accepted)
  <2> DEFINE D == InState("delivered")
             F == InState("failed")
  <2>1. D \cap F = {} /\ D \cup F \subseteq Accepted
    BY DEF InState, Accepted
  <2>2. Cardinality(D \cup F) = Cardinality(D) + Cardinality(F) - Cardinality(D \cap F)
    BY <1>2, FS_Union
  <2>3. Cardinality(D \cap F) = 0
    BY <2>1, FS_EmptySet
  <2>4. Cardinality(D \cup F) <= Cardinality(Accepted)
    BY <1>2, <2>1, FS_Subset
  <2>5. QED
    BY <1>3, <2>2, <2>3, <2>4
<1>8. QED
  BY <1>3, <1>5, <1>6, <1>7 DEF FiguresCount, Figures, f

(***************************************************************************)
(* They grow with the mails accepted, failed and opened.                   *)
(***************************************************************************)
LEMMA FiguresAreMonotone ==
  ASSUME TypeOK, TypeOK', Accepted \subseteq Accepted',
         InState("failed") \subseteq InState("failed")', Opened \subseteq Opened'
  PROVE  /\ Figures.sent <= Figures'.sent
         /\ Figures.failed <= Figures'.failed
         /\ Figures.unique <= Figures'.unique
<1>1. IsFiniteSet(Recipients)
  BY AnalyticsAssumption
<1>2. IsFiniteSet(Accepted') /\ IsFiniteSet(InState("failed")') /\ IsFiniteSet(Opened')
  BY <1>1, FS_Subset DEF Accepted, InState, Opened
<1>3. /\ Cardinality(Accepted) <= Cardinality(Accepted')
      /\ Cardinality(InState("failed")) <= Cardinality(InState("failed")')
      /\ Cardinality(Opened) <= Cardinality(Opened')
  BY <1>2, FS_Subset
<1>4. FiguresCount /\ FiguresCount'
  BY FiguresType, PTL
<1>5. QED
  BY <1>3, <1>4 DEF FiguresCount

(***************************************************************************)
(* The openings, and those who opened, are finitely many.                  *)
(***************************************************************************)
FiniteOpens == IsFiniteSet(opens) /\ IsFiniteSet(Openers)

(***************************************************************************)
(* So they are in every state that has its types.                          *)
(***************************************************************************)
LEMMA OpenersAreFinite == TypeOK => FiniteOpens
<1> SUFFICES ASSUME TypeOK  PROVE FiniteOpens
  OBVIOUS
<1>1. opens \subseteq Recipients \X Clock
  BY DEF TypeOK
<1>2. Openers \subseteq Recipients
  BY <1>1 DEF Openers
<1>3. QED
  BY <1>1, <1>2, ClockType, AnalyticsAssumption, FS_Product, FS_Subset DEF FiniteOpens

-----------------------------------------------------------------------------
(***************************************************************************)
(* An answer has a figure in every place.                                  *)
(***************************************************************************)
LEMMA FirstAnswer == NoAnswer \in Answers
<1>1. EmptyChart \in [Clock -> Nat]
  BY DEF EmptyChart
<1>2. QED
  BY <1>1 DEF NoAnswer, Answers

(***************************************************************************)
(* At first there is nothing to know.                                      *)
(***************************************************************************)
LEMMA AnalyticsStarts == Init => AnalyticsInv
<1> SUFFICES ASSUME Init  PROVE AnalyticsInv
  OBVIOUS
<1>1. 1 \in Clock
  BY AnalyticsAssumption DEF Clock
<1>2. TypeOK
  <2>1. row \in Rows /\ first \in Rows
    BY DEF Init, Rows
  <2>2. EmptyChart \in [Clock -> 0 .. MaxEvents]
    BY AnalyticsAssumption DEF EmptyChart
  <2>3. events \in [Recipients -> [Clock -> 0 .. MaxEvents]]
    BY <2>2 DEF Init
  <2>4. start \in [sent : Nat, delivered : Nat, failed : Nat, opened : Nat, unique : Nat]
    BY DEF Init, NoFigures
  <2>5. QED
    BY <1>1, <2>1, <2>3, <2>4, FirstAnswer DEF Init, TypeOK
<1>3. WorldInv
  BY DEF Init, WorldInv, OpenDays, EmptyChart, Exists
<1>4. FiguresGrow
  BY <1>2, FiguresType DEF Init, FiguresGrow, NoFigures, FiguresCount
<1>5. ReadInv
  BY DEF Init, ReadInv, Reading, NoAnswer
<1>6. /\ ChartInv /\ HalfInv /\ FiguresWereTrue /\ OpenersAreCharted
      /\ HalfAnswersAddUp /\ RateIsARate
  BY DEF Init, ChartInv, HalfInv, NoAnswer, FiguresWereTrue, OpenersAreCharted,
         HalfAnswersAddUp, RateIsARate
<1>7. QED
  BY <1>2, <1>3, <1>4, <1>5, <1>6 DEF AnalyticsInv

-----------------------------------------------------------------------------
(***************************************************************************)
(* The world goes on.  It makes no newsletter a draft again or brings back *)
(* a deleted one, it takes back nothing the email service knows, and no    *)
(* opening unless with its newsletter: what a request knows stays true.    *)
(***************************************************************************)
LEMMA WorldKeeps ==
  ASSUME AnalyticsInv, ~ Ended, UNCHANGED readVars, TypeOK', WorldInv',
         row.status # "draft" => row'.status # "draft",
         Exists' => Exists /\ Openers \subseteq Openers',
         Accepted \subseteq Accepted',
         InState("failed") \subseteq InState("failed")', Opened \subseteq Opened'
  PROVE  AnalyticsInv'
<1>1. TypeOK /\ pc # "answered" /\ UNCHANGED <<pc, first, got, start>>
  BY DEF AnalyticsInv, Ended, readVars
<1>2. /\ Figures.sent <= Figures'.sent
      /\ Figures.failed <= Figures'.failed
      /\ Figures.unique <= Figures'.unique
  BY <1>1, FiguresAreMonotone
<1>3. FiguresCount /\ FiguresCount'
  BY <1>1, FiguresType, PTL
<1>4. start \in [sent : Nat, delivered : Nat, failed : Nat, opened : Nat, unique : Nat]
  BY <1>1 DEF TypeOK
<1>5. FiguresGrow'
  BY <1>1, <1>2, <1>3, <1>4 DEF AnalyticsInv, FiguresGrow, FiguresCount
<1>6. ReadInv'
  <2>1. start.failed .. Figures.failed \subseteq start.failed .. Figures'.failed
    BY <1>2, <1>3, <1>4 DEF FiguresCount
  <2>2. QED
    BY <1>1, <2>1 DEF AnalyticsInv, ReadInv, Reading, Audience
<1>7. ChartInv'
  <2>1. CASE ~ Exists'
    <3>1. UNCHANGED Uncharted
      BY <1>1 DEF Uncharted
    <3>2. QED
      BY <1>1, <2>1, <3>1 DEF AnalyticsInv, ChartInv, Emptied
  <2>2. ASSUME Exists'  PROVE Exists /\ Openers \subseteq Openers'
    BY <2>2
  <2>3. FiniteOpens /\ FiniteOpens'
    BY <1>1, OpenersAreFinite, PTL
  <2>4. Exists' => Cardinality(Openers) <= Cardinality(Openers')
    BY <2>2, <2>3, FS_Subset DEF FiniteOpens
  <2>5. Cardinality(Openers) \in Nat /\ Cardinality(Openers') \in Nat
    BY <2>3, FS_CardinalityType DEF FiniteOpens
  <2>6. got.unique \in Nat
    BY <1>1 DEF TypeOK, Answers
  <2>7. Exists' /\ pc = "daily" => got.unique <= Cardinality(Openers)
    BY <2>2 DEF AnalyticsInv, ChartInv
  <2>8. Exists' /\ pc = "daily" => got.unique <= Cardinality(Openers')
    BY <2>4, <2>5, <2>6, <2>7
  <2>9. CASE Exists'
    <3>1. pc' \in {"engagement", "status", "answered"} => ~ Uncharted'
      BY <1>1, <2>2, <2>9 DEF AnalyticsInv, ChartInv, Emptied, Uncharted
    <3>2. pc' = "daily" => got'.unique <= Cardinality(Openers')
      BY <1>1, <2>8, <2>9
    <3>3. QED
      BY <3>1, <3>2 DEF ChartInv
  <2>10. QED
    BY <2>1, <2>9
<1>8. HalfInv'
  BY <1>1 DEF AnalyticsInv, HalfInv
<1>9. FiguresWereTrue' /\ OpenersAreCharted' /\ HalfAnswersAddUp' /\ RateIsARate'
  BY <1>1 DEF FiguresWereTrue, OpenersAreCharted, HalfAnswersAddUp, RateIsARate
<1>10. QED
  BY <1>5, <1>6, <1>7, <1>8, <1>9 DEF AnalyticsInv

(***************************************************************************)
(* Nothing of the email service changes when its variables do not.         *)
(***************************************************************************)
LEMMA MailUnchanged ==
  ASSUME UNCHANGED <<mail, events>>
  PROVE  /\ UNCHANGED Figures
         /\ UNCHANGED Accepted /\ UNCHANGED InState("failed") /\ UNCHANGED Opened
         /\ \A r : OpenDays(r)' = OpenDays(r)
  BY DEF Figures, Accepted, InState, Opened, OpenDays, OpenedBy

(***************************************************************************)
(* A day passes.                                                           *)
(***************************************************************************)
LEMMA NextDayKeeps ==
  ASSUME AnalyticsInv, ~ Ended, NextDay
  PROVE  AnalyticsInv'
<1>1. UNCHANGED <<row, opens, mail, events, pc, first, got, start>>
  BY DEF NextDay, readVars
<1>2. TypeOK'
  <2>1. today' \in Clock
    BY AnalyticsAssumption DEF AnalyticsInv, TypeOK, NextDay, Clock
  <2>2. QED
    BY <1>1, <2>1 DEF AnalyticsInv, TypeOK
<1>3. WorldInv' /\ UNCHANGED Openers /\ UNCHANGED Exists
  BY <1>1 DEF AnalyticsInv, WorldInv, Openers, Exists, OpenDays, Audience
<1>4. QED
  BY <1>1, <1>2, <1>3, MailUnchanged, WorldKeeps DEF readVars

(***************************************************************************)
(* UpdateStatus, postgres.go, as far as it is seen here: the newsletter is *)
(* marked sent.                                                            *)
(***************************************************************************)
LEMMA MarkSentKeeps ==
  ASSUME AnalyticsInv, ~ Ended, MarkSent
  PROVE  AnalyticsInv'
<1>1. /\ UNCHANGED <<today, opens, mail, events, pc, first, got, start>>
      /\ row.status = "draft" /\ row' = [status |-> "sent", total |-> Audience]
  BY DEF MarkSent, readVars, Audience
<1>2. TypeOK'
  <2>1. Audience \in Nat
    BY AnalyticsAssumption, FS_CardinalityType DEF Audience
  <2>2. row' \in Rows
    BY <1>1, <2>1 DEF Rows
  <2>3. QED
    BY <1>1, <2>2 DEF AnalyticsInv, TypeOK
<1>3. WorldInv' /\ UNCHANGED Openers /\ Exists
  BY <1>1 DEF AnalyticsInv, WorldInv, Openers, Exists, OpenDays, Audience
<1>4. QED
  BY <1>1, <1>2, <1>3, MailUnchanged, WorldKeeps DEF readVars

(***************************************************************************)
(* Delete, postgres.go: the row goes, and its openings with it.            *)
(***************************************************************************)
LEMMA DeleteNewsletterKeeps ==
  ASSUME AnalyticsInv, ~ Ended, DeleteNewsletter
  PROVE  AnalyticsInv'
<1>1. /\ UNCHANGED <<today, mail, events, pc, first, got, start>>
      /\ row' = [row EXCEPT !.status = "deleted"] /\ opens' = {}
  BY DEF DeleteNewsletter, readVars
<1>2. row \in Rows
  BY DEF AnalyticsInv, TypeOK
<1>3. row' \in Rows /\ row'.status = "deleted"
  BY <1>1, <1>2 DEF Rows
<1>4. TypeOK'
  BY <1>1, <1>3 DEF AnalyticsInv, TypeOK
<1>5. WorldInv' /\ ~ Exists'
  BY <1>1, <1>3 DEF AnalyticsInv, WorldInv, Exists, OpenDays, Audience
<1>6. QED
  BY <1>1, <1>4, <1>5, MailUnchanged, WorldKeeps DEF readVars

(***************************************************************************)
(* RecordOpen, postgres.go, as far as it is seen here: an opening more.    *)
(***************************************************************************)
LEMMA OpenRecordedKeeps ==
  ASSUME AnalyticsInv, ~ Ended, NEW r \in Recipients, OpenRecorded(r)
  PROVE  AnalyticsInv'
<1>1. /\ UNCHANGED <<row, today, mail, events, pc, first, got, start>>
      /\ Exists /\ opens' = opens \cup {<<r, today>>}
  BY DEF OpenRecorded, readVars
<1>2. TypeOK'
  <2>1. today \in Clock
    BY DEF AnalyticsInv, TypeOK
  <2>2. <<r, today>> \in Recipients \X Clock
    BY <2>1
  <2>3. QED
    BY <1>1, <2>2 DEF AnalyticsInv, TypeOK
<1>3. WorldInv' /\ Openers \subseteq Openers' /\ UNCHANGED Exists
  BY <1>1 DEF AnalyticsInv, WorldInv, Openers, Exists, OpenDays, Audience
<1>4. QED
  BY <1>1, <1>2, <1>3, MailUnchanged, WorldKeeps DEF readVars

(***************************************************************************)
(* The email service: a mail is accepted, delivered or failed.             *)
(***************************************************************************)
LEMMA MailProgressKeeps ==
  ASSUME AnalyticsInv, ~ Ended, NEW r \in Recipients,
         NEW s \in {"accepted", "delivered", "failed"}, MailProgress(r, s)
  PROVE  AnalyticsInv'
<1>1. /\ UNCHANGED <<row, today, opens, events, pc, first, got, start>>
      /\ mail[r] \in {"none", "accepted"} /\ mail' = [mail EXCEPT ![r] = s]
  BY DEF MailProgress, readVars
<1>2. /\ TypeOK
      /\ mail \in [Recipients -> {"none", "accepted", "delivered", "failed"}]
  BY DEF AnalyticsInv, TypeOK
<1>3. /\ mail' \in [Recipients -> {"none", "accepted", "delivered", "failed"}]
      /\ mail'[r] = s
      /\ \A q \in Recipients \ {r} : mail'[q] = mail[q]
  BY <1>1, <1>2
<1>4. TypeOK'
  BY <1>1, <1>2, <1>3 DEF TypeOK
<1>5. \A q \in Recipients : OpenDays(q)' = OpenDays(q)
  BY <1>1 DEF OpenDays
<1>6. WorldInv'
  <2>1. OpenDays(r) = {}
    BY <1>1 DEF AnalyticsInv, WorldInv
  <2>2. QED
    BY <1>1, <1>3, <1>5, <2>1 DEF AnalyticsInv, WorldInv, Audience, Exists
<1>7. UNCHANGED Openers /\ UNCHANGED Exists
  BY <1>1 DEF Openers, Exists
<1>8. Accepted \subseteq Accepted' /\ InState("failed") \subseteq InState("failed")'
  BY <1>1, <1>3 DEF Accepted, InState
<1>9. Opened \subseteq Opened'
  BY <1>5 DEF Opened
<1>10. QED
  BY <1>1, <1>4, <1>6, <1>7, <1>8, <1>9, WorldKeeps DEF readVars

(***************************************************************************)
(* The email service: a delivered mail is opened, once more.               *)
(***************************************************************************)
LEMMA MailOpenedKeeps ==
  ASSUME AnalyticsInv, ~ Ended, NEW r \in Recipients, MailOpened(r)
  PROVE  AnalyticsInv'
<1>1. /\ UNCHANGED <<row, today, opens, mail, pc, first, got, start>>
      /\ mail[r] = "delivered" /\ OpenedBy(r) < MaxEvents
      /\ events' = [events EXCEPT ![r][today] = @ + 1]
  BY DEF MailOpened, readVars
<1>2. /\ TypeOK /\ today \in Clock
      /\ events \in [Recipients -> [Clock -> 0 .. MaxEvents]]
  BY DEF AnalyticsInv, TypeOK
<1> DEFINE e == [events[r] EXCEPT ![today] = @ + 1]
<1>3. e \in [Clock -> 0 .. MaxEvents]
  <2>1. events[r] \in [Clock -> 0 .. MaxEvents]
    BY <1>2
  <2>2. events[r][today] <= OpenedBy(r) /\ OpenedBy(r) \in Nat
    BY <1>2, OpenedType
  <2>3. events[r][today] + 1 \in 0 .. MaxEvents
    BY <1>1, <1>2, <2>1, <2>2, AnalyticsAssumption
  <2>4. QED
    BY <2>1, <2>3
<1>4. \A d \in Clock : events[r][d] > 0 => e[d] > 0
  BY <1>2
<1>5. events' = [events EXCEPT ![r] = e]
  BY <1>1
<1> HIDE DEF e
<1>6. /\ events' \in [Recipients -> [Clock -> 0 .. MaxEvents]]
      /\ events'[r] = e
      /\ \A q \in Recipients \ {r} : events'[q] = events[q]
  BY <1>2, <1>3, <1>5
<1>7. TypeOK'
  BY <1>1, <1>2, <1>6 DEF TypeOK
<1>8. /\ OpenDays(r) \subseteq OpenDays(r)'
      /\ \A q \in Recipients \ {r} : OpenDays(q)' = OpenDays(q)
  BY <1>4, <1>6 DEF OpenDays
<1>9. WorldInv'
  BY <1>1, <1>8 DEF AnalyticsInv, WorldInv, Audience, Exists
<1>10. UNCHANGED Openers /\ UNCHANGED Exists
  BY <1>1 DEF Openers, Exists
<1>11. UNCHANGED Accepted /\ UNCHANGED InState("failed")
  BY <1>1 DEF Accepted, InState
<1>12. Opened \subseteq Opened'
  BY <1>8 DEF Opened
<1>13. QED
  BY <1>1, <1>7, <1>9, <1>10, <1>11, <1>12, WorldKeeps DEF readVars

-----------------------------------------------------------------------------
(***************************************************************************)
(* Nothing that a request reads changes when the request moves.            *)
(***************************************************************************)
LEMMA WorldUnchanged ==
  ASSUME AnalyticsInv, UNCHANGED worldVars
  PROVE  /\ UNCHANGED <<row, today, opens, mail, events>>
         /\ Figures' = Figures /\ FiguresCount
         /\ UNCHANGED Openers /\ UNCHANGED Exists
         /\ WorldInv'
<1>1. UNCHANGED <<row, today, opens, mail, events>>
  BY DEF worldVars
<1>2. Figures' = Figures
  BY <1>1, MailUnchanged
<1>3. FiguresCount
  BY FiguresType DEF AnalyticsInv
<1>4. UNCHANGED Openers /\ UNCHANGED Exists
  BY <1>1 DEF Openers, Exists
<1>5. WorldInv'
  BY <1>1 DEF AnalyticsInv, WorldInv, OpenDays, Audience, Exists
<1>6. QED
  BY <1>1, <1>2, <1>3, <1>4, <1>5

(***************************************************************************)
(* Get, service/analytics.go, is called.                                   *)
(***************************************************************************)
LEMMA GetAnalyticsKeeps ==
  ASSUME AnalyticsInv, GetAnalytics
  PROVE  AnalyticsInv'
<1>1. /\ UNCHANGED worldVars /\ UNCHANGED <<first, got>>
      /\ pc = "idle" /\ pc' = "get" /\ start' = Figures
  BY DEF GetAnalytics, Step
<1>2. /\ UNCHANGED <<row, today, opens, mail, events>>
      /\ Figures' = Figures /\ FiguresCount /\ WorldInv'
  BY <1>1, WorldUnchanged
<1>3. TypeOK'
  BY <1>1, <1>2 DEF AnalyticsInv, TypeOK, FiguresCount
<1>4. FiguresGrow'
  BY <1>1, <1>2 DEF FiguresGrow, FiguresCount
<1>5. ReadInv'
  BY <1>1, <1>2 DEF AnalyticsInv, ReadInv, Reading
<1>6. /\ ChartInv' /\ HalfInv' /\ FiguresWereTrue' /\ OpenersAreCharted'
      /\ HalfAnswersAddUp' /\ RateIsARate'
  BY <1>1 DEF AnalyticsInv, ChartInv, HalfInv, FiguresWereTrue, OpenersAreCharted,
              HalfAnswersAddUp, RateIsARate
<1>7. QED
  BY <1>2, <1>3, <1>4, <1>5, <1>6 DEF AnalyticsInv

(***************************************************************************)
(* A step of the request that knows no more than the types of what it read *)
(* keeps the invariant if what it has read fits its place.                 *)
(***************************************************************************)
LEMMA RequestKeeps ==
  ASSUME AnalyticsInv, UNCHANGED worldVars, UNCHANGED start,
         pc' \in {"idle", "get", "row", "aggregate", "daily", "engagement", "status",
                  "answered", "not_found", "failed"},
         first' \in Rows, got' \in Answers,
         ReadInv', ChartInv', HalfInv', FiguresWereTrue', HalfAnswersAddUp', RateIsARate'
  PROVE  AnalyticsInv'
<1>1. /\ UNCHANGED <<row, today, opens, mail, events>>
      /\ Figures' = Figures /\ WorldInv'
  BY WorldUnchanged
<1>2. TypeOK'
  BY <1>1 DEF AnalyticsInv, TypeOK
<1>3. FiguresGrow'
  BY <1>1 DEF AnalyticsInv, FiguresGrow
<1>4. OpenersAreCharted'
  BY DEF ChartInv, Emptied, OpenersAreCharted
<1>5. QED
  BY <1>1, <1>2, <1>3, <1>4 DEF AnalyticsInv

(***************************************************************************)
(* Get reads the row.                                                      *)
(***************************************************************************)
LEMMA GetRowKeeps ==
  ASSUME AnalyticsInv, NEW p \in Projects, GetRow(p)
  PROVE  AnalyticsInv'
<1>1. /\ UNCHANGED worldVars /\ UNCHANGED <<got, start>>
      /\ pc = "get" /\ pc' \in {"row", "not_found"} /\ first' = row
  BY DEF GetRow, Step
<1>2. TypeOK /\ row' = row /\ first' \in Rows /\ got' \in Answers
  BY <1>1 DEF AnalyticsInv, TypeOK, worldVars
<1>3. ReadInv'
  BY <1>1, <1>2 DEF AnalyticsInv, ReadInv, Reading, WorldInv, Audience
<1>4. ChartInv' /\ HalfInv' /\ FiguresWereTrue' /\ HalfAnswersAddUp' /\ RateIsARate'
  BY <1>1 DEF AnalyticsInv, ChartInv, HalfInv, FiguresWereTrue, HalfAnswersAddUp,
              RateIsARate
<1>5. QED
  BY <1>1, <1>2, <1>3, <1>4, RequestKeeps

(***************************************************************************)
(* Analytics, postgres.go, reads the row again.                            *)
(***************************************************************************)
LEMMA RepoGetRowKeeps ==
  ASSUME AnalyticsInv, RepoGetRow
  PROVE  AnalyticsInv'
<1>1. /\ UNCHANGED worldVars /\ UNCHANGED <<first, start>>
      /\ pc = "row" /\ pc' \in {"aggregate", "not_found"}
      /\ pc' = "aggregate" => Exists
      /\ got' = [got EXCEPT !.source = "local", !.total = row.total,
                            !.delivered = row.total]
  BY DEF RepoGetRow, Step
<1>2. /\ row' = row /\ row \in Rows /\ first' \in Rows /\ got \in Answers
  BY <1>1 DEF AnalyticsInv, TypeOK, worldVars
<1>3. row.total \in Nat
  BY <1>2 DEF Rows
<1>4. /\ got' \in Answers /\ got'.source = "local" /\ got'.total = row.total
      /\ got'.delivered = row.total /\ got'.failed = got.failed
  BY <1>1, <1>2, <1>3 DEF Answers
<1>5. ReadInv'
  <2>1. pc' = "aggregate" /\ first.status = "sent" => row.total = Audience
    BY <1>1, <1>2 DEF AnalyticsInv, ReadInv, Reading, WorldInv, Exists, Rows
  <2>2. QED
    BY <1>1, <1>2, <1>4, <2>1 DEF AnalyticsInv, ReadInv, Reading, Audience
<1>6. ChartInv' /\ HalfInv' /\ FiguresWereTrue' /\ HalfAnswersAddUp' /\ RateIsARate'
  BY <1>1, <1>4 DEF AnalyticsInv, ChartInv, HalfInv, FiguresWereTrue,
                    HalfAnswersAddUp, RateIsARate
<1>7. QED
  BY <1>1, <1>2, <1>4, <1>5, <1>6, RequestKeeps

(***************************************************************************)
(* An open rate is a pair that can be divided, or zeros.                   *)
(***************************************************************************)
LEMMA RatioType ==
  ASSUME NEW u \in Nat, NEW n \in Nat
  PROVE  Ratio(u, n) \in {<<0, 0>>} \cup (Nat \X (Nat \ {0}))
  BY DEF Ratio

(***************************************************************************)
(* What is mapped from a finite set is no larger than it.                  *)
(***************************************************************************)
LEMMA ImageIsBounded ==
  ASSUME NEW S, IsFiniteSet(S), NEW f
  PROVE  /\ IsFiniteSet({f[x] : x \in S})
         /\ Cardinality({f[x] : x \in S}) <= Cardinality(S)
<1> DEFINE T == {f[x] : x \in S}
           g == [x \in S |-> f[x]]
<1>1. g \in [S -> T] /\ \A t \in T : \E x \in S : g[x] = t
  OBVIOUS
<1>2. g \in Surjection(S, T)
  BY <1>1 DEF Surjection
<1> HIDE DEF g, T
<1>3. IsFiniteSet(T) /\ Cardinality(T) <= Cardinality(S)
  BY <1>2, FS_Surjection
<1>4. QED
  BY <1>3 DEF T

(***************************************************************************)
(* Analytics, postgres.go, counts the openings.                            *)
(***************************************************************************)
LEMMA AggregateOpensKeeps ==
  ASSUME AnalyticsInv, AggregateOpens
  PROVE  AnalyticsInv'
<1>1. /\ UNCHANGED worldVars /\ UNCHANGED <<first, start>>
      /\ pc = "aggregate" /\ pc' = "daily"
      /\ got' = [got EXCEPT !.opens = Cardinality(opens),
                            !.unique = Cardinality(Openers),
                            !.rate = Ratio(Cardinality(Openers), got.total)]
  BY DEF AggregateOpens, Step
<1>2. /\ UNCHANGED row /\ UNCHANGED Openers
      /\ first' \in Rows /\ got \in Answers
  BY <1>1, WorldUnchanged DEF AnalyticsInv, TypeOK
<1>3. Cardinality(opens) \in Nat /\ Cardinality(Openers) \in Nat
  BY OpenersAreFinite, FS_CardinalityType DEF AnalyticsInv, FiniteOpens
<1> DEFINE r == Ratio(Cardinality(Openers), got.total)
<1>4. r \in {<<0, 0>>} \cup (Nat \X (Nat \ {0}))
  BY <1>2, <1>3, RatioType DEF Answers
<1>5. got' = [got EXCEPT !.opens = Cardinality(opens),
                         !.unique = Cardinality(Openers), !.rate = r]
  BY <1>1
<1> HIDE DEF r
<1>6. /\ got' \in Answers /\ got'.source = got.source /\ got'.total = got.total
      /\ got'.delivered = got.delivered /\ got'.failed = got.failed
      /\ got'.opens = Cardinality(opens) /\ got'.unique = Cardinality(Openers)
  BY <1>2, <1>3, <1>4, <1>5 DEF Answers
<1>7. ReadInv'
  BY <1>1, <1>2, <1>6 DEF AnalyticsInv, ReadInv, Reading, Audience
<1>8. ChartInv'
  <2>1. got'.unique <= Cardinality(Openers')
    BY <1>2, <1>3, <1>6
  <2>2. QED
    BY <1>1, <2>1 DEF ChartInv
<1>9. HalfInv'
  <2>1. Cardinality(Openers) <= Cardinality(opens)
    <3> DEFINE name == [o \in opens |-> o[1]]
    <3>1. Openers = {name[o] : o \in opens}
      BY DEF Openers
    <3>2. IsFiniteSet(opens)
      BY OpenersAreFinite DEF AnalyticsInv, FiniteOpens
    <3> HIDE DEF name
    <3>3. QED
      BY <3>1, <3>2, ImageIsBounded
  <2>2. QED
    BY <1>1, <1>6, <2>1 DEF AnalyticsInv, HalfInv
<1>10. FiguresWereTrue' /\ HalfAnswersAddUp' /\ RateIsARate'
  BY <1>1 DEF FiguresWereTrue, HalfAnswersAddUp, RateIsARate
<1>11. QED
  BY <1>1, <1>2, <1>6, <1>7, <1>8, <1>9, <1>10, RequestKeeps

(***************************************************************************)
(* A series of the openings per day covers everyone who opened.            *)
(***************************************************************************)
LEMMA OpenersAreDaily ==
  ASSUME TypeOK,
         NEW chart, chart = [d \in Clock |-> Cardinality({o \in opens : o[2] = d})]
  PROVE  chart \in [Clock -> Nat] /\ Cardinality(Openers) <= Sum(chart, Clock)
<1> DEFINE On(d) == {o \in opens : o[2] = d}
           Who(d) == {o[1] : o \in On(d)}
           h == [d \in Clock |-> Who(d)]
           name == [o \in opens |-> o[1]]
<1>1. FiniteOpens
  BY OpenersAreFinite
<1>2. opens \subseteq Recipients \X Clock
  BY DEF TypeOK
<1>3. ASSUME NEW d \in Clock
      PROVE  /\ IsFiniteSet(On(d)) /\ Cardinality(On(d)) \in Nat
             /\ Who(d) \subseteq Openers /\ Cardinality(Who(d)) <= Cardinality(On(d))
  <2>1. IsFiniteSet(On(d))
    BY <1>1, FS_Subset DEF FiniteOpens
  <2>2. Cardinality(On(d)) \in Nat
    BY <2>1, FS_CardinalityType
  <2>3. Who(d) = {name[o] : o \in On(d)}
    OBVIOUS
  <2>4. Cardinality({name[o] : o \in On(d)}) <= Cardinality(On(d))
    BY <2>1, ImageIsBounded
  <2>5. Who(d) \subseteq Openers
    BY DEF Openers
  <2>6. QED
    BY <2>1, <2>2, <2>3, <2>4, <2>5
<1>4. chart \in [Clock -> Nat]
  BY <1>3
<1>5. h \in [Clock -> SUBSET Openers]
  BY <1>3
<1>6. \A d \in Clock : Cardinality(h[d]) <= chart[d]
  BY <1>3
<1>7. UNION {h[d] : d \in Clock} = Openers
  <2>1. ASSUME NEW o \in opens  PROVE o[2] \in Clock /\ o[1] \in h[o[2]]
    <3>1. o[2] \in Clock
      BY <1>2
    <3>2. o \in On(o[2])
      OBVIOUS
    <3>3. QED
      BY <3>1, <3>2
  <2>2. QED
    BY <1>5, <2>1 DEF Openers
<1> HIDE DEF On, Who, h, name
<1>8. IsFiniteSet(Clock) /\ IsFiniteSet(Openers)
  BY <1>1, ClockType DEF FiniteOpens
<1>9. Cardinality(UNION {h[d] : d \in Clock}) <= Sum(chart, Clock)
  BY ONLY <1>4, <1>5, <1>6, <1>8, CoverIsBounded
<1>10. QED
  BY <1>4, <1>7, <1>9

(***************************************************************************)
(* Analytics, postgres.go, counts the openings of each day.                *)
(***************************************************************************)
LEMMA AggregateDaysKeeps ==
  ASSUME AnalyticsInv, AggregateDays
  PROVE  AnalyticsInv'
<1> DEFINE chart == [d \in Clock |-> Cardinality({o \in opens : o[2] = d})]
<1>1. /\ UNCHANGED worldVars /\ UNCHANGED <<first, start>>
      /\ pc = "daily" /\ pc' = IF first.status = "sent" THEN "engagement" ELSE "answered"
      /\ got' = [got EXCEPT !.chart = chart]
  BY DEF AggregateDays, Step
<1>2. /\ UNCHANGED row /\ UNCHANGED Exists /\ TypeOK
      /\ first' \in Rows /\ got \in Answers
  BY <1>1, WorldUnchanged DEF AnalyticsInv, TypeOK
<1>3. chart \in [Clock -> Nat] /\ Cardinality(Openers) <= Sum(chart, Clock)
  BY <1>2, OpenersAreDaily
<1> HIDE DEF chart
<1>4. /\ got' \in Answers /\ got'.source = got.source /\ got'.total = got.total
      /\ got'.delivered = got.delivered /\ got'.failed = got.failed
      /\ got'.opens = got.opens /\ got'.unique = got.unique /\ got'.chart = chart
  BY <1>1, <1>2, <1>3 DEF Answers
<1>5. ReadInv'
  BY <1>1, <1>2, <1>4 DEF AnalyticsInv, ReadInv, Reading, Audience
<1>6. ChartInv'
  <2>1. CASE Exists
    <3>1. got.unique <= Cardinality(Openers)
      BY <1>1, <2>1 DEF AnalyticsInv, ChartInv
    <3>2. got.unique \in Nat
      BY <1>2 DEF Answers
    <3>3. Cardinality(Openers) \in Nat
      BY <1>2, OpenersAreFinite, FS_CardinalityType DEF FiniteOpens
    <3>4. Sum(chart, Clock) \in Nat
      BY <1>3, ClockType, SumType
    <3>5. ~ (got.unique > Sum(chart, Clock))
      BY <1>3, <3>1, <3>2, <3>3, <3>4
    <3>6. QED
      BY <1>1, <1>4, <3>5 DEF ChartInv, Uncharted
  <2>2. CASE ~ Exists
    <3>1. opens = {}
      BY <2>2 DEF AnalyticsInv, WorldInv
    <3>2. \A d \in Clock : Cardinality({o \in opens : o[2] = d}) = 0
      BY <3>1, FS_EmptySet
    <3>3. chart = EmptyChart
      BY <3>2 DEF chart, EmptyChart
    <3>4. got'.source # "records"
      BY <1>1, <1>4 DEF AnalyticsInv, ReadInv
    <3>5. QED
      BY <1>1, <1>2, <1>4, <2>2, <3>3, <3>4 DEF ChartInv, Emptied
  <2>3. QED
    BY <2>1, <2>2
<1>7. got.failed = 0 /\ got.delivered = got.total /\ got.unique <= got.opens
  BY <1>1 DEF AnalyticsInv, HalfInv
<1>8. HalfInv'
  BY <1>1, <1>4, <1>7 DEF HalfInv
<1>9. HalfAnswersAddUp'
  <2>1. got.total \in Nat
    BY <1>2 DEF Answers
  <2>2. got.delivered + got.failed <= got.total
    BY <1>7, <2>1
  <2>3. QED
    BY <1>4, <1>7, <2>2 DEF HalfAnswersAddUp
<1>10. FiguresWereTrue' /\ RateIsARate'
  BY <1>1, <1>4 DEF AnalyticsInv, ReadInv, FiguresWereTrue, RateIsARate
<1>11. QED
  BY <1>1, <1>2, <1>4, <1>5, <1>6, <1>8, <1>9, <1>10, RequestKeeps

(***************************************************************************)
(* The database fails, at any of the four statements.                      *)
(***************************************************************************)
LEMMA DatabaseFailsKeeps ==
  ASSUME AnalyticsInv, DatabaseFails
  PROVE  AnalyticsInv'
<1>1. UNCHANGED worldVars /\ UNCHANGED <<first, got, start>> /\ pc' = "failed"
  BY DEF DatabaseFails, Step
<1>2. first' \in Rows /\ got' \in Answers
  BY <1>1 DEF AnalyticsInv, TypeOK
<1>3. /\ ReadInv' /\ ChartInv' /\ HalfInv' /\ FiguresWereTrue'
      /\ HalfAnswersAddUp' /\ RateIsARate'
  BY <1>1 DEF ReadInv, Reading, ChartInv, HalfInv, FiguresWereTrue,
              HalfAnswersAddUp, RateIsARate
<1>4. QED
  BY <1>1, <1>2, <1>3, RequestKeeps

-----------------------------------------------------------------------------
(***************************************************************************)
(* What the email service says is laid over the answer: openers, series    *)
(* and rate are left, and the mails it accepted are counted if there are.  *)
(***************************************************************************)
LEMMA OverlayType ==
  ASSUME got \in Answers,
         NEW f \in [sent : Nat, delivered : Nat, failed : Nat, opened : Nat, unique : Nat]
  PROVE  /\ Overlay(f) \in Answers
         /\ Overlay(f).source = "engagement" /\ Overlay(f).failed = f.failed
         /\ Overlay(f).unique = got.unique /\ Overlay(f).chart = got.chart
         /\ Overlay(f).total = IF f.sent > 0 THEN f.sent ELSE got.total
         /\ Overlay(f).delivered = IF f.sent > 0 THEN f.delivered ELSE got.delivered
         /\ Overlay(f).opens >= got.opens
<1> DEFINE total == IF f.sent > 0 THEN f.sent ELSE got.total
           delivered == IF f.sent > 0 THEN f.delivered ELSE got.delivered
           opened == IF f.opened > got.opens THEN f.opened ELSE got.opens
<1>1. /\ total \in Nat /\ delivered \in Nat /\ opened \in Nat /\ f.failed \in Nat
      /\ opened >= got.opens
  BY DEF Answers
<1>2. Overlay(f) = [got EXCEPT !.source = "engagement", !.failed = f.failed,
                               !.total = total, !.delivered = delivered,
                               !.opens = opened]
  BY DEF Overlay, Answers
<1> HIDE DEF total, delivered, opened
<1>3. /\ Overlay(f) \in Answers
      /\ Overlay(f).source = "engagement" /\ Overlay(f).failed = f.failed
      /\ Overlay(f).unique = got.unique /\ Overlay(f).chart = got.chart
      /\ Overlay(f).total = total /\ Overlay(f).delivered = delivered
      /\ Overlay(f).opens = opened
  BY <1>1, <1>2 DEF Answers
<1>4. QED
  BY <1>1, <1>3 DEF total, delivered

(***************************************************************************)
(* GetEngagement, email_dispatcher.go: the totals, or none yet.            *)
(***************************************************************************)
LEMMA GetEngagementKeeps ==
  ASSUME AnalyticsInv, GetEngagement
  PROVE  AnalyticsInv'
<1>1. /\ UNCHANGED worldVars /\ UNCHANGED <<first, start>> /\ pc = "engagement"
  BY DEF GetEngagement
<1>2. /\ UNCHANGED row /\ UNCHANGED Exists /\ TypeOK
      /\ Figures' = Figures /\ FiguresCount
      /\ first' \in Rows /\ got \in Answers
      /\ start \in [sent : Nat, delivered : Nat, failed : Nat, opened : Nat, unique : Nat]
  BY <1>1, WorldUnchanged DEF AnalyticsInv, TypeOK
<1>3. /\ first.status = "sent" /\ row.status # "draft" /\ first.total = Audience
      /\ got.total = Audience /\ got.source \in {"none", "local"}
  BY <1>1 DEF AnalyticsInv, ReadInv, Reading
<1>4. got.failed = 0 /\ got.delivered = got.total /\ got.unique <= got.opens
  BY <1>1 DEF AnalyticsInv, HalfInv
<1>5. Uncharted => Emptied
  BY <1>1 DEF AnalyticsInv, ChartInv
<1>6. CASE pc' = "answered" /\ UNCHANGED got
  <2>1. ReadInv' /\ HalfInv'
    BY <1>6 DEF ReadInv, Reading, HalfInv
  <2>2. ChartInv'
    BY <1>2, <1>5, <1>6 DEF ChartInv, Uncharted, Emptied
  <2>3. HalfAnswersAddUp'
    <3>1. got.total \in Nat
      BY <1>2 DEF Answers
    <3>2. got.delivered + got.failed <= got.total
      BY <1>4, <3>1
    <3>3. QED
      BY <1>4, <1>6, <3>2 DEF HalfAnswersAddUp
  <2>4. FiguresWereTrue' /\ RateIsARate'
    BY <1>3, <1>6 DEF FiguresWereTrue, RateIsARate
  <2>5. QED
    BY <1>1, <1>2, <1>6, <2>1, <2>2, <2>3, <2>4, RequestKeeps
<1>7. ASSUME NEW f \in {Figures, NoFigures}, got' = Overlay(f), pc' = "status"
      PROVE  AnalyticsInv'
  <2>1. /\ f \in [sent : Nat, delivered : Nat, failed : Nat, opened : Nat, unique : Nat]
        /\ f.sent = 0 \/ f.sent >= start.sent
        /\ f.failed \in {0} \cup (start.failed .. Figures.failed)
        /\ f.delivered + f.failed <= f.sent
    <3>1. CASE f = Figures
      BY <1>2, <3>1 DEF AnalyticsInv, FiguresGrow, FiguresCount
    <3>2. CASE f = NoFigures
      BY <3>2 DEF NoFigures
    <3>3. QED
      BY <1>7, <3>1, <3>2
  <2>2. /\ got' \in Answers /\ got'.source = "engagement" /\ got'.failed = f.failed
        /\ got'.unique = got.unique /\ got'.chart = got.chart
        /\ got'.total = IF f.sent > 0 THEN f.sent ELSE got.total
        /\ got'.delivered = IF f.sent > 0 THEN f.delivered ELSE got.delivered
        /\ got'.opens >= got.opens
    BY <1>2, <1>7, <2>1, OverlayType
  <2>3. got'.total = Audience \/ got'.total >= start.sent
    BY <1>3, <2>1, <2>2
  <2>4. ReadInv'
    BY <1>1, <1>2, <1>3, <1>7, <2>1, <2>2, <2>3 DEF ReadInv, Reading, Audience
  <2>5. ChartInv'
    BY <1>2, <1>5, <1>7, <2>2 DEF ChartInv, Uncharted, Emptied
  <2>6. HalfInv'
    <3>1. got.total \in Nat /\ got.unique \in Nat /\ got.opens \in Nat
      BY <1>2 DEF Answers
    <3>2. got'.opens \in Nat
      BY <2>2 DEF Answers
    <3>3. got'.unique <= got'.opens
      BY <1>4, <2>2, <3>1, <3>2
    <3>4. got'.delivered + got'.failed <= got'.total
      <4>1. CASE f.sent > 0
        BY <2>1, <2>2, <4>1
      <4>2. CASE ~ (f.sent > 0)
        <5>1. f.failed = 0
          BY <2>1, <4>2
        <5>2. QED
          BY <1>4, <2>2, <3>1, <4>2, <5>1
      <4>3. QED
        BY <4>1, <4>2
    <3>5. QED
      BY <1>7, <3>3, <3>4 DEF HalfInv
  <2>7. FiguresWereTrue' /\ HalfAnswersAddUp' /\ RateIsARate'
    BY <1>7 DEF FiguresWereTrue, HalfAnswersAddUp, RateIsARate
  <2>8. QED
    BY <1>1, <1>2, <1>7, <2>2, <2>4, <2>5, <2>6, <2>7, RequestKeeps
<1>8. QED
  BY <1>6, <1>7 DEF GetEngagement, Step

-----------------------------------------------------------------------------
(***************************************************************************)
(* toPortRecord, email_dispatcher.go: of whatever shape a record is, it    *)
(* has an opening if and only if the mail has been opened.                 *)
(***************************************************************************)
LEMMA RecordShowsOpening ==
  ASSUME TypeOK, NEW w \in Wires, NEW r \in Recipients, NEW one \in RecordOf(r, w)
  PROVE  /\ one \in [Clock -> Nat]
         /\ (\E d \in Clock : one[d] > 0) <=> OpenDays(r) # {}
<1>1. events[r] \in [Clock -> Nat]
  BY OpenedType
<1>2. ASSUME NEW d \in Clock
      PROVE  Only(d) \in [Clock -> Nat] /\ Only(d)[d] > 0
  BY DEF Only
<1>3. CASE w = "list" \/ OpenDays(r) = {}
  <2>1. one = events[r]
    BY <1>3 DEF RecordOf
  <2>2. QED
    BY <1>1, <2>1 DEF OpenDays
<1>4. CASE w # "list" /\ OpenDays(r) # {}
  <2>1. OpenDays(r) \subseteq Clock
    BY DEF OpenDays
  <2>2. Max(OpenDays(r)) \in OpenDays(r)
    BY <1>4, <2>1, LastDay
  <2>3. \E d \in OpenDays(r) : one = Only(d)
    BY <1>4, <2>2 DEF RecordOf
  <2>4. QED
    BY <1>2, <1>4, <2>1, <2>3
<1>5. QED
  BY <1>3, <1>4

(***************************************************************************)
(* No more elements have something than there is of it in all.             *)
(***************************************************************************)
LEMMA PositivesAreBounded ==
  ASSUME NEW S, IsFiniteSet(S), NEW f \in [S -> Nat]
  PROVE  Cardinality({x \in S : f[x] > 0}) <= Sum(f, S)
<1> DEFINE h == [x \in S |-> IF f[x] > 0 THEN {x} ELSE {}]
<1>1. h \in [S -> SUBSET S]
  OBVIOUS
<1>2. ASSUME NEW x \in S  PROVE Cardinality(h[x]) <= f[x]
  <2>1. CASE f[x] > 0
    <3>1. h[x] = {x}
      BY <2>1
    <3>2. Cardinality(h[x]) = 1
      BY <3>1, FS_Singleton
    <3>3. QED
      BY <2>1, <3>2
  <2>2. CASE ~ (f[x] > 0)
    <3>1. h[x] = {} /\ f[x] = 0
      BY <2>2
    <3>2. Cardinality(h[x]) = 0
      BY <3>1, FS_EmptySet
    <3>3. QED
      BY <3>1, <3>2
  <2>3. QED
    BY <2>1, <2>2
<1>3. UNION {h[x] : x \in S} = {x \in S : f[x] > 0}
  OBVIOUS
<1> HIDE DEF h
<1>4. Cardinality(UNION {h[x] : x \in S}) <= Sum(f, S)
  BY <1>1, <1>2, CoverIsBounded
<1>5. QED
  BY <1>3, <1>4

(***************************************************************************)
(* aggregatePerRecipient, analytics.go: whatever shapes the records have,  *)
(* they count the recipients whose mail has been opened, and no more of    *)
(* them than their series has openings.                                    *)
(***************************************************************************)
LEMMA RecordsAreTrue ==
  ASSUME TypeOK, WorldInv, NEW w \in Wires, NEW rec \in Records(w)
  PROVE  /\ RecordUnique(rec) = Cardinality(Opened)
         /\ RecordUnique(rec) <= Cardinality(Accepted)
         /\ RecordUnique(rec) \in Nat
         /\ RecordChart(rec) \in [Clock -> Nat]
         /\ RecordUnique(rec) <= Sum(RecordChart(rec), Clock)
<1>1. DOMAIN rec = Accepted /\ \A r \in Accepted : rec[r] \in RecordOf(r, w)
  BY DEF Records
<1>2. Accepted \subseteq Recipients /\ IsFiniteSet(Accepted)
  BY AnalyticsAssumption, FS_Subset DEF Accepted
<1>3. \A r \in Accepted : /\ rec[r] \in [Clock -> Nat]
                          /\ (\E d \in Clock : rec[r][d] > 0) <=> OpenDays(r) # {}
  BY <1>1, <1>2, RecordShowsOpening
<1> DEFINE Seen == {r \in Accepted : \E d \in Clock : rec[r][d] > 0}
<1>4. RecordUnique(rec) = Cardinality(Seen)
  BY <1>1 DEF RecordUnique
<1>5. Seen = Opened
  <2>1. Opened \subseteq Accepted
    BY DEF WorldInv, Opened, Accepted
  <2>2. QED
    BY <1>2, <1>3, <2>1 DEF Opened
<1>6. IsFiniteSet(Seen) /\ Cardinality(Seen) <= Cardinality(Accepted)
  BY <1>2, FS_Subset
<1>7. Cardinality(Seen) \in Nat
  BY <1>6, FS_CardinalityType
<1> DEFINE f(d) == [r \in Accepted |-> rec[r][d]]
           chart == [d \in Clock |-> Sum(f(d), Accepted)]
           h == [d \in Clock |-> {r \in Accepted : f(d)[r] > 0}]
<1>8. RecordChart(rec) = chart
  BY <1>1 DEF RecordChart
<1>9. ASSUME NEW d \in Clock
      PROVE  /\ Sum(f(d), Accepted) \in Nat
             /\ Cardinality({r \in Accepted : f(d)[r] > 0}) <= Sum(f(d), Accepted)
  <2> DEFINE g == f(d)
  <2>1. g \in [Accepted -> Nat]
    BY <1>3
  <2> HIDE DEF g
  <2>2. Sum(g, Accepted) \in Nat
    BY <1>2, <2>1, SumType
  <2>3. Cardinality({r \in Accepted : g[r] > 0}) <= Sum(g, Accepted)
    BY <1>2, <2>1, PositivesAreBounded
  <2>4. QED
    BY <2>2, <2>3 DEF g
<1>10. chart \in [Clock -> Nat] /\ h \in [Clock -> SUBSET Accepted]
  BY <1>9
<1>11. \A d \in Clock : Cardinality(h[d]) <= chart[d]
  BY <1>9
<1>12. UNION {h[d] : d \in Clock} = Seen
  <2>1. \A d \in Clock : h[d] = {r \in Accepted : rec[r][d] > 0}
    OBVIOUS
  <2> HIDE DEF h, f, chart
  <2>2. QED
    BY <2>1
<1> HIDE DEF f, chart, h, Seen
<1>13. Cardinality(UNION {h[d] : d \in Clock}) <= Sum(chart, Clock)
  BY <1>2, <1>10, <1>11, ClockType, CoverIsBounded
<1>14. QED
  BY <1>4, <1>5, <1>6, <1>7, <1>8, <1>10, <1>12, <1>13

(***************************************************************************)
(* Get works out the rate: a ratio, over the mails the answer counts or,   *)
(* when it counts none, over what the row counted.                         *)
(***************************************************************************)
LEMMA RatedType ==
  ASSUME NEW g \in Answers, first \in Rows
  PROVE  /\ Rated(g) \in Answers
         /\ Rated(g).source = g.source /\ Rated(g).failed = g.failed
         /\ Rated(g).unique = g.unique /\ Rated(g).chart = g.chart
         /\ Rated(g).opens = g.opens /\ Rated(g).total = g.total
         /\ Rated(g).delivered = g.delivered
         /\ Denominator(g) > 0 => Rated(g).rate = <<g.unique, Denominator(g)>>
<1>1. Denominator(g) \in Nat /\ g.unique \in Nat
  BY DEF Denominator, Answers, Rows
<1> DEFINE r == Ratio(g.unique, Denominator(g))
<1>2. r \in {<<0, 0>>} \cup (Nat \X (Nat \ {0}))
  BY <1>1, RatioType
<1>3. Denominator(g) > 0 => r = <<g.unique, Denominator(g)>>
  BY DEF Ratio
<1>4. Rated(g) = IF Denominator(g) > 0 THEN [g EXCEPT !.rate = r] ELSE g
  BY DEF Rated
<1> HIDE DEF r
<1>5. QED
  BY <1>2, <1>3, <1>4 DEF Answers

(***************************************************************************)
(* GetStatusByGroupID, email_dispatcher.go: the records, if it gives any;  *)
(* then the rate, and the answer.                                          *)
(***************************************************************************)
LEMMA GetStatusKeeps ==
  ASSUME AnalyticsInv, GetStatusByGroupID
  PROVE  AnalyticsInv'
<1>1. /\ UNCHANGED worldVars /\ UNCHANGED <<first, start>>
      /\ pc = "status" /\ pc' = "answered"
  BY DEF GetStatusByGroupID, Step
<1>2. /\ UNCHANGED row /\ UNCHANGED Exists /\ TypeOK /\ WorldInv
      /\ Figures' = Figures /\ FiguresCount
      /\ first \in Rows /\ got \in Answers
      /\ start \in [sent : Nat, delivered : Nat, failed : Nat, opened : Nat, unique : Nat]
  BY <1>1, WorldUnchanged DEF AnalyticsInv, TypeOK
<1>3. /\ first.status = "sent" /\ row.status # "draft" /\ first.total = Audience
      /\ got.source = "engagement"
      /\ got.total = Audience \/ got.total >= start.sent
      /\ got.failed \in {0} \cup (start.failed .. Figures.failed)
  BY <1>1 DEF AnalyticsInv, ReadInv, Reading
<1>4. /\ Uncharted => Emptied
      /\ got.unique <= got.opens /\ got.delivered + got.failed <= got.total
  BY <1>1 DEF AnalyticsInv, ChartInv, HalfInv
<1>5. ReadInv' /\ HalfInv'
  BY <1>1 DEF ReadInv, Reading, HalfInv
<1>6. CASE got' = Rated(got)
  <2>1. /\ got' \in Answers /\ got'.source = "engagement" /\ got'.failed = got.failed
        /\ got'.unique = got.unique /\ got'.chart = got.chart
        /\ got'.opens = got.opens /\ got'.total = got.total
        /\ got'.delivered = got.delivered
    BY <1>2, <1>3, <1>6, RatedType
  <2>2. ChartInv'
    BY <1>1, <1>2, <1>3, <1>4, <2>1 DEF ChartInv, Uncharted, Emptied
  <2>3. FiguresWereTrue'
    BY <1>1, <1>2, <1>3, <2>1 DEF FiguresWereTrue
  <2>4. HalfAnswersAddUp' /\ RateIsARate'
    BY <1>4, <2>1 DEF HalfAnswersAddUp, RateIsARate
  <2>5. QED
    BY <1>1, <1>2, <1>5, <2>1, <2>2, <2>3, <2>4, RequestKeeps
<1>7. ASSUME Accepted # {}, NEW w \in Wires, NEW rec \in Records(w),
             got' = Rated([got EXCEPT !.source = "records",
                                      !.unique = RecordUnique(rec),
                                      !.chart = RecordChart(rec)])
      PROVE  AnalyticsInv'
  <2> DEFINE u == RecordUnique(rec)
             chart == RecordChart(rec)
             g == [got EXCEPT !.source = "records", !.unique = u, !.chart = chart]
  <2>1. /\ u = Figures.unique /\ u <= Figures.sent /\ u \in Nat
        /\ chart \in [Clock -> Nat] /\ u <= Sum(chart, Clock)
    BY <1>2, RecordsAreTrue DEF FiguresCount
  <2>2. got' = Rated(g)
    BY <1>7
  <2> HIDE DEF u, chart
  <2>3. /\ g \in Answers /\ g.source = "records" /\ g.failed = got.failed
        /\ g.unique = u /\ g.chart = chart /\ g.total = got.total
    BY <1>2, <2>1 DEF Answers
  <2> HIDE DEF g
  <2>4. /\ got' \in Answers /\ got'.source = "records" /\ got'.failed = got.failed
        /\ got'.unique = u /\ got'.chart = chart
        /\ Denominator(g) > 0 => got'.rate = <<u, Denominator(g)>>
    BY <1>2, <2>2, <2>3, RatedType
  <2>5. ChartInv' /\ HalfAnswersAddUp'
    <3>1. Sum(chart, Clock) \in Nat
      BY <2>1, ClockType, SumType
    <3>2. ~ (u > Sum(chart, Clock))
      BY <2>1, <3>1
    <3>3. QED
      BY <1>1, <2>4, <3>2 DEF ChartInv, Uncharted, HalfAnswersAddUp
  <2>6. FiguresWereTrue'
    <3>1. u \in start.unique .. Figures.unique
      BY <1>2, <2>1 DEF AnalyticsInv, FiguresGrow, FiguresCount
    <3>2. QED
      BY <1>1, <1>2, <1>3, <2>4, <3>1 DEF FiguresWereTrue
  <2>7. Audience \in Nat /\ Audience > 0 /\ Figures.sent <= Audience
    <3>1. Accepted \subseteq Recipients /\ IsFiniteSet(Recipients)
      BY AnalyticsAssumption DEF Accepted
    <3>2. IsFiniteSet(Accepted) /\ Cardinality(Accepted) <= Cardinality(Recipients)
      BY <3>1, FS_Subset
    <3>3. Cardinality(Accepted) # 0
      BY <1>7, <3>2, FS_EmptySet
    <3>4. Cardinality(Accepted) \in Nat /\ Cardinality(Recipients) \in Nat
      BY <3>1, <3>2, FS_CardinalityType
    <3>5. QED
      BY <1>2, <3>2, <3>3, <3>4 DEF Audience, FiguresCount
  <2>8. /\ Denominator(g) \in Nat /\ Denominator(g) > 0
        /\ Denominator(g) = Audience \/ Denominator(g) >= start.sent
    BY <1>2, <1>3, <2>3, <2>7 DEF Denominator, Answers
  <2>9. RateIsARate'
    <3>1. got'.rate[1] = u /\ got'.rate[2] = Denominator(g)
      BY <2>4, <2>8
    <3>2. Figures.sent \in Nat /\ start.sent \in Nat
      BY <1>2 DEF FiguresCount
    <3>3. u > Denominator(g) => Figures.sent > start.sent
      BY <2>1, <2>7, <2>8, <3>2
    <3>4. QED
      BY <1>1, <1>2, <3>1, <3>3 DEF RateIsARate
  <2>10. QED
    BY <1>1, <1>2, <1>5, <2>4, <2>5, <2>6, <2>9, RequestKeeps
<1>8. QED
  BY <1>6, <1>7 DEF GetStatusByGroupID

-----------------------------------------------------------------------------
(***************************************************************************)
(* Every step keeps the invariant.                                         *)
(***************************************************************************)
LEMMA AnalyticsSteps == AnalyticsInv /\ [Next]_vars => AnalyticsInv'
<1> SUFFICES ASSUME AnalyticsInv, [Next]_vars  PROVE AnalyticsInv'
  OBVIOUS
<1>1. CASE World
  <2>1. ~ Ended
    BY <1>1 DEF World
  <2>2. CASE NextDay \/ MarkSent \/ DeleteNewsletter
    BY <2>1, <2>2, NextDayKeeps, MarkSentKeeps, DeleteNewsletterKeeps
  <2>3. ASSUME NEW r \in Recipients, OpenRecorded(r)  PROVE AnalyticsInv'
    BY <2>1, <2>3, OpenRecordedKeeps
  <2>4. ASSUME NEW r \in Recipients, NEW s \in {"accepted", "delivered", "failed"},
               MailProgress(r, s)
        PROVE  AnalyticsInv'
    BY <2>1, <2>4, MailProgressKeeps
  <2>5. ASSUME NEW r \in Recipients, MailOpened(r)  PROVE AnalyticsInv'
    BY <2>1, <2>5, MailOpenedKeeps
  <2>6. QED
    BY <1>1, <2>2, <2>3, <2>4, <2>5 DEF World
<1>2. CASE Request
  <2>1. ASSUME NEW p \in Projects, GetRow(p)  PROVE AnalyticsInv'
    BY <2>1, GetRowKeeps
  <2>2. CASE GetAnalytics \/ RepoGetRow \/ AggregateOpens \/ AggregateDays
    BY <2>2, GetAnalyticsKeeps, RepoGetRowKeeps, AggregateOpensKeeps, AggregateDaysKeeps
  <2>3. CASE DatabaseFails \/ GetEngagement \/ GetStatusByGroupID
    BY <2>3, DatabaseFailsKeeps, GetEngagementKeeps, GetStatusKeeps
  <2>4. QED
    BY <1>2, <2>1, <2>2, <2>3 DEF Request
<1>3. CASE UNCHANGED vars
  <2>1. UNCHANGED worldVars /\ UNCHANGED <<pc, first, got, start>>
    BY <1>3 DEF vars, readVars
  <2>2. /\ UNCHANGED <<row, today, opens, mail, events>> /\ Figures' = Figures
        /\ UNCHANGED Openers /\ UNCHANGED Exists
    BY <2>1, WorldUnchanged
  <2>3. /\ ReadInv' /\ ChartInv' /\ HalfInv' /\ FiguresWereTrue'
        /\ HalfAnswersAddUp' /\ RateIsARate'
    BY <2>1, <2>2 DEF AnalyticsInv, ReadInv, Reading, Audience, ChartInv, Uncharted,
                      Emptied, HalfInv, FiguresWereTrue, HalfAnswersAddUp, RateIsARate
  <2>4. /\ pc' \in {"idle", "get", "row", "aggregate", "daily", "engagement",
                    "status", "answered", "not_found", "failed"}
        /\ first' \in Rows /\ got' \in Answers
    BY <2>1 DEF AnalyticsInv, TypeOK
  <2>5. QED
    BY <2>1, <2>3, <2>4, RequestKeeps
<1>4. QED
  BY <1>1, <1>2, <1>3 DEF Next

(***************************************************************************)
(* The invariant holds throughout.                                         *)
(***************************************************************************)
LEMMA AnalyticsIsInvariant == Spec => []AnalyticsInv
<1>1. QED
  BY AnalyticsStarts, AnalyticsSteps, PTL DEF Spec

(***************************************************************************)
(* TypeOK: the answer always has figures that can be written, and an open  *)
(* rate is never a division by zero.                                       *)
(***************************************************************************)
THEOREM TypeCorrect == Spec => []TypeOK
<1>1. AnalyticsInv => TypeOK
  BY DEF AnalyticsInv
<1>2. QED
  BY <1>1, AnalyticsIsInvariant, PTL

(***************************************************************************)
(* FiguresWereTrue: what an answer says of failures and of openers was     *)
(* true at some time while the request ran, or there was no data yet,      *)
(* though the email service is asked twice and moves on in between.        *)
(***************************************************************************)
THEOREM FiguresAreTrue == Spec => []FiguresWereTrue
<1>1. AnalyticsInv => FiguresWereTrue
  BY DEF AnalyticsInv
<1>2. QED
  BY <1>1, AnalyticsIsInvariant, PTL

(***************************************************************************)
(* OpenersAreCharted: every opener an answer counts has an opening in its  *)
(* daily series, whoever opens between the two aggregates and whatever the *)
(* shapes of the records, unless the newsletter was deleted meanwhile; and *)
(* then the series is all zeros and not that of the email service.         *)
(***************************************************************************)
THEOREM ChartsAreComplete == Spec => []OpenersAreCharted
<1>1. AnalyticsInv => OpenersAreCharted
  BY DEF AnalyticsInv
<1>2. QED
  BY <1>1, AnalyticsIsInvariant, PTL

(***************************************************************************)
(* HalfAnswersAddUp: an answer without the records has no more openers     *)
(* than openings, and no more deliveries and failures than mails, whatever *)
(* the email service replaced of it before its second call failed.         *)
(***************************************************************************)
THEOREM HalvesAddUp == Spec => []HalfAnswersAddUp
<1>1. AnalyticsInv => HalfAnswersAddUp
  BY DEF AnalyticsInv
<1>2. QED
  BY <1>1, AnalyticsIsInvariant, PTL

(***************************************************************************)
(* RateIsARate: an open rate worked out from the records exceeds one only  *)
(* if the email service accepted a mail while the request ran.             *)
(***************************************************************************)
THEOREM RatesAreRates == Spec => []RateIsARate
<1>1. AnalyticsInv => RateIsARate
  BY DEF AnalyticsInv
<1>2. QED
  BY <1>1, AnalyticsIsInvariant, PTL
=============================================================================
