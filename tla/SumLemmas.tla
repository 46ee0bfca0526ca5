----------------------------- MODULE SumLemmas -----------------------------
(***************************************************************************)
(* Sums over finite sets, as the margin of an account's open trades        *)
(* (AccountRisk) and the bytes of the indicator cache (Sweep) are.  A sum  *)
(* over S is a function on the parts of S that splits off one element at a *)
(* time; what holds of sums is shown by taking a smallest part of which it *)
(* does not hold.  The same is done for folds over the indices of a        *)
(* sequence, as the parameter grid of Sweep has them, with facts about the *)
(* quotients that number its combinations.  The sums, counts and swings    *)
(* after them are those of the report of a run (SimEngine), the windows,   *)
(* lists and ranks at the end those of the series a script reads.          *)
(***************************************************************************)
EXTENDS Integers, FiniteSets, Sequences, FiniteSetsExt, Functions, FiniteSetTheorems, SequenceTheorems,
        WellFoundedInduction, TLAPS

(* The element that a sum takes first.                                     *)
First(s) == CHOOSE x \in s : TRUE

(* g[s] is the sum of f over s, for all parts s of S.                      *)
Sums(g, f, S) ==
  g = [s \in SUBSET S |-> IF s = {} THEN 0 ELSE f[First(s)] + g[s \ {First(s)}]]

(* A part that is not empty has a first element.                           *)
LEMMA FirstIs == ASSUME NEW s, s # {} PROVE First(s) \in s
BY DEF First

(* Of any parts of a finite set, one has no other one inside it.           *)
LEMMA SmallestPart ==
  ASSUME NEW S, IsFiniteSet(S), NEW B \in SUBSET (SUBSET S), B # {}
  PROVE  \E s \in B : \A t \in B : t \subseteq s => t = s
<1>1. B \subseteq FiniteSubsetsOf(S)
  BY FS_Subset DEF FiniteSubsetsOf
<1>2. PICK s \in B : \A t \in B : ~(<<t, s>> \in StrictSubsetOrdering(S))
  BY <1>1, FS_StrictSubsetOrderingWellFounded, WFMin
<1> QED BY <1>2 DEF StrictSubsetOrdering

(* The sum of no summand is 0, and one summand can be split off.           *)
LEMMA SumsIs ==
  ASSUME NEW f, NEW S, NEW g, Sums(g, f, S)
  PROVE  g[{}] = 0 /\ \A s \in SUBSET S : s # {} => First(s) \in s /\ s \ {First(s)} \in SUBSET S
                                               /\ g[s] = f[First(s)] + g[s \ {First(s)}]
<1>1. {} \in SUBSET S
  OBVIOUS
<1>2. \A s \in SUBSET S : g[s] = IF s = {} THEN 0 ELSE f[First(s)] + g[s \ {First(s)}]
  BY DEF Sums
<1> QED BY <1>1, <1>2, FirstIs

(* The sums are determined by the summands.                                *)
LEMMA SumsAgree ==
  ASSUME NEW f, NEW S, NEW g, NEW e, NEW T, NEW h, IsFiniteSet(S), Sums(g, f, S), Sums(h, e, T),
         NEW U \in SUBSET S, U \subseteq T, \A x \in U : f[x] = e[x]
  PROVE  g[U] = h[U]
<1> DEFINE B == {s \in SUBSET U : g[s] # h[s]}
<1>1. SUFFICES B = {}
  OBVIOUS
<1>2. SUFFICES ASSUME B # {} PROVE FALSE
  OBVIOUS
<1>3. B \in SUBSET (SUBSET S)
  OBVIOUS
<1>4. PICK s \in B : \A t \in B : t \subseteq s => t = s
  <2> HIDE DEF B
  <2> QED BY <1>2, <1>3, SmallestPart
<1>5. s # {}
  <2>1. g[{}] = 0 /\ h[{}] = 0
    BY SumsIs
  <2> QED BY <2>1
<1>6. First(s) \in s /\ g[s] = f[First(s)] + g[s \ {First(s)}] /\ h[s] = e[First(s)] + h[s \ {First(s)}]
  BY <1>5, SumsIs
<1>7. s \ {First(s)} \notin B
  BY <1>4, <1>6
<1>8. g[s \ {First(s)}] = h[s \ {First(s)}] /\ f[First(s)] = e[First(s)]
  BY <1>6, <1>7
<1> QED BY <1>6, <1>8

(* There are sums over every finite set.                                   *)

(* A finite set has such sums.                                             *)
LEMMA SumsExist ==
  ASSUME NEW f, NEW S, IsFiniteSet(S)
  PROVE  \E g : Sums(g, f, S)
<1> DEFINE B == {s \in SUBSET S : ~ \E g : Sums(g, f, s)}
<1>1. SUFFICES ASSUME B # {} PROVE FALSE
  OBVIOUS
<1>2. B \in SUBSET (SUBSET S)
  OBVIOUS
<1>3. PICK T \in B : \A t \in B : t \subseteq T => t = T
  <2> HIDE DEF B
  <2> QED BY <1>1, <1>2, SmallestPart
<1> DEFINE Of(s) == CHOOSE h : Sums(h, f, s)
           Rest(s) == s \ {First(s)}
           g == [s \in SUBSET T |-> IF s = {} THEN 0 ELSE f[First(s)] + Of(Rest(s))[Rest(s)]]
<1>4. ASSUME NEW s \in SUBSET T, s # T
      PROVE  Sums(Of(s), f, s)
  <2>1. \E h : Sums(h, f, s)
    BY <1>3, <1>4
  <2> QED BY <2>1
<1>5. ASSUME NEW s \in SUBSET T, s # {}
      PROVE  g[s] = f[First(s)] + g[Rest(s)]
  <2>1. First(s) \in s /\ Rest(s) \in SUBSET T /\ Rest(s) # T
    BY <1>5, FirstIs
  <2>2. g[s] = f[First(s)] + Of(Rest(s))[Rest(s)]
    BY <1>5
  <2>3. Of(Rest(s))[Rest(s)] = g[Rest(s)]
    <3> DEFINE r == Rest(s)
    <3>1. Sums(Of(r), f, r) /\ r \in SUBSET T
      BY <1>4, <2>1
    <3>2. CASE r = {}
      <4>1. Of(r)[{}] = 0
        BY <3>1, SumsIs
      <4>2. g[{}] = 0
        OBVIOUS
      <4> QED BY <3>2, <4>1, <4>2
    <3>3. CASE r # {}
      <4>1. First(r) \in r /\ Rest(r) \in SUBSET r /\ Rest(r) \in SUBSET T /\ Rest(r) # T
        BY <3>1, <3>3, FirstIs
      <4>2. Of(r)[r] = f[First(r)] + Of(r)[Rest(r)]
        <5>1. r \in SUBSET r
          OBVIOUS
        <5> HIDE DEF Of, r
        <5> QED BY <3>1, <3>3, <5>1, SumsIs
      <4>3. g[r] = f[First(r)] + Of(Rest(r))[Rest(r)]
        BY <3>1, <3>3
      <4>4. Sums(Of(Rest(r)), f, Rest(r))
        BY <1>4, <4>1
      <4>5. Of(r)[Rest(r)] = Of(Rest(r))[Rest(r)]
        <5>1. IsFiniteSet(r)
          BY <3>1, FS_Subset
        <5> HIDE DEF Of, Rest, r
        <5> QED BY <3>1, <4>1, <4>4, <5>1, SumsAgree
      <4> QED BY <4>2, <4>3, <4>5
    <3> QED BY <3>2, <3>3
  <2> QED BY <2>2, <2>3
<1>6. Sums(g, f, T)
  <2>1. g[{}] = 0
    OBVIOUS
  <2>2. \A s \in SUBSET T : g[s] = IF s = {} THEN 0 ELSE f[First(s)] + g[s \ {First(s)}]
    <3> HIDE DEF g, Of
    <3> QED BY <1>5, <2>1
  <2>3. g = [s \in SUBSET T |-> g[s]]
    OBVIOUS
  <2> HIDE DEF g
  <2> QED BY <2>2, <2>3 DEF Sums
<1> QED BY <1>6

(* Any element may be taken first.                                         *)

(* Any summand can be split off, not the first one only.                   *)
LEMMA SumsCommute ==
  ASSUME NEW S, IsFiniteSet(S), NEW f \in [S -> Int], NEW g, Sums(g, f, S)
  PROVE  \A s \in SUBSET S : g[s] \in Int /\ \A x \in s : g[s] = f[x] + g[s \ {x}]
<1> DEFINE B == {s \in SUBSET S : ~(g[s] \in Int /\ \A x \in s : g[s] = f[x] + g[s \ {x}])}
<1>1. SUFFICES ASSUME B # {} PROVE FALSE
  OBVIOUS
<1>2. B \in SUBSET (SUBSET S)
  OBVIOUS
<1>3. PICK s \in B : \A t \in B : t \subseteq s => t = s
  <2> HIDE DEF B
  <2> QED BY <1>1, <1>2, SmallestPart
<1>4. \A t \in SUBSET s : t # s => g[t] \in Int /\ \A x \in t : g[t] = f[x] + g[t \ {x}]
  BY <1>3
<1>5. s # {}
  <2>1. g[{}] = 0
    BY SumsIs
  <2>2. g[s] # 0 \/ s # {}
    OBVIOUS
  <2> QED BY <2>1, <2>2
<1> DEFINE y == First(s)
<1>6. y \in s /\ g[s] = f[y] + g[s \ {y}]
  BY <1>5, SumsIs
<1>7. f[y] \in Int /\ g[s \ {y}] \in Int
  BY <1>4, <1>6
<1>8. ASSUME NEW x \in s PROVE g[s] = f[x] + g[s \ {x}]
  <2>1. CASE x = y
    BY <1>6, <2>1
  <2>2. CASE x # y
    <3>1. g[s \ {y}] = f[x] + g[(s \ {y}) \ {x}]
      BY <1>4, <1>6, <2>2
    <3>2. g[s \ {x}] = f[y] + g[(s \ {x}) \ {y}]
      BY <1>4, <1>6, <2>2
    <3>3. (s \ {y}) \ {x} = (s \ {x}) \ {y}
      OBVIOUS
    <3>4. f[x] \in Int /\ g[(s \ {x}) \ {y}] \in Int
      BY <1>4, <1>6
    <3>5. g[s] = f[y] + (f[x] + g[(s \ {x}) \ {y}])
      BY <1>6, <3>1, <3>3, Zenon
    <3> HIDE DEF y, B
    <3> QED BY <1>7, <3>2, <3>4, <3>5
  <2> QED BY <2>1, <2>2
<1> QED BY <1>6, <1>7, <1>8

(* The sum of f over S.                                                    *)
SumOf(f, S) == (CHOOSE g : Sums(g, f, S))[S]

(* All such functions give the same sum.                                   *)
LEMMA SumOfIs ==
  ASSUME NEW f, NEW S, IsFiniteSet(S), NEW g, Sums(g, f, S)
  PROVE  SumOf(f, S) = g[S]
<1> DEFINE h == CHOOSE h : Sums(h, f, S)
<1>1. Sums(h, f, S)
  OBVIOUS
<1> HIDE DEF h
<1>2. g[S] = h[S]
  BY <1>1, SumsAgree
<1> QED BY <1>2 DEF SumOf, h

(* Nothing adds up to 0.                                                   *)
LEMMA SumEmpty == ASSUME NEW f PROVE SumOf(f, {}) = 0
<1>1. IsFiniteSet({})
  BY FS_EmptySet
<1>2. PICK g : Sums(g, f, {})
  BY <1>1, SumsExist
<1>3. g[{}] = 0
  BY <1>2, SumsIs
<1> QED BY <1>1, <1>2, <1>3, SumOfIs

(* A sum depends on its summands alone.                                    *)

(* Sums of the same summands are equal.                                    *)
LEMMA SumSame ==
  ASSUME NEW f, NEW e, NEW S, IsFiniteSet(S), \A x \in S : f[x] = e[x]
  PROVE  SumOf(f, S) = SumOf(e, S)
<1>1. PICK g : Sums(g, f, S)
  BY SumsExist
<1>2. PICK h : Sums(h, e, S)
  BY SumsExist
<1>3. g[S] = h[S]
  BY <1>1, <1>2, SumsAgree
<1> QED BY <1>1, <1>2, <1>3, SumOfIs

(* Integers add up to an integer.                                          *)
LEMMA SumType ==
  ASSUME NEW S, IsFiniteSet(S), NEW f, \A x \in S : f[x] \in Int
  PROVE  SumOf(f, S) \in Int
<1> DEFINE e == [y \in S |-> f[y]]
<1>1. e \in [S -> Int] /\ \A x \in S : f[x] = e[x]
  OBVIOUS
<1> HIDE DEF e
<1>2. PICK g : Sums(g, e, S)
  BY SumsExist
<1>3. g[S] \in Int
  BY <1>1, <1>2, SumsCommute
<1> QED BY <1>1, <1>2, <1>3, SumOfIs, SumSame

(* One summand is taken out.                                               *)

(* Any summand can be taken out of a sum.                                  *)
LEMMA SumRemove ==
  ASSUME NEW S, IsFiniteSet(S), NEW f, \A x \in S : f[x] \in Int, NEW x \in S
  PROVE  SumOf(f, S) = f[x] + SumOf(f, S \ {x}) /\ SumOf(f, S) \in Int /\ SumOf(f, S \ {x}) \in Int
<1> DEFINE e == [y \in S |-> f[y]]
           R == S \ {x}
<1>1. e \in [S -> Int] /\ e[x] = f[x] /\ IsFiniteSet(R) /\ R \in SUBSET S
  BY FS_RemoveElement
<1>2. PICK g : Sums(g, e, S)
  BY SumsExist
<1>3. PICK h : Sums(h, e, R)
  BY <1>1, SumsExist
<1>4. g[R] = h[R]
  <2> HIDE DEF e, R
  <2> QED BY <1>1, <1>2, <1>3, SumsAgree
<1>5. SumOf(e, S) = g[S] /\ SumOf(e, R) = g[R]
  <2> HIDE DEF e, R
  <2> QED BY <1>1, <1>2, <1>3, <1>4, SumOfIs
<1>6. g[S] = e[x] + g[R] /\ g[S] \in Int /\ g[R] \in Int
  <2> HIDE DEF e
  <2> QED BY <1>1, <1>2, SumsCommute
<1>7. SumOf(f, S) = SumOf(e, S) /\ SumOf(f, R) = SumOf(e, R)
  <2>1. \A y \in S : f[y] = e[y]
    OBVIOUS
  <2> HIDE DEF e, R
  <2> QED BY <1>1, <2>1, SumSame
<1> QED BY <1>1, <1>5, <1>6, <1>7

(* Two sums that differ in the summand of p alone.                         *)
LEMMA SumChange ==
  ASSUME NEW S, NEW T, IsFiniteSet(S), IsFiniteSet(T), NEW f, NEW e, NEW p, S \ {p} = T \ {p},
         \A x \in S : f[x] \in Int, \A x \in T : e[x] \in Int, \A x \in S \ {p} : f[x] = e[x]
  PROVE  /\ SumOf(f, S) \in Int /\ SumOf(e, T) \in Int
         /\ SumOf(e, T) - (IF p \in T THEN e[p] ELSE 0) = SumOf(f, S) - (IF p \in S THEN f[p] ELSE 0)
<1> DEFINE R == S \ {p}
<1>1. IsFiniteSet(R) /\ R = T \ {p} /\ SumOf(f, R) = SumOf(e, R)
  <2>1. IsFiniteSet(R) /\ \A x \in R : f[x] = e[x]
    BY FS_RemoveElement
  <2> HIDE DEF R
  <2>2. SumOf(f, R) = SumOf(e, R)
    BY <2>1, SumSame
  <2> QED BY <2>1, <2>2 DEF R
<1>2. SumOf(f, R) \in Int
  <2>1. \A x \in R : f[x] \in Int
    OBVIOUS
  <2> HIDE DEF R
  <2> QED BY <1>1, <2>1, SumType
<1>3. SumOf(f, S) \in Int /\ SumOf(f, S) - (IF p \in S THEN f[p] ELSE 0) = SumOf(f, R)
  <2>1. CASE p \in S
    BY <1>2, <2>1, SumRemove
  <2>2. CASE p \notin S
    <3>1. R = S
      BY <2>2
    <3> HIDE DEF R
    <3> QED BY <1>2, <2>2, <3>1
  <2> QED BY <2>1, <2>2
<1>4. SumOf(e, T) \in Int /\ SumOf(e, T) - (IF p \in T THEN e[p] ELSE 0) = SumOf(e, R)
  <2>1. CASE p \in T
    <3>1. SumOf(e, T) = e[p] + SumOf(e, T \ {p}) /\ SumOf(e, T) \in Int
      BY <2>1, SumRemove
    <3>2. e[p] \in Int
      BY <2>1
    <3> HIDE DEF R
    <3> QED BY <1>1, <1>2, <2>1, <3>1, <3>2
  <2>2. CASE p \notin T
    <3>1. R = T
      BY <2>2
    <3> HIDE DEF R
    <3> QED BY <1>1, <1>2, <2>2, <3>1
  <2> QED BY <2>1, <2>2
<1> HIDE DEF R
<1> QED BY <1>1, <1>2, <1>3, <1>4

(* A sum without some of its summands.                                     *)
LEMMA SumWithout ==
  ASSUME NEW S, IsFiniteSet(S), NEW f, \A x \in S : f[x] \in Int, NEW D \in SUBSET S
  PROVE  /\ SumOf(f, D) \in Int /\ SumOf(f, S) \in Int
         /\ SumOf([x \in S |-> IF x \in D THEN 0 ELSE f[x]], S) = SumOf(f, S) - SumOf(f, D)
<1> DEFINE Rest(X) == [x \in S |-> IF x \in X THEN 0 ELSE f[x]]
           B == {X \in SUBSET S : SumOf(Rest(X), S) # SumOf(f, S) - SumOf(f, X)}
<1>1. \A X \in SUBSET S : IsFiniteSet(X) /\ SumOf(f, X) \in Int
  <2> TAKE X \in SUBSET S
  <2>1. IsFiniteSet(X)
    BY FS_Subset
  <2> QED BY <2>1, SumType
<1>2. \A X \in SUBSET S : \A x \in S : Rest(X)[x] \in Int
  OBVIOUS
<1>3. SUFFICES ASSUME B # {} PROVE FALSE
  BY <1>1
<1>4. B \in SUBSET (SUBSET S)
  OBVIOUS
<1>5. PICK X \in B : \A Y \in B : Y \subseteq X => Y = X
  <2> HIDE DEF B
  <2> QED BY <1>3, <1>4, SmallestPart
<1>6. X # {}
  <2>1. \A x \in S : Rest({})[x] = f[x]
    OBVIOUS
  <2>2. SumOf(Rest({}), S) = SumOf(f, S)
    <3> HIDE DEF Rest
    <3> QED BY <2>1, SumSame
  <2>3. SumOf(Rest({}), S) = SumOf(f, S) - SumOf(f, {})
    <3> HIDE DEF Rest
    <3> QED BY <1>1, <2>2, SumEmpty
  <2> HIDE DEF Rest
  <2> QED BY <2>3
<1>7. PICK x \in X : TRUE
  BY <1>6
<1> DEFINE Y == X \ {x}
<1>8. SumOf(Rest(Y), S) = SumOf(f, S) - SumOf(f, Y)
  <2> HIDE DEF Rest
  <2> QED BY <1>5, <1>7
<1>9. SumOf(f, X) = f[x] + SumOf(f, Y) /\ SumOf(f, Y) \in Int /\ f[x] \in Int
  <2> HIDE DEF Rest
  <2> QED BY <1>1, <1>7, SumRemove
<1>10. SumOf(Rest(X), S) = SumOf(Rest(Y), S) - f[x] /\ SumOf(Rest(Y), S) \in Int
  <2>1. /\ \A y \in S : Rest(X)[y] \in Int /\ Rest(Y)[y] \in Int
        /\ \A y \in S \ {x} : Rest(Y)[y] = Rest(X)[y]
    OBVIOUS
  <2>2. x \in S /\ Rest(Y)[x] = f[x] /\ Rest(X)[x] = 0
    BY <1>7
  <2> HIDE DEF Rest, B, Y
  <2>3. /\ SumOf(Rest(Y), S) \in Int /\ SumOf(Rest(X), S) \in Int
        /\ SumOf(Rest(X), S) - (IF x \in S THEN Rest(X)[x] ELSE 0)
             = SumOf(Rest(Y), S) - (IF x \in S THEN Rest(Y)[x] ELSE 0)
    BY <2>1, SumChange
  <2> QED BY <1>9, <2>2, <2>3
<1>11. X \in SUBSET S /\ SumOf(Rest(X), S) # SumOf(f, S) - SumOf(f, X)
  OBVIOUS
<1> HIDE DEF Rest, B, Y
<1> QED BY <1>1, <1>8, <1>9, <1>10, <1>11

(* The sum of the others.                                                  *)
LEMMA SumOthers ==
  ASSUME NEW S, IsFiniteSet(S), NEW f, \A x \in S : f[x] \in Int, NEW D \in SUBSET S
  PROVE  SumOf(f, S \ D) = SumOf(f, S) - SumOf(f, D)
<1> DEFINE B == {X \in SUBSET S : SumOf(f, S \ X) # SumOf(f, S) - SumOf(f, X)}
<1>1. \A X \in SUBSET S : IsFiniteSet(X) /\ SumOf(f, X) \in Int
  <2> TAKE X \in SUBSET S
  <2>1. IsFiniteSet(X)
    BY FS_Subset
  <2> QED BY <2>1, SumType
<1>2. SUFFICES ASSUME B # {} PROVE FALSE
  OBVIOUS
<1>3. B \in SUBSET (SUBSET S)
  OBVIOUS
<1>4. PICK X \in B : \A Y \in B : Y \subseteq X => Y = X
  <2> HIDE DEF B
  <2> QED BY <1>2, <1>3, SmallestPart
<1>5. X # {}
  <2>1. S \ {} = S
    OBVIOUS
  <2>2. SumOf(f, S \ {}) = SumOf(f, S) - SumOf(f, {})
    BY <1>1, <2>1, SumEmpty
  <2> QED BY <2>2
<1>6. PICK x \in X : TRUE
  BY <1>5
<1> DEFINE Y == X \ {x}
<1>7. SumOf(f, S \ Y) = SumOf(f, S) - SumOf(f, Y)
  BY <1>4, <1>6
<1>8. SumOf(f, X) = f[x] + SumOf(f, Y) /\ f[x] \in Int
  BY <1>1, <1>6, SumRemove
<1>9. SumOf(f, S \ Y) = f[x] + SumOf(f, S \ X)
  <2>1. (S \ Y) \ {x} = S \ X /\ x \in S \ Y /\ S \ Y \in SUBSET S
    BY <1>6
  <2> HIDE DEF Y, B
  <2>2. SumOf(f, S \ Y) = f[x] + SumOf(f, (S \ Y) \ {x})
    BY <1>1, <2>1, SumRemove
  <2> QED BY <2>1, <2>2
<1>10. /\ SumOf(f, X) \in Int /\ SumOf(f, Y) \in Int /\ SumOf(f, S) \in Int
       /\ SumOf(f, S \ X) \in Int /\ SumOf(f, S \ Y) \in Int
  BY <1>1
<1>11. SumOf(f, S \ X) # SumOf(f, S) - SumOf(f, X)
  OBVIOUS
<1> HIDE DEF B, Y
<1> QED BY <1>7, <1>8, <1>9, <1>10, <1>11

(* The sum of differences.                                                 *)
LEMMA SumMinus ==
  ASSUME NEW S, IsFiniteSet(S), NEW f, NEW e, \A x \in S : f[x] \in Int /\ e[x] \in Int
  PROVE  SumOf([x \in S |-> f[x] - e[x]], S) = SumOf(f, S) - SumOf(e, S)
<1> DEFINE d == [x \in S |-> f[x] - e[x]]
           B == {X \in SUBSET S : SumOf(d, X) # SumOf(f, X) - SumOf(e, X)}
<1>1. \A x \in S : d[x] = f[x] - e[x] /\ d[x] \in Int /\ f[x] \in Int /\ e[x] \in Int
  OBVIOUS
<1> HIDE DEF d
<1>2. \A X \in SUBSET S : IsFiniteSet(X)
  BY FS_Subset
<1>3. SUFFICES ASSUME B # {} PROVE FALSE
  BY DEF d
<1>4. B \in SUBSET (SUBSET S)
  OBVIOUS
<1>5. PICK X \in B : \A Y \in B : Y \subseteq X => Y = X
  <2> HIDE DEF B
  <2> QED BY <1>3, <1>4, SmallestPart
<1>6. X # {}
  BY SumEmpty
<1>7. PICK x \in X : TRUE
  BY <1>6
<1> DEFINE Y == X \ {x}
<1>8. SumOf(d, Y) = SumOf(f, Y) - SumOf(e, Y)
  BY <1>5, <1>7
<1>9. /\ SumOf(f, X) = f[x] + SumOf(f, Y) /\ SumOf(f, Y) \in Int
      /\ SumOf(e, X) = e[x] + SumOf(e, Y) /\ SumOf(e, Y) \in Int
      /\ SumOf(d, X) = d[x] + SumOf(d, Y) /\ SumOf(d, Y) \in Int
  BY <1>1, <1>2, <1>7, SumRemove
<1>10. SumOf(d, X) # SumOf(f, X) - SumOf(e, X) /\ x \in S
  BY <1>7
<1> HIDE DEF B, Y
<1> QED BY <1>1, <1>8, <1>9, <1>10

(* More summands, none of them negative, make no smaller sum.              *)
LEMMA SumMonotonic ==
  ASSUME NEW S, IsFiniteSet(S), NEW f, \A x \in S : f[x] \in Nat, NEW D \in SUBSET S
  PROVE  SumOf(f, D) <= SumOf(f, S)
<1> DEFINE B == {X \in SUBSET S : D \subseteq X /\ ~(SumOf(f, D) <= SumOf(f, X))}
<1>1. \A X \in SUBSET S : IsFiniteSet(X) /\ SumOf(f, X) \in Int
  <2> TAKE X \in SUBSET S
  <2>1. IsFiniteSet(X)
    BY FS_Subset
  <2> QED BY <2>1, SumType
<1>2. SUFFICES ASSUME B # {} PROVE FALSE
  OBVIOUS
<1>3. B \in SUBSET (SUBSET S)
  OBVIOUS
<1>4. PICK X \in B : \A Y \in B : Y \subseteq X => Y = X
  <2> HIDE DEF B
  <2> QED BY <1>2, <1>3, SmallestPart
<1>5. X # D
  BY <1>1
<1>6. PICK x \in X \ D : TRUE
  BY <1>5
<1> DEFINE Y == X \ {x}
<1>7. SumOf(f, D) <= SumOf(f, Y)
  BY <1>4, <1>6
<1>8. SumOf(f, X) = f[x] + SumOf(f, Y) /\ SumOf(f, Y) \in Int /\ f[x] \in Nat
  BY <1>1, <1>6, SumRemove
<1>9. SumOf(f, D) \in Int /\ ~(SumOf(f, D) <= SumOf(f, X))
  BY <1>1
<1> HIDE DEF Y, B
<1> QED BY <1>7, <1>8, <1>9
-----------------------------------------------------------------------------
(* Folds over the indices of a sequence.                                   *)

(* Of any numbers one is the least.                                        *)
LEMMA LeastOne ==
  ASSUME NEW B \in SUBSET Nat, B # {}
  PROVE  \E m \in B : \A k \in Nat : k < m => k \notin B
<1>1. PICK m \in B : \A k \in B : ~(<<k, m>> \in OpToRel(<, Nat))
  BY NatLessThanWellFounded, WFMin
<1> QED BY <1>1 DEF OpToRel

(* The greatest of the first indices is one of them.                       *)
LEMMA GreatestIn ==
  ASSUME NEW n \in Nat, NEW s \in SUBSET (1..n), s # {}
  PROVE  Max(s) \in s
<1> DEFINE B == {m \in Nat : \A x \in s : x <= m}
<1>1. B \in SUBSET Nat /\ B # {}
  <2>1. n \in B
    OBVIOUS
  <2> QED BY <2>1
<1>2. PICK m \in B : \A k \in Nat : k < m => k \notin B
  <2> HIDE DEF B
  <2> QED BY <1>1, LeastOne
<1>3. m \in s
  <2> SUFFICES ASSUME m \notin s PROVE FALSE
    OBVIOUS
  <2>1. PICK x \in s : TRUE
    OBVIOUS
  <2>2. m \in Nat /\ x \in 1..n /\ x <= m /\ x # m
    BY <2>1
  <2>3. m - 1 \in Nat /\ m - 1 < m
    BY <2>2
  <2>4. \A y \in s : y <= m - 1
    BY <2>2
  <2> QED BY <1>2, <2>3, <2>4
<1>4. \A y \in s : m >= y
  BY <1>3
<1> QED BY <1>3, <1>4 DEF Max

(* The greatest of all first indices is the last.                          *)
LEMMA GreatestIs ==
  ASSUME NEW k \in Nat, k # 0
  PROVE  Max(1..k) = k
<1>1. k \in 1..k /\ \A y \in 1..k : k >= y
  OBVIOUS
<1>2. PICK m \in 1..k : m = Max(1..k) /\ \A y \in 1..k : m >= y
  BY <1>1 DEF Max
<1> QED BY <1>1, <1>2

(* g[s] is what a fold makes of the indices s, the greatest last.          *)
Folded(g, F, base, S) ==
  /\ g[{}] = base
  /\ \A s \in SUBSET S : s # {} => g[s] = F[<<g[s \ {Max(s)}], Max(s)>>]

(* Indices of a sequence.                                                  *)
Indices(X) == \E n \in Nat : X \subseteq 1..n

(* What a fold makes of some indices is determined by the steps.           *)
LEMMA FoldsAgree ==
  ASSUME NEW F, NEW base, NEW g, NEW h, NEW T, NEW X,
         Folded(g, F, base, T), Folded(h, F, base, X), X \subseteq T, Indices(X)
  PROVE  g[X] = h[X]
<1>0. PICK n \in Nat : X \subseteq 1..n
  BY DEF Indices
<1> DEFINE B == {s \in SUBSET X : g[s] # h[s]}
<1>1. SUFFICES ASSUME B # {} PROVE FALSE
  OBVIOUS
<1>2. PICK s \in B : \A t \in B : t \subseteq s => t = s
  <2> DEFINE I == 1..n
  <2>1. B \in SUBSET (SUBSET I)
    BY <1>0
  <2>2. IsFiniteSet(I)
    BY <1>0, FS_Interval
  <2> HIDE DEF B, I
  <2> QED BY <1>1, <2>1, <2>2, SmallestPart
<1>3. s \in SUBSET (1..n) /\ \A t \in B : t \subseteq s => t = s
  BY <1>0, <1>2
<1>4. s # {}
  BY DEF Folded
<1> DEFINE r == s \ {Max(s)}
<1>5. Max(s) \in s
  BY <1>0, <1>3, <1>4, GreatestIn
<1>6. g[s] = F[<<g[r], Max(s)>>] /\ h[s] = F[<<h[r], Max(s)>>]
  BY <1>4 DEF Folded
<1>7. g[r] = h[r]
  BY <1>3, <1>5
<1> QED BY <1>6, <1>7

(* A step that can take every result can be folded.                        *)
LEMMA FoldsExist ==
  ASSUME NEW n \in Nat, NEW A, NEW base \in A, NEW F \in [A \X (1..n) -> A]
  PROVE  \E g \in [SUBSET (1..n) -> A] : Folded(g, F, base, 1..n)
<1> DEFINE Good(h, s) == h \in [SUBSET s -> A] /\ Folded(h, F, base, s)
           B == {s \in SUBSET (1..n) : ~ \E h : Good(h, s)}
<1>1. SUFFICES ASSUME B # {} PROVE FALSE
  <2>1. 1..n \in SUBSET (1..n)
    OBVIOUS
  <2> QED BY <2>1
<1>3. PICK T \in B : \A t \in B : t \subseteq T => t = T
  <2> DEFINE I == 1..n
  <2>1. B \in SUBSET (SUBSET I)
    OBVIOUS
  <2>2. IsFiniteSet(I)
    BY FS_Interval
  <2> HIDE DEF B, I
  <2> QED BY <1>1, <2>1, <2>2, SmallestPart
<1> DEFINE Of(s) == CHOOSE h : Good(h, s)
           Rest(s) == s \ {Max(s)}
           g == [s \in SUBSET T |-> IF s = {} THEN base ELSE F[<<Of(Rest(s))[Rest(s)], Max(s)>>]]
<1>4. T \in SUBSET (1..n) /\ ~ \E h : Good(h, T)
  OBVIOUS
<1>5. ASSUME NEW s \in SUBSET T, s # T
      PROVE  Good(Of(s), s)
  <2>1. \E h : Good(h, s)
    BY <1>3, <1>5
  <2> HIDE DEF Good
  <2> QED BY <2>1
<1> HIDE DEF B, Of
<1>6. \A s \in SUBSET T : s # {} => Max(s) \in s /\ Rest(s) \in SUBSET T /\ Rest(s) # T /\ Rest(s) # s
  BY <1>4, GreatestIn
<1>7. ASSUME NEW s \in SUBSET T, s # T
      PROVE  g[s] = Of(s)[s]
  <2>1. Good(Of(s), s)
    BY <1>5, <1>7
  <2>2. CASE s = {}
    BY <2>1, <2>2 DEF Folded
  <2>3. CASE s # {}
    <3>1. s \in SUBSET s /\ Rest(s) \in SUBSET (s \cap Rest(s))
      OBVIOUS
    <3>2. Of(s)[s] = F[<<Of(s)[Rest(s)], Max(s)>>]
      BY <2>1, <2>3, <3>1 DEF Folded
    <3>3. Folded(Of(s), F, base, s) /\ Folded(Of(Rest(s)), F, base, Rest(s))
      BY <1>5, <1>6, <2>1, <2>3
    <3>4. Rest(s) \in SUBSET (1..n) /\ s \in SUBSET (1..n)
      BY <1>4
    <3>5. Of(s)[Rest(s)] = Of(Rest(s))[Rest(s)]
      <4> DEFINE r == Rest(s)
                 a == Of(s)
                 b == Of(r)
      <4>1. Folded(a, F, base, s) /\ Folded(b, F, base, r)
        BY <3>3
      <4>2. Indices(r) /\ r \subseteq s
        BY <3>1, <3>4 DEF Indices
      <4> HIDE DEF Rest, r, a, b
      <4>4. a[r] = b[r]
        BY <4>1, <4>2, FoldsAgree
      <4> QED BY <4>4 DEF a, b, r
    <3>6. g[s] = F[<<Of(Rest(s))[Rest(s)], Max(s)>>]
      BY <2>3
    <3> QED BY <3>2, <3>5, <3>6
  <2> QED BY <2>2, <2>3
<1>8. \A s \in SUBSET T : s # {} => g[s] = F[<<g[Rest(s)], Max(s)>>]
  <2> SUFFICES ASSUME NEW s \in SUBSET T, s # {}
               PROVE  g[s] = F[<<g[Rest(s)], Max(s)>>]
    OBVIOUS
  <2>1. g[s] = F[<<Of(Rest(s))[Rest(s)], Max(s)>>]
    OBVIOUS
  <2>2. g[Rest(s)] = Of(Rest(s))[Rest(s)]
    <3> HIDE DEF g, Rest
    <3> QED BY <1>6, <1>7
  <2> QED BY <2>1, <2>2
<1>9. \A s \in SUBSET T : g[s] \in A
  <2> SUFFICES ASSUME NEW s \in SUBSET T PROVE g[s] \in A
    OBVIOUS
  <2>1. CASE s = {}
    BY <2>1
  <2>2. CASE s # {}
    <3> DEFINE r == Rest(s)
    <3>1. Good(Of(r), r) /\ r \in SUBSET r
      BY <1>5, <1>6, <2>2
    <3>2. Of(r)[r] \in A
      <4> HIDE DEF r
      <4> QED BY <3>1
    <3>3. Max(s) \in 1..n
      BY <1>4, <1>6, <2>2
    <3> QED BY <2>2, <3>2, <3>3
  <2> QED BY <2>1, <2>2
<1>10. Good(g, T)
  <2>1. g[{}] = base
    OBVIOUS
  <2>2. g \in [SUBSET T -> A]
    <3>1. g = [s \in SUBSET T |-> g[s]]
      OBVIOUS
    <3> HIDE DEF g
    <3> QED BY <1>9, <3>1
  <2> HIDE DEF g
  <2> QED BY <1>8, <2>1, <2>2 DEF Folded
<1> QED BY <1>4, <1>10

(* The steps of a fold with results in A, and of one that has them in A as *)
(* long as it starts there.                                                *)
FoldedIn(g, F, base, A, n) ==
  /\ g[{}] = base
  /\ \A s \in SUBSET (1..n) : s # {} =>
       /\ Max(s) \in 1..n /\ s \ {Max(s)} \in SUBSET (1..n) /\ g[s \ {Max(s)}] \in A
       /\ g[s] = F[<<g[s \ {Max(s)}], Max(s)>>]
FoldsFrom(h, F, base, A, n) ==
  /\ h[{}] = base
  /\ \A s \in SUBSET (1..n) : s # {} /\ h[s \ {Max(s)}] \in A
                               => h[s] = F[<<h[s \ {Max(s)}], Max(s)>>]
StepPrefixes(P, F, base, A, n) ==
  P \in [0..n -> A] /\ P[0] = base /\ \A k \in 1..n : P[k] = F[<<P[k - 1], k>>]
HasPrefixes(h, F, base, A, n) == \E P : StepPrefixes(P, F, base, A, n) /\ P[n] = h[1..n]

LEMMA FoldedStep ==
  ASSUME NEW n \in Nat, NEW A, NEW base \in A, NEW F \in [A \X (1..n) -> A]
  PROVE  \E g \in [SUBSET (1..n) -> A] : FoldedIn(g, F, base, A, n)
<1>1. \A s \in SUBSET (1..n) : s # {} => Max(s) \in 1..n
  BY GreatestIn
<1>2. PICK g \in [SUBSET (1..n) -> A] : Folded(g, F, base, 1..n)
  BY FoldsExist
<1> QED BY <1>1, <1>2 DEF Folded, FoldedIn

(* A fold whose results are all in A is the last of its prefixes.          *)
LEMMA FoldPrefix ==
  ASSUME NEW n \in Nat, NEW A, NEW base \in A, NEW F \in [A \X (1..n) -> A], NEW h,
         FoldsFrom(h, F, base, A, n)
  PROVE  HasPrefixes(h, F, base, A, n)
<1>1. ASSUME NEW k \in 1..n, h[1..(k - 1)] \in A
      PROVE  h[1..k] = F[<<h[1..(k - 1)], k>>] /\ h[1..k] \in A
  <2> DEFINE s == 1..k
  <2>1. k \in Int /\ 1 <= k /\ k <= n
    OBVIOUS
  <2>2. Max(s) = k
    BY GreatestIs
  <2>3. s \in SUBSET (1..n) /\ s # {} /\ s \ {k} = 1..(k - 1)
    <3>1. \A j \in Int : j \in 1..(k - 1) <=> j \in 1..k /\ j # k
      BY <2>1
    <3>2. s \ {k} = 1..(k - 1)
      BY <3>1
    <3> QED BY <2>1, <3>2
  <2>4. h[s] = F[<<h[1..(k - 1)], k>>]
    <3> HIDE DEF s
    <3> QED BY <1>1, <2>2, <2>3 DEF FoldsFrom
  <2> QED BY <1>1, <2>4
<1>2. \A k \in 0..n : h[1..k] \in A
  <2> DEFINE B == {k \in 0..n : h[1..k] \notin A}
  <2> SUFFICES ASSUME B # {} PROVE FALSE
    OBVIOUS
  <2>1. PICK k \in B : \A j \in Nat : j < k => j \notin B
    <3>1. B \in SUBSET Nat
      OBVIOUS
    <3> HIDE DEF B
    <3> QED BY <3>1, LeastOne
  <2>2. k # 0
    <3>1. 1..0 = {}
      OBVIOUS
    <3> QED BY <3>1 DEF FoldsFrom
  <2>3. k \in 1..n /\ k - 1 \in 0..n /\ k - 1 < k /\ k - 1 \in Nat
    BY <2>2
  <2>4. h[1..(k - 1)] \in A
    BY <2>1, <2>3
  <2> QED BY <1>1, <2>3, <2>4
<1> DEFINE P == [k \in 0..n |-> h[1..k]]
<1>3. P \in [0..n -> A] /\ P[0] = base /\ P[n] = h[1..n]
  <2>1. 1..0 = {}
    OBVIOUS
  <2> QED BY <1>2, <2>1 DEF FoldsFrom
<1>4. \A k \in 1..n : P[k] = F[<<P[k - 1], k>>]
  <2> SUFFICES ASSUME NEW k \in 1..n PROVE P[k] = F[<<P[k - 1], k>>]
    OBVIOUS
  <2>1. k - 1 \in 0..n /\ k \in 0..n
    OBVIOUS
  <2> QED BY <1>1, <1>2, <2>1
<1> HIDE DEF P
<1> QED BY <1>3, <1>4 DEF StepPrefixes, HasPrefixes

(* Sums over the first indices: g is the fold, Q its prefixes.             *)
SumBody(g, base, v, n) ==
  g = [s \in SUBSET (1..n) |-> IF s = {} THEN base ELSE g[s \ {Max(s)}] + v[Max(s)]]
Totals(Q, base, v, n) ==
  Q \in [0..n -> Int] /\ Q[0] = base /\ \A k \in 1..n : Q[k] = Q[k - 1] + v[k]
SumsTo(g, base, v, n) == \E Q : Totals(Q, base, v, n) /\ g[1..n] = Q[n]

LEMMA SumFold ==
  ASSUME NEW n \in Nat, NEW base \in Int, NEW v \in [1..n -> Int]
  PROVE  (\E g : SumBody(g, base, v, n)) /\ \A g : SumBody(g, base, v, n) => SumsTo(g, base, v, n)
<1> DEFINE F == [p \in Int \X (1..n) |-> p[1] + v[p[2]]]
<1>1. F \in [Int \X (1..n) -> Int]
  OBVIOUS
<1>2. \A x \in Int, k \in 1..n : F[<<x, k>>] = x + v[k]
  OBVIOUS
<1> HIDE DEF F
<1>3. PICK g \in [SUBSET (1..n) -> Int] : FoldedIn(g, F, base, Int, n)
  BY <1>1, FoldedStep
<1>4. SumBody(g, base, v, n)
  <2>1. g = [s \in SUBSET (1..n) |-> g[s]]
    OBVIOUS
  <2>2. \A s \in SUBSET (1..n) : g[s] = IF s = {} THEN base ELSE g[s \ {Max(s)}] + v[Max(s)]
    BY <1>2, <1>3 DEF FoldedIn
  <2> QED BY <2>1, <2>2 DEF SumBody
<1>5. ASSUME NEW h, SumBody(h, base, v, n) PROVE SumsTo(h, base, v, n)
  <2>1. \A s \in SUBSET (1..n) : h[s] = IF s = {} THEN base ELSE h[s \ {Max(s)}] + v[Max(s)]
    BY <1>5 DEF SumBody
  <2>2. FoldsFrom(h, F, base, Int, n)
    <3>1. \A s \in SUBSET (1..n) : s # {} => Max(s) \in 1..n
      BY GreatestIn
    <3> QED BY <1>2, <2>1, <3>1 DEF FoldsFrom
  <2>3. HasPrefixes(h, F, base, Int, n)
    BY <1>1, <2>2, FoldPrefix
  <2>4. PICK Q : StepPrefixes(Q, F, base, Int, n) /\ Q[n] = h[1..n]
    BY <2>3 DEF HasPrefixes
  <2>5. Totals(Q, base, v, n)
    <3>1. \A k \in 1..n : k - 1 \in 0..n
      OBVIOUS
    <3> QED BY <1>2, <2>4, <3>1 DEF StepPrefixes, Totals
  <2> QED BY <2>4, <2>5 DEF SumsTo
<1> QED BY <1>4, <1>5

(* A sum is determined by its numbers.                                     *)
LEMMA TotalsAgree ==
  ASSUME NEW n \in Nat, NEW m \in Nat, n <= m, NEW base, NEW v, NEW w, NEW P, NEW Q,
         Totals(P, base, v, n), Totals(Q, base, w, m), \A k \in 1..n : v[k] = w[k]
  PROVE  \A k \in 0..n : P[k] = Q[k]
<1> DEFINE B == {k \in 0..n : P[k] # Q[k]}
<1> SUFFICES ASSUME B # {} PROVE FALSE
  OBVIOUS
<1>1. PICK k \in B : \A j \in Nat : j < k => j \notin B
  <2>1. B \in SUBSET Nat
    OBVIOUS
  <2> HIDE DEF B
  <2> QED BY <2>1, LeastOne
<1>2. k # 0
  BY DEF Totals
<1>3. k \in 1..n /\ k \in 1..m /\ k - 1 \in 0..n /\ k - 1 < k /\ k - 1 \in Nat
  BY <1>2
<1>4. P[k - 1] = Q[k - 1]
  BY <1>1, <1>3
<1> QED BY <1>3, <1>4 DEF Totals

(* A sum that starts elsewhere is moved by as much.                        *)
LEMMA TotalsShift ==
  ASSUME NEW n \in Nat, NEW from \in Int, NEW v \in [1..n -> Int],
         NEW P, NEW Q, Totals(P, 0, v, n), Totals(Q, from, v, n)
  PROVE  P[n] \in Int /\ Q[n] = from + P[n]
<1> DEFINE B == {k \in 0..n : Q[k] # from + P[k]}
<1>0. n \in 0..n
  OBVIOUS
<1> SUFFICES ASSUME B # {} PROVE FALSE
  BY <1>0 DEF Totals
<1>1. PICK k \in B : \A j \in Nat : j < k => j \notin B
  <2>1. B \in SUBSET Nat
    OBVIOUS
  <2> HIDE DEF B
  <2> QED BY <2>1, LeastOne
<1>2. k # 0
  BY DEF Totals
<1>3. k \in 1..n /\ k - 1 \in 0..n /\ k - 1 < k /\ k - 1 \in Nat
  BY <1>2
<1>4. Q[k - 1] = from + P[k - 1] /\ P[k - 1] \in Int /\ v[k] \in Int
  BY <1>1, <1>3 DEF Totals
<1>5. Q[k] = Q[k - 1] + v[k] /\ P[k] = P[k - 1] + v[k]
  BY <1>3 DEF Totals
<1>6. Q[k] # from + P[k]
  OBVIOUS
<1> HIDE DEF B
<1> QED BY <1>4, <1>5, <1>6

(* The greatest of some numbers.                                           *)
LEMMA GreatestOf ==
  ASSUME NEW S, S \subseteq Int, NEW x \in S, \A y \in S : y <= x
  PROVE  Max(S) = x
<1>1. x \in S /\ \A y \in S : x >= y
  OBVIOUS
<1>2. PICK m \in S : m = Max(S) /\ \A y \in S : m >= y
  BY <1>1 DEF Max
<1> QED BY <1>1, <1>2

LEMMA GreaterOf ==
  ASSUME NEW a \in Int, NEW b \in Int
  PROVE  Max({a, b}) = IF a >= b THEN a ELSE b
<1> DEFINE S == {a, b}
           x == IF a >= b THEN a ELSE b
<1>1. S \subseteq Int /\ x \in S /\ \A y \in S : y <= x
  OBVIOUS
<1> HIDE DEF S, x
<1>2. Max(S) = x
  BY <1>1, GreatestOf
<1> QED BY <1>2 DEF S, x

(* The drawdown of a curve C: K is its peak so far, M the largest fall.    *)
Drawdowns(C, K, M, n) ==
  /\ C \in [0..n -> Int] /\ K \in [0..n -> Int] /\ M \in [0..n -> Int]
  /\ K[0] = C[0] /\ M[0] = 0
  /\ \A k \in 1..n : /\ K[k] = IF K[k - 1] >= C[k] THEN K[k - 1] ELSE C[k]
                     /\ M[k] = IF M[k - 1] >= K[k] - C[k] THEN M[k - 1] ELSE K[k] - C[k]
FallsOf(C, n) == {C[p[1]] - C[p[2]] : p \in {q \in (0..n) \X (0..n) : q[1] <= q[2]}}

(* It is the greatest of all falls from one point to a later one.          *)
LEMMA LargestFall ==
  ASSUME NEW n \in Nat, NEW C, NEW K, NEW M, Drawdowns(C, K, M, n)
  PROVE  Max(FallsOf(C, n)) = M[n]
<1> DEFINE Peak(k) == (\A i \in 0..k : C[i] <= K[k]) /\ (\E i \in 0..k : K[k] = C[i])
           Fall(k) == /\ \A i, j \in 0..k : i <= j => C[i] - C[j] <= M[k]
                      /\ \E i, j \in 0..k : i <= j /\ M[k] = C[i] - C[j]
           B == {k \in 0..n : ~(Peak(k) /\ Fall(k))}
<1>1. B = {}
  <2> SUFFICES ASSUME B # {} PROVE FALSE
    OBVIOUS
  <2>1. PICK k \in B : \A j \in Nat : j < k => j \notin B
    <3>1. B \in SUBSET Nat
      OBVIOUS
    <3> HIDE DEF B
    <3> QED BY <3>1, LeastOne
  <2>2. k # 0
    <3> SUFFICES ASSUME k = 0 PROVE FALSE
      OBVIOUS
    <3>1. \A i \in 0..k : i = 0
      OBVIOUS
    <3>2. C[0] \in Int /\ K[0] = C[0] /\ M[0] = 0 /\ 0 \in 0..k
      BY DEF Drawdowns
    <3>3. Peak(k)
      BY <3>1, <3>2
    <3>4. Fall(k)
      BY <3>1, <3>2
    <3> QED BY <3>3, <3>4
  <2>3. k \in 1..n /\ k - 1 \in 0..n /\ k - 1 < k /\ k - 1 \in Nat /\ k \in 0..n
    BY <2>2
  <2>4. Peak(k - 1) /\ Fall(k - 1)
    BY <2>1, <2>3
  <2> DEFINE h == k - 1
  <2>5. /\ \A i \in 0..k : i \in 0..h \/ i = k
        /\ \A i \in 0..h : i \in 0..k /\ i \in 0..n /\ i <= k
        /\ k \in 0..k /\ \A i \in 0..h : ~(k <= i)
    BY <2>3
  <2>6. /\ K[k] = IF K[h] >= C[k] THEN K[h] ELSE C[k]
        /\ M[k] = IF M[h] >= K[k] - C[k] THEN M[h] ELSE K[k] - C[k]
        /\ C[k] \in Int /\ K[k] \in Int /\ M[k] \in Int /\ K[h] \in Int /\ M[h] \in Int
        /\ \A i \in 0..h : C[i] \in Int
    <3>1. k \in 1..n /\ k \in 0..n /\ h \in 0..n /\ h = k - 1 /\ \A i \in 0..h : i \in 0..n
      BY <2>3
    <3> HIDE DEF h, B
    <3> QED BY <3>1 DEF Drawdowns
  <2>7. Peak(h) /\ Fall(h)
    BY <2>4
  <2> HIDE DEF B, h
  <2>8. Peak(k)
    BY <2>5, <2>6, <2>7
  <2>9. Fall(k)
    <3>1. ASSUME NEW i \in 0..k, NEW j \in 0..k, i <= j PROVE C[i] - C[j] <= M[k]
      <4>1. CASE j = k
        <5>1. C[i] <= K[k] /\ C[i] \in Int
          BY <2>5, <2>6, <2>8
        <5> QED BY <2>6, <4>1, <5>1
      <4>2. CASE j # k
        <5>1. i \in 0..h /\ j \in 0..h
          BY <2>5, <3>1, <4>2
        <5>2. C[i] - C[j] <= M[h] /\ C[i] \in Int /\ C[j] \in Int
          BY <2>6, <2>7, <3>1, <5>1
        <5> QED BY <2>6, <5>2
      <4> QED BY <4>1, <4>2
    <3>2. \E i, j \in 0..k : i <= j /\ M[k] = C[i] - C[j]
      <4>1. CASE M[k] = M[h]
        BY <2>5, <2>7, <4>1
      <4>2. CASE M[k] = K[k] - C[k]
        <5>1. PICK i \in 0..k : K[k] = C[i]
          BY <2>8
        <5>2. i <= k
          BY <2>3
        <5> QED BY <2>5, <4>2, <5>1, <5>2
      <4> QED BY <2>6, <4>1, <4>2
    <3> QED BY <3>1, <3>2
  <2> QED BY <2>1, <2>8, <2>9 DEF B
<1>2. Fall(n)
  <2>1. n \in 0..n
    OBVIOUS
  <2> HIDE DEF Fall, Peak
  <2> QED BY <1>1, <2>1
<1> DEFINE S == FallsOf(C, n)
<1>3. S \subseteq Int
  BY DEF FallsOf, Drawdowns
<1>4. M[n] \in S
  <2>1. PICK i, j \in 0..n : i <= j /\ M[n] = C[i] - C[j]
    BY <1>2
  <2>2. <<i, j>> \in {q \in (0..n) \X (0..n) : q[1] <= q[2]}
    BY <2>1
  <2> QED BY <2>1, <2>2 DEF FallsOf
<1>5. \A y \in S : y <= M[n]
  <2> SUFFICES ASSUME NEW y \in S PROVE y <= M[n]
    OBVIOUS
  <2>1. PICK p \in (0..n) \X (0..n) : p[1] <= p[2] /\ y = C[p[1]] - C[p[2]]
    BY DEF FallsOf
  <2>2. p[1] \in 0..n /\ p[2] \in 0..n
    OBVIOUS
  <2> QED BY <1>2, <2>1, <2>2
<1> HIDE DEF S, Fall
<1> QED BY <1>3, <1>4, <1>5, GreatestOf DEF S

-----------------------------------------------------------------------------
(* Quotients and remainders.                                               *)

(* Integer division, as the fee jobs use it on the clock.                  *)
LEMMA DivBounds ==
  ASSUME NEW n \in Nat, NEW m \in Nat \ {0}
  PROVE  n \div m \in Nat /\ (n \div m) * m <= n /\ n < (n \div m + 1) * m
  BY Z3

(* Multiplication with a positive number keeps the order.                  *)
LEMMA TimesMonotonic ==
  ASSUME NEW a \in Int, NEW b \in Int, NEW m \in Nat \ {0}
  PROVE  a <= b <=> a * m <= b * m
  BY Z3

(* A number without remainder is a multiple.                               *)
LEMMA WholeMultiple ==
  ASSUME NEW a \in Nat, NEW m \in Nat \ {0}, a % m = 0
  PROVE  (a \div m) * m = a
  BY Z3

(* The quotient is the number between these bounds.                        *)
LEMMA DivIs ==
  ASSUME NEW a \in Nat, NEW m \in Nat \ {0}, NEW p \in Nat, p * m <= a, a < (p + 1) * m
  PROVE  a \div m = p
<1> DEFINE q == a \div m
<1>1. q \in Nat /\ q * m <= a /\ a < (q + 1) * m
  BY DivBounds
<1> HIDE DEF q
<1>2. \A x, y \in Nat : x * m <= a /\ a < (y + 1) * m => x <= y
  <2> SUFFICES ASSUME NEW x \in Nat, NEW y \in Nat, x * m <= a, a < (y + 1) * m, ~(x <= y)
               PROVE  FALSE
    OBVIOUS
  <2>1. (y + 1) * m <= x * m
    <3>1. y + 1 <= x /\ y + 1 \in Int /\ x \in Int
      OBVIOUS
    <3> QED BY <3>1, TimesMonotonic
  <2>2. (y + 1) * m \in Int /\ x * m \in Int
    OBVIOUS
  <2> QED BY <2>1, <2>2
<1>3. p <= q /\ q <= p
  BY <1>1, <1>2
<1> QED BY <1>1, <1>3 DEF q

(* To divide by a product is to divide by one factor and by the other.     *)
LEMMA DivTwice ==
  ASSUME NEW a \in Nat, NEW c \in Nat \ {0}, NEW w \in Nat \ {0}
  PROVE  a \div (c * w) = (a \div w) \div c
<1> DEFINE q == a \div w
           p == q \div c
<1>1. q \in Nat /\ q * w <= a /\ a < (q + 1) * w
  BY DivBounds
<1> HIDE DEF q
<1>2. p \in Nat /\ p * c <= q /\ q < (p + 1) * c
  BY <1>1, DivBounds
<1> HIDE DEF p
<1>3. c * w \in Nat \ {0} /\ p * c \in Nat /\ (p + 1) * c \in Nat /\ q + 1 \in Nat
  BY <1>1, <1>2
<1>4. p * (c * w) = (p * c) * w /\ (p + 1) * (c * w) = ((p + 1) * c) * w
  BY <1>2, Z3
<1>5. (p * c) * w <= q * w
  BY <1>1, <1>2, <1>3, TimesMonotonic
<1>6. (q + 1) * w <= ((p + 1) * c) * w
  <2>1. q + 1 <= (p + 1) * c
    BY <1>1, <1>2, <1>3
  <2> QED BY <1>3, <2>1, TimesMonotonic
<1> DEFINE m == c * w
           x == p * m
           y == (p + 1) * m
<1>7. x \in Nat /\ y \in Nat /\ q * w \in Nat /\ (q + 1) * w \in Nat
  BY <1>1, <1>2, <1>3
<1>8. x <= q * w /\ (q + 1) * w <= y
  BY <1>4, <1>5, <1>6
<1>9. x <= a /\ a < y
  <2> HIDE DEF x, y
  <2> QED BY <1>1, <1>7, <1>8
<1> HIDE DEF m
<1>10. a \div m = p
  BY <1>2, <1>3, <1>9, DivIs DEF m
<1> QED BY <1>10 DEF m, p, q

LEMMA DivMod ==
  ASSUME NEW a \in Int, NEW m \in Int, m > 0
  PROVE  a = (a \div m) * m + (a % m)
  BY Z3

LEMMA ModIn ==
  ASSUME NEW a \in Nat, NEW m \in Nat \ {0}
  PROVE  a % m \in Nat
  BY Z3

(* The last digit is taken off.                                            *)
LEMMA DigitOf ==
  ASSUME NEW p \in Nat, NEW m \in Nat \ {0}, NEW d \in 0..(m - 1)
  PROVE  (p * m + d) \div m = p /\ (p * m + d) % m = d
<1> DEFINE a == p * m + d
           x == p * m
<1>1. x \in Nat /\ (p + 1) * m = x + m /\ a \in Nat /\ a = x + d
  BY Z3
<1> HIDE DEF a
<1>2. x <= a /\ a < (p + 1) * m
  <2> HIDE DEF x
  <2> QED BY <1>1
<1>3. a \div m = p
  BY <1>1, <1>2, DivIs
<1>4. a = p * m + (a % m) /\ a % m \in Nat
  <2>1. a \in Int /\ m \in Int /\ m > 0
    BY <1>1
  <2>2. a = (a \div m) * m + (a % m)
    BY <2>1, DivMod
  <2> QED BY <1>1, <1>3, <2>2, ModIn
<1>5. a % m = d
  <2> HIDE DEF x
  <2>1. a = x + (a % m)
    BY <1>4 DEF x
  <2> QED BY <1>1, <1>4, <2>1
<1> QED BY <1>3, <1>5 DEF a

-----------------------------------------------------------------------------
(* Counts and sums of the entries 1 to n.                                  *)

(* x is the sum of v[1] to v[n].                                           *)
AddsUpTo(x, v, n) == \E Q : Totals(Q, 0, v, n) /\ x = Q[n]

LEMMA AddsUpToSame ==
  ASSUME NEW n \in Nat, NEW v, NEW x, NEW y, AddsUpTo(x, v, n), AddsUpTo(y, v, n)
  PROVE  x = y
<1>1. PICK P : Totals(P, 0, v, n) /\ x = P[n]
  BY DEF AddsUpTo
<1>2. PICK Q : Totals(Q, 0, v, n) /\ y = Q[n]
  BY DEF AddsUpTo
<1>3. P[n] = Q[n]
  BY <1>1, <1>2, TotalsAgree
<1> QED BY <1>1, <1>2, <1>3

(* One summand is increased.                                               *)
Bumped(v, w, n, d) ==
  /\ v \in [1..n -> Int] /\ w \in [1..n -> Int]
  /\ \E j \in 1..n : w[j] = v[j] + d /\ \A i \in 1..n : i # j => w[i] = v[i]

LEMMA NextSum ==
  ASSUME NEW a \in Int, NEW b \in Int, NEW d \in Int
  PROVE  a + b = (a + b) + 0 /\ (a + d) + b = (a + b) + d /\ a + (b + d) = (a + b) + d
OBVIOUS

LEMMA SumBump ==
  ASSUME NEW n \in Nat, NEW v, NEW w, NEW d \in Int, Bumped(v, w, n, d),
         NEW x, NEW y, AddsUpTo(x, v, n), AddsUpTo(y, w, n)
  PROVE  x \in Int /\ y = x + d
<1>0. PICK j \in 1..n : w[j] = v[j] + d /\ \A i \in 1..n : i # j => w[i] = v[i]
  BY DEF Bumped
<1>. v \in [1..n -> Int] /\ w \in [1..n -> Int]
  BY DEF Bumped
<1>1. PICK P : Totals(P, 0, v, n) /\ x = P[n]
  BY DEF AddsUpTo
<1>2. PICK Q : Totals(Q, 0, w, n) /\ y = Q[n]
  BY DEF AddsUpTo
<1>3. /\ \A k \in 0..n : P[k] \in Int /\ Q[k] \in Int
      /\ P[0] = 0 /\ Q[0] = 0
      /\ \A k \in 1..n : P[k] = P[k - 1] + v[k] /\ Q[k] = Q[k - 1] + w[k]
  BY <1>1, <1>2 DEF Totals
<1> DEFINE B == {k \in 0..n : Q[k] # P[k] + (IF j <= k THEN d ELSE 0)}
<1>4. B = {}
  <2> SUFFICES ASSUME B # {} PROVE FALSE
    OBVIOUS
  <2>1. PICK k \in B : \A i \in Nat : i < k => i \notin B
    <3>1. B \in SUBSET Nat
      OBVIOUS
    <3> HIDE DEF B
    <3> QED BY <3>1, LeastOne
  <2>2. k # 0
    BY <1>3
  <2>3. k \in 1..n /\ k - 1 \in 0..n /\ k - 1 \in Nat /\ k - 1 < k
    BY <2>2
  <2>4. Q[k - 1] = P[k - 1] + (IF j <= k - 1 THEN d ELSE 0)
    BY <2>1, <2>3
  <2>5. P[k] = P[k - 1] + v[k] /\ Q[k] = Q[k - 1] + w[k] /\ P[k - 1] \in Int /\ v[k] \in Int
    BY <1>3, <2>3
  <2>6. Q[k] = P[k] + (IF j <= k THEN d ELSE 0)
    <3> DEFINE a == P[k - 1]
               b == v[k]
    <3>0. a \in Int /\ b \in Int /\ P[k] = a + b /\ Q[k] = Q[k - 1] + w[k]
      BY <2>5
    <3> HIDE DEF a, b
    <3>1. CASE k < j
      <4>1. w[k] = b /\ Q[k - 1] = a
        BY <1>0, <2>3, <2>4, <2>5, <3>1 DEF a, b
      <4>2. Q[k] = P[k] + 0
        BY <3>0, <4>1, NextSum
      <4> QED BY <3>1, <4>2
    <3>2. CASE k = j
      <4>1. w[k] = b + d /\ Q[k - 1] = a
        BY <1>0, <2>3, <2>4, <2>5, <3>2 DEF a, b
      <4>2. Q[k] = P[k] + d
        BY <3>0, <4>1, NextSum
      <4> QED BY <3>2, <4>2
    <3>3. CASE j < k
      <4>1. w[k] = b /\ Q[k - 1] = a + d
        <5>1. j <= k - 1 /\ j # k
          BY <2>3, <3>3
        <5> QED BY <1>0, <2>3, <2>4, <5>1 DEF a, b
      <4>2. Q[k] = P[k] + d
        BY <3>0, <4>1, NextSum
      <4> QED BY <3>3, <4>2
    <3> QED BY <2>3, <3>1, <3>2, <3>3
  <2> QED BY <2>6
<1>5. n \in 0..n /\ j <= n /\ n \notin B
  BY <1>4
<1> QED BY <1>1, <1>2, <1>3, <1>5

(* Parts without common members are counted one after another.             *)
CountsParts(x, S, m, n) == x = Cardinality({t \in 1..n : \E i \in 1..m : t \in S[i]})

LEMMA PartsCounted ==
  ASSUME NEW m \in Nat, NEW n \in Nat, NEW S, \A i \in 1..m : S[i] \subseteq 1..n,
         \A i, j \in 1..m : i < j => S[i] \cap S[j] = {},
         NEW v, \A i \in 1..m : v[i] = Cardinality(S[i]), NEW Q, Totals(Q, 0, v, m)
  PROVE  CountsParts(Q[m], S, m, n)
<1> DEFINE U(k) == {t \in 1..n : \E i \in 1..k : t \in S[i]}
           B == {k \in 0..m : Q[k] # Cardinality(U(k))}
<1>1. \A X : X \subseteq 1..n => IsFiniteSet(X)
  <2>1. IsFiniteSet(1..n)
    <3>1. 1 \in Int /\ n \in Int
      OBVIOUS
    <3> QED BY <3>1, FS_Interval, Zenon
  <2> QED BY <2>1, FS_Subset
<1>2. SUFFICES B = {}
  <2> HIDE DEF B, U
  <2>1. m \in 0..m /\ m \notin B
    BY <1>2
  <2>2. Q[m] = Cardinality(U(m))
    BY <2>1 DEF B
  <2> QED BY <2>2 DEF U, CountsParts
<1>3. SUFFICES ASSUME B # {} PROVE FALSE
  OBVIOUS
<1>4. PICK k \in B : \A j \in Nat : j < k => j \notin B
  <2>1. B \in SUBSET Nat
    OBVIOUS
  <2> HIDE DEF B
  <2> QED BY <1>3, <2>1, LeastOne
<1>5. k # 0
  <2>1. U(0) = {} /\ Q[0] = 0
    BY DEF Totals
  <2> HIDE DEF U
  <2>2. Cardinality(U(0)) = 0
    BY <2>1, FS_EmptySet
  <2> QED BY <2>1, <2>2
<1>6. k \in 1..m /\ k - 1 \in 0..m /\ k - 1 \in Nat /\ k - 1 < k /\ 1..(k - 1) \subseteq 1..k
      /\ \A i \in 1..k : i \in 1..(k - 1) \/ i = k
  BY <1>5
<1>7. Q[k - 1] = Cardinality(U(k - 1)) /\ Q[k] = Q[k - 1] + v[k] /\ Q[k] # Cardinality(U(k))
  BY <1>4, <1>6 DEF Totals
<1>8. U(k) = U(k - 1) \cup S[k] /\ S[k] \subseteq 1..n /\ U(k - 1) \subseteq 1..n
  BY <1>6
<1>9. U(k - 1) \cap S[k] = {}
  <2>1. \A i \in 1..(k - 1) : i \in 1..m /\ i < k
    BY <1>6
  <2>2. \A i \in 1..(k - 1) : S[i] \cap S[k] = {}
    BY <1>6, <2>1
  <2> QED BY <2>2
<1> DEFINE X == U(k - 1)
           Y == S[k]
<1>10. IsFiniteSet(X) /\ IsFiniteSet(Y) /\ X \cap Y = {} /\ U(k) = X \cup Y
  BY <1>1, <1>8, <1>9
<1>11. v[k] = Cardinality(Y) /\ Q[k] = Cardinality(X) + Cardinality(Y) /\ Q[k] # Cardinality(U(k))
  BY <1>6, <1>7
<1> HIDE DEF X, Y, U
<1>12. Cardinality(X \cup Y) = Cardinality(X) + Cardinality(Y) - Cardinality(X \cap Y)
       /\ Cardinality(X) \in Nat /\ Cardinality(Y) \in Nat
  BY <1>10, FS_Union, FS_CardinalityType
<1>13. Cardinality(X \cap Y) = 0
  BY <1>10, FS_EmptySet
<1> QED BY <1>10, <1>11, <1>12, <1>13

-----------------------------------------------------------------------------
(* Swings of a series of numbers, by at least theta.                       *)

(* The closes as they are seen from a low, or from a high.                 *)
Facing(c, kind) == [t \in DOMAIN c |-> IF kind = "low" THEN c[t] ELSE 0 - c[t]]

(* A rise of at least theta from a to its extreme b, with no counter-move. *)
Swing(w, theta, a, b) ==
  /\ a < b /\ w[b] - w[a] >= theta
  /\ \A t \in a .. b - 1 : w[t] < w[b]
  /\ \A t \in a + 1 .. b : w[t] >= w[a]
  /\ \A s, t \in a .. b : s < t => w[s] - w[t] < theta

(* From the extreme p on the closes before t have not turned.              *)
Trailing(w, theta, p, t) == p < t /\ \A s \in p .. t - 1 : w[s] <= w[p] /\ w[p] - w[s] < theta

(* The next extreme of a wave.                                             *)
LEMMA SwingExtends ==
  ASSUME NEW n \in Nat, NEW w \in [1..n -> Int], NEW theta \in Nat \ {0},
         NEW a \in 1..n, NEW p \in 1..n, NEW t \in 1..n, p < t,
         Swing(w, theta, a, p), Trailing(w, theta, p, t), w[t] > w[p]
  PROVE  Swing(w, theta, a, t) /\ Trailing(w, theta, t, t + 1)
<1>1. a < p /\ w[a] \in Int /\ w[p] \in Int /\ w[t] \in Int /\ a \in Nat /\ p \in Nat /\ t \in Nat
  BY DEF Swing
<1>2. \A s \in a .. t : s \in Int /\ w[s] \in Int /\ (s \in a..p \/ s \in p .. t - 1 \/ s = t)
  BY <1>1
<1>3. \A s \in a .. p : w[s] <= w[p] /\ w[a] <= w[s]
  <2> TAKE s \in a .. p
  <2>1. s \in a .. p - 1 \/ s = p
    BY <1>1
  <2>2. s \in a + 1 .. p \/ s = a
    BY <1>1
  <2>3. w[s] \in Int
    BY <1>1, <1>2
  <2> QED BY <1>1, <2>1, <2>2, <2>3 DEF Swing
<1>4. \A s \in p .. t - 1 : w[s] <= w[p] /\ w[p] - w[s] < theta /\ w[a] <= w[s]
  <2>1. w[p] - w[a] >= theta
    BY DEF Swing
  <2> QED BY <1>1, <1>2, <2>1 DEF Trailing
<1>5. \A s \in a .. t - 1 : w[s] < w[t]
  <2> TAKE s \in a .. t - 1
  <2>1. w[s] <= w[p]
    BY <1>1, <1>2, <1>3, <1>4
  <2>2. s \in a .. t
    BY <1>1
  <2> QED BY <1>1, <1>2, <2>1, <2>2
<1>6. \A s \in a + 1 .. t : w[s] >= w[a]
  <2> TAKE s \in a + 1 .. t
  <2>1. s \in a .. t
    BY <1>1
  <2> QED BY <1>1, <1>2, <1>3, <1>4, <2>1
<1>7. \A s, u \in a .. t : s < u => w[s] - w[u] < theta
  <2> TAKE s, u \in a .. t
  <2> HAVE s < u
  <2>1. w[s] \in Int /\ w[u] \in Int
    BY <1>2
  <2>2. CASE u = t
    <3>1. s \in a .. t - 1
      BY <1>1, <2>2
    <3> QED BY <1>5, <2>1, <2>2, <3>1
  <2>3. CASE u \in a .. p
    <3>1. s \in a .. p
      BY <1>1, <2>3
    <3> QED BY <2>3, <3>1 DEF Swing
  <2>4. CASE u \in p .. t - 1
    <3>1. w[s] <= w[p]
      <4>1. s \in a .. p \/ s \in p .. t - 1
        BY <1>1, <2>4
      <4> QED BY <1>3, <1>4, <4>1
    <3>2. w[p] - w[u] < theta
      BY <1>4, <2>4
    <3> QED BY <1>1, <2>1, <3>1, <3>2
  <2> QED BY <1>2, <2>2, <2>3, <2>4
<1>8. a < t /\ w[t] - w[a] >= theta
  BY <1>1 DEF Swing
<1>9. Trailing(w, theta, t, t + 1)
  BY <1>1 DEF Trailing
<1> QED BY <1>5, <1>6, <1>7, <1>8, <1>9 DEF Swing

Mirrored(w, m, n) == \A s \in 1..n : m[s] = 0 - w[s]

LEMMA RiseMirrored ==
  ASSUME NEW x \in Int, NEW y \in Int, x <= y
  PROVE  0 - x >= 0 - y
OBVIOUS

LEMMA DropMirrored ==
  ASSUME NEW x \in Int, NEW y \in Int, NEW z \in Int, NEW d \in Int, y - z < d, y - x >= d
  PROVE  0 - z < 0 - x
OBVIOUS

LEMMA FallMirrored ==
  ASSUME NEW x \in Int, NEW y \in Int, NEW z \in Int, NEW d \in Int, x <= y, y - z < d
  PROVE  (0 - z) - (0 - x) < d
OBVIOUS

LEMMA HigherRise ==
  ASSUME NEW x \in Int, NEW y \in Int, NEW z \in Int, NEW d \in Int, y - z < d, x - z >= d
  PROVE  y < x
OBVIOUS

LEMMA WithinRange ==
  ASSUME NEW x \in Int, NEW y \in Int, NEW h \in Int, NEW l \in Int, NEW d \in Int,
         x <= h, l <= y, h - l < d
  PROVE  x - y < d
OBVIOUS

(* A wave that has turned is a swing of the mirrored closes.               *)
LEMMA SwingTurns ==
  ASSUME NEW n \in Nat, NEW w \in [1..n -> Int], NEW m \in [1..n -> Int], NEW theta \in Nat \ {0},
         Mirrored(w, m, n),
         NEW p \in 1..n, NEW t \in 1..n, p < t,
         Trailing(w, theta, p, t), w[p] - w[t] >= theta
  PROVE  Swing(m, theta, p, t) /\ Trailing(m, theta, t, t + 1)
<1>1. \A s \in p .. t : s \in 1..n /\ w[s] \in Int /\ m[s] \in Int /\ m[s] = 0 - w[s] /\ (s \in p .. t - 1 \/ s = t)
  <2> TAKE s \in p .. t
  <2>1. s \in 1..n /\ (s \in p .. t - 1 \/ s = t)
    OBVIOUS
  <2> QED BY <2>1 DEF Mirrored
<1>2. \A s \in p .. t - 1 : w[s] <= w[p] /\ w[p] - w[s] < theta
  BY DEF Trailing
<1>3. /\ p \in p .. t /\ t \in p .. t /\ p .. t - 1 \subseteq p .. t /\ p + 1 .. t \subseteq p .. t
      /\ p \in Nat /\ t \in Nat
  OBVIOUS
<1>4. w[p] \in Int /\ w[t] \in Int /\ m[p] = 0 - w[p] /\ m[t] = 0 - w[t]
  BY <1>1, <1>3
<1>5. \A s \in p .. t : w[s] <= w[p] /\ m[s] >= m[p]
  <2> TAKE s \in p .. t
  <2>1. w[s] \in Int /\ m[s] = 0 - w[s]
    BY <1>1
  <2>2. CASE s = t
    <3>1. theta \in Int /\ 0 < theta /\ w[p] - w[t] >= theta
      OBVIOUS
    <3>2. w[t] <= w[p]
      BY <1>4, <3>1
    <3> QED BY <1>4, <2>2, <3>2, RiseMirrored
  <2>3. CASE s \in p .. t - 1
    <3>1. w[s] <= w[p]
      BY <1>2, <2>3
    <3>2. 0 - w[s] >= 0 - w[p]
      BY <1>4, <2>1, <3>1, RiseMirrored
    <3> QED BY <1>4, <2>1, <3>1, <3>2, Zenon
  <2> QED BY <1>1, <2>2, <2>3
<1>6. \A s \in p .. t - 1 : m[s] < m[t]
  <2> TAKE s \in p .. t - 1
  <2>1. w[s] \in Int /\ m[s] = 0 - w[s]
    BY <1>1, <1>3
  <2>2. w[p] - w[s] < theta
    BY <1>2
  <2>3. w[p] - w[t] >= theta /\ theta \in Int
    OBVIOUS
  <2>4. 0 - w[s] < 0 - w[t]
    BY <1>4, <2>1, <2>2, <2>3, DropMirrored
  <2> QED BY <1>4, <2>1, <2>4, Zenon
<1>7. \A s, u \in p .. t : s < u => m[s] - m[u] < theta
  <2> TAKE s, u \in p .. t
  <2> HAVE s < u
  <2>1. s \in p .. t - 1
    BY <1>3
  <2>2. w[u] <= w[p] /\ w[u] \in Int /\ w[s] \in Int /\ m[s] = 0 - w[s] /\ m[u] = 0 - w[u]
    BY <1>1, <1>5
  <2>3. w[p] - w[s] < theta /\ theta \in Int
    BY <1>2, <2>1
  <2>4. (0 - w[s]) - (0 - w[u]) < theta
    BY <1>4, <2>2, <2>3, FallMirrored
  <2> QED BY <2>2, <2>4, Zenon
<1>8. Trailing(m, theta, t, t + 1)
  <2>1. t < t + 1 /\ (\A s \in t .. (t + 1) - 1 : s = t) /\ theta \in Int /\ 0 < theta
    OBVIOUS
  <2>2. m[t] \in Int
    BY <1>1, <1>3
  <2>3. m[t] <= m[t] /\ m[t] - m[t] < theta
    BY <2>1, <2>2
  <2> QED BY <2>1, <2>3 DEF Trailing
<1>9. m[t] - m[p] >= theta
  BY <1>4
<1>10. \A s \in p + 1 .. t : m[s] >= m[p]
  BY <1>3, <1>5
<1> QED BY <1>3, <1>6, <1>7, <1>8, <1>9, <1>10 DEF Swing

(* A first move of theta, from the lowest close so far.                    *)
LEMMA FirstSwing ==
  ASSUME NEW n \in Nat, NEW w \in [1..n -> Int], NEW theta \in Nat \ {0},
         NEW a \in 1..n, NEW t \in 1..n, a < t, w[t] - w[a] >= theta,
         \A x, y \in 1..t - 1 : w[x] - w[y] < theta, \A x \in 1..t : w[a] <= w[x]
  PROVE  Swing(w, theta, a, t) /\ Trailing(w, theta, t, t + 1)
<1>1. \A s \in a .. t : s \in 1..t /\ w[s] \in Int /\ (s \in 1 .. t - 1 \/ s = t)
  OBVIOUS
<1>2. w[a] \in Int /\ w[t] \in Int
  OBVIOUS
<1>3. \A s \in a .. t - 1 : w[s] < w[t]
  <2> TAKE s \in a .. t - 1
  <2>1. s \in 1 .. t - 1 /\ a \in 1 .. t - 1 /\ s \in a .. t
    OBVIOUS
  <2>2. w[s] - w[a] < theta /\ w[s] \in Int
    BY <1>1, <2>1
  <2>3. w[t] - w[a] >= theta /\ theta \in Int
    OBVIOUS
  <2> QED BY <1>2, <2>2, <2>3, HigherRise
<1>4. \A s, u \in a .. t : s < u => w[s] - w[u] < theta
  <2> TAKE s, u \in a .. t
  <2> HAVE s < u
  <2>1. s \in 1 .. t - 1 /\ s \in a .. t - 1
    OBVIOUS
  <2>2. u \in 1 .. t - 1 \/ u = t
    BY <1>1
  <2>3. w[s] \in Int /\ w[u] \in Int /\ theta \in Int
    BY <1>1
  <2>4. CASE u \in 1 .. t - 1
    BY <2>1, <2>4
  <2>5. CASE u = t
    <3>1. w[s] < w[t]
      BY <1>3, <2>1
    <3>2. \A v, x \in Int : v < x => v - x < theta
      OBVIOUS
    <3> QED BY <1>2, <2>3, <2>5, <3>1, <3>2
  <2> QED BY <2>2, <2>4, <2>5
<1>5. Trailing(w, theta, t, t + 1)
  BY <1>2 DEF Trailing
<1>6. \A s \in a + 1 .. t : w[s] >= w[a]
  BY <1>1, <1>2
<1> QED BY <1>3, <1>4, <1>5, <1>6 DEF Swing

(* The closes seen from the other side.                                    *)
LEMMA FacingIs ==
  ASSUME NEW n \in Nat, NEW c \in [1..n -> Int]
  PROVE  /\ Facing(c, "low") = c /\ Facing(c, "high") \in [1..n -> Int]
         /\ \A t \in 1..n : Facing(c, "high")[t] = 0 - c[t]
         /\ Mirrored(c, Facing(c, "high"), n) /\ Mirrored(Facing(c, "high"), c, n)
<1>1. \A t \in 1..n : c[t] \in Int /\ 0 - c[t] \in Int /\ 0 - (0 - c[t]) = c[t]
  OBVIOUS
<1>2. Facing(c, "low") = c
  BY DEF Facing
<1>3. Facing(c, "high") = [t \in 1..n |-> 0 - c[t]]
  BY DEF Facing
<1> QED BY <1>1, <1>2, <1>3 DEF Mirrored

-----------------------------------------------------------------------------
(* The windows, ranks and lists of the series of a run (SimSeries).        *)

(* The last p of the first i summands, which start after the d-th; and a   *)
(* sum that takes in the newest summand and lets go of the oldest one.     *)
WindowOf(i, p, d) == {j \in (d + 1) .. (i + d) : j + p > i + d}
Rolls(R, v, p, d, n) ==
  /\ R[0] = 0 /\ \A j \in (d + 1) .. (n + d) : v[j] \in Int
  /\ \A i \in 1..n : R[i] = R[i - 1] + v[i + d] - (IF i > p THEN v[i + d - p] ELSE 0)

(* Such a number is the sum of its window.                                 *)
LEMMA RollingSum ==
  ASSUME NEW n \in Nat, NEW d \in Nat, NEW p \in Nat \ {0}, NEW v, NEW R,
         Rolls(R, v, p, d, n)
  PROVE  \A i \in 0..n : R[i] = SumOf(v, WindowOf(i, p, d))
<1> DEFINE B == {i \in 0..n : R[i] # SumOf(v, WindowOf(i, p, d))}
<1> SUFFICES ASSUME B # {} PROVE FALSE
  OBVIOUS
<1>1. PICK i \in B : \A j \in Nat : j < i => j \notin B
  <2>1. B \in SUBSET Nat
    OBVIOUS
  <2> HIDE DEF B
  <2> QED BY <2>1, LeastOne
<1>2. i # 0
  <2>1. WindowOf(0, p, d) = {}
    BY DEF WindowOf
  <2> QED BY <2>1, SumEmpty DEF Rolls
<1>3. i \in 1..n /\ i - 1 \in 0..n /\ i - 1 \in Nat /\ i - 1 < i
  BY <1>2
<1>4. R[i - 1] = SumOf(v, WindowOf(i - 1, p, d))
  BY <1>1, <1>3
<1> DEFINE W == WindowOf(i, p, d)
           V == WindowOf(i - 1, p, d)
           x == i + d
           y == i + d - p
           S == W \ {x}
<1>5. IsFiniteSet(W) /\ IsFiniteSet(V)
  <2>1. IsFiniteSet((d + 1) .. (n + d))
    <3>1. d + 1 \in Int /\ n + d \in Int
      OBVIOUS
    <3> QED BY <3>1, FS_Interval
  <2>2. W \subseteq (d + 1) .. (n + d) /\ V \subseteq (d + 1) .. (n + d)
    BY <1>3 DEF WindowOf
  <2> QED BY <2>1, <2>2, FS_Subset
<1>6. (\A j \in W : v[j] \in Int) /\ \A j \in V : v[j] \in Int
  <2>1. W \subseteq (d + 1) .. (n + d) /\ V \subseteq (d + 1) .. (n + d)
    BY <1>3 DEF WindowOf
  <2> HIDE DEF W, V
  <2> QED BY <2>1 DEF Rolls
<1>7. x \in W /\ (y \in V <=> i > p) /\ S = V \ {y}
  <2>1. x \in W
    BY <1>3 DEF WindowOf
  <2>2. y \in V <=> i > p
    BY <1>3 DEF WindowOf
  <2>3. S = V \ {y}
    BY <1>3 DEF WindowOf
  <2> QED BY <2>1, <2>2, <2>3
<1>8. R[i] = R[i - 1] + v[x] - (IF i > p THEN v[y] ELSE 0)
  BY <1>3 DEF Rolls
<1> HIDE DEF W, V, x, y, S
<1>9. SumOf(v, W) = v[x] + SumOf(v, S) /\ SumOf(v, S) \in Int /\ v[x] \in Int
  BY <1>5, <1>6, <1>7, SumRemove DEF S
<1>10. SumOf(v, V) = (IF i > p THEN v[y] ELSE 0) + SumOf(v, S) /\ (i > p => v[y] \in Int)
  <2>1. CASE i > p
    BY <1>5, <1>6, <1>7, <2>1, SumRemove
  <2>2. CASE ~(i > p)
    <3>1. V = S
      BY <1>7, <2>2
    <3> QED BY <1>9, <2>2, <3>1
  <2> QED BY <2>1, <2>2
<1>11. R[i] = SumOf(v, W)
  BY <1>4, <1>8, <1>9, <1>10 DEF V
<1> QED BY <1>11 DEF W

(* A list to which one element after the other is appended.                *)
Appends(P, X, d, x, n) ==
  /\ P[0] \in Seq(X) /\ Len(P[0]) = d /\ x \in [1..n -> X]
  /\ \A k \in 1..n : P[k] = Append(P[k - 1], x[k])

(* The list new goes on, after the d elements of list, with those of x.    *)
GoesOn(list, new, d, x, n) == (\A j \in 1..d : new[j] = list[j]) /\ \A j \in 1..n : new[j + d] = x[j]

(* After n steps the list goes on with the n elements.                     *)
LEMMA AppendedAll ==
  ASSUME NEW X, NEW n \in Nat, NEW d \in Nat, NEW x, NEW P, Appends(P, X, d, x, n)
  PROVE  GoesOn(P[0], P[n], d, x, n)
<1> USE DEF Appends
<1> DEFINE Ok(k) == /\ P[k] \in Seq(X) /\ Len(P[k]) = k + d
                    /\ \A j \in 1..d : P[k][j] = P[0][j]
                    /\ \A j \in 1..k : P[k][j + d] = x[j]
           B == {k \in 0..n : ~Ok(k)}
<1> SUFFICES \A k \in 0..n : Ok(k)
  <2>1. n \in 0..n
    OBVIOUS
  <2> QED BY <2>1 DEF GoesOn
<1> SUFFICES ASSUME B # {} PROVE FALSE
  OBVIOUS
<1>1. PICK k \in B : \A j \in Nat : j < k => j \notin B
  <2>1. B \in SUBSET Nat
    OBVIOUS
  <2> HIDE DEF B
  <2> QED BY <2>1, LeastOne
<1>2. k # 0
  OBVIOUS
<1>3. k \in 1..n /\ k - 1 \in 0..n /\ k - 1 \in Nat /\ k - 1 < k
  BY <1>2
<1>4. Ok(k - 1)
  BY <1>1, <1>3
<1> DEFINE s == P[k - 1]
<1>5. s \in Seq(X) /\ x[k] \in X /\ P[k] = Append(s, x[k]) /\ Len(s) = (k - 1) + d
  BY <1>3, <1>4
<1>6. /\ P[k] \in Seq(X) /\ Len(P[k]) = Len(s) + 1 /\ P[k][Len(s) + 1] = x[k]
      /\ \A i \in 1..Len(s) : P[k][i] = s[i]
  <2> DEFINE a == x[k]
  <2>1. s \in Seq(X) /\ a \in X /\ P[k] = Append(s, a)
    BY <1>5
  <2> HIDE DEF s, a
  <2>2. /\ Append(s, a) \in Seq(X) /\ Len(Append(s, a)) = Len(s) + 1 /\ Append(s, a)[Len(s) + 1] = a
        /\ \A i \in 1..Len(s) : Append(s, a)[i] = s[i]
    BY <2>1, AppendProperties
  <2> QED BY <2>1, <2>2 DEF a
<1>7. Len(P[k]) = k + d /\ P[k][k + d] = x[k] /\ \A i \in 1..((k - 1) + d) : P[k][i] = s[i]
  <2>1. Len(s) + 1 = k + d
    BY <1>3, <1>5
  <2> QED BY <1>5, <1>6, <2>1
<1>8. ASSUME NEW j \in 1..d PROVE P[k][j] = P[0][j]
  <2>1. j \in 1..((k - 1) + d)
    BY <1>3
  <2> QED BY <1>4, <1>7, <2>1
<1>9. ASSUME NEW j \in 1..k PROVE P[k][j + d] = x[j]
  <2>1. CASE j = k
    BY <1>7, <2>1
  <2>2. CASE j # k
    <3>1. j \in 1..(k - 1) /\ j + d \in 1..((k - 1) + d)
      BY <1>3, <2>2
    <3> QED BY <1>4, <1>7, <3>1
  <2> QED BY <2>1, <2>2
<1> QED BY <1>6, <1>7, <1>8, <1>9

(* The least element of a set of numbers.                                  *)
LEMMA LeastOf ==
  ASSUME NEW S, S \subseteq Int, NEW x \in S, \A y \in S : x <= y
  PROVE  Min(S) = x
<1>1. x \in S /\ \A y \in S : x =< y
  OBVIOUS
<1>2. PICK m \in S : m = Min(S) /\ \A y \in S : m =< y
  BY <1>1 DEF Min
<1> QED BY <1>1, <1>2

(* Of increasing numbers, those up to a bound come first.                  *)
Increasing(e, n) == (\A i \in 1..n : e[i] \in Int) /\ \A i, j \in 1..n : i < j => e[i] < e[j]
UpTo(e, n, x) == {i \in 1..n : e[i] <= x}

(* Of increasing numbers, those up to x are the first ones.                *)
LEMMA FirstOnes ==
  ASSUME NEW n \in Nat, NEW e, Increasing(e, n), NEW x \in Int
  PROVE  Cardinality(UpTo(e, n, x)) \in 0..n /\ UpTo(e, n, x) = 1..Cardinality(UpTo(e, n, x))
<1> DEFINE B == {k \in 0..n : \A i \in 1..n : i > k => ~(e[i] <= x)}
           A == UpTo(e, n, x)
<1>1. PICK c \in B : \A j \in Nat : j < c => j \notin B
  <2>1. B \in SUBSET Nat /\ n \in B
    OBVIOUS
  <2> HIDE DEF B
  <2> QED BY <2>1, LeastOne
<1>2. c \in 0..n /\ \A i \in 1..n : i > c => ~(e[i] <= x)
  OBVIOUS
<1>3. c # 0 => c \in 1..n /\ e[c] <= x
  <2> SUFFICES ASSUME c # 0 PROVE c \in 1..n /\ e[c] <= x
    OBVIOUS
  <2>1. c - 1 \in Nat /\ c - 1 < c /\ c - 1 \in 0..n
    BY <1>2
  <2>2. PICK i \in 1..n : i > c - 1 /\ e[i] <= x
    BY <1>1, <2>1
  <2>3. i = c
    BY <1>2, <2>2
  <2> QED BY <2>2, <2>3
<1> HIDE DEF B
<1>4. \A i \in 1..c : i \in 1..n /\ e[i] <= x
  <2> TAKE i \in 1..c
  <2>1. i \in 1..n /\ c \in 1..n /\ e[c] <= x
    BY <1>2, <1>3
  <2>2. e[i] \in Int /\ e[c] \in Int /\ (i < c => e[i] < e[c])
    BY <2>1 DEF Increasing
  <2> QED BY <2>1, <2>2
<1>5. A = 1..c
  BY <1>2, <1>4 DEF UpTo
<1>6. Cardinality(1..c) = c
  <2>1. 1 \in Int /\ c \in Int /\ (1 > c => c = 0) /\ (~(1 > c) => c - 1 + 1 = c)
    BY <1>2
  <2>2. Cardinality(1..c) = IF 1 > c THEN 0 ELSE c - 1 + 1
    BY <2>1, FS_Interval
  <2> QED BY <2>1, <2>2
<1> QED BY <1>2, <1>5, <1>6

(* The k-th of increasing numbers has k - 1 of them below.                 *)
Firsts(e, k) == {e[j] : j \in 1..k}
Ranked(s, k) == CHOOSE x \in s : Cardinality({y \in s : y < x}) = k - 1

(* Of the first c numbers, the k-th has k - 1 smaller ones.                *)
LEMMA FirstsCounted ==
  ASSUME NEW n \in Nat, NEW e, Increasing(e, n), NEW k \in 0..n
  PROVE  IsFiniteSet(Firsts(e, k)) /\ Cardinality(Firsts(e, k)) = k
<1> DEFINE f == [j \in 1..k |-> e[j]]
           S == Firsts(e, k)
<1>1. k \in Nat /\ \A j \in 1..k : j \in 1..n /\ e[j] \in Int
  BY DEF Increasing
<1>2. \A i, j \in 1..k : e[i] = e[j] => i = j
  <2> SUFFICES ASSUME NEW i \in 1..k, NEW j \in 1..k, e[i] = e[j] PROVE i = j
    OBVIOUS
  <2>1. (i < j => e[i] < e[j]) /\ (j < i => e[j] < e[i]) /\ e[i] \in Int
    BY <1>1 DEF Increasing
  <2> QED BY <1>1, <2>1
<1>3. f \in Bijection(1..k, S)
  <2>1. f \in [1..k -> S] /\ \A j \in 1..k : f[j] = e[j]
    BY DEF Firsts
  <2>2. \A s \in S : \E j \in 1..k : f[j] = s
    BY <2>1 DEF Firsts
  <2> HIDE DEF f, S
  <2> QED BY <1>2, <2>1, <2>2 DEF Bijection, Injection, Surjection, IsInjective
<1>4. ExistsBijection(1..k, S)
  BY <1>3 DEF ExistsBijection
<1>5. IsFiniteSet(S)
  BY <1>1, <1>4, FS_NatBijection
<1> HIDE DEF S
<1>6. Cardinality(S) = k
  BY <1>1, <1>4, FS_CountingElements
<1> QED BY <1>5, <1>6 DEF S

(* The k-th number is found by counting.                                   *)
LEMMA RankIs ==
  ASSUME NEW n \in Nat, NEW e, Increasing(e, n), NEW k \in 1..n
  PROVE  Ranked(Firsts(e, n), k) = e[k]
<1> DEFINE S == Firsts(e, n)
           Below(x) == {y \in S : y < x}
<1>1. ASSUME NEW j \in 1..n PROVE Cardinality(Below(e[j])) = j - 1
  <2>1. Below(e[j]) = Firsts(e, j - 1)
    <3>1. ASSUME NEW i \in 1..n PROVE e[i] < e[j] <=> i \in 1 .. j - 1
      <4>1. e[i] \in Int /\ e[j] \in Int /\ (i < j => e[i] < e[j]) /\ (j < i => e[j] < e[i])
        BY DEF Increasing
      <4> QED BY <4>1
    <3>2. \A i \in 1 .. j - 1 : i \in 1..n
      OBVIOUS
    <3> QED BY <3>1, <3>2 DEF Firsts
  <2>2. j - 1 \in 0..n
    OBVIOUS
  <2> QED BY <2>1, <2>2, FirstsCounted
<1>2. e[k] \in S /\ Cardinality(Below(e[k])) = k - 1
  BY <1>1 DEF Firsts
<1>3. \A x \in S : Cardinality(Below(x)) = k - 1 => x = e[k]
  <2> SUFFICES ASSUME NEW j \in 1..n, Cardinality(Below(e[j])) = k - 1 PROVE e[j] = e[k]
    BY DEF Firsts
  <2>1. j - 1 = k - 1
    BY <1>1
  <2>2. j = k
    BY <2>1
  <2> QED BY <2>2
<1>4. Ranked(S, k) = CHOOSE x \in S : Cardinality(Below(x)) = k - 1
  BY DEF Ranked
<1> HIDE DEF S, Below
<1> QED BY <1>2, <1>3, <1>4 DEF S

(* A function on the first numbers is a sequence.                          *)
LEMMA FunctionSequence ==
  ASSUME NEW S, NEW n \in Nat, NEW f \in [1..n -> S]
  PROVE  f \in Seq(S) /\ Len(f) = n
<1>1. f \in Seq(S)
  <2>1. [1..n -> S] \in {[1..k -> S] : k \in Nat}
    OBVIOUS
  <2> QED BY <2>1, SeqDef
<1> DEFINE m == Len(f)
<1>2. m \in Nat /\ 1..m = 1..n
  BY <1>1, LenProperties
<1> HIDE DEF m
<1>3. \A i \in Nat : i \in 1..m <=> i \in 1..n
  BY <1>2
<1>4. m = n
  BY <1>2, <1>3
<1> QED BY <1>1, <1>4 DEF m

(* The sum of a function as the property writes it.                        *)
LEMMA AddedIs ==
  ASSUME NEW S, IsFiniteSet(S), NEW f, DOMAIN f = S
  PROVE  SumFunction(f) = SumOf(f, S)
<1> DEFINE Eq(g) == g = [s \in SUBSET S |-> IF s = {} THEN 0
                           ELSE f[CHOOSE x \in s : TRUE] + g[s \ {CHOOSE x \in s : TRUE}]]
           iter == CHOOSE g : Eq(g)
<1>1. SumFunction(f) = iter[S]
  BY DEF SumFunction, SumFunctionOnSet, FoldFunctionOnSet, MapThenFoldSet
<1>2. \A g : Eq(g) <=> Sums(g, f, S)
  BY DEF Sums, First
<1> HIDE DEF Eq
<1>3. \E g : Eq(g)
  BY <1>2, SumsExist
<1>4. Sums(iter, f, S)
  BY <1>2, <1>3
<1> HIDE DEF iter
<1>5. SumOf(f, S) = iter[S]
  BY <1>4, SumOfIs
<1> QED BY <1>1, <1>5

(* The last p of the first indices.                                        *)
LEMMA WindowEnds ==
  ASSUME NEW i \in Nat, NEW p \in Nat \ {0}, NEW d \in Nat, i >= p
  PROVE  /\ WindowOf(i, p, d) = (i + d) - p + 1 .. i + d /\ IsFiniteSet(WindowOf(i, p, d))
         /\ WindowOf(i, p, d) \subseteq (d + 1) .. (i + d)
<1>1. WindowOf(i, p, d) = (i + d) - p + 1 .. i + d
  BY DEF WindowOf
<1> DEFINE a == (i + d) - p + 1
           b == i + d
<1>2. a \in Int /\ b \in Int
  OBVIOUS
<1> HIDE DEF a, b
<1>3. IsFiniteSet(a..b)
  BY <1>2, FS_Interval
<1>4. WindowOf(i, p, d) \subseteq (d + 1) .. (i + d)
  BY DEF WindowOf
<1> QED BY <1>1, <1>3, <1>4 DEF a, b
=============================================================================
