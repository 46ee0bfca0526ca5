-------------------------- MODULE SimulatorProofs ---------------------------
(***************************************************************************)
(* Proofs about the simulator: Backfill, for every range of dates, every   *)
(* set of open times, whatever the exchange serves, and every number of    *)
(* failed, killed and repeated commands; what Sweep selects and saves, for *)
(* every grid of parameters and number of workers and runs; that its cache *)
(* counts what it holds, for every capacity and set of keys; the trades of *)
(* a run (SimEngine) and the report on them, for every market and script;  *)
(* and that what a script reads (SimSeries) is made of ended bars alone.   *)
(***************************************************************************)
EXTENDS Backfill, Sweep, SimEngine, SumLemmas, FiniteSetTheorems, SequenceTheorems, TLAPS

-----------------------------------------------------------------------------
(* The backfill.                                                           *)

(* Every bar that is stored is one that the join accepts.                  *)
BarsJoined == \A d \in Dates, t \in OpenTimes : <<d, t>> \in simCandles => t \in JoinAndValidate(d)

(* A date that the running command has left without listing it is whole.   *)
PassedWhole ==
  \A d \in Dates : d < date /\ (\A s \in Sides : <<d, s>> \notin failed) =>
    \A t \in JoinAndValidate(d) : <<d, t>> \in simCandles

(* Exit code 0 means that all dates were left and none of them is listed;  *)
(* a command that goes on has a date to work on.                           *)
DoneMeansPassed ==
  /\ exit = "done" => date > LastDate /\ failed = {}
  /\ exit = "none" => date <= LastDate

(* The inductive invariant.                                                *)
BackfillInv ==
  /\ date \in 1..(LastDate + 1)
  /\ fetched \subseteq Sides /\ skipped \subseteq Sides
  /\ BarsJoined /\ PassedWhole /\ DoneMeansPassed

(* It holds when the first command starts.                                 *)
LEMMA BackfillInvInit == BackfillInit => BackfillInv
  BY BackfillAssumption
  DEF BackfillAssumption, BackfillInit, BackfillInv, BarsJoined, PassedWhole, DoneMeansPassed, Dates

(* Every step of a command, its death and the next command preserve it.    *)
LEMMA BackfillInvStep ==
  ASSUME BackfillInv, [BackfillNext]_backfillVars
  PROVE  BackfillInv'
<1> USE BackfillAssumption DEF BackfillAssumption, BackfillInv
<1>1. CASE FetchFails
  BY <1>1 DEF FetchFails, Side, Sides, BarsJoined, PassedWhole, DoneMeansPassed, JoinAndValidate
<1>2. CASE Fetch
  BY <1>2 DEF Fetch, Side, Sides, BarsJoined, PassedWhole, DoneMeansPassed, JoinAndValidate
<1>3. CASE SaveDay
  <2>1. /\ simCandles' = simCandles \cup {<<date, t>> : t \in JoinAndValidate(date)}
        /\ failed' = failed \cup {<<date, s>> : s \in skipped}
        /\ date' = date + 1 /\ fetched' = {} /\ skipped' = {}
        /\ exit' = IF date < LastDate THEN "none" ELSE IF failed' = {} THEN "done" ELSE "error"
        /\ UNCHANGED <<served, broken>>
    BY <1>3 DEF SaveDay, LeaveDate, FailedSides, DayBars
  <2>2. \A d : JoinAndValidate(d)' = JoinAndValidate(d)
    BY <2>1 DEF JoinAndValidate
  <2>3. date' \in 1..(LastDate + 1)
    BY <1>3, <2>1 DEF SaveDay, DoneMeansPassed
  <2>4. BarsJoined'
    BY <2>1, <2>2 DEF BarsJoined
  <2>5. PassedWhole'
    BY <2>1, <2>2 DEF PassedWhole, Dates
  <2>6. DoneMeansPassed'
    BY <2>1, <2>3 DEF DoneMeansPassed
  <2> QED BY <2>1, <2>3, <2>4, <2>5, <2>6
<1>4. CASE SkipDay
  <2>1. /\ failed' = failed \cup {<<date, s>> : s \in skipped}
        /\ date' = date + 1 /\ fetched' = {} /\ skipped' = {} /\ skipped # {}
        /\ exit' = IF date < LastDate THEN "none" ELSE IF failed' = {} THEN "done" ELSE "error"
        /\ UNCHANGED <<served, broken, simCandles>>
    BY <1>4 DEF SkipDay, LeaveDate, FailedSides
  <2>2. \A d : JoinAndValidate(d)' = JoinAndValidate(d)
    BY <2>1 DEF JoinAndValidate
  <2>3. date' \in 1..(LastDate + 1)
    BY <1>4, <2>1 DEF SkipDay, DoneMeansPassed
  <2>4. BarsJoined'
    BY <2>1, <2>2 DEF BarsJoined
  <2>5. \E s \in Sides : <<date, s>> \in failed'
    BY <2>1
  <2>6. ASSUME NEW d \in Dates, d < date', \A s \in Sides : <<d, s>> \notin failed'
        PROVE  d < date /\ \A s \in Sides : <<d, s>> \notin failed
    BY <2>1, <2>5, <2>6 DEF Dates
  <2>7. PassedWhole'
    BY <2>1, <2>2, <2>6 DEF PassedWhole
  <2>8. DoneMeansPassed'
    BY <2>1, <2>3 DEF DoneMeansPassed
  <2> QED BY <2>1, <2>3, <2>4, <2>7, <2>8
<1>5. ASSUME NEW committed \in BOOLEAN, SaveFails(committed) PROVE BackfillInv'
  <2>1. /\ simCandles' \in {simCandles, simCandles \cup {<<date, t>> : t \in JoinAndValidate(date)}}
        /\ UNCHANGED <<served, broken, date, fetched, skipped, failed>> /\ exit' = "error"
    BY <1>5 DEF SaveFails, DayBars
  <2>2. \A d : JoinAndValidate(d)' = JoinAndValidate(d)
    BY <2>1 DEF JoinAndValidate
  <2>3. BarsJoined'
    BY <2>1, <2>2 DEF BarsJoined
  <2>4. PassedWhole' /\ DoneMeansPassed'
    BY <2>1, <2>2 DEF PassedWhole, DoneMeansPassed
  <2> QED BY <2>1, <2>3, <2>4
<1>6. CASE BackfillDies
  BY <1>6 DEF BackfillDies, BarsJoined, PassedWhole, DoneMeansPassed, JoinAndValidate
<1>7. CASE RunAgain
  BY <1>7 DEF RunAgain, BarsJoined, PassedWhole, DoneMeansPassed, JoinAndValidate, Dates
<1>8. CASE UNCHANGED backfillVars
  BY <1>8 DEF backfillVars, BarsJoined, PassedWhole, DoneMeansPassed, JoinAndValidate
<1> QED BY <1>1, <1>2, <1>3, <1>4, <1>5, <1>6, <1>7, <1>8 DEF BackfillNext

(* The invariant says what RangeWhole says.                                *)
LEMMA BackfillInvImplies == BackfillInv => RangeWhole
<1> SUFFICES ASSUME BackfillInv, NEW d \in Dates
             PROVE  LET usable == {t \in OpenTimes : /\ served[d]["bid"][t] = 1
                                                     /\ served[d]["ask"][t] = 1
                                                     /\ <<d, t>> \notin broken}
                        stored == {t \in OpenTimes : <<d, t>> \in simCandles}
                    IN  /\ stored \subseteq usable
                        /\ d < date /\ (\A s \in Sides : <<d, s>> \notin failed)
                             => stored = usable
                        /\ exit = "done" => stored = usable
  BY DEF RangeWhole
<1>1. JoinAndValidate(d) = {t \in OpenTimes : /\ served[d]["bid"][t] = 1
                                              /\ served[d]["ask"][t] = 1
                                              /\ <<d, t>> \notin broken}
  BY DEF JoinAndValidate, Sides
<1>2. exit = "done" => d < date /\ \A s \in Sides : <<d, s>> \notin failed
  BY BackfillAssumption DEF BackfillAssumption, BackfillInv, DoneMeansPassed, Dates
<1> QED BY <1>1, <1>2 DEF BackfillInv, BarsJoined, PassedWhole

(* The candles that backfill stores are the consistent ones, a date it does*)
(* not list as failed is stored whole, and exit code 0 means that the range*)
(* is whole, after any number of commands that failed or died before.      *)
THEOREM BackfillCorrect == BackfillSpec => []RangeWhole
<1>1. BackfillInit => BackfillInv
  BY BackfillInvInit
<1>2. BackfillInv /\ [BackfillNext]_backfillVars => BackfillInv'
  BY BackfillInvStep
<1>3. BackfillInv => RangeWhole
  BY BackfillInvImplies
<1> QED BY <1>1, <1>2, <1>3, PTL DEF BackfillSpec

-----------------------------------------------------------------------------
(* The parameter grid.                                                     *)

(* What a declared parameter is.                                           *)
LEMMA SpecShape ==
  ASSUME NEW grid, IsParamSpecs(grid), NEW i \in 1..Len(grid)
  PROVE  /\ grid[i].min \in Int /\ grid[i].max \in Int /\ grid[i].default \in Int
         /\ grid[i].step \in Nat \ {0} /\ Slack(grid[i]) \in Nat
         /\ grid[i].min <= grid[i].default /\ grid[i].default <= grid[i].max
         /\ IsOnGrid(grid[i], grid[i].default)
<1> DEFINE s == grid[i]
<1>1. s \in ParamSpec
  BY ElementOfSeq DEF IsParamSpecs
<1>2. s.min <= s.default /\ s.default <= s.max /\ s.step > 0 /\ IsOnGrid(s, s.default)
  BY DEF IsParamSpecs, IsValidParam
<1>3. Slack(s) \in Nat
  BY ToleranceAssumption DEF Slack, ToleranceAssumption
<1> HIDE DEF s
<1>4. s.min \in Int /\ s.max \in Int /\ s.default \in Int /\ s.step \in Int
  BY <1>1 DEF ParamSpec
<1>5. s.step \in Nat \ {0}
  BY <1>2, <1>4
<1> QED BY <1>2, <1>3, <1>4, <1>5 DEF s

(* A quotient rounded, and one that needs no rounding.                     *)
LEMMA RoundedBounds ==
  ASSUME NEW a \in Nat, NEW m \in Nat \ {0}
  PROVE  /\ Rounded(a, m) \in Nat
         /\ 2 * (Rounded(a, m) * m) <= 2 * a + m
<1> DEFINE n == 2 * a + m
           w == 2 * m
           r == n \div w
<1>1. n \in Nat /\ w \in Nat \ {0} /\ Rounded(a, m) = r
  BY DEF Rounded
<1> HIDE DEF n, w
<1>2. r \in Nat /\ r * w <= n
  BY <1>1, DivBounds
<1> HIDE DEF r
<1>3. r * w = 2 * (r * m)
  BY <1>2, Z3 DEF w
<1> QED BY <1>1, <1>2, <1>3 DEF n

LEMMA RoundedWhole ==
  ASSUME NEW k \in Nat, NEW m \in Nat \ {0}
  PROVE  Rounded(k * m, m) = k
<1> DEFINE n == 2 * (k * m) + m
           w == 2 * m
<1>1. n \in Nat /\ w \in Nat \ {0} /\ Rounded(k * m, m) = n \div w
  <2>1. k * m \in Nat
    BY Z3
  <2> QED BY <2>1 DEF Rounded
<1>2. k * w <= n /\ n < (k + 1) * w
  <2> DEFINE x == k * m
  <2>1. x \in Nat /\ k * w = 2 * x /\ (k + 1) * w = 2 * x + 2 * m
    BY Z3
  <2> HIDE DEF x
  <2>2. n = 2 * x + m
    BY DEF x
  <2> HIDE DEF n, w
  <2> QED BY <2>1, <2>2
<1> HIDE DEF n, w
<1>3. n \div w = k
  BY <1>1, <1>2, DivIs
<1> QED BY <1>1, <1>3

(* A spec has candidates, one of them is its default up to the tolerance,  *)
(* and run accepts each of them.                                           *)
LEMMA Candidates ==
  ASSUME NEW grid, IsParamSpecs(grid), NEW i \in 1..Len(grid)
  PROVE  /\ CandidateCount(grid[i]) \in Nat \ {0}
         /\ DefaultK(grid[i]) \in 0..(CandidateCount(grid[i]) - 1)
         /\ Near(grid[i], ParamValueAt(grid[i], DefaultK(grid[i])), grid[i].default)
         /\ \A k \in 0..(CandidateCount(grid[i]) - 1) :
              ParamValueAt(grid[i], k) \in Resolved(grid[i])
<1> DEFINE s == grid[i]
           a == s.default - s.min
           b == s.max - s.min
           m == s.step
           t == Slack(s)
           r == Rounded(a, m)
           q == b \div m
           f == (b + t) \div m
           c == IF f < q + 4 THEN f ELSE q + 4
<1>1. /\ s.min \in Int /\ s.max \in Int /\ s.default \in Int /\ m \in Nat \ {0} /\ t \in Nat
      /\ s.min <= s.default /\ s.default <= s.max /\ IsOnGrid(s, s.default)
  BY SpecShape
<1> HIDE DEF s
<1>2. DefaultK(s) = r /\ CandidateCount(s) = c + 1
  <2>1. ~(s.default < s.min) /\ s.max + Slack(s) - s.min = b + t
    BY <1>1
  <2> QED BY <2>1 DEF DefaultK, NearestK, CandidateCount, MaxFloatKAdjustments
<1>3. a \in Nat /\ b \in Nat /\ a <= b /\ s.min + a = s.default /\ s.min + b = s.max
  BY <1>1
<1>4. Near(s, s.default, s.min + r * m)
  BY <1>1, <1>2 DEF IsOnGrid, DefaultK, ParamValueAt
<1> HIDE DEF a, b, m, t
<1>5. r \in Nat /\ 2 * (r * m) <= 2 * a + m
  BY <1>1, <1>3, RoundedBounds
<1>6. q \in Nat /\ b < (q + 1) * m
  BY <1>1, <1>3, DivBounds
<1>7. f \in Nat /\ f * m <= b + t /\ b + t < (f + 1) * m
  <2>1. b + t \in Nat
    BY <1>1, <1>3
  <2> QED BY <1>1, <2>1, DivBounds
<1> HIDE DEF r, q, f
<1>8. r * m \in Int /\ r * m - a <= t /\ a - r * m <= t
  <2>1. r * m \in Int
    BY <1>1, <1>5
  <2> DEFINE x == r * m
  <2>2. s.default - (s.min + x) <= t /\ (s.min + x) - s.default <= t /\ x \in Int
    BY <1>4, <2>1 DEF Near, t
  <2> HIDE DEF x
  <2>3. x - a <= t /\ a - x <= t
    BY <1>1, <1>3, <2>2
  <2> QED BY <2>1, <2>3 DEF x
<1>9. r <= f
  <2> DEFINE x == r * m
             y == (f + 1) * m
  <2>1. x \in Int /\ y \in Int
    BY <1>1, <1>5, <1>7
  <2>2. x < y
    <3>1. x - a <= t /\ b + t < y
      BY <1>7, <1>8
    <3> HIDE DEF x, y
    <3> QED BY <1>1, <1>3, <2>1, <3>1
  <2>3. f + 1 <= r => y <= x
    BY <1>1, <1>5, <1>7, TimesMonotonic
  <2> HIDE DEF x, y
  <2> QED BY <1>5, <1>7, <2>1, <2>2, <2>3
<1>10. r <= q + 1
  <2> DEFINE x == r * m
             y == (q + 1) * m
             z == (q + 2) * m
  <2>1. x \in Int /\ y \in Int /\ z \in Int /\ z = y + m
    BY <1>1, <1>5, <1>6, Z3
  <2>2. q + 2 <= r => z <= x
    BY <1>1, <1>5, <1>6, TimesMonotonic
  <2>3. 2 * x <= 2 * a + m /\ b < y
    BY <1>5, <1>6
  <2> HIDE DEF x, y, z
  <2> QED BY <1>1, <1>3, <1>5, <1>6, <2>1, <2>2, <2>3
<1>11. c \in Nat /\ r <= c /\ c <= f
  BY <1>5, <1>6, <1>7, <1>9, <1>10
<1> HIDE DEF c
<1>12. CandidateCount(s) \in Nat \ {0} /\ DefaultK(s) \in 0..(CandidateCount(s) - 1)
  BY <1>2, <1>5, <1>11
<1>13. Near(s, ParamValueAt(s, DefaultK(s)), s.default)
  <2> DEFINE x == r * m
  <2>1. x \in Int /\ x - a <= t /\ a - x <= t
    BY <1>8
  <2>2. ParamValueAt(s, DefaultK(s)) = s.min + x
    BY <1>2 DEF ParamValueAt, m
  <2> HIDE DEF x
  <2>3. (s.min + x) - s.default <= t /\ s.default - (s.min + x) <= t
    BY <1>1, <1>3, <2>1
  <2> QED BY <2>2, <2>3 DEF Near, t
<1>14. ASSUME NEW k \in 0..(CandidateCount(s) - 1) PROVE ParamValueAt(s, k) \in Resolved(s)
  <2> DEFINE x == k * m
             v == s.min + x
  <2>1. k \in Nat /\ k <= f
    BY <1>2, <1>7, <1>11
  <2>2. x \in Nat /\ x <= b + t
    <3>1. k * m \in Nat
      BY <1>1, <2>1, Z3
    <3>2. k * m <= f * m
      BY <1>1, <1>7, <2>1, TimesMonotonic
    <3> DEFINE y == f * m
    <3>3. y \in Int /\ y <= b + t
      BY <1>1, <1>7
    <3> HIDE DEF y
    <3> QED BY <1>1, <1>3, <3>1, <3>2, <3>3 DEF y
  <2>3. Rounded(x, m) = k
    BY <1>1, <2>1, RoundedWhole
  <2>4. ParamValueAt(s, k) = v
    BY DEF ParamValueAt, m
  <2> HIDE DEF x
  <2>5. v \in Int /\ ~(v < s.min) /\ v - s.min = x /\ s.min - t <= v /\ v <= s.max + t /\ v - v <= t
    <3> DEFINE lo == s.min
               hi == s.max
    <3>1. lo \in Int /\ hi \in Int /\ t \in Nat /\ lo + b = hi /\ b \in Nat /\ v = lo + x
      BY <1>1, <1>3
    <3> HIDE DEF lo, hi, v
    <3>2. v \in Int /\ ~(v < lo) /\ v - lo = x /\ lo - t <= v /\ v <= hi + t /\ v - v <= t
      BY <2>2, <3>1
    <3> QED BY <3>2 DEF lo, hi
  <2> HIDE DEF v
  <2>6. NearestK(s, v) = k
    BY <2>3, <2>5 DEF NearestK, m
  <2>7. IsOnGrid(s, v)
    BY <2>1, <2>4, <2>5, <2>6 DEF IsOnGrid, Near, t
  <2>8. v \in (s.min - t)..(s.max + t)
    BY <1>1, <2>5
  <2> QED BY <2>4, <2>7, <2>8 DEF Resolved, t
<1> QED BY <1>12, <1>13, <1>14 DEF s

(* Products of the candidate counts: P[k] is that of the first k grid.    *)
Products(P, grid) ==
  /\ P \in [0..Len(grid) -> Nat \ {0}] /\ P[0] = 1
  /\ \A k \in 1..Len(grid) : P[k] = P[k - 1] * CandidateCount(grid[k])

(* The number of combinations is the last of them.                         *)
LEMMA TotalIs ==
  ASSUME NEW grid, IsParamSpecs(grid)
  PROVE  \E P : Products(P, grid) /\ TotalCombinations(grid) = P[Len(grid)]
<1> DEFINE n == Len(grid)
           F == [p \in (Nat \ {0}) \X (1..n) |-> p[1] * CandidateCount(grid[p[2]])]
<1>1. n \in Nat /\ DOMAIN grid = 1..n
  BY LenProperties DEF IsParamSpecs
<1>2. \A i \in 1..n : CandidateCount(grid[i]) \in Nat \ {0}
  BY Candidates
<1> HIDE DEF n
<1>3. F \in [(Nat \ {0}) \X (1..n) -> Nat \ {0}]
  <2>1. \A x, y \in Nat \ {0} : x * y \in Nat \ {0}
    BY Z3
  <2> QED BY <1>2, <2>1
<1> DEFINE A == Nat \ {0}
<1>4. PICK g \in [SUBSET (1..n) -> A] : Folded(g, F, 1, 1..n)
  <2>1. 1 \in A /\ F \in [A \X (1..n) -> A]
    BY <1>3
  <2> HIDE DEF A, F
  <2> QED BY <1>1, <2>1, FoldsExist
<1> DEFINE Is(h) == h = [s \in SUBSET (1..n) |->
             IF s = {} THEN 1 ELSE h[s \ {Max(s)}] * CandidateCount(grid[Max(s)])]
<1>5. \A s \in SUBSET (1..n) : s # {} =>
        /\ Max(s) \in s /\ s \ {Max(s)} \in SUBSET (1..n)
        /\ g[s] = g[s \ {Max(s)}] * CandidateCount(grid[Max(s)])
  <2> SUFFICES ASSUME NEW s \in SUBSET (1..n), s # {}
               PROVE  /\ Max(s) \in s /\ s \ {Max(s)} \in SUBSET (1..n)
                      /\ g[s] = g[s \ {Max(s)}] * CandidateCount(grid[Max(s)])
    OBVIOUS
  <2>1. Max(s) \in s
    BY <1>1, GreatestIn
  <2>2. Max(s) \in 1..n /\ g[s \ {Max(s)}] \in Nat \ {0}
    BY <2>1
  <2>3. g[s] = F[<<g[s \ {Max(s)}], Max(s)>>]
    BY <1>4 DEF Folded
  <2> QED BY <2>1, <2>2, <2>3
<1>6. Is(g)
  <2>1. g = [s \in SUBSET (1..n) |-> g[s]]
    OBVIOUS
  <2>2. g[{}] = 1
    BY <1>4 DEF Folded
  <2> QED BY <1>5, <2>1, <2>2
<1>7. TotalCombinations(grid) = g[1..n]
  <2> DEFINE h == CHOOSE h : Is(h)
  <2>1. TotalCombinations(grid) = h[1..n]
    BY <1>1 DEF TotalCombinations, FoldLeft, MapThenFoldSet
  <2>2. Is(h)
    <3> HIDE DEF Is
    <3> QED BY <1>6
  <2>3. h[1..n] = g[1..n]
    <3> DEFINE V == A \cup {h[s] : s \in SUBSET (1..n)}
               H == [p \in V \X (1..n) |-> p[1] * CandidateCount(grid[p[2]])]
    <3>1. \A s \in SUBSET (1..n) : h[s] \in V /\ g[s] \in V
      OBVIOUS
    <3>2. Folded(h, H, 1, 1..n)
      <4>1. \A s \in SUBSET (1..n) : h[s] = IF s = {} THEN 1 ELSE h[s \ {Max(s)}] * CandidateCount(grid[Max(s)])
        <5> HIDE DEF h
        <5> QED BY <2>2
      <4>2. \A s \in SUBSET (1..n) : s # {} => h[s] = H[<<h[s \ {Max(s)}], Max(s)>>]
        <5> HIDE DEF h, V
        <5> QED BY <1>5, <3>1, <4>1
      <4>3. h[{}] = 1
        BY <4>1
      <4> HIDE DEF h, H
      <4> QED BY <4>2, <4>3 DEF Folded
    <3>3. Folded(g, H, 1, 1..n)
      <4>1. \A s \in SUBSET (1..n) : s # {} => g[s] = H[<<g[s \ {Max(s)}], Max(s)>>]
        <5> HIDE DEF V
        <5> QED BY <1>5, <3>1
      <4> HIDE DEF H
      <4> QED BY <1>4, <4>1 DEF Folded
    <3> DEFINE X == 1..n
               one == 1
               e == g
    <3>4. Folded(h, H, one, X) /\ Folded(e, H, one, X) /\ Indices(X) /\ X \subseteq X
      BY <1>1, <3>2, <3>3 DEF Indices
    <3> HIDE DEF h, H, X, one, e
    <3>5. h[X] = e[X]
      BY <3>4, FoldsAgree
    <3> QED BY <3>5 DEF X, e
  <2> QED BY <2>1, <2>3
<1> DEFINE P == [k \in 0..n |-> g[1..k]]
<1>8. P \in [0..n -> Nat \ {0}] /\ P[n] = g[1..n] /\ P[0] = 1
  <2>1. \A k \in 0..n : 1..k \in SUBSET (1..n)
    BY <1>1
  <2>2. 1..0 = {}
    OBVIOUS
  <2> QED BY <1>1, <1>4, <2>1, <2>2 DEF Folded
<1>9. \A k \in 1..n : P[k] = P[k - 1] * CandidateCount(grid[k])
  <2> SUFFICES ASSUME NEW k \in 1..n PROVE P[k] = P[k - 1] * CandidateCount(grid[k])
    OBVIOUS
  <2> DEFINE s == 1..k
  <2>1. Max(s) = k
    BY GreatestIs
  <2>2. s \in SUBSET (1..n) /\ s # {} /\ s \ {k} = 1..(k - 1) /\ k - 1 \in 0..n /\ k \in 0..n
    <3>1. k \in Int /\ 1 <= k /\ k <= n
      BY <1>1
    <3>2. \A j \in Int : j \in 1..(k - 1) <=> j \in 1..k /\ j # k
      BY <3>1
    <3>3. s \ {k} = 1..(k - 1)
      BY <3>2
    <3> QED BY <1>1, <3>1, <3>3
  <2>3. g[s] = g[1..(k - 1)] * CandidateCount(grid[k])
    <3> HIDE DEF s
    <3> QED BY <1>5, <2>1, <2>2
  <2> QED BY <2>2, <2>3
<1>10. Products(P, grid) /\ TotalCombinations(grid) = P[n]
  <2> HIDE DEF P
  <2> QED BY <1>7, <1>8, <1>9 DEF Products, n
<1> HIDE DEF P
<1> QED BY <1>10 DEF n

(* Combinations of a grid without its first spec.                          *)
LEMMA HeadFactor ==
  ASSUME NEW t, IsParamSpecs(t), NEW u, IsParamSpecs(u), Len(t) = Len(u) + 1,
         \A i \in 1..Len(u) : u[i] = t[i + 1]
  PROVE  TotalCombinations(t) = CandidateCount(t[1]) * TotalCombinations(u)
<1> DEFINE c == CandidateCount(t[1])
           n == Len(u)
<1>1. n \in Nat /\ Len(t) = n + 1
  BY LenProperties DEF IsParamSpecs
<1>2. PICK P : Products(P, t) /\ TotalCombinations(t) = P[Len(t)]
  BY TotalIs
<1>3. PICK Q : Products(Q, u) /\ TotalCombinations(u) = Q[Len(u)]
  BY TotalIs
<1>4. /\ P[0] = 1 /\ \A k \in 1..(n + 1) : P[k] = P[k - 1] * CandidateCount(t[k])
      /\ Q \in [0..n -> Nat \ {0}] /\ Q[0] = 1
      /\ \A k \in 1..n : Q[k] = Q[k - 1] * CandidateCount(u[k])
  BY <1>1, <1>2, <1>3 DEF Products
<1>5. \A i \in 1..(n + 1) : CandidateCount(t[i]) \in Nat
  BY <1>1, Candidates
<1>6. c \in Nat
  BY <1>1, <1>5
<1>7. P[1] = c * Q[0]
  <2>1. 1 \in 1..(n + 1) /\ 1 - 1 = 0
    BY <1>1
  <2>2. P[1] = P[0] * c
    BY <1>4, <2>1
  <2> HIDE DEF c
  <2> QED BY <1>4, <1>6, <2>2
<1> DEFINE B == {k \in Nat : k <= n /\ P[k + 1] # c * Q[k]}
<1>8. B = {}
  <2> SUFFICES ASSUME B # {} PROVE FALSE
    OBVIOUS
  <2>1. PICK k \in B : \A j \in Nat : j < k => j \notin B
    <3>1. B \in SUBSET Nat
      OBVIOUS
    <3> HIDE DEF B
    <3> QED BY <3>1, LeastOne
  <2>2. k \in Nat /\ k <= n /\ P[k + 1] # c * Q[k]
    OBVIOUS
  <2>3. k # 0
    <3> HIDE DEF c
    <3> QED BY <1>7, <2>2
  <2>4. k - 1 \in Nat /\ k - 1 < k /\ k - 1 <= n /\ k \in 1..n /\ k + 1 \in 1..(n + 1) /\ k - 1 + 1 = k /\ k + 1 - 1 = k
    BY <1>1, <2>2, <2>3
  <2> DEFINE q == Q[k - 1]
             b == CandidateCount(t[k + 1])
  <2>5. P[k] = c * q
    BY <2>1, <2>4
  <2>6. P[k + 1] = P[k] * b
    BY <1>4, <2>4
  <2>7. Q[k] = q * b
    BY <1>1, <1>4, <2>4
  <2>8. q \in Nat /\ b \in Nat
    <3>1. k - 1 \in 0..n /\ k + 1 \in 1..(n + 1)
      BY <1>1, <2>4
    <3>2. \A x \in Nat \ {0} : x \in Nat
      OBVIOUS
    <3> QED BY <1>4, <1>5, <3>1, <3>2
  <2> HIDE DEF q, b, c, B
  <2>9. (c * q) * b = c * (q * b)
    BY <1>6, <2>8, Z3
  <2> QED BY <2>2, <2>5, <2>6, <2>7, <2>9
<1>9. P[n + 1] = c * Q[n]
  <2> HIDE DEF n, c
  <2> QED BY <1>1, <1>8
<1> QED BY <1>1, <1>2, <1>3, <1>9

(* The weights of the digits.                                              *)
LEMMA Weights ==
  ASSUME NEW grid, IsParamSpecs(grid)
  PROVE  /\ Weight(grid, 0) = TotalCombinations(grid) /\ Weight(grid, Len(grid)) = 1
         /\ \A i \in 0..Len(grid) : Weight(grid, i) \in Nat \ {0}
         /\ \A i \in 1..Len(grid) : Weight(grid, i - 1) = CandidateCount(grid[i]) * Weight(grid, i)
<1> DEFINE R == ParamSpec
           n == Len(grid)
           S(i) == SubSeq(grid, i + 1, n)
<1>1. n \in Nat /\ grid \in Seq(R)
  BY LenProperties DEF IsParamSpecs
<1>2. ASSUME NEW i \in 0..n
      PROVE  IsParamSpecs(S(i)) /\ Len(S(i)) = n - i /\ \A j \in 1..(n - i) : S(i)[j] = grid[j + i]
  <2>1. i + 1 \in 1..(n + 1) /\ n \in (i + 1) - 1 .. n
    BY <1>1
  <2>2. /\ S(i) \in Seq(R) /\ Len(S(i)) = (IF i + 1 <= n THEN n - (i + 1) + 1 ELSE 0)
        /\ \A j \in 1..(n - (i + 1) + 1) : S(i)[j] = grid[i + 1 + j - 1]
    <3> HIDE DEF R
    <3> QED BY <1>1, <2>1, SubSeqProperties
  <2>3. Len(S(i)) = n - i /\ \A j \in 1..(n - i) : S(i)[j] = grid[j + i]
    <3>1. n - (i + 1) + 1 = n - i /\ \A j \in 1..(n - i) : i + 1 + j - 1 = j + i
      BY <1>1
    <3>2. Len(S(i)) = n - i
      <4> HIDE DEF S, n
      <4> QED BY <1>1, <2>2
    <3> HIDE DEF S, n
    <3> QED BY <2>2, <3>1, <3>2
  <2>4. IsParamSpecs(S(i))
    <3>1. \A j \in 1..(n - i) : j + i \in 1..n
      BY <1>1
    <3> HIDE DEF S
    <3> QED BY <2>2, <2>3, <3>1 DEF IsParamSpecs
  <2> QED BY <2>3, <2>4
<1>3. \A i \in 0..n : Weight(grid, i) = TotalCombinations(S(i))
  BY DEF Weight
<1>4. ASSUME NEW i \in 0..n PROVE Weight(grid, i) \in Nat \ {0}
  <2> DEFINE t == S(i)
  <2>1. IsParamSpecs(t) /\ Len(t) \in Nat
    <3>1. IsParamSpecs(t)
      BY <1>2
    <3> HIDE DEF t
    <3> QED BY <3>1, LenProperties DEF IsParamSpecs
  <2> HIDE DEF t, S
  <2>2. PICK P : Products(P, t) /\ TotalCombinations(t) = P[Len(t)]
    BY <2>1, TotalIs
  <2>3. TotalCombinations(t) \in Nat \ {0}
    BY <2>1, <2>2 DEF Products
  <2> QED BY <1>3, <2>3 DEF t
<1>5. Weight(grid, 0) = TotalCombinations(grid)
  <2>1. SubSeq(grid, 1, Len(grid)) = grid
    <3> HIDE DEF R
    <3> QED BY <1>1, SubSeqFull
  <2>2. 0 \in 0..n /\ 0 + 1 = 1
    BY <1>1
  <2>3. S(0) = grid
    <3> HIDE DEF R
    <3> QED BY <2>1, <2>2
  <2> HIDE DEF S
  <2> QED BY <1>3, <2>2, <2>3
<1>6. Weight(grid, n) = 1
  <2> DEFINE t == S(n)
  <2>1. IsParamSpecs(t) /\ Len(t) = 0
    BY <1>1, <1>2
  <2> HIDE DEF t, S
  <2>2. PICK P : Products(P, t) /\ TotalCombinations(t) = P[Len(t)]
    BY <2>1, TotalIs
  <2>3. TotalCombinations(t) = 1
    BY <2>1, <2>2 DEF Products
  <2> QED BY <1>1, <1>3, <2>3 DEF t
<1>7. ASSUME NEW i \in 1..n
      PROVE  Weight(grid, i - 1) = CandidateCount(grid[i]) * Weight(grid, i)
  <2> DEFINE t == S(i - 1)
             u == S(i)
  <2>1. i - 1 \in 0..n /\ i \in 0..n /\ n - (i - 1) = (n - i) + 1
    BY <1>1
  <2>2. IsParamSpecs(t) /\ Len(t) = n - (i - 1) /\ \A j \in 1..(n - (i - 1)) : t[j] = grid[j + (i - 1)]
    <3> HIDE DEF S
    <3> QED BY <1>2, <2>1
  <2>3. IsParamSpecs(u) /\ Len(u) = n - i /\ \A j \in 1..(n - i) : u[j] = grid[j + i]
    <3> HIDE DEF S
    <3> QED BY <1>2, <2>1
  <2> HIDE DEF t, u, S
  <2>4. Len(t) = Len(u) + 1 /\ t[1] = grid[i]
    <3>1. 1 \in 1..(n - (i - 1)) /\ 1 + (i - 1) = i
      BY <1>1
    <3> HIDE DEF n
    <3> QED BY <1>1, <2>1, <2>2, <2>3, <3>1
  <2>5. \A j \in 1..Len(u) : u[j] = t[j + 1]
    <3>1. \A j \in 1..(n - i) : j + 1 \in 1..(n - (i - 1)) /\ (j + 1) + (i - 1) = j + i
      BY <1>1, <2>1
    <3> QED BY <2>2, <2>3, <3>1
  <2>6. TotalCombinations(t) = CandidateCount(t[1]) * TotalCombinations(u)
    BY <2>2, <2>3, <2>4, <2>5, HeadFactor
  <2> QED BY <1>3, <2>1, <2>4, <2>6 DEF t, u
<1> QED BY <1>4, <1>5, <1>6, <1>7

(* Numbers of the combinations of defaults: D[k] is that of the first k.   *)
Numbers(D, grid) ==
  /\ D \in [0..Len(grid) -> Nat] /\ D[0] = 0
  /\ \A k \in 1..Len(grid) : D[k] = D[k - 1] * CandidateCount(grid[k]) + DefaultK(grid[k])

(* The number of the default combination is the last of them.              *)
LEMMA DefaultIs ==
  ASSUME NEW grid, IsParamSpecs(grid)
  PROVE  \E P : Numbers(P, grid) /\ DefaultIndex(grid) = P[Len(grid)]
<1> DEFINE n == Len(grid)
           F == [p \in Nat \X (1..n) |-> p[1] * CandidateCount(grid[p[2]]) + DefaultK(grid[p[2]])]
<1>1. n \in Nat /\ DOMAIN grid = 1..n
  BY LenProperties DEF IsParamSpecs
<1>2. \A i \in 1..n : CandidateCount(grid[i]) \in Nat /\ DefaultK(grid[i]) \in Nat
  BY Candidates
<1> HIDE DEF n
<1>3. F \in [Nat \X (1..n) -> Nat]
  <2>1. \A x, y \in Nat : x * y \in Nat
    BY Z3
  <2> QED BY <1>2, <2>1
<1> DEFINE A == Nat
<1>4. PICK g \in [SUBSET (1..n) -> A] : Folded(g, F, 0, 1..n)
  <2>1. 0 \in A /\ F \in [A \X (1..n) -> A]
    BY <1>3
  <2> HIDE DEF A, F
  <2> QED BY <1>1, <2>1, FoldsExist
<1> DEFINE Is(h) == h = [s \in SUBSET (1..n) |->
             IF s = {} THEN 0 ELSE h[s \ {Max(s)}] * CandidateCount(grid[Max(s)]) + DefaultK(grid[Max(s)])]
<1>5. \A s \in SUBSET (1..n) : s # {} =>
        /\ Max(s) \in s /\ s \ {Max(s)} \in SUBSET (1..n)
        /\ g[s] = g[s \ {Max(s)}] * CandidateCount(grid[Max(s)]) + DefaultK(grid[Max(s)])
  <2> SUFFICES ASSUME NEW s \in SUBSET (1..n), s # {}
               PROVE  /\ Max(s) \in s /\ s \ {Max(s)} \in SUBSET (1..n)
                      /\ g[s] = g[s \ {Max(s)}] * CandidateCount(grid[Max(s)]) + DefaultK(grid[Max(s)])
    OBVIOUS
  <2>1. Max(s) \in s
    BY <1>1, GreatestIn
  <2>2. Max(s) \in 1..n /\ g[s \ {Max(s)}] \in Nat
    BY <2>1
  <2>3. g[s] = F[<<g[s \ {Max(s)}], Max(s)>>]
    BY <1>4 DEF Folded
  <2> QED BY <2>1, <2>2, <2>3
<1>6. Is(g)
  <2>1. g = [s \in SUBSET (1..n) |-> g[s]]
    OBVIOUS
  <2>2. g[{}] = 0
    BY <1>4 DEF Folded
  <2> QED BY <1>5, <2>1, <2>2
<1>7. DefaultIndex(grid) = g[1..n]
  <2> DEFINE h == CHOOSE h : Is(h)
  <2>1. DefaultIndex(grid) = h[1..n]
    BY <1>1 DEF DefaultIndex, FoldLeft, MapThenFoldSet
  <2>2. Is(h)
    <3> HIDE DEF Is
    <3> QED BY <1>6
  <2>3. h[1..n] = g[1..n]
    <3> DEFINE V == A \cup {h[s] : s \in SUBSET (1..n)}
               H == [p \in V \X (1..n) |-> p[1] * CandidateCount(grid[p[2]]) + DefaultK(grid[p[2]])]
    <3>1. \A s \in SUBSET (1..n) : h[s] \in V /\ g[s] \in V
      OBVIOUS
    <3>2. Folded(h, H, 0, 1..n)
      <4>1. \A s \in SUBSET (1..n) : h[s] = IF s = {} THEN 0 ELSE h[s \ {Max(s)}] * CandidateCount(grid[Max(s)]) + DefaultK(grid[Max(s)])
        <5> HIDE DEF h
        <5> QED BY <2>2
      <4>2. \A s \in SUBSET (1..n) : s # {} => h[s] = H[<<h[s \ {Max(s)}], Max(s)>>]
        <5> HIDE DEF h, V
        <5> QED BY <1>5, <3>1, <4>1
      <4>3. h[{}] = 0
        BY <4>1
      <4> HIDE DEF h, H
      <4> QED BY <4>2, <4>3 DEF Folded
    <3>3. Folded(g, H, 0, 1..n)
      <4>1. \A s \in SUBSET (1..n) : s # {} => g[s] = H[<<g[s \ {Max(s)}], Max(s)>>]
        <5> HIDE DEF V
        <5> QED BY <1>5, <3>1
      <4> HIDE DEF H
      <4> QED BY <1>4, <4>1 DEF Folded
    <3> DEFINE X == 1..n
               zero == 0
               e == g
    <3>4. Folded(h, H, zero, X) /\ Folded(e, H, zero, X) /\ Indices(X) /\ X \subseteq X
      BY <1>1, <3>2, <3>3 DEF Indices
    <3> HIDE DEF h, H, X, zero, e
    <3>5. h[X] = e[X]
      BY <3>4, FoldsAgree
    <3> QED BY <3>5 DEF X, e
  <2> QED BY <2>1, <2>3
<1> DEFINE P == [k \in 0..n |-> g[1..k]]
<1>8. P \in [0..n -> Nat] /\ P[n] = g[1..n] /\ P[0] = 0
  <2>1. \A k \in 0..n : 1..k \in SUBSET (1..n)
    BY <1>1
  <2>2. 1..0 = {}
    OBVIOUS
  <2> QED BY <1>1, <1>4, <2>1, <2>2 DEF Folded
<1>9. \A k \in 1..n : P[k] = P[k - 1] * CandidateCount(grid[k]) + DefaultK(grid[k])
  <2> SUFFICES ASSUME NEW k \in 1..n PROVE P[k] = P[k - 1] * CandidateCount(grid[k]) + DefaultK(grid[k])
    OBVIOUS
  <2> DEFINE s == 1..k
  <2>1. Max(s) = k
    BY GreatestIs
  <2>2. s \in SUBSET (1..n) /\ s # {} /\ s \ {k} = 1..(k - 1) /\ k - 1 \in 0..n /\ k \in 0..n
    <3>1. k \in Int /\ 1 <= k /\ k <= n
      BY <1>1
    <3>2. \A j \in Int : j \in 1..(k - 1) <=> j \in 1..k /\ j # k
      BY <3>1
    <3>3. s \ {k} = 1..(k - 1)
      BY <3>2
    <3> QED BY <1>1, <3>1, <3>3
  <2>3. g[s] = g[1..(k - 1)] * CandidateCount(grid[k]) + DefaultK(grid[k])
    <3> HIDE DEF s
    <3> QED BY <1>5, <2>1, <2>2
  <2> QED BY <2>2, <2>3
<1>10. Numbers(P, grid) /\ DefaultIndex(grid) = P[n]
  <2> HIDE DEF P
  <2> QED BY <1>7, <1>8, <1>9 DEF Numbers, n
<1> HIDE DEF P
<1> QED BY <1>10 DEF n

(* The digits of a combination: the quotients by the weights.              *)
LEMMA Quotients ==
  ASSUME NEW grid, IsParamSpecs(grid), NEW a \in Nat
  PROVE  /\ \A i \in 0..Len(grid) : a \div Weight(grid, i) \in Nat
         /\ a \div Weight(grid, Len(grid)) = a
         /\ \A i \in 1..Len(grid) :
              a \div Weight(grid, i - 1) = (a \div Weight(grid, i)) \div CandidateCount(grid[i])
<1> DEFINE n == Len(grid)
           W(i) == Weight(grid, i)
           c(i) == CandidateCount(grid[i])
<1>1. /\ W(n) = 1 /\ \A i \in 0..n : W(i) \in Nat \ {0}
      /\ \A i \in 1..n : W(i - 1) = c(i) * W(i)
  BY Weights
<1>2. n \in Nat /\ \A i \in 1..n : c(i) \in Nat \ {0}
  BY LenProperties, Candidates DEF IsParamSpecs
<1> HIDE DEF n, W, c
<1>3. \A i \in 0..n : a \div W(i) \in Nat
  BY <1>1, DivBounds
<1>4. a \div W(n) = a
  <2>1. a \div 1 = a
    BY Z3
  <2> QED BY <1>1, <2>1
<1>5. ASSUME NEW i \in 1..n PROVE a \div W(i - 1) = (a \div W(i)) \div c(i)
  <2>1. i \in 0..n
    BY <1>2
  <2> DEFINE w == W(i)
             d == c(i)
  <2>2. w \in Nat \ {0} /\ d \in Nat \ {0} /\ W(i - 1) = d * w
    BY <1>1, <1>2, <2>1
  <2> HIDE DEF w, d
  <2>3. a \div (d * w) = (a \div w) \div d
    BY <2>2, DivTwice
  <2> QED BY <2>2, <2>3 DEF w, d
<1> QED BY <1>3, <1>4, <1>5 DEF n, W, c

(* Digits as values of parameters are different.                           *)
LEMMA ValuesDiffer ==
  ASSUME NEW grid, IsParamSpecs(grid), NEW i \in 1..Len(grid), NEW j \in Nat, NEW k \in Nat,
         ParamValueAt(grid[i], j) = ParamValueAt(grid[i], k)
  PROVE  j = k
<1> DEFINE s == grid[i]
           m == s.step
           b == s.min
<1>1. m \in Nat \ {0} /\ b \in Int
  BY SpecShape
<1>2. b + j * m = b + k * m
  BY DEF ParamValueAt
<1> HIDE DEF m, b
<1>3. j * m \in Int /\ k * m \in Int
  BY <1>1
<1>4. j * m = k * m
  BY <1>1, <1>2, <1>3
<1>5. j <= k /\ k <= j
  BY <1>1, <1>3, <1>4, TimesMonotonic
<1> QED BY <1>5

(* Two numbers of combinations are not the same parameters.                *)
LEMMA CombinationsDiffer ==
  ASSUME NEW grid, IsParamSpecs(grid),
         NEW a \in 0..(TotalCombinations(grid) - 1), NEW b \in 0..(TotalCombinations(grid) - 1),
         CombinationAt(grid, a) = CombinationAt(grid, b)
  PROVE  a = b
<1> DEFINE n == Len(grid)
           Qa(i) == a \div Weight(grid, i)
           Qb(i) == b \div Weight(grid, i)
           c(i) == CandidateCount(grid[i])
           B == {k \in Nat : k <= n /\ Qa(k) # Qb(k)}
<1>1. n \in Nat /\ DOMAIN grid = 1..n /\ \A i \in 1..n : c(i) \in Nat \ {0}
  BY LenProperties, Candidates DEF IsParamSpecs
<1>2. a \in Nat /\ b \in Nat
  <2>1. Weight(grid, 0) = TotalCombinations(grid) /\ Weight(grid, 0) \in Nat \ {0}
    BY <1>1, Weights
  <2> QED BY <2>1
<1>3. /\ Qa(n) = a /\ Qb(n) = b
      /\ \A i \in 0..n : Qa(i) \in Nat /\ Qb(i) \in Nat
      /\ \A i \in 1..n : Qa(i - 1) = Qa(i) \div c(i) /\ Qb(i - 1) = Qb(i) \div c(i)
  BY <1>2, Quotients
<1>4. Qa(0) = Qb(0)
  <2> DEFINE t == TotalCombinations(grid)
  <2>1. Weight(grid, 0) = t /\ t \in Nat \ {0}
    BY <1>1, Weights
  <2> HIDE DEF t
  <2>2. a < t /\ b < t
    BY <1>2, <2>1 DEF t
  <2>3. 0 * t = 0 /\ (0 + 1) * t = t
    BY <2>1
  <2>4. a \div t = 0 /\ b \div t = 0
    BY <1>2, <2>1, <2>2, <2>3, DivIs
  <2> QED BY <2>1, <2>4
<1>5. ASSUME NEW i \in 1..n PROVE Qa(i) % c(i) = Qb(i) % c(i)
  <2>1. CombinationAt(grid, a)[i] = ParamValueAt(grid[i], Qa(i) % c(i))
    BY <1>1 DEF CombinationAt
  <2>2. CombinationAt(grid, b)[i] = ParamValueAt(grid[i], Qb(i) % c(i))
    BY <1>1 DEF CombinationAt
  <2> DEFINE j == Qa(i) % c(i)
             k == Qb(i) % c(i)
  <2>3. j \in Nat /\ k \in Nat
    <3> HIDE DEF Qa, Qb, c
    <3>1. i \in 0..n
      BY <1>1
    <3> QED BY <1>1, <1>3, <3>1, ModIn
  <2>4. ParamValueAt(grid[i], j) = ParamValueAt(grid[i], k)
    BY <2>1, <2>2
  <2> HIDE DEF j, k
  <2>5. j = k
    BY <2>3, <2>4, ValuesDiffer
  <2> QED BY <2>5 DEF j, k
<1> HIDE DEF Qa, Qb, c
<1>6. B = {}
  <2> SUFFICES ASSUME B # {} PROVE FALSE
    OBVIOUS
  <2>1. PICK k \in B : \A j \in Nat : j < k => j \notin B
    <3>1. B \in SUBSET Nat
      OBVIOUS
    <3> HIDE DEF B
    <3> QED BY <3>1, LeastOne
  <2>2. k \in Nat /\ k <= n /\ Qa(k) # Qb(k)
    OBVIOUS
  <2>3. k # 0
    BY <1>4, <2>2
  <2>4. k - 1 \in Nat /\ k - 1 < k /\ k - 1 <= n /\ k \in 1..n /\ k \in 0..n
    BY <1>1, <2>2, <2>3
  <2>5. Qa(k - 1) = Qb(k - 1)
    BY <2>1, <2>4
  <2> DEFINE x == Qa(k)
             y == Qb(k)
             m == c(k)
  <2>6. x \in Nat /\ y \in Nat /\ m \in Nat \ {0} /\ x \div m = y \div m /\ x % m = y % m
    BY <1>1, <1>3, <1>5, <2>4, <2>5
  <2> HIDE DEF x, y, m
  <2>7. x = y
    <3>1. x \in Int /\ y \in Int /\ m \in Int /\ m > 0
      BY <2>6
    <3>2. x = (x \div m) * m + (x % m)
      BY <3>1, DivMod
    <3>3. y = (y \div m) * m + (y % m)
      BY <3>1, DivMod
    <3> QED BY <2>6, <3>2, <3>3
  <2> QED BY <2>2, <2>7 DEF x, y
<1>7. Qa(n) = Qb(n)
  <2> HIDE DEF n
  <2> QED BY <1>1, <1>6
<1> QED BY <1>3, <1>7

(* The number of the default combination is that of the default values, up *)
(* to the tolerance.                                                       *)
LEMMA DefaultCombination ==
  ASSUME NEW grid, IsParamSpecs(grid)
  PROVE  /\ TotalCombinations(grid) \in Nat \ {0}
         /\ DefaultIndex(grid) \in 0..(TotalCombinations(grid) - 1)
         /\ \A i \in DOMAIN grid :
              Near(grid[i], CombinationAt(grid, DefaultIndex(grid))[i], grid[i].default)
<1> DEFINE n == Len(grid)
           x == DefaultIndex(grid)
           Q(i) == x \div Weight(grid, i)
           c(i) == CandidateCount(grid[i])
           d(i) == DefaultK(grid[i])
<1>1. /\ n \in Nat /\ DOMAIN grid = 1..n
      /\ \A i \in 1..n : c(i) \in Nat \ {0} /\ d(i) \in 0..(c(i) - 1)
  BY LenProperties, Candidates DEF IsParamSpecs
<1>2. PICK D : Numbers(D, grid) /\ x = D[n]
  BY DefaultIs
<1>3. /\ D \in [0..n -> Nat] /\ D[0] = 0
      /\ \A i \in 1..n : D[i] = D[i - 1] * c(i) + d(i)
  BY <1>2 DEF Numbers
<1>4. x \in Nat
  <2>1. n \in 0..n
    BY <1>1
  <2> QED BY <1>2, <1>3, <2>1
<1>5. /\ Q(n) = x
      /\ \A i \in 1..n : Q(i - 1) = Q(i) \div c(i)
  BY <1>4, Quotients
<1> HIDE DEF Q, c, d, x, n
<1>6. ASSUME NEW i \in 1..n PROVE D[i] \div c(i) = D[i - 1] /\ D[i] % c(i) = d(i)
  <2> DEFINE p == D[i - 1]
             m == c(i)
             e == d(i)
  <2>1. p \in Nat /\ m \in Nat \ {0} /\ e \in 0..(m - 1) /\ D[i] = p * m + e
    <3>1. i - 1 \in 0..n
      BY <1>1
    <3> QED BY <1>1, <1>3, <3>1
  <2> HIDE DEF p, m, e
  <2>2. (p * m + e) \div m = p /\ (p * m + e) % m = e
    BY <2>1, DigitOf
  <2> QED BY <2>1, <2>2 DEF p, m, e
<1> DEFINE B == {k \in Nat : k <= n /\ Q(n - k) # D[n - k]}
<1>7. B = {}
  <2> SUFFICES ASSUME B # {} PROVE FALSE
    OBVIOUS
  <2>1. PICK k \in B : \A j \in Nat : j < k => j \notin B
    <3>1. B \in SUBSET Nat
      OBVIOUS
    <3> HIDE DEF B
    <3> QED BY <3>1, LeastOne
  <2>2. k \in Nat /\ k <= n /\ Q(n - k) # D[n - k]
    OBVIOUS
  <2>3. k # 0
    <3>1. n - 0 = n
      BY <1>1
    <3> QED BY <1>2, <1>5, <2>2, <3>1
  <2> DEFINE i == n - (k - 1)
  <2>4. k - 1 \in Nat /\ k - 1 < k /\ k - 1 <= n /\ i \in 1..n /\ i - 1 = n - k
    BY <1>1, <2>2, <2>3
  <2>5. Q(i) = D[i]
    BY <2>1, <2>4
  <2> HIDE DEF i, B
  <2>6. Q(i - 1) = D[i - 1]
    BY <1>5, <1>6, <2>4, <2>5
  <2> QED BY <2>2, <2>4, <2>6
<1>8. \A i \in 0..n : Q(i) = D[i]
  <2> SUFFICES ASSUME NEW i \in 0..n PROVE Q(i) = D[i]
    OBVIOUS
  <2>1. n - i \in Nat /\ n - i <= n /\ n - (n - i) = i
    BY <1>1
  <2> DEFINE k == n - i
  <2>2. Q(n - k) = D[n - k]
    <3> HIDE DEF k
    <3> QED BY <1>7, <2>1 DEF k
  <2> QED BY <2>1, <2>2
<1>9. TotalCombinations(grid) \in Nat \ {0} /\ x \in 0..(TotalCombinations(grid) - 1)
  <2> DEFINE t == TotalCombinations(grid)
  <2>1. Weight(grid, 0) = t /\ t \in Nat \ {0} /\ 0 \in 0..n
    <3>1. 0 \in 0..n
      BY <1>1
    <3> QED BY <3>1, Weights DEF n
  <2>2. x \div t = 0
    <3>1. Q(0) = 0
      BY <1>3, <1>8, <2>1
    <3> QED BY <2>1, <3>1 DEF Q
  <2> HIDE DEF t
  <2>3. x < (0 + 1) * t /\ (0 + 1) * t = t
    BY <1>4, <2>1, <2>2, DivBounds
  <2>4. x \in 0..(t - 1)
    BY <1>4, <2>1, <2>3
  <2> QED BY <2>1, <2>4 DEF t
<1>10. ASSUME NEW i \in 1..n PROVE Near(grid[i], CombinationAt(grid, x)[i], grid[i].default)
  <2>1. Q(i) % c(i) = d(i)
    <3>1. i \in 0..n
      BY <1>1
    <3> QED BY <1>6, <1>8, <3>1
  <2>2. CombinationAt(grid, x)[i] = ParamValueAt(grid[i], Q(i) % c(i))
    BY <1>1 DEF CombinationAt, Q, c
  <2>3. Near(grid[i], ParamValueAt(grid[i], d(i)), grid[i].default)
    BY Candidates DEF n, d
  <2> QED BY <2>1, <2>2, <2>3
<1> QED BY <1>1, <1>9, <1>10 DEF x

(* run accepts every combination.                                          *)
LEMMA CombinationResolved ==
  ASSUME NEW grid, IsParamSpecs(grid), NEW a \in 0..(TotalCombinations(grid) - 1)
  PROVE  CombinationAt(grid, a) \in ResolvedParams(grid)
<1> DEFINE n == Len(grid)
           d(i) == (a \div Weight(grid, i)) % CandidateCount(grid[i])
           x == CombinationAt(grid, a)
           V == UNION {Resolved(grid[i]) : i \in DOMAIN grid}
<1>1. n \in Nat /\ DOMAIN grid = 1..n /\ \A i \in 1..n : CandidateCount(grid[i]) \in Nat \ {0}
  BY LenProperties, Candidates DEF IsParamSpecs
<1>2. a \in Nat
  <2>1. Weight(grid, 0) = TotalCombinations(grid) /\ Weight(grid, 0) \in Nat \ {0}
    BY <1>1, Weights
  <2> QED BY <2>1
<1>3. ASSUME NEW i \in 1..n PROVE x[i] \in Resolved(grid[i])
  <2> DEFINE w == a \div Weight(grid, i)
             c == CandidateCount(grid[i])
  <2>1. w \in Nat
    <3>1. i \in 0..n
      BY <1>1
    <3> QED BY <1>2, <3>1, Quotients
  <2>2. c \in Nat \ {0}
    BY <1>1
  <2>3. x[i] = ParamValueAt(grid[i], w % c)
    BY <1>1 DEF CombinationAt
  <2> HIDE DEF w
  <2>4. w % c \in 0..(c - 1)
    <3> HIDE DEF c
    <3> QED BY <2>1, <2>2
  <2> QED BY <2>3, <2>4, Candidates
<1>4. x = [i \in DOMAIN grid |-> x[i]]
  BY DEF CombinationAt
<1> HIDE DEF x
<1>5. x \in [DOMAIN grid -> V]
  BY <1>1, <1>3, <1>4
<1> QED BY <1>1, <1>3, <1>5 DEF ResolvedParams, x

(* The selection begins with the default combination and has no combination*)
(* twice; it is the whole grid or as many as the command may run.          *)
LEMMA SelectionShape ==
  ASSUME NEW grid, IsParamSpecs(grid),
         NEW m \in Nat \ {0}, NEW ind \in SelectIndices(grid, m),
         NEW total, total = TotalCombinations(grid)
  PROVE  /\ ind \in Seq(0..(total - 1)) /\ Len(ind) = IF total <= m THEN total ELSE m
         /\ ind[1] = DefaultIndex(grid)
         /\ \A i, j \in 1..Len(ind) : i # j => ind[i] # ind[j]
<1> DEFINE first == DefaultIndex(grid)
           pool == total - 1
           Actual(j) == IF j < first THEN j ELSE j + 1
           R == 0..(total - 1)
<1>1. total \in Nat \ {0} /\ first \in R
  BY DefaultCombination
<1>2. \/ total <= m /\ ind = <<first>> \o [i \in 1..pool |-> Actual(i - 1)]
      \/ /\ ~(total <= m)
         /\ \E sample \in [1..(m - 1) -> 0..(pool - 1)] :
              /\ \A i, j \in DOMAIN sample : i # j => sample[i] # sample[j]
              /\ ind = <<first>> \o [i \in 1..(m - 1) |-> Actual(sample[i])]
  BY DEF SelectIndices
<1> HIDE DEF first
<1>3. /\ \A j \in 0..(pool - 1) : Actual(j) \in R /\ Actual(j) # first
      /\ \A j, k \in 0..(pool - 1) : j # k => Actual(j) # Actual(k)
  BY <1>1
<1>4. ASSUME NEW n \in Nat, NEW f \in [1..n -> 0..(pool - 1)],
             \A i, j \in 1..n : i # j => f[i] # f[j],
             ind = <<first>> \o [i \in 1..n |-> Actual(f[i])]
      PROVE  /\ ind \in Seq(R) /\ Len(ind) = n + 1 /\ ind[1] = first
             /\ \A i, j \in 1..Len(ind) : i # j => ind[i] # ind[j]
  <2> DEFINE g == [i \in 1..n |-> Actual(f[i])]
             e == <<first>>
  <2>1. /\ g \in [1..n -> R] /\ \A i \in 1..n : g[i] # first
        /\ \A i, j \in 1..n : i # j => g[i] # g[j]
    <3> HIDE DEF Actual, R
    <3> QED BY <1>3, <1>4
  <2>2. e \in Seq(R) /\ Len(e) = 1 /\ e[1] = first
    <3> HIDE DEF R
    <3> QED BY <1>1
  <2> HIDE DEF g, e, R
  <2>3. g \in Seq(R) /\ Len(g) = n
    BY <2>1, SeqDef, LenProperties
  <2>4. /\ ind \in Seq(R) /\ Len(ind) = n + 1
        /\ \A i \in 1..(n + 1) : ind[i] = IF i <= 1 THEN e[i] ELSE g[i - 1]
    <3>1. ind = e \o g
      BY <1>4 DEF e, g
    <3>2. /\ e \o g \in Seq(R) /\ Len(e \o g) = Len(e) + Len(g)
          /\ \A i \in 1..(Len(e) + Len(g)) : (e \o g)[i] = IF i <= Len(e) THEN e[i] ELSE g[i - Len(e)]
      BY <2>2, <2>3, ConcatProperties
    <3>3. Len(e) + Len(g) = n + 1
      BY <2>2, <2>3
    <3> QED BY <2>2, <3>1, <3>2, <3>3
  <2>5. ind[1] = first /\ \A i \in 2..(n + 1) : ind[i] = g[i - 1] /\ i - 1 \in 1..n
    BY <2>2, <2>4
  <2>6. ASSUME NEW i \in 1..(n + 1), NEW j \in 1..(n + 1), i # j PROVE ind[i] # ind[j]
    <3>1. CASE i = 1
      <4>1. j \in 2..(n + 1)
        BY <2>6, <3>1
      <4> QED BY <2>1, <2>5, <3>1, <4>1
    <3>2. CASE j = 1
      <4>1. i \in 2..(n + 1)
        BY <2>6, <3>2
      <4> QED BY <2>1, <2>5, <3>2, <4>1
    <3>3. CASE i # 1 /\ j # 1
      <4>1. i \in 2..(n + 1) /\ j \in 2..(n + 1) /\ i - 1 # j - 1
        BY <2>6, <3>3
      <4> QED BY <2>1, <2>5, <4>1
    <3> QED BY <3>1, <3>2, <3>3
  <2> QED BY <2>4, <2>5, <2>6
<1>5. CASE total <= m /\ ind = <<first>> \o [i \in 1..pool |-> Actual(i - 1)]
  <2> DEFINE f == [i \in 1..pool |-> i - 1]
  <2>1. /\ pool \in Nat /\ f \in [1..pool -> 0..(pool - 1)]
        /\ \A i, j \in 1..pool : i # j => f[i] # f[j]
    BY <1>1
  <2>2. ind = <<first>> \o [i \in 1..pool |-> Actual(f[i])]
    BY <1>5
  <2> HIDE DEF f, R, Actual, pool
  <2>3. /\ ind \in Seq(R) /\ Len(ind) = pool + 1 /\ ind[1] = first
        /\ \A i, j \in 1..Len(ind) : i # j => ind[i] # ind[j]
    BY <1>4, <2>1, <2>2
  <2>4. pool + 1 = total
    BY <1>1 DEF pool
  <2> QED BY <1>5, <2>3, <2>4 DEF R, first
<1>6. ASSUME ~(total <= m), NEW f \in [1..(m - 1) -> 0..(pool - 1)],
             \A i, j \in DOMAIN f : i # j => f[i] # f[j],
             ind = <<first>> \o [i \in 1..(m - 1) |-> Actual(f[i])]
      PROVE  /\ ind \in Seq(R) /\ Len(ind) = m /\ ind[1] = first
             /\ \A i, j \in 1..Len(ind) : i # j => ind[i] # ind[j]
  <2> DEFINE n == m - 1
  <2>1. n \in Nat /\ n + 1 = m /\ DOMAIN f = 1..n
    OBVIOUS
  <2>2. f \in [1..n -> 0..(pool - 1)] /\ ind = <<first>> \o [i \in 1..n |-> Actual(f[i])]
    BY <1>6
  <2> HIDE DEF n, R, Actual
  <2>3. \A i, j \in 1..n : i # j => f[i] # f[j]
    BY <1>6, <2>1
  <2> QED BY <1>4, <2>1, <2>2, <2>3
<1> QED BY <1>2, <1>5, <1>6 DEF first, R

(* The combinations or the parameter set that a command runs.              *)
SelectionInv ==
  LET total == TotalCombinations(specs)
  IN  /\ specs \in Specs /\ command \in {"sweep", "run"}
      /\ indices \in Seq(0..(total - 1))
      /\ IF command = "run" THEN given \in ResolvedParams(specs) ELSE indices[1] = DefaultIndex(specs)
      /\ Len(indices) = IF command = "run" THEN 1 ELSE IF total <= MaxRuns THEN total ELSE MaxRuns
      /\ \A i, j \in 1..Len(indices) : i # j => indices[i] # indices[j]

(* They are selected when the command starts.                              *)
LEMMA SelectionInvInit == SweepInit => SelectionInv
<1> SUFFICES ASSUME SweepInit PROVE SelectionInv
  OBVIOUS
<1> DEFINE total == TotalCombinations(specs)
           first == DefaultIndex(specs)
           size == IF total <= MaxRuns THEN total ELSE MaxRuns
<1>1. /\ specs \in Specs /\ command \in {"sweep", "run"}
      /\ command = "run" => indices = <<0>> /\ given \in ResolvedParams(specs)
      /\ command = "sweep" => indices \in SelectIndices(specs, MaxRuns)
  BY DEF SweepInit
<1>2. IsParamSpecs(specs) /\ MaxRuns \in Nat \ {0}
  BY <1>1, SweepAssumption DEF SweepAssumption
<1>3. total \in Nat \ {0} /\ first \in 0..(total - 1)
  BY <1>2, DefaultCombination
<1>4. CASE command = "run"
  <2>1. indices = <<0>> /\ given \in ResolvedParams(specs)
    BY <1>1, <1>4
  <2> HIDE DEF total
  <2>2. indices \in Seq(0..(total - 1)) /\ Len(indices) = 1
    BY <1>3, <2>1
  <2> QED BY <1>1, <1>4, <2>1, <2>2 DEF SelectionInv, total
<1>5. CASE command = "sweep"
  <2>1. indices \in SelectIndices(specs, MaxRuns)
    BY <1>1, <1>5
  <2>2. /\ indices \in Seq(0..(total - 1)) /\ Len(indices) = size /\ indices[1] = first
        /\ \A i, j \in 1..Len(indices) : i # j => indices[i] # indices[j]
    BY <1>2, <2>1, SelectionShape
  <2> QED BY <1>1, <1>5, <2>2 DEF SelectionInv
<1> QED BY <1>1, <1>4, <1>5

-----------------------------------------------------------------------------
(* The sweep.  A worker holds a combination from its claim until it has    *)
(* sent the record.                                                        *)
Holding(w) == worker[w].at \in {"lookup", "init", "compute", "register", "send"}

(* All combinations have been saved, each once.                            *)
Whole == \A i \in DOMAIN indices : saved[i] = 1

SweepTypes ==
  /\ Len(indices) \in Nat /\ DOMAIN indices = 1..Len(indices)
  /\ command = "run" => Len(indices) = 1
  /\ saved \in [1..Len(indices) -> Nat]
  /\ next \in 1..(Len(indices) + 1) /\ received \in Nat
  /\ channel \in Seq(1..Len(indices))
  /\ worker = [w \in Workers |-> [at |-> worker[w].at, job |-> worker[w].job,
                                  todo |-> worker[w].todo, slot |-> worker[w].slot]]
  /\ \A w \in Workers : Holding(w) => worker[w].job \in 1..Len(indices)

(* Where the command is, and what that says of the batch.                  *)
MainInv ==
  /\ main \in {"drain", "join", "run", "save", "complete"} => batch = "running"
  /\ main = "register" => batch = "none"
  /\ main \in {"run", "save"} => command = "run" /\ \A i \in DOMAIN indices : saved[i] = 0
  /\ main \in {"complete", "print"} \/ batch = "completed" => Whole
  /\ main = "join" => Whole \/ SweepFailed
  /\ main \in {"register", "drain", "join"} => batch # "completed"
  /\ main = "print" \/ code = 0 => batch = "completed"

(* The queue is cancelled for a reason that fails the sweep.               *)
CancelInv == cancelled \/ (\E w \in Workers : worker[w].at = "cancel") => SweepFailed

(* Every combination that was claimed is in one place: held by a worker, in*)
(* the channel, or saved.                                                  *)
PlaceInv ==
  /\ \A w \in Workers : Holding(w) =>
       /\ worker[w].job < next /\ saved[worker[w].job] = 0
       /\ \A j \in DOMAIN channel : channel[j] # worker[w].job
  /\ \A v, w \in Workers : Holding(v) /\ Holding(w) /\ worker[v].job = worker[w].job => v = w
  /\ \A j \in DOMAIN channel : channel[j] < next /\ saved[channel[j]] = 0
  /\ \A i, j \in DOMAIN channel : channel[i] = channel[j] => i = j
  /\ \A i \in 1..Len(indices) :
       /\ i < next => \/ saved[i] = 1
                      \/ \E j \in DOMAIN channel : channel[j] = i
                      \/ \E w \in Workers : Holding(w) /\ worker[w].job = i
       /\ i >= next => saved[i] = 0
       /\ saved[i] \in {0, 1}

(* A worker that has ended left nothing to claim, and what was received is *)
(* saved.                                                                  *)
CountInv ==
  /\ \A w \in Workers : worker[w].at = "gone" => next > Len(indices)
  /\ received = Cardinality({i \in 1..Len(indices) : saved[i] = 1})

DrainInv == main \in {"register", "drain"} /\ ~SweepFailed => PlaceInv /\ CountInv

(* Before the workers are started nothing is claimed.                      *)
StartInv ==
  main = "register" =>
    /\ next = 1 /\ received = 0 /\ channel = << >> /\ saved = [i \in 1..Len(indices) |-> 0] /\ ~SweepFailed
    /\ \A w \in Workers : worker[w].at = "unborn"

(* The inductive invariant.                                                *)
SweepInv == SweepTypes /\ MainInv /\ CancelInv /\ StartInv /\ DrainInv

(* A command starts with nothing claimed and nothing saved.                *)
LEMMA SweepInvInit == SweepInit => SweepInv
<1> SUFFICES ASSUME SweepInit PROVE SweepInv
  OBVIOUS
<1>0. specs \in Specs /\ command \in {"sweep", "run"}
  BY DEF SweepInit
<1>1. Len(indices) \in Nat /\ DOMAIN indices = 1..Len(indices) /\ (command = "run" => Len(indices) = 1)
  BY SelectionInvInit, LenProperties DEF SelectionInv
<1> DEFINE fresh == [at |-> "unborn", job |-> 0, todo |-> << >>, slot |-> 0]
<1>2. /\ main = "register" /\ code = -1 /\ batch = "none" /\ next = 1 /\ cancelled = FALSE
      /\ saved = [i \in 1..Len(indices) |-> 0] /\ channel = << >> /\ received = 0
      /\ worker = [w \in Workers |-> fresh] /\ ~SweepFailed
  BY <1>1 DEF SweepInit, SweepFailed
<1>3. \A w \in Workers : worker[w].at = "unborn"
  BY <1>2
<1>4. SweepTypes
  <2>1. worker = [w \in Workers |-> [at |-> worker[w].at, job |-> worker[w].job,
                                     todo |-> worker[w].todo, slot |-> worker[w].slot]]
    BY <1>2
  <2> QED BY <1>1, <1>2, <1>3, <2>1 DEF SweepTypes, Holding
<1>5. MainInv /\ StartInv
  BY <1>2, <1>3 DEF MainInv, StartInv
<1>6. CancelInv
  BY <1>2, <1>3 DEF CancelInv
<1>7. DrainInv
  <2>1. {i \in 1..Len(indices) : saved[i] = 1} = {}
    BY <1>2
  <2>2. CountInv
    BY <1>2, <1>3, <2>1, FS_EmptySet DEF CountInv
  <2>3. PlaceInv
    BY <1>1, <1>2, <1>3 DEF PlaceInv, Holding
  <2> QED BY <2>2, <2>3 DEF DrainInv
<1> QED BY <1>4, <1>5, <1>6, <1>7 DEF SweepInv

-----------------------------------------------------------------------------
(* The steps of a worker.                                                  *)

Shape(f) == f = [w \in Workers |-> [at |-> f[w].at, job |-> f[w].job, todo |-> f[w].todo, slot |-> f[w].slot]]

(* Worker w goes to another place with the same combination.               *)
Moved(w, at) ==
  /\ Shape(worker') /\ worker'[w].at = at /\ worker'[w].job = worker[w].job
  /\ \A v \in Workers : v # w => worker'[v] = worker[v]

(* The four ways in which a step changes the entry of a worker.            *)
LEMMA MovedIs ==
  ASSUME NEW w \in Workers, NEW at, NEW todo, NEW slot, Shape(worker),
         \/ worker' = [worker EXCEPT ![w].at = at]
         \/ worker' = [worker EXCEPT ![w].at = at, ![w].slot = slot]
         \/ worker' = [worker EXCEPT ![w].at = at, ![w].todo = todo, ![w].slot = slot]
  PROVE  Moved(w, at)
<1>1. DOMAIN worker = Workers /\ \A v \in Workers :
        worker[v] = [at |-> worker[v].at, job |-> worker[v].job, todo |-> worker[v].todo, slot |-> worker[v].slot]
  BY DEF Shape
<1>2. PICK t, s : worker' = [worker EXCEPT ![w] = [at |-> at, job |-> worker[w].job, todo |-> t, slot |-> s]]
  BY <1>1
<1>3. DOMAIN worker' = Workers /\ worker'[w] = [at |-> at, job |-> worker[w].job, todo |-> t, slot |-> s]
  BY <1>1, <1>2
<1>4. \A v \in Workers : v # w => worker'[v] = worker[v]
  BY <1>1, <1>2
<1>5. \A v \in Workers : worker'[v] = [at |-> worker'[v].at, job |-> worker'[v].job,
                                       todo |-> worker'[v].todo, slot |-> worker'[v].slot]
  BY <1>1, <1>3, <1>4
<1>6. worker' = [v \in Workers |-> worker'[v]]
  BY <1>1, <1>2
<1>7. Shape(worker')
  BY <1>5, <1>6 DEF Shape
<1> QED BY <1>3, <1>4, <1>7 DEF Moved

(* Nothing but the cache and the worker changes.                           *)
Quiet == UNCHANGED <<choiceVars, main, batchVars>>

(* The worker computes with the combination it holds.                      *)
Works(w) ==
  /\ Holding(w) /\ Quiet /\ UNCHANGED <<queueVars, channel, received>> /\ (SweepFailed' <=> SweepFailed)
  /\ \E at \in {"lookup", "init", "compute", "register", "send"} : Moved(w, at)

(* It fails with the combination.                                          *)
Fails(w) ==
  /\ Holding(w) /\ Quiet /\ UNCHANGED queueVars /\ UNCHANGED <<channel, received, finalErr>>
  /\ SweepFailed' /\ Moved(w, "cancel")

(* It ends.                                                                *)
Ends(w) ==
  /\ Quiet /\ UNCHANGED resultVars /\ next' = next /\ Moved(w, "gone")
  /\ \/ worker[w].at = "cancel"
     \/ worker[w].at = "claim" /\ cancelled' = cancelled /\ (cancelled \/ next > Len(indices))

(* It claims the next combination.                                         *)
Claims(w) ==
  /\ worker[w].at = "claim" /\ next <= Len(indices) /\ next' = next + 1
  /\ Quiet /\ UNCHANGED <<cancelled, resultVars>>
  /\ Shape(worker') /\ worker'[w].at = "lookup" /\ worker'[w].job = next
  /\ \A v \in Workers : v # w => worker'[v] = worker[v]

(* It sends the record.                                                    *)
Sends(w) ==
  /\ worker[w].at = "send" /\ channel' = Append(channel, worker[w].job) /\ Moved(w, "claim")
  /\ Quiet /\ UNCHANGED <<queueVars, received, finalErr, firstFatal, firstPanic>>

(* Every step of a worker is one of these.                                 *)
LEMMA WorkerCases ==
  ASSUME SweepTypes, NEW w \in Workers, WorkerNext(w)
  PROVE  Works(w) \/ Fails(w) \/ Ends(w) \/ Claims(w) \/ Sends(w)
<1>0. Shape(worker)
  BY DEF SweepTypes, Shape
<1>1. CASE Claim(w)
  <2>1. CASE cancelled \/ next > Len(indices)
    <3>1. worker' = [worker EXCEPT ![w].at = "gone"] /\ next' = next
      BY <1>1, <2>1 DEF Claim, Go
    <3>2. Moved(w, "gone")
      BY <1>0, <3>1, MovedIs
    <3> QED BY <1>1, <2>1, <3>1, <3>2 DEF Claim, WorkerStep, Ends, Quiet
  <2>2. CASE ~(cancelled \/ next > Len(indices))
    <3>1. /\ worker' = [worker EXCEPT ![w] = [at |-> "lookup", job |-> next, todo |-> Uses[indices[next]], slot |-> 0]]
          /\ next' = next + 1
      BY <1>1, <2>2 DEF Claim
    <3>2. /\ Shape(worker') /\ worker'[w].at = "lookup" /\ worker'[w].job = next
          /\ \A v \in Workers : v # w => worker'[v] = worker[v]
      BY <1>0, <3>1 DEF Shape
    <3>3. next <= Len(indices)
      BY <2>2 DEF SweepTypes
    <3> QED BY <1>1, <3>1, <3>2, <3>3 DEF Claim, WorkerStep, Claims, Quiet
  <2> QED BY <2>1, <2>2
<1>2. CASE LookUp(w)
  <2>1. Moved(w, "lookup") \/ Moved(w, "init")
    <3>1. NextKey(w) \/ \E slot : worker' = [worker EXCEPT ![w].at = "init", ![w].slot = slot]
      BY <1>2, Zenon DEF LookUp
    <3>2. CASE NextKey(w)
      BY <1>0, <3>2, MovedIs DEF NextKey
    <3>3. ASSUME NEW slot, worker' = [worker EXCEPT ![w].at = "init", ![w].slot = slot]
          PROVE  Moved(w, "init")
      BY <1>0, <3>3, MovedIs
    <3> QED BY <3>1, <3>2, <3>3
  <2> QED BY <1>2, <2>1 DEF LookUp, WorkerStep, Works, Holding, Quiet, resultVars, SweepFailed
<1>3. CASE GetOrInit(w)
  <2>1. Moved(w, "register") \/ Moved(w, "compute")
    BY <1>0, <1>3, MovedIs DEF GetOrInit, Go
  <2> QED BY <1>3, <2>1 DEF GetOrInit, WorkerStep, Works, Holding, Quiet, resultVars, SweepFailed
<1>4. CASE Register(w)
  <2>1. Moved(w, "lookup")
    BY <1>0, <1>4, MovedIs DEF Register, NextKey
  <2> QED BY <1>4, <2>1 DEF Register, WorkerStep, Works, Holding, Quiet, resultVars, SweepFailed
<1>5. CASE CancelQueue(w)
  <2>1. Moved(w, "gone")
    BY <1>0, <1>5, MovedIs DEF CancelQueue, Go
  <2> QED BY <1>5, <2>1 DEF CancelQueue, WorkerStep, Ends, Quiet
<1>6. CASE Send(w)
  <2>1. Moved(w, "claim")
    BY <1>0, <1>6, MovedIs DEF Send, Go
  <2> QED BY <1>6, <2>1 DEF Send, WorkerStep, Sends, Quiet
<1>7. ASSUME NEW panics \in BOOLEAN, ComputeSeries(w, panics)
      PROVE  Works(w) \/ Fails(w)
  <2>1. CASE panics
    <3>1. Moved(w, "cancel")
      BY <1>0, <1>7, <2>1, MovedIs DEF ComputeSeries, Go
    <3> QED BY <1>7, <2>1, <3>1 DEF ComputeSeries, WorkerStep, Fails, Holding, Quiet, SweepFailed
  <2>2. CASE ~panics
    <3>1. Moved(w, "register")
      BY <1>0, <1>7, <2>2, MovedIs DEF ComputeSeries, Go
    <3> QED BY <1>7, <2>2, <3>1 DEF ComputeSeries, WorkerStep, Works, Holding, Quiet, SweepFailed
  <2> QED BY <2>1, <2>2
<1>8. ASSUME NEW outcome \in {"record", "fatal", "panic"}, Result(w, outcome)
      PROVE  Works(w) \/ Fails(w)
  <2>1. CASE outcome # "record"
    <3>1. Moved(w, "cancel")
      BY <1>0, <1>8, <2>1, MovedIs DEF Result, Go
    <3> QED BY <1>8, <2>1, <3>1 DEF Result, WorkerStep, Fails, Holding, Quiet, SweepFailed
  <2>2. CASE outcome = "record"
    <3>1. Moved(w, "send")
      BY <1>0, <1>8, <2>2, MovedIs DEF Result, Go
    <3> QED BY <1>8, <2>2, <3>1 DEF Result, WorkerStep, Works, Holding, Quiet, SweepFailed
  <2> QED BY <2>1, <2>2
<1> QED BY <1>1, <1>2, <1>3, <1>4, <1>5, <1>6, <1>7, <1>8 DEF WorkerNext

(* What is left of the invariant when a worker makes a step.               *)
LEMMA WorkerKeepsRest ==
  ASSUME SweepInv, NEW w \in Workers, Works(w) \/ Fails(w) \/ Ends(w) \/ Claims(w) \/ Sends(w)
  PROVE  SweepTypes' /\ MainInv' /\ StartInv' /\ CancelInv'
<1>0. Quiet /\ received' = received /\ Shape(worker')
  BY DEF Works, Fails, Ends, Claims, Sends, Moved, resultVars
<1>1. UNCHANGED <<command, specs, indices, main, code, batch, saved, ok>>
  BY <1>0 DEF Quiet, choiceVars, batchVars
<1>2. SweepFailed => SweepFailed'
  BY DEF Works, Fails, Ends, Claims, Sends, resultVars, SweepFailed
<1>3. next' \in 1..(Len(indices) + 1)
  BY <1>1 DEF Works, Fails, Ends, Claims, Sends, queueVars, SweepInv, SweepTypes
<1>4. channel' \in Seq(1..Len(indices))
  <2>1. CASE Sends(w)
    <3>1. worker[w].job \in 1..Len(indices)
      BY <2>1 DEF Sends, SweepInv, Holding, SweepTypes
    <3> QED BY <2>1, <3>1 DEF Sends, SweepInv, SweepTypes
  <2>2. CASE ~Sends(w)
    BY <2>2 DEF Works, Fails, Ends, Claims, resultVars, SweepInv, SweepTypes
  <2> QED BY <2>1, <2>2
<1>5. SweepTypes'
  <2>1. \A v \in Workers : v # w => worker'[v] = worker[v]
    BY DEF Works, Fails, Ends, Claims, Sends, Moved
  <2>2. \A v \in Workers : v # w /\ Holding(v)' => worker'[v].job \in 1..Len(indices)
    BY <2>1 DEF SweepInv, SweepTypes, Holding
  <2>3. Holding(w)' => worker'[w].job \in 1..Len(indices)
    BY DEF Works, Fails, Ends, Claims, Sends, Moved, Holding, SweepInv, SweepTypes
  <2> QED BY <1>0, <1>1, <1>3, <1>4, <2>2, <2>3 DEF SweepInv, SweepTypes, Shape
<1>6. MainInv'
  BY <1>1, <1>2 DEF SweepInv, MainInv, Whole
<1>7. main # "register"
  BY DEF SweepInv, StartInv, Works, Fails, Ends, Claims, Sends, Holding
<1>8. StartInv'
  BY <1>1, <1>7 DEF StartInv
<1>9. CancelInv'
  <2>1. Works(w) => cancelled' = cancelled /\ worker'[w].at # "cancel"
    BY DEF Works, Moved, queueVars
  <2>2. Ends(w) => (cancelled' => cancelled \/ worker[w].at = "cancel") /\ worker'[w].at # "cancel"
    BY DEF Ends, Moved
  <2>3. Claims(w) \/ Sends(w) => cancelled' = cancelled /\ worker'[w].at # "cancel"
    BY DEF Claims, Sends, Moved, queueVars
  <2>4. Fails(w) => SweepFailed'
    BY DEF Fails
  <2>5. \A v \in Workers : v # w => worker'[v] = worker[v]
    BY DEF Works, Fails, Ends, Claims, Sends, Moved
  <2> QED BY <1>2, <2>1, <2>2, <2>3, <2>4, <2>5 DEF SweepInv, CancelInv
<1> QED BY <1>5, <1>6, <1>8, <1>9

(* Every combination stays in one place when a worker makes a step.        *)
LEMMA WorkerKeepsPlaces ==
  ASSUME SweepInv, NEW w \in Workers, Works(w) \/ Fails(w) \/ Ends(w) \/ Claims(w) \/ Sends(w)
  PROVE  DrainInv'
<1> SUFFICES ASSUME main' \in {"register", "drain"}, ~SweepFailed' PROVE PlaceInv' /\ CountInv'
  BY DEF DrainInv
<1>0. UNCHANGED <<indices, main, saved, received>>
  BY DEF Works, Fails, Ends, Claims, Sends, resultVars, Quiet, choiceVars, batchVars
<1>1. ~SweepFailed /\ PlaceInv /\ CountInv
  BY <1>0 DEF Works, Fails, Ends, Claims, Sends, resultVars, SweepFailed, SweepInv, DrainInv
<1>2. \A v \in Workers : v # w => worker'[v] = worker[v]
  BY DEF Works, Fails, Ends, Claims, Sends, Moved
<1>3. \A v \in Workers : v # w => (Holding(v)' <=> Holding(v))
  BY <1>2 DEF Holding
<1>4. Len(indices) \in Nat /\ next \in 1..(Len(indices) + 1) /\ channel \in Seq(1..Len(indices))
      /\ saved \in [1..Len(indices) -> Nat] /\ SweepTypes
  BY DEF SweepInv, SweepTypes
<1>5. CASE Works(w)
  <2>1. Holding(w) /\ Holding(w)' /\ worker'[w].job = worker[w].job /\ worker'[w].at # "gone"
        /\ next' = next /\ channel' = channel
    BY <1>5 DEF Works, Moved, Holding, queueVars
  <2>2. \A v \in Workers : (Holding(v)' <=> Holding(v)) /\ worker'[v].job = worker[v].job
    BY <1>2, <1>3, <2>1
  <2>3. PlaceInv'
    BY <1>0, <1>1, <2>1, <2>2 DEF PlaceInv
  <2>4. CountInv'
    BY <1>0, <1>1, <1>2, <2>1 DEF CountInv
  <2> QED BY <2>3, <2>4
<1>6. CASE Fails(w)
  BY <1>6 DEF Fails
<1>7. CASE Ends(w)
  <2>1. ~cancelled /\ worker[w].at # "cancel"
    BY <1>1 DEF SweepInv, CancelInv
  <2>2. /\ worker[w].at = "claim" /\ next > Len(indices) /\ worker'[w].at = "gone"
        /\ next' = next /\ channel' = channel
    BY <1>7, <2>1 DEF Ends, Moved, resultVars
  <2>3. ~Holding(w) /\ ~Holding(w)'
    BY <2>2 DEF Holding
  <2>4. PlaceInv'
    <3>1. \A v \in Workers : (Holding(v)' <=> Holding(v)) /\ (Holding(v) => worker'[v].job = worker[v].job)
      BY <1>2, <1>3, <2>3
    <3> QED BY <1>0, <1>1, <2>2, <3>1 DEF PlaceInv
  <2>5. CountInv'
    BY <1>0, <1>1, <1>2, <2>2 DEF CountInv
  <2> QED BY <2>4, <2>5
<1>8. CASE Claims(w)
  <2>1. /\ ~Holding(w) /\ Holding(w)' /\ worker'[w].job = next /\ next' = next + 1 /\ next <= Len(indices)
        /\ channel' = channel /\ worker'[w].at # "gone"
    BY <1>8 DEF Claims, Holding, resultVars
  <2>2. next \in 1..Len(indices) /\ saved[next] = 0
    BY <1>1, <1>4, <2>1 DEF PlaceInv
  <2>3. \A j \in DOMAIN channel : channel[j] \in 1..Len(indices) /\ channel[j] < next
    BY <1>1, <1>4 DEF PlaceInv
  <2>4. \A v \in Workers : v # w /\ Holding(v)' =>
          /\ Holding(v) /\ worker'[v].job = worker[v].job
          /\ worker[v].job \in 1..Len(indices) /\ worker[v].job < next
    BY <1>1, <1>2, <1>3, <1>4 DEF PlaceInv, SweepTypes
  <2>5. \A v \in Workers : Holding(v)' =>
          /\ worker'[v].job < next' /\ saved'[worker'[v].job] = 0
          /\ \A j \in DOMAIN channel' : channel'[j] # worker'[v].job
    <3>1. \A v \in Workers : v # w /\ Holding(v)' =>
            /\ worker[v].job < next + 1 /\ saved[worker[v].job] = 0
            /\ \A j \in DOMAIN channel : channel[j] # worker[v].job
      BY <1>1, <1>4, <2>4 DEF PlaceInv
    <3>2. next < next + 1 /\ \A j \in DOMAIN channel : channel[j] # next
      BY <1>4, <2>3
    <3> QED BY <1>0, <2>1, <2>2, <2>4, <3>1, <3>2
  <2>6. \A u, v \in Workers : Holding(u)' /\ Holding(v)' /\ worker'[u].job = worker'[v].job => u = v
    <3>1. \A v \in Workers : v # w /\ Holding(v)' => worker'[v].job # worker'[w].job
      BY <1>4, <2>1, <2>4
    <3>2. \A u, v \in Workers : u # w /\ v # w /\ Holding(u)' /\ Holding(v)' /\ worker'[u].job = worker'[v].job => u = v
      BY <1>1, <2>4 DEF PlaceInv
    <3> QED BY <3>1, <3>2
  <2>7. \A i \in 1..Len(indices) :
          /\ i < next' => \/ saved[i] = 1
                          \/ \E j \in DOMAIN channel : channel[j] = i
                          \/ \E v \in Workers : Holding(v)' /\ worker'[v].job = i
          /\ i >= next' => saved[i] = 0
          /\ saved[i] \in {0, 1}
    <3> SUFFICES ASSUME NEW i \in 1..Len(indices)
                 PROVE  /\ i < next' => \/ saved[i] = 1
                                        \/ \E j \in DOMAIN channel : channel[j] = i
                                        \/ \E v \in Workers : Holding(v)' /\ worker'[v].job = i
                        /\ i >= next' => saved[i] = 0
                        /\ saved[i] \in {0, 1}
      OBVIOUS
    <3>1. \A v \in Workers : Holding(v) => Holding(v)' /\ worker'[v].job = worker[v].job
      BY <1>2, <1>3, <2>1
    <3>2. i < next + 1 => i < next \/ i = next
      BY <1>4
    <3>3. i >= next + 1 => i >= next
      BY <1>4
    <3>4. i < next => \/ saved[i] = 1
                      \/ \E j \in DOMAIN channel : channel[j] = i
                      \/ \E v \in Workers : Holding(v)' /\ worker'[v].job = i
      BY <1>1, <3>1 DEF PlaceInv
    <3>5. i = next => \E v \in Workers : Holding(v)' /\ worker'[v].job = i
      BY <2>1
    <3>6. (i >= next => saved[i] = 0) /\ saved[i] \in {0, 1}
      BY <1>1 DEF PlaceInv
    <3> QED BY <2>1, <3>2, <3>3, <3>4, <3>5, <3>6
  <2>8. \A j \in DOMAIN channel : channel[j] < next' /\ saved[channel[j]] = 0
    BY <1>1, <1>4, <2>1, <2>3 DEF PlaceInv
  <2>9. PlaceInv'
    BY <1>0, <1>1, <2>1, <2>5, <2>6, <2>7, <2>8 DEF PlaceInv
  <2>10. CountInv'
    <3>1. \A v \in Workers : worker'[v].at # "gone"
      BY <1>1, <1>2, <1>4, <2>1 DEF CountInv
    <3> QED BY <1>0, <1>1, <3>1 DEF CountInv
  <2> QED BY <2>9, <2>10
<1>9. CASE Sends(w)
  <2> DEFINE job == worker[w].job
  <2>1. /\ Holding(w) /\ ~Holding(w)' /\ next' = next /\ channel' = Append(channel, job)
        /\ worker'[w].at # "gone"
    BY <1>9 DEF Sends, Moved, Holding, queueVars
  <2>2. /\ job \in 1..Len(indices) /\ job < next /\ saved[job] = 0
        /\ \A j \in DOMAIN channel : channel[j] # job
    BY <1>1, <1>4, <2>1 DEF PlaceInv, SweepTypes
  <2> DEFINE n == Len(channel) + 1
  <2>3. /\ DOMAIN channel = 1..Len(channel) /\ Len(channel) \in Nat /\ DOMAIN channel' = 1..n
        /\ channel'[n] = job /\ \A j \in DOMAIN channel : j \in DOMAIN channel' /\ channel'[j] = channel[j]
        /\ \A j \in DOMAIN channel' : j \in DOMAIN channel \/ j = n
    BY <1>4, <2>1, <2>2
  <2>4. \A v \in Workers : Holding(v)' => v # w /\ Holding(v) /\ worker'[v].job = worker[v].job
    BY <1>2, <1>3, <2>1
  <2>5. \A v \in Workers : Holding(v) /\ v # w => Holding(v)' /\ worker'[v].job = worker[v].job
    BY <1>2, <1>3
  <2> HIDE DEF n
  <2>6. \A v \in Workers : Holding(v)' =>
          /\ worker'[v].job < next /\ saved[worker'[v].job] = 0
          /\ \A j \in DOMAIN channel' : channel'[j] # worker'[v].job
    <3>1. \A v \in Workers : Holding(v)' => worker[v].job # job
      BY <1>1, <2>1, <2>4 DEF PlaceInv
    <3> QED BY <1>1, <2>3, <2>4, <3>1 DEF PlaceInv
  <2>7. \A u, v \in Workers : Holding(u)' /\ Holding(v)' /\ worker'[u].job = worker'[v].job => u = v
    BY <1>1, <2>4 DEF PlaceInv
  <2>8. \A j \in DOMAIN channel' : channel'[j] < next /\ saved[channel'[j]] = 0
    BY <1>1, <2>2, <2>3 DEF PlaceInv
  <2>9. \A i, j \in DOMAIN channel' : channel'[i] = channel'[j] => i = j
    BY <1>1, <2>2, <2>3 DEF PlaceInv
  <2>10. \A i \in 1..Len(indices) :
           /\ i < next => \/ saved[i] = 1
                          \/ \E j \in DOMAIN channel' : channel'[j] = i
                          \/ \E v \in Workers : Holding(v)' /\ worker'[v].job = i
           /\ i >= next => saved[i] = 0
           /\ saved[i] \in {0, 1}
    <3> SUFFICES ASSUME NEW i \in 1..Len(indices)
                 PROVE  i < next => \/ saved[i] = 1
                                    \/ \E j \in DOMAIN channel' : channel'[j] = i
                                    \/ \E v \in Workers : Holding(v)' /\ worker'[v].job = i
      BY <1>1 DEF PlaceInv
    <3>1. ASSUME NEW j \in DOMAIN channel, channel[j] = i PROVE \E h \in DOMAIN channel' : channel'[h] = i
      BY <2>3, <3>1
    <3>2. n \in DOMAIN channel'
      BY <2>3 DEF n
    <3>3. ASSUME NEW v \in Workers, Holding(v), worker[v].job = i
          PROVE  \/ \E h \in DOMAIN channel' : channel'[h] = i
                 \/ \E u \in Workers : Holding(u)' /\ worker'[u].job = i
      BY <2>3, <2>5, <3>2, <3>3
    <3> QED BY <1>1, <3>1, <3>3 DEF PlaceInv
  <2>11. PlaceInv'
    BY <1>0, <2>1, <2>6, <2>7, <2>8, <2>9, <2>10 DEF PlaceInv
  <2>12. CountInv'
    BY <1>0, <1>1, <1>2, <2>1 DEF CountInv
  <2> QED BY <2>11, <2>12
<1> QED BY <1>5, <1>6, <1>7, <1>8, <1>9

-----------------------------------------------------------------------------
(* The steps of the main thread.                                           *)

(* All workers go to another place.                                        *)
LEMMA AllGo ==
  ASSUME Shape(worker), NEW a, worker' = [w \in Workers |-> [worker[w] EXCEPT !.at = a]]
  PROVE  Shape(worker') /\ \A w \in Workers : worker'[w].at = a /\ worker'[w].job = worker[w].job
<1>1. \A w \in Workers : worker[w] = [at |-> worker[w].at, job |-> worker[w].job,
                                      todo |-> worker[w].todo, slot |-> worker[w].slot]
  BY DEF Shape
<1>2. ASSUME NEW w \in Workers
      PROVE  worker'[w] = [at |-> a, job |-> worker[w].job, todo |-> worker[w].todo, slot |-> worker[w].slot]
  <2> DEFINE old == [at |-> worker[w].at, job |-> worker[w].job, todo |-> worker[w].todo, slot |-> worker[w].slot]
  <2>1. worker'[w] = [worker[w] EXCEPT !.at = a] /\ worker[w] = old
    BY <1>1
  <2>2. [old EXCEPT !.at = a] =
          [at |-> a, job |-> worker[w].job, todo |-> worker[w].todo, slot |-> worker[w].slot]
    OBVIOUS
  <2> HIDE DEF old
  <2>3. [worker[w] EXCEPT !.at = a] = [old EXCEPT !.at = a]
    BY <2>1, Zenon
  <2> QED BY <2>1, <2>2, <2>3, Zenon
<1>3. worker' = [w \in Workers |-> worker'[w]]
  OBVIOUS
<1>4. worker' = [w \in Workers |-> [at |-> worker'[w].at, job |-> worker'[w].job,
                                   todo |-> worker'[w].todo, slot |-> worker'[w].slot]]
  BY <1>2, <1>3
<1> QED BY <1>2, <1>4 DEF Shape

(* The workers are started, or the command ends.                           *)
LEMMA RegisterKeeps ==
  ASSUME SweepInv, NEW script \in Answers, NEW answer \in Answers, RegisterScriptAndBatch(script, answer)
  PROVE  SweepInv'
<1>0. /\ main = "register" /\ UNCHANGED <<command, specs, indices, saved, next, cancelled, channel, received>>
      /\ (SweepFailed' <=> SweepFailed) /\ code' # 0 /\ batch' # "completed"
  BY DEF RegisterScriptAndBatch, SweepInv, MainInv, choiceVars, queueVars, resultVars, SweepFailed
<1>1. /\ next = 1 /\ received = 0 /\ channel = << >> /\ saved = [i \in 1..Len(indices) |-> 0] /\ ~SweepFailed
      /\ \A w \in Workers : worker[w].at = "unborn"
  BY <1>0 DEF SweepInv, StartInv
<1>2. \/ main' = "exit" /\ worker' = worker
      \/ main' = "drain" /\ batch' = "running" /\ worker' = [w \in Workers |-> [worker[w] EXCEPT !.at = "claim"]]
      \/ /\ main' = "run" /\ batch' = "running" /\ command = "run"
         /\ worker' = [w \in Workers |-> [worker[w] EXCEPT !.at = "gone"]]
  BY DEF RegisterScriptAndBatch
<1>3. /\ Shape(worker') /\ \A w \in Workers : worker'[w].at \in {"unborn", "claim", "gone"}
      /\ main' = "drain" => \A w \in Workers : worker'[w].at = "claim"
  <2>1. Shape(worker)
    BY DEF SweepInv, SweepTypes, Shape
  <2>2. CASE main' = "exit" /\ worker' = worker
    BY <1>1, <2>1, <2>2
  <2>3. CASE main' = "drain" /\ worker' = [w \in Workers |-> [worker[w] EXCEPT !.at = "claim"]]
    BY <2>1, <2>3, AllGo
  <2>4. CASE main' = "run" /\ worker' = [w \in Workers |-> [worker[w] EXCEPT !.at = "gone"]]
    BY <2>1, <2>4, AllGo
  <2> QED BY <1>2, <2>2, <2>3, <2>4
<1>4. SweepTypes'
  BY <1>0, <1>3 DEF SweepInv, SweepTypes, Shape, Holding
<1>5. MainInv'
  BY <1>0, <1>1, <1>2 DEF SweepInv, SweepTypes, MainInv
<1>6. CancelInv'
  BY <1>0, <1>1, <1>3 DEF SweepInv, CancelInv
<1>7. StartInv'
  BY <1>2 DEF StartInv
<1>8. DrainInv'
  <2> SUFFICES ASSUME main' = "drain" PROVE PlaceInv' /\ CountInv'
    BY <1>2 DEF DrainInv
  <2>1. \A w \in Workers : ~Holding(w)' /\ worker'[w].at # "gone"
    BY <1>3 DEF Holding
  <2>2. PlaceInv'
    BY <1>0, <1>1, <2>1 DEF PlaceInv, SweepInv, SweepTypes
  <2>3. {i \in 1..Len(indices) : saved[i] = 1} = {}
    BY <1>1
  <2>4. CountInv'
    BY <1>0, <1>1, <2>1, <2>3, FS_EmptySet DEF CountInv
  <2> QED BY <2>2, <2>4
<1> QED BY <1>4, <1>5, <1>6, <1>7, <1>8 DEF SweepInv

(* A set of naturals that is an interval.                                  *)
LEMMA AllSaved ==
  ASSUME NEW n \in Nat, NEW S \in SUBSET (1..n), Cardinality(S) = n
  PROVE  S = 1..n
<1>1. IsFiniteSet(1..n) /\ Cardinality(1..n) = n
  BY FS_Interval
<1> QED BY <1>1, FS_Subset

(* The drain ends when everything is received, or when nobody is left to   *)
(* send.                                                                   *)
LEMMA DrainEndsWhole ==
  ASSUME SweepInv, DrainEnds, ~SweepFailed
  PROVE  Whole
<1>0. PlaceInv /\ CountInv /\ SweepTypes
  BY DEF DrainEnds, SweepInv, DrainInv
<1>1. CASE received = Len(indices)
  <2> DEFINE S == {i \in 1..Len(indices) : saved[i] = 1}
  <2>1. S \in SUBSET (1..Len(indices)) /\ Cardinality(S) = Len(indices) /\ Len(indices) \in Nat
    BY <1>0, <1>1 DEF CountInv, SweepTypes
  <2>2. S = 1..Len(indices)
    BY <2>1, AllSaved
  <2> QED BY <1>0, <2>2 DEF Whole, SweepTypes
<1>2. CASE Disconnected
  <2>1. channel = << >> /\ \A w \in Workers : worker[w].at = "gone"
    BY <1>2 DEF Disconnected
  <2>2. next > Len(indices) /\ \A w \in Workers : ~Holding(w)
    BY <1>0, <2>1, SweepAssumption DEF CountInv, Holding
  <2>3. \A i \in 1..Len(indices) : i < next
    BY <1>0, <2>2 DEF SweepTypes
  <2>4. DOMAIN channel = {}
    BY <2>1
  <2> QED BY <1>0, <2>2, <2>3, <2>4 DEF PlaceInv, Whole, SweepTypes
<1> QED BY <1>1, <1>2 DEF DrainEnds

(* The main thread receives a record and saves it.                         *)
LEMMA ReceiveKeeps ==
  ASSUME SweepInv, NEW answer \in Answers, ReceiveRecord(answer)
  PROVE  SweepInv'
<1>0. /\ main = "drain" /\ channel # << >> /\ received' = received + 1 /\ channel' = Tail(channel)
      /\ UNCHANGED <<command, specs, indices, main, code, batch, next, worker, firstFatal, firstPanic>>
      /\ SweepTypes /\ batch = "running"
  BY DEF ReceiveRecord, SweepInv, MainInv, choiceVars
<1> DEFINE h == Head(channel)
<1>1. h \in 1..Len(indices) /\ channel' \in Seq(1..Len(indices)) /\ Len(channel) \in Nat /\ Len(channel) # 0
  BY <1>0 DEF SweepTypes
<1>2. saved' \in [1..Len(indices) -> Nat]
  <2>1. saved' = saved \/ saved' = [saved EXCEPT ![h] = IF answer = "failed" THEN @ ELSE @ + 1]
    BY DEF ReceiveRecord, Save
  <2>2. saved \in [1..Len(indices) -> Nat] /\ saved[h] \in Nat
    BY <1>0, <1>1 DEF SweepTypes
  <2> QED BY <1>1, <2>1, <2>2
<1>3. SweepTypes'
  <2>1. \A w \in Workers : Holding(w)' <=> Holding(w)
    BY <1>0 DEF Holding
  <2>2. received' \in Nat
    BY <1>0 DEF SweepTypes
  <2> HIDE DEF h
  <2> QED BY <1>0, <1>1, <1>2, <2>1, <2>2, SMTT(30) DEF SweepTypes
<1>4. MainInv'
  BY <1>0 DEF SweepInv, MainInv
<1>5. (SweepFailed => SweepFailed') /\ (cancelled' => cancelled \/ SweepFailed')
  BY <1>0 DEF ReceiveRecord, SweepFailed
<1>6. CancelInv' /\ StartInv'
  BY <1>0, <1>5 DEF SweepInv, CancelInv, StartInv
<1>7. DrainInv'
  <2> SUFFICES ASSUME ~SweepFailed' PROVE PlaceInv' /\ CountInv'
    BY DEF DrainInv
  <2>1. ~SweepFailed /\ PlaceInv /\ CountInv
    BY <1>0, <1>5 DEF SweepInv, DrainInv
  <2>2. answer = "ok" /\ saved' = [saved EXCEPT ![h] = @ + 1]
    BY <2>1 DEF ReceiveRecord, Save, SweepFailed
  <2>3. /\ DOMAIN channel = 1..Len(channel) /\ channel[1] = h /\ 1 \in DOMAIN channel
        /\ \A j \in DOMAIN channel' : j + 1 \in DOMAIN channel /\ channel'[j] = channel[j + 1] /\ j \in Nat \ {0}
        /\ \A j \in DOMAIN channel : j # 1 => j - 1 \in DOMAIN channel' /\ channel'[j - 1] = channel[j]
    <3>1. channel \in Seq(1..Len(indices)) /\ channel # << >>
      BY <1>0 DEF SweepTypes
    <3>2. /\ DOMAIN channel = 1..Len(channel) /\ channel[1] = h /\ Len(channel') = Len(channel) - 1
          /\ DOMAIN channel' = 1..(Len(channel) - 1) /\ \A j \in 1..(Len(channel) - 1) : channel'[j] = channel[j + 1]
      BY <1>0, <1>1, <3>1
    <3> HIDE DEF h
    <3>3. \A j \in 1..(Len(channel) - 1) : j + 1 \in 1..Len(channel) /\ j \in Nat \ {0}
      BY <1>1
    <3>4. \A j \in 1..Len(channel) : j # 1 => j - 1 \in 1..(Len(channel) - 1) /\ (j - 1) + 1 = j
      BY <1>1
    <3>5. 1 \in 1..Len(channel)
      BY <1>1
    <3> QED BY <3>2, <3>3, <3>4, <3>5
  <2>4. saved[h] = 0 /\ saved'[h] = 1 /\ h < next /\ \A i \in 1..Len(indices) : i # h => saved'[i] = saved[i]
    BY <1>0, <1>1, <2>1, <2>2, <2>3 DEF PlaceInv, SweepTypes
  <2>5. \A j \in DOMAIN channel' : channel'[j] # h /\ channel'[j] \in 1..Len(indices)
    <3> SUFFICES ASSUME NEW j \in DOMAIN channel' PROVE channel'[j] # h /\ channel'[j] \in 1..Len(indices)
      OBVIOUS
    <3>1. j + 1 \in DOMAIN channel /\ channel'[j] = channel[j + 1] /\ j + 1 # 1
      BY <2>3
    <3>2. channel[j + 1] \in 1..Len(indices)
      BY <1>0, <3>1 DEF SweepTypes
    <3>3. channel[j + 1] # channel[1]
      BY <2>1, <2>3, <3>1 DEF PlaceInv
    <3> QED BY <2>3, <3>1, <3>2, <3>3
  <2>6. \A w \in Workers : Holding(w)' <=> Holding(w)
    BY <1>0 DEF Holding
  <2>7. \A w \in Workers : Holding(w) => worker[w].job # h /\ worker[w].job \in 1..Len(indices)
    BY <1>0, <2>1, <2>3 DEF PlaceInv, SweepTypes
  <2>8. \A w \in Workers : Holding(w)' =>
          /\ worker'[w].job < next' /\ saved'[worker'[w].job] = 0
          /\ \A j \in DOMAIN channel' : channel'[j] # worker'[w].job
    BY <1>0, <2>1, <2>3, <2>4, <2>6, <2>7 DEF PlaceInv
  <2>9. \A j \in DOMAIN channel' : channel'[j] < next /\ saved'[channel'[j]] = 0
    <3> SUFFICES ASSUME NEW j \in DOMAIN channel' PROVE channel'[j] < next /\ saved'[channel'[j]] = 0
      OBVIOUS
    <3>1. channel'[j] < next /\ saved[channel'[j]] = 0
      BY <2>1, <2>3 DEF PlaceInv
    <3> QED BY <2>4, <2>5, <3>1
  <2>10. \A i, j \in DOMAIN channel' : channel'[i] = channel'[j] => i = j
    <3> SUFFICES ASSUME NEW i \in DOMAIN channel', NEW j \in DOMAIN channel', channel'[i] = channel'[j]
                 PROVE  i = j
      OBVIOUS
    <3>1. i + 1 = j + 1
      BY <2>1, <2>3 DEF PlaceInv
    <3> QED BY <2>3, <3>1
  <2>11. \A i \in 1..Len(indices) :
           /\ i < next => \/ saved'[i] = 1
                          \/ \E j \in DOMAIN channel' : channel'[j] = i
                          \/ \E w \in Workers : Holding(w) /\ worker[w].job = i
           /\ i >= next => saved'[i] = 0
           /\ saved'[i] \in {0, 1}
    <3> SUFFICES ASSUME NEW i \in 1..Len(indices), i # h
                 PROVE  /\ i < next => \/ saved'[i] = 1
                                       \/ \E j \in DOMAIN channel' : channel'[j] = i
                                       \/ \E w \in Workers : Holding(w) /\ worker[w].job = i
                        /\ i >= next => saved'[i] = 0
                        /\ saved'[i] \in {0, 1}
      <4>1. ~(h >= next)
        BY <1>0, <1>1, <2>4 DEF SweepTypes
      <4> QED BY <1>1, <2>4, <4>1
    <3>1. saved'[i] = saved[i]
      BY <2>4
    <3>2. ASSUME NEW j \in DOMAIN channel, channel[j] = i PROVE \E k \in DOMAIN channel' : channel'[k] = i
      BY <2>3, <3>2
    <3> QED BY <2>1, <3>1, <3>2 DEF PlaceInv
  <2>12. PlaceInv'
    BY <1>0, <2>1, <2>6, <2>8, <2>9, <2>10, <2>11 DEF PlaceInv
  <2>13. CountInv'
    <3> DEFINE S == {i \in 1..Len(indices) : saved[i] = 1}
               T == {i \in 1..Len(indices) : saved'[i] = 1}
    <3>1. T = S \cup {h} /\ h \notin S
      BY <1>1, <2>4
    <3>2. IsFiniteSet(S)
      <4>1. IsFiniteSet(1..Len(indices))
        <5>1. 1 \in Int /\ Len(indices) \in Int
          BY <1>1
        <5> QED BY <5>1, FS_Interval
      <4>2. S \in SUBSET (1..Len(indices))
        OBVIOUS
      <4> QED BY <4>1, <4>2, FS_Subset
    <3>3. Cardinality(T) = Cardinality(S) + 1
      BY <3>1, <3>2, FS_AddElement
    <3> QED BY <1>0, <2>1, <3>3 DEF CountInv
  <2> QED BY <2>12, <2>13
<1> QED BY <1>3, <1>4, <1>6, <1>7 DEF SweepInv

(* The other steps of the command, which leave the workers and their       *)
(* queue alone.                                                            *)
LEMMA MainKeeps ==
  ASSUME SweepInv,
         \/ DrainEnds \/ Join \/ Die
         \/ \E outcome \in {"ok", "script_error", "fatal", "panic"} : RunOne(outcome)
         \/ \E answer \in Answers :
              SaveOne(answer) \/ CompleteBatch(answer) \/ FailBatchAndExit(answer) \/ PrintResult(answer)
  PROVE  SweepInv'
<1>0. /\ UNCHANGED <<command, specs, indices, next, cancelled, channel, received, finalErr, firstFatal, firstPanic>>
      /\ main' \notin {"register", "drain"}
  BY DEF DrainEnds, Join, Die, RunOne, SaveOne, CompleteBatch, FailBatchAndExit, PrintResult,
         choiceVars, queueVars, resultVars
<1>1. SweepFailed' <=> SweepFailed
  BY <1>0 DEF SweepFailed
<1>2. \/ worker' = worker
      \/ worker' = [w \in Workers |-> [worker[w] EXCEPT !.at = "gone"]]
  BY DEF DrainEnds, Join, Die, RunOne, SaveOne, CompleteBatch, FailBatchAndExit, PrintResult
<1>3. \/ UNCHANGED saved
      \/ main = "save" /\ \E n \in {0, 1} : saved' = [saved EXCEPT ![1] = @ + n]
  <2>1. CASE \E answer \in Answers : SaveOne(answer)
    <3>1. PICK answer \in Answers : SaveOne(answer)
      BY <2>1
    <3>2. main = "save" /\ saved' = [saved EXCEPT ![1] = IF answer = "failed" THEN @ ELSE @ + 1]
      BY <3>1 DEF SaveOne, Save
    <3>3. saved[1] \in Nat
      BY <3>2 DEF SweepInv, SweepTypes, MainInv
    <3>4. saved[1] + 0 = saved[1]
      BY <3>3
    <3>5. CASE answer = "failed"
      BY <3>2, <3>4, <3>5
    <3>6. CASE answer # "failed"
      BY <3>2, <3>6
    <3> QED BY <3>5, <3>6
  <2>2. CASE ~ \E answer \in Answers : SaveOne(answer)
    BY <2>2 DEF DrainEnds, Join, Die, RunOne, CompleteBatch, FailBatchAndExit, PrintResult, batchVars
  <2> QED BY <2>1, <2>2
<1>4. SweepTypes'
  <2>1. saved' \in [1..Len(indices) -> Nat]
    BY <1>3 DEF SweepInv, SweepTypes, MainInv
  <2>2. Shape(worker') /\ \A w \in Workers : Holding(w)' => worker'[w].job \in 1..Len(indices)
    <3>1. CASE worker' = worker
      BY <3>1 DEF SweepInv, SweepTypes, Shape, Holding
    <3>2. CASE worker' = [w \in Workers |-> [worker[w] EXCEPT !.at = "gone"]]
      <4>1. Shape(worker)
        BY DEF SweepInv, SweepTypes, Shape
      <4>2. Shape(worker') /\ \A w \in Workers : worker'[w].at = "gone"
        BY <3>2, <4>1, AllGo
      <4> QED BY <4>2 DEF Holding
    <3> QED BY <1>2, <3>1, <3>2
  <2> QED BY <1>0, <2>1, <2>2 DEF SweepInv, SweepTypes, Shape
<1>5. CancelInv'
  <2>1. \A w \in Workers : worker'[w].at = "cancel" => worker[w].at = "cancel"
    <3>1. Shape(worker)
      BY DEF SweepInv, SweepTypes, Shape
    <3>2. CASE worker' = worker
      BY <3>2
    <3>3. CASE worker' = [w \in Workers |-> [worker[w] EXCEPT !.at = "gone"]]
      <4>1. \A w \in Workers : worker'[w].at = "gone"
        BY <3>1, <3>3, AllGo
      <4> QED BY <4>1
    <3> QED BY <1>2, <3>2, <3>3
  <2> QED BY <1>0, <1>1, <2>1 DEF SweepInv, CancelInv
<1>6. StartInv' /\ DrainInv'
  BY <1>0 DEF StartInv, DrainInv
<1>7. MainInv'
  <2>1. CASE DrainEnds
    BY <1>0, <1>1, <2>1, DrainEndsWhole DEF DrainEnds, batchVars, SweepInv, MainInv, Whole
  <2>2. CASE Join
    BY <1>0, <2>2 DEF Join, batchVars, SweepInv, MainInv, Whole
  <2>3. CASE Die
    BY <1>0, <2>3 DEF Die, SweepInv, MainInv, Whole
  <2>4. ASSUME NEW outcome \in {"ok", "script_error", "fatal", "panic"}, RunOne(outcome)
        PROVE  MainInv'
    BY <1>0, <2>4 DEF RunOne, SweepInv, MainInv, Whole
  <2>5. ASSUME NEW answer \in Answers, SaveOne(answer)
        PROVE  MainInv'
    <3>1. main = "save" /\ batch = "running" /\ batch' = batch /\ code' = code /\ main' \in {"complete", "fail"}
      BY <2>5 DEF SaveOne, SweepInv, MainInv
    <3>2. main' = "complete" => answer = "ok"
      BY <2>5 DEF SaveOne
    <3>3. main' = "complete" => Whole'
      <4>1. DOMAIN indices' = {1} /\ saved[1] = 0 /\ 1 \in DOMAIN saved
        BY <1>0, <3>1 DEF SweepInv, SweepTypes, MainInv
      <4>2. main' = "complete" => saved' = [saved EXCEPT ![1] = @ + 1]
        BY <2>5, <3>2 DEF SaveOne, Save
      <4> QED BY <4>1, <4>2 DEF Whole
    <3> QED BY <3>1, <3>3 DEF SweepInv, MainInv
  <2>6. ASSUME NEW answer \in Answers, CompleteBatch(answer)
        PROVE  MainInv'
    BY <1>0, <2>6 DEF CompleteBatch, FinishBatch, SweepInv, MainInv, Whole
  <2>7. ASSUME NEW answer \in Answers, FailBatchAndExit(answer)
        PROVE  MainInv'
    BY <1>0, <2>7 DEF FailBatchAndExit, FinishBatch, SweepInv, MainInv, Whole
  <2>8. ASSUME NEW answer \in Answers, PrintResult(answer)
        PROVE  MainInv'
    BY <1>0, <2>8 DEF PrintResult, SweepInv, MainInv, Whole
  <2> QED BY <2>1, <2>2, <2>3, <2>4, <2>5, <2>6, <2>7, <2>8
<1> QED BY <1>4, <1>5, <1>6, <1>7 DEF SweepInv

(* Every step keeps the invariant.                                         *)
LEMMA SweepInvStep == SweepInv /\ [SweepNext]_sweepVars => SweepInv'
<1> SUFFICES ASSUME SweepInv, [SweepNext]_sweepVars PROVE SweepInv'
  OBVIOUS
<1>1. ASSUME NEW w \in Workers, WorkerNext(w)
      PROVE  SweepInv'
  <2>1. Works(w) \/ Fails(w) \/ Ends(w) \/ Claims(w) \/ Sends(w)
    BY <1>1, WorkerCases DEF SweepInv
  <2> QED BY <2>1, WorkerKeepsRest, WorkerKeepsPlaces DEF SweepInv
<1>2. CASE MainNext
  BY <1>2, RegisterKeeps, ReceiveKeeps, MainKeeps DEF MainNext
<1>3. CASE Die
  BY <1>3, MainKeeps
<1>4. CASE UNCHANGED sweepVars
  <2>1. UNCHANGED <<command, indices, main, code, batch, saved, next, cancelled, worker, channel, received,
                    finalErr, firstFatal, firstPanic>>
    BY <1>4 DEF sweepVars, choiceVars, batchVars, queueVars, resultVars
  <2>2. SweepFailed' <=> SweepFailed
    BY <2>1 DEF SweepFailed
  <2>3. SweepTypes'
    BY <2>1 DEF SweepInv, SweepTypes, Holding
  <2>4. MainInv' /\ CancelInv' /\ StartInv'
    BY <2>1, <2>2 DEF SweepInv, MainInv, CancelInv, StartInv, Whole
  <2>5. DrainInv'
    BY <2>1, <2>2 DEF SweepInv, DrainInv, PlaceInv, CountInv, Holding
  <2> QED BY <2>3, <2>4, <2>5 DEF SweepInv
<1> QED BY <1>1, <1>2, <1>3, <1>4 DEF SweepNext

(* A batch that is marked completed, and a command that exits with 0, has  *)
(* one row for every selected combination, whatever workers, channel and   *)
(* cache do and whatever fails (run_sweep, drain_sweep_results,            *)
(* complete_batch).                                                        *)
THEOREM SweepCorrect == SweepSpec => []RunsAreSaved
<1>1. SweepInv => RunsAreSaved
  BY DEF SweepInv, MainInv, Whole, RunsAreSaved
<1> QED BY <1>1, SweepInvInit, SweepInvStep, PTL DEF SweepSpec

(* What a command selects it does not change.                              *)
LEMMA SelectionInvStep ==
  ASSUME SelectionInv, [SweepNext]_sweepVars
  PROVE  SelectionInv'
<1>1. CASE \E w \in Workers : WorkerNext(w)
  <2>1. PICK w \in Workers : WorkerNext(w)
    BY <1>1
  <2>2. WorkerStep
    <3>1. Claim(w) \/ LookUp(w) => WorkerStep
      BY DEF Claim, LookUp
    <3>2. GetOrInit(w) \/ Register(w) => WorkerStep
      BY DEF GetOrInit, Register
    <3>3. CancelQueue(w) \/ Send(w) => WorkerStep
      BY DEF CancelQueue, Send
    <3>4. \A panics : ComputeSeries(w, panics) => WorkerStep
      BY DEF ComputeSeries
    <3>5. \A outcome : Result(w, outcome) => WorkerStep
      BY DEF Result
    <3> QED BY <2>1, <3>1, <3>2, <3>3, <3>4, <3>5 DEF WorkerNext
  <2> QED BY <2>2 DEF WorkerStep, SelectionInv, choiceVars
<1>2. CASE MainNext
  BY <1>2 DEF MainNext, RegisterScriptAndBatch, ReceiveRecord, DrainEnds, Join, RunOne, SaveOne,
              CompleteBatch, FailBatchAndExit, PrintResult, SelectionInv, choiceVars
<1>3. CASE Die \/ UNCHANGED sweepVars
  BY <1>3 DEF Die, sweepVars, SelectionInv, choiceVars
<1> QED BY <1>1, <1>2, <1>3 DEF SweepNext

(* The parameter sets of a selection: the defaults, none twice, and none   *)
(* that run would refuse.                                                  *)
LEMMA SelectionSets ==
  ASSUME SelectionInv
  PROVE  /\ ParamSets \subseteq ResolvedParams(specs)
         /\ command = "sweep" =>
              /\ \E x \in ParamSets : \A i \in DOMAIN specs : Near(specs[i], x[i], specs[i].default)
              /\ Cardinality(ParamSets) = Min({MaxRuns, TotalCombinations(specs)})
<1>0. CASE command = "run"
  BY <1>0 DEF SelectionInv, ParamSets
<1> SUFFICES ASSUME command # "run"
             PROVE  /\ ParamSets \subseteq ResolvedParams(specs)
                    /\ \E x \in ParamSets : \A i \in DOMAIN specs : Near(specs[i], x[i], specs[i].default)
                    /\ Cardinality(ParamSets) = Min({MaxRuns, TotalCombinations(specs)})
  BY <1>0
<1> DEFINE total == TotalCombinations(specs)
           n == Len(indices)
           f == [i \in 1..n |-> CombinationAt(specs, indices[i])]
           sets == {CombinationAt(specs, indices[i]) : i \in DOMAIN indices}
<1>1. IsParamSpecs(specs) /\ MaxRuns \in Nat \ {0} /\ ParamSets = sets
  BY SweepAssumption DEF SelectionInv, SweepAssumption, ParamSets
<1>2. /\ total \in Nat \ {0}
      /\ \A i \in DOMAIN specs :
           Near(specs[i], CombinationAt(specs, DefaultIndex(specs))[i], specs[i].default)
  BY <1>1, DefaultCombination
<1>3. /\ n \in Nat \ {0} /\ DOMAIN indices = 1..n
      /\ n = IF total <= MaxRuns THEN total ELSE MaxRuns
  <2>1. Len(indices) \in Nat /\ DOMAIN indices = 1..Len(indices)
    BY LenProperties DEF SelectionInv
  <2>2. n = IF total <= MaxRuns THEN total ELSE MaxRuns
    BY DEF SelectionInv
  <2> HIDE DEF total
  <2> QED BY <1>1, <1>2, <2>1, <2>2
<1>4. \E x \in sets : \A i \in DOMAIN specs : Near(specs[i], x[i], specs[i].default)
  <2>1. 1 \in DOMAIN indices /\ indices[1] = DefaultIndex(specs)
    BY <1>3 DEF SelectionInv
  <2> QED BY <1>2, <2>1
<1>8. sets \subseteq ResolvedParams(specs)
  <2> SUFFICES ASSUME NEW i \in 1..n PROVE CombinationAt(specs, indices[i]) \in ResolvedParams(specs)
    BY <1>3
  <2>1. indices[i] \in 0..(total - 1)
    BY ElementOfSeq DEF SelectionInv
  <2> QED BY <1>1, <2>1, CombinationResolved
<1>5. ASSUME NEW i \in 1..n, NEW j \in 1..n, f[i] = f[j] PROVE i = j
  <2>1. CombinationAt(specs, indices[i]) = CombinationAt(specs, indices[j])
    BY <1>5
  <2>2. indices[i] \in 0..(total - 1) /\ indices[j] \in 0..(total - 1)
    BY ElementOfSeq DEF SelectionInv
  <2>3. indices[i] = indices[j]
    BY <1>1, <2>1, <2>2, CombinationsDiffer
  <2> QED BY <2>3 DEF SelectionInv
<1>6. Cardinality(sets) = n
  <2> DEFINE I == 1..n
  <2>1. IsFiniteSet(I) /\ Cardinality(I) = n
    <3>1. n \in Nat /\ 1 <= n
      BY <1>3
    <3> HIDE DEF n
    <3>2. IsFiniteSet(1..n) /\ Cardinality(1..n) = IF 1 > n THEN 0 ELSE n - 1 + 1
      BY <3>1, FS_Interval
    <3> QED BY <3>1, <3>2
  <2>2. f \in Bijection(I, sets)
    <3>1. f \in [I -> sets] /\ \A y \in sets : \E i \in I : f[i] = y
      BY <1>3
    <3>2. \A i, j \in I : f[i] = f[j] => i = j
      BY <1>5
    <3> HIDE DEF f, I, sets
    <3> QED BY <3>1, <3>2 DEF Bijection, Injection, Surjection, IsInjective
  <2> HIDE DEF f, I, sets, n
  <2> QED BY <2>1, <2>2, FS_Bijection DEF ExistsBijection
<1>7. n = Min({MaxRuns, total})
  <2> HIDE DEF total, n
  <2>1. n \in {MaxRuns, total} /\ \A y \in {MaxRuns, total} : n =< y
    BY <1>1, <1>2, <1>3
  <2>2. \A x \in {MaxRuns, total} : (\A y \in {MaxRuns, total} : x =< y) => x = n
    BY <1>1, <1>2, <2>1
  <2> QED BY <2>1, <2>2 DEF Min
<1> QED BY <1>1, <1>4, <1>6, <1>7, <1>8

(* A batch that says it is completed has run the whole grid, or a sample   *)
(* of it of the size asked for: the default parameters up to the           *)
(* tolerance, every selected parameter set once and saved once, and none   *)
(* that run would refuse.                                                  *)
THEOREM CompletedCorrect == SweepSpec => []CompletedIsWhole
<1>1. SelectionInv => SelectionIsWhole
  BY SelectionSets DEF SelectionIsWhole
<1>2. SweepSpec => []SelectionInv
  BY SelectionInvInit, SelectionInvStep, PTL DEF SweepSpec
<1> QED BY <1>1, <1>2, SweepCorrect, PTL DEF CompletedIsWhole

-----------------------------------------------------------------------------
(* The indicator cache.  A worker asks for a series from the moment it has *)
(* the slot until it has registered the size.                              *)
Asking(w) == worker[w].at \in {"init", "compute", "register"}

CacheTypes ==
  /\ cache \in [Keys -> [slot : Nat, bytes : Nat]] /\ age \in [Keys -> Nat]
  /\ slots \in Seq({"empty", "busy", "ready"})
  /\ specs \in Specs /\ \A i \in 1..Len(indices) : indices[i] \in 0..(TotalCombinations(specs) - 1)
  /\ \A w \in Workers : worker[w].todo \in Seq(Keys)

(* An entry has a slot of its own, and a size only when the series is in   *)
(* the slot.                                                               *)
EntryInv ==
  \A k \in Keys :
    /\ cache[k].slot \in 0..Len(slots) /\ cache[k].bytes \in {0, Bytes[k]}
    /\ cache[k].bytes # 0 => cache[k].slot # 0 /\ slots[cache[k].slot] = "ready"
    /\ cache[k].slot # 0 => \A j \in Keys : cache[j].slot = cache[k].slot => j = k

(* A slot that a worker holds is of the key it asks for, even when the     *)
(* entry is gone; one worker computes at a time.                           *)
AskInv ==
  \A w \in Workers : Asking(w) =>
    /\ worker[w].todo # << >> /\ worker[w].slot \in 1..Len(slots)
    /\ \A k \in Keys : cache[k].slot = worker[w].slot => k = Head(worker[w].todo)
    /\ worker[w].at = "register" => slots[worker[w].slot] = "ready"
    /\ worker[w].at = "compute" =>
         /\ slots[worker[w].slot] = "busy"
         /\ \A v \in Workers : worker[v].at = "compute" /\ worker[v].slot = worker[w].slot => v = w

(* The counter is the sum and within the budget.                           *)
Size(c) == SumOf([k \in Keys |-> c[k].bytes], Keys)
SizeInv == used = Size(cache) /\ used <= Budget

(* A series that is computed and not counted has a worker that will.       *)
CountedInv ==
  main # "exit" => \A k \in Keys :
    cache[k].slot # 0 /\ cache[k].bytes = 0 /\ slots[cache[k].slot] = "ready" =>
      \E w \in Workers : worker[w].slot = cache[k].slot /\ worker[w].at \in {"init", "register"}

(* The inductive invariant.                                                *)
CacheInv == CacheTypes /\ EntryInv /\ AskInv /\ SizeInv /\ CountedInv

(* The bytes of entries, and the same as a sum.                            *)
BytesOf(c, D) == MapThenSumSet(LAMBDA j : c[j].bytes, D)

LEMMA BytesSum ==
  ASSUME NEW c, NEW S, IsFiniteSet(S)
  PROVE  BytesOf(c, S) = SumOf([j \in S |-> c[j].bytes], S)
<1> DEFINE f == [j \in S |-> c[j].bytes]
           Eq(g) == g = [s \in SUBSET S |-> IF s = {} THEN 0
                           ELSE c[CHOOSE x \in s : TRUE].bytes + g[s \ {CHOOSE x \in s : TRUE}]]
           iter == CHOOSE g : Eq(g)
<1>1. BytesOf(c, S) = iter[S]
  BY DEF BytesOf, MapThenSumSet, MapThenFoldSet
<1>2. \A g : Eq(g) <=> Sums(g, f, S)
  <2> TAKE g
  <2>1. \A s \in SUBSET S : s # {} => f[First(s)] = c[CHOOSE x \in s : TRUE].bytes
    BY FirstIs DEF First
  <2>2. [s \in SUBSET S |-> IF s = {} THEN 0
                           ELSE c[CHOOSE x \in s : TRUE].bytes + g[s \ {CHOOSE x \in s : TRUE}]]
        = [s \in SUBSET S |-> IF s = {} THEN 0 ELSE f[First(s)] + g[s \ {First(s)}]]
    BY <2>1 DEF First
  <2> QED BY <2>2 DEF Sums
<1> HIDE DEF Eq, f
<1>3. \E g : Eq(g)
  BY <1>2, SumsExist
<1>4. Sums(iter, f, S)
  BY <1>2, <1>3
<1> HIDE DEF iter
<1>5. SumOf(f, S) = iter[S]
  BY <1>4, SumOfIs
<1> QED BY <1>1, <1>5 DEF f

(* The bytes of some of the keys are part of the sum over all keys.        *)
LEMMA BytesPart ==
  ASSUME NEW c, NEW D \in SUBSET Keys
  PROVE  BytesOf(c, D) = SumOf([j \in Keys |-> c[j].bytes], D)
<1>1. IsFiniteSet(D)
  BY CacheAssumption, FS_Subset DEF CacheAssumption
<1> DEFINE f == [j \in D |-> c[j].bytes]
           e == [j \in Keys |-> c[j].bytes]
<1>2. BytesOf(c, D) = SumOf(f, D)
  BY <1>1, BytesSum
<1>3. \A x \in D : f[x] = e[x]
  OBVIOUS
<1> HIDE DEF e, f
<1> QED BY <1>1, <1>2, <1>3, SumSame DEF e

(* Entries without a size add up to 0.                                     *)
LEMMA NoBytes ==
  ASSUME NEW c, \A k \in Keys : c[k].bytes = 0
  PROVE  Size(c) = 0
<1> DEFINE f == [k \in Keys |-> c[k].bytes]
           e == [k \in Keys |-> IF k \in Keys THEN 0 ELSE f[k]]
<1>1. IsFiniteSet(Keys) /\ (\A x \in Keys : f[x] \in Int) /\ \A x \in Keys : f[x] = e[x]
  BY CacheAssumption DEF CacheAssumption
<1> HIDE DEF f
<1>2. SumOf(e, Keys) = SumOf(f, Keys) - SumOf(f, Keys) /\ SumOf(f, Keys) \in Int
  <2>1. Keys \in SUBSET Keys
    OBVIOUS
  <2> QED BY <1>1, <2>1, SumWithout
<1> HIDE DEF e
<1>3. SumOf(f, Keys) = SumOf(e, Keys)
  BY <1>1, SumSame
<1> QED BY <1>2, <1>3 DEF Size, f

(* A command starts with an empty cache.                                   *)
LEMMA CacheInvInit == SweepInit => CacheInv
<1> SUFFICES ASSUME SweepInit PROVE CacheInv
  OBVIOUS
<1>1. /\ cache = [k \in Keys |-> NoEntry] /\ age = [k \in Keys |-> Cardinality(Keys)]
      /\ used = 0 /\ slots = << >>
      /\ worker = [w \in Workers |-> [at |-> "unborn", job |-> 0, todo |-> << >>, slot |-> 0]]
      /\ specs \in Specs /\ command \in {"sweep", "run"}
  BY DEF SweepInit
<1>2. CacheTypes
  <2>1. age \in [Keys -> Nat]
    BY <1>1, CacheAssumption, FS_CardinalityType DEF CacheAssumption
  <2>2. \A i \in 1..Len(indices) : indices[i] \in 0..(TotalCombinations(specs) - 1)
    BY SelectionInvInit, ElementOfSeq DEF SelectionInv
  <2>3. cache \in [Keys -> [slot : Nat, bytes : Nat]]
    BY <1>1 DEF NoEntry
  <2>4. slots \in Seq({"empty", "busy", "ready"}) /\ \A w \in Workers : worker[w].todo \in Seq(Keys)
    <3>1. \A T : << >> \in Seq(T)
      BY EmptySeq
    <3> QED BY <1>1, <3>1
  <2> QED BY <1>1, <2>1, <2>2, <2>3, <2>4 DEF CacheTypes
<1>3. EntryInv
  BY <1>1 DEF EntryInv, NoEntry
<1>4. AskInv
  BY <1>1 DEF AskInv, Asking
<1>5. SizeInv
  <2>1. Size(cache) = 0
    BY <1>1, NoBytes DEF NoEntry
  <2> QED BY <1>1, <2>1, CacheAssumption DEF SizeInv, CacheAssumption
<1>6. CountedInv
  BY <1>1 DEF CountedInv, NoEntry
<1> QED BY <1>2, <1>3, <1>4, <1>5, <1>6 DEF CacheInv

(* Steps that do not touch the cache, of workers that do not ask for a     *)
(* series.                                                                 *)
LEMMA CacheQuiet ==
  ASSUME CacheInv, UNCHANGED <<specs, indices, cache, age, used, slots>>, main' # "exit" => main # "exit",
         \A w \in Workers : /\ worker'[w].todo \in Seq(Keys)
                            /\ worker'[w] = worker[w] \/ ~Asking(w)'
                            /\ main' # "exit" => worker'[w] = worker[w] \/ ~Asking(w)
  PROVE  CacheInv'
<1>1. CacheTypes' /\ EntryInv' /\ SizeInv'
  BY DEF CacheInv, CacheTypes, EntryInv, SizeInv, Size
<1>2. \A w \in Workers : Asking(w)' => worker'[w] = worker[w] /\ Asking(w)
  BY DEF Asking
<1>3. \A w \in Workers : worker'[w].at = "compute" => worker'[w] = worker[w]
  BY <1>2 DEF Asking
<1>4. AskInv'
  BY <1>2, <1>3 DEF CacheInv, AskInv
<1>5. CountedInv'
  BY DEF CacheInv, CountedInv, Asking
<1> QED BY <1>1, <1>4, <1>5 DEF CacheInv

(* Worker w has another place and other keys, the others are where they    *)
(* were.                                                                   *)
Became(w, at, todo, slot) ==
  /\ worker'[w].at = at /\ worker'[w].todo = todo /\ worker'[w].slot = slot
  /\ \A v \in Workers : v # w => worker'[v] = worker[v]

(* So does each form of a change of worker.                                *)
LEMMA EntryAfter ==
  ASSUME NEW w \in Workers, NEW at, NEW todo, NEW slot, Shape(worker),
         \/ worker' = [worker EXCEPT ![w].at = at] /\ todo = worker[w].todo /\ slot = worker[w].slot
         \/ worker' = [worker EXCEPT ![w].at = at, ![w].slot = slot] /\ todo = worker[w].todo
         \/ worker' = [worker EXCEPT ![w].at = at, ![w].todo = todo, ![w].slot = slot]
  PROVE  Became(w, at, todo, slot)
<1>1. DOMAIN worker = Workers /\ \A v \in Workers :
        worker[v] = [at |-> worker[v].at, job |-> worker[v].job, todo |-> worker[v].todo, slot |-> worker[v].slot]
  BY DEF Shape
<1>2. worker' = [worker EXCEPT ![w] = [at |-> at, job |-> worker[w].job, todo |-> todo, slot |-> slot]]
  BY <1>1
<1> QED BY <1>1, <1>2 DEF Became

(* The worker that has a miss takes the slot along; a new entry has a new  *)
(* slot.                                                                   *)
LEMMA LookUpKeeps ==
  ASSUME SweepTypes, CacheInv, NEW w \in Workers, LookUp(w)
  PROVE  CacheInv'
<1> DEFINE k == Head(worker[w].todo)
           fresh == cache[k] = NoEntry
           slot == IF fresh THEN Len(slots) + 1 ELSE cache[k].slot
<1>1. /\ worker[w].at = "lookup" /\ worker[w].todo # << >>
      /\ age' = Touched(k) /\ UNCHANGED <<specs, indices, main, used>>
      /\ IF fresh THEN /\ cache' = [cache EXCEPT ![k] = [slot |-> slot, bytes |-> 0]]
                       /\ slots' = Append(slots, "empty")
                  ELSE UNCHANGED <<cache, slots>>
      /\ IF slots'[slot] = "ready" THEN NextKey(w)
         ELSE worker' = [worker EXCEPT ![w].at = "init", ![w].slot = slot]
  BY DEF LookUp, WorkerStep, choiceVars
<1>2. /\ cache \in [Keys -> [slot : Nat, bytes : Nat]] /\ age \in [Keys -> Nat]
      /\ slots \in Seq({"empty", "busy", "ready"}) /\ worker[w].todo \in Seq(Keys) /\ Shape(worker)
      /\ Len(slots) \in Nat
  BY LenProperties DEF CacheInv, CacheTypes, SweepTypes, Shape
<1>3. k \in Keys /\ Tail(worker[w].todo) \in Seq(Keys)
  BY <1>1, <1>2, HeadTailProperties
<1>4. fresh <=> cache[k].slot = 0
  <2>1. cache[k] = [slot |-> cache[k].slot, bytes |-> cache[k].bytes]
    BY <1>2, <1>3
  <2>2. cache[k].slot = 0 => cache[k].bytes = 0
    BY <1>3 DEF CacheInv, EntryInv
  <2> QED BY <2>1, <2>2 DEF NoEntry
<1> DEFINE old == \A s \in 1..Len(slots) : slots'[s] = slots[s]
<1>5. /\ slots' \in Seq({"empty", "busy", "ready"}) /\ Len(slots') \in Nat /\ Len(slots) <= Len(slots')
      /\ old /\ slot \in 1..Len(slots') /\ cache' \in [Keys -> [slot : Nat, bytes : Nat]]
      /\ cache'[k].slot = slot /\ cache'[k].bytes = cache[k].bytes
      /\ \A j \in Keys : j # k => cache'[j] = cache[j] /\ cache[j].slot # slot
  <2>1. CASE fresh
    <3>0. slots' = Append(slots, "empty")
      BY <1>1, <2>1
    <3>1. slots' \in Seq({"empty", "busy", "ready"}) /\ Len(slots') = Len(slots) + 1 /\ old
      <4> HIDE DEF fresh, slot, k
      <4> QED BY <1>2, <3>0, AppendProperties
    <3>2. cache' = [cache EXCEPT ![k] = [slot |-> slot, bytes |-> 0]] /\ slot = Len(slots) + 1 /\ slot \in Nat
      BY <1>1, <1>2, <2>1
    <3>3. cache[k].bytes = 0
      BY <1>2, <2>1 DEF NoEntry
    <3>4. \A j \in Keys : cache[j].slot # slot
      BY <1>2, <3>2 DEF CacheInv, EntryInv
    <3> HIDE DEF slot, k
    <3> QED BY <1>2, <1>3, <3>1, <3>2, <3>3, <3>4
  <2>2. CASE ~fresh
    <3>1. UNCHANGED <<cache, slots>> /\ slot = cache[k].slot /\ cache[k].slot # 0
      BY <1>1, <1>4, <2>2
    <3>2. slot \in 1..Len(slots)
      <4>1. cache[k].slot \in 0..Len(slots)
        BY <1>3 DEF CacheInv, EntryInv
      <4> HIDE DEF slot, k
      <4> QED BY <1>2, <3>1, <4>1
    <3>3. \A j \in Keys : j # k => cache[j].slot # slot
      BY <1>3, <3>1 DEF CacheInv, EntryInv
    <3> HIDE DEF slot, k, fresh
    <3> QED BY <1>2, <1>3, <3>1, <3>2, <3>3
  <2> QED BY <2>1, <2>2
<1>6. /\ \A v \in Workers : v # w => worker'[v] = worker[v]
      /\ \/ worker'[w].at = "lookup" /\ worker'[w].todo = Tail(worker[w].todo) /\ slots'[slot] = "ready"
         \/ worker'[w].at = "init" /\ worker'[w].todo = worker[w].todo /\ worker'[w].slot = slot
  <2> HIDE DEF slot
  <2>1. CASE slots'[slot] = "ready"
    <3>1. worker' = [worker EXCEPT ![w].at = "lookup", ![w].todo = Tail(worker[w].todo), ![w].slot = 0]
      BY <1>1, <1>2, <2>1 DEF NextKey, Shape
    <3>2. Became(w, "lookup", Tail(worker[w].todo), 0)
      BY <1>2, <3>1, EntryAfter
    <3> QED BY <2>1, <3>2 DEF Became
  <2>2. CASE slots'[slot] # "ready"
    <3>1. worker' = [worker EXCEPT ![w].at = "init", ![w].slot = slot]
      BY <1>1, <2>2
    <3>2. Became(w, "init", worker[w].todo, slot)
      BY <1>2, <3>1, EntryAfter
    <3> QED BY <3>2 DEF Became
  <2> QED BY <2>1, <2>2
<1>7. slots'[slot] = "ready" => cache' = cache /\ slots' = slots
  BY <1>1, <1>2, AppendProperties
<1>8. age' \in [Keys -> Nat]
  <2>1. age' = Touched(k)
    BY <1>1
  <2> HIDE DEF k
  <2> QED BY <1>2, <2>1 DEF Touched
<1> HIDE DEF slot, fresh
<1>9. CacheTypes'
  <2>1. \A v \in Workers : worker'[v].todo \in Seq(Keys)
    BY <1>2, <1>3, <1>6 DEF CacheInv, CacheTypes
  <2> QED BY <1>1, <1>5, <1>8, <2>1 DEF CacheInv, CacheTypes
<1>10. EntryInv'
  <2> SUFFICES ASSUME NEW j \in Keys
               PROVE  /\ cache'[j].slot \in 0..Len(slots') /\ cache'[j].bytes \in {0, Bytes[j]}
                      /\ cache'[j].bytes # 0 => cache'[j].slot # 0 /\ slots'[cache'[j].slot] = "ready"
                      /\ cache'[j].slot # 0 => \A i \in Keys : cache'[i].slot = cache'[j].slot => i = j
    BY DEF EntryInv
  <2>1. CASE j = k
    <3>1. cache[k].bytes # 0 => cache[k].slot \in 1..Len(slots) /\ slots[cache[k].slot] = "ready"
      <4>1. cache[k].slot \in 0..Len(slots) /\ (cache[k].bytes # 0 => cache[k].slot # 0 /\ slots[cache[k].slot] = "ready")
        BY <1>3 DEF CacheInv, EntryInv
      <4> HIDE DEF k
      <4> QED BY <1>2, <4>1
    <3>2. cache[k].bytes # 0 => slot = cache[k].slot
      BY <1>3, <1>4, <3>1 DEF slot
    <3>3. cache[k].bytes \in {0, Bytes[k]}
      BY <1>3 DEF CacheInv, EntryInv
    <3> HIDE DEF k
    <3> QED BY <1>5, <2>1, <3>1, <3>2, <3>3
  <2>2. CASE j # k
    <3>1. cache'[j] = cache[j] /\ cache[j].slot \in 0..Len(slots)
      BY <1>5, <2>2 DEF CacheInv, EntryInv
    <3>2. cache[j].slot # 0 => slots'[cache[j].slot] = slots[cache[j].slot]
      <4>1. cache[j].slot # 0 => cache[j].slot \in 1..Len(slots)
        BY <1>2, <3>1
      <4> QED BY <1>5, <4>1
    <3>3. /\ cache[j].bytes \in {0, Bytes[j]}
          /\ cache[j].bytes # 0 => cache[j].slot # 0 /\ slots[cache[j].slot] = "ready"
          /\ cache[j].slot # 0 => \A i \in Keys : cache[i].slot = cache[j].slot => i = j
      BY DEF CacheInv, EntryInv
    <3>4. \A i \in Keys : cache'[i].slot = cache[j].slot /\ cache[j].slot # 0 => i = j
      BY <1>5, <2>2, <3>3
    <3> HIDE DEF k
    <3> QED BY <1>2, <1>5, <3>1, <3>2, <3>3, <3>4
  <2> QED BY <2>1, <2>2
<1>11. AskInv'
  <2> SUFFICES ASSUME NEW v \in Workers, Asking(v)'
               PROVE  /\ worker'[v].todo # << >> /\ worker'[v].slot \in 1..Len(slots')
                      /\ \A j \in Keys : cache'[j].slot = worker'[v].slot => j = Head(worker'[v].todo)
                      /\ worker'[v].at = "register" => slots'[worker'[v].slot] = "ready"
                      /\ worker'[v].at = "compute" =>
                           /\ slots'[worker'[v].slot] = "busy"
                           /\ \A u \in Workers : worker'[u].at = "compute"
                                /\ worker'[u].slot = worker'[v].slot => u = v
    BY DEF AskInv
  <2>1. CASE v = w
    <3>1. worker'[w].at = "init" /\ worker'[w].todo = worker[w].todo /\ worker'[w].slot = slot
      BY <1>6, <2>1 DEF Asking
    <3>2. \A j \in Keys : cache'[j].slot = slot => j = k
      BY <1>5
    <3> QED BY <1>1, <1>5, <2>1, <3>1, <3>2
  <2>2. CASE v # w
    <3>1. worker'[v] = worker[v] /\ Asking(v)
      BY <1>6, <2>2 DEF Asking
    <3>2. /\ worker[v].todo # << >> /\ worker[v].slot \in 1..Len(slots)
          /\ \A j \in Keys : cache[j].slot = worker[v].slot => j = Head(worker[v].todo)
          /\ worker[v].at = "register" => slots[worker[v].slot] = "ready"
          /\ worker[v].at = "compute" =>
               /\ slots[worker[v].slot] = "busy"
               /\ \A u \in Workers : worker[u].at = "compute" /\ worker[u].slot = worker[v].slot => u = v
      BY <3>1 DEF CacheInv, AskInv
    <3>3. \A j \in Keys : cache'[j].slot = worker[v].slot => cache[j].slot = worker[v].slot
      <4>1. fresh => slot = Len(slots) + 1
        BY DEF slot
      <4>2. ~fresh => cache' = cache
        BY <1>1
      <4>3. cache'[k].slot = slot /\ \A j \in Keys : j # k => cache'[j] = cache[j]
        BY <1>5
      <4>4. fresh => slot # worker[v].slot
        BY <1>2, <3>2, <4>1
      <4> HIDE DEF k
      <4> QED BY <4>2, <4>3, <4>4
    <3>4. slots'[worker[v].slot] = slots[worker[v].slot] /\ worker[v].slot \in 1..Len(slots')
      BY <1>2, <1>5, <3>2
    <3>5. \A u \in Workers : worker'[u].at = "compute" => worker'[u] = worker[u]
      BY <1>6
    <3> HIDE DEF k
    <3> QED BY <3>1, <3>2, <3>3, <3>4, <3>5
  <2> QED BY <2>1, <2>2
<1>12. SizeInv'
  <2>1. \A j \in Keys : cache'[j].bytes = cache[j].bytes
    BY <1>5
  <2>2. [j \in Keys |-> cache'[j].bytes] = [j \in Keys |-> cache[j].bytes]
    BY <2>1
  <2> QED BY <1>1, <2>2 DEF CacheInv, SizeInv, Size
<1>13. CountedInv'
  <2> SUFFICES ASSUME main' # "exit", NEW j \in Keys,
                      cache'[j].slot # 0, cache'[j].bytes = 0, slots'[cache'[j].slot] = "ready"
               PROVE  \E v \in Workers : /\ worker'[v].slot = cache'[j].slot
                                         /\ worker'[v].at \in {"init", "register"}
    BY DEF CountedInv
  <2>1. cache'[j] = cache[j] /\ slots'[cache[j].slot] = slots[cache[j].slot]
    <3>1. CASE j = k
      <4>1. cache'[j].slot = slot
        BY <1>5, <3>1
      <4> QED BY <1>7, <4>1
    <3>2. CASE j # k
      <4>1. cache'[j] = cache[j] /\ cache[j].slot \in 0..Len(slots)
        BY <1>5, <3>2 DEF CacheInv, EntryInv
      <4>2. cache[j].slot \in 1..Len(slots)
        BY <1>2, <4>1
      <4> QED BY <1>5, <4>1, <4>2
    <3> QED BY <3>1, <3>2
  <2>2. PICK v \in Workers : worker[v].slot = cache[j].slot /\ worker[v].at \in {"init", "register"}
    BY <1>1, <2>1 DEF CacheInv, CountedInv
  <2> QED BY <1>1, <1>6, <2>1, <2>2
<1> QED BY <1>9, <1>10, <1>11, <1>12, <1>13 DEF CacheInv

(* The first to see an empty slot computes.                                *)
LEMMA GetOrInitKeeps ==
  ASSUME SweepTypes, CacheInv, NEW w \in Workers, GetOrInit(w)
  PROVE  CacheInv'
<1> DEFINE s == worker[w].slot
<1>1. /\ worker[w].at = "init" /\ slots[s] # "busy"
      /\ UNCHANGED <<specs, indices, main, cache, age, used>>
      /\ IF slots[s] = "ready" THEN Go(w, "register") /\ slots' = slots
         ELSE Go(w, "compute") /\ slots' = [slots EXCEPT ![s] = "busy"]
  BY DEF GetOrInit, WorkerStep, choiceVars
<1>2. /\ cache \in [Keys -> [slot : Nat, bytes : Nat]] /\ slots \in Seq({"empty", "busy", "ready"})
      /\ Shape(worker) /\ Len(slots) \in Nat
  BY LenProperties DEF CacheInv, CacheTypes, SweepTypes, Shape
<1>3. s \in 1..Len(slots) /\ worker[w].todo # << >>
      /\ \A k \in Keys : cache[k].slot = s => k = Head(worker[w].todo)
  BY <1>1 DEF CacheInv, AskInv, Asking
<1>4. \/ Became(w, "register", worker[w].todo, s) /\ slots[s] = "ready" /\ slots' = slots
      \/ Became(w, "compute", worker[w].todo, s) /\ slots[s] = "empty" /\ slots' = [slots EXCEPT ![s] = "busy"]
  <2>1. slots[s] \in {"empty", "busy", "ready"}
    BY <1>2, <1>3, ElementOfSeq
  <2> QED BY <1>1, <1>2, <2>1, EntryAfter DEF Go
<1> HIDE DEF s
<1>5. /\ slots' \in Seq({"empty", "busy", "ready"}) /\ Len(slots') = Len(slots)
      /\ \A i \in 1..Len(slots) : i # s => slots'[i] = slots[i]
      /\ slots'[s] = IF slots[s] = "ready" THEN "ready" ELSE "busy"
  <2>1. CASE slots' = slots /\ slots[s] = "ready"
    BY <1>2, <2>1
  <2>2. CASE slots' = [slots EXCEPT ![s] = "busy"] /\ slots[s] = "empty"
    BY <1>2, <1>3, <2>2, ExceptSeq
  <2> QED BY <1>4, <2>1, <2>2
<1>6. \A i \in 1..Len(slots) : slots[i] = "ready" <=> slots'[i] = "ready"
  BY <1>4, <1>5
<1>7. \A v \in Workers : v # w => worker'[v] = worker[v]
  BY <1>4 DEF Became
<1>8. /\ worker'[w].at \in {"register", "compute"} /\ worker'[w].todo = worker[w].todo /\ worker'[w].slot = s
      /\ worker'[w].at = "register" <=> slots[s] = "ready"
  BY <1>4 DEF Became
<1>9. CacheTypes'
  <2>1. \A v \in Workers : worker'[v].todo \in Seq(Keys)
    BY <1>7, <1>8 DEF CacheInv, CacheTypes
  <2> QED BY <1>1, <1>5, <2>1 DEF CacheInv, CacheTypes
<1>10. EntryInv'
  <2>1. \A k \in Keys : cache[k].slot # 0 => cache[k].slot \in 1..Len(slots)
    BY <1>2 DEF CacheInv, EntryInv
  <2> QED BY <1>1, <1>5, <1>6, <2>1 DEF CacheInv, EntryInv
<1>11. AskInv'
  <2> SUFFICES ASSUME NEW v \in Workers, Asking(v)'
               PROVE  /\ worker'[v].todo # << >> /\ worker'[v].slot \in 1..Len(slots')
                      /\ \A j \in Keys : cache'[j].slot = worker'[v].slot => j = Head(worker'[v].todo)
                      /\ worker'[v].at = "register" => slots'[worker'[v].slot] = "ready"
                      /\ worker'[v].at = "compute" =>
                           /\ slots'[worker'[v].slot] = "busy"
                           /\ \A u \in Workers : worker'[u].at = "compute"
                                /\ worker'[u].slot = worker'[v].slot => u = v
    BY DEF AskInv
  <2>1. \A u \in Workers : worker[u].at = "compute" =>
          /\ worker[u].slot \in 1..Len(slots) /\ slots[worker[u].slot] = "busy"
          /\ \A x \in Workers : worker[x].at = "compute" /\ worker[x].slot = worker[u].slot => x = u
    BY DEF CacheInv, AskInv, Asking
  <2>2. slots[s] # "busy"
    BY <1>4
  <2>3. \A u, x \in Workers :
          worker'[u].at = "compute" /\ worker'[x].at = "compute" /\ worker'[u].slot = worker'[x].slot => u = x
    <3>1. \A u \in Workers : u # w /\ worker'[u].at = "compute" =>
            worker'[u] = worker[u] /\ worker[u].at = "compute" /\ worker[u].slot # s
      BY <1>7, <2>1, <2>2
    <3>2. \A u \in Workers : u # w /\ worker'[u].at = "compute" => worker'[u].slot # worker'[w].slot
      BY <1>8, <3>1
    <3>3. ASSUME NEW u \in Workers, NEW x \in Workers, u # w, x # w, worker'[u].at = "compute",
                 worker'[x].at = "compute", worker'[u].slot = worker'[x].slot
          PROVE  u = x
      <4>1. /\ worker[u].at = "compute" /\ worker[x].at = "compute" /\ worker[x].slot = worker[u].slot
        BY <3>1, <3>3
      <4>2. \A y \in Workers : worker[y].at = "compute" /\ worker[y].slot = worker[u].slot => y = u
        BY <2>1, <4>1
      <4> QED BY <4>1, <4>2
    <3> SUFFICES ASSUME NEW u \in Workers, NEW x \in Workers, worker'[u].at = "compute",
                        worker'[x].at = "compute", worker'[u].slot = worker'[x].slot
                 PROVE  u = x
      OBVIOUS
    <3>4. CASE u = w
      BY <3>2, <3>4
    <3>5. CASE x = w
      BY <3>2, <3>5
    <3> QED BY <3>3, <3>4, <3>5
  <2>4. CASE v = w
    BY <1>1, <1>3, <1>5, <1>8, <2>3, <2>4
  <2>5. CASE v # w
    <3>1. worker'[v] = worker[v] /\ Asking(v)
      BY <1>7, <2>5 DEF Asking
    <3>2. /\ worker[v].todo # << >> /\ worker[v].slot \in 1..Len(slots)
          /\ \A j \in Keys : cache[j].slot = worker[v].slot => j = Head(worker[v].todo)
          /\ worker[v].at = "register" => slots[worker[v].slot] = "ready"
      BY <3>1 DEF CacheInv, AskInv
    <3>3. worker[v].at = "compute" => slots'[worker[v].slot] = "busy"
      BY <1>5, <2>1, <2>2
    <3> QED BY <1>1, <1>5, <1>6, <2>3, <3>1, <3>2, <3>3
  <2> QED BY <2>4, <2>5
<1>12. SizeInv'
  BY <1>1 DEF CacheInv, SizeInv, Size
<1>13. CountedInv'
  <2> SUFFICES ASSUME main' # "exit", NEW j \in Keys,
                      cache'[j].slot # 0, cache'[j].bytes = 0, slots'[cache'[j].slot] = "ready"
               PROVE  \E v \in Workers : /\ worker'[v].slot = cache'[j].slot
                                         /\ worker'[v].at \in {"init", "register"}
    BY DEF CountedInv
  <2>1. cache[j].slot \in 1..Len(slots)
    BY <1>1, <1>2 DEF CacheInv, EntryInv
  <2>2. PICK v \in Workers : worker[v].slot = cache[j].slot /\ worker[v].at \in {"init", "register"}
    BY <1>1, <1>6, <2>1 DEF CacheInv, CountedInv
  <2>3. CASE v = w
    BY <1>1, <1>6, <1>8, <2>1, <2>2, <2>3 DEF s
  <2>4. CASE v # w
    BY <1>1, <1>7, <2>2, <2>4
  <2> QED BY <2>3, <2>4
<1> QED BY <1>9, <1>10, <1>11, <1>12, <1>13 DEF CacheInv

(* A series is in the slot when compute_fn returns, and the slot is empty  *)
(* again when it panics.                                                   *)
LEMMA ComputeKeeps ==
  ASSUME SweepTypes, CacheInv, NEW w \in Workers, NEW panics \in BOOLEAN, ComputeSeries(w, panics)
  PROVE  CacheInv'
<1> DEFINE s == worker[w].slot
           state == IF panics THEN "empty" ELSE "ready"
           at == IF panics THEN "cancel" ELSE "register"
<1>1. /\ worker[w].at = "compute" /\ UNCHANGED <<specs, indices, main, cache, age, used>>
      /\ slots' = [slots EXCEPT ![s] = state] /\ Go(w, at)
  BY DEF ComputeSeries, WorkerStep, choiceVars
<1>2. /\ cache \in [Keys -> [slot : Nat, bytes : Nat]] /\ slots \in Seq({"empty", "busy", "ready"})
      /\ Shape(worker) /\ Len(slots) \in Nat /\ state \in {"empty", "busy", "ready"}
  BY LenProperties DEF CacheInv, CacheTypes, SweepTypes, Shape
<1>3. /\ s \in 1..Len(slots) /\ worker[w].todo # << >> /\ slots[s] = "busy"
      /\ \A k \in Keys : cache[k].slot = s => k = Head(worker[w].todo)
      /\ \A v \in Workers : worker[v].at = "compute" /\ worker[v].slot = s => v = w
  BY <1>1 DEF CacheInv, AskInv, Asking
<1>4. Became(w, at, worker[w].todo, s)
  <2> HIDE DEF at
  <2> QED BY <1>1, <1>2, EntryAfter DEF Go
<1> HIDE DEF s
<1>5. /\ slots' \in Seq({"empty", "busy", "ready"}) /\ Len(slots') = Len(slots)
      /\ \A i \in 1..Len(slots) : i # s => slots'[i] = slots[i]
      /\ slots'[s] = state
  <2> HIDE DEF state
  <2> QED BY <1>1, <1>2, <1>3, ExceptSeq
<1>6. /\ \A v \in Workers : v # w => worker'[v] = worker[v]
      /\ worker'[w].at = at /\ worker'[w].todo = worker[w].todo /\ worker'[w].slot = s
  BY <1>4 DEF Became
<1>7. CacheTypes'
  <2>1. \A v \in Workers : worker'[v].todo \in Seq(Keys)
    BY <1>6 DEF CacheInv, CacheTypes
  <2> QED BY <1>1, <1>5, <2>1 DEF CacheInv, CacheTypes
<1>8. EntryInv'
  <2>1. \A k \in Keys : /\ cache[k].slot # 0 => cache[k].slot \in 1..Len(slots)
                        /\ cache[k].bytes # 0 => slots'[cache[k].slot] = "ready" /\ cache[k].slot # 0
    BY <1>2, <1>3, <1>5 DEF CacheInv, EntryInv
  <2> QED BY <1>1, <1>5, <2>1 DEF CacheInv, EntryInv
<1>9. AskInv'
  <2> SUFFICES ASSUME NEW v \in Workers, Asking(v)'
               PROVE  /\ worker'[v].todo # << >> /\ worker'[v].slot \in 1..Len(slots')
                      /\ \A j \in Keys : cache'[j].slot = worker'[v].slot => j = Head(worker'[v].todo)
                      /\ worker'[v].at = "register" => slots'[worker'[v].slot] = "ready"
                      /\ worker'[v].at = "compute" =>
                           /\ slots'[worker'[v].slot] = "busy"
                           /\ \A u \in Workers : worker'[u].at = "compute"
                                /\ worker'[u].slot = worker'[v].slot => u = v
    BY DEF AskInv
  <2>1. CASE v = w
    <3>1. worker'[w].at = "register" /\ ~panics
      BY <1>6, <2>1 DEF Asking
    <3> QED BY <1>1, <1>3, <1>5, <1>6, <2>1, <3>1
  <2>2. CASE v # w
    <3>1. worker'[v] = worker[v] /\ Asking(v)
      BY <1>6, <2>2 DEF Asking
    <3>2. /\ worker[v].todo # << >> /\ worker[v].slot \in 1..Len(slots)
          /\ \A j \in Keys : cache[j].slot = worker[v].slot => j = Head(worker[v].todo)
          /\ worker[v].at = "register" => slots[worker[v].slot] = "ready"
          /\ worker[v].at = "compute" =>
               /\ slots[worker[v].slot] = "busy"
               /\ \A u \in Workers : worker[u].at = "compute" /\ worker[u].slot = worker[v].slot => u = v
      BY <3>1 DEF CacheInv, AskInv
    <3>3. worker[v].at \in {"register", "compute"} => worker[v].slot # s
      BY <1>3, <2>2, <3>2
    <3>4. \A u \in Workers : worker'[u].at = "compute" => worker'[u] = worker[u]
      BY <1>6
    <3> HIDE DEF at, state
    <3> QED BY <1>1, <1>5, <3>1, <3>2, <3>3, <3>4
  <2> QED BY <2>1, <2>2
<1>10. SizeInv'
  BY <1>1 DEF CacheInv, SizeInv, Size
<1>11. CountedInv'
  <2> SUFFICES ASSUME main' # "exit", NEW j \in Keys,
                      cache'[j].slot # 0, cache'[j].bytes = 0, slots'[cache'[j].slot] = "ready"
               PROVE  \E v \in Workers : /\ worker'[v].slot = cache'[j].slot
                                         /\ worker'[v].at \in {"init", "register"}
    BY DEF CountedInv
  <2>1. cache[j].slot \in 1..Len(slots)
    BY <1>1, <1>2 DEF CacheInv, EntryInv
  <2>2. CASE cache[j].slot = s
    BY <1>1, <1>5, <1>6, <2>2
  <2>3. CASE cache[j].slot # s
    <3>1. PICK v \in Workers : worker[v].slot = cache[j].slot /\ worker[v].at \in {"init", "register"}
      BY <1>1, <1>5, <2>1, <2>3 DEF CacheInv, CountedInv
    <3>2. v # w
      BY <1>1, <3>1
    <3> QED BY <1>1, <1>6, <3>1, <3>2
  <2> QED BY <2>2, <2>3
<1> QED BY <1>7, <1>8, <1>9, <1>10, <1>11 DEF CacheInv

(* Of some keys there is one that no other one was used before.            *)
LEMMA OldestKey ==
  ASSUME age \in [Keys -> Nat], NEW J \in SUBSET Keys, J # {}
  PROVE  \E j \in J : \A i \in J : ~(age[i] > age[j])
<1> DEFINE B == {X \in SUBSET Keys : X # {} /\ \A j \in X : \E i \in X : age[i] > age[j]}
<1>1. SUFFICES ASSUME B # {} PROVE FALSE
  OBVIOUS
<1>2. B \in SUBSET (SUBSET Keys)
  OBVIOUS
<1>3. PICK X \in B : \A Y \in B : Y \subseteq X => Y = X
  <2> HIDE DEF B
  <2> QED BY <1>1, <1>2, CacheAssumption, SmallestPart DEF CacheAssumption
<1>4. X \subseteq Keys /\ X # {} /\ \A j \in X : \E i \in X : age[i] > age[j]
  OBVIOUS
<1>5. PICK x \in X : TRUE
  BY <1>4
<1> DEFINE Y == X \ {x}
<1>6. Y # {}
  <2>1. PICK i \in X : age[i] > age[x]
    BY <1>4
  <2>2. i # x
    BY <1>4, <2>1
  <2> QED BY <2>2
<1>7. PICK y \in Y : \A i \in Y : ~(age[i] > age[y])
  <2>1. Y \notin B
    BY <1>3, <1>5
  <2> QED BY <1>4, <1>6, <2>1
<1>8. age[x] \in Nat /\ age[y] \in Nat /\ \A i \in X : age[i] \in Nat
  BY <1>4
<1>9. PICK i \in X : age[i] > age[y]
  BY <1>4, <1>7
<1>10. age[x] > age[y]
  BY <1>7, <1>9
<1>11. PICK h \in X : age[h] > age[x]
  BY <1>4
<1>12. h \in Y /\ age[h] > age[y]
  BY <1>8, <1>10, <1>11
<1> QED BY <1>7, <1>12

(* Evicting brings the size under the budget, or leaves nothing but the    *)
(* protected key.                                                          *)
LEMMA VictimsEnough ==
  ASSUME CacheInv, NEW k \in Keys, NEW c \in [Keys -> [slot : Nat, bytes : Nat]],
         \A j \in Keys : c[j].bytes # 0 => slots[c[j].slot] = "ready",
         NEW out, out = Victims(c, Size(c), k)
  PROVE  /\ out \in SUBSET (Keys \ {k})
         /\ Size(c) - BytesOf(c, out) <= Budget \/ Size(c) - BytesOf(c, out) = c[k].bytes
<1> DEFINE F == [j \in Keys |-> c[j].bytes]
           able == {j \in Keys \ {k} : c[j].bytes > 0 /\ slots[c[j].slot] = "ready"}
           OlderThan(i) == {j \in able : age[j] > age[i]}
<1>1. out = {i \in able : Size(c) - BytesOf(c, OlderThan(i)) > Budget}
  BY DEF Victims, BytesOf
<1>2. IsFiniteSet(Keys) /\ Budget \in Nat /\ (\A x \in Keys : F[x] \in Nat) /\ (\A x \in Keys : F[x] \in Int)
  BY CacheAssumption DEF CacheAssumption
<1>3. \A D \in SUBSET Keys : /\ BytesOf(c, D) = SumOf(F, D)
                             /\ SumOf(F, D) \in Int /\ IsFiniteSet(D)
  <2> TAKE D \in SUBSET Keys
  <2>1. BytesOf(c, D) = SumOf(F, D)
    BY BytesPart
  <2>2. SumOf(F, D) \in Int
    <3> HIDE DEF F
    <3> QED BY <1>2, SumWithout
  <2> QED BY <1>2, <2>1, <2>2, FS_Subset
<1>4. Size(c) = SumOf(F, Keys) /\ Size(c) \in Int
  BY <1>3 DEF Size
<1>5. out \in SUBSET (Keys \ {k}) /\ out \subseteq able /\ able \in SUBSET Keys
  BY <1>1
<1> DEFINE left == Size(c) - SumOf(F, out)
<1>6. BytesOf(c, out) = SumOf(F, out) /\ left \in Int
  <2>1. out \in SUBSET Keys
    BY <1>5
  <2>2. BytesOf(c, out) = SumOf(F, out) /\ SumOf(F, out) \in Int
    BY <1>3, <2>1
  <2> HIDE DEF F
  <2> QED BY <1>4, <2>2
<1>7. ASSUME ~(left <= Budget) PROVE left = c[k].bytes
  <2>1. out = able
    <3> SUFFICES ASSUME able \ out # {} PROVE FALSE
      BY <1>5
    <3>1. PICK j \in able \ out : \A i \in able \ out : ~(age[i] > age[j])
      <4>1. able \ out \in SUBSET Keys /\ age \in [Keys -> Nat]
        BY DEF CacheInv, CacheTypes
      <4> HIDE DEF able
      <4> QED BY <4>1, OldestKey
    <3>2. OlderThan(j) \in SUBSET out /\ OlderThan(j) \in SUBSET Keys
      BY <3>1
    <3>3. ~(Size(c) - SumOf(F, OlderThan(j)) > Budget)
      <4>1. BytesOf(c, OlderThan(j)) = SumOf(F, OlderThan(j))
        BY <1>3, <3>2
      <4> HIDE DEF F, OlderThan, able
      <4> QED BY <1>1, <3>1, <4>1
    <3>4. SumOf(F, OlderThan(j)) <= SumOf(F, out)
      <4>1. IsFiniteSet(out) /\ \A x \in out : F[x] \in Nat
        BY <1>2, <1>3, <1>5
      <4> HIDE DEF F, OlderThan, able
      <4> QED BY <3>2, <4>1, SumMonotonic
    <3>5. SumOf(F, OlderThan(j)) \in Int /\ SumOf(F, out) \in Int
      BY <1>3, <1>5, <3>2
    <3> HIDE DEF F, OlderThan, able
    <3> QED BY <1>2, <1>4, <1>7, <3>3, <3>4, <3>5
  <2> DEFINE e == [x \in Keys |-> IF x \in able THEN 0 ELSE F[x]]
             R == Keys \ {k}
             h == [x \in Keys |-> IF x \in R THEN 0 ELSE F[x]]
  <2>2. SumOf(e, Keys) = left
    <3> HIDE DEF F, able
    <3> QED BY <1>2, <1>4, <1>5, <2>1, SumWithout
  <2>3. SumOf(h, Keys) = SumOf(F, Keys) - SumOf(F, R)
    <3>1. R \in SUBSET Keys
      OBVIOUS
    <3> HIDE DEF F, R
    <3> QED BY <1>2, <3>1, SumWithout
  <2>4. SumOf(F, Keys) = F[k] + SumOf(F, R) /\ SumOf(F, R) \in Int
    <3> HIDE DEF F
    <3> QED BY <1>2, SumRemove
  <2>5. \A x \in Keys : e[x] = h[x]
    OBVIOUS
  <2>6. SumOf(e, Keys) = SumOf(h, Keys)
    <3> HIDE DEF e, h
    <3> QED BY <1>2, <2>5, SumSame
  <2>7. F[k] = c[k].bytes /\ F[k] \in Int
    BY <1>2
  <2> HIDE DEF e, h, F, R, left
  <2> QED BY <2>2, <2>3, <2>4, <2>6, <2>7
<1> HIDE DEF F
<1> QED BY <1>5, <1>6, <1>7

(* A size that is registered counts once, and the evictions keep the sum   *)
(* within the budget.                                                      *)
LEMMA RegisterSizes ==
  ASSUME CacheInv, NEW w \in Workers, Register(w), worker[w].at = "register"
  PROVE  LET k == Head(worker[w].todo)
         IN  /\ cache' \in [Keys -> [slot : Nat, bytes : Nat]]
             /\ \A j \in Keys :
                  \/ cache'[j] = NoEntry
                  \/ cache'[j] = cache[j]
                  \/ /\ j = k /\ cache'[k] = [slot |-> cache[k].slot, bytes |-> Bytes[k]]
                     /\ cache[k].slot = worker[w].slot /\ cache[k].bytes = 0
             /\ cache[k].slot = worker[w].slot /\ cache'[k] # NoEntry => cache'[k].bytes # 0
             /\ used' = Size(cache') /\ used' <= Budget
<1> DEFINE k == Head(worker[w].todo)
           bytes == RegisteredBytes(w, k)
           full == IF bytes = 0 THEN cache ELSE [cache EXCEPT ![k].bytes = bytes]
           out == IF bytes = 0 THEN {} ELSE Victims(full, used + bytes, k)
           evicted == BytesOf(full, out)
           left == used + bytes - evicted
           gone == IF left > Budget /\ bytes > Budget THEN out \cup {k} ELSE out
           F == [j \in Keys |-> full[j].bytes]
<1>1. /\ cache' = [j \in Keys |-> IF j \in gone THEN NoEntry ELSE full[j]]
      /\ used' = IF gone = out THEN left ELSE left - full[k].bytes
  BY DEF Register, BytesOf
<1>2. /\ cache \in [Keys -> [slot : Nat, bytes : Nat]] /\ worker[w].todo \in Seq(Keys)
      /\ IsFiniteSet(Keys) /\ Budget \in Nat /\ \A j \in Keys : Bytes[j] \in Nat \ {0}
  BY CacheAssumption DEF CacheInv, CacheTypes, CacheAssumption
<1>3. worker[w].todo # << >> /\ worker[w].slot # 0 /\ slots[worker[w].slot] = "ready"
  BY DEF CacheInv, AskInv, Asking
<1>4. k \in Keys
  BY <1>2, <1>3, HeadTailProperties
<1>5. /\ bytes = 0 \/ (bytes = Bytes[k] /\ cache[k].slot = worker[w].slot /\ cache[k].bytes = 0)
      /\ bytes \in Nat
      /\ cache[k].slot = worker[w].slot /\ bytes = 0 => cache[k].bytes # 0
  <2> HIDE DEF k
  <2> QED BY <1>2, <1>4 DEF RegisteredBytes
<1> HIDE DEF k, bytes
<1>6. /\ full \in [Keys -> [slot : Nat, bytes : Nat]]
      /\ \A j \in Keys : j # k => full[j] = cache[j]
      /\ full[k] = IF bytes = 0 THEN cache[k] ELSE [slot |-> cache[k].slot, bytes |-> bytes]
  <2>1. CASE bytes = 0
    BY <1>2, <1>4, <2>1
  <2>2. CASE bytes # 0
    <3>1. full = [cache EXCEPT ![k].bytes = bytes]
      BY <2>2
    <3>2. cache[k] = [slot |-> cache[k].slot, bytes |-> cache[k].bytes]
      BY <1>2, <1>4
    <3> HIDE DEF full
    <3> QED BY <1>2, <1>4, <1>5, <2>2, <3>1, <3>2
  <2> QED BY <2>1, <2>2
<1> HIDE DEF full
<1>7. /\ \A x \in Keys : F[x] \in Int
      /\ F[k] = full[k].bytes
  BY <1>4, <1>6
<1>8. Size(full) = used + bytes /\ used \in Int /\ used <= Budget
  <2> DEFINE f == [j \in Keys |-> cache[j].bytes]
  <2>1. used = SumOf(f, Keys) /\ used <= Budget
    BY DEF CacheInv, SizeInv, Size
  <2>2. /\ \A x \in Keys : f[x] \in Int
        /\ \A x \in Keys : F[x] \in Int
        /\ \A x \in Keys \ {k} : f[x] = F[x]
        /\ f[k] = cache[k].bytes /\ F[k] = full[k].bytes /\ Size(full) = SumOf(F, Keys)
        /\ f[k] \in Int /\ F[k] \in Int
    BY <1>2, <1>4, <1>6 DEF Size
  <2>3. F[k] = f[k] + bytes
    <3>1. bytes # 0 => cache[k].bytes = 0 /\ full[k].bytes = bytes
      BY <1>5, <1>6
    <3>2. bytes = 0 => full[k] = cache[k]
      BY <1>6
    <3> HIDE DEF f, F
    <3> QED BY <1>5, <2>2, <3>1, <3>2
  <2> HIDE DEF f, F
  <2>4. SumOf(f, Keys) = f[k] + SumOf(f, Keys \ {k}) /\ SumOf(f, Keys \ {k}) \in Int
    BY <1>2, <1>4, <2>2, SumRemove
  <2>5. SumOf(F, Keys) = F[k] + SumOf(F, Keys \ {k})
    BY <1>2, <1>4, <2>2, SumRemove
  <2>6. SumOf(f, Keys \ {k}) = SumOf(F, Keys \ {k})
    <3>1. IsFiniteSet(Keys \ {k})
      BY <1>2, FS_RemoveElement
    <3> QED BY <2>2, <3>1, SumSame
  <2> QED BY <1>5, <2>1, <2>2, <2>3, <2>4, <2>5, <2>6
<1>9. out \in SUBSET (Keys \ {k}) /\ (left <= Budget \/ (bytes # 0 /\ left = bytes))
  <2>1. CASE bytes = 0
    <3>1. out = {}
      BY <2>1
    <3>2. BytesOf(full, {}) = SumOf(F, {})
      BY BytesPart
    <3>3. left = used + bytes - 0
      <4>1. evicted = 0
        BY <3>1, <3>2, SumEmpty
      <4> QED BY <4>1
    <3> HIDE DEF left, out
    <3> QED BY <1>8, <2>1, <3>1, <3>3
  <2>2. CASE bytes # 0
    <3>1. out = Victims(full, Size(full), k)
      BY <1>8, <2>2
    <3>2. \A j \in Keys : full[j].bytes # 0 => slots[full[j].slot] = "ready"
      <4>1. full[k].slot = worker[w].slot
        BY <1>5, <1>6, <2>2
      <4> QED BY <1>3, <1>6, <4>1 DEF CacheInv, EntryInv
    <3>3. full[k].bytes = bytes
      BY <1>6, <2>2
    <3> HIDE DEF out
    <3>4. /\ out \in SUBSET (Keys \ {k})
          /\ Size(full) - evicted <= Budget \/ Size(full) - evicted = full[k].bytes
      BY <1>4, <1>6, <3>1, <3>2, VictimsEnough
    <3>5. left = Size(full) - evicted
      <4>1. out \in SUBSET Keys
        BY <3>4
      <4>2. evicted = SumOf(F, out)
        BY <4>1, BytesPart
      <4> HIDE DEF F, evicted
      <4>3. evicted \in Int
        BY <1>2, <1>7, <4>1, <4>2, SumWithout
      <4> QED BY <1>5, <1>8, <4>3
    <3> HIDE DEF evicted, left
    <3> QED BY <2>2, <3>3, <3>4, <3>5
  <2> QED BY <2>1, <2>2
<1> HIDE DEF out
<1>10. left = SumOf(F, Keys) - SumOf(F, out) /\ left \in Int /\ SumOf(F, Keys) \in Int
  <2>1. out \in SUBSET Keys
    BY <1>9
  <2>2. evicted = SumOf(F, out)
    BY <2>1, BytesPart
  <2>3. Size(full) = SumOf(F, Keys)
    BY DEF Size
  <2> HIDE DEF F, evicted
  <2>4. SumOf(F, out) \in Int /\ SumOf(F, Keys) \in Int
    BY <1>2, <1>7, <2>1, SumWithout
  <2> QED BY <1>5, <1>8, <2>2, <2>3, <2>4
<1> HIDE DEF left
<1>11. \/ gone = out /\ used' = left /\ left <= Budget
       \/ gone = out \cup {k} /\ gone # out /\ used' = left - F[k] /\ left = bytes /\ bytes = F[k]
  <2>1. k \notin out
    BY <1>9
  <2>2. CASE left > Budget /\ bytes > Budget
    <3>1. gone = out \cup {k} /\ gone # out
      BY <2>1, <2>2
    <3>2. bytes # 0 /\ left = bytes
      BY <1>2, <1>9, <1>10, <2>2
    <3>3. F[k] = bytes
      BY <1>6, <1>7, <3>2
    <3> HIDE DEF gone
    <3> QED BY <1>1, <1>7, <3>1, <3>2, <3>3
  <2>3. CASE ~(left > Budget /\ bytes > Budget)
    <3>1. gone = out
      BY <2>3
    <3>2. left <= Budget
      BY <1>2, <1>5, <1>9, <1>10, <2>3
    <3> QED BY <1>1, <3>1, <3>2
  <2> QED BY <2>2, <2>3
<1> HIDE DEF gone
<1>12. gone \in SUBSET Keys
  BY <1>4, <1>9, <1>11
<1>13. Size(cache') = SumOf(F, Keys) - SumOf(F, gone)
  <2>1. [j \in Keys |-> cache'[j].bytes] = [j \in Keys |-> IF j \in gone THEN 0 ELSE F[j]]
    BY <1>1 DEF NoEntry
  <2>2. Size(cache') = SumOf([j \in Keys |-> IF j \in gone THEN 0 ELSE F[j]], Keys)
    BY <2>1 DEF Size
  <2> HIDE DEF F
  <2>3. SumOf([j \in Keys |-> IF j \in gone THEN 0 ELSE F[j]], Keys) = SumOf(F, Keys) - SumOf(F, gone)
    <3>1. \A x \in Keys : F[x] \in Int
      BY <1>7
    <3>2. IsFiniteSet(Keys) /\ gone \in SUBSET Keys
      BY <1>2, <1>12
    <3> QED BY <3>1, <3>2, SumWithout
  <2> QED BY <2>2, <2>3
<1>14. used' = Size(cache') /\ used' <= Budget
  <2>1. CASE gone = out /\ used' = left /\ left <= Budget
    BY <1>10, <1>13, <2>1
  <2>2. CASE gone = out \cup {k} /\ used' = left - F[k] /\ left = bytes /\ bytes = F[k]
    <3>1. k \in gone /\ gone \ {k} = out
      BY <1>9, <2>2
    <3>2. IsFiniteSet(gone) /\ \A x \in gone : F[x] \in Int
      BY <1>2, <1>7, <1>12, FS_Subset
    <3> HIDE DEF F
    <3>3. SumOf(F, gone) = F[k] + SumOf(F, out) /\ SumOf(F, out) \in Int
      BY <3>1, <3>2, SumRemove
    <3>4. F[k] \in Nat
      BY <1>5, <2>2
    <3>5. used' = Size(cache')
      BY <1>10, <1>13, <2>2, <3>3, <3>4
    <3>6. used' = 0 /\ 0 <= Budget
      BY <1>2, <2>2, <3>4
    <3> QED BY <3>5, <3>6
  <2> QED BY <1>11, <2>1, <2>2
<1>15. cache' \in [Keys -> [slot : Nat, bytes : Nat]]
  BY <1>1, <1>6 DEF NoEntry
<1>16. \A j \in Keys :
         \/ cache'[j] = NoEntry
         \/ cache'[j] = cache[j]
         \/ /\ j = k /\ cache'[k] = [slot |-> cache[k].slot, bytes |-> Bytes[k]]
            /\ cache[k].slot = worker[w].slot /\ cache[k].bytes = 0
  <2> TAKE j \in Keys
  <2>1. cache'[j] = NoEntry \/ cache'[j] = full[j]
    BY <1>1
  <2>2. CASE j # k
    BY <1>6, <2>1, <2>2
  <2>3. CASE j = k
    BY <1>5, <1>6, <2>1, <2>3
  <2> QED BY <2>2, <2>3
<1>17. cache[k].slot = worker[w].slot /\ cache'[k] # NoEntry => cache'[k].bytes # 0
  <2>1. cache'[k] # NoEntry => cache'[k] = full[k]
    BY <1>1, <1>4
  <2>2. cache[k].slot = worker[w].slot => full[k].bytes # 0
    BY <1>5, <1>6
  <2> QED BY <2>1, <2>2
<1> QED BY <1>14, <1>15, <1>16, <1>17 DEF k

(* The worker that registers has its series counted or its entry gone.     *)
LEMMA RegisterSizeKeeps ==
  ASSUME SweepTypes, CacheInv, NEW w \in Workers, Register(w)
  PROVE  CacheInv'
<1> DEFINE k == Head(worker[w].todo)
<1>1. /\ worker[w].at = "register" /\ UNCHANGED <<specs, indices, main, age, slots>> /\ NextKey(w)
  BY DEF Register, WorkerStep, choiceVars
<1>2. /\ cache \in [Keys -> [slot : Nat, bytes : Nat]] /\ worker[w].todo \in Seq(Keys) /\ Shape(worker)
      /\ Len(slots) \in Nat
  BY LenProperties DEF CacheInv, CacheTypes, SweepTypes, Shape
<1>3. /\ worker[w].todo # << >> /\ worker[w].slot \in 1..Len(slots) /\ slots[worker[w].slot] = "ready"
      /\ \A j \in Keys : cache[j].slot = worker[w].slot => j = k
  BY <1>1 DEF CacheInv, AskInv, Asking
<1>4. k \in Keys /\ Tail(worker[w].todo) \in Seq(Keys)
  BY <1>2, <1>3, HeadTailProperties
<1>5. /\ cache' \in [Keys -> [slot : Nat, bytes : Nat]]
      /\ \A j \in Keys :
           \/ cache'[j] = NoEntry
           \/ cache'[j] = cache[j]
           \/ /\ j = k /\ cache'[k] = [slot |-> cache[k].slot, bytes |-> Bytes[k]]
              /\ cache[k].slot = worker[w].slot /\ cache[k].bytes = 0
      /\ cache[k].slot = worker[w].slot /\ cache'[k] # NoEntry => cache'[k].bytes # 0
      /\ used' = Size(cache') /\ used' <= Budget
  BY <1>1, RegisterSizes
<1>6. Became(w, "lookup", Tail(worker[w].todo), 0)
  <2>1. worker' = [worker EXCEPT ![w].at = "lookup", ![w].todo = Tail(worker[w].todo), ![w].slot = 0]
    BY <1>1, <1>2 DEF NextKey, Shape
  <2> QED BY <1>2, <2>1, EntryAfter
<1>7. /\ worker'[w].at = "lookup" /\ worker'[w].todo = Tail(worker[w].todo)
      /\ \A v \in Workers : v # w => worker'[v] = worker[v]
  BY <1>6 DEF Became
<1> HIDE DEF k
<1>8. \A j \in Keys : \/ cache'[j] = NoEntry
                      \/ cache'[j].slot = cache[j].slot /\ cache'[j] = cache[j]
                      \/ cache'[j].slot = cache[j].slot /\ cache'[j].bytes = Bytes[j] /\ j = k
                           /\ cache[j].slot = worker[w].slot
  BY <1>5
<1>9. \A j \in Keys : cache'[j].slot # 0 => cache'[j].slot = cache[j].slot
  BY <1>8 DEF NoEntry
<1>10. CacheTypes'
  <2>1. \A v \in Workers : worker'[v].todo \in Seq(Keys)
    BY <1>4, <1>7 DEF CacheInv, CacheTypes
  <2> QED BY <1>1, <1>5, <2>1 DEF CacheInv, CacheTypes
<1>11. EntryInv'
  <2> SUFFICES ASSUME NEW j \in Keys
               PROVE  /\ cache'[j].slot \in 0..Len(slots) /\ cache'[j].bytes \in {0, Bytes[j]}
                      /\ cache'[j].bytes # 0 => cache'[j].slot # 0 /\ slots[cache'[j].slot] = "ready"
                      /\ cache'[j].slot # 0 => \A i \in Keys : cache'[i].slot = cache'[j].slot => i = j
    BY <1>1 DEF EntryInv
  <2>1. /\ cache[j].slot \in 0..Len(slots) /\ cache[j].bytes \in {0, Bytes[j]}
        /\ cache[j].bytes # 0 => cache[j].slot # 0 /\ slots[cache[j].slot] = "ready"
        /\ cache[j].slot # 0 => \A i \in Keys : cache[i].slot = cache[j].slot => i = j
    BY DEF CacheInv, EntryInv
  <2>2. cache'[j].slot # 0 => \A i \in Keys : cache'[i].slot = cache'[j].slot => i = j
    BY <1>9, <2>1
  <2>3. CASE cache'[j] = NoEntry
    BY <1>2, <2>2, <2>3 DEF NoEntry
  <2>4. CASE cache'[j] = cache[j]
    BY <2>1, <2>2, <2>4
  <2>5. CASE /\ cache'[j].slot = cache[j].slot /\ cache'[j].bytes = Bytes[j] /\ j = k
             /\ cache[j].slot = worker[w].slot
    BY <1>2, <1>3, <2>1, <2>2, <2>5
  <2> QED BY <1>8, <2>3, <2>4, <2>5
<1>12. AskInv'
  <2> SUFFICES ASSUME NEW v \in Workers, Asking(v)'
               PROVE  /\ worker'[v].todo # << >> /\ worker'[v].slot \in 1..Len(slots')
                      /\ \A j \in Keys : cache'[j].slot = worker'[v].slot => j = Head(worker'[v].todo)
                      /\ worker'[v].at = "register" => slots'[worker'[v].slot] = "ready"
                      /\ worker'[v].at = "compute" =>
                           /\ slots'[worker'[v].slot] = "busy"
                           /\ \A u \in Workers : worker'[u].at = "compute"
                                /\ worker'[u].slot = worker'[v].slot => u = v
    BY DEF AskInv
  <2>1. v # w /\ worker'[v] = worker[v] /\ Asking(v)
    BY <1>7 DEF Asking
  <2>2. /\ worker[v].todo # << >> /\ worker[v].slot \in 1..Len(slots)
        /\ \A j \in Keys : cache[j].slot = worker[v].slot => j = Head(worker[v].todo)
        /\ worker[v].at = "register" => slots[worker[v].slot] = "ready"
        /\ worker[v].at = "compute" =>
             /\ slots[worker[v].slot] = "busy"
             /\ \A u \in Workers : worker[u].at = "compute" /\ worker[u].slot = worker[v].slot => u = v
    BY <2>1 DEF CacheInv, AskInv
  <2>3. \A j \in Keys : cache'[j].slot = worker[v].slot => cache[j].slot = worker[v].slot
    BY <1>2, <1>9, <2>2
  <2>4. \A u \in Workers : worker'[u].at = "compute" => worker'[u] = worker[u]
    BY <1>7
  <2> QED BY <1>1, <2>1, <2>2, <2>3, <2>4
<1>13. SizeInv'
  BY <1>5 DEF SizeInv, Size
<1>14. CountedInv'
  <2> SUFFICES ASSUME main' # "exit", NEW j \in Keys,
                      cache'[j].slot # 0, cache'[j].bytes = 0, slots'[cache'[j].slot] = "ready"
               PROVE  \E v \in Workers : /\ worker'[v].slot = cache'[j].slot
                                         /\ worker'[v].at \in {"init", "register"}
    BY DEF CountedInv
  <2>1. Bytes[j] # 0
    BY CacheAssumption DEF CacheAssumption
  <2>2. cache'[j] = cache[j]
    BY <1>8, <2>1 DEF NoEntry
  <2>3. PICK v \in Workers : worker[v].slot = cache[j].slot /\ worker[v].at \in {"init", "register"}
    BY <1>1, <2>2 DEF CacheInv, CountedInv
  <2>4. v # w
    <3> SUFFICES ASSUME v = w PROVE FALSE
      OBVIOUS
    <3>1. cache[j].slot = worker[w].slot /\ j = k
      BY <1>3, <2>3
    <3>2. cache'[k] # NoEntry
      BY <2>2, <3>1 DEF NoEntry
    <3> QED BY <1>5, <3>1, <3>2
  <2> QED BY <1>7, <2>2, <2>3, <2>4
<1> QED BY <1>10, <1>11, <1>12, <1>13, <1>14 DEF CacheInv

(* Every step keeps the invariant of the cache.                            *)
LEMMA CacheInvStep ==
  ASSUME SweepInv, CacheInv, [SweepNext]_sweepVars
  PROVE  CacheInv'
<1>0. SweepTypes /\ Shape(worker) /\ \A v \in Workers : worker[v].todo \in Seq(Keys)
  BY DEF SweepInv, SweepTypes, Shape, CacheInv, CacheTypes
<1>1. ASSUME NEW w \in Workers, NEW at, NEW todo, NEW slot, Became(w, at, todo, slot), ~Asking(w),
             at \notin {"init", "compute", "register"}, todo \in Seq(Keys),
             UNCHANGED <<specs, indices, main, cache, age, used, slots>>
      PROVE  CacheInv'
  <2>1. \A v \in Workers : /\ worker'[v].todo \in Seq(Keys)
                           /\ v # w => worker'[v] = worker[v]
                           /\ v = w => ~Asking(v) /\ ~Asking(v)'
    BY <1>0, <1>1 DEF Became, Asking
  <2> QED BY <1>1, <2>1, CacheQuiet
<1>2. ASSUME NEW w \in Workers, Claim(w)
      PROVE  CacheInv'
  <2>1. worker[w].at = "claim" /\ UNCHANGED <<specs, indices, main, cache, age, used, slots>>
    BY <1>2 DEF Claim, WorkerStep, choiceVars, cacheVars
  <2>2. CASE cancelled \/ next > Len(indices)
    <3>1. worker' = [worker EXCEPT ![w].at = "gone"]
      BY <1>2, <2>2 DEF Claim, Go
    <3>2. Became(w, "gone", worker[w].todo, worker[w].slot)
      BY <1>0, <3>1, EntryAfter
    <3> QED BY <1>0, <1>1, <2>1, <3>2 DEF Asking
  <2>3. CASE ~(cancelled \/ next > Len(indices))
    <3> DEFINE todo == Uses[indices[next]]
    <3>1. worker' = [worker EXCEPT ![w] = [at |-> "lookup", job |-> next, todo |-> todo, slot |-> 0]]
      BY <1>2, <2>3 DEF Claim
    <3>2. Became(w, "lookup", todo, 0)
      BY <1>0, <3>1 DEF Became, Shape
    <3>3. next \in 1..Len(indices)
      BY <1>0, <2>3 DEF SweepTypes
    <3>4. specs \in Specs /\ indices[next] \in 0..(TotalCombinations(specs) - 1)
      BY <3>3 DEF CacheInv, CacheTypes
    <3>5. todo \in Seq(Keys)
      BY <3>4, CacheAssumption DEF CacheAssumption
    <3> QED BY <1>1, <2>1, <3>2, <3>5 DEF Asking
  <2> QED BY <2>2, <2>3
<1>3. ASSUME NEW w \in Workers, NEW outcome \in {"record", "fatal", "panic"}, Result(w, outcome)
      PROVE  CacheInv'
  <2> DEFINE at == IF outcome = "record" THEN "send" ELSE "cancel"
  <2>1. /\ worker[w].at = "lookup" /\ worker' = [worker EXCEPT ![w].at = at]
        /\ UNCHANGED <<specs, indices, main, cache, age, used, slots>>
    BY <1>3 DEF Result, Go, WorkerStep, choiceVars, cacheVars
  <2>2. Became(w, at, worker[w].todo, worker[w].slot)
    <3> HIDE DEF at
    <3> QED BY <1>0, <2>1, EntryAfter
  <2> QED BY <1>0, <1>1, <2>1, <2>2 DEF Asking
<1>4. ASSUME NEW w \in Workers, CancelQueue(w)
      PROVE  CacheInv'
  <2>1. /\ worker[w].at = "cancel" /\ worker' = [worker EXCEPT ![w].at = "gone"]
        /\ UNCHANGED <<specs, indices, main, cache, age, used, slots>>
    BY <1>4 DEF CancelQueue, Go, WorkerStep, choiceVars, cacheVars
  <2>2. Became(w, "gone", worker[w].todo, worker[w].slot)
    BY <1>0, <2>1, EntryAfter
  <2> QED BY <1>0, <1>1, <2>1, <2>2 DEF Asking
<1>5. ASSUME NEW w \in Workers, Send(w)
      PROVE  CacheInv'
  <2>1. /\ worker[w].at = "send" /\ worker' = [worker EXCEPT ![w].at = "claim"]
        /\ UNCHANGED <<specs, indices, main, cache, age, used, slots>>
    BY <1>5 DEF Send, Go, WorkerStep, choiceVars, cacheVars
  <2>2. Became(w, "claim", worker[w].todo, worker[w].slot)
    BY <1>0, <2>1, EntryAfter
  <2> QED BY <1>0, <1>1, <2>1, <2>2 DEF Asking
<1>6. ASSUME NEW w \in Workers, WorkerNext(w)
      PROVE  CacheInv'
  BY <1>0, <1>2, <1>3, <1>4, <1>5, <1>6, LookUpKeeps, GetOrInitKeeps, ComputeKeeps, RegisterSizeKeeps
     DEF WorkerNext
<1>7. ASSUME NEW at, worker' = [v \in Workers |-> [worker[v] EXCEPT !.at = at]], at \notin {"init", "compute", "register"},
             UNCHANGED <<specs, indices, cache, age, used, slots>>,
             main' = "exit" \/ (main = "register" /\ main' # "register")
      PROVE  CacheInv'
  <2>1. \A v \in Workers : worker'[v].at = at /\ worker'[v].todo = worker[v].todo
    BY <1>0, <1>7 DEF Shape
  <2>2. main' # "exit" => main # "exit" /\ \A v \in Workers : ~Asking(v)
    BY <1>7 DEF SweepInv, StartInv, Asking
  <2>3. \A v \in Workers : worker'[v].todo \in Seq(Keys) /\ ~Asking(v)'
    BY <1>0, <1>7, <2>1 DEF Asking
  <2> QED BY <1>7, <2>2, <2>3, CacheQuiet
<1>8. ASSUME UNCHANGED <<specs, indices, cache, age, used, slots, worker>>, main' # "exit" => main # "exit"
      PROVE  CacheInv'
  BY <1>0, <1>8, CacheQuiet
<1>9. ASSUME NEW script \in Answers, NEW answer \in Answers, RegisterScriptAndBatch(script, answer)
      PROVE  CacheInv'
  <2>1. main = "register" /\ UNCHANGED <<specs, indices, cache, age, used, slots>>
    BY <1>9 DEF RegisterScriptAndBatch, choiceVars, cacheVars
  <2>2. CASE script = "ok" /\ answer = "ok"
    <3>1. PICK at \in {"gone", "claim"} : worker' = [v \in Workers |-> [worker[v] EXCEPT !.at = at]]
      BY <1>9, <2>2 DEF RegisterScriptAndBatch
    <3>2. main' \in {"run", "drain"}
      BY <1>9, <2>2 DEF RegisterScriptAndBatch
    <3> QED BY <1>7, <2>1, <3>1, <3>2
  <2>3. CASE ~(script = "ok" /\ answer = "ok")
    BY <1>8, <1>9, <2>1, <2>3 DEF RegisterScriptAndBatch
  <2> QED BY <2>2, <2>3
<1>10. CASE MainNext
  <2>1. ASSUME NEW answer \in Answers,
               \/ ReceiveRecord(answer) \/ SaveOne(answer) \/ CompleteBatch(answer)
               \/ FailBatchAndExit(answer) \/ PrintResult(answer)
        PROVE  /\ UNCHANGED <<specs, indices, cache, age, used, slots, worker>>
               /\ main' # "exit" => main # "exit"
    BY <2>1 DEF ReceiveRecord, SaveOne, CompleteBatch, FailBatchAndExit, PrintResult, choiceVars, cacheVars
  <2>2. ASSUME \/ DrainEnds \/ Join
               \/ \E outcome \in {"ok", "script_error", "fatal", "panic"} : RunOne(outcome)
        PROVE  /\ UNCHANGED <<specs, indices, cache, age, used, slots, worker>>
               /\ main' # "exit" => main # "exit"
    BY <2>2 DEF DrainEnds, Join, RunOne, choiceVars, cacheVars
  <2> QED BY <1>8, <1>9, <1>10, <2>1, <2>2 DEF MainNext
<1>11. CASE Die
  <2>1. /\ worker' = [v \in Workers |-> [worker[v] EXCEPT !.at = "gone"]] /\ main' = "exit"
        /\ UNCHANGED <<specs, indices, cache, age, used, slots>>
    BY <1>11 DEF Die, choiceVars, cacheVars
  <2> QED BY <1>7, <2>1
<1>12. CASE UNCHANGED sweepVars
  BY <1>8, <1>12 DEF sweepVars, choiceVars, cacheVars
<1> QED BY <1>6, <1>10, <1>11, <1>12 DEF SweepNext

(* The counter of the indicator cache is the sum of the sizes of its       *)
(* entries and within the budget, and a computed series that is not counted*)
(* has a worker on its way to count it: get_or_compute, with any number of *)
(* threads, keys and sizes, whatever is computed twice, evicted before it  *)
(* is registered, larger than the budget, or given up in a panic.          *)
THEOREM CacheCorrect == SweepSpec => []CacheAccounted
<1>1. CacheInv => CacheAccounted
  <2> SUFFICES ASSUME CacheInv PROVE CacheAccounted
    OBVIOUS
  <2>1. used = MapThenSumSet(LAMBDA k : cache[k].bytes, Keys)
    <3>1. BytesOf(cache, Keys) = Size(cache)
      BY BytesPart DEF Size
    <3>2. used = BytesOf(cache, Keys)
      BY <3>1 DEF CacheInv, SizeInv
    <3> QED BY <3>2 DEF BytesOf
  <2>2. used <= Budget
    BY DEF CacheInv, SizeInv
  <2>3. ASSUME main # "exit", NEW k \in Keys,
               cache[k] # NoEntry, cache[k].bytes = 0, slots[cache[k].slot] = "ready"
        PROVE  \E w \in Workers : worker[w].slot = cache[k].slot /\ worker[w].at \in {"init", "register"}
    <3>1. cache[k] = [slot |-> cache[k].slot, bytes |-> cache[k].bytes]
      BY DEF CacheInv, CacheTypes
    <3>2. cache[k].slot # 0
      BY <2>3, <3>1 DEF NoEntry
    <3> QED BY <2>3, <3>2 DEF CacheInv, CountedInv
  <2> QED BY <2>1, <2>2, <2>3 DEF CacheAccounted
<1>2. SweepInv /\ CacheInv /\ [SweepNext]_sweepVars => CacheInv'
  BY CacheInvStep
<1> QED BY <1>1, <1>2, SweepInvInit, SweepInvStep, CacheInvInit, PTL DEF SweepSpec

-----------------------------------------------------------------------------
(* The trades of a run (SimEngine).                                        *)

Directions == {-1, 1}
MarketBars ==
  {b \in [time : Int, open : Int, high : Int, low : Int, close : Int] :
     {b.open, b.close} \subseteq b.low .. b.high}
ClosedBooks ==
  [direction : Directions, entryIdx : Nat, exitIdx : Nat, entry : Int, exit : Int, pnl : Int,
   reason : {"signal", "stop", "end"}]
Books == [trades : Seq(ClosedBooks), position : {-1, 0, 1}, entryPrice : Int, entryIdx : Nat]

Reaches(direction, entry, bar) ==
  IF direction = 1 THEN bar.low <= entry - StopOffset ELSE Ask(bar.high) >= entry + StopOffset

(* First bar after those at which a trade holds its position.              *)
EndOf(trade) == trade.exitIdx + (IF trade.reason = "end" THEN 1 ELSE 0)

(* A closed trade was filled within its bar and left no stop unheeded.     *)
FairTrade(e, trade) ==
  /\ trade.exit \in ClosingPrice(trade.direction, e[trade.exitIdx].low)
                    .. ClosingPrice(trade.direction, e[trade.exitIdx].high)
  /\ \A t \in trade.entryIdx .. trade.exitIdx - 1 : ~Reaches(trade.direction, trade.entry, e[t])
  /\ trade.reason = "stop" =>
       Reaches(trade.direction, trade.entry, e[trade.exitIdx]) /\ trade.pnl <= -StopOffset
  /\ trade.reason = "end" => ~Reaches(trade.direction, trade.entry, e[trade.exitIdx])

(* The trades of book b and its open position, after the bars of pos.      *)
ClosedOk(b, pos, e) ==
  /\ \A i \in DOMAIN b.trades :
       /\ FairTrade(e, b.trades[i]) /\ EndOf(b.trades[i]) <= Len(pos) + 1
       /\ \A t \in DOMAIN pos :
            b.trades[i].entryIdx <= t /\ t < EndOf(b.trades[i]) => pos[t] = b.trades[i].direction
  /\ \A i \in DOMAIN b.trades \ {1} : b.trades[i - 1].exitIdx <= b.trades[i].entryIdx
OpenOk(b, pos, e) ==
  b.position # 0 =>
    /\ b.entryIdx \in 1 .. Len(pos) + 1
    /\ b.trades # <<>> => b.trades[Len(b.trades)].exitIdx <= b.entryIdx
    /\ \A t \in DOMAIN pos :
         b.entryIdx <= t => pos[t] = b.position /\ ~Reaches(b.position, b.entryPrice, e[t])
AllCovered(b, pos) ==
  \A t \in DOMAIN pos : pos[t] # 0 =>
    \/ b.position # 0 /\ b.entryIdx <= t
    \/ \E i \in DOMAIN b.trades : b.trades[i].entryIdx <= t /\ t < EndOf(b.trades[i])
BookOk(b, pos, e) ==
  b \in Books /\ pos \in Seq({-1, 0, 1}) /\ ClosedOk(b, pos, e) /\ OpenOk(b, pos, e)
              /\ AllCovered(b, pos)

(* A position is closed at the end of what it covers.                      *)
LEMMA CloseKeeps ==
  ASSUME NEW b, NEW pos, NEW e, BookOk(b, pos, e), b.position # 0,
         NEW t \in Nat, NEW fill \in Int, NEW reason \in {"signal", "stop", "end"},
         EndOf(ClosedTrade(b, t, fill, reason)) = Len(pos) + 1,
         FairTrade(e, ClosedTrade(b, t, fill, reason))
  PROVE  BookOk([b EXCEPT !.trades = Append(@, ClosedTrade(b, t, fill, reason)), !.position = 0], pos, e)
<1> DEFINE tr == ClosedTrade(b, t, fill, reason)
           c == [b EXCEPT !.trades = Append(@, tr), !.position = 0]
           n == Len(b.trades)
<1>1. b \in Books /\ pos \in Seq({-1, 0, 1}) /\ ClosedOk(b, pos, e) /\ OpenOk(b, pos, e)
      /\ AllCovered(b, pos)
  BY DEF BookOk
<1>2. b.position \in Directions /\ b.entryIdx \in Nat /\ b.entryPrice \in Int /\ b.trades \in Seq(ClosedBooks)
  BY <1>1 DEF Books, Directions
<1>3. tr \in ClosedBooks /\ tr.direction = b.position /\ tr.entryIdx = b.entryIdx /\ tr.exitIdx = t
  BY <1>2 DEF ClosedTrade, PnlMilli, ClosedBooks
<1>4. EndOf(tr) = Len(pos) + 1 /\ FairTrade(e, tr)
  OBVIOUS
<1> HIDE DEF tr
<1>5. c \in Books /\ c.trades = Append(b.trades, tr) /\ c.position = 0
  <2>1. Append(b.trades, tr) \in Seq(ClosedBooks)
    BY <1>2, <1>3
  <2> QED BY <1>1, <1>2, <2>1 DEF Books
<1>6. /\ n \in Nat /\ DOMAIN b.trades = 1..n /\ DOMAIN c.trades = 1..(n + 1)
      /\ \A i \in 1..n : c.trades[i] = b.trades[i]
      /\ c.trades[n + 1] = tr
  BY <1>2, <1>3, <1>5
<1> HIDE DEF c
<1>7. Len(pos) \in Nat /\ DOMAIN pos = 1..Len(pos)
  BY <1>1
<1>8. ClosedOk(c, pos, e)
  <2>1. \A i \in 1..n : /\ FairTrade(e, b.trades[i]) /\ EndOf(b.trades[i]) <= Len(pos) + 1
                        /\ \A u \in DOMAIN pos :
                             b.trades[i].entryIdx <= u /\ u < EndOf(b.trades[i])
                               => pos[u] = b.trades[i].direction
    BY <1>1, <1>6 DEF ClosedOk
  <2>2. /\ FairTrade(e, tr) /\ EndOf(tr) <= Len(pos) + 1
        /\ \A u \in DOMAIN pos : tr.entryIdx <= u /\ u < EndOf(tr) => pos[u] = tr.direction
    BY <1>1, <1>3, <1>4, <1>7 DEF OpenOk
  <2>3. \A i \in DOMAIN c.trades \ {1} : c.trades[i - 1].exitIdx <= c.trades[i].entryIdx
    <3> SUFFICES ASSUME NEW i \in DOMAIN c.trades \ {1}
                 PROVE  c.trades[i - 1].exitIdx <= c.trades[i].entryIdx
      OBVIOUS
    <3>1. i - 1 \in 1..n
      BY <1>6
    <3>2. CASE i = n + 1
      <4>1. b.trades # <<>> /\ i - 1 = n
        BY <1>2, <1>6, <3>1, <3>2
      <4> QED BY <1>1, <1>3, <1>6, <3>1, <3>2, <4>1 DEF OpenOk
    <3>3. CASE i # n + 1
      <4>1. i \in DOMAIN b.trades \ {1}
        BY <1>6, <3>3
      <4> QED BY <1>1, <1>6, <3>1, <4>1 DEF ClosedOk
    <3> QED BY <3>2, <3>3
  <2>4. \A i \in DOMAIN c.trades : i \in 1..n \/ i = n + 1
    BY <1>6
  <2>5. \A i \in DOMAIN c.trades : /\ FairTrade(e, c.trades[i]) /\ EndOf(c.trades[i]) <= Len(pos) + 1
                        /\ \A u \in DOMAIN pos :
                             c.trades[i].entryIdx <= u /\ u < EndOf(c.trades[i])
                               => pos[u] = c.trades[i].direction
    BY <1>6, <2>1, <2>2, <2>4
  <2> QED BY <2>3, <2>5 DEF ClosedOk
<1>9. OpenOk(c, pos, e)
  BY <1>5 DEF OpenOk
<1>10. AllCovered(c, pos)
  <2> SUFFICES ASSUME NEW u \in DOMAIN pos, pos[u] # 0
               PROVE  \E i \in DOMAIN c.trades : c.trades[i].entryIdx <= u /\ u < EndOf(c.trades[i])
    BY DEF AllCovered
  <2>1. CASE b.entryIdx <= u
    <3>1. n + 1 \in DOMAIN c.trades
      BY <1>6
    <3>2. tr.entryIdx <= u /\ u < EndOf(tr)
      BY <1>3, <1>4, <1>7, <2>1
    <3> QED BY <1>6, <3>1, <3>2
  <2>2. CASE ~(b.entryIdx <= u)
    <3>1. PICK i \in 1..n : b.trades[i].entryIdx <= u /\ u < EndOf(b.trades[i])
      BY <1>1, <1>6, <2>2 DEF AllCovered
    <3>2. i \in DOMAIN c.trades
      BY <1>6
    <3> QED BY <1>6, <3>1, <3>2
  <2> QED BY <2>1, <2>2
<1>11. BookOk(c, pos, e)
  BY <1>1, <1>5, <1>8, <1>9, <1>10 DEF BookOk
<1> QED BY <1>11 DEF c, tr

(* A position is opened at the next bar.                                   *)
LEMMA OpenKeeps ==
  ASSUME NEW b, NEW pos, NEW e, BookOk(b, pos, e), b.position = 0,
         NEW signal \in Directions, NEW price \in Int
  PROVE  BookOk([trades |-> b.trades, position |-> signal, entryIdx |-> Len(pos) + 1,
                 entryPrice |-> price], pos, e)
<1> DEFINE c == [trades |-> b.trades, position |-> signal, entryIdx |-> Len(pos) + 1,
                 entryPrice |-> price]
<1>1. b \in Books /\ pos \in Seq({-1, 0, 1}) /\ ClosedOk(b, pos, e) /\ AllCovered(b, pos)
  BY DEF BookOk
<1>2. Len(pos) \in Nat /\ DOMAIN pos = 1..Len(pos) /\ b.trades \in Seq(ClosedBooks)
  BY <1>1 DEF Books
<1>3. c \in Books /\ c.trades = b.trades /\ c.entryIdx = Len(pos) + 1
  BY <1>2 DEF Books, Directions
<1> HIDE DEF c
<1>4. ClosedOk(c, pos, e)
  BY <1>1, <1>3 DEF ClosedOk
<1>5. AllCovered(c, pos)
  BY <1>1, <1>3 DEF AllCovered
<1>6. OpenOk(c, pos, e)
  <2>1. b.trades # <<>> => b.trades[Len(b.trades)].exitIdx <= Len(pos) + 1
    <3> SUFFICES ASSUME b.trades # <<>> PROVE b.trades[Len(b.trades)].exitIdx <= Len(pos) + 1
      OBVIOUS
    <3>1. Len(b.trades) \in DOMAIN b.trades
      BY <1>2
    <3>2. b.trades[Len(b.trades)] \in ClosedBooks
      BY <1>2, <3>1
    <3>3. EndOf(b.trades[Len(b.trades)]) <= Len(pos) + 1
      BY <1>1, <3>1 DEF ClosedOk
    <3> DEFINE last == b.trades[Len(b.trades)]
    <3>4. last.exitIdx \in Nat /\ EndOf(last) \in {last.exitIdx, last.exitIdx + 1}
      BY <3>2 DEF EndOf, ClosedBooks
    <3> QED BY <1>2, <3>3, <3>4
  <2> QED BY <1>2, <1>3, <2>1 DEF OpenOk
<1>7. BookOk(c, pos, e)
  BY <1>1, <1>3, <1>4, <1>5, <1>6 DEF BookOk
<1> QED BY <1>7 DEF c

(* A bar passes that does not reach the stop.                              *)
LEMMA BarKeeps ==
  ASSUME NEW b, NEW pos, NEW e, BookOk(b, pos, e),
         b.position # 0 => ~Reaches(b.position, b.entryPrice, e[Len(pos) + 1])
  PROVE  BookOk(b, Append(pos, b.position), e)
<1> DEFINE p == Append(pos, b.position)
           n == Len(pos)
<1>1. b \in Books /\ pos \in Seq({-1, 0, 1}) /\ ClosedOk(b, pos, e) /\ OpenOk(b, pos, e)
      /\ AllCovered(b, pos)
  BY DEF BookOk
<1>2. b.position \in {-1, 0, 1} /\ b.trades \in Seq(ClosedBooks) /\ b.entryIdx \in Nat
  BY <1>1 DEF Books
<1>3. /\ p \in Seq({-1, 0, 1}) /\ n \in Nat /\ Len(p) = n + 1 /\ DOMAIN pos = 1..n
      /\ DOMAIN p = 1..(n + 1) /\ p[n + 1] = b.position /\ \A t \in 1..n : p[t] = pos[t]
  BY <1>1, <1>2
<1> HIDE DEF p
<1>4. \A t \in DOMAIN p : t \in DOMAIN pos \/ t = n + 1
  BY <1>3
<1>5. \A i \in DOMAIN b.trades : EndOf(b.trades[i]) \in Nat /\ EndOf(b.trades[i]) <= n + 1
  <2> SUFFICES ASSUME NEW i \in DOMAIN b.trades
               PROVE  EndOf(b.trades[i]) \in Nat /\ EndOf(b.trades[i]) <= n + 1
    OBVIOUS
  <2>1. b.trades[i] \in ClosedBooks
    BY <1>2
  <2>2. EndOf(b.trades[i]) \in Nat
    BY <2>1 DEF EndOf, ClosedBooks
  <2> QED BY <1>1, <2>2 DEF ClosedOk
<1>6. ClosedOk(b, p, e)
  <2>1. \A i \in DOMAIN b.trades :
          /\ FairTrade(e, b.trades[i]) /\ EndOf(b.trades[i]) <= Len(p) + 1
          /\ \A t \in DOMAIN p :
               b.trades[i].entryIdx <= t /\ t < EndOf(b.trades[i]) => p[t] = b.trades[i].direction
    <3> SUFFICES ASSUME NEW i \in DOMAIN b.trades
                 PROVE  /\ FairTrade(e, b.trades[i]) /\ EndOf(b.trades[i]) <= Len(p) + 1
                        /\ \A t \in DOMAIN p : b.trades[i].entryIdx <= t /\ t < EndOf(b.trades[i])
                                                 => p[t] = b.trades[i].direction
      OBVIOUS
    <3>1. FairTrade(e, b.trades[i]) /\ EndOf(b.trades[i]) <= Len(p) + 1
      BY <1>1, <1>3, <1>5 DEF ClosedOk
    <3>2. \A t \in DOMAIN pos : b.trades[i].entryIdx <= t /\ t < EndOf(b.trades[i])
                                  => pos[t] = b.trades[i].direction
      BY <1>1 DEF ClosedOk
    <3>3. ~(n + 1 < EndOf(b.trades[i]))
      BY <1>3, <1>5
    <3> QED BY <1>3, <1>4, <3>1, <3>2, <3>3
  <2> QED BY <1>1, <2>1 DEF ClosedOk
<1>7. OpenOk(b, p, e)
  <2> SUFFICES ASSUME b.position # 0
               PROVE  /\ b.entryIdx \in 1 .. Len(p) + 1
                      /\ b.trades # <<>> => b.trades[Len(b.trades)].exitIdx <= b.entryIdx
                      /\ \A t \in DOMAIN p :
                           b.entryIdx <= t => p[t] = b.position /\ ~Reaches(b.position, b.entryPrice, e[t])
    BY DEF OpenOk
  <2>1. /\ b.entryIdx \in 1 .. n + 1
        /\ b.trades # <<>> => b.trades[Len(b.trades)].exitIdx <= b.entryIdx
        /\ \A t \in DOMAIN pos :
             b.entryIdx <= t => pos[t] = b.position /\ ~Reaches(b.position, b.entryPrice, e[t])
    BY <1>1 DEF OpenOk
  <2>2. ~Reaches(b.position, b.entryPrice, e[n + 1])
    OBVIOUS
  <2>3. b.entryIdx \in 1 .. Len(p) + 1
    BY <1>3, <2>1
  <2> QED BY <1>3, <1>4, <2>1, <2>2, <2>3
<1>8. AllCovered(b, p)
  <2> SUFFICES ASSUME NEW t \in DOMAIN p, p[t] # 0
               PROVE  \/ b.position # 0 /\ b.entryIdx <= t
                      \/ \E i \in DOMAIN b.trades : b.trades[i].entryIdx <= t /\ t < EndOf(b.trades[i])
    BY DEF AllCovered
  <2>1. CASE t = n + 1
    BY <1>1, <1>2, <1>3, <2>1 DEF OpenOk
  <2>2. CASE t \in DOMAIN pos
    BY <1>1, <1>3, <2>2 DEF AllCovered
  <2> QED BY <1>4, <2>1, <2>2
<1>9. BookOk(b, p, e)
  BY <1>1, <1>3, <1>6, <1>7, <1>8 DEF BookOk
<1> QED BY <1>9 DEF p

(* The order of prices within a bar.                                       *)
LEMMA PricesOf ==
  ASSUME NEW bar \in MarketBars
  PROVE  /\ bar.open \in Int /\ bar.high \in Int /\ bar.low \in Int /\ bar.close \in Int
         /\ bar.low <= bar.open /\ bar.open <= bar.high /\ bar.low <= bar.close /\ bar.close <= bar.high
         /\ Ask(bar.open) \in Int /\ Ask(bar.high) \in Int /\ Ask(bar.low) \in Int
         /\ Ask(bar.close) \in Int
         /\ Ask(bar.low) <= Ask(bar.open) /\ Ask(bar.open) <= Ask(bar.high)
         /\ Ask(bar.low) <= Ask(bar.close) /\ Ask(bar.close) <= Ask(bar.high)
<1>1. /\ bar.open \in Int /\ bar.high \in Int /\ bar.low \in Int /\ bar.close \in Int
      /\ bar.open \in bar.low .. bar.high /\ bar.close \in bar.low .. bar.high
  BY DEF MarketBars
<1>2. Spread \in Int
  BY SeriesAssumption
<1> QED BY <1>1, <1>2 DEF Ask

(* An open position has kept clear of its stop so far.                     *)
LEMMA KeptClear ==
  ASSUME NEW b, NEW pos, NEW e, BookOk(b, pos, e), b.position # 0
  PROVE  \A t \in b.entryIdx .. Len(pos) : ~Reaches(b.position, b.entryPrice, e[t])
<1>1. b.entryIdx \in 1 .. Len(pos) + 1 /\ DOMAIN pos = 1..Len(pos) /\ Len(pos) \in Nat
  BY DEF BookOk, OpenOk
<1>2. \A t \in b.entryIdx .. Len(pos) : t \in DOMAIN pos /\ b.entryIdx <= t
  BY <1>1
<1> QED BY <1>2 DEF BookOk, OpenOk

(* The signal of the bar before is executed at the open.                   *)
LEMMA SignalKeeps ==
  ASSUME NEW b, NEW pos, NEW e \in Seq(MarketBars), BookOk(b, pos, e), Len(pos) < Len(e),
         NEW signal \in -1..2
  PROVE  BookOk(ApplySignal(b, signal, Len(pos) + 1, e[Len(pos) + 1]), pos, e)
<1> DEFINE t == Len(pos) + 1
           bar == e[t]
           fill == ClosingPrice(b.position, bar.open)
           c == [b EXCEPT !.trades = Append(@, ClosedTrade(b, t, fill, "signal")), !.position = 0]
           price == OpeningPrice(signal, bar.open)
<1>1. Len(pos) \in Nat /\ t \in Nat /\ bar \in MarketBars
  BY DEF BookOk
<1>2. b.position \in {-1, 0, 1} /\ b \in Books
  BY DEF BookOk, Books
<1>3. fill \in Int /\ price \in Int
  BY <1>1, PricesOf DEF ClosingPrice, OpeningPrice
<1>4. ASSUME b.position # 0 PROVE BookOk(c, pos, e)
  <2> DEFINE tr == ClosedTrade(b, t, fill, "signal")
  <2>1. /\ tr.direction = b.position /\ tr.entry = b.entryPrice /\ tr.entryIdx = b.entryIdx
        /\ tr.exitIdx = t /\ tr.exit = fill /\ tr.reason = "signal"
    BY DEF ClosedTrade
  <2> HIDE DEF tr
  <2>2. EndOf(tr) = t
    BY <1>1, <2>1 DEF EndOf
  <2>3. fill \in ClosingPrice(b.position, bar.low) .. ClosingPrice(b.position, bar.high)
    <3> HIDE DEF bar
    <3>1. /\ bar.low \in Int /\ bar.high \in Int /\ Ask(bar.low) \in Int /\ Ask(bar.high) \in Int
          /\ bar.open \in Int /\ Ask(bar.open) \in Int
          /\ bar.low <= bar.open /\ bar.open <= bar.high
          /\ Ask(bar.low) <= Ask(bar.open) /\ Ask(bar.open) <= Ask(bar.high)
      BY <1>1, PricesOf
    <3> QED BY <3>1 DEF ClosingPrice
  <2>4. \A u \in b.entryIdx .. t - 1 : ~Reaches(b.position, b.entryPrice, e[u])
    <3>1. t - 1 = Len(pos)
      BY <1>1
    <3> QED BY <1>4, <3>1, KeptClear
  <2>5. FairTrade(e, tr)
    BY <2>1, <2>3, <2>4 DEF FairTrade
  <2> HIDE DEF fill
  <2> QED BY <1>1, <1>3, <1>4, <2>2, <2>5, CloseKeeps DEF tr
<1>5. CASE signal \in {NoSignal, b.position}
  BY <1>5 DEF ApplySignal
<1>6. CASE signal \notin {NoSignal, b.position} /\ b.position = 0
  <2>1. signal \in Directions
    BY <1>6 DEF NoSignal, Directions
  <2>2. ApplySignal(b, signal, t, bar) = [trades |-> b.trades, position |-> signal, entryIdx |-> t,
                                          entryPrice |-> price]
    BY <1>6 DEF ApplySignal
  <2> HIDE DEF price
  <2> QED BY <1>3, <1>6, <2>1, <2>2, OpenKeeps
<1>7. CASE signal \notin {NoSignal, b.position} /\ b.position # 0
  <2>1. BookOk(c, pos, e)
    BY <1>4, <1>7
  <2>2. c.trades = Append(b.trades, ClosedTrade(b, t, fill, "signal")) /\ c.position = 0
    BY <1>2 DEF Books
  <2>3. CASE signal = 0
    <3>1. ApplySignal(b, signal, t, bar) = c
      BY <1>2, <1>7, <2>2, <2>3 DEF ApplySignal, Books
    <3> QED BY <2>1, <3>1
  <2>4. CASE signal # 0
    <3>1. signal \in Directions
      BY <1>7, <2>4 DEF NoSignal, Directions
    <3>2. ApplySignal(b, signal, t, bar) = [trades |-> c.trades, position |-> signal, entryIdx |-> t,
                                            entryPrice |-> price]
      BY <1>7, <2>2, <2>4 DEF ApplySignal
    <3> HIDE DEF price, c
    <3> QED BY <1>3, <2>1, <2>2, <3>1, <3>2, OpenKeeps
  <2> QED BY <2>3, <2>4
<1> QED BY <1>5, <1>6, <1>7

(* The stop is filled in the first bar that reaches it.                    *)
LEMMA StopKeeps ==
  ASSUME NEW b, NEW pos, NEW e \in Seq(MarketBars), BookOk(b, pos, e), Len(pos) < Len(e)
  PROVE  LET c == ApplyStop(b, Len(pos) + 1, e[Len(pos) + 1])
         IN  /\ BookOk(c, Append(pos, c.position), e)
             /\ c.position # 0 => c.entryIdx <= Len(pos) + 1
<1> DEFINE t == Len(pos) + 1
           bar == e[t]
           stop == b.entryPrice - b.position * StopOffset
           fill == StopFill(b.position, stop, bar)
           c == [b EXCEPT !.position = 0, !.trades = Append(@, ClosedTrade(b, t, fill, "stop"))]
           hit == b.position # 0 /\ Reaches(b.position, b.entryPrice, bar)
<1>1. Len(pos) \in Nat /\ t \in Nat /\ bar \in MarketBars
  BY DEF BookOk
<1>2. b.position \in {-1, 0, 1} /\ b \in Books /\ b.entryPrice \in Int
  BY DEF BookOk, Books
<1>3. StopOffset \in Nat
  BY EngineAssumption
<1>4. /\ b.position = 1 => stop = b.entryPrice - StopOffset
      /\ b.position = -1 => stop = b.entryPrice + StopOffset
  BY <1>2, <1>3
<1>5. hit <=> \/ b.position = 1 /\ bar.low <= stop
              \/ b.position = -1 /\ Ask(bar.high) >= stop
  BY <1>2, <1>4 DEF Reaches
<1>6. ApplyStop(b, t, bar) = IF hit THEN c ELSE b
  BY <1>5 DEF ApplyStop
<1>7. CASE ~hit
  <2>1. b.position # 0 => ~Reaches(b.position, b.entryPrice, e[Len(pos) + 1])
    BY <1>7
  <2>2. BookOk(b, Append(pos, b.position), e)
    BY <2>1, BarKeeps
  <2>3. b.position # 0 => b.entryIdx <= Len(pos) + 1
    BY <1>1 DEF BookOk, OpenOk
  <2> HIDE DEF hit
  <2> QED BY <1>6, <1>7, <2>2, <2>3
<1>8. CASE hit
  <2> DEFINE tr == ClosedTrade(b, t, fill, "stop")
  <2>1. /\ tr.direction = b.position /\ tr.entry = b.entryPrice /\ tr.entryIdx = b.entryIdx
        /\ tr.exitIdx = t /\ tr.exit = fill /\ tr.reason = "stop"
        /\ tr.pnl = PnlMilli(b.position, b.entryPrice, fill)
    BY DEF ClosedTrade
  <2> HIDE DEF tr
  <2>2. EndOf(tr) = t
    BY <1>1, <2>1 DEF EndOf
  <2>3. /\ fill \in Int
        /\ fill \in ClosingPrice(b.position, bar.low) .. ClosingPrice(b.position, bar.high)
        /\ tr.pnl <= -StopOffset
    <3>1. CASE b.position = 1
      <4>1. stop = b.entryPrice - StopOffset /\ bar.low <= stop
        BY <1>4, <1>5, <1>8, <3>1
      <4>2. fill = SmallerOf(stop, bar.open) /\ tr.pnl = fill - b.entryPrice
        BY <2>1, <3>1 DEF StopFill, PnlMilli
      <4> HIDE DEF stop, fill, bar, hit
      <4>3. stop \in Int /\ bar.open \in Int /\ bar.low \in Int /\ bar.high \in Int
            /\ bar.low <= bar.open /\ bar.open <= bar.high
        <5>1. stop \in Int
          BY <1>2, <1>3, <4>1
        <5> QED BY <1>1, <5>1, PricesOf
      <4>4. fill \in Int /\ bar.low <= fill /\ fill <= bar.high /\ fill <= stop
        BY <4>1, <4>2, <4>3 DEF SmallerOf
      <4>5. tr.pnl <= -StopOffset
        BY <1>2, <1>3, <4>1, <4>2, <4>3, <4>4
      <4> QED BY <3>1, <4>3, <4>4, <4>5 DEF ClosingPrice
    <3>2. CASE b.position = -1
      <4>1. stop = b.entryPrice + StopOffset /\ Ask(bar.high) >= stop
        BY <1>4, <1>5, <1>8, <3>2
      <4>2. fill = LargerOf(stop, Ask(bar.open)) /\ tr.pnl = b.entryPrice - fill
        BY <2>1, <3>2 DEF StopFill, PnlMilli
      <4> HIDE DEF stop, fill, bar, hit
      <4>3. stop \in Int /\ Ask(bar.open) \in Int /\ Ask(bar.low) \in Int /\ Ask(bar.high) \in Int
            /\ Ask(bar.low) <= Ask(bar.open) /\ Ask(bar.open) <= Ask(bar.high)
        <5>1. stop \in Int
          BY <1>2, <1>3, <4>1
        <5> QED BY <1>1, <5>1, PricesOf
      <4>4. fill \in Int /\ Ask(bar.low) <= fill /\ fill <= Ask(bar.high) /\ stop <= fill
        BY <4>1, <4>2, <4>3 DEF LargerOf
      <4>5. tr.pnl <= -StopOffset
        BY <1>2, <1>3, <4>1, <4>2, <4>3, <4>4
      <4> QED BY <3>2, <4>3, <4>4, <4>5 DEF ClosingPrice
    <3> QED BY <1>2, <1>8, <3>1, <3>2
  <2>4. \A u \in b.entryIdx .. t - 1 : ~Reaches(b.position, b.entryPrice, e[u])
    <3>1. t - 1 = Len(pos)
      BY <1>1
    <3> QED BY <1>8, <3>1, KeptClear
  <2>5. FairTrade(e, tr)
    BY <1>8, <2>1, <2>3, <2>4 DEF FairTrade
  <2> DEFINE d == [b EXCEPT !.trades = Append(@, ClosedTrade(b, t, fill, "stop")), !.position = 0]
  <2>6. BookOk(d, pos, e)
    <3>1. b.position # 0
      BY <1>8
    <3> HIDE DEF fill, hit
    <3> QED BY <1>1, <2>2, <2>3, <2>5, <3>1, CloseKeeps DEF tr
  <2>7. c = d /\ c.position = 0
    BY <1>2 DEF Books
  <2> HIDE DEF c, d, hit
  <2>8. BookOk(c, Append(pos, c.position), e)
    BY <2>6, <2>7, BarKeeps
  <2> QED BY <1>6, <1>8, <2>7, <2>8
<1> QED BY <1>7, <1>8

(* At the end of the period the position is closed at the last bar.        *)
LEMMA EndKeeps ==
  ASSUME NEW b, NEW pos, NEW e \in Seq(MarketBars), BookOk(b, pos, e), Len(pos) = Len(e),
         b.position # 0 => b.entryIdx <= Len(pos)
  PROVE  LET c == CloseAtPeriodEnd(b, Len(pos), e[Len(pos)])
         IN  BookOk(c, pos, e) /\ c.position = 0
<1> DEFINE t == Len(pos)
           bar == e[t]
           fill == ClosingPrice(b.position, bar.close)
           c == [b EXCEPT !.position = 0, !.trades = Append(@, ClosedTrade(b, t, fill, "end"))]
<1>1. CASE b.position = 0
  BY <1>1 DEF CloseAtPeriodEnd
<1>2. CASE b.position # 0
  <2>1. t \in Nat /\ b \in Books /\ b.position \in {-1, 0, 1} /\ b.entryIdx \in 1..t
    BY <1>2 DEF BookOk, OpenOk, Books
  <2>2. bar \in MarketBars
    BY <2>1
  <2>3. fill \in Int /\ fill \in ClosingPrice(b.position, bar.low) .. ClosingPrice(b.position, bar.high)
    BY <2>2, PricesOf DEF ClosingPrice
  <2> DEFINE tr == ClosedTrade(b, t, fill, "end")
  <2>4. /\ tr.direction = b.position /\ tr.entry = b.entryPrice /\ tr.entryIdx = b.entryIdx
        /\ tr.exitIdx = t /\ tr.exit = fill /\ tr.reason = "end"
    BY DEF ClosedTrade
  <2> HIDE DEF tr
  <2>5. EndOf(tr) = t + 1
    BY <2>1, <2>4 DEF EndOf
  <2>6. \A u \in b.entryIdx .. t : ~Reaches(b.position, b.entryPrice, e[u])
    BY <1>2, KeptClear
  <2>7. /\ \A u \in b.entryIdx .. t - 1 : ~Reaches(b.position, b.entryPrice, e[u])
        /\ ~Reaches(b.position, b.entryPrice, bar)
    BY <2>1, <2>6
  <2>8. FairTrade(e, tr)
    BY <2>3, <2>4, <2>7 DEF FairTrade
  <2> DEFINE d == [b EXCEPT !.trades = Append(@, ClosedTrade(b, t, fill, "end")), !.position = 0]
  <2>9. BookOk(d, pos, e)
    <3> HIDE DEF fill
    <3> QED BY <1>2, <2>1, <2>3, <2>5, <2>8, CloseKeeps DEF tr
  <2>10. CloseAtPeriodEnd(b, t, bar) = d /\ d.position = 0
    BY <1>2, <2>1 DEF CloseAtPeriodEnd, Books
  <2> HIDE DEF d
  <2> QED BY <2>9, <2>10
<1> QED BY <1>1, <1>2

Book == [trades |-> trades, position |-> position, entryPrice |-> entryPrice, entryIdx |-> entryIdx]

(* The trades and the open position explain the bars decided so far.       *)
TradesInv ==
  /\ phase \in {"load", "rejected", "bars", "script_error", "fatal", "ok"}
  /\ bars \in Seq(MarketBars) /\ offset \in Nat /\ offset <= Len(bars) /\ pending \in -1..2
  /\ phase \in {"load", "rejected"} => positions = <<>> /\ trades = <<>> /\ position = 0
  /\ Len(positions) <= Len(Eval) /\ (phase = "bars" => Len(positions) < Len(Eval))
  /\ phase = "ok" => position = 0
  /\ position # 0 => entryIdx <= Len(positions)
  /\ BookOk(Book, positions, Eval)

(* The bars of the evaluation.                                             *)
LEMMA EvalIs ==
  ASSUME NEW b \in Seq(MarketBars), NEW o \in Nat, o <= Len(b)
  PROVE  SubSeq(b, o + 1, Len(b)) \in Seq(MarketBars) /\ Len(SubSeq(b, o + 1, Len(b))) = Len(b) - o
<1>1. Len(b) \in Nat /\ \A i \in (o + 1) .. Len(b) : b[i] \in MarketBars
  <2>1. Len(b) \in Nat /\ \A i \in (o + 1) .. Len(b) : i \in 1..Len(b)
    OBVIOUS
  <2> QED BY <2>1
<1> QED BY <1>1, SubSeqProperties

(* A run starts with nothing to explain.                                   *)
LEMMA NothingToExplain ==
  ASSUME NEW b \in Books, NEW e, b.trades = <<>>, b.position = 0
  PROVE  BookOk(b, <<>>, e)
BY DEF BookOk, ClosedOk, OpenOk, AllCovered

(* No run has begun when a command starts.                                 *)
LEMMA TradesInvInit == Init => TradesInv
<1> SUFFICES ASSUME Init PROVE TradesInv
  OBVIOUS
<1>1. Book \in Books /\ Book.trades = <<>> /\ Book.position = 0
  BY DEF Init, Book, Books
<1>2. BookOk(Book, <<>>, Eval)
  BY <1>1, NothingToExplain
<1>3. bars \in Seq(MarketBars) /\ Len(bars) = 0
  BY DEF Init
<1> QED BY <1>2, <1>3 DEF Init, TradesInv, NoSignal

(* The data of a run are the stored bars from one to another.              *)
CutFrom(all, window, warmup) ==
  \E first \in Nat \ {0}, end \in Nat :
    end <= Len(all) /\ end - first + 1 > warmup /\ window = SubSeq(all, first, end)

(* The window is cut from the stored bars.                                 *)
LEMMA WindowCut ==
  ASSUME NEW all \in Seq(MarketBars), NEW from, NEW to, NEW warmup \in Nat,
         DatasetOf(all, from, to, warmup) # <<>>
  PROVE  CutFrom(all, DatasetOf(all, from, to, warmup), warmup)
<1> DEFINE A == {i \in DOMAIN all : all[i].time < from}
           B == {i \in DOMAIN all : all[i].time < to}
           start == Cardinality(A)
           end == Cardinality(B)
           n == Len(all)
<1>1. n \in Nat /\ DOMAIN all = 1..n
  OBVIOUS
<1>2. start \in Nat /\ end \in Nat /\ end <= n
  <2> DEFINE I == 1..n
  <2>1. IsFiniteSet(I) /\ Cardinality(I) = n
    <3> HIDE DEF n
    <3>1. IsFiniteSet(1..n) /\ Cardinality(1..n) = IF 1 > n THEN 0 ELSE n - 1 + 1
      BY <1>1, FS_Interval
    <3> QED BY <1>1, <3>1
  <2>2. A \subseteq I /\ B \subseteq I
    BY <1>1
  <2> HIDE DEF A, B, I
  <2> QED BY <2>1, <2>2, FS_Subset, FS_CardinalityType
<1>3. /\ ~(end <= start \/ start < warmup)
      /\ DatasetOf(all, from, to, warmup) = SubSeq(all, start - warmup + 1, end)
  BY DEF DatasetOf
<1> HIDE DEF start, end
<1>4. start - warmup + 1 \in Nat \ {0} /\ end - (start - warmup + 1) + 1 > warmup
  BY <1>2, <1>3
<1> QED BY <1>2, <1>3, <1>4 DEF CutFrom

(* Such data hold the warm-up and at least one bar more.                   *)
LEMMA WindowIs ==
  ASSUME NEW all \in Seq(MarketBars), NEW from, NEW to, NEW warmup \in Nat,
         DatasetOf(all, from, to, warmup) # <<>>
  PROVE  /\ DatasetOf(all, from, to, warmup) \in Seq(MarketBars)
         /\ Len(DatasetOf(all, from, to, warmup)) > warmup
<1>1. CutFrom(all, DatasetOf(all, from, to, warmup), warmup)
  BY WindowCut
<1>2. PICK first \in Nat \ {0}, end \in Nat :
        /\ end <= Len(all) /\ end - first + 1 > warmup
        /\ DatasetOf(all, from, to, warmup) = SubSeq(all, first, end)
  BY <1>1 DEF CutFrom
<1>3. \A i \in first .. end : all[i] \in MarketBars
  <2>1. \A i \in first .. end : i \in 1..Len(all)
    BY <1>2
  <2> QED BY <2>1
<1>4. SubSeq(all, first, end) \in Seq(MarketBars) /\ Len(SubSeq(all, first, end)) = end - first + 1
  <2>1. first <= end + 1
    BY <1>2
  <2> QED BY <1>3, <2>1, SubSeqProperties
<1> QED BY <1>2, <1>4

(* Stored bars are loaded in one of the shapes that are valid.             *)
LEMMA TradesInvLoad ==
  ASSUME TradesInv, NEW time \in 0..MaxTime, NEW shape \in Shapes, LoadBar(time, shape)
  PROVE  TradesInv'
<1> DEFINE bar == [time |-> time, open |-> shape.open, high |-> shape.high,
                   low |-> shape.low, close |-> shape.close]
<1>1. bar \in MarketBars
  <2>1. IsShape(shape) /\ time \in Int
    BY EngineAssumption
  <2> QED BY <2>1 DEF IsShape, MarketBars
<1>2. bars' = Append(bars, bar) /\ UNCHANGED <<phase, offset, runVars>> /\ phase = "load"
  BY DEF LoadBar
<1> HIDE DEF bar
<1>3. bars' \in Seq(MarketBars) /\ Len(bars') = Len(bars) + 1 /\ Len(bars) \in Nat
  BY <1>1, <1>2 DEF TradesInv
<1>4. Book \in Books /\ Book' = Book /\ Book.trades = <<>> /\ Book.position = 0 /\ positions' = <<>>
  BY <1>2 DEF TradesInv, BookOk, Book, runVars
<1>5. BookOk(Book', positions', Eval')
  BY <1>4, NothingToExplain
<1> QED BY <1>2, <1>3, <1>4, <1>5 DEF TradesInv, runVars

(* The data set of a run is cut, and the run begins.                       *)
LEMMA TradesInvDataset ==
  ASSUME TradesInv, NEW from, NEW to, NEW warmup \in Warmups, NewDataset(from, to, warmup)
  PROVE  TradesInv'
<1>1. phase = "load" /\ UNCHANGED runVars
  BY DEF NewDataset
<1>2. Book \in Books /\ Book' = Book /\ Book.trades = <<>> /\ Book.position = 0
      /\ positions' = <<>> /\ trades' = <<>> /\ position' = 0 /\ pending' \in -1..2
  BY <1>1 DEF TradesInv, BookOk, Book, runVars
<1>3. BookOk(Book', positions', Eval')
  BY <1>2, NothingToExplain
<1>4. CASE phase' = "rejected" /\ UNCHANGED <<bars, offset>>
  BY <1>2, <1>3, <1>4 DEF TradesInv
<1>5. CASE \E f, e : /\ DatasetOf(bars, f, e, warmup) # <<>> /\ phase' = "bars"
                     /\ bars' = DatasetOf(bars, f, e, warmup) /\ offset' = warmup
  <2>1. warmup \in Nat
    BY EngineAssumption
  <2>2. bars' \in Seq(MarketBars) /\ Len(bars') > warmup /\ phase' = "bars" /\ offset' = warmup
    BY <1>5, <2>1, WindowIs DEF TradesInv
  <2>3. Len(bars') \in Nat
    BY <2>2
  <2>4. Len(Eval') = Len(bars') - warmup
    BY <2>1, <2>2, <2>3, EvalIs DEF Eval
  <2>5. Len(positions') < Len(Eval') /\ offset' \in Nat /\ offset' <= Len(bars')
    <3>1. Len(positions') = 0
      BY <1>2
    <3> QED BY <2>1, <2>2, <2>3, <2>4, <3>1
  <2> QED BY <1>2, <1>3, <2>2, <2>5 DEF TradesInv
<1> DEFINE period == ResolvePeriod(bars, from, to, warmup)
           window == IF period = <<>> THEN <<>> ELSE DatasetOf(bars, period[1], period[2], warmup)
<1>6. IF window = <<>> THEN phase' = "rejected" /\ UNCHANGED <<bars, offset>>
      ELSE phase' = "bars" /\ bars' = window /\ offset' = warmup
  BY DEF NewDataset
<1>7. window # <<>> => \E f, e : window = DatasetOf(bars, f, e, warmup)
  OBVIOUS
<1> HIDE DEF window
<1> QED BY <1>4, <1>5, <1>6, <1>7

(* One bar: its signal, its stop and, at the last bar, the end.            *)
LEMMA TradesInvOnBar ==
  ASSUME TradesInv, NEW call \in Calls, OnBar(call)
  PROVE  TradesInv'
<1> DEFINE t == Len(positions) + 1
           e == Eval
           bar == e[t]
           mid == ApplySignal(Book, pending, t, bar)
           after == ApplyStop(mid, t, bar)
           ended == Verdict(call) = "ok" /\ t = Len(e)
           book == IF ended THEN CloseAtPeriodEnd(after, t, bar) ELSE after
<1>1. e \in Seq(MarketBars) /\ phase = "bars" /\ Len(positions) < Len(e) /\ Len(e) = Len(bars) - offset
  BY EvalIs DEF TradesInv, Eval, OnBar
<1>2. BookOk(Book, positions, e) /\ pending \in -1..2 /\ positions \in Seq({-1, 0, 1})
  BY DEF TradesInv, BookOk
<1>3. /\ trades' = book.trades /\ position' = book.position
      /\ entryPrice' = book.entryPrice /\ entryIdx' = book.entryIdx
      /\ positions' = Append(positions, after.position)
      /\ pending' = (IF Verdict(call) = "ok" THEN PendingAfter(t, call.result) ELSE pending)
      /\ phase' = (IF Verdict(call) = "ok" /\ ~ended THEN "bars" ELSE Verdict(call))
      /\ UNCHANGED <<bars, offset>>
  BY DEF OnBar, Book
<1>4. Eval' = e
  BY <1>3 DEF Eval
<1> HIDE DEF e
<1>5. BookOk(mid, positions, e)
  BY <1>1, <1>2, SignalKeeps
<1> HIDE DEF mid
<1>6. BookOk(after, Append(positions, after.position), e) /\ (after.position # 0 => after.entryIdx <= t)
  BY <1>1, <1>5, StopKeeps
<1> HIDE DEF after
<1>7. after \in Books /\ Len(positions) \in Nat /\ Len(positions') = t
  BY <1>2, <1>3, <1>6 DEF BookOk, Books
<1>8. BookOk(book, positions', e) /\ (ended => book.position = 0)
      /\ (book.position # 0 => book.entryIdx <= t)
  <2>1. CASE ended
    <3>1. Len(positions') = Len(e)
      BY <1>7, <2>1
    <3>2. /\ BookOk(CloseAtPeriodEnd(after, t, bar), positions', e)
          /\ CloseAtPeriodEnd(after, t, bar).position = 0
      BY <1>1, <1>3, <1>6, <1>7, <3>1, EndKeeps
    <3> QED BY <2>1, <3>2
  <2>2. CASE ~ended
    BY <1>3, <1>6, <2>2
  <2> QED BY <2>1, <2>2
<1> HIDE DEF book
<1>9. Book' = book
  <2>1. book \in Books
    BY <1>8 DEF BookOk
  <2> QED BY <1>3, <2>1 DEF Book, Books
<1>10. pending' \in -1..2
  <2>1. Verdict(call) = "ok" => call.result \in -1..1
    BY DEF Verdict, Fatal
  <2> QED BY <1>2, <1>3, <2>1 DEF PendingAfter, NoSignal
<1>11. phase' \in {"bars", "ok", "script_error", "fatal"} /\ (phase' = "bars" => t # Len(e))
       /\ (phase' = "ok" => ended)
  <2>1. Verdict(call) \in {"ok", "script_error", "fatal"}
    BY DEF Verdict
  <2> QED BY <1>3, <2>1
<1>12. phase' = "bars" => Len(positions') < Len(e)
  BY <1>1, <1>2, <1>7, <1>11
<1>13. phase' = "ok" => position' = 0
  BY <1>3, <1>8, <1>11
<1>14. position' # 0 => entryIdx' <= Len(positions')
  BY <1>3, <1>7, <1>8
<1>15. /\ bars' \in Seq(MarketBars) /\ offset' \in Nat /\ offset' <= Len(bars')
       /\ phase' \in {"bars", "ok", "script_error", "fatal"}
  BY <1>3, <1>11 DEF TradesInv
<1>16. Len(positions') <= Len(e)
  BY <1>1, <1>2, <1>7
<1> HIDE DEF t, ended
<1> QED BY <1>4, <1>8, <1>9, <1>10, <1>12, <1>13, <1>14, <1>15, <1>16 DEF TradesInv

(* Every step keeps the invariant of the trades.                           *)
LEMMA TradesInvStep == TradesInv /\ [Next]_vars => TradesInv'
<1> SUFFICES ASSUME TradesInv, [Next]_vars PROVE TradesInv'
  OBVIOUS
<1>1. CASE \E time \in 0..MaxTime, shape \in Shapes : LoadBar(time, shape)
  BY <1>1, TradesInvLoad
<1>2. CASE \E from, to \in Days \cup {None}, w \in Warmups : NewDataset(from, to, w)
  BY <1>2, TradesInvDataset
<1>3. CASE \E call \in Calls : OnBar(call)
  BY <1>3, TradesInvOnBar
<1>4. CASE UNCHANGED vars
  <2>1. UNCHANGED <<phase, bars, offset, trades, positions, position, entryPrice, entryIdx, pending>>
    BY <1>4 DEF vars, runVars
  <2>2. Book' = Book /\ Eval' = Eval
    BY <2>1 DEF Book, Eval
  <2> QED BY <2>1, <2>2 DEF TradesInv
<1> QED BY <1>1, <1>2, <1>3, <1>4 DEF Next

(* What the trades and the open position say of a bar is its position.     *)
LEMMA TradesInvImplies == TradesInv => TradesExplainPositions
<1> SUFFICES ASSUME TradesInv PROVE TradesExplainPositions
  OBVIOUS
<1> DEFINE open == IF position = 0 \/ phase \notin {"bars", "script_error", "fatal"} THEN {}
              ELSE {[direction |-> position, entryIdx |-> entryIdx, exitIdx |-> Len(Eval) + 1]}
           span(i) == [direction |-> trades[i].direction, entryIdx |-> trades[i].entryIdx,
                       exitIdx |-> trades[i].exitIdx + (IF trades[i].reason = "end" THEN 1 ELSE 0)]
           spans == {span(i) : i \in DOMAIN trades} \cup open
<1>1. ClosedOk(Book, positions, Eval) /\ OpenOk(Book, positions, Eval) /\ AllCovered(Book, positions)
      /\ Book.trades = trades /\ Book.position = position /\ Book.entryIdx = entryIdx
      /\ Book.entryPrice = entryPrice
  BY DEF TradesInv, BookOk, Book
<1>2. positions \in Seq({-1, 0, 1}) /\ trades \in Seq(ClosedBooks) /\ Len(positions) \in Nat
      /\ DOMAIN positions = 1..Len(positions)
  BY <1>1 DEF TradesInv, BookOk, Books
<1>3. \A i \in DOMAIN trades \ {1} : trades[i - 1].exitIdx <= trades[i].entryIdx
  BY <1>1 DEF ClosedOk
<1>4. Eval \in Seq(MarketBars)
  BY EvalIs DEF TradesInv, Eval
<1>5. \A t \in DOMAIN positions :
        LET over == {s \in spans : s.entryIdx <= t /\ t < s.exitIdx}
        IN  IF over = {} THEN positions[t] = 0
            ELSE \A s \in over : positions[t] = s.direction
  <2> SUFFICES ASSUME NEW t \in DOMAIN positions
               PROVE  /\ positions[t] # 0 => \E s \in spans : s.entryIdx <= t /\ t < s.exitIdx
                      /\ \A s \in spans : s.entryIdx <= t /\ t < s.exitIdx => positions[t] = s.direction
    OBVIOUS
  <2>1. \A i \in DOMAIN trades : /\ span(i) \in spans /\ span(i).entryIdx = trades[i].entryIdx
                                 /\ span(i).exitIdx = EndOf(trades[i])
                                 /\ span(i).direction = trades[i].direction
    BY DEF EndOf
  <2>2. \A s \in open : s.direction = position /\ s.entryIdx = entryIdx /\ position # 0
    OBVIOUS
  <2>3. position # 0 => \E s \in open : s.entryIdx = entryIdx /\ t < s.exitIdx
    <3> SUFFICES ASSUME position # 0 PROVE \E s \in open : s.entryIdx = entryIdx /\ t < s.exitIdx
      OBVIOUS
    <3>1. phase \in {"bars", "script_error", "fatal"}
      BY DEF TradesInv
    <3>2. t < Len(Eval) + 1
      <4>1. Len(positions) <= Len(Eval) /\ t \in 1..Len(positions) /\ Len(Eval) \in Nat
        BY <1>2, <1>4 DEF TradesInv
      <4> QED BY <1>2, <4>1
    <3> QED BY <3>1, <3>2
  <2>4. positions[t] # 0 => \E s \in spans : s.entryIdx <= t /\ t < s.exitIdx
    <3> SUFFICES ASSUME positions[t] # 0 PROVE \E s \in spans : s.entryIdx <= t /\ t < s.exitIdx
      OBVIOUS
    <3>1. CASE position # 0 /\ entryIdx <= t
      <4> HIDE DEF open, span
      <4> QED BY <2>3, <3>1
    <3>2. CASE \E i \in DOMAIN trades : trades[i].entryIdx <= t /\ t < EndOf(trades[i])
      <4> HIDE DEF open, span, spans
      <4> QED BY <2>1, <3>2
    <3> QED BY <1>1, <3>1, <3>2 DEF AllCovered
  <2>5. \A s \in spans : s.entryIdx <= t /\ t < s.exitIdx => positions[t] = s.direction
    <3> SUFFICES ASSUME NEW s \in spans, s.entryIdx <= t, t < s.exitIdx
                 PROVE  positions[t] = s.direction
      OBVIOUS
    <3>1. CASE s \in open
      <4> HIDE DEF open, spans
      <4> QED BY <1>1, <2>2, <3>1 DEF OpenOk
    <3>2. CASE \E i \in DOMAIN trades : s = span(i)
      <4> HIDE DEF open, span, spans
      <4> QED BY <1>1, <2>1, <3>2 DEF ClosedOk
    <3> HIDE DEF open, span
    <3> QED BY <3>1, <3>2
  <2> QED BY <2>4, <2>5
<1>6. \A i \in DOMAIN trades : FairTrade(Eval, trades[i])
  BY <1>1 DEF ClosedOk
<1> HIDE DEF spans, open
<1> QED BY <1>3, <1>5, <1>6 DEF TradesExplainPositions, FairTrade, ClosingPrice, Reaches, spans, open

(* The closed trades and the open position explain the position of every   *)
(* bar, every fill is within its bar, and no stop is missed.               *)
THEOREM TradesCorrect == Spec => []TradesExplainPositions
<1>1. Init => TradesInv
  BY TradesInvInit
<1>2. TradesInv /\ [Next]_vars => TradesInv'
  BY TradesInvStep
<1>3. TradesInv => TradesExplainPositions
  BY TradesInvImplies
<1> QED BY <1>1, <1>2, <1>3, PTL DEF Spec

-----------------------------------------------------------------------------
(* The keys of a run stay within their limit.                              *)
LEMMA KeysWithin ==
  ASSUME NEW call \in Calls, IsFiniteSet(keys), Cardinality(keys) <= MaxKeys
  PROVE  IsFiniteSet(KeysTracked(call)) /\ Cardinality(KeysTracked(call)) <= MaxKeys
<1> DEFINE asked == call.keys
           n == Len(asked)
           U == keys \cup {asked[i] : i \in DOMAIN asked}
           A == {K \in SUBSET U : IsFiniteSet(K) /\ Cardinality(K) <= MaxKeys}
           track(K, k) == IF k \notin K /\ Cardinality(K) >= MaxKeys THEN K ELSE K \cup {k}
           F == [p \in A \X (1..n) |-> track(p[1], asked[p[2]])]
<1>1. n \in Nat /\ DOMAIN asked = 1..n
  BY EngineAssumption
<1>2. keys \in A
  OBVIOUS
<1>3. ASSUME NEW K \in A, NEW i \in 1..n PROVE track(K, asked[i]) \in A
  <2>1. IsFiniteSet(K) /\ Cardinality(K) \in Nat /\ Cardinality(K) <= MaxKeys /\ K \subseteq U
    BY FS_CardinalityType
  <2>2. asked[i] \in U
    BY <1>1
  <2>3. CASE asked[i] \in K
    <3>1. track(K, asked[i]) = K
      BY <2>3
    <3> HIDE DEF track
    <3> QED BY <3>1
  <2>4. CASE asked[i] \notin K /\ Cardinality(K) >= MaxKeys
    <3>1. track(K, asked[i]) = K
      BY <2>4
    <3> HIDE DEF track
    <3> QED BY <3>1
  <2>5. CASE asked[i] \notin K /\ ~(Cardinality(K) >= MaxKeys)
    <3>1. track(K, asked[i]) = K \cup {asked[i]}
      BY <2>5
    <3>2. IsFiniteSet(K \cup {asked[i]}) /\ Cardinality(K \cup {asked[i]}) = Cardinality(K) + 1
      BY <2>1, <2>5, FS_AddElement
    <3>3. MaxKeys \in Nat
      BY EngineAssumption
    <3>4. Cardinality(K \cup {asked[i]}) <= MaxKeys
      BY <2>1, <2>5, <3>2, <3>3
    <3> HIDE DEF track
    <3> QED BY <2>1, <2>2, <3>1, <3>2, <3>4
  <2> QED BY <2>3, <2>4, <2>5
<1> HIDE DEF n
<1>4. F \in [A \X (1..n) -> A]
  <2> HIDE DEF track, A
  <2> QED BY <1>3
<1>5. PICK g \in [SUBSET (1..n) -> A] : FoldedIn(g, F, keys, A, n)
  <2> HIDE DEF A, F
  <2> QED BY <1>1, <1>2, <1>4, FoldedStep
<1> DEFINE Body(h) == h = [s \in SUBSET (1..n) |->
                             IF s = {} THEN keys ELSE track(h[s \ {Max(s)}], asked[Max(s)])]
           h == CHOOSE h : Body(h)
<1>6. Body(g)
  <2>1. g = [s \in SUBSET (1..n) |-> g[s]]
    OBVIOUS
  <2>2. /\ g[{}] = keys
        /\ \A s \in SUBSET (1..n) : s # {} => g[s] = track(g[s \ {Max(s)}], asked[Max(s)])
    <3>2. \A K \in A, i \in 1..n : F[<<K, i>>] = track(K, asked[i])
      <4> HIDE DEF A, track
      <4> QED OBVIOUS
    <3> HIDE DEF A, F, track
    <3> QED BY <1>5, <3>2 DEF FoldedIn
  <2> HIDE DEF track
  <2> QED BY <2>1, <2>2
<1>7. Body(h)
  <2> HIDE DEF Body
  <2> QED BY <1>6
<1>8. KeysTracked(call) = h[1..n]
  BY <1>1 DEF KeysTracked, FoldLeft, MapThenFoldSet
<1>9. /\ h[{}] = keys
      /\ \A s \in SUBSET (1..n) : s # {} => h[s] = track(h[s \ {Max(s)}], asked[Max(s)])
  <2> HIDE DEF h, track
  <2> QED BY <1>7
<1>10. FoldsFrom(h, F, keys, A, n)
  <2>1. \A s \in SUBSET (1..n) : s # {} => Max(s) \in 1..n
    BY <1>1, GreatestIn
  <2> HIDE DEF h, A, track
  <2> QED BY <1>9, <2>1 DEF FoldsFrom
<1>11. h[1..n] \in A
  <2> HIDE DEF h, A, F
  <2>1. HasPrefixes(h, F, keys, A, n)
    BY <1>1, <1>2, <1>4, <1>10, FoldPrefix
  <2> QED BY <1>1, <2>1 DEF HasPrefixes, StepPrefixes
<1> HIDE DEF h
<1> QED BY <1>8, <1>11

(* The budget of a run that has not failed is not used up.                 *)
BudgetInv ==
  /\ ops \in Nat /\ IsFiniteSet(keys) /\ Cardinality(keys) <= MaxKeys
  /\ phase \in {"load", "bars", "ok"} =>
       ops <= RunMax /\ ((\A c \in Calls : c.ops > 0) => Len(positions) <= ops)

(* Nothing is used up when a command starts.                               *)
LEMMA BudgetInvInit == Init => BudgetInv
<1> SUFFICES ASSUME Init PROVE BudgetInv
  OBVIOUS
<1>1. IsFiniteSet({}) /\ Cardinality({}) = 0 /\ MaxKeys \in Nat /\ RunMax \in Nat
  BY FS_EmptySet, EngineAssumption
<1> QED BY <1>1 DEF Init, BudgetInv

(* Every step keeps the invariant of the budget.                           *)
LEMMA BudgetInvStep == TradesInv /\ BudgetInv /\ [Next]_vars => BudgetInv'
<1> SUFFICES ASSUME TradesInv, BudgetInv, [Next]_vars PROVE BudgetInv'
  OBVIOUS
<1>1. ASSUME NEW time \in 0..MaxTime, NEW shape \in Shapes, LoadBar(time, shape) PROVE BudgetInv'
  <2>1. UNCHANGED <<phase, positions, ops, keys>>
    BY <1>1 DEF LoadBar, runVars, budgetVars
  <2> QED BY <2>1 DEF BudgetInv
<1>2. ASSUME NEW from, NEW to, NEW w, NewDataset(from, to, w) PROVE BudgetInv'
  <2>1. phase = "load" /\ UNCHANGED <<positions, ops, keys>>
    BY <1>2 DEF NewDataset, runVars, budgetVars
  <2> QED BY <2>1 DEF BudgetInv
<1>3. ASSUME NEW call \in Calls, OnBar(call) PROVE BudgetInv'
  <2> DEFINE spent == Executed(call.ops)
  <2>1. /\ phase = "bars" /\ ops' = ops + spent /\ keys' = KeysTracked(call)
        /\ phase' \in {"bars", "ok"} => Verdict(call) = "ok"
    <3> HIDE DEF spent
    <3>1. phase = "bars" /\ ops' = ops + spent /\ keys' = KeysTracked(call)
      BY <1>3 DEF OnBar, TotalOps, spent
    <3>2. \E ended \in BOOLEAN :
            phase' = IF Verdict(call) = "ok" /\ ~ended THEN "bars" ELSE Verdict(call)
      BY <1>3 DEF OnBar
    <3>3. Verdict(call) # "bars"
      BY DEF Verdict
    <3> QED BY <3>1, <3>2, <3>3
  <2>2. Len(positions') = Len(positions) + 1 /\ Len(positions) \in Nat
    <3>1. positions \in Seq({-1, 0, 1})
      BY DEF TradesInv, BookOk
    <3>2. \E v : positions' = Append(positions, v)
      BY <1>3 DEF OnBar
    <3> QED BY <3>1, <3>2
  <2>3. call.ops \in Nat /\ BarMax \in Nat /\ RunMax \in Nat /\ ops \in Nat /\ ops <= RunMax
    BY <2>1, EngineAssumption DEF BudgetInv
  <2>4. Limit \in Nat /\ Limit <= RunMax - ops
    BY <2>3 DEF Limit, SmallerOf
  <2>5. spent \in Nat /\ (spent <= Limit => spent = call.ops)
    BY <2>3, <2>4 DEF Executed, SmallerOf
  <2>6. phase' \in {"load", "bars", "ok"} => spent <= Limit
    <3>1. phase' # "load"
      BY <1>3 DEF OnBar, Verdict
    <3>2. Verdict(call) = "ok" => ~(spent > Limit)
      BY DEF Verdict
    <3> HIDE DEF spent
    <3> QED BY <2>1, <2>4, <2>5, <3>1, <3>2
  <2>7. IsFiniteSet(keys') /\ Cardinality(keys') <= MaxKeys
    BY <2>1, KeysWithin DEF BudgetInv
  <2>8. phase' \in {"load", "bars", "ok"} =>
          ops' <= RunMax /\ ((\A c \in Calls : c.ops > 0) => Len(positions') <= ops')
    <3> SUFFICES ASSUME phase' \in {"load", "bars", "ok"}
                 PROVE  ops' <= RunMax /\ ((\A c \in Calls : c.ops > 0) => Len(positions') <= ops')
      OBVIOUS
    <3>1. spent = call.ops /\ spent <= Limit
      BY <2>5, <2>6
    <3>2. ops' <= RunMax
      <4> HIDE DEF spent
      <4> QED BY <2>1, <2>3, <2>4, <2>5, <3>1
    <3>3. ASSUME \A c \in Calls : c.ops > 0 PROVE Len(positions') <= ops'
      <4>1. Len(positions) <= ops /\ spent > 0
        BY <2>1, <3>1, <3>3 DEF BudgetInv
      <4> HIDE DEF spent
      <4> QED BY <2>1, <2>2, <2>3, <2>5, <4>1
    <3> QED BY <3>2, <3>3
  <2>9. ops' \in Nat
    BY <2>1, <2>3, <2>5
  <2> QED BY <2>7, <2>8, <2>9 DEF BudgetInv
<1>4. CASE UNCHANGED vars
  BY <1>4 DEF vars, runVars, budgetVars, BudgetInv
<1> QED BY <1>1, <1>2, <1>3, <1>4 DEF Next

(* A run that goes on is bounded, however its calls are spread.            *)
THEOREM BudgetCorrect == Spec => []RunIsBounded
<1>1. Init => TradesInv /\ BudgetInv
  BY TradesInvInit, BudgetInvInit
<1>2. TradesInv /\ BudgetInv /\ [Next]_vars => (TradesInv /\ BudgetInv)'
  BY TradesInvStep, BudgetInvStep
<1>3. TradesInv /\ BudgetInv => RunIsBounded
  <2> SUFFICES ASSUME TradesInv, BudgetInv PROVE RunIsBounded
    OBVIOUS
  <2>1. positions \in Seq({-1, 0, 1}) /\ RunMax \in Nat
    BY EngineAssumption DEF TradesInv, BookOk
  <2> QED BY <2>1 DEF BudgetInv, RunIsBounded
<1> QED BY <1>1, <1>2, <1>3, PTL DEF Spec

-----------------------------------------------------------------------------
(* The report of a run: turns and legs of the benchmark, and the sums.     *)

Kinds == {"low", "high"}
Dirs == {"none", "up", "down"}

Joined(c, theta, x, y) == x.kind # y.kind /\ Swing(Facing(c, x.kind), theta, x.pos, y.pos)

Waves == [dir : Dirs, hi : Nat, lo : Nat, pos : Nat, turns : Seq([pos : Nat, kind : Kinds])]

SeekOk(c, theta, t, s) ==
  /\ s.turns = <<>> /\ s.hi \in 1..t /\ s.lo \in 1..t
  /\ \A x \in 1..t : c[s.lo] <= c[x] /\ c[x] <= c[s.hi]
  /\ c[s.hi] - c[s.lo] < theta
FollowOk(c, theta, t, s) ==
  /\ s.turns # <<>> /\ s.pos \in 1..t
  /\ \A k \in DOMAIN s.turns : s.turns[k].pos \in 1..t - 1
  /\ \A k \in 1..Len(s.turns) - 1 : Joined(c, theta, s.turns[k], s.turns[k + 1])
  /\ LET last == s.turns[Len(s.turns)]
         w == Facing(c, last.kind)
     IN  /\ last.kind = IF s.dir = "up" THEN "low" ELSE "high"
         /\ Swing(w, theta, last.pos, s.pos) /\ Trailing(w, theta, s.pos, t + 1)
TurnsOk(c, theta, t, s) ==
  s \in Waves /\ (IF s.dir = "none" THEN SeekOk(c, theta, t, s) ELSE FollowOk(c, theta, t, s))

(* A turn is added to the list.                                            *)
HasTurn(r, turns, t, pos, kind, dir) ==
  /\ r \in Waves /\ r.dir = dir /\ r.pos = t /\ Len(r.turns) = Len(turns) + 1
  /\ DOMAIN r.turns = 1..(Len(turns) + 1)
  /\ r.turns[Len(turns) + 1] = [pos |-> pos, kind |-> kind]
  /\ \A k \in 1..Len(turns) : r.turns[k] = turns[k]
  /\ Len(turns) \in Nat /\ DOMAIN turns = 1..Len(turns)

LEMMA TurnedIs ==
  ASSUME NEW s \in Waves, NEW t \in Nat, NEW pos \in Nat, NEW kind \in Kinds, NEW dir \in Dirs
  PROVE  HasTurn(Turned(s, t, pos, kind, dir), s.turns, t, pos, kind, dir)
<1> DEFINE x == [pos |-> pos, kind |-> kind]
           seq == Append(s.turns, x)
<1>1. s.turns \in Seq([pos : Nat, kind : Kinds]) /\ x \in [pos : Nat, kind : Kinds]
  BY DEF Waves
<1>2. Turned(s, t, pos, kind, dir) = [dir |-> dir, hi |-> s.hi, lo |-> s.lo, pos |-> t, turns |-> seq]
  BY DEF Turned
<1> HIDE DEF x
<1>3. /\ seq \in Seq([pos : Nat, kind : Kinds]) /\ Len(seq) = Len(s.turns) + 1
      /\ DOMAIN seq = 1..(Len(s.turns) + 1)
      /\ seq[Len(s.turns) + 1] = x /\ \A k \in 1..Len(s.turns) : seq[k] = s.turns[k]
      /\ Len(s.turns) \in Nat /\ DOMAIN s.turns = 1..Len(s.turns)
  BY <1>1
<1> HIDE DEF seq
<1>4. Turned(s, t, pos, kind, dir) \in Waves
  BY <1>2, <1>3 DEF Waves
<1> QED BY <1>2, <1>3, <1>4 DEF x, HasTurn

(* The first turn.                                                         *)
LEMMA FirstTurn ==
  ASSUME NEW n \in Nat, NEW c \in [1..n -> Int], NEW theta \in Nat \ {0}, NEW kind \in Kinds,
         NEW s \in Waves, s.turns = <<>>, NEW a \in 1..n, NEW t \in 1..n, a < t,
         Swing(Facing(c, kind), theta, a, t), Trailing(Facing(c, kind), theta, t, t + 1)
  PROVE  TurnsOk(c, theta, t, Turned(s, t, a, kind, IF kind = "low" THEN "up" ELSE "down"))
<1> DEFINE dir == IF kind = "low" THEN "up" ELSE "down"
           r == Turned(s, t, a, kind, dir)
<1>1. dir \in {"up", "down"} /\ dir \in Dirs /\ (kind = IF dir = "up" THEN "low" ELSE "high")
  BY DEF Kinds, Dirs
<1> HIDE DEF dir
<1>2. /\ r \in Waves /\ r.dir = dir /\ r.pos = t /\ Len(r.turns) = 1 /\ DOMAIN r.turns = 1..1
      /\ r.turns[1] = [pos |-> a, kind |-> kind]
  <2>1. Len(s.turns) = 0 /\ a \in Nat /\ t \in Nat
    OBVIOUS
  <2>2. HasTurn(r, s.turns, t, a, kind, dir)
    BY <1>1, <2>1, TurnedIs
  <2> HIDE DEF r
  <2> QED BY <2>1, <2>2 DEF HasTurn
<1> HIDE DEF r
<1>3. r.turns # <<>> /\ r.pos \in 1..t /\ a \in 1 .. t - 1
  BY <1>2
<1>4. r.turns[1].pos = a /\ r.turns[1].kind = kind
  BY <1>2
<1>5. FollowOk(c, theta, t, r)
  BY <1>1, <1>2, <1>3, <1>4 DEF FollowOk
<1> QED BY <1>1, <1>2, <1>5 DEF TurnsOk, r, dir

(* A further turn.                                                         *)
LEMMA NextTurn ==
  ASSUME NEW n \in Nat, NEW c \in [1..n -> Int], NEW theta \in Nat \ {0}, NEW kind \in Kinds,
         NEW s \in Waves, NEW q \in 1..n, NEW t \in 1..n, t = q + 1, FollowOk(c, theta, q, s),
         s.turns[Len(s.turns)].kind # kind,
         Swing(Facing(c, kind), theta, s.pos, t), Trailing(Facing(c, kind), theta, t, t + 1)
  PROVE  TurnsOk(c, theta, t, Turned(s, t, s.pos, kind, IF kind = "low" THEN "up" ELSE "down"))
<1> DEFINE dir == IF kind = "low" THEN "up" ELSE "down"
           r == Turned(s, t, s.pos, kind, dir)
           N == Len(s.turns)
           last == s.turns[N]
<1>1. dir \in {"up", "down"} /\ dir \in Dirs /\ (kind = IF dir = "up" THEN "low" ELSE "high")
  BY DEF Kinds, Dirs
<1> HIDE DEF dir
<1>2. /\ r \in Waves /\ r.dir = dir /\ r.pos = t /\ Len(r.turns) = N + 1 /\ DOMAIN r.turns = 1..(N + 1)
      /\ r.turns[N + 1] = [pos |-> s.pos, kind |-> kind]
      /\ \A k \in 1..N : r.turns[k] = s.turns[k]
      /\ N \in Nat /\ DOMAIN s.turns = 1..N
  <2>1. s.pos \in Nat /\ t \in Nat
    BY DEF Waves
  <2>2. HasTurn(r, s.turns, t, s.pos, kind, dir)
    BY <1>1, <2>1, TurnedIs
  <2> HIDE DEF r
  <2> QED BY <2>2 DEF HasTurn
<1> HIDE DEF r
<1>3. s.turns # <<>> /\ N \in 1..N /\ N - 1 \in Nat
  <2>1. s.turns # <<>> /\ s.turns \in Seq([pos : Nat, kind : Kinds])
    BY DEF FollowOk, Waves
  <2>2. N # 0
    BY <2>1
  <2>3. N \in Nat
    BY <1>2
  <2> HIDE DEF N
  <2> QED BY <2>1, <2>2, <2>3
<1> DEFINE Ok(x, y) == Joined(c, theta, x, y)
<1>4. /\ s.pos \in 1..q /\ Swing(Facing(c, last.kind), theta, last.pos, s.pos)
      /\ \A k \in 1..N : s.turns[k].pos \in 1 .. q - 1
      /\ \A k \in 1 .. N - 1 : Ok(s.turns[k], s.turns[k + 1])
  BY <1>2 DEF FollowOk
<1>5. r.turns[N + 1].pos = s.pos /\ r.turns[N + 1].kind = kind /\ r.turns[N] = last
  <2> HIDE DEF N
  <2>1. r.turns[N + 1] = [pos |-> s.pos, kind |-> kind] /\ r.turns[N] = s.turns[N]
    BY <1>2, <1>3, Zenon
  <2> QED BY <2>1
<1>6. Ok(last, r.turns[N + 1])
  BY <1>4, <1>5 DEF Joined
<1> HIDE DEF N, last, Ok
<1>7. \A k \in 1..N : Ok(r.turns[k], r.turns[k + 1])
  <2> TAKE k \in 1..N
  <2>1. CASE k = N
    BY <1>5, <1>6, <2>1
  <2>2. CASE k # N
    <3>1. k \in 1 .. N - 1 /\ k + 1 \in 1..N
      BY <1>2, <2>2
    <3>2. r.turns[k] = s.turns[k] /\ r.turns[k + 1] = s.turns[k + 1]
      BY <1>2, <3>1
    <3> QED BY <1>4, <3>1, <3>2
  <2> QED BY <2>1, <2>2
<1>8. \A k \in DOMAIN r.turns : r.turns[k].pos \in 1 .. t - 1
  <2> TAKE k \in DOMAIN r.turns
  <2>1. CASE k = N + 1
    BY <1>4, <1>5, <2>1
  <2>2. CASE k # N + 1
    <3>1. k \in 1..N
      BY <1>2, <2>2
    <3>2. r.turns[k] = s.turns[k] /\ s.turns[k].pos \in 1 .. q - 1
      BY <1>2, <1>4, <3>1
    <3> QED BY <3>2
  <2> QED BY <2>1, <2>2
<1>9. \A k \in 1 .. Len(r.turns) - 1 : Joined(c, theta, r.turns[k], r.turns[k + 1])
  <2>1. Len(r.turns) - 1 = N
    BY <1>2
  <2> QED BY <1>7, <2>1 DEF Ok
<1>10. r.turns # <<>> /\ r.pos \in 1..t
  BY <1>2
<1>11. FollowOk(c, theta, t, r)
  <2>1. r.turns[Len(r.turns)].pos = s.pos /\ r.turns[Len(r.turns)].kind = kind
    BY <1>2, <1>5
  <2> QED BY <1>1, <1>2, <1>8, <1>9, <1>10, <2>1 DEF FollowOk
<1> QED BY <1>1, <1>2, <1>11 DEF TurnsOk, r, dir

(* A step of the search keeps what is known of the turns.                  *)
LEMMA SeekKeeps ==
  ASSUME NEW n \in Nat, NEW c \in [1..n -> Int], NEW theta \in Nat \ {0},
         NEW s, NEW q \in 1..n, NEW t \in 1..n, t = q + 1, s.dir = "none", TurnsOk(c, theta, q, s)
  PROVE  TurnsOk(c, theta, t, Seek(c, theta, s, t))
<1> DEFINE v == c[t]
           hi == IF v > c[s.hi] THEN t ELSE s.hi
           lo == IF v < c[s.lo] THEN t ELSE s.lo
           r == [dir |-> "none", hi |-> hi, lo |-> lo, pos |-> s.pos, turns |-> s.turns]
           high == Facing(c, "high")
<1>1. /\ s \in Waves /\ s.turns = <<>> /\ s.hi \in 1..q /\ s.lo \in 1..q /\ s.pos \in Nat
      /\ \A x \in 1..q : c[s.lo] <= c[x] /\ c[x] <= c[s.hi]
      /\ c[s.hi] - c[s.lo] < theta
  BY DEF TurnsOk, SeekOk, Waves
<1>2. \A x \in 1..t : x \in 1..n /\ c[x] \in Int /\ (x \in 1..q \/ x = t)
  OBVIOUS
<1>3. v \in Int /\ c[s.hi] \in Int /\ c[s.lo] \in Int /\ theta \in Int /\ 0 < theta /\ 1..q \subseteq 1..t
      /\ t \in 1..t /\ q \in 1..n /\ c[s.lo] <= c[s.hi] /\ q < t
  <2>1. c[t] \in Int /\ theta \in Int /\ 0 < theta /\ q < t
    OBVIOUS
  <2>2. 1..q \subseteq 1..t /\ t \in 1..t
    OBVIOUS
  <2>3. s.lo \in 1..t /\ s.hi \in 1..t
    BY <1>1, <2>2
  <2>4. c[s.hi] \in Int /\ c[s.lo] \in Int
    BY <1>2, <2>3
  <2>5. c[s.lo] <= c[s.hi]
    BY <1>1
  <2> QED BY <2>1, <2>2, <2>4, <2>5
<1>4. /\ hi \in 1..t /\ lo \in 1..t /\ hi \in 1..n /\ lo \in 1..n
      /\ c[hi] = (IF v > c[s.hi] THEN v ELSE c[s.hi])
      /\ c[lo] = (IF v < c[s.lo] THEN v ELSE c[s.lo])
      /\ (hi = t \/ hi \in 1..q) /\ (lo = t \/ lo \in 1..q)
  <2>1. hi \in {t, s.hi} /\ lo \in {t, s.lo}
    OBVIOUS
  <2>2. t \in 1..t /\ t \in 1..n /\ s.hi \in 1..q /\ s.lo \in 1..q /\ 1..q \subseteq 1..t /\ 1..q \subseteq 1..n
    BY <1>1, <1>3
  <2>3. /\ c[hi] = (IF v > c[s.hi] THEN v ELSE c[s.hi])
        /\ c[lo] = (IF v < c[s.lo] THEN v ELSE c[s.lo])
    OBVIOUS
  <2> HIDE DEF hi, lo, v
  <2>4. \A x : x \in {t, s.hi} \/ x \in {t, s.lo} => x \in 1..t /\ x \in 1..n /\ (x = t \/ x \in 1..q)
    BY <2>2, Zenon
  <2> QED BY <2>1, <2>3, <2>4, Zenon
<1>5. Seek(c, theta, s, t) = IF v - c[lo] >= theta THEN Turned(r, t, lo, "low", "up")
                             ELSE IF c[hi] - v >= theta THEN Turned(r, t, hi, "high", "down") ELSE r
  <2> DEFINE m == [s EXCEPT !.hi = hi, !.lo = lo]
  <2>1. Seek(c, theta, s, t) = IF v - c[lo] >= theta THEN Turned(m, t, lo, "low", "up")
                               ELSE IF c[hi] - v >= theta THEN Turned(m, t, hi, "high", "down") ELSE m
    BY DEF Seek, Exceeds
  <2>2. m = r
    <3>1. s = [dir |-> "none", hi |-> s.hi, lo |-> s.lo, pos |-> s.pos, turns |-> s.turns]
      BY <1>1 DEF Waves
    <3> HIDE DEF hi, lo
    <3>2. m = [[s EXCEPT !.hi = hi] EXCEPT !.lo = lo]
      OBVIOUS
    <3>3. [s EXCEPT !.hi = hi]
            = [dir |-> "none", hi |-> hi, lo |-> s.lo, pos |-> s.pos, turns |-> s.turns]
      BY <3>1
    <3>4. [[dir |-> "none", hi |-> hi, lo |-> s.lo, pos |-> s.pos, turns |-> s.turns] EXCEPT !.lo = lo]
            = [dir |-> "none", hi |-> hi, lo |-> lo, pos |-> s.pos, turns |-> s.turns]
      OBVIOUS
    <3>5. m = [dir |-> "none", hi |-> hi, lo |-> lo, pos |-> s.pos, turns |-> s.turns]
      BY <3>2, <3>3, <3>4, Zenon
    <3> QED BY <3>5
  <2> HIDE DEF m, r, v, hi, lo
  <2> QED BY <2>1, <2>2
<1>6. r \in Waves /\ r.turns = <<>> /\ r.dir = "none" /\ r.hi = hi /\ r.lo = lo
  <2>1. hi \in Nat /\ lo \in Nat
    BY <1>4
  <2> HIDE DEF hi, lo
  <2> QED BY <1>1, <2>1 DEF Waves, Dirs
<1> HIDE DEF v, hi, lo, r
<1>7. v = c[t]
  BY DEF v
<1>8. \A x \in 1..t : c[lo] <= c[x] /\ c[x] <= c[hi]
  <2> TAKE x \in 1..t
  <2>1. CASE x \in 1..q
    <3>1. c[s.lo] <= c[x] /\ c[x] <= c[s.hi] /\ c[x] \in Int
      BY <1>1, <1>2, <2>1
    <3>2. \A x1, y, z \in Int : x1 <= y => x1 <= (IF z > y THEN z ELSE y) /\ (IF z < x1 THEN z ELSE x1) <= y
      OBVIOUS
    <3> QED BY <1>3, <1>4, <3>1, <3>2, Zenon
  <2>2. CASE x = t
    <3>1. c[x] = v
      BY <1>7, <2>2
    <3> QED BY <1>3, <1>4, <3>1
  <2> QED BY <1>2, <2>1, <2>2
<1>9. \A x, y \in 1..q : c[x] - c[y] < theta
  <2> TAKE x, y \in 1..q
  <2>1. c[x] <= c[s.hi] /\ c[s.lo] <= c[y] /\ c[x] \in Int /\ c[y] \in Int
    BY <1>1, <1>2, <1>3
  <2> QED BY <1>1, <1>3, <2>1, WithinRange
<1>10. 1 .. t - 1 = 1..q
  OBVIOUS
<1>11. CASE v - c[lo] >= theta
  <2>1. lo # t
    BY <1>3, <1>7, <1>11
  <2>2. lo < t
    BY <1>3, <1>4, <2>1
  <2>3. Swing(c, theta, lo, t) /\ Trailing(c, theta, t, t + 1)
    BY <1>4, <1>7, <1>8, <1>9, <1>10, <1>11, <2>2, FirstSwing
  <2>4. Facing(c, "low") = c
    BY FacingIs
  <2>5. TurnsOk(c, theta, t, Turned(r, t, lo, "low", IF "low" = "low" THEN "up" ELSE "down"))
    BY <1>4, <1>6, <2>2, <2>3, <2>4, FirstTurn DEF Kinds
  <2> QED BY <1>5, <1>11, <2>5
<1>12. CASE ~(v - c[lo] >= theta) /\ c[hi] - v >= theta
  <2>1. hi # t
    BY <1>3, <1>7, <1>12
  <2>2. hi < t
    BY <1>3, <1>4, <2>1
  <2>3. high \in [1..n -> Int] /\ \A x \in 1..n : high[x] = 0 - c[x] /\ c[x] \in Int
    BY FacingIs
  <2> HIDE DEF high
  <2>4. \A x \in 1..t : high[hi] <= high[x]
    <3> TAKE x \in 1..t
    <3>1. c[x] <= c[hi] /\ c[x] \in Int /\ c[hi] \in Int /\ high[x] = 0 - c[x] /\ high[hi] = 0 - c[hi]
      BY <1>2, <1>4, <1>8, <2>3
    <3> QED BY <3>1
  <2>5. \A x, y \in 1 .. t - 1 : high[x] - high[y] < theta
    <3> TAKE x, y \in 1 .. t - 1
    <3>1. c[y] - c[x] < theta
      BY <1>9, <1>10
    <3>2. c[x] \in Int /\ c[y] \in Int /\ high[x] = 0 - c[x] /\ high[y] = 0 - c[y]
      BY <1>2, <2>3
    <3>3. high[x] - high[y] = c[y] - c[x]
      BY <3>2
    <3> QED BY <3>1, <3>3
  <2>6. high[t] - high[hi] >= theta
    <3>1. c[t] \in Int /\ c[hi] \in Int /\ high[t] = 0 - c[t] /\ high[hi] = 0 - c[hi]
      BY <1>4, <2>3
    <3> QED BY <1>3, <1>7, <1>12, <3>1
  <2>7. Swing(high, theta, hi, t) /\ Trailing(high, theta, t, t + 1)
    BY <1>4, <2>2, <2>3, <2>4, <2>5, <2>6, FirstSwing
  <2>8. TurnsOk(c, theta, t, Turned(r, t, hi, "high", IF "high" = "low" THEN "up" ELSE "down"))
    BY <1>4, <1>6, <2>2, <2>7, FirstTurn DEF Kinds, high
  <2> QED BY <1>5, <1>12, <2>8
<1>13. CASE ~(v - c[lo] >= theta) /\ ~(c[hi] - v >= theta)
  <2>1. c[hi] - c[lo] < theta
    <3> DEFINE h == c[s.hi]
               l == c[s.lo]
    <3>1. c[hi] = (IF v > h THEN v ELSE h) /\ c[lo] = (IF v < l THEN v ELSE l) /\ h - l < theta /\ l <= h
      BY <1>1, <1>3, <1>4
    <3>2. h \in Int /\ l \in Int
      BY <1>3
    <3> HIDE DEF h, l
    <3>3. CASE v > h
      <4>1. c[hi] = v
        BY <3>1, <3>3
      <4> QED BY <1>3, <1>13, <3>1, <3>2, <4>1
    <3>4. CASE v < l
      <4>1. c[lo] = v
        BY <3>1, <3>4
      <4> QED BY <1>3, <1>13, <3>1, <3>2, <4>1
    <3>5. CASE ~(v > h) /\ ~(v < l)
      <4>1. c[hi] = h /\ c[lo] = l
        BY <3>1, <3>5
      <4> QED BY <3>1, <4>1
    <3> QED BY <3>3, <3>4, <3>5
  <2>2. SeekOk(c, theta, t, r)
    BY <1>4, <1>6, <1>8, <2>1 DEF SeekOk
  <2> QED BY <1>5, <1>6, <1>13, <2>2 DEF TurnsOk
<1> QED BY <1>11, <1>12, <1>13

LEMMA FollowKeeps ==
  ASSUME NEW n \in Nat, NEW c \in [1..n -> Int], NEW theta \in Nat \ {0},
         NEW s, NEW q \in 1..n, NEW t \in 1..n, t = q + 1, s.dir # "none", TurnsOk(c, theta, q, s)
  PROVE  TurnsOk(c, theta, t, Follow(c, theta, s, t))
<1> DEFINE N == Len(s.turns)
           last == s.turns[N]
           p == s.pos
           w == Facing(c, last.kind)
           kind == IF last.kind = "low" THEN "high" ELSE "low"
           m == Facing(c, kind)
<1>1. s \in Waves /\ FollowOk(c, theta, q, s)
  BY DEF TurnsOk
<1>2. /\ s.turns # <<>> /\ p \in 1..q
      /\ \A k \in DOMAIN s.turns : s.turns[k].pos \in 1 .. q - 1
      /\ \A k \in 1 .. N - 1 : Joined(c, theta, s.turns[k], s.turns[k + 1])
      /\ last.kind = (IF s.dir = "up" THEN "low" ELSE "high")
      /\ Swing(w, theta, last.pos, p) /\ Trailing(w, theta, p, q + 1)
  BY <1>1 DEF FollowOk
<1>3. s.dir \in {"up", "down"} /\ s.turns \in Seq([pos : Nat, kind : Kinds])
  BY <1>1 DEF Waves, Dirs
<1>4. last.kind \in Kinds /\ kind \in Kinds /\ kind # last.kind /\ last.pos \in 1..n
      /\ (last.kind = "low" <=> s.dir = "up")
  <2>1. N \in DOMAIN s.turns
    BY <1>2, <1>3
  <2>2. last.pos \in 1 .. q - 1
    BY <1>2, <2>1
  <2>3. last.pos \in 1..n
    BY <2>2
  <2>4. last.kind \in {"low", "high"} /\ (last.kind = "low" <=> s.dir = "up")
    BY <1>2, <1>3
  <2> HIDE DEF last
  <2> QED BY <2>3, <2>4 DEF Kinds
<1>5. p \in 1..n /\ p < t /\ c[p] \in Int /\ c[t] \in Int /\ theta \in Int
  <2>1. p \in 1..q
    BY <1>2
  <2> HIDE DEF p
  <2> QED BY <2>1
<1>6. /\ w \in [1..n -> Int] /\ m \in [1..n -> Int] /\ Mirrored(w, m, n)
      /\ w[p] = (IF s.dir = "up" THEN c[p] ELSE 0 - c[p])
      /\ w[t] = (IF s.dir = "up" THEN c[t] ELSE 0 - c[t])
  <2> HIDE DEF last
  <2>1. CASE s.dir = "up"
    <3>1. w = c /\ m = Facing(c, "high")
      BY <1>4, <2>1, FacingIs
    <3> HIDE DEF w, m
    <3> QED BY <1>5, <2>1, <3>1, FacingIs
  <2>2. CASE s.dir # "up"
    <3>1. w = Facing(c, "high") /\ m = c
      BY <1>4, <2>2, FacingIs DEF Kinds
    <3> DEFINE h == Facing(c, "high")
    <3>2. h \in [1..n -> Int] /\ (\A x \in 1..n : h[x] = 0 - c[x]) /\ Mirrored(h, c, n)
      BY FacingIs
    <3> HIDE DEF w, m, h
    <3>3. w = h /\ m = c
      BY <3>1 DEF h
    <3>4. w[p] = 0 - c[p] /\ w[t] = 0 - c[t]
      BY <1>5, <3>2, <3>3
    <3> HIDE DEF p
    <3> QED BY <2>2, <3>2, <3>3, <3>4
  <2> QED BY <2>1, <2>2
<1> DEFINE back == w[p] - w[t]
<1>7. Follow(c, theta, s, t) = IF w[t] > w[p] THEN [s EXCEPT !.pos = t]
                               ELSE IF back < theta THEN s
                               ELSE Turned(s, t, p, kind, IF kind = "low" THEN "up" ELSE "down")
  <2> HIDE DEF w, last, m, N
  <2>1. CASE s.dir = "up"
    <3>1. kind = "high" /\ w[t] = c[t] /\ w[p] = c[p]
      BY <1>4, <1>6, <2>1
    <3> QED BY <2>1, <3>1 DEF Follow, Exceeds
  <2>2. CASE s.dir # "up"
    <3>1. kind = "low" /\ w[t] = 0 - c[t] /\ w[p] = 0 - c[p]
      BY <1>4, <1>6, <2>2 DEF Kinds
    <3>2. (c[t] < c[p] <=> w[t] > w[p]) /\ c[t] - c[p] = back
      <4> DEFINE x == c[t]
                 y == c[p]
      <4>1. x \in Int /\ y \in Int
        BY <1>5
      <4> HIDE DEF x, y
      <4>2. (x < y <=> 0 - x > 0 - y) /\ x - y = (0 - y) - (0 - x)
        BY <4>1
      <4> QED BY <3>1, <4>2, Zenon DEF x, y
    <3> QED BY <2>2, <3>1, <3>2 DEF Follow, Exceeds
  <2> QED BY <2>1, <2>2
<1>8. w[p] \in Int /\ w[t] \in Int
  BY <1>5, <1>6
<1>9. Trailing(w, theta, p, t)
  <2>1. t = q + 1 /\ Trailing(w, theta, p, q + 1)
    BY <1>2
  <2> HIDE DEF w, p
  <2> QED BY <2>1, Zenon
<1>10. CASE w[t] > w[p]
  <2> DEFINE r == [s EXCEPT !.pos = t]
  <2>1. r \in Waves /\ r.turns = s.turns /\ r.dir = s.dir /\ r.pos = t
    <3>1. s = [dir |-> s.dir, hi |-> s.hi, lo |-> s.lo, pos |-> s.pos, turns |-> s.turns]
      BY <1>1 DEF Waves
    <3>2. [[dir |-> s.dir, hi |-> s.hi, lo |-> s.lo, pos |-> s.pos, turns |-> s.turns] EXCEPT !.pos = t]
            = [dir |-> s.dir, hi |-> s.hi, lo |-> s.lo, pos |-> t, turns |-> s.turns]
      OBVIOUS
    <3>3. r = [dir |-> s.dir, hi |-> s.hi, lo |-> s.lo, pos |-> t, turns |-> s.turns]
      BY <3>1, <3>2, Zenon
    <3> HIDE DEF r
    <3> QED BY <1>1, <3>3 DEF Waves
  <2>2. Swing(w, theta, last.pos, t) /\ Trailing(w, theta, t, t + 1)
    <3> HIDE DEF w, last, p
    <3> QED BY <1>2, <1>4, <1>5, <1>6, <1>9, <1>10, SwingExtends
  <2> HIDE DEF r, w
  <2>3. \A k \in DOMAIN s.turns : s.turns[k].pos \in 1 .. t - 1
    <3> HIDE DEF last, p
    <3>1. 1 .. q - 1 \subseteq 1 .. t - 1
      OBVIOUS
    <3> QED BY <1>2, <3>1, Zenon
  <2>4. FollowOk(c, theta, t, r)
    BY <1>2, <2>1, <2>2, <2>3 DEF FollowOk, w
  <2> QED BY <1>7, <1>10, <2>1, <2>4 DEF TurnsOk, r
<1>11. CASE ~(w[t] > w[p]) /\ back < theta
  <2>1. Trailing(w, theta, p, t + 1)
    <3>1. \A x \in p .. (t + 1) - 1 : x \in p .. t - 1 \/ x = t
      BY <1>5
    <3>2. \A x \in p .. t - 1 : w[x] <= w[p] /\ w[p] - w[x] < theta
      <4> HIDE DEF w, p
      <4> QED BY <1>9 DEF Trailing
    <3>3. w[t] <= w[p] /\ w[p] - w[t] < theta
      BY <1>8, <1>11
    <3>4. p < t + 1
      BY <1>5
    <3> HIDE DEF w, p
    <3> QED BY <3>1, <3>2, <3>3, <3>4 DEF Trailing
  <2>2. \A k \in DOMAIN s.turns : s.turns[k].pos \in 1 .. t - 1
    <3> HIDE DEF w, last, p
    <3>1. 1 .. q - 1 \subseteq 1 .. t - 1
      OBVIOUS
    <3> QED BY <1>2, <3>1, Zenon
  <2>3. p \in 1..t
    <3> HIDE DEF w, last
    <3> QED BY <1>2
  <2> HIDE DEF w
  <2>4. FollowOk(c, theta, t, s)
    BY <1>2, <2>1, <2>2, <2>3 DEF FollowOk, w
  <2> QED BY <1>1, <1>3, <1>7, <1>11, <2>4 DEF TurnsOk
<1>12. CASE ~(w[t] > w[p]) /\ ~(back < theta)
  <2>1. Swing(m, theta, p, t) /\ Trailing(m, theta, t, t + 1)
    <3>1. w[p] - w[t] >= theta
      BY <1>5, <1>8, <1>12
    <3> HIDE DEF w, m, p
    <3> QED BY <1>5, <1>6, <1>9, <3>1, SwingTurns
  <2>2. TurnsOk(c, theta, t, Turned(s, t, p, kind, IF kind = "low" THEN "up" ELSE "down"))
    <3> HIDE DEF kind, last
    <3> QED BY <1>1, <1>4, <2>1, NextTurn DEF last
  <2> QED BY <1>7, <1>12, <2>2
<1> QED BY <1>10, <1>11, <1>12

(* A step makes a state of the search of a state.                          *)
LEMMA TurnStepType ==
  ASSUME NEW c, NEW theta, NEW s \in Waves, NEW t \in Nat
  PROVE  TurnStep(c, theta, s, t) \in Waves
<1> DEFINE v == c[t]
           hi == IF v > c[s.hi] THEN t ELSE s.hi
           lo == IF v < c[s.lo] THEN t ELSE s.lo
           n == [s EXCEPT !.hi = hi, !.lo = lo]
<1>1. /\ s = [dir |-> s.dir, hi |-> s.hi, lo |-> s.lo, pos |-> s.pos, turns |-> s.turns]
      /\ s.hi \in Nat /\ s.lo \in Nat /\ s.pos \in Nat
  BY DEF Waves
<1>2. hi \in Nat /\ lo \in Nat
  BY <1>1
<1>3. \A p, dir, kind : p \in Nat /\ dir \in Dirs /\ kind \in Kinds => Turned(s, t, p, kind, dir) \in Waves
  BY TurnedIs DEF HasTurn
<1>4. {"up", "down"} \subseteq Dirs /\ {"low", "high"} \subseteq Kinds
  BY DEF Dirs, Kinds
<1>5. Seek(c, theta, s, t) \in Waves
  <2>1. Seek(c, theta, s, t) = IF v - c[lo] >= theta THEN Turned(n, t, lo, "low", "up")
                               ELSE IF c[hi] - v >= theta THEN Turned(n, t, hi, "high", "down") ELSE n
    BY DEF Seek, Exceeds
  <2> HIDE DEF hi, lo
  <2>2. n \in Waves
    <3>1. n = [[s EXCEPT !.hi = hi] EXCEPT !.lo = lo]
      OBVIOUS
    <3>2. [s EXCEPT !.hi = hi] \in Waves
      BY <1>2 DEF Waves
    <3>3. [[s EXCEPT !.hi = hi] EXCEPT !.lo = lo] \in Waves
      <4> DEFINE x == [s EXCEPT !.hi = hi]
      <4> HIDE DEF x
      <4>1. x \in Waves
        BY <3>2 DEF x
      <4>2. [x EXCEPT !.lo = lo] \in Waves
        BY <1>2, <4>1 DEF Waves
      <4> QED BY <4>2 DEF x
    <3> QED BY <3>1, <3>3, Zenon
  <2> HIDE DEF n, v
  <2>3. Turned(n, t, lo, "low", "up") \in Waves /\ Turned(n, t, hi, "high", "down") \in Waves
    BY <1>2, <1>4, <2>2, TurnedIs DEF HasTurn
  <2> QED BY <2>1, <2>2, <2>3
<1>6. Follow(c, theta, s, t) \in Waves
  <2>1. [s EXCEPT !.pos = t] \in Waves
    BY DEF Waves
  <2>2. Follow(c, theta, s, t) \in
          {[s EXCEPT !.pos = t], s, Turned(s, t, s.pos, "high", "down"), Turned(s, t, s.pos, "low", "up")}
    BY DEF Follow
  <2>3. Turned(s, t, s.pos, "high", "down") \in Waves /\ Turned(s, t, s.pos, "low", "up") \in Waves
    BY <1>1, <1>3, <1>4
  <2> QED BY <2>1, <2>2, <2>3
<1> QED BY <1>5, <1>6 DEF TurnStep

(* What is known of the turns at the last close.                           *)
LEMMA TurnsFold ==
  ASSUME NEW m \in Nat, NEW c \in [1..(m + 1) -> Int], NEW theta \in Nat \ {0},
         NEW v \in [1..m -> Nat], \A k \in 1..m : v[k] = k + 1
  PROVE  TurnsOk(c, theta, m + 1, FoldLeft(LAMBDA s, t : TurnStep(c, theta, s, t), NoTurns, v))
<1> DEFINE F == [p \in Waves \X (1..m) |-> TurnStep(c, theta, p[1], v[p[2]])]
           Body(h) == h = [s \in SUBSET (1..m) |->
                             IF s = {} THEN NoTurns ELSE TurnStep(c, theta, h[s \ {Max(s)}], v[Max(s)])]
           h == CHOOSE h : Body(h)
<1>1. NoTurns \in Waves
  <2>1. <<>> \in Seq([pos : Nat, kind : Kinds])
    OBVIOUS
  <2> QED BY <2>1 DEF NoTurns, Waves, Dirs
<1>2. F \in [Waves \X (1..m) -> Waves]
  <2>1. \A s \in Waves, i \in 1..m : TurnStep(c, theta, s, v[i]) \in Waves
    BY TurnStepType
  <2> QED BY <2>1
<1>3. \A s \in Waves, i \in 1..m : F[<<s, i>>] = TurnStep(c, theta, s, v[i])
  OBVIOUS
<1>4. FoldLeft(LAMBDA s, t : TurnStep(c, theta, s, t), NoTurns, v) = h[1..m]
  BY DEF FoldLeft, MapThenFoldSet
<1>5. PICK g \in [SUBSET (1..m) -> Waves] : FoldedIn(g, F, NoTurns, Waves, m)
  <2> HIDE DEF F
  <2> QED BY <1>1, <1>2, FoldedStep
<1> HIDE DEF F
<1>6. Body(g)
  <2>1. g = [s \in SUBSET (1..m) |-> g[s]]
    OBVIOUS
  <2>2. \A s \in SUBSET (1..m) :
          g[s] = IF s = {} THEN NoTurns ELSE TurnStep(c, theta, g[s \ {Max(s)}], v[Max(s)])
    BY <1>3, <1>5 DEF FoldedIn
  <2> QED BY <2>1, <2>2
<1>7. Body(h)
  <2> HIDE DEF Body
  <2> QED BY <1>6
<1>8. \A s \in SUBSET (1..m) :
        h[s] = IF s = {} THEN NoTurns ELSE TurnStep(c, theta, h[s \ {Max(s)}], v[Max(s)])
  <2> HIDE DEF h
  <2> QED BY <1>7
<1> HIDE DEF h
<1>9. FoldsFrom(h, F, NoTurns, Waves, m)
  <2>1. \A s \in SUBSET (1..m) : s # {} => Max(s) \in 1..m
    BY GreatestIn
  <2> QED BY <1>3, <1>8, <2>1 DEF FoldsFrom
<1>10. PICK P : StepPrefixes(P, F, NoTurns, Waves, m) /\ P[m] = h[1..m]
  <2>1. HasPrefixes(h, F, NoTurns, Waves, m)
    BY <1>1, <1>2, <1>9, FoldPrefix
  <2> QED BY <2>1 DEF HasPrefixes
<1>11. /\ P \in [0..m -> Waves] /\ P[0] = NoTurns
       /\ \A k \in 1..m : P[k] = TurnStep(c, theta, P[k - 1], k + 1)
  <2>1. \A k \in 1..m : k - 1 \in 0..m /\ k \in 0..m
    OBVIOUS
  <2>2. /\ P \in [0..m -> Waves] /\ P[0] = NoTurns
        /\ \A k \in 1..m : P[k] = TurnStep(c, theta, P[k - 1], v[k])
    BY <1>3, <1>10, <2>1 DEF StepPrefixes
  <2>3. ASSUME NEW k \in 1..m PROVE P[k] = TurnStep(c, theta, P[k - 1], k + 1)
    <3>1. v[k] = k + 1 /\ P[k] = TurnStep(c, theta, P[k - 1], v[k])
      BY <2>2
    <3> QED BY <3>1, Zenon
  <2> QED BY <2>2, <2>3
<1>12. TurnsOk(c, theta, 1, NoTurns)
  <2> DEFINE s == NoTurns
  <2>1. s.dir = "none" /\ s.hi = 1 /\ s.lo = 1 /\ s.turns = <<>>
    BY DEF NoTurns
  <2>2. c[1] \in Int /\ c[1] <= c[1] /\ c[1] - c[1] < theta
    OBVIOUS
  <2>3. \A x \in 1..1 : x = 1
    OBVIOUS
  <2> HIDE DEF s
  <2>4. SeekOk(c, theta, 1, s)
    BY <2>1, <2>2, <2>3 DEF SeekOk
  <2> QED BY <1>1, <2>1, <2>4 DEF TurnsOk, s
<1>13. \A k \in 0..m : TurnsOk(c, theta, k + 1, P[k])
  <2> DEFINE B == {k \in 0..m : ~TurnsOk(c, theta, k + 1, P[k])}
  <2> SUFFICES ASSUME B # {} PROVE FALSE
    OBVIOUS
  <2>1. PICK k \in B : \A j \in Nat : j < k => j \notin B
    <3>1. B \in SUBSET Nat
      OBVIOUS
    <3> HIDE DEF B
    <3> QED BY <3>1, LeastOne
  <2>2. k # 0
    BY <1>11, <1>12
  <2>3. PICK i \in 0..m : k = i + 1
    <3>1. k \in 0..m /\ k - 1 \in 0..m /\ k = (k - 1) + 1
      BY <2>2
    <3> QED BY <3>1
  <2>4. i < k /\ k \in 1..m /\ i = k - 1 /\ k \in 1..(m + 1) /\ k + 1 \in 1..(m + 1)
    BY <2>3
  <2>5. TurnsOk(c, theta, i + 1, P[i])
    BY <2>1, <2>4
  <2>6. P[k] = TurnStep(c, theta, P[i], k + 1)
    BY <1>11, <2>4
  <2>7. TurnsOk(c, theta, k, P[i])
    BY <2>3, <2>5, Zenon
  <2>8. TurnsOk(c, theta, k + 1, P[k])
    <3> DEFINE n == m + 1
    <3>1. n \in Nat /\ c \in [1..n -> Int] /\ k \in 1..n /\ k + 1 \in 1..n
      BY <2>4
    <3> HIDE DEF n
    <3> DEFINE t == k + 1
               s == P[i]
    <3>4. t = k + 1 /\ t \in 1..n /\ P[k] = TurnStep(c, theta, s, t) /\ TurnsOk(c, theta, k, s)
      BY <2>6, <2>7, <3>1
    <3> HIDE DEF t, s
    <3>2. CASE s.dir = "none"
      <4>1. TurnsOk(c, theta, t, Seek(c, theta, s, t))
        BY <3>1, <3>2, <3>4, SeekKeeps
      <4>2. TurnsOk(c, theta, t, P[k])
        BY <3>2, <3>4, <4>1 DEF TurnStep
      <4> QED BY <4>2 DEF t
    <3>3. CASE s.dir # "none"
      <4>1. TurnsOk(c, theta, t, Follow(c, theta, s, t))
        BY <3>1, <3>3, <3>4, FollowKeeps
      <4>2. TurnsOk(c, theta, t, P[k])
        BY <3>3, <3>4, <4>1 DEF TurnStep
      <4> QED BY <4>2 DEF t
    <3> QED BY <3>2, <3>3
  <2>9. k \in 0..m /\ ~TurnsOk(c, theta, k + 1, P[k])
    OBVIOUS
  <2> QED BY <2>8, <2>9
<1>14. TurnsOk(c, theta, m + 1, h[1..m])
  BY <1>10, <1>13
<1> QED BY <1>4, <1>14, Zenon

(* Turns within the bars before n, one swing after another.                *)
TurnsList(c, theta, n, turns) ==
  /\ turns \in Seq([pos : Nat, kind : Kinds])
  /\ \A k \in DOMAIN turns : turns[k].pos \in 1 .. n - 1
  /\ \A k \in 1 .. Len(turns) - 1 : Joined(c, theta, turns[k], turns[k + 1])

LEMMA ClosesAre ==
  ASSUME NEW e \in Seq(MarketBars)
  PROVE  /\ Closes(e) \in [1..Len(e) -> Int] /\ DOMAIN e = 1..Len(e) /\ Len(e) \in Nat
         /\ \A t \in 1..Len(e) : Closes(e)[t] = Mid2(e[t].close)
<1>1. DOMAIN e = 1..Len(e) /\ Len(e) \in Nat
  OBVIOUS
<1>2. \A t \in 1..Len(e) : e[t].close \in Int
  <2>1. \A t \in 1..Len(e) : e[t] \in MarketBars
    OBVIOUS
  <2> QED BY <2>1 DEF MarketBars
<1>3. \A x \in Int : Mid2(x) \in Int
  BY SeriesAssumption DEF Mid2, Ask
<1>4. Closes(e) = [t \in 1..Len(e) |-> Mid2(e[t].close)]
  BY <1>1 DEF Closes
<1> QED BY <1>1, <1>2, <1>3, <1>4

(* The turns extracted from the bars.                                      *)
LEMMA ExtractIs ==
  ASSUME NEW e \in Seq(MarketBars), Len(e) # 0, NEW theta \in Nat \ {0}
  PROVE  TurnsList(Closes(e), theta, Len(e), ExtractTurns(e, theta))
<1> DEFINE c == Closes(e)
           v == [k \in 1 .. Len(e) - 1 |-> k + 1]
           s == FoldLeft(LAMBDA r, t : TurnStep(c, theta, r, t), NoTurns, v)
<1>1. PICK m \in Nat : Len(e) = m + 1
  <2>1. Len(e) \in Nat /\ Len(e) - 1 \in Nat /\ Len(e) = (Len(e) - 1) + 1
    OBVIOUS
  <2> QED BY <2>1
<1>2. c \in [1..(m + 1) -> Int]
  <2> HIDE DEF c
  <2>1. c \in [1..Len(e) -> Int]
    BY ClosesAre DEF c
  <2> QED BY <1>1, <2>1
<1>3. v \in [1..m -> Nat] /\ \A k \in 1..m : v[k] = k + 1
  <2>1. Len(e) - 1 = m
    BY <1>1
  <2> QED BY <2>1
<1>4. ExtractTurns(e, theta) = s.turns
  BY DEF ExtractTurns
<1>5. TurnsOk(c, theta, m + 1, s)
  <2> HIDE DEF c, v
  <2> QED BY <1>2, <1>3, TurnsFold
<1> HIDE DEF s, c
<1>6. TurnsOk(c, theta, Len(e), s)
  BY <1>1, <1>5, Zenon
<1>7. s.turns \in Seq([pos : Nat, kind : Kinds])
  BY <1>6 DEF TurnsOk, Waves
<1>8. CASE s.dir = "none"
  <2>1. s.turns = <<>>
    BY <1>6, <1>8 DEF TurnsOk, SeekOk
  <2>2. Len(s.turns) = 0 /\ DOMAIN s.turns = {}
    BY <2>1
  <2> QED BY <1>4, <1>7, <2>2 DEF TurnsList, c
<1>9. CASE s.dir # "none"
  BY <1>4, <1>6, <1>7, <1>9 DEF TurnsList, TurnsOk, FollowOk, c
<1> QED BY <1>8, <1>9

(* The legs between successive turns.                                      *)
LegsOf(e, turns, legs) ==
  /\ Len(legs) \in Nat /\ DOMAIN legs = 1..Len(legs)
  /\ Len(legs) = IF turns = <<>> THEN 0 ELSE Len(turns) - 1
  /\ \A i \in 1..Len(legs) : legs[i] = LegOf(e, turns[i], turns[i + 1])

LegPerPair(e, turns, m, legs) ==
  Len(legs) = m /\ DOMAIN legs = 1..m /\ \A i \in 1..m : legs[i] = LegOf(e, turns[i], turns[i + 1])

LEMMA LegsFold ==
  ASSUME NEW e, NEW turns, NEW m \in Nat, NEW n, n = Len(e),
         \A k \in 1..m : turns[k + 1].pos < n,
         NEW v \in [1..m -> Nat], \A k \in 1..m : v[k] = k, v = [k \in 1 .. Len(turns) - 1 |-> k]
  PROVE  LegPerPair(e, turns, m, BuildLegs(e, turns))
<1> DEFINE leg(k) == LegOf(e, turns[k], turns[k + 1])
           A == Seq({leg(k) : k \in 1..m})
           step(x, k) == IF turns[k + 1].pos < Len(e) THEN Append(x, leg(k)) ELSE x
           F == [p \in A \X (1..m) |-> Append(p[1], leg(p[2]))]
           Body(h) == h = [s \in SUBSET (1..m) |->
                             IF s = {} THEN <<>> ELSE step(h[s \ {Max(s)}], v[Max(s)])]
           h == CHOOSE h : Body(h)
<1>1. <<>> \in A
  OBVIOUS
<1>2. \A x \in A, k \in 1..m : Append(x, leg(k)) \in A
  <2> DEFINE S == {leg(k) : k \in 1..m}
  <2>1. \A k \in 1..m : leg(k) \in S
    BY Zenon
  <2> HIDE DEF leg, S
  <2>2. \A x \in Seq(S), y \in S : Append(x, y) \in Seq(S)
    OBVIOUS
  <2>3. A = Seq(S)
    BY Zenon DEF S
  <2> HIDE DEF A
  <2> QED BY <2>1, <2>2, <2>3
<1>3. F \in [A \X (1..m) -> A] /\ \A x \in A, k \in 1..m : F[<<x, k>>] = Append(x, leg(k))
  <2> HIDE DEF leg, A
  <2> QED BY <1>2
<1>4. \A k \in 1..m : \A x : step(x, v[k]) = Append(x, leg(k))
  <2> TAKE k \in 1..m
  <2> TAKE x
  <2>1. v[k] = k /\ turns[k + 1].pos < Len(e)
    OBVIOUS
  <2>2. step(x, k) = Append(x, leg(k))
    <3> HIDE DEF leg
    <3> QED BY <2>1
  <2> HIDE DEF leg, step
  <2> QED BY <2>1, <2>2, Zenon
<1>5. FoldLeft(LAMBDA legs, k : IF turns[k + 1].pos < Len(e)
                                THEN Append(legs, LegOf(e, turns[k], turns[k + 1])) ELSE legs,
               <<>>, v) = h[1..m]
  BY DEF FoldLeft, MapThenFoldSet
<1> HIDE DEF A, leg
<1>6. PICK g \in [SUBSET (1..m) -> A] : FoldedIn(g, F, <<>>, A, m)
  <2> HIDE DEF F
  <2> QED BY <1>1, <1>3, FoldedStep
<1> HIDE DEF F, step
<1>7. Body(g)
  <2>1. g = [s \in SUBSET (1..m) |-> g[s]]
    OBVIOUS
  <2>2. ASSUME NEW s \in SUBSET (1..m)
        PROVE  g[s] = IF s = {} THEN <<>> ELSE step(g[s \ {Max(s)}], v[Max(s)])
    <3>1. CASE s = {}
      BY <1>6, <3>1 DEF FoldedIn
    <3>2. CASE s # {}
      <4> DEFINE k == Max(s)
                 x == g[s \ {k}]
      <4>1. k \in 1..m /\ x \in A /\ g[s] = F[<<x, k>>]
        BY <1>6, <3>2 DEF FoldedIn
      <4> HIDE DEF k, x
      <4>2. g[s] = Append(x, leg(k)) /\ step(x, v[k]) = Append(x, leg(k))
        BY <1>3, <1>4, <4>1
      <4> QED BY <3>2, <4>2 DEF k, x
    <3> QED BY <3>1, <3>2
  <2> QED BY <2>1, <2>2
<1>8. Body(h)
  <2> HIDE DEF Body
  <2> QED BY <1>7
<1>9. \A s \in SUBSET (1..m) : h[s] = IF s = {} THEN <<>> ELSE step(h[s \ {Max(s)}], v[Max(s)])
  <2> HIDE DEF h
  <2> QED BY <1>8
<1> HIDE DEF h
<1>10. FoldsFrom(h, F, <<>>, A, m)
  <2>1. \A s \in SUBSET (1..m) : s # {} => Max(s) \in 1..m
    BY GreatestIn
  <2>2. h[{}] = <<>>
    BY <1>9
  <2>3. ASSUME NEW s \in SUBSET (1..m), s # {}, h[s \ {Max(s)}] \in A
        PROVE  h[s] = F[<<h[s \ {Max(s)}], Max(s)>>]
    <3> DEFINE k == Max(s)
               x == h[s \ {k}]
    <3>1. k \in 1..m /\ x \in A /\ h[s] = step(x, v[k])
      BY <1>9, <2>1, <2>3
    <3> HIDE DEF k, x
    <3>2. F[<<x, k>>] = Append(x, leg(k)) /\ step(x, v[k]) = Append(x, leg(k))
      BY <1>3, <1>4, <3>1
    <3> QED BY <3>1, <3>2 DEF k, x
  <2> QED BY <2>2, <2>3 DEF FoldsFrom
<1>11. PICK P : StepPrefixes(P, F, <<>>, A, m) /\ P[m] = h[1..m]
  <2>1. HasPrefixes(h, F, <<>>, A, m)
    BY <1>1, <1>3, <1>10, FoldPrefix
  <2> QED BY <2>1 DEF HasPrefixes
<1>12. P \in [0..m -> A] /\ P[0] = <<>> /\ \A k \in 1..m : P[k] = Append(P[k - 1], leg(k)) /\ P[k - 1] \in A
  <2>1. \A k \in 1..m : k - 1 \in 0..m /\ k \in 0..m
    OBVIOUS
  <2> QED BY <1>3, <1>11, <2>1 DEF StepPrefixes
<1> DEFINE Is(k) == Len(P[k]) = k /\ \A i \in 1..k : P[k][i] = leg(i)
<1>13. \A k \in 0..m : Is(k)
  <2> DEFINE B == {k \in 0..m : ~Is(k)}
  <2> SUFFICES ASSUME B # {} PROVE FALSE
    OBVIOUS
  <2>1. PICK k \in B : \A j \in Nat : j < k => j \notin B
    <3>1. B \in SUBSET Nat
      OBVIOUS
    <3> HIDE DEF B
    <3> QED BY <3>1, LeastOne
  <2>2. k # 0
    BY <1>12
  <2>3. k \in 1..m /\ k - 1 \in 0..m /\ k - 1 \in Nat /\ k - 1 < k
    BY <2>2
  <2>4. Is(k - 1)
    BY <2>1, <2>3
  <2> DEFINE p == P[k - 1]
  <2>5. p \in A /\ P[k] = Append(p, leg(k)) /\ Len(p) = k - 1 /\ \A i \in 1 .. k - 1 : p[i] = leg(i)
    BY <1>12, <2>3, <2>4
  <2> HIDE DEF p
  <2>6. Is(k)
    <3>1. p \in Seq({leg(j) : j \in 1..m}) /\ leg(k) \in {leg(j) : j \in 1..m}
      BY <2>3, <2>5 DEF A
    <3>2. Len(P[k]) = k /\ P[k][k] = leg(k) /\ \A i \in 1 .. k - 1 : P[k][i] = p[i]
      BY <2>3, <2>5, <3>1
    <3>3. \A i \in 1..k : i \in 1 .. k - 1 \/ i = k
      BY <2>3
    <3> QED BY <2>5, <3>2, <3>3
  <2>7. ~Is(k)
    OBVIOUS
  <2> QED BY <2>6, <2>7
<1> DEFINE r == h[1..m]
<1>14. Is(m) /\ P[m] = r /\ r \in A
  <2>1. m \in 0..m
    OBVIOUS
  <2>2. Is(m)
    BY <1>13, <2>1
  <2>3. P[m] = r /\ P[m] \in A
    BY <1>11, <1>12, <2>1
  <2> HIDE DEF Is, r
  <2> QED BY <2>2, <2>3
<1>15. DOMAIN r = 1..Len(r)
  BY <1>14 DEF A
<1>16. LegPerPair(e, turns, m, r)
  BY <1>14, <1>15 DEF leg, LegPerPair
<1> HIDE DEF r
<1>17. BuildLegs(e, turns) = r
  <2>1. BuildLegs(e, turns) =
          FoldLeft(LAMBDA legs, k : IF turns[k + 1].pos < Len(e)
                                    THEN Append(legs, LegOf(e, turns[k], turns[k + 1])) ELSE legs,
                   <<>>, v)
    BY Zenon DEF BuildLegs
  <2> QED BY <1>5, <2>1, Zenon DEF r
<1> QED BY <1>16, <1>17, Zenon

LEMMA LegsAre ==
  ASSUME NEW c, NEW theta, NEW e, NEW n, n = Len(e), n \in Nat, NEW turns, TurnsList(c, theta, n, turns)
  PROVE  LegsOf(e, turns, BuildLegs(e, turns))
<1> DEFINE m == IF turns = <<>> THEN 0 ELSE Len(turns) - 1
           v == [k \in 1 .. Len(turns) - 1 |-> k]
<1>2. turns \in Seq([pos : Nat, kind : Kinds]) /\ Len(turns) \in Nat /\ DOMAIN turns = 1..Len(turns)
  BY DEF TurnsList
<1>3. m \in Nat /\ 1 .. Len(turns) - 1 = 1..m /\ (\A k \in 1..m : k + 1 \in DOMAIN turns)
  <2>1. CASE turns = <<>>
    BY <2>1
  <2>2. CASE turns # <<>>
    <3>1. Len(turns) # 0
      BY <1>2, <2>2
    <3> QED BY <1>2, <2>2, <3>1
  <2> QED BY <2>1, <2>2
<1> HIDE DEF m
<1>4. v \in [1..m -> Nat] /\ \A k \in 1..m : v[k] = k
  BY <1>3
<1>5. \A k \in 1..m : turns[k + 1].pos < n
  <2> TAKE k \in 1..m
  <2>1. turns[k + 1].pos \in 1 .. n - 1
    BY <1>3 DEF TurnsList
  <2> QED BY <2>1
<1>6. LegPerPair(e, turns, m, BuildLegs(e, turns))
  <2>1. v = [k \in 1 .. Len(turns) - 1 |-> k]
    OBVIOUS
  <2> HIDE DEF v
  <2> QED BY <1>3, <1>4, <1>5, <2>1, LegsFold
<1> QED BY <1>3, <1>6 DEF LegsOf, LegPerPair, m

(* Legs that follow one another and are swings of the closes of e.         *)
ChainOf(legs, n) ==
  /\ Len(legs) \in Nat /\ DOMAIN legs = 1..Len(legs)
  /\ \A i \in 1..Len(legs) : /\ legs[i].a \in Nat /\ legs[i].b \in Nat /\ legs[i].direction \in {-1, 1}
                             /\ legs[i].a < legs[i].b /\ legs[i].b < n
                             /\ i > 1 => legs[i - 1].b = legs[i].a
LevelOf(e, leg, t) == leg.direction * Mid2(e[t].close)
SwingOf(e, theta, leg) ==
  /\ LevelOf(e, leg, leg.b) - LevelOf(e, leg, leg.a) >= theta
  /\ \A t \in leg.a .. leg.b - 1 : LevelOf(e, leg, t) < LevelOf(e, leg, leg.b)
  /\ \A t \in leg.a + 1 .. leg.b : LevelOf(e, leg, t) >= LevelOf(e, leg, leg.a)
  /\ \A s, t \in leg.a .. leg.b : s < t => LevelOf(e, leg, s) - LevelOf(e, leg, t) < theta

LEMMA LegsSwing ==
  ASSUME NEW e \in Seq(MarketBars), NEW n, n = Len(e), n # 0, NEW theta \in Nat \ {0}, NEW legs,
         legs = BuildLegs(e, ExtractTurns(e, theta))
  PROVE  /\ ChainOf(legs, n)
         /\ \A i \in 1..Len(legs) : SwingOf(e, theta, legs[i])
         /\ \A i \in 1..Len(legs) : i > 1 => legs[i - 1].direction = -legs[i].direction
<1> DEFINE c == Closes(e)
           turns == ExtractTurns(e, theta)
<1>1. TurnsList(c, theta, n, turns)
  BY ExtractIs
<1>2. c \in [1..n -> Int] /\ n \in Nat /\ \A t \in 1..n : c[t] = Mid2(e[t].close)
  BY ClosesAre
<1> HIDE DEF c, turns
<1>3. LegsOf(e, turns, legs)
  BY <1>1, <1>2, LegsAre DEF turns
<1>4. /\ turns \in Seq([pos : Nat, kind : Kinds]) /\ Len(turns) \in Nat /\ DOMAIN turns = 1..Len(turns)
      /\ \A k \in 1..Len(turns) : turns[k].pos \in 1 .. n - 1 /\ turns[k].kind \in Kinds
  <2>1. turns \in Seq([pos : Nat, kind : Kinds]) /\ \A k \in DOMAIN turns : turns[k].pos \in 1 .. n - 1
    BY <1>1 DEF TurnsList
  <2>2. Len(turns) \in Nat /\ DOMAIN turns = 1..Len(turns)
    BY <2>1
  <2>3. \A k \in 1..Len(turns) : turns[k] \in [pos : Nat, kind : Kinds]
    <3> DEFINE T == [pos : Nat, kind : Kinds]
    <3>1. turns \in Seq(T)
      BY <2>1
    <3> HIDE DEF T
    <3>2. \A k \in 1..Len(turns) : turns[k] \in T
      BY <3>1
    <3> QED BY <3>2 DEF T
  <2> QED BY <2>1, <2>2, <2>3
<1>5. Len(legs) \in Nat /\ DOMAIN legs = 1..Len(legs)
      /\ \A i \in 1..Len(legs) : i \in 1..Len(turns) /\ i + 1 \in 1..Len(turns) /\ i \in 1 .. Len(turns) - 1
  <2>1. Len(legs) \in Nat /\ DOMAIN legs = 1..Len(legs)
        /\ Len(legs) = IF turns = <<>> THEN 0 ELSE Len(turns) - 1
    BY <1>3 DEF LegsOf
  <2>2. CASE turns = <<>>
    BY <2>1, <2>2
  <2>3. CASE turns # <<>>
    BY <1>4, <2>1, <2>3
  <2> QED BY <2>2, <2>3
<1>6. ASSUME NEW i \in 1..Len(legs)
      PROVE  /\ legs[i].a = turns[i].pos /\ legs[i].b = turns[i + 1].pos
             /\ legs[i].direction = IF turns[i].kind = "low" THEN 1 ELSE -1
  <2>1. legs[i] = LegOf(e, turns[i], turns[i + 1])
    BY <1>3 DEF LegsOf
  <2> QED BY <2>1 DEF LegOf
<1>7. ASSUME NEW i \in 1..Len(legs)
      PROVE  /\ turns[i].kind # turns[i + 1].kind
             /\ Swing(Facing(c, turns[i].kind), theta, turns[i].pos, turns[i + 1].pos)
  BY <1>1, <1>5 DEF TurnsList, Joined
<1>8. ASSUME NEW i \in 1..Len(legs)
      PROVE  SwingOf(e, theta, legs[i]) /\ legs[i].a < legs[i].b
  <2> DEFINE w == Facing(c, turns[i].kind)
             leg == legs[i]
             a == leg.a
             b == leg.b
  <2>1. a \in 1..n /\ b \in 1..n /\ leg.direction = IF turns[i].kind = "low" THEN 1 ELSE -1
    <3>1. turns[i].pos \in 1 .. n - 1 /\ turns[i + 1].pos \in 1 .. n - 1
      BY <1>4, <1>5
    <3>2. a = turns[i].pos /\ b = turns[i + 1].pos /\ leg.direction = IF turns[i].kind = "low" THEN 1 ELSE -1
      BY <1>6
    <3> QED BY <1>2, <3>1, <3>2
  <2>2. \A t \in 1..n : w[t] = LevelOf(e, leg, t)
    <3> TAKE t \in 1..n
    <3>1. c[t] \in Int /\ c[t] = Mid2(e[t].close) /\ Facing(c, "low") = c /\ Facing(c, "high")[t] = 0 - c[t]
      <4>1. c \in [1..n -> Int] /\ n \in Nat
        BY <1>2, Zenon
      <4>2. Facing(c, "low") = c /\ \A x \in 1..n : Facing(c, "high")[x] = 0 - c[x]
        BY <4>1, FacingIs, Zenon
      <4> QED BY <1>2, <4>2
    <3>2. CASE turns[i].kind = "low"
      <4>1. leg.direction = 1 /\ w[t] = c[t]
        BY <2>1, <3>1, <3>2
      <4> QED BY <3>1, <4>1 DEF LevelOf
    <3>3. CASE turns[i].kind # "low"
      <4>1. turns[i].kind = "high"
        BY <1>4, <1>5, <3>3 DEF Kinds
      <4>2. leg.direction = -1 /\ w[t] = 0 - c[t]
        BY <2>1, <3>1, <3>3, <4>1
      <4> QED BY <3>1, <4>2 DEF LevelOf
    <3> QED BY <3>2, <3>3
  <2>3. Swing(w, theta, a, b)
    BY <1>6, <1>7
  <2> HIDE DEF w, leg
  <2>4. /\ a < b /\ w[b] - w[a] >= theta
        /\ \A t \in a .. b - 1 : w[t] < w[b]
        /\ \A t \in a + 1 .. b : w[t] >= w[a]
        /\ \A s, t \in a .. b : s < t => w[s] - w[t] < theta
    BY <2>3 DEF Swing
  <2>5. \A t \in a .. b : t \in 1..n /\ w[t] = LevelOf(e, leg, t)
    <3>1. \A t \in a .. b : t \in 1..n
      BY <2>1
    <3> QED BY <2>2, <3>1
  <2>6. a \in a .. b /\ b \in a .. b /\ a .. b - 1 \subseteq a .. b /\ a + 1 .. b \subseteq a .. b
    BY <2>1, <2>4
  <2>7. SwingOf(e, theta, leg)
    BY <2>4, <2>5, <2>6 DEF SwingOf
  <2> QED BY <2>4, <2>7 DEF leg
<1>9. ChainOf(legs, n)
  <2>1. ASSUME NEW i \in 1..Len(legs)
        PROVE  /\ legs[i].a \in Nat /\ legs[i].b \in Nat /\ legs[i].direction \in {-1, 1}
               /\ legs[i].b < n /\ (i > 1 => legs[i - 1].b = legs[i].a)
    <3>1. turns[i].pos \in 1 .. n - 1 /\ turns[i + 1].pos \in 1 .. n - 1
      BY <1>4, <1>5
    <3>2. i > 1 => legs[i - 1].b = legs[i].a
      <4> HAVE i > 1
      <4>1. i - 1 \in 1..Len(legs) /\ (i - 1) + 1 = i
        BY <1>5
      <4> QED BY <1>6, <4>1
    <3>3. \A x \in 1 .. n - 1 : x \in Nat /\ x < n
      BY <1>2
    <3>4. turns[i].pos \in Nat /\ turns[i + 1].pos \in Nat /\ turns[i + 1].pos < n
      BY <3>1, <3>3
    <3>5. legs[i].direction = 1 \/ legs[i].direction = -1
      BY <1>6
    <3> QED BY <1>6, <3>2, <3>4, <3>5
  <2> QED BY <1>5, <1>8, <2>1 DEF ChainOf
<1>10. ASSUME NEW i \in 1..Len(legs), i > 1
       PROVE  legs[i - 1].direction = -legs[i].direction
  <2>1. i - 1 \in 1..Len(legs) /\ (i - 1) + 1 = i
    BY <1>5, <1>10
  <2>2. turns[i - 1].kind # turns[i].kind /\ turns[i - 1].kind \in Kinds /\ turns[i].kind \in Kinds
    BY <1>4, <1>5, <1>7, <2>1
  <2>3. /\ legs[i - 1].direction = IF turns[i - 1].kind = "low" THEN 1 ELSE -1
        /\ legs[i].direction = IF turns[i].kind = "low" THEN 1 ELSE -1
    BY <1>6, <2>1
  <2> QED BY <2>2, <2>3 DEF Kinds
<1> QED BY <1>8, <1>9, <1>10

(* The legs of a chain lie one behind the other.                           *)
BarsOf(leg) == leg.a + 1 .. leg.b

LEMMA ChainOrdered ==
  ASSUME NEW legs, NEW n \in Nat, ChainOf(legs, n)
  PROVE  /\ \A i \in 1..Len(legs) : BarsOf(legs[i]) \subseteq 1..n
         /\ \A i, j \in 1..Len(legs) : i < j => BarsOf(legs[i]) \cap BarsOf(legs[j]) = {}
<1> DEFINE L == Len(legs)
           B == {j \in 0..L : \E i \in 1..L : i < j /\ j >= 1 /\ ~(legs[i].b <= legs[j].a)}
<1>1. L \in Nat /\ \A i \in 1..L : /\ legs[i].a \in Nat /\ legs[i].b \in Nat
                                   /\ legs[i].a < legs[i].b /\ legs[i].b < n
                                   /\ i > 1 => legs[i - 1].b = legs[i].a
  BY DEF ChainOf
<1> HIDE DEF L
<1>2. B = {}
  <2> SUFFICES ASSUME B # {} PROVE FALSE
    OBVIOUS
  <2>1. PICK j \in B : \A k \in Nat : k < j => k \notin B
    <3>1. B \in SUBSET Nat
      BY <1>1
    <3> HIDE DEF B
    <3> QED BY <3>1, LeastOne
  <2>2. PICK i \in 1..L : i < j /\ j >= 1 /\ ~(legs[i].b <= legs[j].a)
    OBVIOUS
  <2>3. j \in 1..L /\ j > 1 /\ j - 1 \in 1..L /\ j - 1 < j /\ j - 1 \in 0..L /\ j - 1 \in Nat /\ j - 1 >= 1
    BY <1>1, <2>2
  <2>4. legs[j - 1].b = legs[j].a /\ legs[j - 1].a < legs[j - 1].b
    BY <1>1, <2>3
  <2>5. CASE i = j - 1
    BY <1>1, <2>2, <2>3, <2>4, <2>5
  <2>6. CASE i # j - 1
    <3>1. i < j - 1
      BY <2>2, <2>3, <2>6
    <3>2. legs[i].b <= legs[j - 1].a
      BY <2>1, <2>2, <2>3, <3>1
    <3> QED BY <1>1, <2>2, <2>3, <2>4, <3>2
  <2> QED BY <2>5, <2>6
<1>3. \A i, j \in 1..L : i < j => legs[i].b <= legs[j].a
  <2> TAKE i, j \in 1..L
  <2> HAVE i < j
  <2>1. j \notin B /\ j \in 0..L /\ j >= 1
    BY <1>2
  <2> QED BY <2>1
<1>4. \A i \in 1..L : BarsOf(legs[i]) \subseteq 1..n
  BY <1>1 DEF BarsOf
<1>5. \A i, j \in 1..L : i < j => BarsOf(legs[i]) \cap BarsOf(legs[j]) = {}
  BY <1>1, <1>3 DEF BarsOf
<1> QED BY <1>4, <1>5 DEF L

(* The label of a bar.                                                     *)
LEMMA LabelIs ==
  ASSUME NEW legs, NEW n \in Nat, ChainOf(legs, n), NEW t
  PROVE  /\ \A i \in 1..Len(legs) : t \in BarsOf(legs[i]) =>
              Label(legs, t) = legs[i].direction /\ Label(legs, t) # 0
         /\ Label(legs, t) # 0 => \E i \in 1..Len(legs) : t \in BarsOf(legs[i])
<1> DEFINE I == {i \in DOMAIN legs : t \in legs[i].a + 1 .. legs[i].b}
<1>1. Label(legs, t) = IF I = {} THEN 0 ELSE legs[Max(I)].direction
  BY DEF Label
<1>2. Len(legs) \in Nat /\ DOMAIN legs = 1..Len(legs)
      /\ \A i \in 1..Len(legs) : legs[i].direction \in {-1, 1}
  BY DEF ChainOf
<1>3. \A i : i \in I <=> i \in 1..Len(legs) /\ t \in BarsOf(legs[i])
  BY <1>2 DEF BarsOf
<1> HIDE DEF I
<1>4. ASSUME NEW i \in 1..Len(legs), t \in BarsOf(legs[i])
      PROVE  Label(legs, t) = legs[i].direction /\ Label(legs, t) # 0
  <2>1. \A j \in I : j = i
    <3> SUFFICES ASSUME NEW j \in I, j # i PROVE FALSE
      OBVIOUS
    <3>1. j \in 1..Len(legs) /\ t \in BarsOf(legs[j])
      BY <1>3
    <3>2. j < i \/ i < j
      BY <1>2, <3>1
    <3> QED BY <1>4, <3>1, <3>2, ChainOrdered
  <2>2. I = {i} /\ I \in SUBSET (1..Len(legs))
    BY <1>3, <1>4, <2>1
  <2>3. Max(I) = i
    BY <1>2, <2>2, GreatestIn
  <2>4. Label(legs, t) = legs[i].direction
    BY <1>1, <2>2, <2>3
  <2> QED BY <1>2, <2>4
<1>5. ASSUME Label(legs, t) # 0 PROVE \E i \in 1..Len(legs) : t \in BarsOf(legs[i])
  <2>1. I # {}
    BY <1>1, <1>5
  <2> QED BY <1>3, <2>1
<1> QED BY <1>4, <1>5

LEMMA SumIs ==
  ASSUME NEW n \in Nat, NEW v \in [1..n -> Int]
  PROVE  AddsUpTo(Sum(v), v, n)
<1> DEFINE Body(h) == h = [s \in SUBSET (1..n) |->
                             IF s = {} THEN 0 ELSE h[s \ {Max(s)}] + v[Max(s)]]
           h == CHOOSE h : Body(h)
<1>1. Sum(v) = h[1..n]
  BY DEF Sum, FoldLeft, MapThenFoldSet
<1>2. \A g : Body(g) <=> SumBody(g, 0, v, n)
  BY DEF SumBody
<1>3. SumsTo(h, 0, v, n)
  <2> HIDE DEF Body
  <2> QED BY <1>2, SumFold
<1> HIDE DEF h
<1> QED BY <1>1, <1>3 DEF SumsTo, AddsUpTo

LEMMA TotalOfIs ==
  ASSUME NEW n \in Nat, NEW evals, DOMAIN evals = 1..n, NEW f, NEW v \in [1..n -> Int],
         \A i \in 1..n : v[i] = evals[i][f]
  PROVE  AddsUpTo(TotalOf(evals, f), v, n)
<1> DEFINE Body(h) == h = [s \in SUBSET (1..n) |->
                             IF s = {} THEN 0 ELSE h[s \ {Max(s)}] + evals[Max(s)][f]]
           h == CHOOSE h : Body(h)
<1>1. TotalOf(evals, f) = h[1..n]
  BY DEF TotalOf, FoldLeft, MapThenFoldSet
<1>2. \A g : Body(g) <=> SumBody(g, 0, v, n)
  <2> TAKE g
  <2>1. \A s \in SUBSET (1..n) : s # {} => v[Max(s)] = evals[Max(s)][f]
    BY GreatestIn
  <2>2. [s \in SUBSET (1..n) |-> IF s = {} THEN 0 ELSE g[s \ {Max(s)}] + evals[Max(s)][f]]
          = [s \in SUBSET (1..n) |-> IF s = {} THEN 0 ELSE g[s \ {Max(s)}] + v[Max(s)]]
    BY <2>1
  <2> QED BY <2>2 DEF SumBody
<1>3. SumsTo(h, 0, v, n)
  <2> HIDE DEF Body
  <2> QED BY <1>2, SumFold
<1> HIDE DEF h
<1> QED BY <1>1, <1>3 DEF SumsTo, AddsUpTo

(* A leg is evaluated: each of its bars is matched, flat or opposite.      *)
Held(leg, pos, p) == {t \in BarsOf(leg) : pos[t] = p}

LEMMA LegEvaluated ==
  ASSUME NEW n \in Nat, NEW pos \in Seq({-1, 0, 1}), Len(pos) = n,
         NEW leg, leg.a \in Nat, leg.b \in Nat, leg.a < leg.b, leg.b < n, leg.direction \in {-1, 1}
  PROVE  /\ EvaluateLeg(leg, pos).total = Cardinality(BarsOf(leg))
         /\ EvaluateLeg(leg, pos).matched = Cardinality(Held(leg, pos, leg.direction))
         /\ EvaluateLeg(leg, pos).matched + EvaluateLeg(leg, pos).flat + EvaluateLeg(leg, pos).opposite
              = EvaluateLeg(leg, pos).total
         /\ EvaluateLeg(leg, pos).total \in Nat /\ EvaluateLeg(leg, pos).matched \in Nat
<1> DEFINE d == leg.direction
           I == BarsOf(leg)
           M == Held(leg, pos, d)
           N == Held(leg, pos, 0)
           O == Held(leg, pos, -d)
<1>1. SmallerOf(leg.b, Len(pos)) = leg.b
  BY DEF SmallerOf
<1>2. /\ EvaluateLeg(leg, pos).matched = Cardinality(M)
      /\ EvaluateLeg(leg, pos).flat = Cardinality(N)
      /\ EvaluateLeg(leg, pos).opposite = Cardinality(O)
      /\ EvaluateLeg(leg, pos).total = leg.b - leg.a
  BY <1>1 DEF EvaluateLeg, Held, BarsOf
<1>3. IsFiniteSet(I) /\ Cardinality(I) = leg.b - leg.a
  <2>1. leg.a + 1 \in Int /\ leg.b \in Int /\ ~(leg.a + 1 > leg.b) /\ leg.b - (leg.a + 1) + 1 = leg.b - leg.a
    OBVIOUS
  <2>2. IsFiniteSet((leg.a + 1) .. leg.b) /\ Cardinality((leg.a + 1) .. leg.b) = leg.b - (leg.a + 1) + 1
    BY <2>1, FS_Interval
  <2> QED BY <2>1, <2>2 DEF BarsOf
<1>4. M \cup N \cup O = I /\ M \cap N = {} /\ (M \cup N) \cap O = {}
  <2>1. \A t \in I : pos[t] \in {-1, 0, 1}
    <3>1. \A t \in I : t \in 1..n
      BY DEF BarsOf
    <3> QED BY <3>1
  <2>2. d # 0 /\ d # -d /\ -d # 0 /\ {-1, 0, 1} = {d, 0, -d}
    OBVIOUS
  <2> HIDE DEF d, I
  <2> QED BY <2>1, <2>2 DEF Held, I
<1>5. IsFiniteSet(M) /\ IsFiniteSet(N) /\ IsFiniteSet(O)
  <2>1. M \subseteq I /\ N \subseteq I /\ O \subseteq I
    BY <1>4
  <2> HIDE DEF I, M, N, O
  <2> QED BY <1>3, <2>1, FS_Subset
<1> HIDE DEF I, M, N, O
<1>6. IsFiniteSet(M \cup N) /\ Cardinality(M \cup N) = Cardinality(M) + Cardinality(N) - Cardinality(M \cap N)
  BY <1>5, FS_Union
<1>7. Cardinality((M \cup N) \cup O) = Cardinality(M \cup N) + Cardinality(O) - Cardinality((M \cup N) \cap O)
  BY <1>5, <1>6, FS_Union
<1>8. Cardinality(M \cap N) = 0 /\ Cardinality((M \cup N) \cap O) = 0
      /\ Cardinality(M) \in Nat /\ Cardinality(N) \in Nat /\ Cardinality(O) \in Nat /\ Cardinality(I) \in Nat
  BY <1>3, <1>4, <1>5, FS_EmptySet, FS_CardinalityType
<1>9. Cardinality(M) + Cardinality(N) + Cardinality(O) = Cardinality(I)
  <2>1. Cardinality(I) = Cardinality((M \cup N) \cup O)
    BY <1>4, Zenon
  <2>2. Cardinality(M \cup N) = Cardinality(M) + Cardinality(N)
    BY <1>6, <1>8
  <2>3. Cardinality((M \cup N) \cup O) = Cardinality(M \cup N) + Cardinality(O)
    BY <1>7, <1>8, <2>2
  <2> QED BY <1>8, <2>1, <2>2, <2>3
<1> QED BY <1>2, <1>3, <1>8, <1>9 DEF I, M

(* The metrics of the legs add up to those of the bars.                    *)
LabelledBy(bm, legs, n) == bm.legs = legs /\ bm.labels = [t \in 1..n |-> Label(legs, t)]
ThetaOk(th) ==
  /\ \A i \in DOMAIN th.evals :
       th.evals[i].matched + th.evals[i].flat + th.evals[i].opposite = th.evals[i].total
  /\ TotalOf(th.evals, "total") = th.labeled /\ TotalOf(th.evals, "matched") = th.matched

LEMMA ThetaAddsUp ==
  ASSUME NEW n \in Nat, NEW pos \in Seq({-1, 0, 1}), Len(pos) = n, NEW legs, ChainOf(legs, n),
         NEW bm, LabelledBy(bm, legs, n), NEW th, th = ThetaMetrics(pos, bm)
  PROVE  ThetaOk(th)
<1> DEFINE L == Len(legs)
           E == [i \in DOMAIN legs |-> EvaluateLeg(legs[i], pos)]
           Labeled == {t \in 1..n : Label(legs, t) # 0}
           Matched == {t \in Labeled : pos[t] = Label(legs, t)}
           all == [i \in 1..L |-> E[i].total]
           right == [i \in 1..L |-> E[i].matched]
<1>1. L \in Nat /\ DOMAIN legs = 1..L
      /\ \A i \in 1..L : /\ legs[i].a \in Nat /\ legs[i].b \in Nat /\ legs[i].direction \in {-1, 1}
                         /\ legs[i].a < legs[i].b /\ legs[i].b < n
  BY DEF ChainOf
<1>2. th.evals = E /\ th.labeled = Cardinality(Labeled) /\ th.matched = Cardinality(Matched)
  <2> DEFINE labeled == {t \in DOMAIN bm.labels : bm.labels[t] # 0}
             matched == {t \in labeled : pos[t] = bm.labels[t]}
  <2>1. th.evals = E /\ th.labeled = Cardinality(labeled) /\ th.matched = Cardinality(matched)
    BY DEF ThetaMetrics, LabelledBy
  <2>2. DOMAIN bm.labels = 1..n /\ \A t \in 1..n : bm.labels[t] = Label(legs, t)
    BY DEF LabelledBy
  <2>3. labeled = Labeled
    BY <2>2
  <2>4. matched = Matched
    BY <2>2, <2>3
  <2> HIDE DEF labeled, matched, Labeled, Matched, E
  <2> QED BY <2>1, <2>3, <2>4
<1> HIDE DEF L
<1>3. ASSUME NEW i \in 1..L
      PROVE  /\ E[i].total = Cardinality(BarsOf(legs[i]))
             /\ E[i].matched = Cardinality(Held(legs[i], pos, legs[i].direction))
             /\ E[i].matched + E[i].flat + E[i].opposite = E[i].total
             /\ E[i].total \in Nat /\ E[i].matched \in Nat
  <2>1. E[i] = EvaluateLeg(legs[i], pos)
    BY <1>1
  <2> HIDE DEF E
  <2> DEFINE leg == legs[i]
  <2>2. /\ leg.a \in Nat /\ leg.b \in Nat /\ leg.direction \in {-1, 1} /\ leg.a < leg.b /\ leg.b < n
        /\ E[i] = EvaluateLeg(leg, pos)
    BY <1>1, <2>1
  <2> HIDE DEF leg
  <2>3. /\ E[i].total = Cardinality(BarsOf(leg))
        /\ E[i].matched = Cardinality(Held(leg, pos, leg.direction))
        /\ E[i].matched + E[i].flat + E[i].opposite = E[i].total
        /\ E[i].total \in Nat /\ E[i].matched \in Nat
    BY <2>2, LegEvaluated
  <2> QED BY <2>3 DEF leg
<1>4. DOMAIN E = 1..L
  BY <1>1
<1> HIDE DEF E
<1>5. all \in [1..L -> Int] /\ right \in [1..L -> Int]
      /\ \A i \in 1..L : /\ all[i] = E[i].total /\ all[i] = Cardinality(BarsOf(legs[i]))
                         /\ right[i] = E[i].matched
                         /\ right[i] = Cardinality(Held(legs[i], pos, legs[i].direction))
  BY <1>3
<1> HIDE DEF all, right
<1>6. \A i \in 1..L : BarsOf(legs[i]) \subseteq 1..n
  BY ChainOrdered DEF L
<1>7. \A i, j \in 1..L : i < j => BarsOf(legs[i]) \cap BarsOf(legs[j]) = {}
  BY ChainOrdered DEF L
<1>8. \A t \in 1..n : Label(legs, t) # 0 <=> \E i \in 1..L : t \in BarsOf(legs[i])
  BY LabelIs DEF L
<1>9. \A t \in 1..n, i \in 1..L : t \in BarsOf(legs[i]) => Label(legs, t) = legs[i].direction
  BY LabelIs DEF L
<1>10. TotalOf(E, "total") = Cardinality(Labeled)
  <2> DEFINE S == [i \in 1..L |-> BarsOf(legs[i])]
  <2>1. /\ \A i \in 1..L : S[i] \subseteq 1..n /\ all[i] = Cardinality(S[i])
        /\ \A i, j \in 1..L : i < j => S[i] \cap S[j] = {}
    BY <1>5, <1>6, <1>7
  <2>2. Labeled = {t \in 1..n : \E i \in 1..L : t \in S[i]}
    BY <1>8
  <2>3. PICK Q : Totals(Q, 0, all, L) /\ TotalOf(E, "total") = Q[L]
    <3>1. AddsUpTo(TotalOf(E, "total"), all, L)
      BY <1>1, <1>4, <1>5, TotalOfIs DEF L
    <3> QED BY <3>1 DEF AddsUpTo
  <2> HIDE DEF S, Labeled
  <2>4. L \in Nat
    BY <1>1 DEF L
  <2>5. CountsParts(Q[L], S, L, n)
    <3>1. \A i \in 1..L : S[i] \subseteq 1..n
      BY <2>1
    <3>2. \A i, j \in 1..L : i < j => S[i] \cap S[j] = {}
      BY <2>1
    <3>3. \A i \in 1..L : all[i] = Cardinality(S[i])
      BY <2>1
    <3>4. Totals(Q, 0, all, L)
      BY <2>3
    <3> QED BY <2>4, <3>1, <3>2, <3>3, <3>4, PartsCounted, Zenon
  <2> QED BY <2>2, <2>3, <2>5 DEF CountsParts
<1>11. TotalOf(E, "matched") = Cardinality(Matched)
  <2> DEFINE S == [i \in 1..L |-> Held(legs[i], pos, legs[i].direction)]
  <2>1. \A i \in 1..L : S[i] = {t \in BarsOf(legs[i]) : pos[t] = legs[i].direction}
    BY DEF Held
  <2>2. \A i \in 1..L : right[i] = Cardinality(S[i])
    BY <1>5
  <2> HIDE DEF S
  <2>3. /\ \A i \in 1..L : S[i] \subseteq BarsOf(legs[i]) /\ S[i] \subseteq 1..n
        /\ \A i, j \in 1..L : i < j => S[i] \cap S[j] = {}
    BY <1>6, <1>7, <2>1
  <2>4. Matched = {t \in 1..n : \E i \in 1..L : t \in S[i]}
    BY <1>6, <1>8, <1>9, <2>1
  <2>5. PICK Q : Totals(Q, 0, right, L) /\ TotalOf(E, "matched") = Q[L]
    <3>1. AddsUpTo(TotalOf(E, "matched"), right, L)
      BY <1>1, <1>4, <1>5, TotalOfIs DEF L
    <3> QED BY <3>1 DEF AddsUpTo
  <2> HIDE DEF Matched
  <2>6. L \in Nat
    BY <1>1 DEF L
  <2>7. CountsParts(Q[L], S, L, n)
    <3>1. \A i \in 1..L : S[i] \subseteq 1..n
      BY <2>3
    <3>2. \A i, j \in 1..L : i < j => S[i] \cap S[j] = {}
      BY <2>3
    <3>3. \A i \in 1..L : right[i] = Cardinality(S[i])
      BY <2>2
    <3>4. Totals(Q, 0, right, L)
      BY <2>5
    <3> QED BY <2>6, <3>1, <3>2, <3>3, <3>4, PartsCounted, Zenon
  <2> QED BY <2>4, <2>5, <2>7 DEF CountsParts
<1> QED BY <1>2, <1>3, <1>4, <1>10, <1>11 DEF ThetaOk

(* The segment of a trade.                                                 *)
LEMMA SegmentIs ==
  ASSUME NEW n, NEW x
  PROVE  SegmentIndex(n, x) \in 1..Parts
<1> DEFINE I == {i \in 1 .. Parts - 1 : x <= i * (n \div Parts)}
<1>1. SegmentIndex(n, x) = IF I = {} THEN Parts ELSE Min(I)
  BY DEF SegmentIndex
<1>2. Parts \in Nat /\ Parts # 0 /\ I \subseteq 1 .. Parts - 1
  BY EngineAssumption
<1> HIDE DEF I
<1>3. CASE I = {}
  BY <1>1, <1>2, <1>3
<1>4. CASE I # {}
  <2>1. I \in SUBSET Nat
    BY <1>2
  <2>2. PICK k \in I : \A j \in Nat : j < k => j \notin I
    BY <1>4, <2>1, LeastOne
  <2>3. \A j \in I : k <= j
    BY <2>1, <2>2
  <2>4. Min(I) \in I
    BY <2>3 DEF Min
  <2>5. SegmentIndex(n, x) \in 1 .. Parts - 1
    BY <1>1, <1>2, <1>4, <2>4
  <2> QED BY <1>2, <2>5
<1> QED BY <1>3, <1>4

(* The results of trades.                                                  *)
LEMMA PnlsAre ==
  ASSUME NEW n \in Nat, NEW ts, DOMAIN ts = 1..n, \A i \in 1..n : ts[i].pnl \in Int
  PROVE  Pnls(ts) \in [1..n -> Int] /\ \A i \in 1..n : Pnls(ts)[i] = ts[i].pnl
BY DEF Pnls

(* The segments add up to the total.                                       *)
LEMMA SegmentsAddUp ==
  ASSUME NEW n \in Nat, NEW ts, DOMAIN ts = 1..n, \A i \in 1..n : ts[i].pnl \in Int, NEW length
  PROVE  Sum(Segments(length, ts)) = Sum(Pnls(ts))
<1> DEFINE A == [1..Parts -> Int]
           base == [i \in 1..Parts |-> 0]
           step(s, trade) == [s EXCEPT ![SegmentIndex(length, trade.exitIdx)] = @ + trade.pnl]
           F == [p \in A \X (1..n) |-> step(p[1], ts[p[2]])]
           Body(h) == h = [s \in SUBSET (1..n) |->
                             IF s = {} THEN base ELSE step(h[s \ {Max(s)}], ts[Max(s)])]
           h == CHOOSE h : Body(h)
           v == Pnls(ts)
<1>1. base \in A
  OBVIOUS
<1>2. ASSUME NEW s \in A, NEW i \in 1..n
      PROVE  LET j == SegmentIndex(length, ts[i].exitIdx) IN
             /\ step(s, ts[i]) \in A /\ j \in 1..Parts
             /\ step(s, ts[i])[j] = s[j] + v[i]
             /\ \A k \in 1..Parts : k # j => step(s, ts[i])[k] = s[k]
  <2> DEFINE j == SegmentIndex(length, ts[i].exitIdx)
             d == ts[i].pnl
  <2>1. j \in 1..Parts /\ d \in Int /\ v[i] = d
    BY SegmentIs, PnlsAre
  <2>2. step(s, ts[i]) = [s EXCEPT ![j] = @ + d]
    BY Zenon
  <2> HIDE DEF j, d, step, v
  <2>3. [s EXCEPT ![j] = @ + d] \in A /\ [s EXCEPT ![j] = @ + d][j] = s[j] + d
        /\ \A k \in 1..Parts : k # j => [s EXCEPT ![j] = @ + d][k] = s[k]
    BY <2>1
  <2> QED BY <2>1, <2>2, <2>3 DEF j
<1>3. Segments(length, ts) = h[1..n]
  BY DEF Segments, FoldLeft, MapThenFoldSet
<1> HIDE DEF step, A, base
<1>4. F \in [A \X (1..n) -> A] /\ \A s \in A, i \in 1..n : F[<<s, i>>] = step(s, ts[i])
  BY <1>2
<1>5. PICK g \in [SUBSET (1..n) -> A] : FoldedIn(g, F, base, A, n)
  <2> HIDE DEF F
  <2> QED BY <1>1, <1>4, FoldedStep
<1> HIDE DEF F
<1>6. Body(g)
  <2>1. g = [s \in SUBSET (1..n) |-> g[s]]
    OBVIOUS
  <2>2. ASSUME NEW s \in SUBSET (1..n)
        PROVE  g[s] = IF s = {} THEN base ELSE step(g[s \ {Max(s)}], ts[Max(s)])
    BY <1>4, <1>5 DEF FoldedIn
  <2> QED BY <2>1, <2>2
<1>7. Body(h)
  <2> HIDE DEF Body
  <2> QED BY <1>6
<1>8. \A s \in SUBSET (1..n) : h[s] = IF s = {} THEN base ELSE step(h[s \ {Max(s)}], ts[Max(s)])
  <2> HIDE DEF h
  <2> QED BY <1>7
<1> HIDE DEF h
<1>9. FoldsFrom(h, F, base, A, n)
  <2>1. \A s \in SUBSET (1..n) : s # {} => Max(s) \in 1..n
    BY GreatestIn
  <2> QED BY <1>4, <1>8, <2>1 DEF FoldsFrom
<1>10. PICK P : StepPrefixes(P, F, base, A, n) /\ P[n] = h[1..n]
  <2>1. HasPrefixes(h, F, base, A, n)
    BY <1>1, <1>4, <1>9, FoldPrefix
  <2> QED BY <2>1 DEF HasPrefixes
<1>11. /\ P \in [0..n -> A] /\ P[0] = base
       /\ \A k \in 1..n : k - 1 \in 0..n /\ P[k - 1] \in A /\ P[k] \in A /\ P[k] = step(P[k - 1], ts[k])
  <2>1. \A k \in 1..n : k - 1 \in 0..n /\ k \in 0..n
    OBVIOUS
  <2> QED BY <1>4, <1>10, <2>1 DEF StepPrefixes
<1>12. v \in [1..n -> Int] /\ \A i \in 1..n : v[i] \in Int
  BY PnlsAre
<1> HIDE DEF v
<1>13. Parts \in Nat
  BY EngineAssumption
<1> DEFINE C == [k \in 0..n |-> Sum(P[k])]
<1>14. \A k \in 0..n : AddsUpTo(Sum(P[k]), P[k], Parts)
  BY <1>11, <1>13, SumIs DEF A
<1>15. Sum(base) = 0 /\ Sum(base) \in Int
  <2>1. base \in [1..Parts -> Int] /\ \A i \in 1..Parts : base[i] = 0
    BY DEF base
  <2> DEFINE Q == [k \in 0..Parts |-> 0]
  <2>2. Totals(Q, 0, base, Parts) /\ Q[Parts] = 0
    <3> HIDE DEF base
    <3> QED BY <1>13, <2>1 DEF Totals
  <2>3. AddsUpTo(0, base, Parts)
    BY <2>2 DEF AddsUpTo
  <2> HIDE DEF base
  <2>4. AddsUpTo(Sum(base), base, Parts)
    BY <1>13, <2>1, SumIs
  <2> QED BY <1>13, <2>3, <2>4, AddsUpToSame
<1>16. ASSUME NEW k \in 1..n
       PROVE  Sum(P[k - 1]) \in Int /\ Sum(P[k]) = Sum(P[k - 1]) + v[k]
  <2> DEFINE j == SegmentIndex(length, ts[k].exitIdx)
             x == P[k - 1]
             y == P[k]
  <2>1. k - 1 \in 0..n /\ k \in 0..n /\ x \in A /\ y \in A /\ y = step(x, ts[k])
    BY <1>11
  <2>2. j \in 1..Parts /\ y[j] = x[j] + v[k] /\ \A i \in 1..Parts : i # j => y[i] = x[i]
    BY <1>2, <2>1
  <2>3. AddsUpTo(Sum(x), x, Parts) /\ AddsUpTo(Sum(y), y, Parts)
    BY <1>14, <2>1
  <2>4. x \in [1..Parts -> Int] /\ y \in [1..Parts -> Int] /\ v[k] \in Int
    BY <1>12, <2>1 DEF A
  <2> HIDE DEF j, x, y
  <2>5. Sum(x) \in Int /\ Sum(y) = Sum(x) + v[k]
    <3> DEFINE d == v[k]
               p == Sum(x)
               q == Sum(y)
    <3>1. Bumped(x, y, Parts, d) /\ d \in Int /\ AddsUpTo(p, x, Parts) /\ AddsUpTo(q, y, Parts)
      BY <2>2, <2>3, <2>4 DEF Bumped
    <3> HIDE DEF d, p, q
    <3>2. p \in Int /\ q = p + d
      BY <1>13, <3>1, SumBump
    <3> QED BY <3>2 DEF d, p, q
  <2> QED BY <2>5 DEF x, y
<1>17. \A k \in 0..n : Sum(P[k]) \in Int
  <2> TAKE k \in 0..n
  <2>1. CASE k = 0
    BY <1>11, <1>15, <2>1
  <2>2. CASE k # 0
    <3>1. k \in 1..n
      BY <2>2
    <3> QED BY <1>12, <1>16, <3>1
  <2> QED BY <2>1, <2>2
<1>18. Totals(C, 0, v, n) /\ C[n] = Sum(P[n])
  <2>1. \A k \in 1..n : k - 1 \in 0..n /\ k \in 0..n
    OBVIOUS
  <2> QED BY <1>11, <1>15, <1>16, <1>17, <2>1 DEF Totals
<1>19. AddsUpTo(Sum(P[n]), v, n)
  <2> HIDE DEF C
  <2> QED BY <1>18 DEF AddsUpTo
<1>20. AddsUpTo(Sum(v), v, n)
  BY <1>12, SumIs
<1>21. Sum(P[n]) = Sum(v)
  BY <1>19, <1>20, AddsUpToSame
<1> QED BY <1>3, <1>10, <1>21, Zenon DEF v

(* The drawdown is the largest fall of the running total.                  *)
Equities == [cum : Int, peak : Int, dd : Int]
NoEquity == [cum |-> 0, peak |-> 0, dd |-> 0]
FallsWith(x, v, n) == \E C : Totals(C, 0, v, n) /\ x = Max(FallsOf(C, n))

LEMMA MaxDrawdownIs ==
  ASSUME NEW n \in Nat, NEW ts, DOMAIN ts = 1..n, \A i \in 1..n : ts[i].pnl \in Int
  PROVE  FallsWith(MaxDrawdown(ts), Pnls(ts), n)
<1> DEFINE F == [p \in Equities \X (1..n) |-> EquityStep(p[1], ts[p[2]])]
           Body(h) == h = [s \in SUBSET (1..n) |->
                             IF s = {} THEN NoEquity ELSE EquityStep(h[s \ {Max(s)}], ts[Max(s)])]
           h == CHOOSE h : Body(h)
           v == Pnls(ts)
<1>1. ASSUME NEW d \in Equities, NEW i \in 1..n
      PROVE  LET r == EquityStep(d, ts[i])
             IN  /\ r \in Equities /\ r.cum = d.cum + v[i]
                 /\ r.peak = IF d.peak >= r.cum THEN d.peak ELSE r.cum
                 /\ r.dd = IF d.dd >= r.peak - r.cum THEN d.dd ELSE r.peak - r.cum
  <2> DEFINE p == ts[i].pnl
             c == d.cum + p
             k == LargerOf(d.peak, c)
             m == LargerOf(d.dd, k - c)
  <2>1. d.cum \in Int /\ d.peak \in Int /\ d.dd \in Int /\ p \in Int /\ c \in Int /\ v[i] = p
    BY PnlsAre DEF Equities
  <2>2. EquityStep(d, ts[i]) = [cum |-> c, peak |-> k, dd |-> m]
    BY DEF EquityStep
  <2> HIDE DEF c, p, v
  <2>3. k = (IF d.peak >= c THEN d.peak ELSE c) /\ k \in Int
    BY <2>1 DEF LargerOf
  <2> HIDE DEF k
  <2>4. m = (IF d.dd >= k - c THEN d.dd ELSE k - c) /\ m \in Int
    BY <2>1, <2>3 DEF LargerOf
  <2> HIDE DEF m
  <2>5. c = d.cum + v[i]
    BY <2>1 DEF c
  <2> QED BY <2>1, <2>2, <2>3, <2>4, <2>5 DEF Equities
<1>2. NoEquity \in Equities
  BY DEF NoEquity, Equities
<1>3. F \in [Equities \X (1..n) -> Equities]
      /\ \A d \in Equities, i \in 1..n : F[<<d, i>>] = EquityStep(d, ts[i])
  <2>1. \A d \in Equities, i \in 1..n : EquityStep(d, ts[i]) \in Equities
    BY <1>1
  <2> QED BY <2>1
<1>4. MaxDrawdown(ts) = h[1..n].dd
  <2>1. FoldLeft(EquityStep, NoEquity, ts) = h[1..n]
    BY DEF FoldLeft, MapThenFoldSet
  <2>2. MaxDrawdown(ts) = FoldLeft(EquityStep, NoEquity, ts).dd
    BY DEF MaxDrawdown, NoEquity
  <2> HIDE DEF h
  <2> QED BY <2>1, <2>2, Zenon
<1>5. PICK g \in [SUBSET (1..n) -> Equities] : FoldedIn(g, F, NoEquity, Equities, n)
  <2> HIDE DEF F
  <2> QED BY <1>2, <1>3, FoldedStep
<1> HIDE DEF F
<1>6. Body(g)
  <2>1. g = [s \in SUBSET (1..n) |-> g[s]]
    OBVIOUS
  <2>2. ASSUME NEW s \in SUBSET (1..n)
        PROVE  g[s] = IF s = {} THEN NoEquity ELSE EquityStep(g[s \ {Max(s)}], ts[Max(s)])
    BY <1>3, <1>5 DEF FoldedIn
  <2> QED BY <2>1, <2>2
<1>7. Body(h)
  <2> HIDE DEF Body
  <2> QED BY <1>6
<1>8. \A s \in SUBSET (1..n) : h[s] = IF s = {} THEN NoEquity ELSE EquityStep(h[s \ {Max(s)}], ts[Max(s)])
  <2> HIDE DEF h
  <2> QED BY <1>7
<1> HIDE DEF h
<1>9. FoldsFrom(h, F, NoEquity, Equities, n)
  <2>1. \A s \in SUBSET (1..n) : s # {} => Max(s) \in 1..n
    BY GreatestIn
  <2> QED BY <1>3, <1>8, <2>1 DEF FoldsFrom
<1>10. PICK P : StepPrefixes(P, F, NoEquity, Equities, n) /\ P[n] = h[1..n]
  <2>1. HasPrefixes(h, F, NoEquity, Equities, n)
    BY <1>2, <1>3, <1>9, FoldPrefix
  <2> QED BY <2>1 DEF HasPrefixes
<1>11. /\ P \in [0..n -> Equities] /\ P[0] = NoEquity
       /\ \A k \in 1..n : k - 1 \in 0..n /\ k \in 0..n /\ P[k] = EquityStep(P[k - 1], ts[k])
  <2>1. \A k \in 1..n : k - 1 \in 0..n /\ k \in 0..n
    OBVIOUS
  <2> QED BY <1>3, <1>10, <2>1 DEF StepPrefixes
<1> DEFINE C == [k \in 0..n |-> P[k].cum]
           K == [k \in 0..n |-> P[k].peak]
           M == [k \in 0..n |-> P[k].dd]
<1>12. C \in [0..n -> Int] /\ K \in [0..n -> Int] /\ M \in [0..n -> Int]
  <2>1. \A k \in 0..n : P[k].cum \in Int /\ P[k].peak \in Int /\ P[k].dd \in Int
    BY <1>11 DEF Equities
  <2> QED BY <2>1
<1>13. C[0] = 0 /\ K[0] = 0 /\ M[0] = 0 /\ M[n] = P[n].dd
  BY <1>11 DEF NoEquity
<1> HIDE DEF v
<1>14. ASSUME NEW k \in 1..n
       PROVE  /\ C[k] = C[k - 1] + v[k]
              /\ K[k] = (IF K[k - 1] >= C[k] THEN K[k - 1] ELSE C[k])
              /\ M[k] = (IF M[k - 1] >= K[k] - C[k] THEN M[k - 1] ELSE K[k] - C[k])
  <2> DEFINE d == P[k - 1]
             r == EquityStep(d, ts[k])
  <2>1. k - 1 \in 0..n /\ k \in 0..n /\ P[k] = r /\ d \in Equities
    BY <1>11
  <2>2. /\ C[k] = r.cum /\ K[k] = r.peak /\ M[k] = r.dd
        /\ C[k - 1] = d.cum /\ K[k - 1] = d.peak /\ M[k - 1] = d.dd
    BY <2>1
  <2>3. /\ r.cum = d.cum + v[k]
        /\ r.peak = IF d.peak >= r.cum THEN d.peak ELSE r.cum
        /\ r.dd = IF d.dd >= r.peak - r.cum THEN d.dd ELSE r.peak - r.cum
    BY <1>1, <2>1
  <2> HIDE DEF C, K, M, d, r
  <2> QED BY <2>2, <2>3
<1> HIDE DEF C, K, M
<1>15. Totals(C, 0, v, n) /\ Drawdowns(C, K, M, n)
  BY <1>12, <1>13, <1>14 DEF Totals, Drawdowns
<1>16. MaxDrawdown(ts) = Max(FallsOf(C, n))
  BY <1>4, <1>10, <1>13, <1>15, LargestFall
<1> QED BY <1>15, <1>16 DEF FallsWith, v

(* The sum of the first results.                                           *)
LEMMA RunningTotal ==
  ASSUME NEW T, \A x \in T : x.pnl \in Int, NEW ts \in Seq(T), NEW C, Totals(C, 0, Pnls(ts), Len(ts)),
         NEW i \in 0..Len(ts)
  PROVE  Sum(Pnls(SubSeq(ts, 1, i))) = C[i]
<1> DEFINE sub == SubSeq(ts, 1, i)
           n == Len(ts)
<1>1. n \in Nat /\ i \in Nat /\ i <= n /\ DOMAIN ts = 1..n /\ \A k \in 1..n : ts[k] \in T
  OBVIOUS
<1>2. DOMAIN sub = 1..i /\ \A k \in 1..i : sub[k] = ts[k]
  <2>1. sub = [k \in 1..i |-> ts[k]]
    BY <1>1 DEF SubSeq
  <2> QED BY <2>1
<1> HIDE DEF sub, n
<1>3. \A k \in 1..i : sub[k].pnl \in Int /\ k \in 1..n
  BY <1>1, <1>2
<1>4. Pnls(sub) \in [1..i -> Int] /\ \A k \in 1..i : Pnls(sub)[k] = sub[k].pnl
  BY <1>1, <1>2, <1>3, PnlsAre
<1>5. \A k \in 1..n : Pnls(ts)[k] = ts[k].pnl
  BY <1>1 DEF Pnls
<1>6. PICK P : Totals(P, 0, Pnls(sub), i) /\ Sum(Pnls(sub)) = P[i]
  BY <1>1, <1>4, SumIs DEF AddsUpTo
<1>7. \A k \in 1..i : Pnls(sub)[k] = Pnls(ts)[k]
  BY <1>2, <1>3, <1>4, <1>5
<1>8. \A k \in 0..i : P[k] = C[k]
  <2>1. Totals(C, 0, Pnls(ts), n)
    BY DEF n
  <2> QED BY <1>1, <1>6, <1>7, <2>1, TotalsAgree
<1>9. P[i] = C[i]
  BY <1>1, <1>8
<1> QED BY <1>6, <1>9 DEF sub

(* What the evaluation of the trades reports.                              *)
LEMMA TradesAddUp ==
  ASSUME NEW T, \A x \in T : x.pnl \in Int, NEW ts \in Seq(T), NEW length
  PROVE  LET cum(i) == Sum(Pnls(SubSeq(ts, 1, i)))
         IN  /\ Sum(Segments(length, ts)) = Sum(Pnls(ts))
             /\ MaxDrawdown(ts) = Max({cum(p[1]) - cum(p[2]) : p \in
                                         {q \in (0..Len(ts)) \X (0..Len(ts)) : q[1] <= q[2]}})
<1> DEFINE n == Len(ts)
           cum(i) == Sum(Pnls(SubSeq(ts, 1, i)))
           Pairs == {q \in (0..n) \X (0..n) : q[1] <= q[2]}
<1>1. n \in Nat /\ DOMAIN ts = 1..n /\ \A i \in 1..n : ts[i].pnl \in Int
  <2>1. n \in Nat /\ DOMAIN ts = 1..n /\ \A i \in 1..n : ts[i] \in T
    OBVIOUS
  <2> QED BY <2>1
<1> HIDE DEF n
<1>2. Sum(Segments(length, ts)) = Sum(Pnls(ts))
  BY <1>1, SegmentsAddUp
<1>3. PICK C : Totals(C, 0, Pnls(ts), n) /\ MaxDrawdown(ts) = Max(FallsOf(C, n))
  BY <1>1, MaxDrawdownIs DEF FallsWith
<1>4. \A i \in 0..n : cum(i) = C[i]
  BY <1>3, RunningTotal DEF n
<1> HIDE DEF cum
<1>5. {cum(p[1]) - cum(p[2]) : p \in Pairs} = FallsOf(C, n)
  <2>1. \A p \in Pairs : cum(p[1]) - cum(p[2]) = C[p[1]] - C[p[2]]
    BY <1>4
  <2>2. {cum(p[1]) - cum(p[2]) : p \in Pairs} = {C[p[1]] - C[p[2]] : p \in Pairs}
    <3> HIDE DEF Pairs
    <3> QED BY <2>1
  <2> QED BY <2>2 DEF FallsOf
<1>6. MaxDrawdown(ts) = Max({cum(p[1]) - cum(p[2]) : p \in Pairs})
  BY <1>3, <1>5, Zenon
<1> QED BY <1>2, <1>6 DEF n, cum

(* What has been evaluated are the trades and the positions of all bars.   *)
ReportInv ==
  phase = "ok" => /\ Len(positions) = Len(Eval) /\ Len(Eval) # 0
                  /\ metrics = Evaluate(trades, positions)

(* Nothing is evaluated when a command starts.                             *)
LEMMA ReportInvInit == Init => ReportInv
BY DEF Init, ReportInv

(* Every step keeps the invariant of the report.                           *)
LEMMA ReportInvStep == TradesInv /\ ReportInv /\ [Next]_vars => ReportInv'
<1> SUFFICES ASSUME TradesInv, ReportInv, [Next]_vars PROVE ReportInv'
  OBVIOUS
<1>1. ASSUME NEW time \in 0..MaxTime, NEW shape \in Shapes, LoadBar(time, shape)
      PROVE  ReportInv'
  <2>1. phase' = "load"
    BY <1>1 DEF LoadBar
  <2> QED BY <2>1 DEF ReportInv
<1>2. ASSUME NEW from, NEW to, NEW warmup, NewDataset(from, to, warmup)
      PROVE  ReportInv'
  <2>1. phase' \in {"rejected", "bars"}
    BY <1>2 DEF NewDataset
  <2> QED BY <2>1 DEF ReportInv
<1>3. ASSUME NEW call \in Calls, OnBar(call)
      PROVE  ReportInv'
  <2> DEFINE t == Len(positions) + 1
             ended == Verdict(call) = "ok" /\ t = Len(Eval)
  <2>1. /\ phase' = (IF Verdict(call) = "ok" /\ ~ended THEN "bars" ELSE Verdict(call))
        /\ metrics' = (IF ended THEN Evaluate(trades', positions') ELSE NoMetrics)
        /\ \E p : positions' = Append(positions, p)
        /\ UNCHANGED <<bars, offset>>
    BY <1>3 DEF OnBar
  <2>2. Eval' = Eval
    BY <2>1 DEF Eval
  <2>3. positions \in Seq({-1, 0, 1})
    BY DEF TradesInv, BookOk
  <2>4. Len(positions') = t /\ t # 0
    BY <2>1, <2>3
  <2>5. SUFFICES ASSUME phase' = "ok"
                 PROVE  Len(positions') = Len(Eval) /\ metrics' = Evaluate(trades, positions)'
    BY <2>2, <2>4 DEF ReportInv
  <2>6. ended
    BY <2>1, <2>5
  <2>7. metrics' = Evaluate(trades', positions')
    BY <2>1, <2>6
  <2>8. Evaluate(trades, positions)' = Evaluate(trades', positions')
    BY <2>2 DEF Evaluate
  <2> QED BY <2>4, <2>6, <2>7, <2>8
<1>4. CASE UNCHANGED vars
  <2>1. UNCHANGED <<phase, bars, offset, trades, positions, metrics>>
    BY <1>4 DEF vars, runVars
  <2>2. Eval' = Eval
    BY <2>1 DEF Eval
  <2>3. Evaluate(trades, positions)' = Evaluate(trades, positions)
    BY <2>1, <2>2 DEF Evaluate
  <2> QED BY <2>1, <2>2, <2>3 DEF ReportInv
<1> QED BY <1>1, <1>2, <1>3, <1>4 DEF Next

(* The report of an evaluated run adds up.                                 *)
LEMMA MetricsAre ==
  ASSUME TradesInv, ReportInv
  PROVE  MetricsAddUp
<1> SUFFICES ASSUME phase = "ok" PROVE MetricsAddUp
  BY DEF MetricsAddUp
<1> DEFINE e == Eval
           n == Len(e)
           th == metrics.theta
           bm == Benchmark(e, Theta)
           legs == BuildLegs(e, ExtractTurns(e, Theta))
           cum(i) == Sum(Pnls(SubSeq(trades, 1, i)))
           Falls == {cum(p[1]) - cum(p[2]) : p \in
                       {q \in (0..Len(trades)) \X (0..Len(trades)) : q[1] <= q[2]}}
<1>1. e \in Seq(MarketBars) /\ n \in Nat
  BY EvalIs DEF TradesInv, Eval
<1>2. Len(positions) = n /\ n # 0 /\ metrics = Evaluate(trades, positions)
  BY DEF ReportInv
<1>3. positions \in Seq({-1, 0, 1}) /\ trades \in Seq(ClosedBooks) /\ \A x \in ClosedBooks : x.pnl \in Int
  BY DEF TradesInv, BookOk, Book, Books, ClosedBooks
<1>4. /\ metrics.total = Sum(Pnls(trades)) /\ metrics.drawdown = MaxDrawdown(trades)
      /\ metrics.segments = Segments(n, trades) /\ th = ThetaMetrics(positions, bm)
  BY <1>2 DEF Evaluate
<1>5. bm.legs = legs /\ bm.labels = [t \in 1..n |-> Label(legs, t)]
  <2>1. DOMAIN e = 1..n
    BY <1>1
  <2> HIDE DEF e
  <2> QED BY <2>1 DEF Benchmark
<1> HIDE DEF e, n, bm, legs
<1>6. ChainOf(legs, n)
  BY <1>1, <1>2, EngineAssumption, LegsSwing DEF n, legs
<1>7. ThetaOk(th)
  <2>1. LabelledBy(bm, legs, n)
    BY <1>5 DEF LabelledBy
  <2> HIDE DEF th
  <2> QED BY <1>1, <1>2, <1>3, <1>4, <1>6, <2>1, ThetaAddsUp
<1>8. Sum(Segments(n, trades)) = Sum(Pnls(trades)) /\ MaxDrawdown(trades) = Max(Falls)
  BY <1>3, TradesAddUp
<1>9. Sum(metrics.segments) = metrics.total /\ metrics.drawdown = Max(Falls)
  BY <1>4, <1>8, Zenon
<1> QED BY <1>2, <1>7, <1>9, Zenon DEF MetricsAddUp, ThetaOk, e, n

(* The legs it is measured against are swings of the price.                *)
LEMMA LegsAreRight ==
  ASSUME TradesInv
  PROVE  LegsAreSwings
<1> SUFFICES ASSUME phase = "bars", positions = <<>> PROVE LegsAreSwings
  BY DEF LegsAreSwings
<1> DEFINE e == Eval
           n == Len(e)
           legs == BuildLegs(e, ExtractTurns(e, Theta))
<1>1. e \in Seq(MarketBars) /\ n \in Nat /\ n # 0
  <2>1. e \in Seq(MarketBars) /\ Len(positions) < n
    BY EvalIs DEF TradesInv, Eval
  <2> QED BY <2>1
<1>2. Benchmark(Eval, Theta).legs = legs
  BY DEF Benchmark
<1> HIDE DEF e, n, legs
<1>3. /\ ChainOf(legs, n)
      /\ \A i \in 1..Len(legs) : SwingOf(e, Theta, legs[i])
      /\ \A i \in 1..Len(legs) : i > 1 => legs[i - 1].direction = -legs[i].direction
  BY <1>1, EngineAssumption, LegsSwing DEF n, legs
<1>4. \A i \in DOMAIN legs :
        /\ i \in 1..Len(legs) /\ legs[i].a < legs[i].b /\ legs[i].b < n
        /\ i > 1 => legs[i - 1].b = legs[i].a
  BY <1>3 DEF ChainOf
<1>5. ASSUME NEW i \in DOMAIN legs
      PROVE  LET leg == legs[i]
                 level(l, t) == l.direction * Mid2(Eval[t].close)
             IN  /\ leg.a < leg.b /\ leg.b < Len(Eval)
                 /\ level(leg, leg.b) - level(leg, leg.a) >= Theta
                 /\ \A t \in leg.a .. leg.b - 1 : level(leg, t) < level(leg, leg.b)
                 /\ \A t \in leg.a + 1 .. leg.b : level(leg, t) >= level(leg, leg.a)
                 /\ \A s, t \in leg.a .. leg.b : s < t => level(leg, s) - level(leg, t) < Theta
                 /\ i > 1 => legs[i - 1].b = leg.a /\ legs[i - 1].direction = -leg.direction
  BY <1>3, <1>4, Zenon DEF SwingOf, LevelOf, e, n
<1> QED BY <1>2, <1>5, Zenon DEF LegsAreSwings

(* What a run reports is what its bars and trades say.                     *)
THEOREM ReportCorrect == Spec => []ReportAddsUp
<1>1. Init => TradesInv /\ ReportInv
  BY TradesInvInit, ReportInvInit
<1>2. TradesInv /\ ReportInv /\ [Next]_vars => (TradesInv /\ ReportInv)'
  BY TradesInvStep, ReportInvStep
<1>3. TradesInv /\ ReportInv => ReportAddsUp
  BY MetricsAre, LegsAreRight DEF ReportAddsUp
<1> QED BY <1>1, <1>2, <1>3, PTL DEF Spec

-----------------------------------------------------------------------------
(* What a script reads (SimSeries).                                        *)

(* A set of indices has a greatest one, also when 0 is added.              *)
LEMMA GreatestOrNone ==
  ASSUME NEW n \in Nat, NEW S, S \subseteq 1..n
  PROVE  \E m \in 0..n : /\ Max({0} \cup S) = m /\ (m # 0 => m \in S)
                         /\ \A x \in 1..n : x > m => x \notin S
<1> DEFINE B == {m \in Nat : \A x \in 1..n : x > m => x \notin S}
<1>1. PICK m \in B : \A k \in Nat : k < m => k \notin B
  <2>1. B \in SUBSET Nat /\ n \in B
    OBVIOUS
  <2> HIDE DEF B
  <2> QED BY <2>1, LeastOne
<1>2. m \in Nat /\ \A x \in 1..n : x > m => x \notin S
  OBVIOUS
<1>3. m # 0 => m \in S
  <2> SUFFICES ASSUME m # 0 PROVE m \in S
    OBVIOUS
  <2>1. m - 1 \in Nat /\ m - 1 < m
    BY <1>2
  <2>2. PICK x \in 1..n : x > m - 1 /\ x \in S
    BY <1>1, <2>1
  <2>3. x = m
    BY <1>2, <2>2
  <2> QED BY <2>2, <2>3
<1> HIDE DEF B
<1> DEFINE T == {0} \cup S
<1>4. T \subseteq Int /\ m \in T /\ \A y \in T : y <= m
  BY <1>2, <1>3
<1>5. Max(T) = m
  <2> HIDE DEF T
  <2> QED BY <1>4, GreatestOf
<1>6. m \in 0..n
  BY <1>2, <1>3
<1> QED BY <1>2, <1>3, <1>5, <1>6

(* What a deque keeps: bars of the window, each higher than the next, so   *)
(* that no bar of the window is higher than all of them.                   *)
DequeOk(v, p, i, dq) ==
  /\ dq \in Seq(1..i)
  /\ \A x, y \in DOMAIN dq : x < y => dq[x] < dq[y] /\ v[dq[y]] < v[dq[x]]
  /\ \A x \in DOMAIN dq : dq[x] + p > i
  /\ \A j \in 1..i : j + p > i => \E x \in DOMAIN dq : j <= dq[x] /\ v[j] <= v[dq[x]]

(* A push keeps the first K bars of a deque, adds bar i, and lets go of    *)
(* the first f - 1 of the list.                                            *)
PushedAs(dq, i, p, beaten, m, K, f, list, new) ==
  /\ K \in 0..Len(dq) /\ f \in 1 .. K + 1 /\ (K # 0 => dq[K] \notin beaten)
  /\ \A x \in 1..Len(dq) : x > K => dq[x] \in beaten
  /\ \A x \in 1..K : list[x] = dq[x]
  /\ list[K + 1] = i /\ list[f] + p > i
  /\ \A x \in 1 .. K + 1 : list[x] \in 1..m /\ (list[x] + p > i => f <= x)
  /\ new \in Seq(1..m) /\ Len(new) = K + 1 - f + 1
  /\ \A y \in 1 .. K + 1 - f + 1 : y + f - 1 \in 1 .. K + 1 /\ new[y] = list[y + f - 1]
PushedTo(dq, i, p, beaten, m, new) ==
  \E K, f, list : PushedAs(dq, i, p, beaten, m, K, f, list, new)

(* What push does to a deque of bars.                                      *)
LEMMA PushIs ==
  ASSUME NEW m \in Nat, NEW p \in Nat \ {0}, NEW i \in 1..m, NEW dq \in Seq(1..m), NEW beaten
  PROVE  PushedTo(dq, i, p, beaten, m, Push(dq, i, p, beaten))
<1> DEFINE L == Len(dq)
           U == {k \in DOMAIN dq : dq[k] \notin beaten}
<1>1. L \in Nat /\ DOMAIN dq = 1..L /\ \A x \in 1..L : dq[x] \in 1..m
  <2>1. L \in Nat /\ DOMAIN dq = 1..L
    OBVIOUS
  <2> QED BY <2>1, ElementOfSeq
<1>2. PICK K \in 0..L : /\ Max({0} \cup U) = K /\ (K # 0 => K \in U)
                        /\ \A x \in 1..L : x > K => x \notin U
  <2>1. U \subseteq 1..L
    BY <1>1
  <2> HIDE DEF U, L
  <2> QED BY <1>1, <2>1, GreatestOrNone
<1>3. (K # 0 => dq[K] \notin beaten) /\ \A x \in 1..L : x > K => dq[x] \in beaten
  BY <1>1, <1>2
<1> DEFINE kept == SubSeq(dq, 1, K)
           pushed == Append(kept, i)
           E == {k \in DOMAIN pushed : ~Expired(pushed[k], p, i)}
           r == SubSeq(pushed, Min(E), Len(pushed))
<1>4. kept \in Seq(1..m) /\ Len(kept) = K /\ \A x \in 1..K : kept[x] = dq[x]
  <2>1. \A x \in 1..K : dq[x] \in 1..m
    BY <1>1
  <2>2. K \in Int /\ 1 \in Int /\ (IF 1 <= K THEN K - 1 + 1 ELSE 0) = K /\ K - 1 + 1 = K
        /\ \A x \in 1..K : 1 + x - 1 = x
    BY <1>1
  <2>3. /\ kept \in Seq(1..m) /\ Len(kept) = (IF 1 <= K THEN K - 1 + 1 ELSE 0)
        /\ \A x \in 1 .. K - 1 + 1 : kept[x] = dq[1 + x - 1]
    BY <2>1, <2>2, SubSeqProperties
  <2> QED BY <2>2, <2>3
<1> DEFINE M == K + 1
<1>5. /\ pushed \in Seq(1..m) /\ Len(pushed) = M /\ pushed[M] = i /\ M \in Nat /\ DOMAIN pushed = 1..M
      /\ \A x \in 1..K : pushed[x] = dq[x]
  <2> HIDE DEF kept
  <2>1. /\ pushed \in Seq(1..m) /\ Len(pushed) = K + 1 /\ pushed[K + 1] = i
        /\ \A x \in 1..K : pushed[x] = kept[x]
    BY <1>4, AppendProperties
  <2> QED BY <1>4, <2>1
<1>6. Push(dq, i, p, beaten) = r
  <2>1. kept = SubSeq(dq, 1, Max({0} \cup {k \in DOMAIN dq : dq[k] \notin beaten}))
    BY <1>2
  <2> QED BY <2>1 DEF Push
<1> HIDE DEF kept, pushed
<1>7. M \in Nat \ {0} /\ M = K + 1
  BY <1>1
<1> HIDE DEF M
<1>8. \A x \in 1..M : pushed[x] \in 1..m
  BY <1>5, ElementOfSeq
<1>9. PICK f \in 1..M : /\ Min(E) = f /\ pushed[f] + p > i
                        /\ \A x \in 1..M : pushed[x] + p > i => f <= x
  <2>1. E \subseteq 1..M /\ M \in E /\ \A x \in 1..M : x \in E <=> pushed[x] + p > i
    <3>1. \A x \in 1..M : Expired(pushed[x], p, i) <=> ~(pushed[x] + p > i)
      BY <1>8 DEF Expired
    <3>2. M \in 1..M /\ pushed[M] + p > i
      BY <1>5, <1>7
    <3>3. \A x : x \in E <=> x \in 1..M /\ ~Expired(pushed[x], p, i)
      BY <1>5
    <3> HIDE DEF E
    <3> QED BY <3>1, <3>2, <3>3
  <2> HIDE DEF E
  <2>2. E \in SUBSET Nat
    BY <2>1
  <2>3. PICK f \in E : \A k \in Nat : k < f => k \notin E
    BY <2>1, <2>2, LeastOne
  <2>4. E \subseteq Int /\ \A y \in E : f <= y
    BY <2>2, <2>3
  <2>5. Min(E) = f
    BY <2>3, <2>4, LeastOf
  <2> QED BY <2>1, <2>3, <2>4, <2>5
<1> HIDE DEF E
<1> DEFINE N == M - f + 1
<1>10. /\ r \in Seq(1..m) /\ Len(r) = N
       /\ \A y \in 1..N : y + f - 1 \in 1..M /\ r[y] = pushed[y + f - 1]
  <2>1. r = SubSeq(pushed, f, M)
    BY <1>5, <1>9
  <2>2. f \in Int /\ M \in Int /\ f <= M /\ N \in Nat
    BY <1>5
  <2>3. \A x \in f .. M : pushed[x] \in 1..m
    BY <1>8
  <2>4. /\ r \in Seq(1..m) /\ Len(r) = (IF f <= M THEN M - f + 1 ELSE 0)
        /\ \A y \in 1 .. M - f + 1 : r[y] = pushed[f + y - 1]
    <3> HIDE DEF r
    <3> QED BY <2>1, <2>2, <2>3, SubSeqProperties
  <2>5. \A y \in 1..N : f + y - 1 = y + f - 1 /\ y + f - 1 \in 1..M
    BY <1>5
  <2> HIDE DEF r
  <2> QED BY <2>2, <2>4, <2>5
<1>11. \A x \in 1..K : pushed[x] = dq[x]
  BY <1>5
<1> HIDE DEF r, N
<1>12. PushedAs(dq, i, p, beaten, m, K, f, pushed, r)
  <2>1. M = K + 1 /\ N = M - f + 1
    BY <1>7 DEF N
  <2>2. /\ pushed[K + 1] = i /\ f \in 1 .. K + 1
        /\ \A x \in 1 .. K + 1 : pushed[x] \in 1..m /\ (pushed[x] + p > i => f <= x)
    BY <1>5, <1>8, <1>9, <2>1
  <2>3. /\ r \in Seq(1..m) /\ Len(r) = K + 1 - f + 1
        /\ \A y \in 1 .. K + 1 - f + 1 : y + f - 1 \in 1 .. K + 1 /\ r[y] = pushed[y + f - 1]
    BY <1>10, <2>1
  <2> QED BY <1>3, <1>9, <1>11, <2>2, <2>3 DEF PushedAs
<1> QED BY <1>6, <1>12 DEF PushedTo

(* A push leaves a deque with at least its bar.                            *)
LEMMA PushType ==
  ASSUME NEW m \in Nat, NEW p \in Nat \ {0}, NEW i \in 1..m, NEW dq \in Seq(1..m), NEW beaten
  PROVE  /\ Push(dq, i, p, beaten) \in Seq(1..m) /\ Push(dq, i, p, beaten) # <<>>
         /\ Head(Push(dq, i, p, beaten)) \in 1..m
<1> DEFINE r == Push(dq, i, p, beaten)
<1>1. PICK K, f, list : PushedAs(dq, i, p, beaten, m, K, f, list, r)
  BY PushIs DEF PushedTo
<1> HIDE DEF r
<1>2. r \in Seq(1..m) /\ K \in Nat /\ f \in 1 .. K + 1 /\ Len(r) = K + 1 - f + 1
  BY <1>1 DEF PushedAs
<1>3. Len(r) # 0
  BY <1>2
<1>4. r # <<>>
  BY <1>3
<1>5. Head(r) \in 1..m
  BY <1>2, <1>4, HeadTailProperties
<1> QED BY <1>2, <1>4, <1>5 DEF r

Beats(v, n, i, beaten) == \A j \in 1..n : j \in beaten <=> v[j] <= v[i]

(* A push leaves the deque right for the window that ends at i.            *)
LEMMA PushKeeps ==
  ASSUME NEW n \in Nat, NEW v \in [1..n -> Int], NEW p \in Nat \ {0}, NEW i \in 1..n,
         NEW dq, DequeOk(v, p, i - 1, dq), NEW beaten, Beats(v, n, i, beaten)
  PROVE  DequeOk(v, p, i, Push(dq, i, p, beaten))
<1> DEFINE L == Len(dq)
           new == Push(dq, i, p, beaten)
<1>1. /\ L \in Nat /\ DOMAIN dq = 1..L /\ dq \in Seq(1..i)
      /\ \A x \in 1..L : dq[x] \in 1 .. i - 1 /\ dq[x] \in 1..n /\ v[dq[x]] \in Int /\ v[i] \in Int
  <2>1. dq \in Seq(1 .. i - 1) /\ L \in Nat /\ DOMAIN dq = 1..L
    BY DEF DequeOk
  <2>2. \A x \in 1..L : dq[x] \in 1 .. i - 1
    BY <2>1, ElementOfSeq
  <2>3. \A x \in 1..L : dq[x] \in 1..n /\ dq[x] \in 1..i
    BY <2>2
  <2>4. dq \in [1..L -> 1..i]
    BY <2>1, <2>3, LenProperties
  <2>5. dq \in Seq(1..i)
    <3> DEFINE S == 1..i
    <3>1. L \in Nat /\ dq \in [1..L -> S]
      BY <2>1, <2>4
    <3> HIDE DEF L, S
    <3>2. dq \in Seq(S)
      BY <3>1, FunctionSequence
    <3> QED BY <3>2 DEF S
  <2> QED BY <2>1, <2>2, <2>3, <2>5
<1>2. PICK K, f, pushed : PushedAs(dq, i, p, beaten, i, K, f, pushed, new)
  <2>1. i \in 1..i /\ i \in Nat
    OBVIOUS
  <2>2. PushedTo(dq, i, p, beaten, i, new)
    BY <1>1, <2>1, PushIs
  <2> QED BY <2>2 DEF PushedTo
<1> HIDE DEF new
<1> DEFINE M == K + 1
           N == M - f + 1
<1>22. K \in 0..L /\ f \in 1..M /\ (K # 0 => dq[K] \notin beaten)
  BY <1>2 DEF PushedAs
<1>3. \A x \in 1..L : x > K => v[dq[x]] <= v[i]
  BY <1>1, <1>2 DEF PushedAs, Beats
<1>4. \A x \in 1..K : x \in 1..L /\ v[i] < v[dq[x]]
  <2> TAKE x \in 1..K
  <2>1. K # 0 /\ K \in 1..L /\ x \in 1..L
    BY <1>1, <1>22
  <2>2. dq[K] \notin beaten
    BY <1>22, <2>1
  <2>3. v[i] < v[dq[K]]
    BY <1>1, <2>1, <2>2 DEF Beats
  <2>4. x < K => v[dq[K]] < v[dq[x]]
    BY <1>1, <2>1 DEF DequeOk
  <2>5. v[i] \in Int /\ v[dq[K]] \in Int /\ v[dq[x]] \in Int
    BY <1>1, <2>1
  <2>6. x = K \/ x < K
    BY <1>22
  <2>7. v[i] < v[dq[x]]
    BY <2>3, <2>4, <2>5, <2>6
  <2> QED BY <2>1, <2>7
<1>19. M \in Nat \ {0} /\ M = K + 1 /\ f \in 1..M /\ K \in Nat
  BY <1>1, <1>22
<1>21. N = M - f + 1 /\ f \in Nat /\ 1 <= f /\ f <= M
  BY <1>1, <1>22
<1>20. \A x \in 1..M : pushed[x] \in 1..i /\ pushed[x] \in 1..n
  <2>1. \A x \in 1..M : pushed[x] \in 1..i
    BY <1>2 DEF PushedAs
  <2> QED BY <2>1
<1>6. pushed[M] = i /\ \A x \in 1..K : pushed[x] = dq[x]
  BY <1>2 DEF PushedAs
<1>8. pushed[f] + p > i /\ \A x \in 1..M : pushed[x] + p > i => f <= x
  BY <1>2 DEF PushedAs
<1>9. /\ new \in Seq(1..i) /\ Len(new) = N /\ N \in Nat /\ DOMAIN new = 1..N
      /\ \A y \in 1..N : y + f - 1 \in 1..M /\ new[y] = pushed[y + f - 1]
  <2>1. /\ new \in Seq(1..i) /\ Len(new) = N
        /\ \A y \in 1..N : y + f - 1 \in 1..M /\ new[y] = pushed[y + f - 1]
    BY <1>2 DEF PushedAs
  <2> QED BY <2>1, LenProperties
<1> HIDE DEF M, N
<1>10. /\ \A x \in 1..K : x \in 1..L /\ x \in 1..M /\ x # M /\ pushed[x] = dq[x]
       /\ \A x \in 1..M : pushed[x] \in 1..n /\ (x = M \/ x \in 1..K)
       /\ pushed[M] = i /\ M \in 1..M
  <2>1. \A x \in 1..M : x = M \/ x \in 1..K
    BY <1>1, <1>19, <1>22
  <2>2. \A x \in 1..K : x \in 1..L /\ x \in 1..M /\ x # M
    BY <1>1, <1>19, <1>22
  <2>3. M \in 1..M
    BY <1>19
  <2> QED BY <1>6, <1>20, <2>1, <2>2, <2>3
<1>11. \A x, y \in 1..M : x < y => pushed[x] < pushed[y] /\ v[pushed[y]] < v[pushed[x]]
  <2> SUFFICES ASSUME NEW x \in 1..M, NEW y \in 1..M, x < y
               PROVE  pushed[x] < pushed[y] /\ v[pushed[y]] < v[pushed[x]]
    OBVIOUS
  <2>1. x \in 1..K
    BY <1>19
  <2>2. CASE y = M
    <3>1. pushed[x] = dq[x] /\ x \in 1..L /\ pushed[y] = i
      BY <1>10, <2>1, <2>2
    <3>2. v[i] < v[dq[x]] /\ dq[x] \in 1 .. i - 1
      BY <1>1, <1>4, <2>1, <3>1
    <3>3. dq[x] < i
      BY <3>2
    <3> QED BY <3>1, <3>2, <3>3
  <2>3. CASE y \in 1..K
    <3>1. dq[x] < dq[y] /\ v[dq[y]] < v[dq[x]]
      BY <1>1, <1>10, <2>1, <2>3 DEF DequeOk
    <3> QED BY <1>10, <2>1, <2>3, <3>1
  <2> QED BY <1>10, <2>2, <2>3
<1>12. \A x, y \in 1..N : x < y => new[x] < new[y] /\ v[new[y]] < v[new[x]]
  <2> SUFFICES ASSUME NEW x \in 1..N, NEW y \in 1..N, x < y
               PROVE  new[x] < new[y] /\ v[new[y]] < v[new[x]]
    OBVIOUS
  <2>1. x + f - 1 < y + f - 1
    BY <1>21
  <2> QED BY <1>9, <1>11, <2>1
<1>13. \A x \in 1..M : x >= f => pushed[x] + p > i
  <2> TAKE x \in 1..M
  <2>1. f < x => pushed[f] < pushed[x]
    BY <1>11, <1>19
  <2>2. pushed[x] \in Int /\ pushed[f] \in Int /\ (x >= f => f = x \/ f < x)
    BY <1>10, <1>19
  <2> QED BY <1>8, <2>1, <2>2
<1>14. \A x \in 1..N : new[x] + p > i
  <2> TAKE x \in 1..N
  <2>1. x + f - 1 >= f
    BY <1>21
  <2> QED BY <1>9, <1>13, <2>1
<1>15. \A x \in 1..M : pushed[x] + p > i => \E y \in 1..N : new[y] = pushed[x]
  <2> SUFFICES ASSUME NEW x \in 1..M, pushed[x] + p > i
               PROVE  \E y \in 1..N : new[y] = pushed[x]
    OBVIOUS
  <2>1. f <= x
    BY <1>8
  <2>3. x \in Int /\ x <= M /\ M \in Int /\ f \in Int
    BY <1>19
  <2> DEFINE y == x - f + 1
  <2>4. y \in Int /\ 1 <= y /\ y <= M - f + 1 /\ y + f - 1 = x
    BY <2>1, <2>3
  <2> HIDE DEF y
  <2>2. y \in 1..N /\ y + f - 1 = x
    BY <1>9, <1>21, <2>4
  <2> QED BY <1>9, <2>2
<1>16. ASSUME NEW j \in 1..i, j + p > i
       PROVE  \E x \in 1..M : j <= pushed[x] /\ v[j] <= v[pushed[x]]
  <2>1. CASE j = i
    BY <1>1, <1>10, <2>1
  <2>2. CASE j # i
    <3>1. j \in 1 .. i - 1 /\ j + p > i - 1 /\ j \in 1..n
      BY <1>16, <2>2
    <3>2. PICK x \in 1..L : j <= dq[x] /\ v[j] <= v[dq[x]]
      BY <1>1, <3>1 DEF DequeOk
    <3>3. CASE x \in 1..K
      BY <1>10, <3>2, <3>3
    <3>4. CASE x \notin 1..K
      <4>1. v[dq[x]] <= v[i]
        BY <1>3, <1>19, <3>4
      <4>2. v[j] \in Int /\ v[dq[x]] \in Int /\ v[i] \in Int
        BY <1>1, <3>1
      <4>3. v[j] <= v[i]
        BY <3>2, <4>1, <4>2
      <4> QED BY <1>10, <4>3
    <3> QED BY <3>3, <3>4
  <2> QED BY <2>1, <2>2
<1>17. ASSUME NEW j \in 1..i, j + p > i
       PROVE  \E y \in 1..N : j <= new[y] /\ v[j] <= v[new[y]]
  <2>1. PICK x \in 1..M : j <= pushed[x] /\ v[j] <= v[pushed[x]]
    BY <1>16, <1>17
  <2>2. pushed[x] + p > i
    BY <1>10, <1>17, <2>1
  <2> QED BY <1>15, <2>1, <2>2
<1>18. DequeOk(v, p, i, new)
  BY <1>9, <1>12, <1>14, <1>17 DEF DequeOk
<1> QED BY <1>18 DEF new

(* The bars of a series, and one that stands for the bars w[1..k] that end *)
(* when it does.                                                           *)
SeriesBars == [open : Int, high : Int, low : Int, close : Int, end : Nat]
GroupOk(w, k, g) ==
  /\ \E i \in 1..k : /\ w[i].end = g.end /\ w[i].open = g.open
                      /\ \A j \in 1..k : w[j].end = g.end => i <= j
  /\ \E i \in 1..k : /\ w[i].end = g.end /\ w[i].close = g.close
                      /\ \A j \in 1..k : w[j].end = g.end => j <= i
  /\ \E i \in 1..k : w[i].end = g.end /\ w[i].high = g.high
  /\ \E i \in 1..k : w[i].end = g.end /\ w[i].low = g.low
  /\ \A j \in 1..k : w[j].end = g.end => w[j].high <= g.high /\ g.low <= w[j].low

(* A bar of another bucket does not change it, one of the same is merged.  *)
LEMMA GroupKept ==
  ASSUME NEW k \in Nat, NEW w, NEW g, GroupOk(w, k, g), w[k + 1].end # g.end
  PROVE  GroupOk(w, k + 1, g)
<1>1. \A j \in 1 .. k + 1 : w[j].end = g.end => j \in 1..k
  <2> TAKE j \in 1 .. k + 1
  <2>1. j = k + 1 \/ j \in 1..k
    OBVIOUS
  <2> QED BY <2>1
<1>2. \A j \in 1..k : j \in 1 .. k + 1
  OBVIOUS
<1>3. \E i \in 1 .. k + 1 : /\ w[i].end = g.end /\ w[i].open = g.open
                            /\ \A j \in 1 .. k + 1 : w[j].end = g.end => i <= j
  BY <1>1, <1>2 DEF GroupOk
<1>4. \E i \in 1 .. k + 1 : /\ w[i].end = g.end /\ w[i].close = g.close
                            /\ \A j \in 1 .. k + 1 : w[j].end = g.end => j <= i
  BY <1>1, <1>2 DEF GroupOk
<1>5. \E i \in 1 .. k + 1 : w[i].end = g.end /\ w[i].high = g.high
  BY <1>2 DEF GroupOk
<1>6. \E i \in 1 .. k + 1 : w[i].end = g.end /\ w[i].low = g.low
  BY <1>2 DEF GroupOk
<1>7. \A j \in 1 .. k + 1 : w[j].end = g.end => w[j].high <= g.high /\ g.low <= w[j].low
  BY <1>1 DEF GroupOk
<1> QED BY <1>3, <1>4, <1>5, <1>6, <1>7 DEF GroupOk

(* A bar of the same bucket is merged into the last bar of the series.     *)
LEMMA GroupMerged ==
  ASSUME NEW k \in Nat, NEW w, \A j \in 1 .. k + 1 : w[j] \in SeriesBars,
         NEW g \in SeriesBars, GroupOk(w, k, g), w[k + 1].end = g.end
  PROVE  /\ Merged(g, w[k + 1]) \in SeriesBars /\ Merged(g, w[k + 1]).end = g.end
         /\ GroupOk(w, k + 1, Merged(g, w[k + 1]))
<1> DEFINE n == k + 1
           a == w[n]
           high == LargerOf(a.high, g.high)
           low == SmallerOf(a.low, g.low)
           r == Merged(g, a)
<1>1. n \in 1..n /\ \A j \in 1..n : j = n \/ j \in 1..k
  OBVIOUS
<1>2. /\ a \in SeriesBars /\ a.high \in Int /\ a.low \in Int /\ g.high \in Int /\ g.low \in Int
      /\ a.close \in Int /\ g.open \in Int /\ g.end \in Nat /\ a.end = g.end
  BY <1>1 DEF SeriesBars
<1>3. r = [open |-> g.open, high |-> high, low |-> low, close |-> a.close, end |-> g.end]
  BY DEF Merged
<1> HIDE DEF a
<1>4. /\ high \in Int /\ a.high <= high /\ g.high <= high /\ high \in {a.high, g.high}
      /\ low \in Int /\ low <= a.low /\ low <= g.low /\ low \in {a.low, g.low}
  BY <1>2 DEF LargerOf, SmallerOf
<1> HIDE DEF high, low, r
<1>5. r \in SeriesBars /\ r.open = g.open /\ r.high = high /\ r.low = low /\ r.close = a.close /\ r.end = g.end
  BY <1>2, <1>3, <1>4 DEF SeriesBars
<1>6. \A j \in 1..k : j \in 1..n /\ j <= n /\ j # n
  OBVIOUS
<1>7. \A j \in 1..k : w[j].high \in Int /\ w[j].low \in Int
  BY <1>6 DEF SeriesBars
<1>8. w[n] = a
  BY DEF a
<1> HIDE DEF n
<1>9. \E i \in 1..n : /\ w[i].end = r.end /\ w[i].open = r.open
                      /\ \A j \in 1..n : w[j].end = r.end => i <= j
  <2>1. PICK i \in 1..k : /\ w[i].end = g.end /\ w[i].open = g.open
                          /\ \A j \in 1..k : w[j].end = g.end => i <= j
    BY DEF GroupOk
  <2> QED BY <1>1, <1>5, <1>6, <2>1
<1>10. \E i \in 1..n : /\ w[i].end = r.end /\ w[i].close = r.close
                       /\ \A j \in 1..n : w[j].end = r.end => j <= i
  BY <1>1, <1>2, <1>5, <1>6, <1>8
<1>11. \E i \in 1..n : w[i].end = r.end /\ w[i].high = r.high
  <2>1. PICK i \in 1..k : w[i].end = g.end /\ w[i].high = g.high
    BY DEF GroupOk
  <2> QED BY <1>1, <1>2, <1>4, <1>5, <1>6, <1>8, <2>1
<1>12. \E i \in 1..n : w[i].end = r.end /\ w[i].low = r.low
  <2>1. PICK i \in 1..k : w[i].end = g.end /\ w[i].low = g.low
    BY DEF GroupOk
  <2> QED BY <1>1, <1>2, <1>4, <1>5, <1>6, <1>8, <2>1
<1>13. ASSUME NEW j \in 1..n, w[j].end = r.end
       PROVE  w[j].high <= r.high /\ r.low <= w[j].low
  <2>1. CASE j = n
    BY <1>4, <1>5, <1>8, <2>1
  <2>2. CASE j \in 1..k
    <3>1. w[j].high <= g.high /\ g.low <= w[j].low
      BY <1>5, <1>13, <2>2 DEF GroupOk
    <3> QED BY <1>2, <1>4, <1>5, <1>7, <2>2, <3>1
  <2> QED BY <1>1, <2>1, <2>2
<1>14. GroupOk(w, n, r)
  BY <1>9, <1>10, <1>11, <1>12, <1>13 DEF GroupOk
<1> QED BY <1>5, <1>14 DEF n, r, a

(* The first bar of a bucket stands for itself.                            *)
LEMMA GroupStarts ==
  ASSUME NEW k \in Nat, NEW w, w[k + 1] \in SeriesBars, \A j \in 1..k : w[j].end # w[k + 1].end
  PROVE  GroupOk(w, k + 1, w[k + 1])
<1>1. k + 1 \in 1 .. k + 1 /\ \A j \in 1 .. k + 1 : w[j].end = w[k + 1].end => j = k + 1
  <2>1. \A j \in 1 .. k + 1 : j = k + 1 \/ j \in 1..k
    OBVIOUS
  <2> QED BY <2>1
<1> DEFINE n == k + 1
           a == w[n]
<1>2. n \in Nat /\ n \in 1..n /\ a = w[n] /\ \A j \in 1..n : w[j].end = a.end => j = n
  BY <1>1
<1>3. a.high \in Int /\ a.low \in Int
  BY DEF SeriesBars
<1> HIDE DEF n, a
<1>4. GroupOk(w, n, a)
  BY <1>2, <1>3 DEF GroupOk
<1> QED BY <1>4 DEF n, a

(* A series stands for the bars w[1..k].                                   *)
SeriesOk(w, k, s) ==
  /\ s \in Seq(SeriesBars)
  /\ \A x, y \in DOMAIN s : x < y => s[x].end < s[y].end
  /\ IF k = 0 THEN s = <<>> ELSE s # <<>> /\ s[Len(s)].end = w[k].end
  /\ \A j \in 1..k : \E x \in DOMAIN s : s[x].end = w[j].end
  /\ \A x \in DOMAIN s : GroupOk(w, k, s[x])

(* The first bar of a new bucket is appended.                              *)
LEMMA SeriesGrows ==
  ASSUME NEW n \in Nat, NEW w \in [1..n -> SeriesBars],
         \A i, j \in 1..n : i <= j => w[i].end <= w[j].end,
         NEW k \in Nat, k + 1 \in 1..n, NEW s, SeriesOk(w, k, s),
         s = <<>> \/ Last(s).end # w[k + 1].end
  PROVE  SeriesOk(w, k + 1, Append(s, w[k + 1]))
<1> DEFINE m == k + 1
           a == w[m]
           L == Len(s)
           r == Append(s, a)
<1>1. m \in 1..n /\ a \in SeriesBars /\ a.end \in Nat /\ m # 0
  BY DEF SeriesBars
<1>2. \A j \in 1..k : j \in 1..n /\ j \in 1..m /\ w[j].end \in Nat /\ w[j].end <= a.end
  <2>1. \A j \in 1..k : j \in 1..n /\ j \in 1..m /\ j <= m
    BY <1>1
  <2> QED BY <1>1, <2>1 DEF SeriesBars
<1>3. L \in Nat /\ DOMAIN s = 1..L /\ s \in Seq(SeriesBars) /\ (s # <<>> => L # 0) /\ L = Len(s)
  BY DEF SeriesOk
<1> HIDE DEF L
<1>4. \A x \in 1..L : s[x].end \in Nat /\ s[x].end < a.end
  <2> TAKE x \in 1..L
  <2>1. \A y \in 1..L : s[y] \in SeriesBars /\ s[y].end \in Nat
    <3>1. \A y \in 1..L : s[y] \in SeriesBars
      BY <1>3, ElementOfSeq
    <3> QED BY <3>1 DEF SeriesBars
  <2>2. s # <<>> /\ L \in 1..L
    <3>1. 1 <= x /\ x <= L
      BY <1>3
    <3>2. L # 0 /\ L \in 1..L
      BY <1>3, <3>1
    <3>3. Len(<<>>) = 0
      OBVIOUS
    <3> QED BY <1>3, <3>2, <3>3
  <2>3. k # 0 /\ k \in 1..k /\ s[L].end = w[k].end
    BY <1>3, <2>2 DEF SeriesOk
  <2>4. s[L].end # a.end
    BY <1>3, <2>2 DEF Last
  <2>5. w[k].end \in Nat /\ w[k].end <= a.end
    BY <1>2, <2>3
  <2>6. s[L].end < a.end
    BY <1>1, <2>3, <2>4, <2>5
  <2>7. x = L \/ s[x].end < s[L].end
    <3>3. L \in Nat
      BY <1>3, Zenon
    <3>1. x = L \/ x < L
      BY <3>3
    <3>2. x \in DOMAIN s /\ L \in DOMAIN s
      BY <1>3, <2>2, Zenon
    <3> QED BY <3>1, <3>2 DEF SeriesOk
  <2> QED BY <1>1, <2>1, <2>2, <2>6, <2>7
<1>5. \A j \in 1..k : w[j].end # a.end
  <2> TAKE j \in 1..k
  <2>1. PICK x \in 1..L : s[x].end = w[j].end
    BY <1>3 DEF SeriesOk
  <2> QED BY <1>1, <1>4, <2>1
<1>6. /\ r \in Seq(SeriesBars) /\ Len(r) = L + 1 /\ r[L + 1] = a /\ r # <<>>
      /\ DOMAIN r = 1 .. L + 1 /\ \A x \in 1..L : r[x] = s[x]
  <2> HIDE DEF a
  <2>1. /\ r \in Seq(SeriesBars) /\ Len(r) = L + 1 /\ r[L + 1] = a /\ r # <<>>
        /\ \A x \in 1..L : r[x] = s[x]
    BY <1>1, <1>3, AppendProperties
  <2>2. DOMAIN r = 1..Len(r)
    BY <2>1, LenProperties
  <2> QED BY <2>1, <2>2
<1>7. GroupOk(w, m, a)
  BY <1>1, <1>5, GroupStarts
<1>8. \A x \in 1..L : GroupOk(w, m, s[x])
  <2> TAKE x \in 1..L
  <2>1. GroupOk(w, k, s[x]) /\ s[x].end # w[k + 1].end
    BY <1>1, <1>3, <1>4 DEF SeriesOk
  <2> QED BY <2>1, GroupKept
<1>9. \A j \in 1..k : \E x \in 1..L : s[x].end = w[j].end
  BY <1>3 DEF SeriesOk
<1> HIDE DEF a, r
<1>10. L + 1 \in 1 .. L + 1 /\ \A x \in 1 .. L + 1 : x = L + 1 \/ x \in 1..L
  BY <1>3
<1>11. \A x \in 1..L : x \in 1 .. L + 1 /\ x < L + 1
  BY <1>3
<1>12. \A x, y \in 1 .. L + 1 : x < y => r[x].end < r[y].end
  <2> SUFFICES ASSUME NEW x \in 1 .. L + 1, NEW y \in 1 .. L + 1, x < y PROVE r[x].end < r[y].end
    OBVIOUS
  <2>1. x \in 1..L
    BY <1>3
  <2>2. CASE y = L + 1
    BY <1>4, <1>6, <2>1, <2>2
  <2>3. CASE y \in 1..L
    <3>1. s[x].end < s[y].end
      BY <1>3, <2>1, <2>3 DEF SeriesOk
    <3> QED BY <1>6, <2>1, <2>3, <3>1
  <2> QED BY <1>10, <2>2, <2>3
<1>13. \A x \in 1 .. L + 1 : GroupOk(w, m, r[x])
  BY <1>6, <1>7, <1>8, <1>10
<1>14. \A j \in 1..m : \E x \in 1 .. L + 1 : r[x].end = w[j].end
  <2> TAKE j \in 1..m
  <2>1. CASE j = m
    BY <1>6, <1>10, <2>1 DEF a
  <2>2. CASE j # m
    <3>1. j \in 1..k
      BY <2>2
    <3>2. PICK x \in 1..L : s[x].end = w[j].end
      BY <1>9, <3>1
    <3> QED BY <1>6, <1>11, <3>2
  <2> QED BY <2>1, <2>2
<1>15. r[Len(r)].end = w[m].end
  BY <1>6 DEF a
<1> HIDE DEF m
<1>16. SeriesOk(w, m, r)
  BY <1>1, <1>6, <1>12, <1>13, <1>14, <1>15 DEF SeriesOk
<1> QED BY <1>16 DEF m, r, a

(* A further bar of the bucket is merged into the last of the series.      *)
LEMMA SeriesMerges ==
  ASSUME NEW n \in Nat, NEW w \in [1..n -> SeriesBars],
         NEW k \in Nat, k + 1 \in 1..n, NEW s, SeriesOk(w, k, s), s # <<>>, Last(s).end = w[k + 1].end
  PROVE  SeriesOk(w, k + 1, [s EXCEPT ![Len(s)] = Merged(Last(s), w[k + 1])])
<1> DEFINE m == k + 1
           a == w[m]
           L == Len(s)
           g == s[L]
           h == Merged(g, a)
           r == [s EXCEPT ![L] = h]
<1>1. L \in Nat /\ DOMAIN s = 1..L /\ s \in Seq(SeriesBars) /\ L \in 1..L /\ L = Len(s)
  BY DEF SeriesOk
<1> HIDE DEF L
<1>2. \A x \in 1..L : s[x] \in SeriesBars /\ GroupOk(w, k, s[x]) /\ s[x].end \in Nat
  <2>1. \A x \in 1..L : s[x] \in SeriesBars
    BY <1>1
  <2> QED BY <1>1, <2>1 DEF SeriesOk, SeriesBars
<1>3. g.end = a.end /\ Last(s) = g
  BY <1>1 DEF Last
<1>4. h \in SeriesBars /\ h.end = g.end /\ GroupOk(w, m, h)
  <2>1. \A j \in 1 .. k + 1 : w[j] \in SeriesBars
    OBVIOUS
  <2>2. g \in SeriesBars /\ GroupOk(w, k, g) /\ w[k + 1].end = g.end
    BY <1>1, <1>2, <1>3
  <2> HIDE DEF g
  <2> QED BY <2>1, <2>2, GroupMerged
<1> HIDE DEF h
<1>5. /\ r \in Seq(SeriesBars) /\ Len(r) = L /\ DOMAIN r = 1..L /\ r[L] = h
      /\ \A x \in 1..L : x # L => r[x] = s[x]
  <2>1. s \in [1..L -> SeriesBars]
    BY <1>1, LenProperties
  <2>2. /\ r \in [1..L -> SeriesBars] /\ DOMAIN r = 1..L /\ r[L] = h
        /\ \A x \in 1..L : x # L => r[x] = s[x]
    BY <1>1, <1>4, <2>1
  <2> HIDE DEF r
  <2>3. r \in Seq(SeriesBars) /\ Len(r) = L
    BY <1>1, <2>2, FunctionSequence
  <2> QED BY <2>2, <2>3
<1>6. \A x \in 1..L : r[x].end = s[x].end
  BY <1>4, <1>5
<1>7. \A x \in 1..L : x # L => s[x].end < g.end
  <2> TAKE x \in 1..L
  <2>1. x \in DOMAIN s /\ L \in DOMAIN s /\ (x # L => x < L)
    BY <1>1
  <2> QED BY <2>1 DEF SeriesOk
<1>8. \A x \in 1..L : GroupOk(w, m, r[x])
  <2> TAKE x \in 1..L
  <2>1. CASE x = L
    BY <1>4, <1>5, <2>1
  <2>2. CASE x # L
    <3>3. s[x].end < g.end /\ s[x].end \in Nat /\ g.end \in Nat
      BY <1>1, <1>2, <1>7, <2>2
    <3>4. s[x].end # g.end
      BY <3>3
    <3>1. w[k + 1].end # s[x].end
      BY <1>3, <3>4
    <3>2. GroupOk(w, m, s[x])
      BY <1>2, <3>1, GroupKept
    <3> QED BY <1>5, <2>2, <3>2
  <2> QED BY <2>1, <2>2
<1> HIDE DEF r
<1>9. \A j \in 1..m : \E x \in 1..L : r[x].end = w[j].end
  <2> TAKE j \in 1..m
  <2>1. CASE j = m
    BY <1>1, <1>3, <1>6, <2>1
  <2>2. CASE j # m
    <3>1. j \in 1..k
      BY <2>2
    <3>2. PICK x \in 1..L : s[x].end = w[j].end
      BY <1>1, <3>1 DEF SeriesOk
    <3> QED BY <1>6, <3>2
  <2> QED BY <2>1, <2>2
<1>10. \A x, y \in 1..L : x < y => r[x].end < r[y].end
  BY <1>1, <1>6 DEF SeriesOk
<1>11. m # 0 /\ r # <<>> /\ r[Len(r)].end = w[m].end
  <2>1. r # <<>>
    <3>3. L # 0
      BY <1>1
    <3>1. L # 0 /\ Len(r) = L
      BY <1>5, <3>3, Zenon
    <3>2. Len(<<>>) = 0
      OBVIOUS
    <3> QED BY <3>1, <3>2
  <2>2. r[L].end = a.end /\ Len(r) = L
    BY <1>1, <1>3, <1>5, <1>6
  <2> QED BY <2>1, <2>2
<1> HIDE DEF m
<1>12. SeriesOk(w, m, r)
  BY <1>5, <1>8, <1>9, <1>10, <1>11 DEF SeriesOk
<1> QED BY <1>1, <1>3, <1>12 DEF r, h, a, m

(* Every step of the aggregation makes a series.                           *)
LEMMA AggregateStepType ==
  ASSUME NEW tf, NEW bar, BarOf(tf, bar) \in SeriesBars, NEW s \in Seq(SeriesBars)
  PROVE  AggregateStep(tf, s, bar) \in Seq(SeriesBars)
<1> DEFINE a == BarOf(tf, bar)
           L == Len(s)
           h == Merged(Last(s), a)
<1>1. a \in SeriesBars /\ L \in Nat /\ L = Len(s)
  OBVIOUS
<1>2. AggregateStep(tf, s, bar) = IF s # <<>> /\ Last(s).end = a.end THEN [s EXCEPT ![L] = h]
                                  ELSE Append(s, a)
  BY DEF AggregateStep
<1> HIDE DEF a, L
<1>3. Append(s, a) \in Seq(SeriesBars)
  BY <1>1
<1>4. ASSUME s # <<>> PROVE [s EXCEPT ![L] = h] \in Seq(SeriesBars)
  <2>1. L \in 1..L
    BY <1>1, <1>4
  <2>2. s[L] \in SeriesBars /\ Last(s) = s[L]
    BY <1>1, <2>1, ElementOfSeq DEF Last
  <2>3. h \in SeriesBars
    <3> DEFINE g == s[L]
    <3>1. g \in SeriesBars /\ Last(s) = g
      BY <2>2
    <3> HIDE DEF g
    <3>2. g.high \in Int /\ g.low \in Int /\ g.open \in Int /\ g.end \in Nat
          /\ a.high \in Int /\ a.low \in Int /\ a.close \in Int
      BY <1>1, <3>1 DEF SeriesBars
    <3>3. LargerOf(a.high, g.high) \in Int /\ SmallerOf(a.low, g.low) \in Int
      BY <3>2 DEF LargerOf, SmallerOf
    <3> QED BY <3>1, <3>2, <3>3 DEF Merged, SeriesBars
  <2> HIDE DEF h
  <2>4. s \in [1..L -> SeriesBars]
    BY <1>1, LenProperties
  <2>5. [s EXCEPT ![L] = h] \in [1..L -> SeriesBars]
    BY <2>3, <2>4
  <2> DEFINE r == [s EXCEPT ![L] = h]
  <2>6. r \in [1..L -> SeriesBars] /\ L \in Nat
    BY <1>1, <2>5
  <2> HIDE DEF r
  <2>7. r \in Seq(SeriesBars)
    BY <2>6, FunctionSequence
  <2> QED BY <2>7 DEF r
<1> QED BY <1>2, <1>3, <1>4

(* What one step makes of a series of the bars before.                     *)
LEMMA AggregateKeeps ==
  ASSUME NEW n \in Nat, NEW w \in [1..n -> SeriesBars],
         \A i, j \in 1..n : i <= j => w[i].end <= w[j].end,
         NEW k \in Nat, k + 1 \in 1..n, NEW s, SeriesOk(w, k, s),
         NEW tf, NEW bar, BarOf(tf, bar) = w[k + 1]
  PROVE  SeriesOk(w, k + 1, AggregateStep(tf, s, bar))
<1>1. AggregateStep(tf, s, bar) =
        IF s # <<>> /\ Last(s).end = w[k + 1].end THEN [s EXCEPT ![Len(s)] = Merged(Last(s), w[k + 1])]
        ELSE Append(s, w[k + 1])
  BY DEF AggregateStep
<1>2. CASE s # <<>> /\ Last(s).end = w[k + 1].end
  <2>1. SeriesOk(w, k + 1, [s EXCEPT ![Len(s)] = Merged(Last(s), w[k + 1])])
    BY <1>2, SeriesMerges
  <2> QED BY <1>1, <1>2, <2>1, Zenon
<1>3. CASE s = <<>> \/ Last(s).end # w[k + 1].end
  <2>1. SeriesOk(w, k + 1, Append(s, w[k + 1]))
    BY <1>3, SeriesGrows
  <2> QED BY <1>1, <1>3, <2>1
<1> QED BY <1>2, <1>3

(* The aggregated series stands for its bars.                              *)
LEMMA AggregateIs ==
  ASSUME NEW n \in Nat, NEW b, DOMAIN b = 1..n, NEW tf, NEW w \in [1..n -> SeriesBars],
         \A k \in 1..n : BarOf(tf, b[k]) = w[k],
         \A i, j \in 1..n : i <= j => w[i].end <= w[j].end
  PROVE  SeriesOk(w, n, Aggregate(b, tf))
<1> DEFINE A == Seq(SeriesBars)
           F == [p \in A \X (1..n) |-> AggregateStep(tf, p[1], b[p[2]])]
           Body(h) == h = [s \in SUBSET (1..n) |->
                             IF s = {} THEN <<>> ELSE AggregateStep(tf, h[s \ {Max(s)}], b[Max(s)])]
           h == CHOOSE h : Body(h)
<1>1. <<>> \in A
  OBVIOUS
<1>2. F \in [A \X (1..n) -> A] /\ \A s \in A, k \in 1..n : F[<<s, k>>] = AggregateStep(tf, s, b[k])
  <2>1. \A s \in A, k \in 1..n : AggregateStep(tf, s, b[k]) \in A
    BY AggregateStepType
  <2> HIDE DEF A
  <2> QED BY <2>1
<1>3. Aggregate(b, tf) = h[1..n]
  BY DEF Aggregate, FoldLeft, MapThenFoldSet
<1>4. PICK g \in [SUBSET (1..n) -> A] : FoldedIn(g, F, <<>>, A, n)
  <2> HIDE DEF F, A
  <2> QED BY <1>1, <1>2, FoldedStep
<1> HIDE DEF F, A
<1>5. Body(g)
  <2>1. g = [s \in SUBSET (1..n) |-> g[s]]
    OBVIOUS
  <2>2. ASSUME NEW s \in SUBSET (1..n)
        PROVE  g[s] = IF s = {} THEN <<>> ELSE AggregateStep(tf, g[s \ {Max(s)}], b[Max(s)])
    BY <1>2, <1>4 DEF FoldedIn
  <2> QED BY <2>1, <2>2
<1>6. Body(h)
  <2> HIDE DEF Body
  <2> QED BY <1>5
<1>7. \A s \in SUBSET (1..n) :
        h[s] = IF s = {} THEN <<>> ELSE AggregateStep(tf, h[s \ {Max(s)}], b[Max(s)])
  <2> HIDE DEF h
  <2> QED BY <1>6
<1> HIDE DEF h
<1>8. FoldsFrom(h, F, <<>>, A, n)
  <2>1. \A s \in SUBSET (1..n) : s # {} => Max(s) \in 1..n
    BY GreatestIn
  <2> QED BY <1>2, <1>7, <2>1 DEF FoldsFrom
<1>9. PICK P : StepPrefixes(P, F, <<>>, A, n) /\ P[n] = h[1..n]
  <2>1. HasPrefixes(h, F, <<>>, A, n)
    BY <1>1, <1>2, <1>8, FoldPrefix
  <2> QED BY <2>1 DEF HasPrefixes
<1>10. P[0] = <<>> /\ \A k \in 1..n : P[k] = AggregateStep(tf, P[k - 1], b[k])
  <2>1. \A k \in 1..n : k - 1 \in 0..n
    OBVIOUS
  <2> QED BY <1>2, <1>9, <2>1 DEF StepPrefixes
<1>11. \A k \in 0..n : SeriesOk(w, k, P[k])
  <2> DEFINE B == {k \in 0..n : ~SeriesOk(w, k, P[k])}
  <2> SUFFICES ASSUME B # {} PROVE FALSE
    OBVIOUS
  <2>1. PICK k \in B : \A j \in Nat : j < k => j \notin B
    <3>1. B \in SUBSET Nat
      OBVIOUS
    <3> HIDE DEF B
    <3> QED BY <3>1, LeastOne
  <2>2. k # 0
    <3>1. SeriesOk(w, 0, <<>>)
      <4>1. <<>> \in Seq(SeriesBars) /\ DOMAIN <<>> = {} /\ 1..0 = {}
        OBVIOUS
      <4> QED BY <4>1 DEF SeriesOk
    <3> QED BY <1>10, <3>1
  <2>3. PICK i \in Nat : k = i + 1 /\ i < k /\ i \in 0..n /\ k \in 1..n
    <3>1. k - 1 \in Nat /\ k = (k - 1) + 1 /\ k - 1 < k /\ k - 1 \in 0..n /\ k \in 1..n
      BY <2>2
    <3> QED BY <3>1
  <2>4. SeriesOk(w, i, P[i])
    BY <2>1, <2>3
  <2>5. P[k] = AggregateStep(tf, P[i], b[k])
    <3>1. k - 1 = i
      BY <2>3
    <3> QED BY <1>10, <2>3, <3>1
  <2>6. BarOf(tf, b[k]) = w[i + 1] /\ i + 1 \in 1..n
    BY <2>3
  <2>7. SeriesOk(w, i + 1, AggregateStep(tf, P[i], b[k]))
    BY <2>4, <2>6, AggregateKeeps
  <2>8. SeriesOk(w, k, P[k])
    BY <2>3, <2>5, <2>7
  <2> QED BY <2>8
<1> QED BY <1>3, <1>9, <1>11

(* The average is the sum of the closes of its window.                     *)
LEMMA SmaIs ==
  ASSUME NEW n \in Nat, NEW c \in [1..n -> Int], NEW p \in Nat \ {0}
  PROVE  \A i \in 1..n : SmaSums(c, p)[i] = IF i >= p THEN SumOf(c, WindowOf(i, p, 0)) ELSE None
<1> DEFINE A == [sum : Int, out : Seq(Int)]
           Base == [sum |-> 0, out |-> <<>>]
           v == [i \in 1..n |-> i]
           F == [q \in A \X (1..n) |-> SmaStep(c, p, q[1], q[2])]
           Body(h) == h = [s \in SUBSET (1..n) |->
                             IF s = {} THEN Base ELSE SmaStep(c, p, h[s \ {Max(s)}], v[Max(s)])]
           h == CHOOSE h : Body(h)
<1>11. ASSUME NEW s \in A, NEW k \in 1..n
       PROVE  LET r == SmaStep(c, p, s, k)
              IN  /\ r \in A /\ r.sum = s.sum + c[k] - (IF k > p THEN c[k - p] ELSE 0)
                  /\ r.out = Append(s.out, IF k >= p THEN r.sum ELSE None)
  <2> DEFINE x == s.sum + c[k] - (IF k > p THEN c[k - p] ELSE 0)
             y == IF k >= p THEN x ELSE None
  <2>1. SmaStep(c, p, s, k) = [sum |-> x, out |-> Append(s.out, y)]
    BY DEF SmaStep
  <2>2. x \in Int
    <3>1. k > p => k - p \in 1..n
      OBVIOUS
    <3> QED BY <3>1
  <2> HIDE DEF x
  <2>3. y \in Int
    BY <2>2 DEF None
  <2> HIDE DEF y
  <2>4. Append(s.out, y) \in Seq(Int)
    BY <2>3
  <2> QED BY <2>1, <2>2, <2>4 DEF x, y
<1>0. \A s \in A, k \in 1..n : SmaStep(c, p, s, k) \in A
  BY <1>11
<1>1. Base \in A
  <2>1. <<>> \in Seq(Int)
    OBVIOUS
  <2> QED BY <2>1
<1>2. F \in [A \X (1..n) -> A] /\ \A s \in A, k \in 1..n : F[<<s, k>>] = SmaStep(c, p, s, k)
  <2> HIDE DEF A
  <2> QED BY <1>0
<1>3. SmaSums(c, p) = h[1..n].out
  <2>1. DOMAIN c = 1..n
    OBVIOUS
  <2> QED BY <2>1 DEF SmaSums, FoldLeft, MapThenFoldSet
<1>4. PICK g \in [SUBSET (1..n) -> A] : FoldedIn(g, F, Base, A, n)
  <2> HIDE DEF F, A, Base
  <2> QED BY <1>1, <1>2, FoldedStep
<1> HIDE DEF F, A, Base
<1>5. Body(g)
  <2>1. g = [s \in SUBSET (1..n) |-> g[s]]
    OBVIOUS
  <2>2. ASSUME NEW s \in SUBSET (1..n)
        PROVE  g[s] = IF s = {} THEN Base ELSE SmaStep(c, p, g[s \ {Max(s)}], v[Max(s)])
    BY <1>2, <1>4 DEF FoldedIn
  <2> QED BY <2>1, <2>2
<1>6. Body(h)
  <2> HIDE DEF Body
  <2> QED BY <1>5
<1>7. \A s \in SUBSET (1..n) :
        h[s] = IF s = {} THEN Base ELSE SmaStep(c, p, h[s \ {Max(s)}], v[Max(s)])
  <2> HIDE DEF h
  <2> QED BY <1>6
<1> HIDE DEF h
<1>8. FoldsFrom(h, F, Base, A, n)
  <2>1. \A s \in SUBSET (1..n) : s # {} => Max(s) \in 1..n
    BY GreatestIn
  <2> QED BY <1>2, <1>7, <2>1 DEF FoldsFrom
<1>9. PICK P : StepPrefixes(P, F, Base, A, n) /\ P[n] = h[1..n]
  <2>1. HasPrefixes(h, F, Base, A, n)
    BY <1>1, <1>2, <1>8, FoldPrefix
  <2> QED BY <2>1 DEF HasPrefixes
<1>10. P[0] = Base /\ \A k \in 1..n : P[k - 1] \in A /\ P[k] \in A /\ P[k] = SmaStep(c, p, P[k - 1], k)
  <2>1. \A k \in 1..n : k - 1 \in 0..n /\ k \in 0..n
    OBVIOUS
  <2> QED BY <1>2, <1>9, <2>1 DEF StepPrefixes
<1> DEFINE R == [k \in 0..n |-> P[k].sum]
           Q == [k \in 0..n |-> P[k].out]
           x == [k \in 1..n |-> IF k >= p THEN R[k] ELSE None]
<1>12. \A k \in 1..n : k - 1 \in 0..n /\ k \in 0..n
  OBVIOUS
<1>13. R[0] = 0 /\ Q[0] = <<>> /\ Q[n] = SmaSums(c, p)
  BY <1>3, <1>9, <1>10 DEF Base
<1>14. \A k \in 1..n : /\ R[k] = R[k - 1] + c[k] - (IF k > p THEN c[k - p] ELSE 0)
                       /\ R[k] \in Int /\ Q[k] = Append(Q[k - 1], x[k])
  <2> TAKE k \in 1..n
  <2> DEFINE s == P[k - 1]
             r == SmaStep(c, p, s, k)
  <2>1. s \in A /\ P[k] = r
    BY <1>10
  <2>2. /\ r \in A /\ r.sum = s.sum + c[k] - (IF k > p THEN c[k - p] ELSE 0)
        /\ r.out = Append(s.out, IF k >= p THEN r.sum ELSE None)
    BY <1>11, <2>1
  <2>3. R[k] = r.sum /\ R[k - 1] = s.sum /\ Q[k] = r.out /\ Q[k - 1] = s.out
    BY <1>12, <2>1
  <2>4. x[k] = IF k >= p THEN r.sum ELSE None
    BY <2>3
  <2>5. r.sum \in Int
    BY <2>2 DEF A
  <2> HIDE DEF R, Q, x, s, r
  <2> QED BY <2>2, <2>3, <2>4, <2>5
<1> HIDE DEF R, Q
<1>15. \A i \in 0..n : R[i] = SumOf(c, WindowOf(i, p, 0))
  <2>1. \A j \in (0 + 1) .. (n + 0) : c[j] \in Int
    OBVIOUS
  <2>2. \A k \in 1..n : k + 0 = k /\ k + 0 - p = k - p
    OBVIOUS
  <2>3. Rolls(R, c, p, 0, n)
    BY <1>13, <1>14, <2>1, <2>2 DEF Rolls
  <2> QED BY <2>3, RollingSum
<1>16. x \in [1..n -> Int]
  <2>1. None \in Int
    BY DEF None
  <2> QED BY <1>14, <2>1
<1>17. \A j \in 1..n : x[j] = IF j >= p THEN SumOf(c, WindowOf(j, p, 0)) ELSE None
  BY <1>12, <1>15
<1> HIDE DEF x
<1>18. \A j \in 1..n : Q[n][j] = x[j]
  <2>1. Q[0] \in Seq(Int) /\ Len(Q[0]) = 0 /\ n \in 0..n
    BY <1>13
  <2>2. Appends(Q, Int, 0, x, n)
    BY <1>14, <1>16, <2>1 DEF Appends
  <2>3. 0 \in Nat /\ \A j \in 1..n : j + 0 = j
    OBVIOUS
  <2>4. GoesOn(Q[0], Q[n], 0, x, n)
    BY <2>2, <2>3, AppendedAll
  <2> QED BY <2>3, <2>4 DEF GoesOn
<1> QED BY <1>13, <1>17, <1>18

(* What bar j has gained and lost on the one before.                       *)
GainsOf(c, n) == [j \in 2..n |-> Gain(c, j - 1)]
LossesOf(c, n) == [j \in 2..n |-> Loss(c, j - 1)]
NoSums == <<None, None>>
Pairs2 == Int \X Int

(* Gains and losses are numbers, listed from the second bar on.            *)
LEMMA GainsAre ==
  ASSUME NEW m \in Nat, NEW c \in [1..(m + 1) -> Int], NEW k \in 1..m
  PROVE  /\ Gain(c, k) \in Int /\ Loss(c, k) \in Int
         /\ GainsOf(c, m + 1)[k + 1] = Gain(c, k) /\ LossesOf(c, m + 1)[k + 1] = Loss(c, k)
<1>1. k \in 1..(m + 1) /\ k + 1 \in 1..(m + 1) /\ k + 1 \in 2..(m + 1) /\ (k + 1) - 1 = k
  OBVIOUS
<1>2. c[k] \in Int /\ c[k + 1] \in Int
  BY <1>1
<1>3. Gain(c, k) \in Int /\ Loss(c, k) \in Int
  BY <1>2 DEF Gain, Loss
<1>4. GainsOf(c, m + 1)[k + 1] = Gain(c, (k + 1) - 1) /\ LossesOf(c, m + 1)[k + 1] = Loss(c, (k + 1) - 1)
  BY <1>1 DEF GainsOf, LossesOf
<1>5. GainsOf(c, m + 1)[k + 1] = Gain(c, k) /\ LossesOf(c, m + 1)[k + 1] = Loss(c, k)
  BY <1>1, <1>4, Zenon
<1> QED BY <1>3, <1>5

(* The sums of the gains and of the losses of the window.                  *)
LEMMA RsiFolds ==
  ASSUME NEW n \in Nat, NEW c \in Seq(Int), Len(c) = n + 1, NEW p \in Nat \ {0}, ~(Len(c) < p + 1)
  PROVE  \A i \in 1..(n + 1) :
           RsiSums(c, p)[i] = IF i > p THEN <<SumOf(GainsOf(c, n + 1), WindowOf(i - 1, p, 1)),
                                              SumOf(LossesOf(c, n + 1), WindowOf(i - 1, p, 1))>>
                              ELSE NoSums
<1> DEFINE A == [gain : Int, loss : Int, out : Seq(Pairs2)]
           Base == [gain |-> 0, loss |-> 0, out |-> <<NoSums>>]
           v == [i \in 1..n |-> i]
           F == [q \in A \X (1..n) |-> RsiStep(c, p, q[1], q[2])]
           Body(h) == h = [s \in SUBSET (1..n) |->
                             IF s = {} THEN Base ELSE RsiStep(c, p, h[s \ {Max(s)}], v[Max(s)])]
           h == CHOOSE h : Body(h)
<1>12. c \in [1..(n + 1) -> Int]
  BY LenProperties
<1>11. ASSUME NEW s \in A, NEW k \in 1..n
       PROVE  LET r == RsiStep(c, p, s, k)
              IN  /\ r \in A
                  /\ r.gain = s.gain + Gain(c, k) - (IF k > p THEN Gain(c, k - p) ELSE 0)
                  /\ r.loss = s.loss + Loss(c, k) - (IF k > p THEN Loss(c, k - p) ELSE 0)
                  /\ r.out = Append(s.out, IF k >= p THEN <<r.gain, r.loss>> ELSE NoSums)
  <2> DEFINE old == k - p
             x == s.gain + Gain(c, k) - (IF old > 0 THEN Gain(c, old) ELSE 0)
             y == s.loss + Loss(c, k) - (IF old > 0 THEN Loss(c, old) ELSE 0)
             z == IF k >= p THEN <<x, y>> ELSE NoSums
  <2>1. RsiStep(c, p, s, k) = [gain |-> x, loss |-> y, out |-> Append(s.out, z)]
    BY DEF RsiStep, NoSums
  <2>2. s.gain \in Int /\ s.loss \in Int /\ s.out \in Seq(Pairs2)
    OBVIOUS
  <2>3. Gain(c, k) \in Int /\ Loss(c, k) \in Int
    BY <1>12, GainsAre
  <2>4. k > p <=> old > 0
    OBVIOUS
  <2>5. old > 0 => Gain(c, old) \in Int /\ Loss(c, old) \in Int
    <3>1. old > 0 => old \in 1..n
      OBVIOUS
    <3> HIDE DEF old
    <3> QED BY <1>12, <3>1, GainsAre
  <2> HIDE DEF old
  <2>6. x \in Int /\ y \in Int
    <3> DEFINE g == IF old > 0 THEN Gain(c, old) ELSE 0
               l == IF old > 0 THEN Loss(c, old) ELSE 0
               a == Gain(c, k)
               b == Loss(c, k)
    <3>1. g \in Int /\ l \in Int /\ a \in Int /\ b \in Int
      BY <2>3, <2>5
    <3>2. x = s.gain + a - g /\ y = s.loss + b - l
      OBVIOUS
    <3> HIDE DEF g, l, a, b, x, y
    <3> QED BY <2>2, <3>1, <3>2
  <2>7. /\ x = s.gain + Gain(c, k) - (IF k > p THEN Gain(c, old) ELSE 0)
        /\ y = s.loss + Loss(c, k) - (IF k > p THEN Loss(c, old) ELSE 0)
    BY <2>4
  <2> HIDE DEF x, y
  <2>8. z \in Pairs2
    BY <2>6 DEF Pairs2, NoSums, None
  <2> HIDE DEF z
  <2>9. Append(s.out, z) \in Seq(Pairs2)
    BY <2>2, <2>8
  <2> DEFINE r == RsiStep(c, p, s, k)
  <2>10. r \in A /\ r.gain = x /\ r.loss = y /\ r.out = Append(s.out, z)
    BY <2>1, <2>6, <2>9
  <2> QED BY <2>7, <2>10 DEF old, z
<1>0. \A s \in A, k \in 1..n : RsiStep(c, p, s, k) \in A
  BY <1>11
<1>1. Base \in A
  <2>1. NoSums \in Pairs2
    BY DEF Pairs2, NoSums, None
  <2>2. <<NoSums>> \in Seq(Pairs2)
    BY <2>1
  <2> QED BY <2>2
<1>2. F \in [A \X (1..n) -> A] /\ \A s \in A, k \in 1..n : F[<<s, k>>] = RsiStep(c, p, s, k)
  <2> HIDE DEF A
  <2> QED BY <1>0
<1>3. RsiSums(c, p) = h[1..n].out
  <2>1. Len(c) - 1 = n
    OBVIOUS
  <2>2. DOMAIN v = 1..n
    OBVIOUS
  <2>3. RsiSums(c, p) = FoldLeft(LAMBDA acc, k : RsiStep(c, p, acc, k), Base, v).out
    BY <2>1 DEF RsiSums, NoSums
  <2>4. FoldLeft(LAMBDA acc, k : RsiStep(c, p, acc, k), Base, v) = h[1..n]
    BY <2>2 DEF FoldLeft, MapThenFoldSet
  <2> QED BY <2>3, <2>4, Zenon
<1>4. PICK g \in [SUBSET (1..n) -> A] : FoldedIn(g, F, Base, A, n)
  <2> HIDE DEF F, A, Base
  <2> QED BY <1>1, <1>2, FoldedStep
<1> HIDE DEF F, A, Base
<1>5. Body(g)
  <2>1. g = [s \in SUBSET (1..n) |-> g[s]]
    OBVIOUS
  <2>2. ASSUME NEW s \in SUBSET (1..n)
        PROVE  g[s] = IF s = {} THEN Base ELSE RsiStep(c, p, g[s \ {Max(s)}], v[Max(s)])
    BY <1>2, <1>4 DEF FoldedIn
  <2> QED BY <2>1, <2>2
<1>6. Body(h)
  <2> HIDE DEF Body
  <2> QED BY <1>5
<1>7. \A s \in SUBSET (1..n) :
        h[s] = IF s = {} THEN Base ELSE RsiStep(c, p, h[s \ {Max(s)}], v[Max(s)])
  <2> HIDE DEF h
  <2> QED BY <1>6
<1> HIDE DEF h
<1>8. FoldsFrom(h, F, Base, A, n)
  <2>1. \A s \in SUBSET (1..n) : s # {} => Max(s) \in 1..n
    BY GreatestIn
  <2> QED BY <1>2, <1>7, <2>1 DEF FoldsFrom
<1>9. PICK P : StepPrefixes(P, F, Base, A, n) /\ P[n] = h[1..n]
  <2>1. HasPrefixes(h, F, Base, A, n)
    BY <1>1, <1>2, <1>8, FoldPrefix
  <2> QED BY <2>1 DEF HasPrefixes
<1>10. P[0] = Base /\ \A k \in 1..n : P[k - 1] \in A /\ P[k] \in A /\ P[k] = RsiStep(c, p, P[k - 1], k)
  <2>1. \A k \in 1..n : k - 1 \in 0..n /\ k \in 0..n
    OBVIOUS
  <2> QED BY <1>2, <1>9, <2>1 DEF StepPrefixes
<1> DEFINE G == [k \in 0..n |-> P[k].gain]
           L == [k \in 0..n |-> P[k].loss]
           Q == [k \in 0..n |-> P[k].out]
           x == [k \in 1..n |-> IF k >= p THEN <<G[k], L[k]>> ELSE NoSums]
<1>13. \A k \in 1..n : k - 1 \in 0..n /\ k \in 0..n
  OBVIOUS
<1>14. G[0] = 0 /\ L[0] = 0 /\ Q[0] = <<NoSums>> /\ Q[n] = RsiSums(c, p)
  BY <1>3, <1>9, <1>10 DEF Base
<1>15. \A k \in 1..n : /\ G[k] = G[k - 1] + Gain(c, k) - (IF k > p THEN Gain(c, k - p) ELSE 0)
                       /\ L[k] = L[k - 1] + Loss(c, k) - (IF k > p THEN Loss(c, k - p) ELSE 0)
                       /\ G[k] \in Int /\ L[k] \in Int /\ Q[k] = Append(Q[k - 1], x[k])
  <2> TAKE k \in 1..n
  <2> DEFINE s == P[k - 1]
             r == RsiStep(c, p, s, k)
  <2>1. s \in A /\ P[k] = r
    BY <1>10
  <2>2. /\ r \in A
        /\ r.gain = s.gain + Gain(c, k) - (IF k > p THEN Gain(c, k - p) ELSE 0)
        /\ r.loss = s.loss + Loss(c, k) - (IF k > p THEN Loss(c, k - p) ELSE 0)
        /\ r.out = Append(s.out, IF k >= p THEN <<r.gain, r.loss>> ELSE NoSums)
    BY <1>11, <2>1
  <2>3. /\ G[k] = r.gain /\ G[k - 1] = s.gain /\ L[k] = r.loss /\ L[k - 1] = s.loss
        /\ Q[k] = r.out /\ Q[k - 1] = s.out
    BY <1>13, <2>1
  <2>4. x[k] = IF k >= p THEN <<r.gain, r.loss>> ELSE NoSums
    BY <2>3
  <2>5. r.gain \in Int /\ r.loss \in Int
    BY <2>2 DEF A
  <2> HIDE DEF G, L, Q, x, s, r
  <2> QED BY <2>2, <2>3, <2>4, <2>5
<1> HIDE DEF G, L, Q
<1> DEFINE a == GainsOf(c, n + 1)
           b == LossesOf(c, n + 1)
<1>16. \A k \in 1..n : /\ a[k + 1] = Gain(c, k) /\ b[k + 1] = Loss(c, k)
                       /\ Gain(c, k) \in Int /\ Loss(c, k) \in Int
                       /\ k > p => a[k + 1 - p] = Gain(c, k - p) /\ b[k + 1 - p] = Loss(c, k - p)
  <2>1. \A k \in 1..n : /\ a[k + 1] = Gain(c, k) /\ b[k + 1] = Loss(c, k)
                        /\ Gain(c, k) \in Int /\ Loss(c, k) \in Int
    BY <1>12, GainsAre
  <2> HIDE DEF a, b
  <2> TAKE k \in 1..n
  <2>2. ASSUME k > p PROVE a[k + 1 - p] = Gain(c, k - p) /\ b[k + 1 - p] = Loss(c, k - p)
    <3> DEFINE j == k - p
    <3>1. j \in 1..n /\ k + 1 - p = j + 1
      BY <2>2
    <3> HIDE DEF j
    <3>2. a[j + 1] = Gain(c, j) /\ b[j + 1] = Loss(c, j)
      BY <2>1, <3>1
    <3>3. a[k + 1 - p] = Gain(c, j) /\ b[k + 1 - p] = Loss(c, j)
      BY <3>1, <3>2, Zenon
    <3> QED BY <3>3 DEF j
  <2> QED BY <2>1, <2>2
<1> HIDE DEF a, b
<1>17. \A j \in (1 + 1) .. (n + 1) : a[j] \in Int /\ b[j] \in Int
  <2> TAKE j \in (1 + 1) .. (n + 1)
  <2>1. j - 1 \in 1..n /\ (j - 1) + 1 = j
    OBVIOUS
  <2>2. a[(j - 1) + 1] \in Int /\ b[(j - 1) + 1] \in Int
    BY <1>16, <2>1
  <2> QED BY <2>1, <2>2, Zenon
<1>18. Rolls(G, a, p, 1, n) /\ Rolls(L, b, p, 1, n)
  <2>1. \A k \in 1..n : G[k] = G[k - 1] + a[k + 1] - (IF k > p THEN a[k + 1 - p] ELSE 0)
    BY <1>15, <1>16
  <2>2. \A k \in 1..n : L[k] = L[k - 1] + b[k + 1] - (IF k > p THEN b[k + 1 - p] ELSE 0)
    BY <1>15, <1>16
  <2>3. (\A j \in (1 + 1) .. (n + 1) : a[j] \in Int) /\ \A j \in (1 + 1) .. (n + 1) : b[j] \in Int
    BY <1>17
  <2> QED BY <1>14, <2>1, <2>2, <2>3 DEF Rolls
<1>19. \A i \in 0..n : G[i] = SumOf(a, WindowOf(i, p, 1)) /\ L[i] = SumOf(b, WindowOf(i, p, 1))
  <2>1. 1 \in Nat
    OBVIOUS
  <2>2. \A i \in 0..n : G[i] = SumOf(a, WindowOf(i, p, 1))
    BY <1>18, <2>1, RollingSum
  <2>3. \A i \in 0..n : L[i] = SumOf(b, WindowOf(i, p, 1))
    BY <1>18, <2>1, RollingSum
  <2> QED BY <2>2, <2>3
<1>20. x \in [1..n -> Pairs2]
  <2>1. NoSums \in Pairs2
    BY DEF Pairs2, NoSums, None
  <2> QED BY <1>15, <2>1 DEF Pairs2
<1>21. \A j \in 1..n : x[j] = IF j >= p THEN <<SumOf(a, WindowOf(j, p, 1)), SumOf(b, WindowOf(j, p, 1))>>
                               ELSE NoSums
  BY <1>13, <1>19
<1> HIDE DEF x
<1>22. Q[n][1] = NoSums /\ \A j \in 1..n : Q[n][j + 1] = x[j]
  <2>1. Q[0] \in Seq(Pairs2) /\ Len(Q[0]) = 1 /\ n \in 0..n /\ Q[0][1] = NoSums
    BY <1>14 DEF Pairs2, NoSums, None
  <2>2. Appends(Q, Pairs2, 1, x, n)
    BY <1>15, <1>20, <2>1 DEF Appends
  <2>3. 1 \in Nat /\ 1 \in 1..1
    OBVIOUS
  <2>4. GoesOn(Q[0], Q[n], 1, x, n)
    BY <2>2, <2>3, AppendedAll
  <2> QED BY <2>1, <2>3, <2>4 DEF GoesOn
<1>23. ASSUME NEW i \in 1..(n + 1)
       PROVE  Q[n][i] = IF i > p THEN <<SumOf(a, WindowOf(i - 1, p, 1)), SumOf(b, WindowOf(i - 1, p, 1))>>
                        ELSE NoSums
  <2>1. CASE i = 1
    BY <1>22, <2>1
  <2>2. CASE i # 1
    <3>1. i - 1 \in 1..n /\ (i - 1) + 1 = i /\ (i - 1 >= p <=> i > p)
      BY <2>2
    <3>2. Q[n][(i - 1) + 1] = x[i - 1]
      BY <1>22, <3>1
    <3>3. Q[n][i] = x[i - 1]
      BY <3>1, <3>2, Zenon
    <3> QED BY <1>21, <3>1, <3>3
  <2> QED BY <2>1, <2>2
<1> QED BY <1>14, <1>23 DEF a, b

(* The front of a deque is the highest bar of the window.                  *)
HighestOf(v, p, i, x) == x \in WindowOf(i, p, 0) /\ \A j \in WindowOf(i, p, 0) : v[j] <= v[x]

(* That is what DequeOk says of the first of a deque.                      *)
LEMMA DequeFront ==
  ASSUME NEW n \in Nat, NEW v \in [1..n -> Int], NEW p \in Nat \ {0}, NEW i \in 1..n, NEW dq,
         DequeOk(v, p, i, dq)
  PROVE  HighestOf(v, p, i, Head(dq))
<1> DEFINE L == Len(dq)
<1>1. dq \in Seq(1..i) /\ L \in Nat /\ DOMAIN dq = 1..L /\ \A x \in 1..L : dq[x] \in 1..i
  <2>1. dq \in Seq(1..i) /\ L \in Nat /\ DOMAIN dq = 1..L
    BY DEF DequeOk
  <2> QED BY <2>1, ElementOfSeq
<1> HIDE DEF L
<1>2. PICK y \in 1..L : i <= dq[y]
  <2>1. i \in 1..i /\ i + p > i
    OBVIOUS
  <2> QED BY <1>1, <2>1 DEF DequeOk
<1>3. 1 \in 1..L
  BY <1>1
<1>4. Head(dq) = dq[1]
  <2>1. dq # <<>>
    BY <1>1, <1>3
  <2> QED BY <1>1, <2>1
<1>5. dq[1] \in WindowOf(i, p, 0)
  <2>1. dq[1] \in 1..i /\ dq[1] + p > i
    BY <1>1, <1>3 DEF DequeOk
  <2> QED BY <2>1 DEF WindowOf
<1>6. ASSUME NEW j \in WindowOf(i, p, 0) PROVE v[j] <= v[dq[1]]
  <2>1. j \in 1..i /\ j + p > i
    BY DEF WindowOf
  <2>2. PICK x \in 1..L : v[j] <= v[dq[x]]
    BY <1>1, <2>1 DEF DequeOk
  <2>3. j \in 1..n /\ dq[x] \in 1..n /\ dq[1] \in 1..n
    BY <1>1, <1>3, <2>1
  <2>4. x = 1 \/ v[dq[x]] < v[dq[1]]
    <3>1. x = 1 \/ 1 < x
      BY <1>1
    <3> QED BY <1>1, <1>3, <3>1 DEF DequeOk
  <2> QED BY <2>2, <2>3, <2>4
<1> QED BY <1>4, <1>5, <1>6 DEF HighestOf

(* The channel: the lowest low and the highest high of the window.         *)
ChannelOf(hs, ls, p, i, z) ==
  \E x, y \in WindowOf(i, p, 0) :
    z = <<ls[x], hs[y]>> /\ \A j \in WindowOf(i, p, 0) : ls[x] <= ls[j] /\ hs[j] <= hs[y]

ChannelOrNone(hs, ls, p, i, z) == IF i >= p THEN ChannelOf(hs, ls, p, i, z) ELSE z = NoSums

(* The channel of each bar is the one of its window.                       *)
LEMMA DonchianIs ==
  ASSUME NEW n \in Nat, NEW hs \in [1..n -> Int], NEW ls \in [1..n -> Int], NEW p \in Nat \ {0}
  PROVE  \A i \in 1..n : ChannelOrNone(hs, ls, p, i, Donchian(hs, ls, p)[i])
<1> DEFINE I == 1..n
           A == [maxDq : Seq(I), minDq : Seq(I), out : Seq(Pairs2)]
           Base == [maxDq |-> <<>>, minDq |-> <<>>, out |-> <<>>]
           v == [i \in 1..n |-> i]
           F == [q \in A \X (1..n) |-> DonchianStep(hs, ls, p, q[1], q[2])]
           Body(h) == h = [s \in SUBSET (1..n) |->
                             IF s = {} THEN Base ELSE DonchianStep(hs, ls, p, h[s \ {Max(s)}], v[Max(s)])]
           h == CHOOSE h : Body(h)
           Over(k) == {j \in DOMAIN hs : hs[j] <= hs[k]}
           Under(k) == {j \in DOMAIN ls : ls[j] >= ls[k]}
<1>11. ASSUME NEW s \in A, NEW k \in 1..n
       PROVE  LET r == DonchianStep(hs, ls, p, s, k)
              IN  /\ r \in A
                  /\ r.maxDq = Push(s.maxDq, k, p, Over(k)) /\ r.minDq = Push(s.minDq, k, p, Under(k))
                  /\ r.out = Append(s.out, IF k >= p THEN <<ls[Head(r.minDq)], hs[Head(r.maxDq)]>> ELSE NoSums)
                  /\ Head(r.minDq) \in 1..n /\ Head(r.maxDq) \in 1..n
  <2> DEFINE x == Push(s.maxDq, k, p, Over(k))
             y == Push(s.minDq, k, p, Under(k))
             z == IF k >= p THEN <<ls[Head(y)], hs[Head(x)]>> ELSE NoSums
  <2>1. DonchianStep(hs, ls, p, s, k) = [maxDq |-> x, minDq |-> y, out |-> Append(s.out, z)]
    BY DEF DonchianStep, NoSums
  <2>2. s.maxDq \in Seq(I) /\ s.minDq \in Seq(I) /\ s.out \in Seq(Pairs2)
    OBVIOUS
  <2> HIDE DEF Over, Under
  <2>3. x \in Seq(I) /\ Head(x) \in I
    BY <2>2, PushType
  <2>4. y \in Seq(I) /\ Head(y) \in I
    BY <2>2, PushType
  <2> HIDE DEF x, y
  <2>5. z \in Pairs2
    <3>1. ls[Head(y)] \in Int /\ hs[Head(x)] \in Int
      BY <2>3, <2>4
    <3>2. \A a, b : a \in Int /\ b \in Int => <<a, b>> \in Pairs2
      BY DEF Pairs2
    <3>3. <<ls[Head(y)], hs[Head(x)]>> \in Pairs2 /\ NoSums \in Pairs2
      BY <3>1, <3>2 DEF Pairs2, NoSums, None
    <3> HIDE DEF x, y
    <3> QED BY <3>3, Zenon
  <2> HIDE DEF z
  <2>6. Append(s.out, z) \in Seq(Pairs2)
    BY <2>2, <2>5
  <2> HIDE DEF I
  <2> DEFINE r == DonchianStep(hs, ls, p, s, k)
  <2>7. r \in A /\ r.maxDq = x /\ r.minDq = y /\ r.out = Append(s.out, z)
    BY <2>1, <2>3, <2>4, <2>6
  <2> HIDE DEF r
  <2> QED BY <2>3, <2>4, <2>7 DEF x, y, z, I, r
<1>0. \A s \in A, k \in 1..n : DonchianStep(hs, ls, p, s, k) \in A
  BY <1>11
<1>1. Base \in A
  <2>1. <<>> \in Seq(I) /\ <<>> \in Seq(Pairs2)
    OBVIOUS
  <2> QED BY <2>1
<1>2. F \in [A \X (1..n) -> A] /\ \A s \in A, k \in 1..n : F[<<s, k>>] = DonchianStep(hs, ls, p, s, k)
  <2> HIDE DEF A
  <2> QED BY <1>0
<1>3. Donchian(hs, ls, p) = h[1..n].out
  <2>1. DOMAIN hs = 1..n /\ DOMAIN v = 1..n
    OBVIOUS
  <2>2. Donchian(hs, ls, p) = FoldLeft(LAMBDA acc, k : DonchianStep(hs, ls, p, acc, k), Base, v).out
    BY <2>1 DEF Donchian
  <2>3. FoldLeft(LAMBDA acc, k : DonchianStep(hs, ls, p, acc, k), Base, v) = h[1..n]
    BY <2>1 DEF FoldLeft, MapThenFoldSet
  <2> QED BY <2>2, <2>3, Zenon
<1>4. PICK g \in [SUBSET (1..n) -> A] : FoldedIn(g, F, Base, A, n)
  <2> HIDE DEF F, A, Base
  <2> QED BY <1>1, <1>2, FoldedStep
<1> HIDE DEF F, A, Base
<1>5. Body(g)
  <2>1. g = [s \in SUBSET (1..n) |-> g[s]]
    OBVIOUS
  <2>2. ASSUME NEW s \in SUBSET (1..n)
        PROVE  g[s] = IF s = {} THEN Base ELSE DonchianStep(hs, ls, p, g[s \ {Max(s)}], v[Max(s)])
    BY <1>2, <1>4 DEF FoldedIn
  <2> QED BY <2>1, <2>2
<1>6. Body(h)
  <2> HIDE DEF Body
  <2> QED BY <1>5
<1>7. \A s \in SUBSET (1..n) :
        h[s] = IF s = {} THEN Base ELSE DonchianStep(hs, ls, p, h[s \ {Max(s)}], v[Max(s)])
  <2> HIDE DEF h
  <2> QED BY <1>6
<1> HIDE DEF h
<1>8. FoldsFrom(h, F, Base, A, n)
  <2>1. \A s \in SUBSET (1..n) : s # {} => Max(s) \in 1..n
    BY GreatestIn
  <2> QED BY <1>2, <1>7, <2>1 DEF FoldsFrom
<1>9. PICK P : StepPrefixes(P, F, Base, A, n) /\ P[n] = h[1..n]
  <2>1. HasPrefixes(h, F, Base, A, n)
    BY <1>1, <1>2, <1>8, FoldPrefix
  <2> QED BY <2>1 DEF HasPrefixes
<1>10. P[0] = Base /\ \A k \in 1..n : P[k - 1] \in A /\ P[k] \in A /\ P[k] = DonchianStep(hs, ls, p, P[k - 1], k)
  <2>1. \A k \in 1..n : k - 1 \in 0..n /\ k \in 0..n
    OBVIOUS
  <2> QED BY <1>2, <1>9, <2>1 DEF StepPrefixes
<1> DEFINE ng == [j \in 1..n |-> 0 - ls[j]]
           Q == [k \in 0..n |-> P[k].out]
           x == [k \in 1..n |-> IF k >= p THEN <<ls[Head(P[k].minDq)], hs[Head(P[k].maxDq)]>> ELSE NoSums]
<1>12. ng \in [1..n -> Int] /\ \A j \in 1..n : ng[j] = 0 - ls[j]
  OBVIOUS
<1> HIDE DEF ng
<1>13. \A k \in 1..n : /\ \A j \in 1..n : j \in Over(k) <=> hs[j] <= hs[k]
                       /\ \A j \in 1..n : j \in Under(k) <=> ng[j] <= ng[k]
  <2> TAKE k \in 1..n
  <2>1. \A j \in 1..n : j \in Over(k) <=> hs[j] <= hs[k]
    OBVIOUS
  <2>2. \A j \in 1..n : j \in Under(k) <=> ng[j] <= ng[k]
    <3>1. \A j \in 1..n : j \in Under(k) <=> ls[j] >= ls[k]
      OBVIOUS
    <3> HIDE DEF Under
    <3> TAKE j \in 1..n
    <3>2. ls[j] \in Int /\ ls[k] \in Int /\ ng[j] = 0 - ls[j] /\ ng[k] = 0 - ls[k]
      BY <1>12
    <3>3. ls[j] >= ls[k] <=> ng[j] <= ng[k]
      BY <3>2
    <3> QED BY <3>1, <3>3, Zenon
  <2> QED BY <2>1, <2>2
<1> HIDE DEF Over, Under, I
<1>14. \A k \in 0..n : DequeOk(hs, p, k, P[k].maxDq) /\ DequeOk(ng, p, k, P[k].minDq)
  <2> DEFINE Ok(k) == DequeOk(hs, p, k, P[k].maxDq) /\ DequeOk(ng, p, k, P[k].minDq)
             B == {k \in 0..n : ~Ok(k)}
  <2> SUFFICES ASSUME B # {} PROVE FALSE
    OBVIOUS
  <2>1. PICK k \in B : \A j \in Nat : j < k => j \notin B
    <3>1. B \in SUBSET Nat
      OBVIOUS
    <3> HIDE DEF B
    <3> QED BY <3>1, LeastOne
  <2>2. k # 0
    <3>1. P[0].maxDq = <<>> /\ P[0].minDq = <<>>
      BY <1>10 DEF Base
    <3>2. \A u : DequeOk(u, p, 0, <<>>)
      <4>1. <<>> \in Seq(1..0) /\ DOMAIN <<>> = {} /\ 1..0 = {}
        OBVIOUS
      <4> QED BY <4>1 DEF DequeOk
    <3> QED BY <3>1, <3>2
  <2>3. k \in 1..n /\ k - 1 \in 0..n /\ k - 1 \in Nat /\ k - 1 < k
    BY <2>2
  <2>4. Ok(k - 1)
    BY <2>1, <2>3
  <2> DEFINE s == P[k - 1]
  <2>5. P[k].maxDq = Push(s.maxDq, k, p, Over(k)) /\ P[k].minDq = Push(s.minDq, k, p, Under(k))
    <3>1. s \in A /\ P[k] = DonchianStep(hs, ls, p, s, k)
      BY <1>10, <2>3
    <3> QED BY <1>11, <2>3, <3>1
  <2>6. DequeOk(hs, p, k - 1, s.maxDq) /\ DequeOk(ng, p, k - 1, s.minDq)
    BY <2>4
  <2> HIDE DEF s
  <2>7. DequeOk(hs, p, k, P[k].maxDq)
    <3> DEFINE dq == s.maxDq
               bt == Over(k)
    <3>1. Beats(hs, n, k, bt) /\ DequeOk(hs, p, k - 1, dq)
      BY <1>13, <2>3, <2>6 DEF Beats
    <3> HIDE DEF dq, bt
    <3>2. DequeOk(hs, p, k, Push(dq, k, p, bt))
      BY <2>3, <3>1, PushKeeps
    <3> QED BY <2>5, <3>2 DEF dq, bt
  <2>8. DequeOk(ng, p, k, P[k].minDq)
    <3> DEFINE dq == s.minDq
               bt == Under(k)
    <3>1. Beats(ng, n, k, bt) /\ DequeOk(ng, p, k - 1, dq)
      BY <1>13, <2>3, <2>6 DEF Beats
    <3> HIDE DEF dq, bt
    <3>2. DequeOk(ng, p, k, Push(dq, k, p, bt))
      BY <1>12, <2>3, <3>1, PushKeeps
    <3> QED BY <2>5, <3>2 DEF dq, bt
  <2> QED BY <2>7, <2>8
<1>15. Q[0] = <<>> /\ Q[n] = Donchian(hs, ls, p)
  BY <1>3, <1>9, <1>10 DEF Base
<1>16. \A k \in 1..n : /\ Q[k] = Append(Q[k - 1], x[k]) /\ x[k] \in Pairs2
                       /\ Head(P[k].minDq) \in 1..n /\ Head(P[k].maxDq) \in 1..n
  <2> TAKE k \in 1..n
  <2> DEFINE s == P[k - 1]
             r == DonchianStep(hs, ls, p, s, k)
             lo == Head(r.minDq)
             hi == Head(r.maxDq)
  <2>1. s \in A /\ P[k] = r /\ k - 1 \in 0..n /\ k \in 0..n
    BY <1>10
  <2>2. /\ r.out = Append(s.out, IF k >= p THEN <<ls[lo], hs[hi]>> ELSE NoSums)
        /\ lo \in 1..n /\ hi \in 1..n
    BY <1>11, <2>1
  <2>3. Q[k] = r.out /\ Q[k - 1] = s.out
    BY <2>1
  <2>4. x[k] = IF k >= p THEN <<ls[lo], hs[hi]>> ELSE NoSums
    BY <2>1
  <2>5. Head(P[k].minDq) = lo /\ Head(P[k].maxDq) = hi
    BY <2>1
  <2> HIDE DEF Q, x, s, r, lo, hi
  <2>6. x[k] \in Pairs2
    BY <2>2, <2>4 DEF Pairs2, NoSums, None
  <2> QED BY <2>2, <2>3, <2>4, <2>5, <2>6
<1> HIDE DEF Q
<1>17. ASSUME NEW k \in 1..n
       PROVE  IF k >= p THEN ChannelOf(hs, ls, p, k, x[k]) ELSE x[k] = NoSums
  <2> DEFINE lo == Head(P[k].minDq)
             hi == Head(P[k].maxDq)
  <2>1. HighestOf(hs, p, k, hi)
    <3> DEFINE dq == P[k].maxDq
    <3>1. DequeOk(hs, p, k, dq)
      <4>1. k \in 0..n
        OBVIOUS
      <4> QED BY <1>14, <4>1
    <3> HIDE DEF dq
    <3>2. HighestOf(hs, p, k, Head(dq))
      BY <3>1, DequeFront
    <3> QED BY <3>2 DEF dq
  <2>2. HighestOf(ng, p, k, lo)
    <3> DEFINE dq == P[k].minDq
    <3>1. DequeOk(ng, p, k, dq)
      <4>1. k \in 0..n
        OBVIOUS
      <4> QED BY <1>14, <4>1
    <3> HIDE DEF dq
    <3>2. HighestOf(ng, p, k, Head(dq))
      BY <1>12, <3>1, DequeFront
    <3> QED BY <3>2 DEF dq
  <2>3. x[k] = IF k >= p THEN <<ls[lo], hs[hi]>> ELSE NoSums
    OBVIOUS
  <2> HIDE DEF lo, hi, x
  <2>4. \A j \in WindowOf(k, p, 0) : j \in 1..n
    BY DEF WindowOf
  <2>5. \A j \in WindowOf(k, p, 0) : ls[lo] <= ls[j] /\ hs[j] <= hs[hi]
    <3> TAKE j \in WindowOf(k, p, 0)
    <3>1. lo \in 1..n /\ j \in 1..n /\ ng[j] <= ng[lo] /\ hs[j] <= hs[hi]
      BY <2>1, <2>2, <2>4 DEF HighestOf
    <3>2. ls[lo] \in Int /\ ls[j] \in Int /\ ng[j] = 0 - ls[j] /\ ng[lo] = 0 - ls[lo]
      BY <1>12, <3>1
    <3> QED BY <3>1, <3>2
  <2>6. lo \in WindowOf(k, p, 0) /\ hi \in WindowOf(k, p, 0)
    BY <2>1, <2>2 DEF HighestOf
  <2> QED BY <2>3, <2>5, <2>6 DEF ChannelOf
<1>18. x \in [1..n -> Pairs2]
  BY <1>16
<1> HIDE DEF x
<1>19. \A j \in 1..n : Q[n][j] = x[j]
  <2>1. Q[0] \in Seq(Pairs2) /\ Len(Q[0]) = 0 /\ n \in 0..n
    BY <1>15
  <2>2. Appends(Q, Pairs2, 0, x, n)
    BY <1>16, <1>18, <2>1 DEF Appends
  <2>3. 0 \in Nat /\ \A j \in 1..n : j + 0 = j
    OBVIOUS
  <2>4. GoesOn(Q[0], Q[n], 0, x, n)
    BY <2>2, <2>3, AppendedAll
  <2> QED BY <2>3, <2>4 DEF GoesOn
<1> QED BY <1>15, <1>17, <1>19 DEF ChannelOrNone

-----------------------------------------------------------------------------
(* The times of the bars.                                                  *)

(* Bars are in the order of their times, and a cut keeps the order.        *)
Timed(b) ==
  \A i \in DOMAIN b : b[i].time \in Nat /\ \A j \in DOMAIN b : i < j => b[i].time < b[j].time
TimesInv == Timed(bars)

(* No bars are loaded when a command starts.                               *)
LEMMA TimesInvInit == Init => TimesInv
BY DEF Init, TimesInv, Timed

(* The bars that are loaded are later and later.                           *)
LEMMA TimesInvLoad ==
  ASSUME TradesInv, TimesInv, NEW time \in 0..MaxTime, NEW shape \in Shapes, LoadBar(time, shape)
  PROVE  TimesInv'
<1> DEFINE bar == [time |-> time, open |-> shape.open, high |-> shape.high,
                   low |-> shape.low, close |-> shape.close]
           n == Len(bars)
<1>1. bar \in MarketBars /\ bar.time = time /\ time \in Nat
  <2>1. IsShape(shape) /\ time \in Nat
    BY EngineAssumption
  <2> QED BY <2>1 DEF IsShape, MarketBars
<1>2. bars' = Append(bars, bar) /\ (bars # <<>> => Last(bars).time < time)
  BY DEF LoadBar
<1> HIDE DEF bar
<1>3. bars \in Seq(MarketBars) /\ n \in Nat /\ DOMAIN bars = 1..n
  BY DEF TradesInv
<1>4. /\ Len(bars') = n + 1 /\ DOMAIN bars' = 1..(n + 1) /\ bars'[n + 1] = bar
      /\ \A i \in 1..n : bars'[i] = bars[i]
  <2>1. /\ Append(bars, bar) \in Seq(MarketBars) /\ Len(Append(bars, bar)) = n + 1
        /\ Append(bars, bar)[n + 1] = bar /\ \A i \in 1..n : Append(bars, bar)[i] = bars[i]
    BY <1>1, <1>3, AppendProperties
  <2> QED BY <1>2, <2>1
<1>5. \A i \in 1..n : bars[i].time \in Nat /\ bars[i].time < time
  <2> TAKE i \in 1..n
  <2>1. bars # <<>> /\ Last(bars) = bars[n] /\ n \in 1..n
    BY <1>3 DEF Last
  <2>2. i = n \/ i < n
    <3>1. n \in Nat /\ i \in 1..n
      BY <1>3
    <3> HIDE DEF n
    <3> QED BY <3>1
  <2>3. bars[n].time < time /\ bars[n].time \in Nat /\ bars[i].time \in Nat
        /\ (i < n => bars[i].time < bars[n].time)
    BY <1>2, <1>3, <2>1 DEF TimesInv, Timed
  <2> QED BY <1>1, <2>2, <2>3
<1> HIDE DEF n
<1>6. ASSUME NEW i \in 1..(n + 1)
      PROVE  /\ bars'[i].time \in Nat
             /\ \A j \in 1..(n + 1) : i < j => bars'[i].time < bars'[j].time
  <2>1. CASE i = n + 1
    BY <1>1, <1>3, <1>4, <2>1
  <2>2. CASE i \in 1..n
    <3>1. bars'[i].time \in Nat /\ bars'[i] = bars[i]
      BY <1>4, <1>5, <2>2
    <3>2. ASSUME NEW j \in 1..(n + 1), i < j PROVE bars'[i].time < bars'[j].time
      <4>1. CASE j = n + 1
        BY <1>1, <1>4, <1>5, <2>2, <4>1
      <4>2. CASE j \in 1..n
        BY <1>3, <1>4, <2>2, <3>2, <4>2 DEF TimesInv, Timed
      <4> QED BY <1>3, <4>1, <4>2
    <3> QED BY <3>1, <3>2
  <2> QED BY <1>3, <2>1, <2>2
<1> QED BY <1>4, <1>6 DEF TimesInv, Timed

(* A window of them is in their order.                                     *)
LEMMA CutTimed ==
  ASSUME NEW all \in Seq(MarketBars), Timed(all), NEW window, NEW warmup \in Nat,
         CutFrom(all, window, warmup)
  PROVE  Timed(window)
<1>1. PICK first \in Nat \ {0}, end \in Nat :
        end <= Len(all) /\ end - first + 1 > warmup /\ window = SubSeq(all, first, end)
  BY DEF CutFrom
<1> DEFINE n == end - first + 1
<1>2. DOMAIN window = 1..n /\ \A i \in 1..n : window[i] = all[first + i - 1]
  <2>1. first <= end + 1 /\ \A i \in first .. end : i \in 1..Len(all)
    BY <1>1
  <2>2. \A i \in first .. end : all[i] \in MarketBars
    BY <2>1
  <2>3. /\ SubSeq(all, first, end) \in Seq(MarketBars) /\ Len(SubSeq(all, first, end)) = n
        /\ \A i \in 1..n : SubSeq(all, first, end)[i] = all[first + i - 1]
    BY <2>1, <2>2, SubSeqProperties
  <2> QED BY <1>1, <2>3
<1>3. \A i \in 1..n : first + i - 1 \in DOMAIN all
  BY <1>1
<1>4. ASSUME NEW i \in 1..n
      PROVE  window[i].time \in Nat /\ \A j \in 1..n : i < j => window[i].time < window[j].time
  <2>1. window[i] = all[first + i - 1] /\ first + i - 1 \in DOMAIN all
    BY <1>2, <1>3
  <2>2. ASSUME NEW j \in 1..n, i < j PROVE window[i].time < window[j].time
    <3>1. window[j] = all[first + j - 1] /\ first + j - 1 \in DOMAIN all
      BY <1>2, <1>3
    <3>2. first + i - 1 < first + j - 1
      BY <2>2
    <3> QED BY <2>1, <3>1, <3>2 DEF Timed
  <2> QED BY <2>1, <2>2 DEF Timed
<1> QED BY <1>2, <1>4 DEF Timed

(* So are the bars of the run.                                             *)
LEMMA TimesInvDataset ==
  ASSUME TradesInv, TimesInv, NEW from, NEW to, NEW warmup \in Warmups, NewDataset(from, to, warmup)
  PROVE  TimesInv'
<1> DEFINE period == ResolvePeriod(bars, from, to, warmup)
           window == IF period = <<>> THEN <<>> ELSE DatasetOf(bars, period[1], period[2], warmup)
<1>1. IF window = <<>> THEN UNCHANGED bars ELSE bars' = window
  BY DEF NewDataset
<1>2. window # <<>> => \E f, e : window = DatasetOf(bars, f, e, warmup)
  OBVIOUS
<1> HIDE DEF window
<1>3. CASE window = <<>>
  BY <1>1, <1>3 DEF TimesInv
<1>4. CASE window # <<>>
  <2>1. PICK f, e : window = DatasetOf(bars, f, e, warmup)
    BY <1>2, <1>4
  <2>2. warmup \in Nat /\ bars \in Seq(MarketBars)
    BY EngineAssumption DEF TradesInv
  <2>3. CutFrom(bars, DatasetOf(bars, f, e, warmup), warmup)
    BY <1>4, <2>1, <2>2, WindowCut
  <2>4. Timed(window)
    BY <2>1, <2>2, <2>3, CutTimed DEF TimesInv
  <2> QED BY <1>1, <1>4, <2>4 DEF TimesInv
<1> QED BY <1>3, <1>4

(* Every step keeps the order of the bars.                                 *)
LEMMA TimesInvStep == TradesInv /\ TimesInv /\ [Next]_vars => TimesInv'
<1> SUFFICES ASSUME TradesInv, TimesInv, [Next]_vars PROVE TimesInv'
  OBVIOUS
<1>1. ASSUME NEW time \in 0..MaxTime, NEW shape \in Shapes, LoadBar(time, shape) PROVE TimesInv'
  BY <1>1, TimesInvLoad
<1>2. ASSUME NEW from, NEW to, NEW warmup \in Warmups, NewDataset(from, to, warmup) PROVE TimesInv'
  BY <1>2, TimesInvDataset
<1>3. ASSUME NEW call \in Calls, OnBar(call) PROVE TimesInv'
  BY <1>3 DEF OnBar, TimesInv
<1>4. CASE UNCHANGED vars
  BY <1>4 DEF vars, TimesInv
<1> QED BY <1>1, <1>2, <1>3, <1>4 DEF Next

-----------------------------------------------------------------------------
(* The series of a timeframe at bar t.                                     *)

(* Bar i falls into a bucket; it starts at or before the bar, and ends     *)
(* after it.                                                               *)
BucketOf(tf, i) == bars[i].time \div tf
BucketEnd(tf, i) == (BucketOf(tf, i) + 1) * tf

(* Buckets come in the order of their bars.                                *)
LEMMA BucketsOrdered ==
  ASSUME bars \in Seq(MarketBars), Timed(bars), NEW tf \in Nat \ {0}, NEW i \in DOMAIN bars
  PROVE  /\ BucketOf(tf, i) \in Nat /\ BucketEnd(tf, i) \in Nat /\ bars[i].time < BucketEnd(tf, i)
         /\ \A j \in DOMAIN bars : /\ i <= j => BucketEnd(tf, i) <= BucketEnd(tf, j)
                                   /\ BucketEnd(tf, i) <= BucketEnd(tf, j) <=> BucketOf(tf, i) <= BucketOf(tf, j)
<1>1. \A k \in DOMAIN bars : /\ BucketOf(tf, k) \in Nat /\ BucketEnd(tf, k) \in Nat
                             /\ BucketOf(tf, k) * tf \in Nat /\ BucketOf(tf, k) * tf <= bars[k].time
                             /\ bars[k].time < BucketEnd(tf, k) /\ bars[k].time \in Nat
  <2> TAKE k \in DOMAIN bars
  <2> DEFINE m == bars[k].time
             q == BucketOf(tf, k)
  <2>1. m \in Nat
    BY DEF Timed
  <2>2. q = m \div tf /\ BucketEnd(tf, k) = (q + 1) * tf
    BY DEF BucketOf, BucketEnd
  <2> HIDE DEF m, q
  <2>3. q \in Nat /\ q * tf <= m /\ m < (q + 1) * tf
    BY <2>1, <2>2, DivBounds
  <2>4. q * tf \in Nat /\ (q + 1) * tf \in Nat
    <3>1. \A a, b \in Nat : a * b \in Nat
      OBVIOUS
    <3>2. q + 1 \in Nat /\ tf \in Nat
      BY <2>3
    <3> HIDE DEF q
    <3> QED BY <2>3, <3>1, <3>2
  <2> QED BY <2>1, <2>2, <2>3, <2>4 DEF m, q
<1>2. ASSUME NEW j \in DOMAIN bars
      PROVE  /\ BucketEnd(tf, i) <= BucketEnd(tf, j) <=> BucketOf(tf, i) <= BucketOf(tf, j)
             /\ BucketOf(tf, j) < BucketOf(tf, i) => BucketEnd(tf, j) <= BucketOf(tf, i) * tf
  <2> DEFINE a == BucketOf(tf, i)
             b == BucketOf(tf, j)
  <2>1. a \in Nat /\ b \in Nat /\ BucketEnd(tf, i) = (a + 1) * tf /\ BucketEnd(tf, j) = (b + 1) * tf
    BY <1>1 DEF BucketEnd
  <2> HIDE DEF a, b
  <2>2. a + 1 \in Int /\ b + 1 \in Int /\ a \in Int /\ (a + 1 <= b + 1 <=> a <= b) /\ (b < a <=> b + 1 <= a)
    BY <2>1
  <2>3. a + 1 <= b + 1 <=> (a + 1) * tf <= (b + 1) * tf
    BY <2>2, TimesMonotonic
  <2>4. b + 1 <= a <=> (b + 1) * tf <= a * tf
    BY <2>2, TimesMonotonic
  <2> QED BY <2>1, <2>2, <2>3, <2>4 DEF a, b
<1>3. ASSUME NEW j \in DOMAIN bars, i <= j PROVE BucketEnd(tf, i) <= BucketEnd(tf, j)
  <2> DEFINE a == BucketOf(tf, i)
             b == BucketOf(tf, j)
             x == BucketEnd(tf, j)
             y == a * tf
             s == bars[i].time
             e == bars[j].time
  <2>1. a \in Nat /\ b \in Nat /\ x \in Nat /\ y \in Nat /\ y <= s /\ e < x /\ s \in Nat /\ e \in Nat
    BY <1>1
  <2>2. s <= e
    <3>1. i = j \/ i < j
      BY <1>3
    <3>2. i < j => s < e
      BY DEF Timed
    <3> HIDE DEF s, e
    <3>3. i = j => s = e
      BY DEF s, e
    <3> QED BY <2>1, <3>1, <3>2, <3>3
  <2>3. b < a => x <= y
    BY <1>2
  <2>4. a <= b => BucketEnd(tf, i) <= x
    BY <1>2
  <2> HIDE DEF a, b, x, y, s, e
  <2>5. a <= b
    BY <2>1, <2>2, <2>3
  <2> QED BY <2>4, <2>5 DEF x
<1> QED BY <1>1, <1>2, <1>3

(* The bar of the series that one bar makes.                               *)
BarsOfFrame(tf) == [k \in DOMAIN bars |-> BarOf(tf, bars[k])]

(* It has the prices of the bar and the end of its bucket.                 *)
LEMMA FrameBar ==
  ASSUME bars \in Seq(MarketBars), Timed(bars), NEW tf \in Nat \ {0}, NEW k \in DOMAIN bars
  PROVE  LET w == BarsOfFrame(tf)[k]
         IN  /\ w \in SeriesBars /\ w = BarOf(tf, bars[k]) /\ w.end = BucketEnd(tf, k)
             /\ w.open = Mid2(bars[k].open) /\ w.close = Mid2(bars[k].close)
             /\ w.high = Mid2(bars[k].high) /\ w.low = Mid2(bars[k].low)
<1>1. bars[k] \in MarketBars
  OBVIOUS
<1>2. \A b \in Int : Mid2(b) \in Int
  BY SeriesAssumption DEF Mid2, Ask
<1>3. /\ Mid2(bars[k].open) \in Int /\ Mid2(bars[k].close) \in Int
      /\ Mid2(bars[k].high) \in Int /\ Mid2(bars[k].low) \in Int
  BY <1>1, <1>2 DEF MarketBars
<1> DEFINE x == BucketEnd(tf, k)
<1>4. BarOf(tf, bars[k]) = [open |-> Mid2(bars[k].open), high |-> Mid2(bars[k].high), low |-> Mid2(bars[k].low),
                           close |-> Mid2(bars[k].close), end |-> x]
  BY DEF BarOf, BucketEnd, BucketOf
<1>5. x \in Nat
  BY BucketsOrdered
<1> HIDE DEF x
<1>6. BarsOfFrame(tf)[k] = BarOf(tf, bars[k])
  BY DEF BarsOfFrame
<1> QED BY <1>3, <1>4, <1>5, <1>6 DEF SeriesBars, x

(* The series stands for the bars of the run.                              *)
LEMMA SeriesIs ==
  ASSUME bars \in Seq(MarketBars), Timed(bars), NEW tf \in Nat \ {0}
  PROVE  SeriesOk(BarsOfFrame(tf), Len(bars), Aggregate(bars, tf))
<1> DEFINE n == Len(bars)
           w == BarsOfFrame(tf)
<1>1. n \in Nat /\ DOMAIN bars = 1..n
  OBVIOUS
<1>2. \A k \in 1..n : w[k] \in SeriesBars /\ BarOf(tf, bars[k]) = w[k] /\ w[k].end = BucketEnd(tf, k)
  BY <1>1, FrameBar
<1>3. w \in [1..n -> SeriesBars]
  <2>1. w = [k \in 1..n |-> w[k]]
    BY <1>1 DEF BarsOfFrame
  <2> HIDE DEF w
  <2> QED BY <1>2, <2>1
<1>4. \A i, j \in 1..n : i <= j => w[i].end <= w[j].end
  <2> TAKE i, j \in 1..n
  <2>1. i <= j => BucketEnd(tf, i) <= BucketEnd(tf, j)
    BY <1>1, BucketsOrdered
  <2>2. w[i].end = BucketEnd(tf, i) /\ w[j].end = BucketEnd(tf, j)
    BY <1>2
  <2> QED BY <2>1, <2>2
<1> HIDE DEF n, w
<1>5. SeriesOk(w, n, Aggregate(bars, tf))
  BY <1>1, <1>2, <1>3, <1>4, AggregateIs
<1> QED BY <1>5 DEF n, w

(* A bar of the series says what the bars of its bucket say.               *)
GroupRead(S, g) ==
  /\ Mid2(bars[Min(S)].open) = g.open /\ Mid2(bars[Max(S)].close) = g.close
  /\ \A i \in S : /\ Mid2(bars[i].high) \in Int /\ Mid2(bars[i].low) \in Int
                  /\ Mid2(bars[i].high) <= g.high /\ g.low <= Mid2(bars[i].low)
  /\ \E i \in S : Mid2(bars[i].high) = g.high
  /\ \E i \in S : Mid2(bars[i].low) = g.low

(* That is so of the bar that stands for these bars.                       *)
LEMMA GroupIs ==
  ASSUME bars \in Seq(MarketBars), Timed(bars), NEW tf \in Nat \ {0}, NEW g,
         GroupOk(BarsOfFrame(tf), Len(bars), g), NEW S, \A i : i \in S <=> i \in DOMAIN bars /\ BucketEnd(tf, i) = g.end
  PROVE  GroupRead(S, g)
<1> DEFINE n == Len(bars)
           w == BarsOfFrame(tf)
<1>1. n \in Nat /\ DOMAIN bars = 1..n /\ S \subseteq 1..n /\ S \subseteq Int
  OBVIOUS
<1>2. \A k \in 1..n : /\ w[k] \in SeriesBars /\ w[k].end = BucketEnd(tf, k)
                      /\ w[k].open = Mid2(bars[k].open) /\ w[k].close = Mid2(bars[k].close)
                      /\ w[k].high = Mid2(bars[k].high) /\ w[k].low = Mid2(bars[k].low)
  BY <1>1, FrameBar
<1>3. \A k \in 1..n : k \in S <=> w[k].end = g.end
  BY <1>1, <1>2
<1>4. GroupOk(w, n, g)
  OBVIOUS
<1> HIDE DEF n, w
<1>5. Mid2(bars[Min(S)].open) = g.open
  <2>1. PICK i \in 1..n : w[i].end = g.end /\ w[i].open = g.open /\ \A j \in 1..n : w[j].end = g.end => i <= j
    BY <1>4 DEF GroupOk
  <2>2. i \in S /\ \A y \in S : i <= y
    BY <1>1, <1>3, <2>1
  <2>3. Min(S) = i
    BY <1>1, <2>2, LeastOf
  <2> QED BY <1>2, <2>1, <2>3
<1>6. Mid2(bars[Max(S)].close) = g.close
  <2>1. PICK i \in 1..n : w[i].end = g.end /\ w[i].close = g.close /\ \A j \in 1..n : w[j].end = g.end => j <= i
    BY <1>4 DEF GroupOk
  <2>2. i \in S /\ \A y \in S : y <= i
    BY <1>1, <1>3, <2>1
  <2>3. Max(S) = i
    BY <1>1, <2>2, GreatestOf
  <2> QED BY <1>2, <2>1, <2>3
<1>7. \A i \in S : /\ Mid2(bars[i].high) \in Int /\ Mid2(bars[i].low) \in Int
                   /\ Mid2(bars[i].high) <= g.high /\ g.low <= Mid2(bars[i].low)
  <2> TAKE i \in S
  <2>1. i \in 1..n /\ w[i].end = g.end
    BY <1>1, <1>3
  <2>2. w[i].high <= g.high /\ g.low <= w[i].low
    BY <1>4, <2>1 DEF GroupOk
  <2>3. w[i].high \in Int /\ w[i].low \in Int
    BY <1>2, <2>1 DEF SeriesBars
  <2> QED BY <1>2, <2>1, <2>2, <2>3
<1>8. \E i \in S : Mid2(bars[i].high) = g.high
  BY <1>2, <1>3, <1>4 DEF GroupOk
<1>9. \E i \in S : Mid2(bars[i].low) = g.low
  BY <1>2, <1>3, <1>4 DEF GroupOk
<1> QED BY <1>5, <1>6, <1>7, <1>8, <1>9 DEF GroupRead

(* What the script may read at bar t are the first bars of the series, as  *)
(* many as buckets have ended, each made of the bars of its own bucket.    *)
ReadOk(tf, t, s, c) ==
  /\ s \in Seq(SeriesBars) /\ c \in Nat /\ c <= Len(s)
  /\ Cardinality(EndedWith(tf, t)) = c
  /\ \A k \in 1..c : GroupRead(BarsIn(tf, t, k), s[k])

(* That is what completed_counts gives the script.                         *)
LEMMA ReadIs ==
  ASSUME bars \in Seq(MarketBars), Timed(bars), NEW tf \in Nat \ {0}, NEW t \in DOMAIN bars
  PROVE  ReadOk(tf, t, Aggregate(bars, tf), Completed(bars, tf, t))
<1> DEFINE m == Len(bars)
           s == Aggregate(bars, tf)
           n == Len(s)
           e == [k \in 1..n |-> s[k].end]
           x == bars[t].time + 1
           U == UpTo(e, n, x)
           c == Cardinality(U)
           w == BarsOfFrame(tf)
<1>1. m \in Nat /\ DOMAIN bars = 1..m /\ t \in 1..m /\ x \in Nat
  BY DEF Timed
<1>2. SeriesOk(w, m, s)
  BY SeriesIs
<1>3. \A k \in 1..m : w[k].end = BucketEnd(tf, k)
  BY <1>1, FrameBar
<1> HIDE DEF w, s
<1>4. s \in Seq(SeriesBars) /\ n \in Nat /\ DOMAIN s = 1..n /\ \A k \in 1..n : s[k].end \in Nat
  <2>1. s \in Seq(SeriesBars) /\ n \in Nat /\ DOMAIN s = 1..n
    BY <1>2 DEF SeriesOk
  <2>2. \A k \in 1..n : s[k] \in SeriesBars
    BY <2>1, ElementOfSeq
  <2> QED BY <2>1, <2>2 DEF SeriesBars
<1> HIDE DEF n
<1>6. \A k \in 1..n : e[k] = s[k].end
  OBVIOUS
<1> HIDE DEF e, x
<1>5. Increasing(e, n)
  <2>1. \A i, j \in 1..n : i < j => s[i].end < s[j].end
    BY <1>2, <1>4 DEF SeriesOk
  <2> QED BY <1>4, <1>6, <2>1 DEF Increasing
<1>7. c \in 0..n /\ U = 1..c
  BY <1>1, <1>4, <1>5, FirstOnes
<1>8. Completed(bars, tf, t) = c
  <2>1. {i \in 1..n : BucketEnded(s[i].end, bars[t].time)} = U
    BY <1>6 DEF UpTo, BucketEnded, x
  <2> QED BY <1>4, <2>1 DEF Completed, s
<1> HIDE DEF c, U
<1>9. \A k \in 1..n : k \in 1..c <=> e[k] <= x
  BY <1>7 DEF U, UpTo
<1>10. \A k \in 1..n : \E j \in 1..m : BucketEnd(tf, j) = e[k]
  <2> TAKE k \in 1..n
  <2>1. GroupOk(w, m, s[k])
    BY <1>2, <1>4 DEF SeriesOk
  <2>2. PICK j \in 1..m : w[j].end = s[k].end
    BY <2>1 DEF GroupOk
  <2> QED BY <1>3, <1>6, <2>2
<1>11. \A j \in 1..m : \E k \in 1..n : e[k] = BucketEnd(tf, j)
  BY <1>2, <1>3, <1>4, <1>6 DEF SeriesOk
<1> DEFINE b(k) == CHOOSE j \in 1..m : BucketEnd(tf, j) = e[k]
           B == [k \in 1..n |-> BucketOf(tf, b(k))]
<1>12. \A k \in 1..n : b(k) \in 1..m /\ BucketEnd(tf, b(k)) = e[k] /\ B[k] = BucketOf(tf, b(k))
  BY <1>10
<1> HIDE DEF b, B
<1>13. \A i, j \in 1..m : /\ BucketOf(tf, i) \in Nat /\ BucketEnd(tf, i) \in Nat /\ bars[i].time < BucketEnd(tf, i)
                          /\ BucketEnd(tf, i) <= BucketEnd(tf, j) <=> BucketOf(tf, i) <= BucketOf(tf, j)
  BY <1>1, BucketsOrdered
<1>14. \A k \in 1..n, j \in 1..m : BucketOf(tf, j) = B[k] <=> BucketEnd(tf, j) = e[k]
  <2> TAKE k \in 1..n, j \in 1..m
  <2>1. /\ BucketEnd(tf, j) <= e[k] <=> BucketOf(tf, j) <= B[k]
        /\ e[k] <= BucketEnd(tf, j) <=> B[k] <= BucketOf(tf, j)
    BY <1>12, <1>13
  <2>2. BucketOf(tf, j) \in Nat /\ BucketEnd(tf, j) \in Nat /\ B[k] \in Nat /\ e[k] \in Nat
    BY <1>12, <1>13
  <2> QED BY <2>1, <2>2
<1>15. Increasing(B, c)
  <2>1. \A k \in 1..c : k \in 1..n /\ B[k] \in Int
    <3> TAKE k \in 1..c
    <3>1. k \in 1..n
      BY <1>4, <1>7
    <3> QED BY <1>12, <1>13, <3>1
  <2>2. ASSUME NEW i \in 1..c, NEW j \in 1..c, i < j PROVE B[i] < B[j]
    <3>1. i \in 1..n /\ j \in 1..n
      BY <2>1
    <3>2. e[i] < e[j]
      BY <1>5, <2>2, <3>1 DEF Increasing
    <3>3. B[i] \in Nat /\ B[j] \in Nat /\ (e[j] <= e[i] <=> B[j] <= B[i]) /\ e[i] \in Nat /\ e[j] \in Nat
      BY <1>12, <1>13, <3>1
    <3> QED BY <3>2, <3>3
  <2> QED BY <2>1, <2>2 DEF Increasing
<1>16. \A j \in 1..m : BucketEnd(tf, j) <= x => j <= t
  <2> SUFFICES ASSUME NEW j \in 1..m, BucketEnd(tf, j) <= bars[t].time + 1, t < j PROVE FALSE
    BY <1>1 DEF x
  <2>1. bars[t].time < bars[j].time /\ bars[j].time \in Nat /\ bars[t].time \in Nat
    BY <1>1 DEF Timed
  <2>2. bars[j].time < BucketEnd(tf, j) /\ BucketEnd(tf, j) \in Nat /\ BucketEnd(tf, j) <= bars[t].time + 1
    BY <1>13
  <2> QED BY <2>1, <2>2
<1> HIDE DEF m
<1>17. EndedWith(tf, t) = Firsts(B, c)
  <2>1. EndedWith(tf, t) = {BucketOf(tf, i) : i \in {j \in 1..t : BucketEnd(tf, j) <= x}}
    BY DEF EndedWith, BucketOf, BucketEnd, x
  <2>2. ASSUME NEW i \in 1..t, BucketEnd(tf, i) <= x PROVE \E k \in 1..c : B[k] = BucketOf(tf, i)
    <3>1. i \in 1..m
      BY <1>1
    <3>2. PICK k \in 1..n : e[k] = BucketEnd(tf, i)
      BY <1>11, <3>1
    <3> QED BY <1>9, <1>14, <2>2, <3>1, <3>2
  <2>3. ASSUME NEW k \in 1..c PROVE \E i \in 1..t : BucketEnd(tf, i) <= x /\ BucketOf(tf, i) = B[k]
    <3>1. k \in 1..n /\ e[k] <= x
      BY <1>4, <1>7, <1>9
    <3>2. b(k) \in 1..m /\ BucketEnd(tf, b(k)) <= x /\ BucketOf(tf, b(k)) = B[k]
      BY <1>12, <3>1
    <3>3. b(k) \in 1..t
      BY <1>1, <1>16, <3>2
    <3> QED BY <3>2, <3>3
  <2> QED BY <2>1, <2>2, <2>3 DEF Firsts
<1>18. Cardinality(EndedWith(tf, t)) = c
  <2>1. c \in Nat /\ c \in 0..c
    BY <1>7
  <2> QED BY <1>15, <1>17, <2>1, FirstsCounted
<1>19. ASSUME NEW k \in 1..c PROVE GroupRead(BarsIn(tf, t, k), s[k])
  <2>1. k \in 1..n /\ e[k] <= x /\ c \in Nat
    BY <1>4, <1>7, <1>9
  <2>2. NthOf(EndedWith(tf, t), k) = B[k]
    <3>1. Ranked(Firsts(B, c), k) = B[k]
      BY <1>15, <2>1, RankIs
    <3> QED BY <1>17, <3>1 DEF NthOf, Ranked
  <2>3. BarsIn(tf, t, k) = {i \in 1..t : BucketOf(tf, i) = B[k]}
    BY <2>2 DEF BarsIn, BucketOf
  <2>4. \A i : i \in BarsIn(tf, t, k) <=> i \in DOMAIN bars /\ BucketEnd(tf, i) = s[k].end
    <3> TAKE i
    <3>1. i \in 1..t => i \in 1..m
      BY <1>1
    <3>2. i \in 1..m /\ BucketEnd(tf, i) = e[k] => i \in 1..t
      BY <1>1, <1>16, <2>1
    <3> QED BY <1>1, <1>6, <1>14, <2>1, <2>3, <3>1, <3>2
  <2>5. GroupOk(w, m, s[k])
    BY <1>2, <1>4, <2>1 DEF SeriesOk
  <2> DEFINE g == s[k]
             S == BarsIn(tf, t, k)
  <2>6. GroupOk(BarsOfFrame(tf), Len(bars), g) /\ \A i : i \in S <=> i \in DOMAIN bars /\ BucketEnd(tf, i) = g.end
    BY <2>4, <2>5 DEF w, m
  <2> HIDE DEF g, S
  <2>7. GroupRead(S, g)
    BY <2>6, GroupIs
  <2> QED BY <2>7 DEF g, S
<1>20. c \in Nat /\ c <= Len(s)
  BY <1>4, <1>7 DEF n
<1> QED BY <1>4, <1>8, <1>18, <1>19, <1>20 DEF ReadOk, s

-----------------------------------------------------------------------------
(* What a call of an indicator answers at bar t.                           *)

Ints(c, n) == c \in [1..n -> Int]

(* f holds the closes of the window that ends at i, or what they gain and  *)
(* lose.                                                                   *)
ClosesIn(f, c, p, i) == DOMAIN f = i - p + 1 .. i /\ \A k \in 1..i : k \in DOMAIN f => f[k] = c[k]
GainsIn(f, c, p, i) ==
  DOMAIN f = i - p + 1 .. i /\ \A k \in 2..i : k \in DOMAIN f => f[k] = LargerOf(c[k] - c[k - 1], 0)
LossesIn(f, c, p, i) ==
  DOMAIN f = i - p + 1 .. i /\ \A k \in 2..i : k \in DOMAIN f => f[k] = LargerOf(c[k - 1] - c[k], 0)

(* The sum of the closes is the one over the window of ended buckets.      *)
LEMMA SmaReads ==
  ASSUME NEW n \in Nat, NEW c, Ints(c, n), NEW p \in Nat \ {0}, NEW i \in 1..n,
         NEW f, ClosesIn(f, c, p, i)
  PROVE  SmaSums(c, p)[i] = IF i < p THEN None ELSE SumFunction(f)
<1>4. DOMAIN f = i - p + 1 .. i /\ \A k \in 1..i : k \in DOMAIN f => f[k] = c[k]
  BY DEF ClosesIn
<1>1. SmaSums(c, p)[i] = IF i >= p THEN SumOf(c, WindowOf(i, p, 0)) ELSE None
  BY SmaIs DEF Ints
<1>2. CASE i < p
  BY <1>1, <1>2
<1>3. CASE ~(i < p)
  <2> DEFINE W == WindowOf(i, p, 0)
  <2>1. DOMAIN f = W /\ IsFiniteSet(W) /\ W \subseteq 1..i
    <3>1. i \in Nat /\ 0 \in Nat /\ i >= p /\ i + 0 = i /\ 0 + 1 = 1
      BY <1>3
    <3>2. /\ W = (i + 0) - p + 1 .. i + 0 /\ IsFiniteSet(W)
          /\ W \subseteq (0 + 1) .. (i + 0)
      BY <3>1, WindowEnds
    <3> QED BY <1>4, <3>1, <3>2
  <2> HIDE DEF W
  <2>2. SumFunction(f) = SumOf(f, W)
    BY <2>1, AddedIs
  <2>3. \A k \in W : f[k] = c[k]
    BY <1>4, <2>1
  <2>4. SumOf(f, W) = SumOf(c, W)
    <3>1. IsFiniteSet(W)
      BY <2>1
    <3> QED BY <2>3, <3>1, SumSame
  <2> QED BY <1>1, <1>3, <2>2, <2>4 DEF W
<1> QED BY <1>2, <1>3

(* So are the sums of what they gain and lose.                             *)
LEMMA RsiReads ==
  ASSUME NEW n \in Nat, NEW c, Ints(c, n), NEW p \in Nat \ {0}, NEW i \in 1..n,
         NEW f, GainsIn(f, c, p, i), NEW h, LossesIn(h, c, p, i)
  PROVE  RsiSums(c, p)[i] = IF i < p + 1 THEN NoSums ELSE <<SumFunction(f), SumFunction(h)>>
<1>1. c \in Seq(Int) /\ Len(c) = n /\ c \in [1..n -> Int]
  BY FunctionSequence DEF Ints
<1>2. CASE n < p + 1
  <2>1. RsiSums(c, p) = [x \in DOMAIN c |-> NoSums]
    BY <1>1, <1>2 DEF RsiSums, NoSums
  <2>2. RsiSums(c, p)[i] = NoSums /\ i < p + 1
    BY <1>1, <1>2, <2>1
  <2> QED BY <2>2
<1>3. CASE ~(n < p + 1)
  <2> DEFINE m == n - 1
             G == GainsOf(c, n)
             L == LossesOf(c, n)
             W == WindowOf(i - 1, p, 1)
  <2>1. m \in Nat /\ m + 1 = n /\ Len(c) = m + 1 /\ ~(Len(c) < p + 1) /\ i \in 1..(m + 1)
    BY <1>1, <1>3
  <2>2. RsiSums(c, p)[i] = IF i > p THEN <<SumOf(G, W), SumOf(L, W)>> ELSE NoSums
    <3>1. \A k \in 1..(m + 1) :
            RsiSums(c, p)[k] = IF k > p THEN <<SumOf(GainsOf(c, m + 1), WindowOf(k - 1, p, 1)),
                                               SumOf(LossesOf(c, m + 1), WindowOf(k - 1, p, 1))>>
                               ELSE NoSums
      <4> HIDE DEF m
      <4> QED BY <1>1, <2>1, RsiFolds
    <3>2. m + 1 = n
      BY <2>1
    <3> QED BY <2>1, <3>1, <3>2
  <2>3. CASE i < p + 1
    BY <2>2, <2>3
  <2>4. CASE ~(i < p + 1)
    <3>1. DOMAIN f = W /\ DOMAIN h = W /\ IsFiniteSet(W) /\ W \subseteq 2..i
      <4> DEFINE j == i - 1
      <4>1. j \in Nat /\ 1 \in Nat /\ j >= p /\ j + 1 = i /\ 1 + 1 = 2
        BY <2>4
      <4> HIDE DEF j
      <4>2. /\ WindowOf(j, p, 1) = (j + 1) - p + 1 .. j + 1 /\ IsFiniteSet(WindowOf(j, p, 1))
            /\ WindowOf(j, p, 1) \subseteq (1 + 1) .. (j + 1)
        BY <4>1, WindowEnds
      <4>3. WindowOf(j, p, 1) = i - p + 1 .. i /\ WindowOf(j, p, 1) \subseteq 2..i
        BY <4>1, <4>2
      <4> QED BY <4>2, <4>3 DEF j, GainsIn, LossesIn
    <3> HIDE DEF W
    <3>2. SumFunction(f) = SumOf(f, W) /\ SumFunction(h) = SumOf(h, W)
      BY <3>1, AddedIs
    <3>3. \A k \in W : f[k] = G[k] /\ h[k] = L[k]
      <4> TAKE k \in W
      <4>1. k \in 2..i /\ k \in 2..n /\ k - 1 \in 1..n /\ k \in 1..n /\ (k - 1) + 1 = k
        BY <3>1
      <4>2. G[k] = Gain(c, k - 1) /\ L[k] = Loss(c, k - 1)
        BY <4>1 DEF GainsOf, LossesOf
      <4>3. c[k] \in Int /\ c[k - 1] \in Int
        BY <1>1, <4>1
      <4>4. /\ Gain(c, k - 1) = IF c[k] > c[k - 1] THEN c[k] - c[k - 1] ELSE 0
            /\ Loss(c, k - 1) = IF c[k] > c[k - 1] THEN 0 ELSE c[k - 1] - c[k]
        BY <4>1 DEF Gain, Loss
      <4>5. /\ Gain(c, k - 1) = LargerOf(c[k] - c[k - 1], 0)
            /\ Loss(c, k - 1) = LargerOf(c[k - 1] - c[k], 0)
        BY <4>3, <4>4 DEF LargerOf
      <4>6. f[k] = LargerOf(c[k] - c[k - 1], 0) /\ h[k] = LargerOf(c[k - 1] - c[k], 0)
        BY <3>1, <4>1 DEF GainsIn, LossesIn
      <4> QED BY <4>2, <4>5, <4>6
    <3> HIDE DEF G, L
    <3>4. SumOf(f, W) = SumOf(G, W)
      <4>1. IsFiniteSet(W) /\ \A k \in W : f[k] = G[k]
        BY <3>1, <3>3
      <4> QED BY <4>1, SumSame
    <3>5. SumOf(h, W) = SumOf(L, W)
      <4>1. IsFiniteSet(W) /\ \A k \in W : h[k] = L[k]
        BY <3>1, <3>3
      <4> QED BY <4>1, SumSame
    <3> QED BY <2>2, <2>4, <3>2, <3>4, <3>5
  <2> QED BY <2>3, <2>4
<1> QED BY <1>2, <1>3

(* The bars of ended buckets reach as far as the channel says.             *)
ExtremesOf(s, c, hs, ls) == \A k \in 1..c : hs[k] = s[k].high /\ ls[k] = s[k].low
AllIn(tf, t, p, i) == UNION {BarsIn(tf, t, k) : k \in i - p + 1 .. i}
Reach(all) == <<Min({Mid2(bars[j].low) : j \in all}), Max({Mid2(bars[j].high) : j \in all})>>

(* The channel is the one over the bars of the window.                     *)
LEMMA ChannelReads ==
  ASSUME NEW tf, NEW t, NEW c, NEW s, ReadOk(tf, t, s, c), NEW hs, NEW ls, ExtremesOf(s, c, hs, ls),
         NEW i \in 1..c, NEW p \in Nat \ {0}, i >= p, NEW z, ChannelOf(hs, ls, p, i, z)
  PROVE  z = Reach(AllIn(tf, t, p, i))
<1> DEFINE all == AllIn(tf, t, p, i)
           W == WindowOf(i, p, 0)
           Lows == {Mid2(bars[j].low) : j \in all}
           Highs == {Mid2(bars[j].high) : j \in all}
<1>0. /\ c \in Nat /\ s \in Seq(SeriesBars) /\ c <= Len(s)
       /\ \A k \in 1..c : GroupRead(BarsIn(tf, t, k), s[k]) /\ hs[k] = s[k].high /\ ls[k] = s[k].low
  BY DEF ReadOk, ExtremesOf
<1>1. W = i - p + 1 .. i /\ W \subseteq 1..c
  <2>1. i \in Nat /\ 0 \in Nat /\ i + 0 = i /\ 0 + 1 = 1
    BY <1>0
  <2>2. W = (i + 0) - p + 1 .. i + 0 /\ W \subseteq (0 + 1) .. (i + 0)
    BY <2>1, WindowEnds
  <2> HIDE DEF W
  <2> QED BY <1>0, <2>1, <2>2
<1>2. PICK x, y \in W : z = <<ls[x], hs[y]>> /\ \A j \in W : ls[x] <= ls[j] /\ hs[j] <= hs[y]
  BY DEF ChannelOf
<1> HIDE DEF W
<1>3. all = UNION {BarsIn(tf, t, k) : k \in W}
  BY <1>1 DEF AllIn
<1> HIDE DEF all
<1>4. \A k \in W : GroupRead(BarsIn(tf, t, k), s[k]) /\ ls[k] = s[k].low /\ hs[k] = s[k].high
                   /\ ls[k] \in Int /\ hs[k] \in Int
  <2> TAKE k \in W
  <2>1. k \in 1..c /\ k \in 1..Len(s)
    BY <1>1, <1>0
  <2>2. s[k] \in SeriesBars
    BY <1>0, <2>1, ElementOfSeq
  <2> QED BY <1>0, <2>1, <2>2 DEF SeriesBars
<1>5. ASSUME NEW j \in all
      PROVE  /\ Mid2(bars[j].low) \in Int /\ Mid2(bars[j].high) \in Int
             /\ ls[x] <= Mid2(bars[j].low) /\ Mid2(bars[j].high) <= hs[y]
  <2>1. PICK k \in W : j \in BarsIn(tf, t, k)
    BY <1>3
  <2>2. /\ Mid2(bars[j].high) \in Int /\ Mid2(bars[j].low) \in Int
        /\ Mid2(bars[j].high) <= hs[k] /\ ls[k] <= Mid2(bars[j].low)
    BY <1>4, <2>1 DEF GroupRead
  <2>3. ls[x] <= ls[k] /\ hs[k] <= hs[y] /\ ls[x] \in Int /\ ls[k] \in Int /\ hs[k] \in Int /\ hs[y] \in Int
    BY <1>2, <1>4
  <2> HIDE DEF W
  <2> QED BY <2>2, <2>3
<1>6. PICK j \in all : Mid2(bars[j].low) = ls[x]
  <2>1. \E j \in BarsIn(tf, t, x) : Mid2(bars[j].low) = ls[x]
    BY <1>4 DEF GroupRead
  <2> QED BY <1>3, <2>1
<1>7. PICK k \in all : Mid2(bars[k].high) = hs[y]
  <2>1. \E m \in BarsIn(tf, t, y) : Mid2(bars[m].high) = hs[y]
    BY <1>4 DEF GroupRead
  <2> QED BY <1>3, <2>1
<1>8. Lows \subseteq Int /\ ls[x] \in Lows /\ \A v \in Lows : ls[x] <= v
  BY <1>5, <1>6
<1>9. Highs \subseteq Int /\ hs[y] \in Highs /\ \A v \in Highs : v <= hs[y]
  BY <1>5, <1>7
<1> HIDE DEF Lows, Highs
<1>10. Min(Lows) = ls[x]
  BY <1>8, LeastOf
<1>11. Max(Highs) = hs[y]
  BY <1>9, GreatestOf
<1> QED BY <1>2, <1>10, <1>11 DEF Lows, Highs, Reach, all

(* The answer, part by part.                                               *)
AnswerIs(tf, t, i, answer) ==
  LET window == i - Period + 1 .. i
      read == BarsIn(tf, t, i)
      all == UNION {BarsIn(tf, t, k) : k \in window}
  IN  /\ answer[1].open = Mid2(bars[Min(read)].open)
      /\ answer[1].close = Mid2(bars[Max(read)].close)
      /\ answer[1].high = Max({Mid2(bars[j].high) : j \in read})
      /\ answer[1].low = Min({Mid2(bars[j].low) : j \in read})
      /\ answer[2] = IF i < Period THEN None
                     ELSE SumFunction([k \in window |-> CloseIn(tf, t, k)])
      /\ answer[3] = IF i < Period + 1 THEN <<None, None>>
                     ELSE <<SumFunction([k \in window |-> Gained(tf, t, k)]),
                            SumFunction([k \in window |-> Lost(tf, t, k)])>>
      /\ answer[4] = IF i < Period THEN <<None, None>>
                     ELSE <<Min({Mid2(bars[j].low) : j \in all}), Max({Mid2(bars[j].high) : j \in all})>>

(* Each part of the answer is made of the ended buckets.                   *)
LEMMA AnswerParts ==
  ASSUME NEW tf, NEW t, NEW shift, NEW c, NEW s, NEW i,
         s = Aggregate(bars, tf), c = Completed(bars, tf, t), ReadOk(tf, t, s, c),
         i \in 1..c, i = ResolveIndex(bars, tf, t, shift)
  PROVE  AnswerIs(tf, t, i, Answer(bars, tf, t, shift, Period))
<1> DEFINE n == Len(s)
           closes == [k \in DOMAIN s |-> s[k].close]
           hs == [k \in DOMAIN s |-> s[k].high]
           ls == [k \in DOMAIN s |-> s[k].low]
           p == Period
           bar == [open |-> s[i].open, high |-> s[i].high, low |-> s[i].low, close |-> s[i].close]
           sma == SmaSums(closes, p)[i]
           rsi == RsiSums(closes, p)[i]
           don == Donchian(hs, ls, p)[i]
           answer == Answer(bars, tf, t, shift, Period)
           window == i - p + 1 .. i
           read == BarsIn(tf, t, i)
           all == UNION {BarsIn(tf, t, k) : k \in window}
<1>1. p \in Nat \ {0}
  BY EngineAssumption
<1>2. s \in Seq(SeriesBars) /\ n \in Nat /\ DOMAIN s = 1..n /\ c \in Nat /\ c <= n /\ i \in 1..n /\ i # 0
  BY DEF ReadOk
<1>3. \A k \in 1..n : s[k] \in SeriesBars
  BY <1>2, ElementOfSeq
<1>4. \A k \in 1..n : /\ s[k].open \in Int /\ s[k].high \in Int /\ s[k].low \in Int /\ s[k].close \in Int
  BY <1>3 DEF SeriesBars
<1>5. /\ closes \in [1..n -> Int] /\ hs \in [1..n -> Int] /\ ls \in [1..n -> Int]
      /\ \A k \in 1..n : closes[k] = s[k].close /\ hs[k] = s[k].high /\ ls[k] = s[k].low
  BY <1>2, <1>4
<1>6. answer = <<bar, sma, rsi, don>>
  BY <1>2 DEF Answer, Compute
<1>7. \A k \in 1..c : /\ GroupRead(BarsIn(tf, t, k), s[k]) /\ k \in 1..n
                      /\ CloseIn(tf, t, k) = closes[k]
  <2> TAKE k \in 1..c
  <2>1. GroupRead(BarsIn(tf, t, k), s[k]) /\ k \in 1..n
    BY <1>2 DEF ReadOk
  <2>2. CloseIn(tf, t, k) = s[k].close
    BY <2>1 DEF GroupRead, CloseIn
  <2> QED BY <1>5, <2>1, <2>2
<1>8. /\ answer[1] = bar /\ answer[2] = sma /\ answer[3] = rsi /\ answer[4] = don
  <2> HIDE DEF answer, bar, sma, rsi, don
  <2> QED BY <1>6
<1>9. /\ bar.open = Mid2(bars[Min(read)].open)
      /\ bar.close = Mid2(bars[Max(read)].close)
  BY <1>7 DEF GroupRead
<1>10. bar.high = Max({Mid2(bars[j].high) : j \in read})
  <2> DEFINE S == {Mid2(bars[j].high) : j \in read}
             x == s[i].high
  <2>1. S \subseteq Int /\ x \in S /\ \A y \in S : y <= x
    BY <1>7 DEF GroupRead
  <2>2. bar.high = x
    OBVIOUS
  <2> HIDE DEF S, x, bar
  <2>3. Max(S) = x
    BY <2>1, GreatestOf
  <2> QED BY <2>2, <2>3 DEF S
<1>11. bar.low = Min({Mid2(bars[j].low) : j \in read})
  <2> DEFINE S == {Mid2(bars[j].low) : j \in read}
             x == s[i].low
  <2>1. S \subseteq Int /\ x \in S /\ \A y \in S : x <= y
    BY <1>7 DEF GroupRead
  <2>2. bar.low = x
    OBVIOUS
  <2> HIDE DEF S, x, bar
  <2>3. Min(S) = x
    BY <2>1, LeastOf
  <2> QED BY <2>2, <2>3 DEF S
<1> HIDE DEF n, closes, hs, ls, p, bar
<1>12. sma = IF i < p THEN None ELSE SumFunction([k \in window |-> CloseIn(tf, t, k)])
  <2> DEFINE f == [k \in window |-> CloseIn(tf, t, k)]
  <2>1. ClosesIn(f, closes, p, i)
    <3>1. \A k \in 1..i : k \in 1..c
      BY <1>2
    <3> QED BY <1>7, <3>1 DEF ClosesIn
  <2> HIDE DEF f
  <2>2. sma = IF i < p THEN None ELSE SumFunction(f)
    <3>1. Ints(closes, n)
      BY <1>5 DEF Ints
    <3> QED BY <1>1, <1>2, <2>1, <3>1, SmaReads
  <2> QED BY <2>2 DEF f
<1>13. rsi = IF i < p + 1 THEN <<None, None>>
             ELSE <<SumFunction([k \in window |-> Gained(tf, t, k)]),
                    SumFunction([k \in window |-> Lost(tf, t, k)])>>
  <2> DEFINE f == [k \in window |-> Gained(tf, t, k)]
             h == [k \in window |-> Lost(tf, t, k)]
  <2>1. \A k \in 2..i : CloseIn(tf, t, k) = closes[k] /\ CloseIn(tf, t, k - 1) = closes[k - 1]
    <3>1. \A k \in 2..i : k \in 1..c /\ k - 1 \in 1..c
      BY <1>2
    <3> QED BY <1>7, <3>1
  <2>2. GainsIn(f, closes, p, i)
    BY <2>1 DEF GainsIn, Gained
  <2>3. LossesIn(h, closes, p, i)
    BY <2>1 DEF LossesIn, Lost
  <2> HIDE DEF f, h
  <2>4. rsi = IF i < p + 1 THEN NoSums ELSE <<SumFunction(f), SumFunction(h)>>
    <3>1. Ints(closes, n)
      BY <1>5 DEF Ints
    <3> QED BY <1>1, <1>2, <2>2, <2>3, <3>1, RsiReads
  <2> QED BY <2>4 DEF f, h, NoSums
<1>14. don = IF i < p THEN <<None, None>>
             ELSE <<Min({Mid2(bars[j].low) : j \in all}), Max({Mid2(bars[j].high) : j \in all})>>
  <2>1. IF i >= p THEN ChannelOf(hs, ls, p, i, don) ELSE don = NoSums
    <3>1. ChannelOrNone(hs, ls, p, i, don)
      BY <1>1, <1>2, <1>5, DonchianIs
    <3> QED BY <3>1 DEF ChannelOrNone
  <2>2. CASE i < p
    BY <1>1, <1>2, <2>1, <2>2 DEF NoSums
  <2>3. CASE ~(i < p)
    <3>1. i \in 1..c /\ i >= p /\ ChannelOf(hs, ls, p, i, don)
      BY <1>1, <1>2, <2>1, <2>3
    <3>2. ExtremesOf(s, c, hs, ls)
      BY <1>5, <1>7 DEF ExtremesOf
    <3> HIDE DEF don
    <3>3. don = Reach(AllIn(tf, t, p, i))
      BY <1>1, <3>1, <3>2, ChannelReads
    <3> QED BY <2>3, <3>3 DEF Reach, AllIn
  <2> QED BY <2>2, <2>3
<1> HIDE DEF sma, rsi, don, answer
<1> QED BY <1>8, <1>9, <1>10, <1>11, <1>12, <1>13, <1>14 DEF AnswerIs, answer, p

(* In any timeframe and at any bar, a script that asks for the last ended  *)
(* bucket or for the one before reads what the bars of these buckets say,  *)
(* and the indicators are those of the last Period ended buckets           *)
(* (AnswersFromThePast): series.rs and calc.rs compute them once over the  *)
(* whole dataset, with rolling sums and deques.                            *)
LEMMA AnswersAreRight == TradesInv /\ TimesInv => AnswersFromThePast
<1> SUFFICES ASSUME TradesInv, TimesInv, NEW tf \in Frames, NEW t \in DOMAIN bars, NEW shift \in 0..1
             PROVE  LET last == Cardinality(EndedWith(tf, t)) - shift
                    IN  IF last < 1 THEN Answer(bars, tf, t, shift, Period) = <<>>
                        ELSE AnswerIs(tf, t, last, Answer(bars, tf, t, shift, Period))
  BY DEF AnswersFromThePast, AnswerIs
<1> DEFINE s == Aggregate(bars, tf)
           c == Completed(bars, tf, t)
           last == c - shift
<1>1. bars \in Seq(MarketBars) /\ Timed(bars) /\ tf \in Nat \ {0}
  BY SeriesAssumption DEF TradesInv, TimesInv
<1>2. ReadOk(tf, t, s, c)
  BY <1>1, ReadIs
<1>3. Cardinality(EndedWith(tf, t)) = c /\ c \in Nat
  BY <1>2 DEF ReadOk
<1>4. ResolveIndex(bars, tf, t, shift) = IF shift >= c THEN 0 ELSE last
  BY DEF ResolveIndex
<1>5. CASE last < 1
  <2>1. shift >= c
    <3> HIDE DEF c
    <3> QED BY <1>3, <1>5
  <2>2. ResolveIndex(bars, tf, t, shift) = 0
    BY <1>4, <2>1
  <2>3. Answer(bars, tf, t, shift, Period) = <<>>
    BY <2>2 DEF Answer
  <2> HIDE DEF c
  <2> QED BY <1>3, <1>5, <2>3
<1>6. CASE ~(last < 1)
  <2> DEFINE i == last
  <2>1. i \in 1..c /\ ~(shift >= c)
    <3> HIDE DEF c
    <3> QED BY <1>3, <1>6
  <2>2. i = ResolveIndex(bars, tf, t, shift)
    BY <1>4, <2>1
  <2>3. i = Cardinality(EndedWith(tf, t)) - shift
    BY <1>3
  <2>4. ~(i < 1)
    BY <1>6
  <2> HIDE DEF i, s, c
  <2>5. AnswerIs(tf, t, i, Answer(bars, tf, t, shift, Period))
    BY <1>2, <2>1, <2>2, AnswerParts DEF s, c
  <2> QED BY <2>3, <2>4, <2>5
<1> QED BY <1>5, <1>6

(* No script reads the future, in any run: whatever the market, the gaps   *)
(* in its bars, the period and the timeframes are, an answer is made of    *)
(* the bars of ended buckets alone, and of all that its window has         *)
(* (AnswersFromThePast).                                                   *)
THEOREM AnswersCorrect == Spec => []AnswersFromThePast
<1>1. Init => TradesInv /\ TimesInv
  BY TradesInvInit, TimesInvInit
<1>2. TradesInv /\ TimesInv /\ [Next]_vars => (TradesInv /\ TimesInv)'
  BY TradesInvStep, TimesInvStep
<1> QED BY <1>1, <1>2, AnswersAreRight, PTL DEF Spec
=============================================================================
