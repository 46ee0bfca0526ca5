----------------------------- MODULE ParamGrid -----------------------------
(***************************************************************************)
(* The grid of parameters that a sweep searches, and the values that run   *)
(* accepts.  A combination is a number in mixed radix, the last parameter  *)
(* its lowest digit, and a parameter set is the sequence of the values at  *)
(* these digits.  Numbers are whole multiples of a unit that divides every *)
(* declared number and the tolerance: arithmetic is exact, the rounding of *)
(* f64 and integers beyond 2^53 are left out, and so is the error for more *)
(* than 2^63 combinations.                                                 *)
(***************************************************************************)
EXTENDS Integers, Sequences, FiniteSets, SequencesExt

CONSTANT Tolerance \* FLOAT_GRID_TOLERANCE

ASSUME ToleranceAssumption == Tolerance \in Nat

ParamSpec ==
  [kind : {"int", "float"}, min : Int, max : Int, step : Int, default : Int]

MaxFloatKAdjustments == 4

\* Two values of a parameter that count as the same: for an integer the equal ones.
Slack(s) == IF s.kind = "float" THEN Tolerance ELSE 0
Near(s, u, v) == u - v <= Slack(s) /\ v - u <= Slack(s)

\* a / m for a \in Nat, a half rounded up; round() rounds a half away from zero.
Rounded(a, m) == (2 * a + m) \div (2 * m)
NearestK(s, v) ==
  IF v < s.min THEN -Rounded(s.min - v, s.step) ELSE Rounded(v - s.min, s.step)

ParamValueAt(s, k) == s.min + k * s.step

\* is_on_integer_grid, is_on_float_grid
IsOnGrid(s, v) == NearestK(s, v) >= 0 /\ Near(s, v, ParamValueAt(s, NearestK(s, v)))

\* validate_int_param, validate_float_param
IsValidParam(s) ==
  /\ s.min <= s.default /\ s.default <= s.max /\ s.step > 0
  /\ IsOnGrid(s, s.default)

\* What parse_param_specs returns.
IsParamSpecs(specs) ==
  specs \in Seq(ParamSpec) /\ \A i \in 1..Len(specs) : IsValidParam(specs[i])

\* resolve_params: what run may be given, each value by --params or the default.
Resolved(s) == {v \in (s.min - Slack(s))..(s.max + Slack(s)) : IsOnGrid(s, v)}
ResolvedParams(specs) ==
  {x \in [DOMAIN specs -> UNION {Resolved(specs[i]) : i \in DOMAIN specs}] :
     \A i \in DOMAIN specs : x[i] \in Resolved(specs[i])}

\* The greatest k that fits; candidates beyond max that the tolerance lets in
\* are only looked for so far.
CandidateCount(s) ==
  LET k    == (s.max - s.min) \div s.step
      fits == (s.max + Slack(s) - s.min) \div s.step
  IN  (IF fits < k + MaxFloatKAdjustments THEN fits ELSE k + MaxFloatKAdjustments) + 1

DefaultK(s) == NearestK(s, s.default)

TotalCombinations(specs) == FoldLeft(LAMBDA n, s : n * CandidateCount(s), 1, specs)

DefaultIndex(specs) == FoldLeft(LAMBDA n, s : n * CandidateCount(s) + DefaultK(s), 0, specs)

\* Weight of digit i: the product of the radices after it.
Weight(specs, i) == TotalCombinations(SubSeq(specs, i + 1, Len(specs)))

CombinationAt(specs, index) ==
  [i \in DOMAIN specs |->
     ParamValueAt(specs[i], (index \div Weight(specs, i)) % CandidateCount(specs[i]))]

\* select_indices: what may be returned.  The default combination is first;
\* the others follow in order when they all fit, else a sample of them.
SelectIndices(specs, maxRuns) ==
  LET total  == TotalCombinations(specs)
      first  == DefaultIndex(specs)
      pool   == total - 1
      \* the number of the j-th combination, counted from 0, that is not the first
      Actual(j) == IF j < first THEN j ELSE j + 1
      others == [i \in 1..pool |-> Actual(i - 1)]
  IN  IF maxRuns = 0 THEN {<<>>}
      ELSE IF total <= maxRuns THEN {<<first>> \o others}
      ELSE {<<first>> \o [i \in 1..(maxRuns - 1) |-> Actual(sample[i])] :
              sample \in {s \in [1..(maxRuns - 1) -> 0..(pool - 1)] :
                            \A i, j \in DOMAIN s : i # j => s[i] # s[j]}}
=============================================================================
