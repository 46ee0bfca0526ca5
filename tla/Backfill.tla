------------------------------ MODULE Backfill ------------------------------
(***************************************************************************)
(* The command backfill of the simulator: for each date of a range the bid *)
(* and the ask klines are fetched with retries, joined by open time and    *)
(* saved in one transaction.  Dates whose fetch fails are skipped and      *)
(* listed; the operator runs the same range again.                         *)
(***************************************************************************)
EXTENDS Integers, Sequences, FiniteSets

CONSTANTS
  LastDate,    \* the range is 1..LastDate
  OpenTimes,   \* open times of a date
  Attempts,    \* 1 + length of GMO_RETRY_DELAYS
  MaxCommands  \* bound: how often the command is run

\* validate_backfill_range: the range is not empty.
ASSUME BackfillAssumption == LastDate \in Nat \ {0} /\ Attempts \in Nat \ {0}

Dates == 1..LastDate
Sides == {"bid", "ask"}

VARIABLES
  served,   \* served[d][s][t]: how many klines of open time t the exchange has
  broken,   \* broken: <<date, time>> whose prices are inconsistent
  simCandles, \* rows of sim_candles, as <<date, time>>
  date,     \* date being processed
  fetched,  \* sides of the date that were fetched
  attempt,  \* failed attempts for the side being fetched
  skipped,  \* sides of the date whose attempts are used up
  failed,   \* total.failed: <<date, side>>
  exit,     \* "none"; exit code 0 is "done", 1 is "error"; or "died"
  commands  \* how often the command was started

backfillVars == <<served, broken, simCandles, date, fetched, attempt, skipped, failed, exit, commands>>

BackfillInit ==
  /\ served \in [Dates -> [Sides -> [OpenTimes -> 0..2]]]
  /\ broken \in SUBSET (Dates \X OpenTimes)
  /\ \A b \in broken : \A s \in Sides : served[b[1]][s][b[2]] = 1
  /\ simCandles = {} /\ date = 1 /\ fetched = {} /\ attempt = 0 /\ skipped = {}
  /\ failed = {} /\ exit = "none" /\ commands = 1

Side == IF "bid" \in fetched \cup skipped THEN "ask" ELSE "bid"

\* fetch_day: an attempt that fails is repeated until none is left.
FetchFails ==
  /\ exit = "none" /\ fetched \cup skipped # Sides
  /\ IF attempt + 1 < Attempts
     THEN attempt' = attempt + 1 /\ UNCHANGED skipped
     ELSE attempt' = 0 /\ skipped' = skipped \cup {Side}
  /\ UNCHANGED <<served, broken, simCandles, date, fetched, failed, exit, commands>>

Fetch ==
  /\ exit = "none" /\ fetched \cup skipped # Sides
  /\ fetched' = fetched \cup {Side} /\ attempt' = 0
  /\ UNCHANGED <<served, broken, simCandles, date, skipped, failed, exit, commands>>

\* join_and_validate: one kline on each side, and consistent prices.
JoinAndValidate(d) ==
  {t \in OpenTimes : (\A s \in Sides : served[d][s][t] = 1) /\ <<d, t>> \notin broken}

\* Mutant: a date is listed only when both of its sides failed.
FailedSidesBoth == IF skipped = Sides THEN {<<date, s>> : s \in skipped} ELSE {}

FailedSides == {<<date, s>> : s \in skipped}

\* The date is left; after the last one the command prints and exits.
LeaveDate ==
  /\ failed' = failed \cup FailedSides
  /\ date' = date + 1 /\ fetched' = {} /\ skipped' = {}
  /\ exit' = IF date < LastDate THEN "none" ELSE IF failed' = {} THEN "done" ELSE "error"

\* upsert_bars writes the bars of the date.
DayBars == {<<date, t>> : t \in JoinAndValidate(date)}

\* A date with both sides is joined and its bars are saved together.
SaveDay ==
  /\ exit = "none" /\ fetched = Sides
  /\ simCandles' = simCandles \cup DayBars
  /\ LeaveDate
  /\ UNCHANGED <<served, broken, attempt, commands>>

SkipDay ==
  /\ exit = "none" /\ skipped # {} /\ fetched \cup skipped = Sides
  /\ LeaveDate
  /\ UNCHANGED <<served, broken, simCandles, attempt, commands>>

\* The transaction fails, or it is committed and the answer lost: the command
\* ends with this date.
SaveFails(committed) ==
  /\ exit = "none" /\ fetched = Sides /\ JoinAndValidate(date) # {}
  /\ simCandles' = IF committed THEN simCandles \cup DayBars ELSE simCandles
  /\ exit' = "error"
  /\ UNCHANGED <<served, broken, date, fetched, attempt, skipped, failed, commands>>

BackfillDies ==
  /\ exit = "none" /\ exit' = "died"
  /\ UNCHANGED <<served, broken, simCandles, date, fetched, attempt, skipped, failed, commands>>

\* The operator runs the same range again.
RunAgain ==
  /\ exit \in {"error", "died"} /\ commands < MaxCommands
  /\ commands' = commands + 1
  /\ date' = 1 /\ fetched' = {} /\ attempt' = 0 /\ skipped' = {} /\ failed' = {} /\ exit' = "none"
  /\ UNCHANGED <<served, broken, simCandles>>

BackfillNext ==
  \/ FetchFails \/ Fetch \/ SaveDay \/ SkipDay \/ BackfillDies \/ RunAgain
  \/ \E committed \in BOOLEAN : SaveFails(committed)

BackfillSpec == BackfillInit /\ [][BackfillNext]_backfillVars
-----------------------------------------------------------------------------
\* Bars are stored only for open times that both sides have exactly once with
\* consistent prices.  A date that the command has passed and does not list as
\* failed is stored whole, so that exit code 0 means that the range is whole,
\* however many earlier runs failed or died in the middle of it.
RangeWhole ==
  LET usable(d) == {t \in OpenTimes : served[d]["bid"][t] = 1 /\ served[d]["ask"][t] = 1
                                      /\ <<d, t>> \notin broken}
      stored(d) == {t \in OpenTimes : <<d, t>> \in simCandles}
  IN  \A d \in Dates : /\ stored(d) \subseteq usable(d)
                       /\ d < date /\ (\A s \in Sides : <<d, s>> \notin failed)
                            => stored(d) = usable(d)
                       /\ exit = "done" => stored(d) = usable(d)
=============================================================================
