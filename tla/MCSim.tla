------------------------------- MODULE MCSim -------------------------------
(***************************************************************************)
(* One command of the simulator's CLI: backfill, or sweep and run.         *)
(***************************************************************************)
EXTENDS Sweep, Backfill

VARIABLE cli \* the subcommand that dispatch runs

vars == <<cli, sweepVars, backfillVars>>

\* A default that is on the grid within the tolerance, and a max that the last
\* candidate exceeds by no more.
MCSpecs == {<<[kind |-> "int", min |-> 3, max |-> 5, step |-> 2, default |-> 5]>>,
            <<[kind |-> "int", min |-> 1, max |-> 2, step |-> 1, default |-> 1],
              [kind |-> "float", min |-> 0, max |-> 4, step |-> 5, default |-> 1]>>}
MCUses == (0 :> <<"a", "b">>) @@ (1 :> <<"b", "a">>) @@ (2 :> <<"a">>) @@ (3 :> <<"c">>)
MCBytes == [a |-> 2, b |-> 2, c |-> 4]

Init ==
  /\ cli \in {"backfill", "sweep"}
  /\ SweepInit /\ BackfillInit
  \* The state of the other command is fixed.
  /\ cli = "backfill" => command = "run" /\ specs = (CHOOSE s \in Specs : TRUE)
                                      /\ given = [i \in DOMAIN specs |-> specs[i].default]
  /\ cli = "sweep" => broken = {} /\ \A d \in Dates, s \in Sides, t \in OpenTimes : served[d][s][t] = 0

Next ==
  \/ cli = "sweep" /\ SweepNext /\ UNCHANGED <<cli, backfillVars>>
  \/ cli = "backfill" /\ BackfillNext /\ UNCHANGED <<cli, sweepVars>>

\* Threads are scheduled and calls return.
Fairness ==
  /\ WF_vars(cli = "sweep" /\ MainNext /\ UNCHANGED <<cli, backfillVars>>)
  /\ \A w \in Workers : WF_vars(cli = "sweep" /\ WorkerNext(w) /\ UNCHANGED <<cli, backfillVars>>)

Spec == Init /\ [][Next]_vars /\ Fairness

\* The promise of Sweep, for the commands it is about.
CommandEnds == cli = "sweep" => SweepEnds
=============================================================================
