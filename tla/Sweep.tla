------------------------------- MODULE Sweep -------------------------------
(***************************************************************************)
(* The commands sweep and run of the simulator: worker threads claim       *)
(* combinations from a queue, compute indicators through a shared cache    *)
(* with a budget that evicts the least recently used, and send their       *)
(* records through a bounded channel to the thread that saves them; the    *)
(* batch row says how it ended.  Runs may panic or fail, statements may    *)
(* fail or lose their answer, and the process may die.                     *)
(***************************************************************************)
EXTENDS Integers, Sequences, FiniteSets, SequencesExt, FiniteSetsExt, Functions, ParamGrid

CONSTANTS
  Workers,   \* effective_jobs threads
  Specs,     \* sets of parameter specs to sweep over
  MaxRuns,   \* --max-runs
  Keys,      \* indicator keys
  Uses,      \* Uses[index]: keys a run of this combination asks for, in order
  Bytes,     \* Bytes[k]: size of the series of key k
  Budget,    \* indicator_cache_mb
  MaxFaults  \* bound on panics, errors and failed statements

\* effective_jobs and --max-runs are at least 1; the script has been compiled
\* with the specs.
ASSUME SweepAssumption ==
  /\ Workers # {} /\ MaxRuns \in Nat \ {0}
  /\ \A s \in Specs : IsParamSpecs(s)

\* A run has at least one bar, and so has a series.
ASSUME CacheAssumption ==
  /\ IsFiniteSet(Keys) /\ Budget \in Nat /\ \A k \in Keys : Bytes[k] \in Nat \ {0}
  /\ \A s \in Specs : \A i \in 0..(TotalCombinations(s) - 1) : Uses[i] \in Seq(Keys)

ChannelCapacity == Cardinality(Workers)
NoEntry == [slot |-> 0, bytes |-> 0]

VARIABLES
  command,   \* "sweep" or "run"
  specs, indices, \* parameter grid and the combinations selected
  given,     \* the parameter set of the command run
  main,      \* where the command is
  code,      \* exit code, -1 before the exit
  batch,     \* status of the row of sim_batches, "none" before it exists
  saved,     \* saved[i]: rows of sim_runs for the i-th combination
  ok,        \* whether the record of the command run is RunStatus::Ok
  next, cancelled, \* WorkQueue
  worker,    \* worker[w]: place, claimed combination, keys left, slot held
  channel, received, finalErr, firstFatal, firstPanic, \* results
  cache, age, used, \* CacheInner: entries, keys used since last_used, used_bytes
  slots,     \* states of the OnceLocks
  faults

batchVars == <<code, batch, saved, ok>>
queueVars == <<next, cancelled>>
resultVars == <<channel, received, finalErr, firstFatal, firstPanic>>
cacheVars == <<cache, age, used, slots>>
choiceVars == <<command, specs, indices, given>>
sweepVars == <<choiceVars, main, batchVars, queueVars, worker, resultVars, cacheVars, faults>>

SweepInit ==
  /\ command \in {"sweep", "run"}
  /\ specs \in Specs
  \* run has one parameter set, without a number, and one record.
  /\ indices \in IF command = "run" THEN {<<0>>} ELSE SelectIndices(specs, MaxRuns)
  /\ given \in IF command = "run" THEN ResolvedParams(specs) ELSE {<<>>}
  /\ main = "register" /\ code = -1 /\ batch = "none"
  /\ saved = [i \in DOMAIN indices |-> 0] /\ ok = TRUE
  /\ next = 1 /\ cancelled = FALSE
  /\ worker = [w \in Workers |-> [at |-> "unborn", job |-> 0, todo |-> <<>>, slot |-> 0]]
  /\ channel = <<>> /\ received = 0
  /\ finalErr = FALSE /\ firstFatal = FALSE /\ firstPanic = FALSE
  /\ cache = [k \in Keys |-> NoEntry] /\ age = [k \in Keys |-> Cardinality(Keys)]
  /\ used = 0 /\ slots = <<>>
  /\ faults = 0

\* A statement succeeds, fails, or is executed and its answer lost.
Answers == {"ok", "failed", "lost"}
Fault(yes) == faults' = faults + (IF yes THEN 1 ELSE 0) /\ faults' <= MaxFaults
Go(w, at) == worker' = [worker EXCEPT ![w].at = at]
-----------------------------------------------------------------------------
(* Start of the command                                                    *)

\* register_script inserts the script or finds the one with the same hash;
\* create_batch inserts the batch as 'running'.  A failure ends the command.
RegisterScriptAndBatch(script, answer) ==
  /\ main = "register"
  /\ Fault(script = "failed" \/ answer # "ok")
  /\ batch' = IF script = "ok" /\ answer # "failed" THEN "running" ELSE "none"
  /\ IF script = "ok" /\ answer = "ok"
     THEN /\ main' = IF command = "run" THEN "run" ELSE "drain"
          /\ worker' = [w \in Workers |->
                          [worker[w] EXCEPT !.at = IF command = "run" THEN "gone" ELSE "claim"]]
          /\ UNCHANGED code
     ELSE main' = "exit" /\ code' = 1 /\ UNCHANGED worker
  /\ UNCHANGED <<choiceVars, saved, ok, queueVars, resultVars, cacheVars>>
-----------------------------------------------------------------------------
(* Workers                                                                 *)

WorkerStep == UNCHANGED <<choiceVars, main, batchVars>>

\* claim_next_unless_cancelled
Claim(w) ==
  /\ worker[w].at = "claim"
  /\ IF cancelled \/ next > Len(indices)
     THEN Go(w, "gone") /\ UNCHANGED next
     ELSE /\ worker' = [worker EXCEPT ![w] = [at |-> "lookup", job |-> next,
                                              todo |-> Uses[indices[next]], slot |-> 0]]
          /\ next' = next + 1
  /\ WorkerStep
  /\ UNCHANGED <<cancelled, resultVars, cacheVars, faults>>

\* The next key is done; the worker goes on to the one after.
NextKey(w) == worker' = [worker EXCEPT ![w].at = "lookup", ![w].todo = Tail(@), ![w].slot = 0]

\* The age of a key is the number of other keys used since; clock and last_used
\* tell no more than their order.
Touched(k) == [j \in Keys |-> IF j = k THEN 0 ELSE IF age[j] < age[k] THEN age[j] + 1 ELSE age[j]]

\* The entry of the key is found or made, and its slot taken along on a miss.
LookUp(w) ==
  LET k     == Head(worker[w].todo)
      fresh == cache[k] = NoEntry
      slot  == IF fresh THEN Len(slots) + 1 ELSE cache[k].slot
  IN  /\ worker[w].at = "lookup" /\ worker[w].todo # <<>>
      /\ age' = Touched(k)
      /\ IF fresh THEN /\ cache' = [cache EXCEPT ![k] = [slot |-> slot, bytes |-> 0]]
                       /\ slots' = Append(slots, "empty")
                  ELSE UNCHANGED <<cache, slots>>
      /\ IF slots'[slot] = "ready"
         THEN NextKey(w)
         ELSE worker' = [worker EXCEPT ![w].at = "init", ![w].slot = slot]
      /\ WorkerStep
      /\ UNCHANGED <<queueVars, resultVars, used, faults>>

\* OnceLock::get_or_init: one thread computes, the others wait for it.
GetOrInit(w) ==
  LET s == worker[w].slot
  IN  /\ worker[w].at = "init" /\ slots[s] # "busy"
      /\ IF slots[s] = "ready"
         THEN Go(w, "register") /\ UNCHANGED slots
         ELSE Go(w, "compute") /\ slots' = [slots EXCEPT ![s] = "busy"]
      /\ WorkerStep
      /\ UNCHANGED <<queueVars, resultVars, cache, age, used, faults>>

\* compute_fn returns, or panics: then the OnceLock is empty again and
\* catch_unwind keeps the panic.
ComputeSeries(w, panics) ==
  /\ worker[w].at = "compute"
  /\ Fault(panics)
  /\ slots' = [slots EXCEPT ![worker[w].slot] = IF panics THEN "empty" ELSE "ready"]
  /\ Go(w, IF panics THEN "cancel" ELSE "register")
  /\ firstPanic' = (firstPanic \/ panics)
  /\ WorkerStep
  /\ UNCHANGED <<queueVars, channel, received, finalErr, firstFatal, cache, age, used>>

\* Mutant: every thread that waited for the series adds its size.
RegisteredBytesTwice(w, k) == IF cache[k].slot = worker[w].slot THEN Bytes[k] ELSE 0

\* The size counts once, and only for the entry the slot belongs to.
RegisteredBytes(w, k) ==
  IF cache[k].slot = worker[w].slot /\ cache[k].bytes = 0 THEN Bytes[k] ELSE 0

\* The keys evict_over_budget removes when size bytes are used: one with a size
\* goes if without all that were last used before it the budget is exceeded.
Victims(c, size, protected) ==
  LET able == {j \in Keys \ {protected} : c[j].bytes > 0 /\ slots[c[j].slot] = "ready"}
      OlderThan(k) == {j \in able : age[j] > age[k]}
  IN  {k \in able : size - MapThenSumSet(LAMBDA j : c[j].bytes, OlderThan(k)) > Budget}

\* register_bytes_then_drop_entry_that_alone_exceeds_the_budget
Register(w) ==
  LET k     == Head(worker[w].todo)
      bytes == RegisteredBytes(w, k)
      full  == IF bytes = 0 THEN cache ELSE [cache EXCEPT ![k].bytes = bytes]
      out   == IF bytes = 0 THEN {} ELSE Victims(full, used + bytes, k)
      left  == used + bytes - MapThenSumSet(LAMBDA j : full[j].bytes, out)
      gone  == IF left > Budget /\ bytes > Budget THEN out \cup {k} ELSE out
  IN  /\ worker[w].at = "register"
      /\ cache' = [j \in Keys |-> IF j \in gone THEN NoEntry ELSE full[j]]
      /\ used' = IF gone = out THEN left ELSE left - full[k].bytes
      /\ NextKey(w)
      /\ WorkerStep
      /\ UNCHANGED <<queueVars, resultVars, age, slots, faults>>

\* run_one returns a record (also one of a script that failed), a fatal
\* error, or panics.  The error is noted before the queue is cancelled.
Result(w, outcome) ==
  /\ worker[w].at = "lookup" /\ worker[w].todo = <<>>
  /\ Fault(outcome # "record")
  /\ Go(w, IF outcome = "record" THEN "send" ELSE "cancel")
  /\ firstFatal' = (firstFatal \/ outcome = "fatal")
  /\ firstPanic' = (firstPanic \/ outcome = "panic")
  /\ WorkerStep
  /\ UNCHANGED <<queueVars, channel, received, finalErr, cacheVars>>

CancelQueue(w) ==
  /\ worker[w].at = "cancel"
  /\ cancelled' = TRUE /\ Go(w, "gone")
  /\ WorkerStep
  /\ UNCHANGED <<next, resultVars, cacheVars, faults>>

\* The channel is bounded: a full one makes the worker wait.
Send(w) ==
  /\ worker[w].at = "send" /\ Len(channel) < ChannelCapacity
  /\ channel' = Append(channel, worker[w].job) /\ Go(w, "claim")
  /\ WorkerStep
  /\ UNCHANGED <<queueVars, received, finalErr, firstFatal, firstPanic, cacheVars, faults>>
-----------------------------------------------------------------------------
(* The thread that saves: drain_sweep_results                              *)

\* save_run inserts a row of sim_runs; its id is new every time.
Save(i, answer) ==
  /\ Fault(answer # "ok")
  /\ saved' = [saved EXCEPT ![i] = IF answer = "failed" THEN @ ELSE @ + 1]

\* The first error cancels the queue; what comes after it is not saved, but
\* still received, so that no worker waits for room in the channel.
ReceiveRecord(answer) ==
  /\ main = "drain" /\ channel # <<>> /\ received < Len(indices)
  /\ received' = received + 1 /\ channel' = Tail(channel)
  /\ IF finalErr
     THEN UNCHANGED <<saved, finalErr, cancelled, faults>> /\ answer = "ok"
     ELSE /\ Save(Head(channel), answer)
          /\ finalErr' = (answer # "ok")
          /\ cancelled' = (cancelled \/ answer # "ok")
  /\ UNCHANGED <<choiceVars, main, code, batch, ok, next, worker, firstFatal, firstPanic, cacheVars>>

\* Mutant: the thread that receives keeps a sender of its own.
DisconnectedNever == FALSE

\* recv fails when the channel is empty and every sender is dropped.
Disconnected == channel = <<>> /\ \A w \in Workers : worker[w].at = "gone"

DrainEnds ==
  /\ main = "drain" /\ (received = Len(indices) \/ Disconnected)
  /\ main' = "join"
  /\ UNCHANGED <<choiceVars, batchVars, queueVars, worker, resultVars, cacheVars, faults>>

\* Mutant: panics of the workers are caught and forgotten.
SweepFailedIgnoresPanic == finalErr \/ firstFatal

\* Any error of on_result, of a run or a panic fails the sweep.
SweepFailed == finalErr \/ firstFatal \/ firstPanic

\* The scope ends when every thread has.
Join ==
  /\ main = "join" /\ \A w \in Workers : worker[w].at = "gone"
  /\ main' = IF SweepFailed THEN "fail" ELSE "complete"
  /\ UNCHANGED <<choiceVars, batchVars, queueVars, worker, resultVars, cacheVars, faults>>
-----------------------------------------------------------------------------
(* The command run: one combination, without queue and channel             *)

RunOne(outcome) ==
  /\ main = "run"
  /\ Fault(outcome \in {"fatal", "panic"})
  /\ ok' = (outcome # "script_error")
  /\ main' = IF outcome \in {"fatal", "panic"} THEN "fail" ELSE "save"
  /\ UNCHANGED <<choiceVars, code, batch, saved, queueVars, worker, resultVars, cacheVars>>

SaveOne(answer) ==
  /\ main = "save"
  /\ Save(1, answer)
  /\ main' = IF answer = "ok" THEN "complete" ELSE "fail"
  /\ UNCHANGED <<choiceVars, code, batch, ok, queueVars, worker, resultVars, cacheVars>>
-----------------------------------------------------------------------------
(* End of the command                                                      *)

\* finish_batch changes a batch only from 'running'.
FinishBatch(status, answer) ==
  batch' = IF answer = "failed" \/ batch # "running" THEN batch ELSE status

\* complete_batch: when it cannot be marked completed it is marked failed.
CompleteBatch(answer) ==
  /\ main = "complete"
  /\ Fault(answer # "ok")
  /\ FinishBatch("completed", answer)
  /\ main' = IF answer = "ok" THEN "print" ELSE "fail"
  /\ UNCHANGED <<choiceVars, code, saved, ok, queueVars, worker, resultVars, cacheVars>>

\* fail_batch_and_exit only logs that it could not mark the batch.
FailBatchAndExit(answer) ==
  /\ main = "fail"
  /\ Fault(answer # "ok")
  /\ FinishBatch("failed", answer)
  /\ main' = "exit" /\ code' = 1
  /\ UNCHANGED <<choiceVars, saved, ok, queueVars, worker, resultVars, cacheVars>>

\* The best runs are read and printed; the command run also tells by its
\* exit code whether the script failed.
PrintResult(answer) ==
  /\ main = "print"
  /\ Fault(answer # "ok")
  /\ main' = "exit" /\ code' = IF answer = "ok" /\ ok THEN 0 ELSE 1
  /\ UNCHANGED <<choiceVars, batch, saved, ok, queueVars, worker, resultVars, cacheVars>>

\* The process dies; the rows stay as they are.
Die ==
  /\ main # "exit"
  /\ Fault(TRUE)
  /\ main' = "exit" /\ code' = 137
  /\ worker' = [w \in Workers |-> [worker[w] EXCEPT !.at = "gone"]]
  /\ UNCHANGED <<choiceVars, batch, saved, ok, queueVars, resultVars, cacheVars>>

WorkerNext(w) ==
  \/ Claim(w) \/ LookUp(w) \/ GetOrInit(w) \/ Register(w) \/ CancelQueue(w) \/ Send(w)
  \/ \E panics \in BOOLEAN : ComputeSeries(w, panics)
  \/ \E outcome \in {"record", "fatal", "panic"} : Result(w, outcome)

MainNext ==
  \/ \E script, answer \in Answers : script # "lost" /\ RegisterScriptAndBatch(script, answer)
  \/ DrainEnds \/ Join
  \/ \E outcome \in {"ok", "script_error", "fatal", "panic"} : RunOne(outcome)
  \/ \E answer \in Answers :
       \/ ReceiveRecord(answer) \/ SaveOne(answer) \/ CompleteBatch(answer)
       \/ FailBatchAndExit(answer) \/ PrintResult(answer)

SweepNext == (\E w \in Workers : WorkerNext(w)) \/ MainNext \/ Die

SweepSpec == SweepInit /\ [][SweepNext]_sweepVars
-----------------------------------------------------------------------------
\* A batch is 'completed', and a sweep exits with 0, only if every selected
\* combination has exactly one row.
RunsAreSaved ==
  batch = "completed" \/ code = 0 =>
    batch = "completed" /\ \A i \in DOMAIN indices : saved[i] = 1

\* The parameter sets of the command.
ParamSets ==
  IF command = "run" THEN {given} ELSE {CombinationAt(specs, indices[i]) : i \in DOMAIN indices}

\* Every parameter set of a sweep is one that run accepts, so that its runs can
\* be repeated; the selection has the default parameters, up to the tolerance,
\* and no parameter set twice, and is all of the grid when that fits.
SelectionIsWhole ==
  batch = "completed" =>
    /\ ParamSets \subseteq ResolvedParams(specs)
    /\ command = "sweep" =>
         /\ \E x \in ParamSets : \A i \in DOMAIN specs : Near(specs[i], x[i], specs[i].default)
         /\ Cardinality(ParamSets) = Min({MaxRuns, TotalCombinations(specs)})

\* A sweep that says it is complete has run the grid, or a sample of it with
\* the default parameters, each parameter set once and each one that run would
\* accept (run_sweep, select_indices, candidate_count, complete_batch).
CompletedIsWhole == RunsAreSaved /\ SelectionIsWhole

\* The counter of the indicator cache is the sum of the sizes of its entries
\* and within the budget, and a computed series that is not counted yet is
\* about to be, whatever order threads look up, compute, register and evict.
CacheAccounted ==
  /\ used = MapThenSumSet(LAMBDA k : cache[k].bytes, Keys)
  /\ used <= Budget
  /\ main # "exit" => \A k \in Keys :
       cache[k] # NoEntry /\ cache[k].bytes = 0 /\ slots[cache[k].slot] = "ready" =>
         \E w \in Workers : worker[w].slot = cache[k].slot /\ worker[w].at \in {"init", "register"}

\* Every command ends: a full channel, a worker that died of a panic or an
\* error and results nobody wants leave no thread waiting.
SweepEnds == <>(main = "exit")
=============================================================================
