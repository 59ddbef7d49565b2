# Acoustic-Localization: a TLA+ verification project

TLA+ specifications of the programs of this repository and of the parts of its
vendored FFTW that have a life of their own, TLC configurations that model-check
them, and theorems about them checked by TLAPS. Line numbers refer to the files
under `src/`; FFTW's are those of `src/fftw-3.3.10/`.

## 1. The system

The programs measure the distance to a loudspeaker: record a chirp, correlate
the recording with the chirp, take the position of the peak as the delay, and
multiply it by the speed of sound. Distances to four speakers are to be
combined into a position.

| Component | State | Operations | Hard because |
|---|---|---|---|
| `localization.cpp`, measurement loop | program position, sample buffer, peak index, time of flight, round's start time; PRU driver | driver set-up, then for ever: start, poll `DRam[0]`, copy, reset `DRam[0]`, remove offset, correlate, report, configure, sleep | the PRU writes the same memory concurrently; no timeout; a kill or an error leaves the PRU as it is; timing |
| PRU sampler (libpruio, external) | driver state, `DRam[0]`, sample memory, sampling timer | `pruio_new`, `_adc_setStep`, `_config`, `_mm_start`, `_destroy`; store and count a sample | runs beside the ARM program in hard real time; its counter survives rounds and processes |
| `SAMPLING.cpp`, one-shot sampler | position, buffer; PRU driver | set-up, one measurement, print, destroy | never resets `DRam[0]`; destroys only on success |
| `Cross Correlation.cpp`, `localization.cpp:65-117`, `SimulatedChirp.m` | real arrays, half-filled complex arrays, plans | build chirp and signal, plan, transform, multiply by conjugate, transform back, index to time | uninitialised and stale array entries; order of planning and filling; conjugate of which factor; one-based indices |
| Peak search, `localization.cpp:104-117` | `max`, `index` | one comparison per value | `double` to `int`: truncation, undefined overflow |
| FFTW plans and twiddle tables (`kernel/twiddle.c`, `kernel/plan.c`, `api/`) | plan objects, hash table of reference-counted tables, planner | make, wake, execute, put to sleep, destroy, clean up | plans share tables; measuring fills tables with zeros; every round rebuilds all |
| FFTW planner (`kernel/planner.c`, `api/apiplan.c`) | two hash tables of solutions, wisdom state, clock | plan at rising patience, replay wisdom, recreate, import, forget | recursion over problems, time-outs inside it, wisdom that leads nowhere, open addressing with deletions |
| FFTW thread pool (`threads/threads.c`) | queue of workers, semaphores, work records on stacks | `spawn_loop`, worker, `kill_workforce`, `fftw_init_threads` | nested calls and several callers share the workers |
| Trilateration, `Megha's Algorithm/` | four distances, accumulated bias | 20 rounds: trial step for the direction, correction | non-convergence, circles that do not meet, `x1` never defined in `circle_intersection.m:8`, 0/0 after convergence |
| `FFT_signal.ino` | sample arrays, `micros()` | timed sampling, FFT, multiply, peak | wrap of `micros()`, `memcpy` of bytes |
| `latency_test.ino` | `start`, `end` | send once, receive | 16-bit clock difference, one `start` for all messages |
| `HC_SR04.ino` | | ping, print | echo timeout reads as distance 0 |

How they interact: `localization.cpp` and `SAMPLING.cpp` share memory with the
PRU through libpruio (the counter is written by both sides, the samples by the
PRU only) and call it for set-up; both use the same driver, so that each
run inherits what the previous one, of whatever program, left in the PRU.
`localization.cpp` and `Cross Correlation.cpp` call FFTW: `localization.cpp`
plans three times, executes, destroys and calls `fftw_cleanup` in every round.
The MATLAB and Arduino programs stand alone; numbers move between them by hand.
The programs do not use FFTW's threads or wisdom files; both are modelled because
they are where FFTW can go wrong as a system. The repository's own programs have no tests.

What makes each part correct:

- loop and one-shot sampler: the buffer used is a complete series of its own
  measurement, read when the PRU is not writing; rounds are neither early nor
  later than the time they lost; the program does not hang in the polling loop;
  the time of flight fits the sampling rate;
- correlation: the search sees the circular cross-correlation, whatever the
  arrays held; the delay of a delayed chirp is found;
- peak search: the place reported is (nearly) that of a maximum;
- plans and tables: a plan is executed with all its tables, its solvers and
  factors of its own; cleaning up leaves nothing behind;
- planner: whoever asks for a plan gets one if there is any, whatever wisdom and
  the clock did, and it obeys what was asked for; what is kept is enough to make it again;
- thread pool: every iteration is executed once, before `spawn_loop` returns;
  no worker reads a record that is gone; killing the pool ends all workers;
- trilateration: every round brings the distances closer to the true ones.

## 2. Modules

| Module | Models | Properties |
|---|---|---|
| `Ranging` | abstract specification: a report is backed by a complete series of its own round, read after it was complete | |
| `Pru` | libpruio and the PRU, as far as the programs rely on it (external) | |
| `Localization` (extends `Pru`) | `localization.cpp` | `TypeOK`, `FreshBuffer`, `QuietSharedMemory`, `SpacingAtLeast`, `SpacingAtMost`, `TofWithinOneSample`, `KeepsMeasuring`, `KeepsPromise` (implements `Ranging`) |
| `Sampling` (extends `Pru`) | `SAMPLING.cpp` | `QuietSharedMemory`, `MeasurementEnds`, `KeepsPromise` (implements `Ranging`) |
| `PeakSearch`, `MCPeakSearch` | the peak loop | `PeakNear`, `FirstOfEquals`, `PeakNearAlways` |
| `CrossCorrelation` (extends `PeakSearch`), `MCCrossCorrelation` | `Cross Correlation.cpp`, `localization.cpp:52-117`, `SimulatedChirp.m:14-29`, FFTW's transforms of four points | `IsCorrelation`, `ShiftFound`, `BestMatchFound`, `MatlabDelayFound` |
| `PrivateTables` | abstract specification: every plan has a table of its own | |
| `Twiddles` | `kernel/twiddle.c`, `kernel/plan.c` | `CountsUsers`, `SharingIsInvisible` (implements `PrivateTables`) |
| `PlanLifecycle` (extends `Twiddles`), `MCPlanLifecycle` | the calls a round of `localization.cpp` makes to `api/`, with the measuring of `kernel/timer.c` | `ExecutesWhole`, `RoundLeavesNothing`, `RoundsGoOn` |
| `SolutionTable` | the hash tables of `kernel/planner.c` | (named parts of `TablesSound`) |
| `Planner` (extends `SolutionTable`) | `mkplan`, `search`, `search0`, `invoke_solver`, `timeout_p` | |
| `ApiPlan` (extends `Planner`), `MCApiPlan` | `api/apiplan.c`, import and forgetting of wisdom | `TablesSound`, `KeptIrredundant`, `TimeIsNoticed`, `PlanIfAny`, `AfreshIsSound`, `Reconstructible`, `PlanningEnds`, `AlwaysIrredundant` |
| `LoopBlocks` | the arithmetic of blocks in `spawn_loop` | |
| `ParallelLoop` | abstract specification: a loop is open until every iteration was executed once | |
| `SpawnLoop` (extends `LoopBlocks`), `MCSpawnLoop` | `threads/threads.c` | `NoDanglingWork`, `NobodyEscapes`, `ExecutesEachOnce` (implements `ParallelLoop`), `EveryWaitEnds` |
| `Board` | a counter that wraps, and real time beside it | |
| `FftSignal` (extends `Board`) | `FFT_signal.ino` | `WaitIsExact`, `NegativeOnlyIfSpoiled` |
| `LatencyTest` (extends `Board`) | `latency_test.ino` | `DelayUpToRange` |
| `Trilateration` | `deltax.m` and the functions it calls | `ResidualShows`, `NeverAway`, `AllRounds`, `LostOnlyWhenConverged` |
| `Experiments`, `MCExperiments` | runs one of the last three | |
| `LocalizationProofs`, `SamplingProofs`, `PeakSearchProofs`, `CrossCorrelationProofs`, `PlanLifecycleProofs` (with `Twiddles`), `PlannerProofs`, `SpawnLoopProofs` (with `LoopBlocks`), `ExperimentsProofs` | | theorems (section 4) |

### State and actions

**Pru.** `dram0` is `io->DRam[0]`; `value` is `io->Adc->Value`, of which only the
age of each slot is kept: `"new"` if it was taken since the last
`pruio_mm_start`, `"old"` if before, `"none"` if never. `stored` is the PRU's own
count, `due` the time until the next conversion. Storing a sample and counting it
are two steps (`Store`, `Publish`), so that main can run between them. The
assumptions about the library, none of which the repository can confirm, are:
`pruio_new` stops the PRU and clears the counter (it loads the firmware anew);
`pruio_config` and `pruio_mm_start` may or may not clear the counter; samples are
stored before they are counted; in this mode the PRU stops after `samp` samples.
The mutant `PruNewKeepsCounter` shows that the first is needed: without it,
`SAMPLING.cpp` after an interrupted run prints samples of that run.

**Localization.** `pc` names the next statement of `main`; each action is one
statement or loop, only the copying loop takes one step per sample because the
PRU can run in between. A library call either succeeds or fails, and a failure
returns without `pruio_destroy`. `Kill` interrupts the process anywhere;
`Restart` runs the program again with fresh variables on the same PRU. A buffer
entry is an age and the number of times the ADC offset was subtracted. Polling is
one action that is enabled when the counter suffices; the reads that see less
change nothing. `Correlate` picks any index. `tof` is kept in units of
1/(samp-1), so that all is integer. The clock: `Tick` passes one unit of time;
`elapsed` is `steady_clock` since the round's `start`. In a round time passes
freely in the two waits (the polling loop, `sleep_for`) and for at most `MaxExec`
units elsewhere (`exec` counts them); that includes oversleeping and late polling.

**Sampling.** The same for `SAMPLING.cpp`; there time passes freely everywhere.

**PeakSearch.** One step per iteration. A value v of the signal stands for v/Frac,
so that `spectrum[i] > max` and the conversion of a `double` with a fraction are
exact. A conversion that does not fit an `int` may yield any member of the build's
set of results: the largest `int` (ARM), the smallest (x86), or either.

**CrossCorrelation.** `program` says which of the three programs runs. One step
per statement, then the steps of `PeakSearch`. `R2cf`, `R2cb` and `ApplyR2hc` are
FFTW's codelets for four points and the solver around them: the entry above the
middle is not written (and keeps the stack's value), the imaginary parts at both
ends are cleared going forward and not read going back. In the rounds of
`localization.cpp` the arrays come back with their old contents. The backward plan
carries `FFTW_DESTROY_INPUT` (`api/plan-many-dft-c2r.c:41-42`), so that `out` may
change under it. MATLAB's transforms are exact. The constants are four points and whole
values (`CorrelationAssumption`), amplitudes of which no correlation exceeds `IntMax`
(`AmplitudeAssumption`; finding 2 is what happens beyond), and, in the simulation, a chirp
that is not silent (`ChirpAssumption`).

**Twiddles.** `wakefulness[u]`, `req[u]` and `td[u]` are a plan object's state,
what it asks for and its table; `tab` the tables with their reference counts,
`twlist` the lists they hang in. The contents of a table are the angles of its
factors, computed by `compute` from the instructions, and zero in a measurement.
`Awake` is `X(twiddle_awake)` going up with lookup (`ok_twid`) or a new table,
`Sleep` the way down with the last user freeing it. A request's `r` is positive, and its
program ends with its only `TW_NEXT`, of positive step (`ProgramAssumption`), like all the
codelets' programs.

**PlanLifecycle.** A plan of the program is a tree of plan objects (`Trees`).
Planning is a search that makes, measures and destroys candidates in any order,
then the plan made again and woken (`mkapiplan`), the searched one destroyed.
`Measure = TRUE` covers `FFTW_ESTIMATE`, which the programs use, as the case in
which no candidate is timed. A measurement starts over when the clock goes
backwards (`timer.c`); a clock that goes forward is assumed, and the mutant
`measure_start_over` is what happens without it; `RoundsGoOn` says nothing of that loop. Each solver allocates its plan, so the
trees share no object with each other and none with the candidates (`LifecycleAssumption`).

**SolutionTable, Planner, ApiPlan.** A solution is `[s, l, u, limit, slvndx]`: the
problem, the flags it holds for, and the solver, or `INFEASIBLE`. The recursion of
`mkplan` through solvers is the sequence `stack`, one frame per call, `at` saying
where it is; every return that another call sees is a step. FFTW's flags are sets;
each solver has a set of flags that forbid it and a sequence of parts. Which of two
plans is faster, and when `timeout_p` finds time to be up, is chosen freely. `api` is
the call of `mkapiplan` (with `mkplan`'s up to four attempts), an import, or none. `Wisdom` is
`wisdom_state_t`; a frame's `owisdom` is the state kept while it replays, `NULL` when it
does not. A table is a sequence of slots, and adding, killing and growing are functions of it. What may be in a
file, `Files`, is what the export writes: a solution for a problem, with a solver that the problem has and no time limit, or
`INFEASIBLE` with one (`Stored`, `PlannerAssumption`). No solver is numbered `INFEASIBLE` (asserted at
`planner.c:102`), and a problem is not a part of itself through any solvers, so that the recursion of `mkplan` ends
(`PartsAssumption`). A plan is the set of all decisions in it, one `<<problem, solver>>` for each plan object it is made of
(`MakePlan`); what whole plans must be (`Obeys`, `Plannable`, `Replays`) is said with sets of decisions and of problems,
without recursion, so that it can be proved about.

**SpawnLoop.** `stack[t]` holds the calls of `spawn_loop` thread `t` is in, with the
work records of each, so that a pointer to a record is a call and a block, and
dangles when the call has returned. `doing`, `given`, `ready` and `done` are a
worker's position, record and semaphores. `kill` and `victim` are
`kill_workforce`, which holds the queue lock throughout. `times` counts how often
each iteration was executed and is the state of `ParallelLoop`.

**FftSignal, LatencyTest.** `micros` wraps at `Wrap`; `age` is true time since the
last event of interest. The entries of `soundReal` and `soundImag` are `"sound"`; those that
`memcpy` left out are `"stack"` (a number), `"huge"` (infinite, or so large that products or
their sums overflow) or `"nan"`. arduinoFFT is external: of it only matters that every entry of
a result depends on all entries of the argument. So one `"nan"` leaves no number in the result,
and a `"huge"` entry any set of them: infinities may cancel to what is no number in the
multiplication or the reverse transform.

**Trilateration.** `E` is the point, `bias` the common error that the four distances have in
this round; `Distances` gives them. The geometry is that of the code, in whole units instead of
doubles: `circle_intersection` gives an intersection by its distance along the side and off it
(the cosine and sine of `alpha` times `r1`), `Quadrilateral` the four that `drawa_quad` picks,
`centre_quadrilateral` the middles of its sides, times two. The two lines through opposite
middles bisect each other, so that `F` is the mean of the four intersections, unless a line is
vertical or the lines have one slope (`Degenerate`): then the code computes 0/0 or the
difference of infinities. `drawa_quad` is the residual. Roots and quotients are
rounded to the unit, which plays the part of a double's last digit: as with doubles, intersections closer
than that coincide. Everything is modelled relative to corner A. `x1Given` is whether MATLAB
finds an `x1` for `circle_intersection.m:8`, which the function does not define. The sum of
corrections that is printed as the error, `delta3`, is left out.

## 3. Runs

| Run | Bounds | What it shows |
|---|---|---|
| `localization_rounds` | 3 samples of 2 units, a second 6 as in the comment on line 28, period 8, MaxExec 3 | the hand-over, the timing, that the time of flight is right to one sample and that the loop implements `Ranging`, over all interleavings with failures, kills and restarts; under fairness it reports for ever unless it stops |
| `localization_tof_claim` | 3 samples of 5 units, period 12, second 3: the code's ratio of 5 s : 4 s : 1 s | violation, finding 1 |
| `sampling` | 4 samples of 2 units | any number of runs with failures and kills |
| `peak_search` | all signals of 3 values in thirds from -1 to just below 4, largest int 2, each kind of build | nearness and ties |
| `peak_claim` | the same signals, the build that saturates (ARM) | violation, finding 2 |
| `cross_correlation` | 4 points: all 48 chirps of two values in -3..3 with delays 0..2 (`Cross Correlation.cpp`), all 81 recordings of -1..1 with 3 chirps, rounds without end (`localization.cpp`) and once (`SimulatedChirp.m`) | the simulated delay is found; the search sees the correlation and reports a best match |
| `simulated_chirp_claim` | the same | violation, finding 3 |
| `plan_lifecycle` | 3 plans of 2, 1 and 2 objects, a candidate for the searches, 4 tables in 2 lists, 5 requests | rounds follow each other for ever, plans are executed whole, nothing is left, sharing tables is invisible |
| `spawn_loop` | 2 application threads, 6 workers, 3 calls with at most 7 iterations between them | `spawn_loop` implements `ParallelLoop`, returns, and the pool is killed completely |
| `planner` | a problem with a part, in tables whose searches collide; 3 flags, 3 levels of patience, with and without time limit and wisdom file; 2 plans between calls that forget | what the planner promises, below |
| `planner_assertion` | the same | violation, finding 4 |
| `experiments` | counter of 16 ticks, ints of 8 values, 4 samples; the 20 rounds of `deltax.m` on its table of 6 m by 5 m in units of 0.25 mm, for 20 points and 9 errors from -10 mm to 60 mm | waits and delays on a counter that wraps, what uninitialised memory does, the rounds of `deltax.m` |

What the deeper properties say. `SharingIsInvisible`: from waking to sleep a plan reads
exactly the factors a private table would hold, although it may be given another
plan's longer table, or one of another program that has the same effect; a table of
zeros, a shorter one, or one that differs in one instruction would show. `PlanIfAny`:
the user gets a plan if the solvers allow one (unless `FFTW_WISDOM_ONLY`), with only allowed
solvers in it; `mkapiplan` uses the recreated plan without a test (`apiplan.c:146-149`), so this
includes that recreation always succeeds. There is one more exception: when wisdom turned out bogus `mkplan` forgets it and plans
without asking the estimator any more (`apiplan.c:65-71`), so that this attempt gives no plan if time runs out in it. `AfreshIsSound`: after bogus wisdom was forgotten, planning
cannot be bogus again; the attempt of `apiplan.c:73-80` that ignores all wisdom is never
needed. `TablesSound` is what `check()` of debug builds asserts (`planner.c:995-1034`): a table is never full, its
elements are counted, and a search reaches every solution in it although others were deleted on the way; `KeptIrredundant` is
its remaining assertion, that no solution makes another useless; a file that denies a plan that exists could break it. `Reconstructible` is the comment at `apiplan.c:166`; it is restricted to calls without time
limit, because after one that timed out the table may hold only that the whole
problem cannot be planned in that time. `NobodyEscapes`
rests on an order the comment at `threads.c:358-364` describes
differently: it says workers enqueue themselves before they signal completion, while in
the code the spawner enqueues them after it has waited for the completion (lines
453-465). `WaitIsExact` allows exactly the sums that wrap. `NegativeOnlyIfSpoiled`
leaves open what a `"huge"` entry does, since it depends on signs and sums the model does not have.
`ResidualShows` says of the geometry what the correction needs of it: the
residual of a round and that of its trial are between 0.62 and 1.16 of the error when the distances are
too long, and between 0.70 and 1.41 when they are too short, up to one unit (0.7 of the average distance, so
that 0.7 would be exact). The ratio depends on the point, the error and the round. `NeverAway` and
`LostOnlyWhenConverged` are about the loop that uses the residual: its direction, and that the lines of the quadrilateral
are vertical or parallel only where the error has all but vanished, not for a point in an unlucky
place; the NaN that follows is harmless then, but it is there. `AllRounds` says that distances are never
corrected so far that circles no longer meet.

Why the bounds are enough. The hand-over depends on which slots are stored, counted
and copied: with three slots there is a first, a middle and a last one, and main can
be before, at and behind the PRU. Ages are relative, so the number of rounds and
restarts is unbounded. `Tmr` of 2 lets main act in the middle of a conversion, and
`Period` 8 against 6 units of sampling and up to 3 of execution gives rounds that
sleep, that just fit and that overrun. (The proofs remove these bounds.) Three
signal values let a peak come before, between or after others, and the range of the
values covers equal whole parts with different fractions, negative values and two
distinct overflows. Four points is the least size at which the transform has an entry
that is written in full, entries at both ends and an entry that is not written; the
size above it is not exact in integers. The requests of `plan_lifecycle` differ in
length only, in one instruction only, and in nothing but how the same factors are
written; two lists make them collide (`PlanLifecycleProofs` removes the bounds). Three
calls of `spawn_loop` can be nested in each other, one beside two, or follow each other, with a pool
shorter or longer than they want; six workers are more than they can ask for. A part that is
wanted twice, and by two solvers, under flags that are relaxed, lets a blessed and an unblessed solution of
it coexist, be killed and be missing; the wisdom file adds a solution whose part is missing, and an
estimate that can be killed together with a verdict of a call that timed out, so that a search must go on
behind a killed slot (the mutant `KilledInvalid` needs this). The points of `experiments`
are near the margins of `deltax.m:6`, on the table's axis and between; the errors have both
signs and include the literal 0.01 of `deltax.m:34`. A unit of 0.25 mm is as small as TLC's integers
allow (squares of distances stay below 2^31); `Resolution` is 16 units, while the literal error is 40. With the rounding of doubles the
same geometry, computed outside TLC, lost its point only at errors of some 5e-15 m. Twenty rounds go on past convergence.

Fairness. `KeepsMeasuring` and `MeasurementEnds` assume weak fairness of main's next
statement (Linux schedules the process), of the PRU's steps (it has its own
processor) and of time. A library call may fail, so nothing is assumed about success;
nobody is assumed to kill or restart the program. The PRU is hard real time: time
does not pass a conversion that is due. `PlanLifecycle` assumes that
its single thread goes on. `SpawnLoop` assumes weak fairness of every thread and worker and of
`kill_workforce`, nobody is obliged to call. In `ApiPlan` weak fairness of the calls is written
out, with "not idle" in the place of ENABLED and any change in the place of a call's, since nothing else changes
meanwhile: it is equivalent, and TLC need not evaluate
the whole planner to decide it.

Deadlock is checked wherever the system does not end: the peak loop and `Cross Correlation.cpp` do.
Every property of a passing run has a mutant, defined above the definition it
replaces: a bug that could have been in that line and that the property's run catches.

### Findings

1. `localization.cpp:28` says "Sampling rate: 50 kHz (20000 ns)" but the code sets
   100000 ns. `tof` (line 119) and the chirp (line 74) assume one second for all
   samples; the reported time of flight is five times too short. For the same reason the
   comment of line 145, "exactly 4 seconds", cannot hold: sampling alone takes 5 s.
2. `localization.cpp:112` says "finding the peak in the correlated signal". `max` is an
   `int`, the inverse transform is unnormalised, and a chirp received with an
   amplitude of 4 of 2048 ADC steps exceeds 2^31 (its correlation is amplitude x 12500
   x 50000). On ARM the conversion saturates: `max` stays at the largest `int`, and
   any later value above it takes the index, even one that is smaller than an earlier value by a unit or more. In `Cross Correlation.cpp` the peak
   is about 5.1e8 and fits.
3. `SimulatedChirp.m:28` says "converting that index to a time". Line 22 places the recording at the
   one-based index 101, but 100 is taken off the one-based index of the peak: a recording that begins with
   the chirp is reported with a delay of one sample, 8 mm, and every other one sample too late.
4. `kernel/planner.c:368-370` says "It is an error to insert an element that is subsumed by
   an existing entry" and asserts it in debug builds. After a time-out the estimator
   replays blessed wisdom, whose part `mkplan` records in the unblessed table, where an
   entry found before the time-out subsumes it. In release builds the redundant entry is harmless:
   the properties of `planner` hold with it.

Also met on the way, without a run of their own: `planner.c:676` says blessings are
inherited from wisdom, but `fill_slot` never stores one; after a time-out
`apiplan.c`'s `mkplan` falls back to the estimator, which succeeds (unless wisdom was bogus), so that the loop "until we run
out of time" goes on through the remaining levels instead of taking its `break`;
`SimulatedChirp.m` says the "chirp is only 0.5 sec" where its window of 1000 samples is 24
ms; `Reference_Signal.h` redefines a macro and an array of `FFT_signal.ino`, which does not compile as it is.

## 4. Proofs

TLAPS checks all theorems for every value of the constants the named assumptions allow.

**`LocalizationProofs`**: `Spec` of `Localization` implies each safety property that
`localization_rounds` checks (`TofWithinOneSample` for the documented rate, below), and `StartsClean`. None of them is inductive: that the
buffer is fresh depends on what the counter means while main polls, and that on the
counter being zero when the PRU was started, which is due to the reset and to the
reconfiguration of the round before. `RoundInv` puts this together:

- `PruBooks` (in `Pru`): the PRU's own count against its state and the slots it has written;
- `Handshake`: for each statement of main, what the PRU may be doing and what
  `DRam[0]` is worth (while polling, the PRU's count, or one less between storing and
  counting);
- `Buffer`: what the copying loop has filled, and the offsets subtracted;
- `Timing`: elapsed time = time lost + time of the conversions so far; in the sleep,
  elapsed + left = period + at most the time lost.

Each conjunct is shown to be preserved by one lemma with a step for each action that
can disturb it. `SpacingAtLeast` and `SpacingAtMost` follow from `Timing` at the two
steps that begin a new round (`RoundLength`). `LoopKeepsPromise` shows the refinement:
under the mapping of `Promise`, `MmStart` is `Begin`, a stored sample `Take`, a copied one
`Read`, `Report` is `ReportRound`, a failure or a kill `Stop`, the completed set-up
`Recover`, and every other step stutters. `TofIsRight`: if the samples take a second to within one sampling
period (`RateAsDocumented`, the claim of the comments), the time of flight is right to one sample for
every index and any constants; `TofNeedsTheRate` is the converse, that with a rate further off some index gives a wrong one.

**`SamplingProofs`**: the same for `SAMPLING.cpp`, with `SamplingInv`: the books, what main
may rely on, and what it has printed. The counter is not known after the
measurement, and need not be: `pruio_new` clears it. `Destroy` is the promise's `ReportRound`.

**`PeakSearchProofs`**: for signals of any length and values, any resolution and any
width of `int`, the search stays in its types, and `PeakNear` and `FirstOfEquals` hold of a
signal that fits. The invariant `PeakInv` says that `max` is the truncated value at `index` and nothing seen so far
truncates to more. `FirstSoFar` adds that no equal came before.

**`CrossCorrelationProofs`**: for every set of chirps and recordings the assumptions admit, whatever
the stack held, the search sees the circular correlation (`IsCorrelation`), the simulated delay is
found, and the recording's best match is reported. That
the codelets, the product with the conjugate and the codelet back give four times the
correlation is an identity of polynomials in eight numbers (`FourPointIdentities`, `ProductCorrelates`);
that a delayed chirp matches itself best is the inequality of squares for two values (`DelayMatchesBest`).
`CorrInv` says what is in each array at each statement, of the entries that were written, and cites
`PeakSearchProofs` for the search. A transform of other sizes is another algorithm and stays outside.

**`PlanLifecycleProofs`** has two parts. The first is about `Twiddles`: for any finite set of plans, any
tables, number of lists and requests, counts are the numbers of users (`CountsUsers`), no
plan lacks its table (`HasTable`) and the lists hold the live tables once each where they are looked
for (`ListedOnce`). The invariant `TableInv` is these with the types: a count is only right if waking finds
a live table, which it does because the lists hold no other, and freeing removes a table from its list only if
it is found there. `TablesArePrivate` is the refinement of `PrivateTables`: `ServedInv` adds
that a table was made by a program equal to the plan's own (`SameProgram`), and `ContentsBegin` that the
contents for fewer factors are the beginning of those for more. A table's contents are pieces, one per
factor, joined; the lemmas about joining go by the number of pieces, with the set of good numbers closed under
successors (`Successors`) because an induction theorem cannot be instantiated.

The second part is about the rounds. `CallInv` says which plans stand, are being made or woken, or are absent at each
statement, by `pc` and `k`, and that what the searches made is gone. From it, plans are executed
whole (`PlansExecuteWhole`), a round leaves nothing (`RoundsLeaveNothing`), and every call a round makes is one that `Twiddles`
allows, so that its theorems hold of the rounds (`RoundsUsePlans`, `RoundsSharePrivately`).

**`PlannerProofs`**: for any solvers, levels of patience, files, sizes and hashes, the search's end agrees with
what the clock said (`TimeIsNoticed`). The recursion makes this a statement about the whole stack. `Row` says
that all calls but the innermost wait for a part, that below a replay are only replays, which use wisdom and nothing else,
and that the searches above it all carry the outermost call's flags, hence agree on whether they are estimates; `Time` that
an estimate has not run out of time and a search that has, has no best plan. Neither is inductive without the other.

Its second part is about the hash tables, for any size they grow to and any words of the signatures: `SolutionsAreFound`
(`TablesSound`). `IsTable` says that the size is prime, the elements are counted and every solution is `Reached`: all
slots from where its search begins to its own are valid. An insertion keeps this because the table was grown to be larger than what
is in it, and because a step shorter than a prime size leads a search through every slot,
so that one of them is free (`InsertKeeps`); a deletion keeps it because a killed slot stays valid
(`KillKeeps`). That the next prime above n is at most 2n + 2, without which `next_prime` would have nothing to
return, is Bertrand's postulate; it is a hypothesis of the theorem, `Bertrand`, and nothing else is assumed of numbers. That a
solver is never stored as the answer to an impatient question depends on the recursion, and cites `Time`: `mkplan` stores a
solver only if the search was not out of time. `Types` are the planner's types and `IsTable` of both tables.

The third part is about what the planner says, for problems of any depth. Its invariant `Wise` adds to `Types` and the first two:

- `CallsInv`: each call of `mkplan` on the stack was made for the part its caller waits for and under the flags of the
  caller's solution (`Chain`), the outermost one for what the API asked (`Asked`), and wisdom is trusted outside replays
  as the API says, and after one as before it (`Trust`);
- `PlansInv`: every plan in somebody's hands is made of decisions that the flags it was made under allow;
- `Denials`: a call that is not out of time and gives no plan has tried every solver there is, under flags no stricter than were
  asked for; hence there is no plan. A file may lie about this, so it is claimed while no lie is believed: the estimator
  looks at no denials and, when all has been forgotten, none is false (`NoLie`, `Fresh`). `NoClock` says when time cannot run out;
- `RedundancyInv`: what a call looked for and did not find is still not there when it stores its solution. Its parts are other problems
  (`Unique`, by `PartsAssumption`); that a denial which the lookup passed over is kept beside a plan found nevertheless is excluded
  by `NoLie`;
- `SupportInv`: all parts of a solution have solutions in the table it is kept in, under flags that answer for its own
  (`Supported`), and a call that is under way has them stored before its own (`Backed`, `Awaits`): blessed in the
  blessed table, the others in either. So a replay of what the planner found itself never fails;
- `Promise`, `Remembered`: what the API holds of a plan when it is recreated, and what is left of it in the table.

These give the five theorems. `WhoAsksGetsAPlan` (`PlanIfAny`) and `PlannedAfreshIsSound` (`AfreshIsSound`) hold for any files. `NoneKeptIsUseless`
(`KeptIrredundant`) has the hypothesis `FilesTrue`, that no file denies a plan that exists: if one did, the planner would give up on a problem in one
call and solve it in another, and could keep a solution that makes another useless. `WisdomStaysSound` and `PlansCanBeReconstructed` (`Reconstructible`) have
`FilesSound`, that files are true and hold all that following their solutions needs: otherwise the table could not, since a solution that
is read is kept. `WisdomStaysSound` is also why the hypothesis is fair: a table that stays sound is what `fftw_export_wisdom` writes,
so the files of an FFTW with the same solvers are sound. The file of the run `planner` is true but not sound (a solution whose part is missing is in it), and
there `Reconstructible` holds all the same. All five use `Bertrand`, since what is stored must be found. `Wise` was checked by TLC on the instance
of `planner`, with its file and with a sound one, before it was proved.

**`SpawnLoopProofs`**: for every `loopmax` and `nthr`, the blocks of `spawn_loop`
partition the iterations, none is empty or longer than the block size (`BlocksPartition`),
and the number of threads is the least with which no block is longer than with all (`FewestThreads`);
this is the bracket that division rounded up gives. Of the pool, for any threads, workers, shapes and bounds:
no worker reads a record that is gone (`NoDanglingWork`), killing leaves none behind (`NobodyEscapes`), and `spawn_loop` implements
`ParallelLoop` (`PoolExecutesEachOnce`). `OwnedInv` gives every living worker one owner, the queue, one block of one call, or
`kill_workforce`, and says what its semaphores and position may be under each; a record dangles only if a call returned with a
worker it still owned, and the order of `Collect` before `Enqueue` before the return excludes that. `Progress` relates
the executions counted so far to the position of each call's blocks: a block of a call that returns has been executed once.
`SpawnLoopAssumption` says that applications and workers are different threads and that `NULL` is neither a worker nor a record.

**`ExperimentsProofs`**: whatever the width of the counters and the number of samples, waits are exact
(`WaitIsExact`), a negative time comes from what `memcpy` left out (`NegativeOnlyIfSpoiled`), and a delay is right up
to the range of an `int`. `FftInv` and `LatencyInv` are congruences between the wrapped differences and the true time, and
what is known of the product. Of `deltax.m`, for any table, points, errors and number of rounds: if in every round
`ResidualShows` holds, no round takes the distances away (`CorrectionsConverge`). The residual is an absolute value, so that the correction may have
either sign; the theorem says that the comparison of the trial's residual with the round's decides this rightly, also where
the trial has no point, and that what is left of the error, above a `Resolution` of 16 units, is less than before (`CorrectionCloser`:
with residuals of 0.62 to 1.16, and 0.70 to 1.41, of the error the residual of a trial in the
wrong direction is the larger one, and a step in the right one is shorter than twice the error). `ResidualShows`, about roots of squares,
is a hypothesis there because the prover has no theory of the recursive `Root`; the run `experiments` checks it on the table of `deltax.m`.

The library assumptions of section 2 are part of the models the theorems are about.

Only model-checked:

- liveness (`KeepsMeasuring`, `MeasurementEnds`, `RoundsGoOn`, `EveryWaitEnds`, `PlanningEnds`), which needs
  ENABLED and is out of this prover's reach;
- the geometry of `deltax.m` (`ResidualShows`, `LostOnlyWhenConverged`, `AllRounds`), which is computed with a recursive root;
- `AlwaysIrredundant` and the claims of the other violation runs, which do not hold.

## 5. Not modelled

- Most of FFTW by lines: some three hundred thousand lines of generated, straight-line codelets
  in many variants (sizes, SIMD sets, FMA), whose correctness is an identity on floating-point
  numbers and has no states to explore; two codelets stand for them. Likewise `trig.c`, the MPI,
  Fortran and test parts, the registry of solvers, the text format of wisdom, flags that
  solvers change for their parts, `FFTW_BELIEVE_PCOST`, and the MPI hooks of the planner. Because of these
  files the models cover only a very small share of the repository's lines.
- The failure of `pthread_create`, whose result `threads.c:144` ignores: no property of the
  pool would hold. Null returns of FFTW's planner and stack exhaustion (six arrays of
  50000 in `localization.cpp`, 3.6 MB).
- What is printed, and the two conversions in `printf("%u\n", samples[i])` of a `double`
  (`localization.cpp:55`), undefined but without effect on the state.
- The chirp's shape (sine values); correlation holds for any chirp. Floating-point rounding.
- `HC_SR04.ino`: straight-line code around `pulseIn`, which returns 0 on a
  timeout; its counter and sum are never read.
- `centroid_quadrilateral.m` (never called), plots, the
  serial port in `SimulatedChirp.m` and its second experiment, which only plots.

## 6. Plan

Done: everything in section 2.

What is left, in the order of importance:

1. `Sampling` and `Localization` with different numbers of samples, one after the other on one PRU.
2. The registry of solvers and its dependence on wisdom (`slv` by name and index) when the library that reads a
   file has other solvers than the one that wrote it.
