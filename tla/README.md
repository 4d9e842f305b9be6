# A TLA+ model of seqbench

seqbench measures byte-level prediction models in bits per byte. This directory
holds TLA+ models of the parts of it whose behaviour depends on the order of
things: the training runner with its checkpoints, the programs that launch it,
concurrent runs, the corpus and its sampling, the generators of the diagnostic
tasks, the scoring loops, and the two ways a neural model is run. TLC checks
them on small instances; TLAPS proves for all values of the constants every
property of the passing runs but the one of liveness, of which it proves the safety
half, and half of another.

1. [The system](#1-the-system)
2. [Modules and code](#2-modules-and-code)
3. [What is checked](#3-what-is-checked)
4. [What is proved](#4-what-is-proved)
5. [Findings](#5-findings)
6. [What is left out](#6-what-is-left-out)
7. [Plan](#7-plan)

Paths below are relative to the root of the repository.

## 1. The system

| component | source | state | operations |
|---|---|---|---|
| training runner | `arch/common/runner.hpp` | step counter, best loss, model, Adam state, batch generator | start, resume, train a step, evaluate, save `best` and `latest`, restore the best, append the record |
| checkpoint files | `arch/common/checkpoint.hpp` | five files under each of the prefixes `best` and `latest` | `save_checkpoint`, `load_checkpoint`, `checkpoint_exists` |
| corpus split and sampler | `arch/common/runner.hpp` | 90/5/5 slices, validation set | `slice`, `sample_batch`, `eval_val_bpb` |
| runs without `--ckpt-dir` | `arch/common/runner.hpp` | the shared `/tmp/seqbench_best.pt` | save and restore of the best weights |
| results log | `src/experiment.cpp` | `runs/results.jsonl` | `append_record` |
| diagnostic tasks | `src/diagnostics.cpp` | the stream and its masks | `make_parity`, `make_induction`, `fill_parity`, `fill_induction`, `score_diagnostic` |
| context model | `models/context_model.cpp` | packed context, table of counts | `predict`, `observe` |
| metric and sweep | `src/metric.cpp`, `src/sweep.cpp` | sum of costs, list of points | `score_stream`, `run_sweep` |
| neural models | `arch/{deltanet,gru,fast-weights}/` | weights; the adapter's states per layer | `forward`, `bpb_loss`, `predict`, `observe` |
| `train_*` programs | `arch/*/train_*.cpp` | the options read so far | read the command line, build the model and the structural config, call `run_experiment` |
| `bench`, `sweep` | `tools/` | none | parse arguments, call the scoring loops |
| corpus mapping | `src/corpus.cpp` | a descriptor, a read-only mapping, its length | constructor, destructor |

How they meet. A `train_*` program builds a model and gives it to
`run_experiment`, which draws batches from the sampler or from the task
generators, evaluates on a validation set drawn beforehand, saves checkpoint
sets, and at the end appends a line to the results log. Processes meet only in
files: a stopped run and its successor in the `--ckpt-dir`, runs that overlap
in `/tmp/seqbench_best.pt` and in the results log. For a task the runner ends
with `score_diagnostic`, which drives the adapter byte by byte; `bench` and
`sweep` drive `ContextModel` in the same way. Everything in one process is
sequential: no threads, no callbacks beyond plain calls.

What is hard about it, and what makes each part correct:

* **Crashes in saves.** A save is five renames. A process can be killed between
  any two of them, and a full disk can cut a text file without being noticed
  (`std::ofstream` errors are not looked at). The files must stay loadable
  (`MetaImpliesSet`), the resumed process must be where an uninterrupted run
  would be (`ExactResume`), and its final report must be the one of the
  uninterrupted run (`ReportIsBestOfRun`).
* **Two sets written in turn.** `best` is saved before `latest`, and the best
  loss is read from `latest.meta` while the best weights come from `best.*`.
  They must agree (`BestKept`, `BestIsOwn`, `BestSoFarSurvives`).
* **Many restarts** with other targets, without `--resume`, or with another
  model structure. Progress is never lost under `--resume` (`ProgressKept`), a
  directory stays with its structure (`FingerprintStable`), a kill costs at most
  one checkpoint period (`WorkBounded`), every step of a process brings it nearer
  to its end (`EveryStepCounts`), and the record is appended once the crashes stop
  (`EventuallyReported`).
* **Runs that share `/tmp/seqbench_best.pt`.** A run by itself must restore its
  own weights whatever earlier runs left (`AloneRestoresOwn`,
  `AloneNeverAborts`), and exit code 0 must mean a line in the log, an exception
  none (`LoggedIfDone`); a reader loses the line that follows a cut one, but no more
  of them than jobs have failed or been killed (`LossesAreAnnounced`).
* **One model, listed by hand.** The switches of an ablation go from the command
  line into the model, into the config of the record and into the fingerprint,
  each by a line of its own. The record must say what was asked for, as far as it
  has fields for it (`RecordTellsArgs`), and a resume must not cross ablations
  (`ResumeSameModel`).
* **Resources on error paths.** The constructor of `Corpus` can fail at three
  calls (`NothingHeld`), and training reads through pointers into its mapping
  (`SpanBacked`).
* **Weights that cannot be scored.** `score_diagnostic` throws on a logit that is
  not finite, and then there is no record, now or after any resume
  (`EventuallyReported` allows for that, and for nothing else).
* **Offsets.** `span.len - T - 1` in `size_t` (`ReadsInside`), the borders of
  the slices (`TrainingStaysOut`), buffers that end within a block
  (`FillsExactly`), packed contexts of order 0 and of a full word
  (`ScoresAreNgrams`), masks against streams (`OnlyValuesScored`), predictions
  against targets (`StreamMatchesForward`, `NoPeeking`), streams in which floor and naive cost
  meet (`StreamsTellModels`).
* **State carried too far, or not far enough**: parity between blocks, mappings
  between sequences, a model between points of a sweep, the validation set
  between evaluations (`ParityBlocks`, `InductionPairs`, `RecallIsKnowable`,
  `SweepIsFair`, `OneYardstick`).

## 2. Modules and code

| module | models | rests on |
|---|---|---|
| `Checkpoint` | the five files, their order, loading, cut files | |
| `Runner` | `run_experiment` with `--ckpt-dir`, crashes, migration of `latest.*` | `Checkpoint` |
| `RunnerProps` | its properties and its refinement mapping | `Runner`, `ResumableRun` |
| `ResumableRun` | what `--resume` promises, without files | |
| `RunnerProofs` | theorems about the runner, with the invariants they rest on | `RunnerProps` |
| `ReportProofs` | the same for its refinement of `ResumableRun` and its report | `RunnerProofs` |
| `Sampling`, `SamplingProofs` | slices, size guard, batches, validation set | |
| `Jobs`, `JobsProofs` | concurrent runs without `--ckpt-dir`, results log | |
| `Tasks` | the generators of the diagnostic tasks | |
| `Bench` | context model, scoring loops, sweep | `Tasks` |
| `Streaming` | `forward`/`bpb_loss` and the streaming adapters | |
| `Corpus` | the life of a `Corpus` object | |
| `Launch` | `main` of the three programs and `run_experiment` around the training | `Corpus`, `Sampling` (its slices and guard) |
| `BenchProofs` | theorems about `Tasks` and `Bench` | `Bench`, `NatSetProofs` |
| `StreamingProofs` | theorems about `Streaming` | `Streaming`, `NatSetProofs` |
| `LaunchProofs` | theorems about `Launch` and `Corpus` | `Launch` |
| `NatSetProofs` | induction over sets of naturals, functions defined by recursion, rows of equal length | |
| `MCRunner`, `MCJobs`, `MCBench`, `MCStreaming`, `MCLaunch` | constants of the small instances | |

### Runner and Checkpoint

Real weights cannot be enumerated, and only one thing about them matters to the
runner: which training they are the result of. So weights are a *point*
`<<line, n>>`, what `n` steps make of the initial draw `line` if model, Adam
state and batch stream advance together. The Adam state is such a point too,
and the batch generator is its number of batches drawn. When the three do not
fit together, training goes to the line `Off`, whose points stand for whatever
such training makes. `score` gives every point its validation loss and never
changes; it is chosen at the start from all functions of an instance. Losses
are small integers, and `Inf` stands for +inf and NaN, which are alike in
`vbpb < best`. The generator state of `.rng.pt` is part of a snapshot's
presence only, since no training step draws from it.

| action | code |
|---|---|
| `FreshStart` | the program builds the model, then `run_experiment` up to the loop (`runner.hpp:62-124`) |
| `ResumeStart`, `RejectResume`, `AbortResume` | `load_checkpoint` and the comparison of the fingerprints, `:125-137`; the load comes first and may throw |
| `Train` | one iteration of the loop up to its saves, `:146-160`, `:169` |
| `WriteTmp`, `Install` | one `atomic_write` of `save_checkpoint`: the content, then the rename |
| `LoadBest`, `KeepCurrent`, `AbortRestore` | `:171-185` |
| `AbortTest` | `:210-214`: for a task, a logit of the test stream is not finite and `score_diagnostic` throws |
| `Report` | `:187-235`: the record of the restored weights |
| `Crash` | a kill, or an exception in a save, between any two of these |
| `Migrate` | "only latest.* was rsync'd", `:174-177` |

A file holds the snapshot of the state it was written from, `Absent`, or
`Short` (cut). `load_checkpoint` takes from each file what it stores, so a set
of two saves is loaded as the mixture that it is. `torn` is a ghost variable:
some resume has loaded such a set. `Unscorable` are the losses whose weights the
task cannot score; it is empty for a run on a corpus. The test stream is longer
than any sequence of training, so a finite validation loss does not rule it out.
The restore of the best reads a batch stream too, into an engine that is dropped:
`AllButStream` leaves the stream of the run where it is.

`ResumableRun` has three variables: the position of the running process, the
position last saved, and whether a save is under way or was cut short.
`RunnerProps!Abstract` maps the runner to it: `At` and `Safe` are the positions
of memory and of the `latest` files, and `dirty` is whether these files are of
different saves. `ImplementsResumableRun` says that all the runner does under
resuming commands is a behaviour of it: a process goes on where the last save
was, and is lost only by a stop or a full disk in the middle of a save.

### Sampling

A sequence is its start; `Starts` computes `span.len - T - 1` modulo the range
of `size_t`. `Accept`, `HoldOne`, `TrainOne` and `Evaluate` follow
`run_experiment`: the guard of `:82`, eight validation batches of
`train_batch` (`:99-102`), training batches, `eval_val_bpb`. The code computes
slice borders in doubles, the model in integers; the two give the same borders
for every corpus length up to 2,000,000, compared one by one outside TLC.

### Jobs

One process per job, interleaved freely. `torch::save` is two actions,
`OpenBest` (truncation) and `CloseBest`, so another job can read the file
`Partial`, and two saves that cross can leave it `Garbled` (or as the last one
meant it). `Evaluate` covers the training up to the next evaluation, which
touches nothing shared. `append_record` writes its line (`AppendRecord`), or no
line or part of one (`AppendFails`); the process ends in a step of its own, with
code 0 (`Exit`) or by the exception (`Throw`), and can be killed before it. So a
whole line of a job that was killed is possible, and `LoggedIfDone` does not say the
opposite. A cut line has no end: the next append continues on it, and
to a reader of lines a record is `Legible` only if what stands before it is
whole. `alone` is a ghost: no other job has run since this
one began. Losses are free at every evaluation.

### Tasks, Bench, Streaming

`Tasks` writes streams byte by byte; random draws are free choices. `kind` tells
the made streams with masks (`make_*`) from the filled training buffers
(`fill_*`), which keep one mapping and may end anywhere. `Bench` drives
`ContextModel` over such a stream or over a given corpus. The context is the
packed integer of the code, in base `Base` for 256 and `MaxOrder` digits for 8
(`Power` holds the powers of `Base`, which the code takes by shifts); a cost is
the fraction whose logarithm `logit_bits` takes, so the properties compare exact
numbers. `NaiveCost` and `FloorCost` are the reference costs of a position
before `make_induction` and `make_parity` sum them, and `HasGap` the test of
`score_diagnostic` that their difference is positive.

`Streaming` replaces real numbers by terms: a layer's state is the sequence of
inputs it absorbed, an output is the layer applied to that state. Equality of
terms is then equality of the computation. One module stands for the three
models, which differ in what a layer does, in the number of layers and in what is
around them (`Nets`): nothing, or the residual block of DeltaNet with its norms
and, unless `--no-mlp`, its MLP. The code spells that block out twice, in
`BlockImpl::forward` and in `DeltaNetEval::observe`, and so does the model. The
same holds of the end of a network, the readout and before it, for DeltaNet, the
final norm: `Logits` applies it in `forward` to all positions at once, `Predicted`
in the adapter to the last output, which is kept without it.

### Launch and Corpus

`Launch` reads a command line token by token (`TakeSwitch`, `TakeValue`,
`RefuseLine`), with the defaults of `RunConfig` and of each `main`; `Numerals`
gives what `atoi`, `atof` and, for the seed, `strtoull` make of a token, reals in
units of 10^-7, and any other token is read as 0. `BuildModel` is the end of `main`. Then come the parts of
`run_experiment` that are not training: the corpus (`OpenCorpus`, with `Corpus`
step by step, `CorpusReady`, `CorpusThrew`), the size guard (`RefuseCorpus`,
`AcceptCorpus`, by the operators of `Sampling`), the resume (`Begin`,
`RefuseResume`, `LoadThrew`), the training in one step with the checkpoint it
leaves (`Train`, `Kill`, or `DivideByZero` under `--eval-every 0`), the record
(`Record`) and the destructors (`Return`). A checkpoint carries the program
and the options of the run that wrote it. `Config` is the map that each
`main` fills, `Fingerprint` rounds its reals to six digits as `std::to_string`
does, and `Params` are the parameters that the constructors register, by which
`torch::load` succeeds or throws: the one of the model where a parameter is not in the
archive, the one of Adam where its groups have another size, so that a checkpoint of
more parameters aborts as one of fewer does. (In `Runner`, `Incompatible` says
between which structures a load throws.) Exit codes 134, 136 and 137 stand for an
uncaught exception, the trap of a division by zero, and a kill.

`Corpus` has one action per system call, each of which can fail.
`NothingHeld` and `SpanBacked` are its two promises: what has thrown or is gone
holds nothing, and what is trained on is mapped.

An `Entry` of the log has the seed after its cast from `uint64_t` to `long` (`Signed`),
reals rounded to the ten digits of `%.10g` (`Kept`), the config of `main` and of
the runner (`RunConfig`, with the block length or dictionary of a task), the task
as a JSON string and the name of the corpus (`CorpusName`). `RecordTellsArgs`
compares it with a second reading of the command line
(`Told`: where options are, and what the last of each says): integers, switches
and the block length of a parity run as they are, reals if they have no more than ten
digits, the seed modulo the range of `uint64_t`, the task decoded from its JSON
string, and of `--corpus` whether it was the toy. `--eval-every`, `--device`,
`--resume`, `--ckpt-dir`, `--ckpt-every`, `--out` and the path of a corpus have no
field, and the property says nothing of them. `ResumeSameModel` compares the run with the one
whose weights it loaded: same parameters, same recurrence, up to differences
below 10^-6 which the six digits cannot tell.

## 3. What is checked

Passing runs:

| run | instance | states | shows |
|---|---|---|---|
| `runner_one_run` | 3 steps, 2 draws, all curves of losses 0, 1, Inf (one curve for both draws), evaluations at 2 and 3, `latest` at each step, cut `.mt` files, losses 1 and Inf not scorable | 765,294 | `TypeOK`, `MetaImpliesSet`, `ExactResume`, `BestKept`, `ReportIsBestOfRun`, `WorkBounded`, `EventuallyReported`, `EveryStepCounts`, `ImplementsResumableRun` |
| `runner_resuming` | `--steps` 2 and 3, a second structure of the same parameters, cut `.meta` files | 1,955,055 | `BestIsOwn`, `ProgressKept`, `BestSoFarSurvives`, `FingerprintStable`, `ImplementsResumableRun` |
| `runner_mixed` | with and without `--resume`, two structures whose archives do not load into each other, 2 steps, saves of `best` and `latest` at every step | 6,569,252 | `ExactResume`, `MetaImpliesSet` when fresh runs overwrite the files of others |
| `sampling` | corpora around the least accepted size, with wrap-around at 128 | 1,021,828 | `ReadsInside`, `TrainingStaysOut`, `OneYardstick` |
| `jobs` | three jobs, one of another architecture, two evaluations each | 5,636,766 | `AloneRestoresOwn`, `AloneNeverAborts`, `NoBestReportsOwn`, `LoggedIfDone`, `LossesAreAnnounced` |
| `bench` | binary bytes, 2-byte contexts, keys of 2 bytes; buffers of 0 to 8 bytes; all corpora up to 6 bytes | 90,658 | `FillsExactly`, `ParityBlocks`, `InductionPairs`, `RecallIsKnowable`, `ScoresAreNgrams`, `OnlyValuesScored`, `SweepIsFair`, `StreamsTellModels` |
| `streaming` | three layers, plain or in blocks with and without an MLP, all texts of two byte values up to 4 bytes | 2,616 | `StreamMatchesForward`, `NoPeeking` |
| `launch` | two launches in a row out of 83 command lines of the three programs | 111,545 | `NothingHeld`, `SpanBacked`, `RecordTellsArgs`, `ResumeSameModel` |

Why the bounds are enough. *Runner:* a mixture needs two saves of one prefix,
a resume, and a step to be trained twice; three steps with a `latest` save at
each give that with one to spare, and a `best` that is saved twice between
them. Losses 0, 1 and Inf give first, better, equal, worse and never.
The number of crashes and restarts is not bounded. *Sampling:* sizes 0 to 3
empty the slices, 21 is rejected by the validation slice alone, 59 and 60
are accepted for `T = 1` and rejected for `T = 2` by equality, with slice borders
that truncate and that do not, and 80 is accepted for both; 128 is small
enough for the subtraction to wrap within the range. *Jobs:* two evaluations
give a first save and one that overwrites, three jobs give two that
overlap and a third before, between or after them, of the same architecture or
not. *Bench:* orders below 0, at 0, inside, at the limit and above it;
sweeps that repeat an order, before and after another; two sequences of three
pairs, which give a fresh and a recalled key in each and a new mapping in
between; buffer lengths that end at every offset of a pair and of a block.
*Streaming:* more layers than two, so that a middle one exists, and texts
of 0 bytes up to ones with two positions between first and last.
*Launch:* a resume relates two launches, so two are enough; the lines have every
switch and every structural option changed one at a time and two pairs of them, a
lambda that differs in the seventh digit, missing values, unknown options, options
in the place of values, repeated options, numbers that are none, a negative `--seq-len`,
a seed in the upper half of its range and a negative one, a real of more digits than
are kept, a block length, a task with every
kind of character that JSON escapes, and corpora that are missing, empty, one
sequence too short and just long enough. The instance has 16 for the 2^64 of
`SeedRange` and 10^8 for the 10^10 of `Precision` (eight digits, for ten),
since TLC's integers have 32 bits; the theorem has no such bound.

`MaxStep`, `Evals`, `MaxLaunches`, `Blocks`, `Sequences` and the sets of commands, losses and
lengths are the only bounds; there are no state constraints. Deadlock is
checked for the runner, which can always be started again. In the other models the
end of the work is the end of the behaviour.

Fairness. `FairSpec` has weak fairness of the running process and of starting
one: a single-threaded program goes on until it ends, and an operator restarts
what has stopped (which is what `--resume` is for). Nothing is assumed of
crashes; `EventuallyReported` holds of the behaviours in which they stop, and
says that the record comes, or that every restart comes to weights the task
cannot score. It
does not ask for a particular command to be started: in `runner_one_run` there
is only one. There no structure differs and only `.mt` is cut, so no resume can be
rejected. A cut `.meta` would be: `load_checkpoint` reads no fingerprint from it, the
runner refuses, and so does every later start with `--resume`, until someone
removes the file. `EventuallyReported` does not hold on such disks and is not
claimed for them; what does hold there is checked in `runner_resuming`.

Every property has a mutant in `PROJECT.json`: an operator beside the definition
it would replace, marked `\* mutant` in the modules, that errs as the code
might (a step repeated on resume, `.meta` written first, a best forgotten, one
state for all layers), under which TLC finds the property violated.

## 4. What is proved

Each theorem holds for every value of the constants that meets the named `ASSUME`s
of the modules, and for behaviours of any length:

| theorem | states | assuming |
|---|---|---|
| `TypeCorrect`, `MetaImpliesSetAlways`, `ExactResumeAlways` | `TypeOK`, `MetaImpliesSet`, `ExactResume` | |
| `BestKeptAlways`, `BestIsOwnAlways` | `BestKept`, `BestIsOwn` | `AllResume` |
| `ProgressKeptAlways`, `BestSoFarSurvivesAlways`, `FingerprintStableAlways` | the three action properties of the runner | `AllResume` |
| `WorkBoundedAlways`, `EveryStepCountsAlways` | `WorkBounded`, and the action property that any process, killed or not, has only so many steps left | |
| `ImplementsResumableRunAlways` | `ImplementsResumableRun`: the runner implements `ResumableRun` | `AllResume` |
| `ReportIsBestOfRunAlways` | `ReportIsBestOfRun` | `AllResume`, `OneTarget` |
| `ReportIsBestOfFreshRun` | `ReportIsBestOfRun` of runs from the start, of any targets and structures | `AllFresh` |
| `SeedDeterminesRecordOfOneDraw` | `SeedDeterminesRecord`, which finding 2 refutes otherwise | `AllFresh`, `OneTarget`, one initial draw |
| `MetaMarksValidOrderly` | `MetaMarksValid` of `OrderlySpec` (no stop between the renames of `latest`), which finding 1 refutes otherwise | no cut files |
| `ReadsInsideAlways`, `TrainingStaysOutAlways`, `OneYardstickAlways` | the three properties of `Sampling` | |
| `NoBestReportsOwnAlways`, `AloneRestoresOwnAlways`, `AloneNeverAbortsAlways`, `LoggedIfDoneAlways`, `LossesAreAnnouncedAlways` | the five properties of `Jobs` | |
| `ReportsOwnBestQueued` | `ReportsOwnBest` of `QueueSpec` (no job starts beside another), which finding 4 refutes otherwise | |
| `NothingHeldAlways`, `SpanBackedAlways` | the two promises of `Corpus` | |
| `RecordTellsArgsAlways`, `ResumeSameModelAlways` | the two properties of `Launch` | |
| `StreamMatchesForwardAlways`, `NoPeekingAlways` | the two properties of `Streaming` | |
| `ParityBlocksAlways`, `InductionPairsAlways`, `RecallIsKnowableAlways` | three properties of `Tasks` | |
| `FillsInsideAlways`, `FillGoesOnAlways` | `FillsInside`, the first half of `FillsExactly`, and `FillGoesOn`: short of its end, a fill has a step whose guard holds | |
| `OnlyValuesScoredAlways`, `SweepIsFairAlways`, `StreamsTellModelsAlways` | three properties of `Bench` | |
| `ScoresAreNgramsAlways` | `ScoresAreNgrams` of every stream shorter than `CountLimit` | |

The assumptions and what in the code stands behind them:

* `AllResume`: every command has `--resume`. Without it the properties it
  guards are false by design, since a fresh run overwrites `latest`.
  `OneTarget`: all commands have the same `--steps`; a run that goes on past its
  target has a last step evaluated that the longer run does not evaluate.
  `AllFresh`: no command has `--resume`.
* Sentinels are no data (`SentinelsDiffer`, `AbsentIsNoPlace`, `NoRecordIsNone`, ...), losses and
  commands are typed, the evaluation period is positive, only the two text files can
  be cut (`OnlyTextIsCut`: `torch::save` throws).
* `NumeralsAreNumbers`, `SizesAreNat`, `TextsAreBytes`, `TaskSizes` and their like
  type the inputs. `SeedRange` is at least 2 (`SeedsAreMany`) and `Precision` a natural
  number (`PrecisionIsNat`). Jobs are finitely many (`JobsAreFinite`). `MaxOrder`,
  `CountLimit`, `Word` and `Layers` are positive.
* `KeysAreDistinct` is the one assumption about data; section 6 says when it fails.
* `Len(out) < CountLimit` in `ScoresAreNgramsAlways` says that no 32-bit count
  of the context model has wrapped. Past it the claim is false.

### The runner

* `TypeOK` is inductive only with `TmpInv`: what is renamed into place is what
  the process holds now, or a cut text file. This needs that nothing a snapshot
  contains changes during a save.
* `MetaImpliesSet` needs `WrittenInv`: the files before the one being written
  are there. `.meta` is the last in the order, so when it appears all are.
* `ExactResume` needs `LatestExact`: unless some resume was torn, every file of
  `latest` is the snapshot of a point of an uninterrupted run. The *set* need
  not be of one save for this; a set that is loaded and not torn is.
* `BestKept` and `BestSoFarSurvives` need `BestChain`: the loss of the weights
  in `best.model`, the best loss in memory and the one in `latest.meta` stand
  in this order, but for the moment before the first rename of a new best. This is
  where the order "`best` before `latest`" enters, and it needs no assumption
  about torn sets, because `.model.pt` is the first file of a save.
* `ProgressKept` and `FingerprintStable` need `Succession`: a process is past
  the step, and of the structure, of the `latest.meta` it finds.
* `BestIsOwn` needs `BestOwned`, which follows a save of `best` file by file
  (`WrittenNow`: what it has written is of this save), and which says the same of the
  best loss in `latest.meta`: a resume takes that over as its own.
* `ImplementsResumableRun` needs `NoOlderFile`: in a torn `latest` the other files
  are never *older* than the `.meta`, so what a torn load yields is either lost or
  still the position that `ResumableRun` remembers. `NextRefines` then maps every
  action to a step of `ResumableRun` or to a stutter: `Train` to progress, the
  renames of `latest` to the begin of a save and the last of them to its end, a resume
  to a restart from the last position saved.
* `ReportIsBestOfRun` needs `OneLine`, in two parts. `SavedRun`: the best
  loss in `latest.meta` is the lowest of those evaluated up to its step, and the
  weights in `best.model` improved on all before them, perhaps at a step that the
  resumed run has not come to again. `RunningRun` says so of the process.
  `FirstOfLowest` shows that at the target only one step meets both: the first of the
  lowest losses, which the reference definition chooses.

* `WorkBounded` needs `DueSaved`: of the steps behind the process, every
  multiple of the period is at most the step of `latest.meta`, which holds of a resume
  because it starts where that file says, and of a fresh run because its saves come
  one by one. `LastMultiple` turns that into a distance. In a directory of
  several runs the step may be that of another one.
* `EveryStepCounts` gives a process in its loop `RoundWork` steps for every
  iteration to come, and within a save two steps for every file to come
  (`SetWorkLeft`). It needs `InTime`, that nothing is saved past the target, and
  nothing about files, so it holds of a process started on any. What liveness
  adds to it is that the process is scheduled and started again.
* `ReportIsBestOfFreshRun` needs `FreshRun`, which is what `RunningRun` says
  (`OnLine`), and that `best.*` is the process's own from its first save on: a fresh
  run begins with best = Inf and reads nothing that it has not written. This
  is why no assumption on targets or structures is left.
  `SeedDeterminesRecordOfOneDraw` follows: one line has one best.
* `MetaMarksValidOrderly` needs `OneSave`: the files of `latest` are of one save,
  but for the time between the first and the last rename. Stops between writing a
  `.tmp` and the first rename are allowed.

### Sampling, jobs

For sampling the invariant says that everything drawn lies in
`Starts(TrainSpan)` and that drawing starts only past the guard, from which
integer arithmetic on percentages gives both bounds. For jobs, `Solo` says what
holds while a job is alone (no other runs, so the file is its own after its
first save), and `Untouched` that a job without a best has its own weights.
`LoggedInv` is `LoggedIfDone` and, besides, that a job past its write has its line,
which is what its exit rests on.
`LossesAreAnnounced` compares two counts. `CutsAreErrors` makes the cut lines
an injection into the jobs that have failed, or were killed, with no whole line, and
every record that is lost stands next to a cut line of its own. `ReportsOwnBestQueued` rests on the invariant of
the others: in a queue every job is `alone`.

### Launch and Corpus

`NothingHeld` is inductive with `CorpusInv`, which ties descriptor and mapping to
how far the constructor has come. `SpanBacked` needs `StageInv` besides: past
the guard the object is ready and not empty, since the guard turns down every
size that would leave no mapping (`EmptyIsTurnedDown`). `ResumeSameModel` needs that
checkpoints were written by launches (`SavedInv`), and `FingerprintIsModel`: two
typed option records with one fingerprint are of one model, up to the
digits lost (`SixDigitsTell`). `RecordTellsArgs` needs `LineInv`, the
invariant of a loop over tokens: at every option boundary each option has what
the last of its occurrences so far says. The boundaries are a set
defined by what precedes a token (`OptionsAre`), not by the loop. `DecodedWritten`
shows that a reader gets back every task name out of its JSON string, by induction over its
characters.

### Streaming

`ActsExist` and `ActsAre` show that the reference, a recursive function over layers,
exists and unfolds. `ForwardInv` says that layer-by-layer evaluation fills it row by row;
`AdapterInv` that the adapter fills it column by column: every layer has absorbed
the prefix that `forward` gives it, of the byte being observed only up to the layer
at work. The two meet in the last row. `NoPeeking` compares both with the reference
on the text cut off before the byte in question. That needs `ActsOfBeginning`, by
induction over layers: the activations at a position are those of the text that ends
there, which is the causality of the network, and for the first byte that the
adapter starts from zeros.

### Tasks and Bench

`ParityInv`, `PairInv`, `SequenceInv`, `ValueInv` and `SeenInv` describe a stream as
whole rows and a begun one: what `off`, `pair`, `vals` and `seen` say of the bytes
written so far. The properties speak of whole rows only, and hold by that.

The scoring loops only begin when the stream is complete (`SettledInv`), and from
there what a model has become is a function of order and position: `DrivenInv`
says so of the model at hand and of every point behind it, and `DrivesAlike`, by
induction over positions, that this function is unique, which is `SweepIsFair`.
`ScoresAreNgrams` needs `CountInv`: the table counts, modulo `CountLimit`, which byte
followed which *packed* context. `ContextIsWindow`, by induction over the
order, makes packed contexts windows: two positions have one context exactly
when the bytes before them agree, orders 0 and of a full word included
(`PowerDivides`: masking to `Base^order` commutes with the word's own
truncation). `TotalCounts` makes the sum of a row the number of positions.
`StreamsTellModels` is a pigeonhole (`KeysRepeat`): more pairs than keys repeat a
key in a sequence, and the value it recalls costs bits unless all bytes are alike.

### Recursion and induction

The provers have no induction over data as such. `NatSetProofs` derives what is
needed from the well-foundedness of `<`: a property is given as the *set* of the
numbers that have it (`SetInduction`, `BoundedInduction`), and a function
defined by recursion exists (`RecursionExists`). Recursive definitions in
the modules that are proved about (`Power`, `Total`, the activations of a
network) are functions, to which this applies.

### Only model-checked

`EventuallyReported`, which is liveness under fairness (`EveryStepCountsAlways` is what
of it is safety), and the second half of
`FillsExactly`, that a fill does not stop before its end, which is stated with
`ENABLED`: both are out of the prover's reach (`FillGoesOn` says of the latter what
the guards can say). The sentences that the four runs
of section 5 refute are no theorems of the whole system; three of them are
under the condition given there.

## 5. Findings

Four runs are expected to be violated. Each takes a sentence of the repository
at its word, and TLC shows a behaviour of the code that does not keep it. For
three of them a theorem says where the sentence does hold.

1. `runner_torn_set`, `MetaMarksValid`. "`.meta` written LAST: its presence
   marks the checkpoint set as valid" (`checkpoint.hpp:70`) is true for the first save
   of a prefix only. In every later one the old `.meta` is there while the other
   files are replaced; a crash in between leaves a mixture, and it is loaded.
   Without stops there, and on disks that cut no file, it is true
   (`MetaMarksValidOrderly`).
2. `runner_seed`, `SeedDeterminesRecord`. The design note of the checkpoints
   has "`torch::manual_seed(seed)` then model init"; the programs build the
   model before `run_experiment` seeds the generator. If the draw were fixed, one
   command line would always record one loss (`SeedDeterminesRecordOfOneDraw`).
3. `sampling_held_out`, `EvaluatesHeldOut`. The note on fast weights says that
   the runner evaluates on a held-out slice. The validation set is
   drawn from the train slice. No condition mends this one.
4. `jobs_clobber`, `ReportsOwnBest`. "Restore best params for the final
   reported metrics" (`runner.hpp:171`): of two overlapping runs of one
   architecture without `--ckpt-dir`, one reports the weights of the other. Jobs
   that are run one after another report their own (`ReportsOwnBestQueued`).

Two more disagreements were met and are no runs, since they lie in numbers that
the models abstract from:

* A diverged run logs `nan` or `inf` (`num_str`, `experiment.cpp:35`), where
  `docs/superpowers/specs/2026-06-18-fast-weights-design.md:214` promises "valid,
  parseable JSON".
* "Fraction-captured of a uniform model is about 0"
  (`docs/superpowers/specs/2026-06-18-train-on-task-diagnostics-design.md:116`).
  The naive cost of a value is its share in the whole stream, keys included,
  while only values are scored, so it lies above the 8 bits of the uniform model:
  computed with the code's own generator and defaults, naive is 9.34, floor 2.81,
  and the uniform model captures 0.205 (0.12 to 0.24 for dictionaries of 16 to
  256 keys of 2 to 8 bytes).

## 6. What is left out

* Tensor arithmetic: what a layer computes, what an Adam step does, gradients.
* Floating-point sums: Kahan summation, the sums of floor and naive costs, the
  quotient and clamp of `fraction_captured`.
* What `atoi` and `strtoull` make of numbers out of range; the argument parsing of
  `bench` and `sweep`; printing, CSV and JSON layout, provenance (git, clock).
* `Corpus::train/val/test`, which no program calls. Every corpus but the toy one
  is recorded as `enwik8-val` (`runner.hpp:226`), and a mistyped `--task` trains
  on the corpus (`:72`): both follow from one line and no property would add to it.
* `--seq-len -1`, which passes the size guard (`seq_len + 1` is 0) and then fails in
  libtorch, and a `--batch` below 1.
* Counts of the context model past 2^32 (a corpus of 4 GiB and more at order 0).
* Loss of power. The crash of the model is that of a process, after which the
  kernel still holds what was renamed; nothing in the code calls `fsync`.
* A rename that fails. The code ignores its result.
* Two processes on one `--ckpt-dir` at the same time.
* A `--resume` with another `--seed`, `--task`, `--corpus` or `--lr`, none of
  which is in the fingerprint: `score` belongs to the whole history. (`OneYardstick`
  is about the evaluations of one process and does not see this.)
* A torn archive in `torch::load` other than a missing one or one of another structure:
  `torch::save` throws on a full disk, so no cut archive is renamed.
* Keys that collide. The default dictionary (16 keys of 4 bytes) has none, and
  `KeysAreDistinct` is an assumption; 8 keys of 1 byte, say, do collide.
* The exit code of a resume over another structure, which a test wants "rejected
  with exit code 2" (`arch/deltanet/deltanet_test.cpp:157`): it is 134 wherever the
  load throws before the fingerprints are compared. The models have both ends, and
  the properties say that neither trains.

## 7. Plan

Written in this order, most important behaviour first: `Checkpoint` and
`Runner` with its proofs; `Sampling`; `Jobs`; `Tasks` and `Bench`; `Streaming`;
`ResumableRun`; `Corpus` and `Launch`; the proofs for all of these, last those
of the conditions in section 5, of the work a process has left, and of the causality of
the networks. To come, in this order:

1. A runner whose score changes between commands, for what the fingerprint
   leaves out (`--seed`, `--task`, `--corpus`, `--lr`), and which of the theorems
   survive there.
2. A disk that loses unsynced content, as a variant of `Install`.
3. `SingleRun`, an abstract specification of a job by itself, that `Jobs`
   implements as long as no other job of its architecture runs.
