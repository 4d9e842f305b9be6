------------------------------ MODULE RunnerProps ------------------------------
(***************************************************************************)
(* What run_experiment and its checkpoints promise.  `Resuming` commands   *)
(* are those of one run that is always restarted with --resume, as the     *)
(* design note of the checkpoints has it; where a property needs that, it  *)
(* says so, and the runs that check it allow no other command.             *)
(***************************************************************************)
EXTENDS Runner

Working == pc \in {"loop", "best", "latest"}
LatestMeta == disk["latest"]["meta"]
Readable(f) == f \notin {Absent, Short}

\* The step whose weights the running process holds, and what an uninterrupted
\* run holds after n steps.
Held == IF pc = "loop" THEN step - 1 ELSE step
AtPosition(m, n) == \E i \in Inits : m = [model |-> <<i, n>>, opt |-> <<i, n>>, mt |-> n]

\* Every variable stays in its range: the loop counter never passes the last
\* step by more than one, and no file holds anything but a whole snapshot, a
\* cut text, or nothing.
TypeOK ==
    /\ pc \in {"off", "loop", "best", "latest", "report"}
    /\ cmd \in Commands \cup {NoCommand}
    /\ cmd = NoCommand <=> pc = "off"
    /\ step \in 1 .. MaxStep + 1
    /\ pc \in {"best", "latest"} => step <= MaxStep
    /\ best \in Losses
    /\ mem \in [model : Points, opt : Points, mt : Stray .. MaxStep]
    /\ w \in 1 .. FileCount
    /\ tmp \in Snapshots \cup {Absent, Short}
    /\ disk \in [Prefixes -> [Files -> Snapshots \cup {Absent, Short}]]
    /\ \A s \in Prefixes : \A f \in {"model", "opt", "rng"} : disk[s][f] /= Short
    /\ score \in [Points -> Losses]
    /\ exit \in {"none", "ok", "rejected", "aborted", "killed"}
    /\ record \in [steps : 0 .. MaxStep, model : Points] \cup {NoRecord}
    /\ torn \in BOOLEAN

-------------------------------------------------------------------------------
(* The files *)

\* checkpoint_exists looks only for .meta: wherever a crash falls, a set that
\* has it has all its files, so that load_checkpoint never misses one.
MetaImpliesSet ==
    \A s \in Prefixes : HasSet(disk[s]) => \A f \in Files : disk[s][f] /= Absent

\* As long as no process of the directory has loaded a torn set, a process is
\* exactly where an uninterrupted run is at this step: same weights, same Adam
\* state, same position in the batch stream, however often and wherever it was
\* killed and resumed.
ExactResume ==
    Working /\ ~ torn => AtPosition(mem, Held)

\* What the comment of save_checkpoint says of .meta, taken at its word: the
\* same without excusing a resume that met files of two different saves.
MetaMarksValid ==
    Working => AtPosition(mem, Held)

\* A process is never ahead of latest.meta by more than a checkpoint period of
\* training steps, so that a run which is killed now, and is alone in its
\* directory, loses no more, unless a full disk has cut that file.
SavedStep == IF LatestMeta = Absent THEN 0 ELSE LatestMeta.step
WorkBounded ==
    Working /\ LatestMeta /= Short => Held - SavedStep <= CkptPeriod

\* Under resuming commands the saved progress never goes back: no save puts an
\* earlier step in place of a later one.
ProgressKept ==
    [][ Readable(LatestMeta) /\ Readable(LatestMeta')
          => LatestMeta'.step >= LatestMeta.step ]_disk

\* "best so far survives a resume": under resuming commands the best loss that
\* `latest` carries never gets worse.
BestSoFarSurvives ==
    [][ Readable(LatestMeta) /\ Readable(LatestMeta')
          => LatestMeta'.best <= LatestMeta.best ]_disk

\* Under resuming commands a directory stays with the model structure that
\* first completed a checkpoint in it.
FingerprintStable ==
    [][ Readable(LatestMeta) /\ Readable(LatestMeta')
          => LatestMeta'.fp = LatestMeta.fp ]_disk

\* The position of the running process and the one that `latest` holds, if they
\* are positions of an uninterrupted run.
At == IF ~ Working THEN Absent
      ELSE IF AtPosition(mem, Held) THEN mem.model
      ELSE Off
Safe == IF LatestMeta = Absent THEN Absent
        ELSE IF LatestMeta /= Short
                /\ AtPosition([model |-> LatestMeta.model, opt |-> LatestMeta.opt,
                               mt |-> LatestMeta.mt], LatestMeta.step)
             THEN LatestMeta.model
        ELSE Off

ASSUME AbsentIsNoPlace == Absent \notin Points \cup {Off}

Abstract == INSTANCE ResumableRun
    WITH Draws <- Inits, Steps <- MaxStep, None <- Absent, Lost <- Off,
         at <- At, safe <- Safe, dirty <- Torn(disk["latest"])

\* Under resuming commands the process and its five `latest` files amount to a
\* run that goes on where it last saved, and is lost only by a stop, or a full
\* disk, in the middle of a save.
ImplementsResumableRun == Abstract!Spec

-------------------------------------------------------------------------------
(* The report *)

\* The weights that are reported are at least as good as the best loss the run
\* remembers, crashes and torn sets included, whenever best.* is there.
BestKept ==
    pc = "report" /\ HasSet(disk["best"]) => score[mem.model] <= best

\* Once a run remembers a best loss, every file of best.* is its own: the
\* restore, which compares no fingerprint, cannot load another structure.
BestIsOwn ==
    pc \in {"loop", "latest"} /\ BestIsHere =>
        \A f \in Files : Readable(disk["best"][f]) => disk["best"][f].fp = cmd.fp

\* The reference: what an uninterrupted run of `steps` steps reports, the
\* first of the lowest evaluated losses, or the last step if none was finite.
Evaluated(steps) == {n \in 1 .. steps : n % EvalEvery = 0 \/ n = steps}
BestIn(loss, i, steps) ==
    LET finite == {n \in Evaluated(steps) : loss[<<i, n>>] < Inf} IN
    IF finite = {} THEN <<i, steps>>
    ELSE <<i, CHOOSE n \in finite : \A m \in finite :
                 \/ loss[<<i, n>>] < loss[<<i, m>>]
                 \/ loss[<<i, n>>] = loss[<<i, m>>] /\ n <= m>>
BestOf(i, steps) == BestIn(score, i, steps)

\* A run that was interrupted anywhere and resumed towards the same --steps
\* reports the weights the uninterrupted run reports, and its train_bpb on the
\* same batch of the stream (no torn set, best.* kept).
ReportIsBestOfRun ==
    pc = "report" /\ ~ torn /\ (best < Inf => HasSet(disk["best"])) =>
        /\ \E i \in Inits : mem.model = BestOf(i, cmd.steps)
        /\ mem.mt = cmd.steps

\* The seed fixes the initial weights: the same command line, run again from
\* the start, appends a record with the same val_bpb.
SeedDeterminesRecord ==
    [][record /= NoRecord => score[record'.model] = score[record.model]]_record

-------------------------------------------------------------------------------
(* Termination and liveness *)

\* The steps a process has left at most: an iteration trains once and writes and
\* renames each file of two sets, and after the last the process restores and
\* reports.
SetWork == 2 * FileCount
RoundWork == 1 + 2 * SetWork
LoopWork(n) == 2 + (IF InLoop(n) THEN RoundWork * (cmd.steps + 1 - n) ELSE 0)
SetWorkLeft == 2 * (FileCount + 1 - w) - (IF tmp = Absent THEN 0 ELSE 1)
WorkLeft ==
    CASE pc = "off"    -> 0
      [] pc = "report" -> 1
      [] pc = "loop"   -> LoopWork(step)
      [] pc = "latest" -> LoopWork(step + 1) + SetWorkLeft
      [] pc = "best"   -> LoopWork(step + 1) + SetWork + SetWorkLeft

\* Every step of a process brings it nearer to its end, so that one which is not
\* killed ends after so many steps, whatever files it started from.
EveryStepCounts ==
    [][Process => WorkLeft \in Nat /\ WorkLeft' < WorkLeft]_vars

\* If crashes stop, the restarted run always comes to append its record, or
\* comes every time to weights that its task cannot score.
EventuallyReported ==
    <>[][~ Crash]_vars =>
        []<>(exit = "ok") \/ []<>(pc = "report" /\ score[mem.model] \in Unscorable)
===============================================================================
