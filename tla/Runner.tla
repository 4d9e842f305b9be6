-------------------------------- MODULE Runner --------------------------------
(***************************************************************************)
(* run_experiment of arch/common/runner.hpp with --ckpt-dir: the training  *)
(* loop, its periodic evaluation, the `best` and `latest` checkpoint sets, *)
(* --resume, and the record of the finished run.  One process runs at a    *)
(* time; it can be killed between any two of its steps and started again   *)
(* with any command, and the files are all that survives.                  *)
(*                                                                         *)
(* Weights are abstracted to a point <<line, n>>: the weights that n       *)
(* training steps produce from initial draw `line` when model, optimizer   *)
(* and batch stream advance together.  What training makes of any other    *)
(* combination is some point of the line Off.  `score` is the validation   *)
(* loss of every point, Inf standing for +inf and NaN, neither of which is *)
(* below anything.                                                         *)
(***************************************************************************)
EXTENDS Checkpoint

CONSTANTS
    Inits,        \* the possible draws of the initial weights
    Off,          \* the line of weights that no uninterrupted run reaches
    MaxStep,      \* bound: the largest --steps of a command
    Inf,          \* bound: losses are 0 .. Inf - 1, or Inf for none
    Landscapes,   \* the score functions considered
    Strays,       \* bound: the points of Off that are told apart
    Commands,     \* [steps, resume, fp]: the command lines considered
    NoCommand,    \* no process is running
    NoRecord,     \* no record was appended yet
    Unscorable,   \* losses of weights that --task cannot score, {} without --task
    EvalEvery,    \* --eval-every
    CkptEvery     \* --ckpt-every, 0 when not given

Lines == Inits \cup {Off}
Points == Lines \X (0 .. MaxStep)
Losses == 0 .. Inf
Fingerprints == {c.fp : c \in Commands}

ASSUME OffIsNoDraw == Off \notin Inits
ASSUME StepBound == MaxStep \in Nat
ASSUME LossBound == Inf \in Nat
ASSUME UnscorableAreLosses == Unscorable \subseteq Losses
ASSUME PeriodsAreNat == EvalEvery \in Nat \ {0} /\ CkptEvery \in Nat
ASSUME StraysAreSteps == Strays \subseteq 0 .. MaxStep
ASSUME LandscapesAreScores == Landscapes \subseteq [Points -> Losses]
ASSUME CommandsAreTyped ==
    \A c \in Commands : /\ c.steps \in 0 .. MaxStep
                        /\ c.resume \in BOOLEAN
ASSUME NoCommandIsNone == NoCommand \notin Commands

ASSUME NoRecordIsNone == NoRecord \notin [steps : 0 .. MaxStep, model : Points]

Snapshots == [model : Points, opt : Points, mt : Stray .. MaxStep,
              step : 0 .. MaxStep, best : Losses, fp : Fingerprints]

ASSUME SentinelsAreNoSnapshots == {Absent, Short} \cap Snapshots = {}

VARIABLES
    pc,      \* "off", "loop", "best" or "latest" (saving it), "report"
    cmd,     \* the command line of the running process
    step,    \* the loop counter
    best,    \* the lowest validation loss seen, carried over by a resume
    mem,     \* [model, opt, mt]: weights, Adam state, batch stream position
    w,       \* which file of the set is being written
    tmp,     \* that file's .tmp once it is written, Absent before
    disk,    \* the two checkpoint sets
    score,   \* the validation loss of every point; never changes
    exit,    \* how the last process ended
    record,  \* the last record appended to results.jsonl
    torn     \* ghost: some resume has loaded a torn set

vars == <<pc, cmd, step, best, mem, w, tmp, disk, score, exit, record, torn>>

\* What the running process would save now.
Snapshot == [model |-> mem.model, opt |-> mem.opt, mt |-> mem.mt,
             step |-> step, best |-> best, fp |-> cmd.fp]

Blank == [model |-> <<Off, 0>>, opt |-> <<Off, 0>>, mt |-> Stray]

Init ==
    /\ pc = "off" /\ cmd = NoCommand /\ step = 1 /\ best = Inf
    /\ mem = Blank /\ w = 1 /\ tmp = Absent
    /\ disk = [s \in Prefixes |-> NoFiles]
    /\ score \in Landscapes
    /\ exit = "none" /\ record = NoRecord /\ torn = FALSE

-------------------------------------------------------------------------------
(* Starting a process *)

\* The memory of a process is gone once it ends; only the files stay.
Stop(outcome) ==
    /\ pc' = "off" /\ exit' = outcome /\ cmd' = NoCommand
    /\ step' = 1 /\ best' = Inf /\ mem' = Blank /\ w' = 1 /\ tmp' = Absent

Resumes(c) == c.resume /\ HasSet(disk["latest"])

RestartCount(n) == 1     \* mutant
RepeatStep(n) == n       \* mutant
StartStep(n) == n + 1

ForgetBest(b) == Inf     \* mutant
CarriedBest(b) == b

(***************************************************************************)
(* No --resume, or no `latest` set: train from a new draw of the weights.  *)
(* The model is built in main, before run_experiment seeds the generator.  *)
(***************************************************************************)
FreshStart(c) ==
    /\ pc = "off" /\ ~ Resumes(c)
    /\ \E i \in Inits : mem' = [model |-> <<i, 0>>, opt |-> <<i, 0>>, mt |-> 0]
    /\ pc' = "loop" /\ cmd' = c /\ step' = 1 /\ best' = Inf /\ exit' = "none"
    /\ UNCHANGED <<w, tmp, disk, score, record, torn>>

ResumeStart(c) ==
    LET latest == disk["latest"] IN
    /\ pc = "off" /\ Resumes(c)
    /\ ~ LoadThrows(latest, c.fp) /\ SameFingerprint(latest, c.fp)
    /\ mem' = Loaded(latest)
    /\ step' = StartStep(latest["meta"].step)
    /\ best' = CarriedBest(latest["meta"].best)
    /\ torn' = (torn \/ Torn(latest))
    /\ pc' = "loop" /\ cmd' = c /\ exit' = "none"
    /\ UNCHANGED <<w, tmp, disk, score, record>>

\* The fingerprints are compared after everything is loaded: exit code 2.
RejectResume(c) ==
    LET latest == disk["latest"] IN
    /\ pc = "off" /\ Resumes(c)
    /\ ~ LoadThrows(latest, c.fp) /\ ~ SameFingerprint(latest, c.fp)
    /\ exit' = "rejected"
    /\ UNCHANGED <<pc, cmd, step, best, mem, w, tmp, disk, score, record, torn>>

\* torch::load throws out of main before any fingerprint is compared.
AbortResume(c) ==
    /\ pc = "off" /\ Resumes(c) /\ LoadThrows(disk["latest"], c.fp)
    /\ exit' = "aborted"
    /\ UNCHANGED <<pc, cmd, step, best, mem, w, tmp, disk, score, record, torn>>

-------------------------------------------------------------------------------
(* The training loop *)

OneMore(n) == n <= cmd.steps + 1    \* mutant
InLoop(n) == n <= cmd.steps

EvalDue(n) == n % EvalEvery = 0 \/ n = cmd.steps

CkptPeriod == IF CkptEvery > 0 THEN CkptEvery ELSE EvalEvery
LastOnly(n) == n = cmd.steps       \* mutant
CkptDue(n) == n % CkptPeriod = 0 \/ n = cmd.steps

Improved(loss) == loss < best

\* Model, optimizer and batch stream are those of one uninterrupted run.
OnTrack(m) == /\ m.model = m.opt /\ m.model[2] = m.mt
              /\ m.model[1] /= Off /\ m.mt < MaxStep

Trained(m) ==
    IF OnTrack(m)
    THEN LET next == <<m.model[1], m.mt + 1>> IN
         {[model |-> next, opt |-> next, mt |-> m.mt + 1]}
    ELSE {[model |-> p, opt |-> p, mt |-> Stray] : p \in {Off} \X Strays}

StuckStep(n) == n      \* mutant
NextStep(n) == n + 1

\* The rest of an iteration once the evaluation has been dealt with.
AfterEval(n) == IF CkptDue(n) THEN pc' = "latest" /\ step' = n
                              ELSE pc' = "loop" /\ step' = NextStep(n)

\* One optimizer step, then an evaluation where one is due.
Train ==
    /\ pc = "loop" /\ InLoop(step)
    /\ mem' \in Trained(mem)
    /\ LET loss == score[mem'.model] IN
       IF EvalDue(step) /\ Improved(loss)
       THEN best' = loss /\ pc' = "best" /\ step' = step
       ELSE best' = best /\ AfterEval(step)
    /\ UNCHANGED <<cmd, w, tmp, disk, score, exit, record, torn>>

-------------------------------------------------------------------------------
(* Saving a set: save_checkpoint, file by file *)

Saving == pc \in Prefixes

\* The iteration is done again after a best was saved.
Redo == pc' = "loop" /\ step' = IF pc = "best" THEN step ELSE NextStep(step)   \* mutant
\* `best` is saved before `latest` is, and `latest` ends the iteration.
AfterSave == IF pc = "best" THEN AfterEval(step)
             ELSE pc' = "loop" /\ step' = NextStep(step)

\* atomic_write: the new content goes to the .tmp file first ...
WriteTmp ==
    /\ Saving /\ tmp = Absent
    /\ \/ tmp' = Snapshot
       \/ FileAt(w) \in ShortWrites /\ tmp' = Short
    /\ UNCHANGED <<pc, cmd, step, best, mem, w, disk, score, exit, record, torn>>

\* ... and the rename puts it in place of the old file.
Install ==
    /\ Saving /\ tmp /= Absent
    /\ disk' = [disk EXCEPT ![pc][FileAt(w)] = tmp]
    /\ tmp' = Absent
    /\ \/ w < FileCount /\ w' = w + 1 /\ UNCHANGED <<pc, step>>
       \/ w = FileCount /\ w' = 1 /\ AfterSave
    /\ UNCHANGED <<cmd, best, mem, score, exit, record, torn>>

-------------------------------------------------------------------------------
(* After the loop *)

Done == pc = "loop" /\ ~ InLoop(step)

\* "Restore best params for the final reported metrics"; a best that was
\* carried over without its files is only warned about.
NeverRestored == FALSE     \* mutant
BestIsHere == best < Inf /\ HasSet(disk["best"])

\* The batch stream is loaded into an engine that is dropped.
WholeSet(set) == Loaded(set)      \* mutant
AllButStream(set) == [Loaded(set) EXCEPT !.mt = mem.mt]

LoadBest ==
    /\ Done /\ BestIsHere /\ ~ LoadThrows(disk["best"], cmd.fp)
    /\ mem' = AllButStream(disk["best"])
    /\ pc' = "report"
    /\ UNCHANGED <<cmd, step, best, w, tmp, disk, score, exit, record, torn>>

KeepCurrent ==
    /\ Done /\ ~ BestIsHere
    /\ pc' = "report"
    /\ UNCHANGED <<cmd, step, best, mem, w, tmp, disk, score, exit, record, torn>>

AbortRestore ==
    /\ Done /\ BestIsHere /\ LoadThrows(disk["best"], cmd.fp)
    /\ Stop("aborted")
    /\ UNCHANGED <<disk, score, record, torn>>

\* For a task the restored weights are driven over the test stream, longer than
\* any they were trained on, and a logit that is not finite throws.
AbortTest ==
    /\ pc = "report" /\ score[mem.model] \in Unscorable
    /\ Stop("aborted")
    /\ UNCHANGED <<disk, score, record, torn>>

Report ==
    /\ pc = "report" /\ score[mem.model] \notin Unscorable
    /\ record' = [steps |-> cmd.steps, model |-> mem.model]
    /\ Stop("ok")
    /\ UNCHANGED <<disk, score, torn>>

-------------------------------------------------------------------------------
(* The environment *)

\* The process is killed, or throws (a full disk in torch::save, say).
Crash ==
    /\ pc /= "off"
    /\ Stop("killed")
    /\ UNCHANGED <<disk, score, record, torn>>

\* Only the latest.* files are copied to the machine the run goes on at.
Migrate ==
    /\ pc = "off" /\ disk["best"] /= NoFiles
    /\ disk' = [disk EXCEPT !["best"] = NoFiles]
    /\ UNCHANGED <<pc, cmd, step, best, mem, w, tmp, score, exit, record, torn>>

Start(c) == FreshStart(c) \/ ResumeStart(c) \/ RejectResume(c) \/ AbortResume(c)
Process == Train \/ WriteTmp \/ Install \/ LoadBest \/ KeepCurrent
           \/ AbortRestore \/ AbortTest \/ Report

Next == \/ \E c \in Commands : Start(c)
        \/ Process
        \/ Crash
        \/ Migrate

Spec == Init /\ [][Next]_vars

\* A started process goes on until it ends, and a stopped one is restarted.
FairSpec == Spec /\ WF_vars(Process) /\ WF_vars(\E c \in Commands : Start(c))
===============================================================================
